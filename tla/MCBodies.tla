------------------------------ MODULE MCBodies ------------------------------
(* Two functions, at most four calls in a conversation; a budget below the  *)
(* default limit, one equal to it and one above.                            *)
EXTENDS Bodies

Four == <<"c1", "c2", "c3", "c4">>
Made == <<"toolu_autogen_0", "toolu_autogen_1">>
Lists == {<<"f">>, <<"f", "g">>, <<"f", "f">>}
Budgets == [low |-> 1, medium |-> 3, high |-> 4]

(* Three kinds of output: tracebacks, whose headers may be indented and     *)
(* which a warning may interrupt, frames, and warnings among errors.        *)
Line(class, indented, size, key) == [class |-> class, indented |-> indented, size |-> size, key |-> key]
Plain == Line("other", FALSE, 4, 0)
Outputs ==
  {{Line("header", FALSE, 2, 0), Line("header", TRUE, 2, 0), Line("other", TRUE, 2, 0),
    Line("frame", TRUE, 2, 0), Line("exception", FALSE, 2, 0), Line("warn", FALSE, 3, 1),
    Line("blank", FALSE, 1, 0)},
   {Line("error", FALSE, 2, 0), Line("frame", TRUE, 2, 0), Line("exception", TRUE, 2, 0),
    Line("info", FALSE, 1, 0), Plain},
   {Line("warn", FALSE, 2, 1), Line("warn", FALSE, 4, 2), Line("fail", FALSE, 2, 0),
    Line("summary", FALSE, 1, 0), Line("run", FALSE, 2, 0), Plain}}
=============================================================================
