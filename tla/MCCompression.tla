--------------------------- MODULE MCCompression ---------------------------
(***************************************************************************)
(* Two conversations that read the same test log, through a memo of half   *)
(* the texts they look up.                                                 *)
(***************************************************************************)
EXTENDS Compression

Tool(text) == [form |-> "tool", text |-> text]
Said(text) == [form |-> "words", text |-> text]

\* "build" and "tests" shrink, "dense" is a log that does not, "prose" is no
\* log and "short" is below the threshold.
Known == {"build", "tests", "dense", "prose", "short"}
Made == Known \cup {"build-", "tests-", "dense-"}
Digests == {<<t>> : t \in Known}
Digest == [t \in Known |-> <<t>>]
Bytes == [t \in Made |-> CASE t = "build" -> 9 [] t = "tests" -> 7
                           [] t = "build-" -> 4 [] t = "tests-" -> 3
                           [] t = "short" -> 2 [] OTHER -> 6]
LogTexts == {"build", "tests", "dense", "short"}
Lines == [t \in LogTexts |-> CASE t = "build" -> "build-" [] t = "tests" -> "tests-"
                               [] t = "dense" -> "dense-" [] OTHER -> t]
Spoken ==
  "a" :> <<Said("prose"), Tool("build"), [form |-> "block", text |-> "short"],
           Tool("tests")>>
  @@ "b" :> <<Tool("tests"), Tool("short"), Tool("dense")>>
=============================================================================
