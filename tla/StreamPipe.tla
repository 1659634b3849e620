----------------------------- MODULE StreamPipe -----------------------------
(* What the pipes of stream/ share: reading the frames of an upstream SSE   *)
(* stream, writing to a client that may go away, and the end of a request,  *)
(* when the usage middleware commits what was observed.                     *)
(*                                                                          *)
(* A pipe is one call of readSSE with a callback; one action is one run of  *)
(* the callback for a frame, with everything it writes.                     *)
EXTENDS UsageAccumulator, Sequences, SequencesExt

CONSTANTS
  Pipes,       \* the pipes a run looks at
  MaxFrames,   \* bound: frames the upstream sends, for each pipe
  MaxCount     \* bound: largest token count

ASSUME PipeAssumption == MaxFrames \in [Pipes -> Nat] /\ MaxCount \in Nat

VARIABLES
  pipe,          \* which pipe this request uses
  includeUsage,  \* stream_options.include_usage of the client
  up,            \* what the upstream has sent
  frames,        \* how many frames of it were read
  local,         \* the variables of the pipe's closure
  phase,         \* "open", "loop", "after" the loop, "closed", "counted"
  cut,           \* how reading ended: "none", "eof", "error", "closed"
  terminal,      \* a pipe's terminal (or failed)
  writeFailed,   \* a pipe's writeFailed
  gone,          \* the client has gone: no write succeeds
  out,           \* what the client received
  acc,           \* the accumulator of the request
  counted        \* where the collector counted it

loopVars == <<phase, terminal, writeFailed, gone, out>>
vars == <<pipe, includeUsage, up, frames, local, cut, acc, counted, loopVars>>

-----------------------------------------------------------------------------
(* What the client receives: a chunk has a type, the index of its choice    *)
(* and that of its tool call, and a value.                                  *)
Chunk(type, choice, index, value) ==
  [type |-> type, choice |-> choice, index |-> index, value |-> value]
Plain(type) == Chunk(type, 0, 0, 0)

OpenAIPipes == {"openai", "anthropicToOpenAI", "responsesToOpenAI",
                "orchestrationToOpenAI", "geminiToOpenAI"}

(* streamError: OpenAI clients wait for [DONE] after an error as well. *)
ErrorChunks == IF pipe \in OpenAIPipes THEN <<Plain("error"), Plain("done")>>
                                       ELSE <<Plain("error")>>

(* The callback writes the chunks ws and returns goOn, or false when a      *)
(* write failed.  The client may go away before any of them.                *)
Reply(ws, term, goOn) ==
  \E n \in IF gone THEN {0} ELSE 0..Len(ws) :
    /\ out' = out \o SubSeq(ws, 1, n)
    /\ writeFailed' = (n < Len(ws))
    /\ gone' = (gone \/ writeFailed')
    /\ terminal' = term
    /\ phase' = IF goOn /\ ~writeFailed' THEN "loop" ELSE "after"

Write(ws) == Reply(ws, FALSE, TRUE)

(* The callback, which has observed a by now, writes ws, reports an error   *)
(* of its own and stops; streamError observes that error, too.              *)
FailAfter(ws, a) == /\ Reply(ws \o ErrorChunks, TRUE, FALSE)
                    /\ acc' = NoteStreamError(a)
Fail(a) == FailAfter(<<>>, a)

(* The scanner delivers one more frame. *)
Read(p) == /\ pipe = p /\ phase = "loop" /\ frames < MaxFrames[p]
           /\ frames' = frames + 1
           /\ UNCHANGED <<pipe, includeUsage, cut, counted>>

(* The fate of the upstream's answer: it is open until the upstream has     *)
(* finished it, failed, failed with an event whose name alone says so, or   *)
(* sent what is no event of the protocol.                                   *)
Fates == {"open", "complete", "failed", "named", "garbled"}
Sends(fate) == up' = [up EXCEPT !.fate = fate]

(* Counts that the upstream keeps as running totals, in up.usage. *)
Running(blocks) ==
  {u \in blocks : \A f \in DOMAIN u \cap DOMAIN up.usage : u[f] >= up.usage[f]}
Latest(u) == [f \in DOMAIN u \cup DOMAIN up.usage |->
                IF f \in DOMAIN u THEN u[f] ELSE up.usage[f]]

(* The scanner ends: the upstream closed the stream, or the connection      *)
(* broke, stayed idle for too long or sent a frame above 8 MiB.             *)
ScannerEnds ==
  /\ phase = "loop"
  /\ cut' \in {"eof", "error"}
  /\ phase' = "after"
  /\ UNCHANGED <<pipe, includeUsage, up, frames, local, acc, counted,
                 terminal, writeFailed, gone, out>>

(* After the loop, on the way out of the pipe: nothing more is written, or  *)
(* the chunks ws are.                                                       *)
Close(ws) ==
  \E n \in IF gone THEN {0} ELSE 0..Len(ws) :
    /\ out' = out \o SubSeq(ws, 1, n)
    /\ gone' = (gone \/ n < Len(ws))
    /\ phase' = "closed"
    /\ UNCHANGED <<pipe, includeUsage, up, frames, local, cut, terminal,
                   writeFailed, counted>>

(* Most pipes report a stream that ended before its terminal event. *)
EndUnlessTerminal ==
  /\ phase = "after"
  /\ IF terminal \/ writeFailed
     THEN Close(<<>>) /\ UNCHANGED acc
     ELSE Close(ErrorChunks) /\ acc' = NoteStreamError(acc)

(* The middleware runs after the handler returned: the client was sent 200. *)
Commit ==
  /\ phase = "closed"
  /\ counted' = CountedAs(acc, 200)
  /\ phase' = "counted"
  /\ UNCHANGED <<pipe, includeUsage, up, frames, local, cut, acc, terminal,
                 writeFailed, gone, out>>

InitPipe(p, at, upstream, closure) ==
  /\ pipe = p
  /\ includeUsage \in BOOLEAN
  /\ up = upstream /\ local = closure
  /\ frames = 0 /\ cut = "none"
  /\ phase = at /\ terminal = FALSE /\ writeFailed = FALSE /\ gone = FALSE
  /\ out = <<>>
  /\ acc = Fresh(200)
  /\ counted = "not yet"
=============================================================================
