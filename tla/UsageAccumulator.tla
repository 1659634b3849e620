-------------------------- MODULE UsageAccumulator --------------------------
(* The usage of one request, as usage/accumulator.go collects it from the   *)
(* frames of a stream, and what Collector.Add makes of it.                  *)
(*                                                                          *)
(* A usage block is a function on the fields the provider sent: a field     *)
(* that is missing, null or no number is not in its domain (flexInt.ok).    *)
(* Every observer marks the request as observed, whatever it finds.         *)
EXTENDS Naturals, FiniteSets

Fields == {"input", "output", "read", "write"}

(* Blocks with some of the fields fs and counts up to n. *)
BlocksOf(fs, n) == UNION {[S -> 0..n] : S \in SUBSET fs}

Larger(m, n) == IF m > n THEN m ELSE n

(* A fresh accumulator, to which CheckStream has given the upstream status. *)
Fresh(status) ==
  [tokens |-> [f \in Fields |-> 0], hasUsage |-> FALSE, inputSet |-> FALSE,
   status |-> status, failed |-> FALSE, observed |-> FALSE, dropped |-> FALSE]

MarkObserved(a) == [a EXCEPT !.observed = TRUE]

(* A failure that the upstream reported inside the stream. *)
NoteStreamError(a) == [a EXCEPT !.observed = TRUE, !.failed = TRUE]

MarkUpstreamStatus(a, code) == [a EXCEPT !.status = code]

MarkCaptureDropped(a) == [a EXCEPT !.observed = TRUE, !.dropped = TRUE]

(* Mutant: the input side of a repeated block is added to the first. *)
AddsInput(a, u, overwriteInput) ==
  LET parts == DOMAIN u \ {"output"}
  IN  IF DOMAIN u = {} THEN MarkObserved(a)
      ELSE [a EXCEPT
              !.tokens = [f \in Fields |->
                            IF f \in parts THEN a.tokens[f] + u[f]
                            ELSE IF f \in DOMAIN u THEN Larger(a.tokens[f], u[f])
                            ELSE a.tokens[f]],
              !.inputSet = @ \/ parts # {}, !.hasUsage = TRUE, !.observed = TRUE]

(* Input, cache reads and cache writes are absolute: the first block that   *)
(* has them is kept unless a later one is authoritative.  Output is a       *)
(* running total, of which the largest counts.                              *)
ApplyAnthropic(a, u, overwriteInput) ==
  LET parts == IF overwriteInput \/ ~a.inputSet THEN DOMAIN u \ {"output"} ELSE {}
  IN  IF DOMAIN u = {} THEN MarkObserved(a)
      ELSE [a EXCEPT
              !.tokens = [f \in Fields |->
                            IF f \in parts THEN u[f]
                            ELSE IF f = "output" /\ f \in DOMAIN u
                                 THEN Larger(a.tokens[f], u[f])
                            ELSE a.tokens[f]],
              !.inputSet = @ \/ parts # {}, !.hasUsage = TRUE, !.observed = TRUE]

(* OpenAI chunks: every field only grows.  A block with nothing but cache   *)
(* writes counts as none.                                                   *)
ApplyOpenAI(a, u) ==
  IF DOMAIN u \subseteq {"write"} THEN MarkObserved(a)
  ELSE [a EXCEPT
          !.tokens = [f \in Fields |-> IF f \in DOMAIN u THEN Larger(@[f], u[f]) ELSE @[f]],
          !.hasUsage = TRUE, !.observed = TRUE]

(* What Gemini bills as output: candidates and thoughts of one block. *)
GeminiOutput(u) == (IF "candidates" \in DOMAIN u THEN u["candidates"] ELSE 0)
                   + (IF "thoughts" \in DOMAIN u THEN u["thoughts"] ELSE 0)

ApplyGemini(a, u) ==
  IF DOMAIN u = {} THEN MarkObserved(a)
  ELSE [a EXCEPT
          !.tokens["input"] = IF "prompt" \in DOMAIN u THEN Larger(@, u["prompt"]) ELSE @,
          !.tokens["output"] = Larger(@, GeminiOutput(u)),
          !.tokens["read"] = IF "cached" \in DOMAIN u THEN Larger(@, u["cached"]) ELSE @,
          !.hasUsage = TRUE, !.observed = TRUE]

(* Report: an error status of the upstream first, then a failure inside the *)
(* stream, then any status of the upstream, and last what the client got.   *)
Report(a, writerStatus) ==
  CASE a.status >= 400                     -> a.status
    [] a.status < 400 /\ a.failed          -> 502
    [] a.status \in 1..399 /\ ~a.failed    -> a.status
    [] OTHER                               -> writerStatus

(* The counter of the aggregate that Add increments besides the requests,   *)
(* for an endpoint that is expected to produce tokens.                      *)
CountedAs(a, writerStatus) ==
  CASE Report(a, writerStatus) >= 400                 -> "failure"
    [] Report(a, writerStatus) < 400 /\ ~a.observed   -> "uninstrumented"
    [] Report(a, writerStatus) < 400 /\ a.observed /\ ~a.hasUsage -> "missing"
    [] OTHER                                          -> "accounted"
=============================================================================
