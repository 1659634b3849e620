--------------------------- MODULE PureTransform ---------------------------
(***************************************************************************)
(* What internal/compress promises of a request, without its cache: every  *)
(* text of a tool result is answered by one pure function of that text,    *)
(* unless the strategy was off at the moment the text was looked at, and   *)
(* everything else is handed on as it came (compress.go 100 to 114, cache  *)
(* .go 16 to 20).  Compression implements it.                              *)
(***************************************************************************)
EXTENDS Naturals, Sequences

CONSTANTS Workers,      \* requests being served
          Pieces,       \* the pieces of text a request is made of
          Eligible(_),  \* whether a piece is the text of a tool result
          Words(_),     \* the text of a piece
          Best(_)       \* the pure transform

VARIABLES enabled,   \* the kill switch
          off,       \* whether the escape valve turned the log strategy off
          request,   \* [Workers -> Seq(Pieces)], the request being compressed
          stage,     \* "idle", "open" before a text, "decided" on one
          body       \* [Workers -> Seq(text)], what is handed on so far

vars == <<enabled, off, request, stage, body>>

Upcoming(w) == request[w][Len(body[w]) + 1]

Init ==
  /\ enabled \in BOOLEAN
  /\ off \in BOOLEAN
  /\ request = [w \in Workers |-> <<>>]
  /\ stage = [w \in Workers |-> "idle"]
  /\ body = [w \in Workers |-> <<>>]

(* The settings change while requests are under way. *)
Configure ==
  /\ enabled' \in BOOLEAN
  /\ off' \in BOOLEAN
  /\ UNCHANGED <<request, stage, body>>

Receive(w) ==
  /\ stage[w] = "idle"
  /\ enabled
  /\ request'[w] \in Seq(Pieces)
  /\ request' = [request EXCEPT ![w] = request'[w]]
  /\ stage' = [stage EXCEPT ![w] = "open"]
  /\ body' = [body EXCEPT ![w] = <<>>]
  /\ UNCHANGED <<enabled, off>>

(* A piece that is handed on as it came: no tool result, or the strategy   *)
(* is off.                                                                 *)
Keep(w) ==
  /\ stage[w] = "open"
  /\ Len(body[w]) < Len(request[w])
  /\ ~ Eligible(Upcoming(w)) \/ off
  /\ body' = [body EXCEPT ![w] = Append(@, Words(Upcoming(w)))]
  /\ UNCHANGED <<enabled, off, request, stage>>

Decide(w) ==
  /\ stage[w] = "open"
  /\ Len(body[w]) < Len(request[w])
  /\ Eligible(Upcoming(w))
  /\ ~ off
  /\ stage' = [stage EXCEPT ![w] = "decided"]
  /\ UNCHANGED <<enabled, off, request, body>>

Answer(w) ==
  /\ stage[w] = "decided"
  /\ body' = [body EXCEPT ![w] = Append(@, Best(Words(Upcoming(w))))]
  /\ stage' = [stage EXCEPT ![w] = "open"]
  /\ UNCHANGED <<enabled, off, request>>

HandOn(w) ==
  /\ stage[w] = "open"
  /\ Len(body[w]) = Len(request[w])
  /\ stage' = [stage EXCEPT ![w] = "idle"]
  /\ UNCHANGED <<enabled, off, request, body>>

Next ==
  \/ Configure
  \/ \E w \in Workers : Receive(w) \/ Keep(w) \/ Decide(w) \/ Answer(w) \/ HandOn(w)

Spec == Init /\ [][Next]_vars
=============================================================================
