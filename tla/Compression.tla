---------------------------- MODULE Compression ----------------------------
(***************************************************************************)
(* internal/compress on the request path of /anthropic: every text of a    *)
(* tool result goes through a process-wide LRU memo (cache.go) that        *)
(* concurrent requests share, under settings that may change while they    *)
(* run (settings.go), and every compressed request is reported to one      *)
(* collector (metrics.go).  LogCompressor models the transform itself;     *)
(* here it is the constant Shrunk.                                         *)
(*                                                                         *)
(* A request is the flat sequence of the pieces of text in its messages:   *)
(* messages and blocks are rebuilt around them in the same order, and the  *)
(* reasons for leaving one alone are merged first come first kept at each  *)
(* level (compress.go 139 to 169, 224 to 246, 315 to 349), which is first  *)
(* come first kept over the whole sequence.                                *)
(***************************************************************************)
EXTENDS Naturals, Sequences, FiniteSetsExt, TLC

CONSTANTS
  Workers,       \* conversations, each with one request at a time
  Texts,         \* texts of tool results and of messages
  Outcomes,      \* Texts and what the log compressor makes of them
  Keys,          \* digests
  KeyOf,         \* [Texts -> Keys], the truncated sha256 of cacheKeyOf
  Size,          \* [Outcomes -> Nat]
  Logs,          \* the texts LooksLikeLog accepts
  Shrunk,        \* [Logs -> Outcomes], CompressLog
  MinTextBytes,  \* the smallest text worth compressing
  Capacity,      \* entries the memo holds
  Talk,          \* [Workers -> Seq(Pieces)], the conversations in full
  MaxTurns,      \* bound: requests of a conversation
  MaxConfigures  \* bound: changes of the settings

(* cache.go 34 to 36 relies on two texts not sharing a digest.             *)
ASSUME TextsAssumption ==
  /\ Texts \subseteq Outcomes
  /\ KeyOf \in [Texts -> Keys]
  /\ \A s, t \in Texts : KeyOf[s] = KeyOf[t] => s = t
  /\ Size \in [Outcomes -> Nat]
  /\ Logs \subseteq Texts
  /\ Shrunk \in [Logs -> Outcomes]

(* "words" is a message whose content is a string, "block" a content block *)
(* of another type and "tool" one text of a tool_result.                   *)
Pieces == [form : {"words", "block", "tool"}, text : Texts]

ASSUME TalkAssumption ==
  /\ Talk \in [Workers -> Seq(Pieces)]
  /\ Capacity \in Nat \ {0}
  /\ MinTextBytes \in Nat
  /\ MaxTurns \in Nat

Reasons == {"plain_content", "no_tool_result", "too_small", "not_log",
            "no_gain", "strategy_disabled"}

NoReason == "none"

VARIABLES
  enabled,    \* the kill switch
  off,        \* whether "log" is among the skipped strategies
  configures, \* how often the settings were set, for the bound
  items,      \* the memo: digest -> [result, reason]
  order,      \* its recency list, the most recent digest first
  pc,         \* [Workers -> "idle", "look", "get" or "compute"]
  request,    \* [Workers -> Seq(Pieces)]
  body,       \* [Workers -> Seq(Outcomes)], the texts handed on so far
  report,     \* [Workers -> report of the request]
  since,      \* [Workers -> Nat], configures when the request came in
  done,       \* [Workers -> Seq of the requests compressed], a history
  totals,     \* the collector: blocks and bytes
  skips       \* the collector: requests left alone, by reason

settings == <<enabled, off, configures>>
memo == <<items, order>>
collector == <<totals, skips>>
vars == <<settings, memo, pc, request, body, report, since, done, collector>>

Empty == [considered |-> 0, compressed |-> 0, before |-> 0, after |-> 0,
          saw |-> FALSE, reason |-> NoReason]

Eligible(piece) == piece.form = "tool"
Words(piece) == piece.text
Piece(w) == request[w][Len(body[w]) + 1]
Subject(w) == Piece(w).text
Key(w) == KeyOf[Subject(w)]

(***************************************************************************)
(* The transform and what is remembered of it.                             *)
(***************************************************************************)
Left(text, why) == [result |-> text, reason |-> why]

(* An outcome whose result is the text itself is the "" of the code.       *)
CompressTextUncached(text) ==
  IF Size[text] < MinTextBytes THEN Left(text, "too_small")
  ELSE IF text \notin Logs THEN Left(text, "not_log")
  ELSE IF Size[Shrunk[text]] >= Size[text] THEN Left(text, "no_gain")
  ELSE [result |-> Shrunk[text], reason |-> NoReason]

Best(text) == CompressTextUncached(text).result

(* MoveToFront: what was before the key moves one place back.              *)
ToFront(key) ==
  LET at == CHOOSE i \in DOMAIN order : order[i] = key
  IN [i \in DOMAIN order |-> IF i = 1 THEN key
                             ELSE IF i <= at THEN order[i - 1] ELSE order[i]]

(* Mutant: put does not look whether another request put the text first.   *)
PutTwice(key, outcome) ==
  LET all == [k \in DOMAIN items \cup {key} |-> IF k = key THEN outcome ELSE items[k]]
      fresh == <<key>> \o order
      kept == SubSeq(fresh, 1, IF Len(fresh) > Capacity THEN Capacity ELSE Len(fresh))
  IN /\ order' = kept
     /\ items' = [k \in {kept[i] : i \in DOMAIN kept} |-> all[k]]

(* put, with the loop that evicts from the back.                           *)
Put(key, outcome) ==
  LET all == [k \in DOMAIN items \cup {key} |-> IF k = key THEN outcome ELSE items[k]]
      fresh == <<key>> \o order
      kept == SubSeq(fresh, 1, IF Len(fresh) > Capacity THEN Capacity ELSE Len(fresh))
  IN IF key \in DOMAIN items
       THEN items' = [items EXCEPT ![key] = outcome] /\ order' = ToFront(key)
       ELSE /\ order' = kept
            /\ items' = [k \in {kept[i] : i \in DOMAIN kept} |-> all[k]]

(***************************************************************************)
(* The report of a request.                                                *)
(***************************************************************************)
FirstReason(first, why) == IF first = NoReason THEN why ELSE first

(* Mutant: the size of a text that is left alone is counted, too.          *)
NotedAlways(r, text, outcome) ==
  [r EXCEPT !.saw = TRUE, !.considered = @ + 1,
            !.compressed = IF outcome.result = text THEN @ ELSE @ + 1,
            !.reason = IF outcome.result = text THEN FirstReason(@, outcome.reason) ELSE @,
            !.before = @ + Size[text], !.after = @ + Size[outcome.result]]

Noted(r, text, outcome) ==
  LET shrank == outcome.result # text
  IN [saw |-> TRUE,
      considered |-> r.considered + 1,
      compressed |-> IF shrank THEN r.compressed + 1 ELSE r.compressed,
      before |-> IF shrank THEN r.before + Size[text] ELSE r.before,
      after |-> IF shrank THEN r.after + Size[outcome.result] ELSE r.after,
      reason |-> IF shrank THEN r.reason ELSE FirstReason(r.reason, outcome.reason)]

(* Skipped is told only of a request in which nothing was compressed.      *)
Skipped(r) ==
  IF r.compressed > 0 THEN NoReason
  ELSE IF r.reason # NoReason THEN r.reason
  ELSE IF ~ r.saw THEN "no_tool_result" ELSE NoReason

(* Collector.Observe, under the collector's lock.                          *)
Observe(r) ==
  LET why == Skipped(r)
  IN IF r.considered = 0 /\ why = NoReason
       THEN UNCHANGED collector
       ELSE /\ totals' = [compressed |-> totals.compressed + r.compressed,
                          skipped |-> totals.skipped + (r.considered - r.compressed),
                          before |-> totals.before + r.before,
                          after |-> totals.after + r.after]
            /\ skips' = IF why = NoReason THEN skips ELSE [skips EXCEPT ![why] = @ + 1]

(***************************************************************************)
(* The state machine.                                                      *)
(***************************************************************************)
Init ==
  /\ enabled \in BOOLEAN
  /\ off \in BOOLEAN
  /\ configures = 0
  /\ items = <<>>
  /\ order = <<>>
  /\ pc = [w \in Workers |-> "idle"]
  /\ request = [w \in Workers |-> <<>>]
  /\ body = [w \in Workers |-> <<>>]
  /\ report = [w \in Workers |-> Empty]
  /\ since = [w \in Workers |-> 0]
  /\ done = [w \in Workers |-> <<>>]
  /\ totals = [compressed |-> 0, skipped |-> 0, before |-> 0, after |-> 0]
  /\ skips = [r \in Reasons |-> 0]

Configure ==
  /\ configures < MaxConfigures
  /\ enabled' \in BOOLEAN
  /\ off' \in BOOLEAN
  /\ configures' = configures + 1
  /\ UNCHANGED <<memo, pc, request, body, report, since, done, collector>>

(* A turn of a conversation carries its whole history.  With the switch    *)
(* off nothing is parsed or counted, so only the other case is a step.     *)
Receive(w) ==
  /\ pc[w] = "idle"
  /\ enabled
  /\ Len(done[w]) < MaxTurns
  /\ \E n \in 1 .. Len(Talk[w]) :
       /\ n >= Len(request[w])
       /\ request' = [request EXCEPT ![w] = SubSeq(Talk[w], 1, n)]
  /\ pc' = [pc EXCEPT ![w] = "look"]
  /\ body' = [body EXCEPT ![w] = <<>>]
  /\ report' = [report EXCEPT ![w] = Empty]
  /\ since' = [since EXCEPT ![w] = configures]
  /\ UNCHANGED <<settings, memo, done, collector>>

(* The words of a message and blocks of other types are left as they came. *)
LeaveAlone(w) ==
  /\ pc[w] = "look"
  /\ Len(body[w]) < Len(request[w])
  /\ ~ Eligible(Piece(w))
  /\ body' = [body EXCEPT ![w] = Append(@, Subject(w))]
  /\ report' = [report EXCEPT ![w].reason =
       IF Piece(w).form = "words" THEN FirstReason(@, "plain_content") ELSE @]
  /\ UNCHANGED <<settings, memo, pc, request, since, done, collector>>

(* Mutant: the skip is asked on a miss only, behind the memo.              *)
LookBehindMemo(w) ==
  /\ pc[w] = "look"
  /\ Len(body[w]) < Len(request[w])
  /\ Eligible(Piece(w))
  /\ IF off /\ Key(w) \notin DOMAIN items
       THEN /\ body' = [body EXCEPT ![w] = Append(@, Subject(w))]
            /\ report' = [report EXCEPT ![w] =
                            Noted(@, Subject(w), Left(Subject(w), "strategy_disabled"))]
            /\ UNCHANGED pc
       ELSE /\ pc' = [pc EXCEPT ![w] = "get"]
            /\ UNCHANGED <<body, report>>
  /\ UNCHANGED <<settings, memo, request, since, done, collector>>

(* compressText asks Skip before it asks the memo.                         *)
Look(w) ==
  /\ pc[w] = "look"
  /\ Len(body[w]) < Len(request[w])
  /\ Eligible(Piece(w))
  /\ IF off
       THEN /\ body' = [body EXCEPT ![w] = Append(@, Subject(w))]
            /\ report' = [report EXCEPT ![w] =
                            Noted(@, Subject(w), Left(Subject(w), "strategy_disabled"))]
            /\ UNCHANGED pc
       ELSE /\ pc' = [pc EXCEPT ![w] = "get"]
            /\ UNCHANGED <<body, report>>
  /\ UNCHANGED <<settings, memo, request, since, done, collector>>

Told(w, outcome) ==
  /\ body' = [body EXCEPT ![w] = Append(@, outcome.result)]
  /\ report' = [report EXCEPT ![w] = Noted(@, Subject(w), outcome)]
  /\ pc' = [pc EXCEPT ![w] = "look"]
  /\ UNCHANGED <<settings, request, since, done, collector>>

(* Mutant: a hit answers the reason and not the bytes that were remembered.*)
HitLeavesAlone(w) ==
  /\ pc[w] = "get"
  /\ Key(w) \in DOMAIN items
  /\ order' = ToFront(Key(w))
  /\ UNCHANGED items
  /\ Told(w, Left(Subject(w), items[Key(w)].reason))

Hit(w) ==
  /\ pc[w] = "get"
  /\ Key(w) \in DOMAIN items
  /\ order' = ToFront(Key(w))
  /\ UNCHANGED items
  /\ Told(w, items[Key(w)])

(* The lock of the memo is free while the transform runs.                  *)
Miss(w) ==
  /\ pc[w] = "get"
  /\ Key(w) \notin DOMAIN items
  /\ pc' = [pc EXCEPT ![w] = "compute"]
  /\ UNCHANGED <<settings, memo, request, body, report, since, done, collector>>

Remember(w) ==
  /\ pc[w] = "compute"
  /\ Put(Key(w), CompressTextUncached(Subject(w)))
  /\ Told(w, CompressTextUncached(Subject(w)))

(* CompressRequest returns and the handler reports it.                     *)
HandOn(w) ==
  /\ pc[w] = "look"
  /\ Len(body[w]) = Len(request[w])
  /\ pc' = [pc EXCEPT ![w] = "idle"]
  /\ done' = [done EXCEPT ![w] =
       Append(@, [body |-> body[w], from |-> since[w], to |-> configures])]
  /\ Observe(report[w])
  /\ UNCHANGED <<settings, memo, request, body, report, since>>

Step(w) ==
  \/ Receive(w)
  \/ LeaveAlone(w)
  \/ Look(w)
  \/ Hit(w)
  \/ Miss(w)
  \/ Remember(w)
  \/ HandOn(w)

Next == Configure \/ \E w \in Workers : Step(w)

Spec == Init /\ [][Next]_vars

(***************************************************************************)
(* Refinement: the memo, its misses and its evictions cannot be seen.      *)
(***************************************************************************)
Stage == [w \in Workers |->
  CASE pc[w] = "idle" -> "idle" [] pc[w] = "look" -> "open" [] OTHER -> "decided"]

Pure == INSTANCE PureTransform WITH stage <- Stage

(* The memo cannot change what a request is handed on as: whatever hits,   *)
(* misses, concurrent fills and evictions happen, every request is         *)
(* compressed as by the pure function (cache.go 16 to 20).                 *)
MemoUnseen == Pure!Init /\ [][Pure!Next]_Pure!vars

(***************************************************************************)
(* Properties.                                                             *)
(***************************************************************************)
Reports == [considered : Nat, compressed : Nat, before : Nat, after : Nat,
            saw : BOOLEAN, reason : Reasons \cup {NoReason}]
Handed == [body : Seq(Outcomes), from : Nat, to : Nat]

TypeOK ==
  /\ enabled \in BOOLEAN
  /\ off \in BOOLEAN
  /\ configures \in Nat
  /\ order \in Seq(Keys)
  /\ DOMAIN items \subseteq Keys
  /\ items \in [DOMAIN items -> [result : Outcomes, reason : Reasons \cup {NoReason}]]
  /\ pc \in [Workers -> {"idle", "look", "get", "compute"}]
  /\ request \in [Workers -> Seq(Pieces)]
  /\ body \in [Workers -> Seq(Outcomes)]
  /\ \A w \in Workers : Len(body[w]) <= Len(request[w])
  /\ report \in [Workers -> Reports]
  /\ since \in [Workers -> Nat]
  /\ done \in [Workers -> Seq(Handed)]
  /\ totals \in [{"compressed", "skipped", "before", "after"} -> Nat]
  /\ skips \in [Reasons -> Nat]

(* A text that is being looked up is the text of a tool result the request *)
(* has not handed on yet.                                                  *)
LookingAtOne ==
  \A w \in Workers : pc[w] \in {"get", "compute"} =>
    Len(body[w]) < Len(request[w]) /\ Eligible(Piece(w))

(* What is remembered under a digest is what the pure transform yields for *)
(* every text with that digest.                                            *)
MemoTrue ==
  \A t \in Texts : KeyOf[t] \in DOMAIN items => items[KeyOf[t]] = CompressTextUncached(t)

(* The recency list and the map name the same digests, each once, and      *)
(* never more than the capacity, also after two requests missed the same   *)
(* text and both put it (cache.go 99 to 117).                              *)
MemoBounded ==
  /\ Len(order) <= Capacity
  /\ {order[i] : i \in DOMAIN order} = DOMAIN items
  /\ \A i, j \in DOMAIN order : order[i] = order[j] => i = j

(* A later turn repeats the bytes of an earlier one as its prefix when the *)
(* settings did not change from the first to the last, whatever the memo   *)
(* forgot and other conversations did in between: a provider's prefix      *)
(* cache still hits (messages.go 76 to 81).                                *)
HistoryStable ==
  \A w \in Workers : \A i, j \in DOMAIN done[w] :
    i < j /\ done[w][i].from = done[w][j].to =>
      SubSeq(done[w][j].body, 1, Len(done[w][i].body)) = done[w][i].body

Changed(w, i) ==
  {n \in DOMAIN done[w][i].body : done[w][i].body[n] # Talk[w][n].text}

Turns == {<<w, i>> : w \in Workers, i \in 1 .. MaxTurns}
Moved == UNION {{<<t[1], t[2], n>> : n \in Changed(t[1], t[2])} :
                t \in {u \in Turns : u[2] \in DOMAIN done[u[1]]}}

(* The collector tells a true before and after of the bytes that moved:    *)
(* its totals are the sizes of exactly the texts that were handed on       *)
(* changed, and a request counts as left alone, under one reason, exactly  *)
(* when nothing in it changed (compress.go 78 to 87).                      *)
BytesMoved ==
  /\ totals.compressed = Cardinality(Moved)
  /\ totals.before = MapThenSumSet(LAMBDA m : Size[Talk[m[1]][m[3]].text], Moved)
  /\ totals.after = MapThenSumSet(LAMBDA m : Size[done[m[1]][m[2]].body[m[3]]], Moved)
  /\ MapThenSumSet(LAMBDA r : skips[r], Reasons) =
       Cardinality({t \in Turns : t[2] \in DOMAIN done[t[1]] /\ Changed(t[1], t[2]) = {}})
=============================================================================
