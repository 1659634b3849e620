------------------------- MODULE CompressionProofs -------------------------
(***************************************************************************)
(* The properties of Compression for every set of conversations and texts, *)
(* every capacity and every bound: the memo cannot be seen, it stays       *)
(* bounded, and a conversation's history keeps its bytes; a compressed log *)
(* keeps what matters.  What the client set beside its messages arrives    *)
(* too: the thinking budget and the choice among tools are those it asked  *)
(* for, within its limits, for every combination of options.               *)
(***************************************************************************)
EXTENDS Compression, RequestProofs, FiniteSetTheorems, NaturalsInduction, WellFoundedInduction, TLAPS

Decisions == [result : Outcomes, reason : Reasons \cup {NoReason}]

(* What the transform yields for a text is a decision about it.            *)
LEMMA Transformed ==
  ASSUME NEW t \in Texts
  PROVE  /\ CompressTextUncached(t) \in Decisions
         /\ Best(t) \in Outcomes
BY TextsAssumption DEF CompressTextUncached, Best, Left, Decisions, Reasons, NoReason

(* Compressed texts are among the considered ones.                         *)
CountInv == \A w \in Workers : report[w].compressed <= report[w].considered

LEMMA NotedType ==
  ASSUME NEW r \in Reports, NEW t \in Texts, NEW d \in Decisions,
         r.compressed <= r.considered
  PROVE  /\ Noted(r, t, d) \in Reports
         /\ Noted(r, t, d).compressed <= Noted(r, t, d).considered
BY TextsAssumption DEF Noted, Reports, Decisions, FirstReason, NoReason, Reasons

(***************************************************************************)
(* The memo.  Its two operations keep the recency list and the map in      *)
(* step, and only ever remember what the transform yields.                 *)
(***************************************************************************)
MemoType ==
  /\ order \in Seq(Keys)
  /\ DOMAIN items \subseteq Keys
  /\ items \in [DOMAIN items -> Decisions]

MemoInv == MemoType /\ MemoTrue /\ MemoBounded

LEMMA FrontKeepsMemo ==
  ASSUME MemoInv, NEW key \in DOMAIN items, order' = ToFront(key), UNCHANGED items
  PROVE  MemoInv'
<1> DEFINE at == CHOOSE i \in DOMAIN order : order[i] = key
<1>1. at \in DOMAIN order /\ order[at] = key
  BY DEF MemoInv, MemoBounded
<1>2. order \in [1 .. Len(order) -> Keys] /\ Len(order) \in Nat /\ at \in 1 .. Len(order)
  BY <1>1 DEF MemoInv, MemoType
<1>3. order' = [i \in 1 .. Len(order) |-> IF i = 1 THEN key
                                         ELSE IF i <= at THEN order[i - 1] ELSE order[i]]
  BY <1>2 DEF ToFront
<1>4. key \in Keys
  BY DEF MemoInv, MemoType
<1> HIDE DEF at
<1>5. order' \in Seq(Keys) /\ Len(order') = Len(order)
  <2>1. ASSUME NEW i \in 1 .. Len(order) PROVE order'[i] \in Keys
    <3>1. CASE i = 1
      BY <1>2, <1>3, <1>4, <3>1
    <3>2. CASE i # 1 /\ i <= at
      <4>1. i - 1 \in 1 .. Len(order) /\ order'[i] = order[i - 1]
        BY <1>2, <1>3, <3>2
      <4> QED BY <1>2, <4>1
    <3>3. CASE i > at
      BY <1>2, <1>3, <3>3
    <3> QED BY <1>2, <3>1, <3>2, <3>3
  <2>2. order' \in [1 .. Len(order) -> Keys]
    BY <1>3, <2>1
  <2> QED BY <1>2, <2>2
<1>6. \A i, j \in 1 .. Len(order) : order'[i] = order'[j] => i = j
  <2>1. \A i, j \in 1 .. Len(order) : order[i] = order[j] => i = j
    BY <1>2 DEF MemoInv, MemoBounded
  <2> QED BY <1>1, <1>2, <1>3, <2>1
<1>7. {order'[i] : i \in 1 .. Len(order)} = {order[i] : i \in 1 .. Len(order)}
  <2>1. \A i \in 1 .. Len(order) : \E j \in 1 .. Len(order) : order'[i] = order[j]
    BY <1>1, <1>2, <1>3
  <2>2. \A i \in 1 .. Len(order) : \E j \in 1 .. Len(order) : order[i] = order'[j]
    <3> SUFFICES ASSUME NEW i \in 1 .. Len(order)
                 PROVE  \E j \in 1 .. Len(order) : order[i] = order'[j]
      OBVIOUS
    <3>1. CASE i = at
      BY <1>1, <1>2, <1>3, <3>1
    <3>2. CASE i < at
      <4>1. i + 1 \in 1 .. Len(order) /\ order'[i + 1] = order[i]
        BY <1>2, <1>3, <3>2
      <4> QED BY <4>1
    <3>3. CASE i > at
      BY <1>2, <1>3, <3>3
    <3> QED BY <1>2, <3>1, <3>2, <3>3
  <2> DEFINE now == order'
             before == order
  <2>3. /\ \A i \in 1 .. Len(order) : \E j \in 1 .. Len(order) : now[i] = before[j]
        /\ \A i \in 1 .. Len(order) : \E j \in 1 .. Len(order) : before[i] = now[j]
    BY <2>1, <2>2
  <2> HIDE DEF now, before
  <2>4. ASSUME NEW k \in {now[i] : i \in 1 .. Len(order)}
        PROVE  k \in {before[i] : i \in 1 .. Len(order)}
    BY <2>3
  <2>5. ASSUME NEW k \in {before[i] : i \in 1 .. Len(order)}
        PROVE  k \in {now[i] : i \in 1 .. Len(order)}
    BY <2>3
  <2>6. {now[i] : i \in 1 .. Len(order)} = {before[i] : i \in 1 .. Len(order)}
    BY <2>4, <2>5
  <2> QED BY <2>6 DEF now, before
<1>8. MemoBounded'
  <2>1. DOMAIN order = 1 .. Len(order) /\ DOMAIN order' = 1 .. Len(order)
    BY <1>2, <1>5
  <2> QED BY <1>5, <1>6, <1>7, <2>1 DEF MemoInv, MemoBounded
<1> QED BY <1>5, <1>8 DEF MemoInv, MemoType, MemoTrue

LEMMA PutKeepsMemo ==
  ASSUME MemoInv, NEW t \in Texts, Put(KeyOf[t], CompressTextUncached(t))
  PROVE  MemoInv'
<1> DEFINE key == KeyOf[t]
           outcome == CompressTextUncached(t)
<1>1. key \in Keys /\ outcome \in Decisions
  BY TextsAssumption, Transformed
<1>2. CASE key \in DOMAIN items
  <2>1. items' = [items EXCEPT ![key] = outcome] /\ order' = ToFront(key)
    BY <1>2 DEF Put
  <2>2. items[key] = outcome
    BY <1>2 DEF MemoInv, MemoTrue
  <2>3. UNCHANGED items
    BY <1>2, <2>1, <2>2 DEF MemoInv, MemoType
  <2> QED BY <1>2, <2>1, <2>3, FrontKeepsMemo
<1>3. CASE key \notin DOMAIN items
  <2> DEFINE all == [k \in DOMAIN items \cup {key} |-> IF k = key THEN outcome ELSE items[k]]
             fresh == <<key>> \o order
             n == IF Len(fresh) > Capacity THEN Capacity ELSE Len(fresh)
             kept == SubSeq(fresh, 1, n)
  <2>1. order' = kept /\ items' = [k \in {kept[i] : i \in DOMAIN kept} |-> all[k]]
    BY <1>3 DEF Put
  <2>2. /\ fresh \in Seq(Keys) /\ Len(fresh) = Len(order) + 1
        /\ \A i \in 1 .. Len(fresh) : fresh[i] = IF i = 1 THEN key ELSE order[i - 1]
    BY <1>1 DEF MemoInv, MemoType
  <2> HIDE DEF fresh
  <2>3. n \in 1 .. Len(fresh) /\ n <= Capacity
    BY <2>2, TalkAssumption DEF MemoInv, MemoType
  <2> HIDE DEF n
  <2>4. /\ kept \in Seq(Keys) /\ Len(kept) = n /\ DOMAIN kept = 1 .. n
        /\ \A i \in 1 .. n : kept[i] = fresh[i]
    BY <2>2, <2>3
  <2> HIDE DEF kept
  <2>5. \A i \in 1 .. n : kept[i] \in DOMAIN items \cup {key}
    BY <2>2, <2>3, <2>4 DEF MemoInv, MemoType, MemoBounded
  <2>6. \A i, j \in 1 .. n : kept[i] = kept[j] => i = j
    <3> SUFFICES ASSUME NEW i \in 1 .. n, NEW j \in 1 .. n, kept[i] = kept[j]
                 PROVE  i = j
      OBVIOUS
    <3>1. \A m \in 1 .. Len(order) : order[m] # key
      BY <1>3 DEF MemoInv, MemoType, MemoBounded
    <3>2. \A l, m \in 1 .. Len(order) : order[l] = order[m] => l = m
      BY DEF MemoInv, MemoType, MemoBounded
    <3>3. Len(order) \in Nat
      BY DEF MemoInv, MemoType
    <3>4. \A m \in 2 .. n : m - 1 \in 1 .. Len(order) /\ kept[m] = order[m - 1]
      BY <2>2, <2>3, <2>4, <3>3
    <3>5. 1 \in 1 .. n /\ kept[1] = key
      BY <2>2, <2>3, <2>4
    <3>6. CASE i = 1 \/ j = 1
      <4>1. \A m \in 2 .. n : kept[m] # key
        BY <3>1, <3>4
      <4> QED BY <2>3, <2>2, <3>3, <3>5, <3>6, <4>1
    <3>7. CASE i # 1 /\ j # 1
      <4>1. i \in 2 .. n /\ j \in 2 .. n
        BY <3>7
      <4>2. i - 1 = j - 1
        BY <3>2, <3>4, <4>1
      <4> QED BY <4>2
    <3> QED BY <3>6, <3>7
  <2>7. DOMAIN items' = {kept[i] : i \in 1 .. n} /\ \A k \in DOMAIN items' : items'[k] = all[k]
    BY <2>1, <2>4
  <2>8. \A k \in DOMAIN items' : items'[k] = IF k = key THEN outcome ELSE items[k]
    BY <2>5, <2>7
  <2> HIDE DEF all, key, outcome
  <2>9. MemoType'
    <3>1. DOMAIN items' \subseteq DOMAIN items \cup {key}
      BY <2>5, <2>7
    <3>2. \A k \in DOMAIN items' : items'[k] \in Decisions
      BY <1>1, <2>8, <3>1 DEF MemoInv, MemoType
    <3>3. items' = [k \in DOMAIN items' |-> items'[k]]
      BY <2>1
    <3>4. items' \in [DOMAIN items' -> Decisions]
      BY <3>2, <3>3
    <3>5. DOMAIN items' \subseteq Keys
      BY <1>1, <3>1 DEF MemoInv, MemoType
    <3> QED BY <2>1, <2>4, <3>4, <3>5 DEF MemoType
  <2>10. MemoBounded'
    BY <2>1, <2>3, <2>4, <2>6, <2>7 DEF MemoBounded
  <2>11. MemoTrue'
    <3> SUFFICES ASSUME NEW s \in Texts, KeyOf[s] \in DOMAIN items'
                 PROVE  items'[KeyOf[s]] = CompressTextUncached(s)
      BY DEF MemoTrue
    <3>1. CASE KeyOf[s] = key
      BY <2>8, <3>1, TextsAssumption DEF key, outcome
    <3>2. CASE KeyOf[s] # key
      BY <2>5, <2>7, <2>8, <3>2 DEF MemoInv, MemoTrue
    <3> QED BY <3>1, <3>2
  <2> QED BY <2>9, <2>10, <2>11 DEF MemoInv
<1> QED BY <1>2, <1>3

(***************************************************************************)
(* The inductive invariant: types, what is looked at, and the memo.        *)
(***************************************************************************)
IInv == TypeOK /\ CountInv /\ LookingAtOne /\ MemoTrue /\ MemoBounded

LEMMA MemoOfIInv == IInv => MemoInv
BY DEF IInv, TypeOK, MemoInv, MemoType, Decisions

LEMMA EmptyReport == Empty \in Reports /\ Empty.compressed <= Empty.considered
BY DEF Empty, Reports, NoReason

(* A piece that is looked at is one of the conversation.                   *)
LEMMA PieceType ==
  ASSUME IInv, NEW w \in Workers, Len(body[w]) < Len(request[w])
  PROVE  Piece(w) \in Pieces /\ Subject(w) \in Texts
<1>1. body[w] \in Seq(Outcomes) /\ request[w] \in Seq(Pieces)
  BY DEF IInv, TypeOK
<1>2. Len(body[w]) + 1 \in 1 .. Len(request[w])
  BY <1>1
<1>3. Piece(w) \in Pieces
  BY <1>1, <1>2 DEF Piece
<1> QED BY <1>3 DEF Subject, Pieces

LEMMA InitIInv == Init => IInv
<1> SUFFICES ASSUME Init PROVE IInv
  OBVIOUS
<1>1. TypeOK
  <2>1. items \in [DOMAIN items -> Decisions] /\ DOMAIN items = {}
    BY DEF Init
  <2> QED BY <2>1, EmptyReport DEF Init, TypeOK, Decisions
<1>2. CountInv /\ LookingAtOne
  BY EmptyReport DEF Init, CountInv, LookingAtOne
<1>3. MemoTrue
  BY DEF Init, MemoTrue
<1>4. MemoBounded
  BY TalkAssumption DEF Init, MemoBounded
<1> QED BY <1>1, <1>2, <1>3, <1>4 DEF IInv

(* The answer to a text keeps the types, whatever the decision was.        *)
LEMMA ToldKeeps ==
  ASSUME IInv, NEW w \in Workers, NEW d \in Decisions,
         Len(body[w]) < Len(request[w]), MemoInv',
         body' = [body EXCEPT ![w] = Append(@, d.result)],
         report' = [report EXCEPT ![w] = Noted(@, Subject(w), d)],
         pc' = [pc EXCEPT ![w] = "look"],
         UNCHANGED <<settings, request, since, done, collector>>
  PROVE  IInv'
<1>1. Subject(w) \in Texts /\ d.result \in Outcomes
  BY PieceType DEF Decisions
<1>2. body[w] \in Seq(Outcomes) /\ request[w] \in Seq(Pieces)
  BY DEF IInv, TypeOK
<1>3. Noted(report[w], Subject(w), d) \in Reports
      /\ Noted(report[w], Subject(w), d).compressed <= Noted(report[w], Subject(w), d).considered
  BY <1>1, NotedType DEF IInv, TypeOK, CountInv
<1>4. /\ Append(body[w], d.result) \in Seq(Outcomes)
      /\ Len(Append(body[w], d.result)) = Len(body[w]) + 1
      /\ Len(body[w]) + 1 <= Len(request[w])
  BY <1>1, <1>2
<1>5. /\ body' \in [Workers -> Seq(Outcomes)]
      /\ \A v \in Workers : Len(body'[v]) <= Len(request'[v])
  BY <1>4 DEF IInv, TypeOK
<1>6. TypeOK'
  BY <1>3, <1>5 DEF IInv, TypeOK, MemoInv, MemoType, Decisions, settings, collector
<1>7. CountInv'
  BY <1>3 DEF IInv, TypeOK, CountInv
<1>8. LookingAtOne'
  BY DEF IInv, TypeOK, LookingAtOne, Piece
<1> QED BY <1>6, <1>7, <1>8 DEF IInv, MemoInv

LEMMA NextIInv == IInv /\ [Next]_vars => IInv'
<1> SUFFICES ASSUME IInv, [Next]_vars PROVE IInv'
  OBVIOUS
<1>1. CASE UNCHANGED vars
  BY <1>1 DEF vars, settings, memo, collector, IInv, TypeOK, CountInv, LookingAtOne,
              MemoTrue, MemoBounded, Piece
<1>2. CASE Configure
  BY <1>2 DEF Configure, memo, collector, IInv, TypeOK, CountInv, LookingAtOne,
              MemoTrue, MemoBounded, Piece
<1>3. ASSUME NEW w \in Workers, Receive(w) PROVE IInv'
  <2>1. PICK n \in 1 .. Len(Talk[w]) : request' = [request EXCEPT ![w] = SubSeq(Talk[w], 1, n)]
    BY <1>3 DEF Receive
  <2>2. Talk[w] \in Seq(Pieces)
    BY TalkAssumption
  <2>3. SubSeq(Talk[w], 1, n) \in Seq(Pieces) /\ Len(SubSeq(Talk[w], 1, n)) = n
    BY <2>1, <2>2
  <2>4. TypeOK'
    <3>1. request' \in [Workers -> Seq(Pieces)]
      BY <2>1, <2>3 DEF IInv, TypeOK
    <3>2. body' \in [Workers -> Seq(Outcomes)] /\ \A v \in Workers : Len(body'[v]) <= Len(request'[v])
      <4>1. /\ body' = [body EXCEPT ![w] = <<>>] /\ request' = [request EXCEPT ![w] = SubSeq(Talk[w], 1, n)]
        BY <1>3, <2>1 DEF Receive
      <4>2. <<>> \in Seq(Outcomes) /\ Len(<<>>) = 0 /\ n \in Nat
        OBVIOUS
      <4>3. body' \in [Workers -> Seq(Outcomes)]
        BY <4>1, <4>2 DEF IInv, TypeOK
      <4>4. ASSUME NEW v \in Workers PROVE Len(body'[v]) <= Len(request'[v])
        BY <2>3, <4>1, <4>2 DEF IInv, TypeOK
      <4> QED BY <4>3, <4>4
    <3>3. report' \in [Workers -> Reports]
      BY <1>3, EmptyReport DEF Receive, IInv, TypeOK
    <3> QED BY <1>3, <3>1, <3>2, <3>3 DEF Receive, IInv, TypeOK, settings, memo, collector
  <2>5. CountInv'
    BY <1>3, EmptyReport DEF Receive, IInv, TypeOK, CountInv
  <2>6. LookingAtOne'
    BY <1>3, <2>1 DEF Receive, IInv, TypeOK, LookingAtOne, Piece
  <2>7. MemoTrue' /\ MemoBounded'
    BY <1>3 DEF Receive, IInv, MemoTrue, MemoBounded, memo
  <2> QED BY <2>4, <2>5, <2>6, <2>7 DEF IInv
<1>4. ASSUME NEW w \in Workers, LeaveAlone(w) PROVE IInv'
  <2>1. Subject(w) \in Texts /\ Subject(w) \in Outcomes
    BY <1>4, PieceType, TextsAssumption DEF LeaveAlone
  <2>2. body[w] \in Seq(Outcomes) /\ request[w] \in Seq(Pieces)
    BY DEF IInv, TypeOK
  <2>3. /\ Append(body[w], Subject(w)) \in Seq(Outcomes)
        /\ Len(Append(body[w], Subject(w))) = Len(body[w]) + 1
        /\ Len(body[w]) + 1 <= Len(request[w])
    BY <1>4, <2>1, <2>2 DEF LeaveAlone
  <2>4. report' \in [Workers -> Reports] /\ CountInv'
    <3> DEFINE why == IF Piece(w).form = "words"
                        THEN FirstReason(report[w].reason, "plain_content")
                        ELSE report[w].reason
               r == [report[w] EXCEPT !.reason = why]
    <3>1. report[w] \in Reports
      BY DEF IInv, TypeOK
    <3>2. why \in Reasons \cup {NoReason}
      BY <3>1 DEF Reports, FirstReason, Reasons
    <3>3. report' = [report EXCEPT ![w] = r]
      BY <1>4, <3>1 DEF LeaveAlone, IInv, TypeOK, Reports
    <3> HIDE DEF why
    <3>4. r \in Reports /\ r.compressed = report[w].compressed
          /\ r.considered = report[w].considered
      BY <3>1, <3>2 DEF Reports
    <3> HIDE DEF r
    <3> QED BY <3>3, <3>4 DEF IInv, TypeOK, CountInv
  <2>5. /\ body' \in [Workers -> Seq(Outcomes)]
        /\ \A v \in Workers : Len(body'[v]) <= Len(request'[v])
    BY <1>4, <2>3 DEF LeaveAlone, IInv, TypeOK
  <2>6. TypeOK'
    BY <1>4, <2>4, <2>5 DEF LeaveAlone, IInv, TypeOK, settings, memo, collector
  <2>7. LookingAtOne'
    BY <1>4 DEF LeaveAlone, IInv, TypeOK, LookingAtOne, Piece
  <2>8. MemoTrue' /\ MemoBounded'
    BY <1>4 DEF LeaveAlone, IInv, MemoTrue, MemoBounded, memo
  <2> QED BY <2>4, <2>6, <2>7, <2>8 DEF IInv
<1>5. ASSUME NEW w \in Workers, Look(w) PROVE IInv'
  <2>1. CASE off
    <3>1. Subject(w) \in Texts /\ Left(Subject(w), "strategy_disabled") \in Decisions
      BY <1>5, PieceType, TextsAssumption DEF Look, Left, Decisions, Reasons
    <3>2. /\ body' = [body EXCEPT ![w] = Append(@, Left(Subject(w), "strategy_disabled").result)]
          /\ report' = [report EXCEPT ![w] = Noted(@, Subject(w), Left(Subject(w), "strategy_disabled"))]
          /\ UNCHANGED <<settings, request, since, done, collector>>
      BY <1>5, <2>1 DEF Look, Left
    <3>3. pc' = [pc EXCEPT ![w] = "look"]
      BY <1>5, <2>1 DEF Look, IInv, TypeOK
    <3>4. MemoInv'
      BY <1>5, MemoOfIInv DEF Look, memo, MemoInv, MemoType, MemoTrue, MemoBounded
    <3> QED BY <1>5, <3>1, <3>2, <3>3, <3>4, ToldKeeps DEF Look
  <2>2. CASE ~ off
    <3>1. pc' = [pc EXCEPT ![w] = "get"] /\ UNCHANGED <<body, report>>
      BY <1>5, <2>2 DEF Look
    <3>2. TypeOK'
      BY <1>5, <3>1 DEF Look, settings, memo, collector, IInv, TypeOK
    <3>3. LookingAtOne'
      BY <1>5, <3>1 DEF Look, IInv, TypeOK, LookingAtOne, Piece
    <3> QED BY <1>5, <3>1, <3>2, <3>3 DEF Look, memo, IInv, CountInv, MemoTrue, MemoBounded
  <2> QED BY <2>1, <2>2
<1>6. ASSUME NEW w \in Workers, Hit(w) PROVE IInv'
  <2>1. Len(body[w]) < Len(request[w])
    BY <1>6 DEF Hit, IInv, LookingAtOne
  <2>2. items[Key(w)] \in Decisions
    BY <1>6, MemoOfIInv DEF Hit, MemoInv, MemoType
  <2>3. MemoInv'
    BY <1>6, MemoOfIInv, FrontKeepsMemo DEF Hit
  <2> QED BY <1>6, <2>1, <2>2, <2>3, ToldKeeps DEF Hit, Told
<1>7. ASSUME NEW w \in Workers, Miss(w) PROVE IInv'
  <2>1. TypeOK'
    BY <1>7 DEF Miss, settings, memo, collector, IInv, TypeOK
  <2>2. LookingAtOne'
    BY <1>7 DEF Miss, IInv, TypeOK, LookingAtOne, Piece
  <2> QED BY <1>7, <2>1, <2>2 DEF Miss, memo, IInv, CountInv, MemoTrue, MemoBounded
<1>8. ASSUME NEW w \in Workers, Remember(w) PROVE IInv'
  <2>1. Len(body[w]) < Len(request[w])
    BY <1>8 DEF Remember, IInv, LookingAtOne
  <2>2. Subject(w) \in Texts
    BY <2>1, PieceType
  <2>3. CompressTextUncached(Subject(w)) \in Decisions
    BY <2>2, Transformed
  <2>4. MemoInv'
    BY <1>8, <2>2, MemoOfIInv, PutKeepsMemo DEF Remember, Key
  <2> QED BY <1>8, <2>1, <2>3, <2>4, ToldKeeps DEF Remember, Told
<1>9. ASSUME NEW w \in Workers, HandOn(w) PROVE IInv'
  <2>1. done' \in [Workers -> Seq(Handed)]
    <3>1. [body |-> body[w], from |-> since[w], to |-> configures] \in Handed
      BY DEF IInv, TypeOK, Handed
    <3>2. Append(done[w], [body |-> body[w], from |-> since[w], to |-> configures]) \in Seq(Handed)
      BY <3>1 DEF IInv, TypeOK
    <3> QED BY <1>9, <3>2 DEF HandOn, IInv, TypeOK
  <2>2. /\ totals' \in [{"compressed", "skipped", "before", "after"} -> Nat]
        /\ skips' \in [Reasons -> Nat]
    <3> DEFINE r == report[w]
    <3>1. r \in Reports /\ r.compressed <= r.considered
      BY DEF IInv, TypeOK, CountInv
    <3>2. Observe(r)
      BY <1>9 DEF HandOn
    <3>3. r.considered - r.compressed \in Nat /\ Skipped(r) \in Reasons \cup {NoReason}
      BY <3>1 DEF Reports, Skipped, Reasons, NoReason
    <3>4. totals \in [{"compressed", "skipped", "before", "after"} -> Nat] /\ skips \in [Reasons -> Nat]
      BY DEF IInv, TypeOK
    <3> HIDE DEF r
    <3>5. CASE UNCHANGED collector
      BY <3>4, <3>5 DEF collector
    <3>6. CASE ~ UNCHANGED collector
      <4>1. /\ totals' = [compressed |-> totals.compressed + r.compressed,
                          skipped |-> totals.skipped + (r.considered - r.compressed),
                          before |-> totals.before + r.before,
                          after |-> totals.after + r.after]
            /\ skips' = IF Skipped(r) = NoReason THEN skips
                        ELSE [skips EXCEPT ![Skipped(r)] = @ + 1]
        BY <3>2, <3>6 DEF Observe
      <4>2. totals' \in [{"compressed", "skipped", "before", "after"} -> Nat]
        BY <3>1, <3>3, <3>4, <4>1 DEF Reports
      <4>3. skips' \in [Reasons -> Nat]
        BY <3>3, <3>4, <4>1
      <4> QED BY <4>2, <4>3
    <3> QED BY <3>5, <3>6
  <2>3. TypeOK'
    BY <1>9, <2>1, <2>2 DEF HandOn, IInv, TypeOK, settings, memo
  <2>4. CountInv' /\ LookingAtOne' /\ MemoTrue' /\ MemoBounded'
    BY <1>9 DEF HandOn, IInv, TypeOK, CountInv, LookingAtOne, MemoTrue, MemoBounded,
                Piece, memo
  <2> QED BY <2>3, <2>4 DEF IInv
<1> QED BY <1>1, <1>2, <1>3, <1>4, <1>5, <1>6, <1>7, <1>8, <1>9 DEF Next, Step

THEOREM IInvHolds == Spec => []IInv
BY InitIInv, NextIInv, PTL DEF Spec

(* Every variable keeps its type, the memo and the counters included.      *)
THEOREM TypeCorrect == Spec => []TypeOK
<1>1. IInv => TypeOK
  BY DEF IInv
<1> QED BY <1>1, IInvHolds, PTL

(* The memo and its recency list agree and stay within the capacity,       *)
(* whatever number of requests put the same text (cache.go 99 to 117).     *)
THEOREM MemoStaysBounded == Spec => []MemoBounded
<1>1. IInv => MemoBounded
  BY DEF IInv
<1> QED BY <1>1, IInvHolds, PTL

(***************************************************************************)
(* Refinement.                                                             *)
(***************************************************************************)
LEMMA InitPure == Init => Pure!Init
BY DEF Init, Pure!Init, Stage

LEMMA StepPure == IInv /\ [Next]_vars => [Pure!Next]_Pure!vars
<1> SUFFICES ASSUME IInv, [Next]_vars PROVE [Pure!Next]_Pure!vars
  OBVIOUS
<1>1. CASE UNCHANGED vars
  BY <1>1 DEF vars, settings, Pure!vars, Stage
<1>2. CASE Configure
  BY <1>2 DEF Configure, Pure!Next, Pure!Configure, Stage
<1>3. ASSUME NEW w \in Workers, Receive(w) PROVE Pure!Receive(w)
  <2>1. PICK n \in 1 .. Len(Talk[w]) : request' = [request EXCEPT ![w] = SubSeq(Talk[w], 1, n)]
    BY <1>3 DEF Receive
  <2>2. SubSeq(Talk[w], 1, n) \in Seq(Pieces)
    BY TalkAssumption
  <2>3. request'[w] \in Seq(Pieces) /\ request' = [request EXCEPT ![w] = request'[w]]
    BY <2>1, <2>2 DEF IInv, TypeOK
  <2>4. Stage[w] = "idle" /\ Stage' = [Stage EXCEPT ![w] = "open"]
    BY <1>3 DEF Receive, Stage, IInv, TypeOK
  <2> QED BY <1>3, <2>3, <2>4 DEF Receive, Pure!Receive, settings
<1>4. ASSUME NEW w \in Workers, LeaveAlone(w) PROVE Pure!Keep(w)
  BY <1>4 DEF LeaveAlone, settings, Pure!Keep, Pure!Upcoming, Stage, Piece, Subject, Words
<1>5. ASSUME NEW w \in Workers, Look(w) PROVE Pure!Keep(w) \/ Pure!Decide(w)
  <2>1. CASE off
    BY <1>5, <2>1 DEF Look, settings, Pure!Keep, Pure!Upcoming, Stage, Piece, Subject, Words
  <2>2. CASE ~ off
    <3>1. Stage[w] = "open" /\ Stage' = [Stage EXCEPT ![w] = "decided"]
      BY <1>5, <2>2 DEF Look, Stage, IInv, TypeOK
    <3> QED BY <1>5, <2>2, <3>1 DEF Look, settings, Pure!Decide, Pure!Upcoming, Piece
  <2> QED BY <2>1, <2>2
<1>6. ASSUME NEW w \in Workers, pc[w] \in {"get", "compute"},
             Told(w, CompressTextUncached(Subject(w)))
      PROVE  Pure!Answer(w)
  <2>1. Stage[w] = "decided" /\ Stage' = [Stage EXCEPT ![w] = "open"]
    BY <1>6 DEF Told, Stage, IInv, TypeOK
  <2> QED BY <1>6, <2>1 DEF Told, settings, Pure!Answer, Pure!Upcoming, Piece, Subject, Words, Best
<1>7. ASSUME NEW w \in Workers, Hit(w) PROVE Pure!Answer(w)
  <2>1. Subject(w) \in Texts
    BY <1>7, PieceType DEF Hit, IInv, LookingAtOne
  <2>2. items[Key(w)] = CompressTextUncached(Subject(w))
    BY <1>7, <2>1 DEF Hit, Key, IInv, MemoTrue
  <2> QED BY <1>6, <1>7, <2>2 DEF Hit
<1>8. ASSUME NEW w \in Workers, Miss(w) PROVE UNCHANGED Pure!vars
  BY <1>8 DEF Miss, settings, Pure!vars, Stage, IInv, TypeOK
<1>9. ASSUME NEW w \in Workers, Remember(w) PROVE Pure!Answer(w)
  BY <1>6, <1>9 DEF Remember
<1>10. ASSUME NEW w \in Workers, HandOn(w) PROVE Pure!HandOn(w)
  <2>1. Stage[w] = "open" /\ Stage' = [Stage EXCEPT ![w] = "idle"]
    BY <1>10 DEF HandOn, Stage, IInv, TypeOK
  <2> QED BY <1>10, <2>1 DEF HandOn, settings, Pure!HandOn
<1> QED BY <1>1, <1>2, <1>3, <1>4, <1>5, <1>7, <1>8, <1>9, <1>10 DEF Next, Step, Pure!Next

(* The memo cannot be seen: Compression implements PureTransform, the      *)
(* transform without it (cache.go 16 to 20).                               *)
THEOREM MemoIsUnseen == Spec => MemoUnseen
BY InitPure, StepPure, IInvHolds, PTL DEF Spec, MemoUnseen

(***************************************************************************)
(* The bytes of a conversation's history.  The invariant has three parts:  *)
(* a request is a prefix of its conversation and no shorter than the ones  *)
(* before it; the numbers of the settings rise from request to request;    *)
(* and under a history h of the switch, a request during which nothing was *)
(* set is the image of its conversation under the switch of its time.      *)
(***************************************************************************)
ImageOf(skip, w, n) ==
  [i \in 1 .. n |-> IF Eligible(Talk[w][i]) /\ ~ skip THEN Best(Talk[w][i].text)
                    ELSE Talk[w][i].text]

PrefixInv ==
  \A w \in Workers :
    /\ Len(request[w]) <= Len(Talk[w])
    /\ \A i \in 1 .. Len(request[w]) : request[w][i] = Talk[w][i]
    /\ \A i \in 1 .. Len(done[w]) : Len(done[w][i].body) <= Len(request[w])
    /\ \A i, j \in 1 .. Len(done[w]) :
         i < j => Len(done[w][i].body) <= Len(done[w][j].body)

AgeInv ==
  \A w \in Workers :
    /\ since[w] <= configures
    /\ \A i \in 1 .. Len(done[w]) :
         /\ done[w][i].from <= done[w][i].to
         /\ done[w][i].to <= IF pc[w] = "idle" THEN configures ELSE since[w]
    /\ \A i, j \in 1 .. Len(done[w]) : i < j => done[w][i].to <= done[w][j].from

ImageInv(h) ==
  /\ h[configures] = off
  /\ \A w \in Workers :
       /\ pc[w] # "idle" /\ since[w] = configures =>
            body[w] = ImageOf(off, w, Len(body[w]))
       /\ pc[w] \in {"get", "compute"} /\ since[w] = configures => ~ off
       /\ \A i \in 1 .. Len(done[w]) : done[w][i].from = done[w][i].to =>
            done[w][i].body = ImageOf(h[done[w][i].to], w, Len(done[w][i].body))

HInv == /\ IInv
        /\ PrefixInv
        /\ AgeInv
        /\ \E h \in [Nat -> BOOLEAN] : ImageInv(h)

LEMMA HInvStable == HInv => HistoryStable
<1> SUFFICES ASSUME HInv, NEW w \in Workers, NEW i \in DOMAIN done[w], NEW j \in DOMAIN done[w],
                    i < j, done[w][i].from = done[w][j].to
             PROVE  SubSeq(done[w][j].body, 1, Len(done[w][i].body)) = done[w][i].body
  BY DEF HistoryStable
<1>1. PICK h \in [Nat -> BOOLEAN] : ImageInv(h)
  BY DEF HInv
<1> DEFINE c == done[w][j].to
           m == Len(done[w][i].body)
           n == Len(done[w][j].body)
<1>2. done[w] \in Seq(Handed) /\ i \in 1 .. Len(done[w]) /\ j \in 1 .. Len(done[w])
  BY DEF HInv, IInv, TypeOK
<1>3. done[w][i] \in Handed /\ done[w][j] \in Handed
  BY <1>2
<1>4. done[w][i].from = c /\ done[w][i].to = c /\ done[w][j].from = c
  <2>1. /\ done[w][i].from \in Nat /\ done[w][i].to \in Nat
        /\ done[w][j].from \in Nat /\ done[w][j].to \in Nat
    BY <1>3 DEF Handed
  <2>2. /\ done[w][i].from <= done[w][i].to
        /\ done[w][i].to <= done[w][j].from
        /\ done[w][j].from <= done[w][j].to
    BY <1>2 DEF HInv, AgeInv
  <2> QED BY <2>1, <2>2
<1>5. /\ done[w][i].body = ImageOf(h[c], w, m)
      /\ done[w][j].body = ImageOf(h[c], w, n)
  BY <1>1, <1>2, <1>4 DEF ImageInv
<1>6. m \in Nat /\ n \in Nat /\ m <= n
  <2>1. done[w][i].body \in Seq(Outcomes) /\ done[w][j].body \in Seq(Outcomes)
    BY <1>3 DEF Handed
  <2>2. m <= n
    BY <1>2 DEF HInv, PrefixInv
  <2> QED BY <2>1, <2>2
<1>7. done[w][j].body \in Seq(Outcomes) /\ done[w][i].body \in Seq(Outcomes)
  BY <1>3 DEF Handed
<1> HIDE DEF c
<1>8. SubSeq(done[w][j].body, 1, m) = [k \in 1 .. m |-> done[w][j].body[k]]
  BY <1>6, <1>7
<1>9. \A k \in 1 .. m : done[w][j].body[k] = done[w][i].body[k]
  BY <1>5, <1>6 DEF ImageOf
<1>10. done[w][i].body = [k \in 1 .. m |-> done[w][i].body[k]]
  BY <1>7
<1> QED BY <1>8, <1>9, <1>10

LEMMA InitHInv == Init => HInv
<1> SUFFICES ASSUME Init PROVE HInv
  OBVIOUS
<1>1. PrefixInv /\ AgeInv
  BY TalkAssumption DEF Init, PrefixInv, AgeInv
<1>2. [n \in Nat |-> off] \in [Nat -> BOOLEAN] /\ ImageInv([n \in Nat |-> off])
  BY DEF Init, ImageInv
<1> QED BY <1>1, <1>2, InitIInv DEF HInv

(* The next text of the image, told while nothing was set since the        *)
(* request came in, makes the image one text longer.                       *)
Due(w) == IF Eligible(Piece(w)) /\ ~ off THEN Best(Subject(w)) ELSE Subject(w)

LEMMA ImageGrows ==
  ASSUME IInv, PrefixInv, NEW w \in Workers, Len(body[w]) < Len(request[w]),
         body[w] = ImageOf(off, w, Len(body[w]))
  PROVE  Append(body[w], Due(w)) = ImageOf(off, w, Len(body[w]) + 1)
<1> DEFINE n == Len(body[w])
           image == ImageOf(off, w, n + 1)
<1>1. body[w] \in Seq(Outcomes) /\ n \in Nat /\ request[w] \in Seq(Pieces)
  BY DEF IInv, TypeOK
<1>2. n + 1 \in 1 .. Len(request[w])
  BY <1>1
<1>3. Piece(w) = Talk[w][n + 1]
  BY <1>2 DEF PrefixInv, Piece
<1>4. image[n + 1] = Due(w)
  BY <1>1, <1>3 DEF ImageOf, Due, Subject
<1>5. \A i \in 1 .. n : image[i] = body[w][i]
  BY <1>1 DEF ImageOf
<1>6. image = [i \in 1 .. n + 1 |-> image[i]]
  BY DEF ImageOf
<1> HIDE DEF image
<1>7. Append(body[w], Due(w)) = [i \in 1 .. n + 1 |-> IF i = n + 1 THEN Due(w) ELSE body[w][i]]
  BY <1>1
<1>8. \A i \in 1 .. n + 1 : Append(body[w], Due(w))[i] = image[i]
  BY <1>1, <1>4, <1>5, <1>7
<1> QED BY <1>6, <1>7, <1>8 DEF image

(* What every step inside a request keeps.                                 *)
LEMMA InsideKeeps ==
  ASSUME HInv, NEW w \in Workers, NEW q \in {"look", "get", "compute"}, NEW t,
         pc[w] # "idle", pc' = [pc EXCEPT ![w] = q],
         UNCHANGED <<settings, request, since, done>>,
         q \in {"get", "compute"} /\ since[w] = configures => ~ off,
         \/ UNCHANGED body
         \/ /\ Len(body[w]) < Len(request[w])
            /\ body' = [body EXCEPT ![w] = Append(@, t)]
            /\ since[w] = configures => t = Due(w)
  PROVE  PrefixInv' /\ AgeInv' /\ \E h \in [Nat -> BOOLEAN] : ImageInv(h)'
<1>1. PrefixInv'
  BY DEF HInv, PrefixInv
<1>2. pc \in [Workers -> {"idle", "look", "get", "compute"}]
  BY DEF HInv, IInv, TypeOK
<1>3. \A v \in Workers : pc'[v] = "idle" <=> pc[v] = "idle"
  BY <1>2
<1>4. AgeInv'
  BY <1>3 DEF HInv, AgeInv, settings
<1>5. PICK h \in [Nat -> BOOLEAN] : ImageInv(h)
  BY DEF HInv
<1>6. ASSUME NEW v \in Workers, pc'[v] # "idle", since'[v] = configures'
      PROVE  body'[v] = ImageOf(off', v, Len(body'[v]))
  <2>1. body[v] = ImageOf(off, v, Len(body[v]))
    BY <1>3, <1>5, <1>6 DEF ImageInv, settings
  <2>2. CASE body'[v] = body[v]
    BY <2>1, <2>2 DEF settings
  <2>3. CASE body'[v] # body[v]
    <3>1. body \in [Workers -> Seq(Outcomes)]
      BY DEF HInv, IInv, TypeOK
    <3>2. v = w /\ Len(body[w]) < Len(request[w]) /\ body'[w] = Append(body[w], t)
      BY <2>3, <3>1
    <3>3. t = Due(w)
      BY <1>6, <2>3, <3>2 DEF settings
    <3>4. body'[w] = ImageOf(off, w, Len(body[w]) + 1)
      BY <2>1, <3>2, <3>3, ImageGrows DEF HInv
    <3>5. Len(body'[w]) = Len(body[w]) + 1
      BY <3>1, <3>2, <3>4 DEF ImageOf
    <3> QED BY <3>2, <3>4, <3>5 DEF settings
  <2> QED BY <2>2, <2>3
<1>7. ASSUME NEW v \in Workers, pc'[v] \in {"get", "compute"}, since'[v] = configures'
      PROVE  ~ off'
  BY <1>2, <1>5, <1>7 DEF ImageInv, settings
<1>8. ImageInv(h)'
  BY <1>5, <1>6, <1>7 DEF ImageInv, settings
<1> QED BY <1>1, <1>4, <1>8

(* A request that comes in starts the image anew, with nothing of it told. *)
LEMMA ReceiveKeeps ==
  ASSUME HInv, NEW w \in Workers, Receive(w)
  PROVE  PrefixInv' /\ AgeInv' /\ \E h \in [Nat -> BOOLEAN] : ImageInv(h)'
<1>1. PICK n \in 1 .. Len(Talk[w]) :
        n >= Len(request[w]) /\ request' = [request EXCEPT ![w] = SubSeq(Talk[w], 1, n)]
  BY DEF Receive
<1>2. Talk[w] \in Seq(Pieces)
  BY TalkAssumption
<1>3. /\ Len(SubSeq(Talk[w], 1, n)) = n
      /\ \A i \in 1 .. n : SubSeq(Talk[w], 1, n)[i] = Talk[w][i]
  BY <1>1, <1>2
<1>4. /\ request \in [Workers -> Seq(Pieces)] /\ body \in [Workers -> Seq(Outcomes)]
      /\ pc \in [Workers -> {"idle", "look", "get", "compute"}]
      /\ since \in [Workers -> Nat] /\ configures \in Nat
      /\ done \in [Workers -> Seq(Handed)]
  BY DEF HInv, IInv, TypeOK
<1>5. PrefixInv'
  <2> SUFFICES ASSUME NEW v \in Workers
               PROVE  /\ Len(request'[v]) <= Len(Talk[v])
                      /\ \A i \in 1 .. Len(request'[v]) : request'[v][i] = Talk[v][i]
                      /\ \A i \in 1 .. Len(done[v]) : Len(done[v][i].body) <= Len(request'[v])
                      /\ \A i, j \in 1 .. Len(done[v]) :
                           i < j => Len(done[v][i].body) <= Len(done[v][j].body)
    BY DEF PrefixInv, Receive
  <2>1. CASE v # w
    BY <1>1, <1>4, <2>1 DEF HInv, PrefixInv
  <2>2. CASE v = w
    <3>1. request'[w] = SubSeq(Talk[w], 1, n)
      BY <1>1, <1>4
    <3>2. \A i \in 1 .. Len(done[w]) : Len(done[w][i].body) <= n
      <4>1. ASSUME NEW i \in 1 .. Len(done[w]) PROVE Len(done[w][i].body) <= n
        <5>1. done[w][i].body \in Seq(Outcomes)
          <6>1. done[w][i] \in Handed
            BY <1>4
          <6> QED BY <6>1 DEF Handed
        <5>2. Len(done[w][i].body) <= Len(request[w])
          BY DEF HInv, PrefixInv
        <5>3. Len(done[w][i].body) \in Nat /\ Len(request[w]) \in Nat
          BY <1>4, <5>1
        <5> QED BY <1>1, <5>2, <5>3
      <4> QED BY <4>1
    <3>3. Len(Talk[w]) \in Nat /\ n \in Nat /\ n <= Len(Talk[w])
      BY <1>2
    <3>4. \A i, j \in 1 .. Len(done[w]) :
            i < j => Len(done[w][i].body) <= Len(done[w][j].body)
      BY DEF HInv, PrefixInv
    <3> QED BY <1>3, <2>2, <3>1, <3>2, <3>3, <3>4
  <2> QED BY <2>1, <2>2
<1>6. AgeInv'
  BY <1>4 DEF Receive, HInv, AgeInv, settings
<1>7. PICK h \in [Nat -> BOOLEAN] : ImageInv(h)
  BY DEF HInv
<1>8. body' = [body EXCEPT ![w] = <<>>] /\ pc' = [pc EXCEPT ![w] = "look"]
      /\ UNCHANGED <<off, configures, done>>
      /\ \A v \in Workers : v # w => since'[v] = since[v]
  BY <1>4 DEF Receive, settings
<1>9. <<>> = ImageOf(off, w, 0) /\ Len(<<>>) = 0
  BY DEF ImageOf
<1>10. ImageInv(h)'
  BY <1>4, <1>7, <1>8, <1>9 DEF ImageInv
<1> QED BY <1>5, <1>6, <1>7, <1>10

(* What is handed on joins the history of its conversation.                *)
LEMMA HandOnKeeps ==
  ASSUME HInv, NEW w \in Workers, HandOn(w)
  PROVE  PrefixInv' /\ AgeInv' /\ \E h \in [Nat -> BOOLEAN] : ImageInv(h)'
<1> DEFINE d == [body |-> body[w], from |-> since[w], to |-> configures]
           n == Len(done[w])
<1>1. /\ request \in [Workers -> Seq(Pieces)] /\ body \in [Workers -> Seq(Outcomes)]
      /\ pc \in [Workers -> {"idle", "look", "get", "compute"}]
      /\ since \in [Workers -> Nat] /\ configures \in Nat
      /\ done \in [Workers -> Seq(Handed)]
  BY DEF HInv, IInv, TypeOK
<1>2. /\ done' = [done EXCEPT ![w] = Append(@, d)]
      /\ pc' = [pc EXCEPT ![w] = "idle"] /\ pc[w] = "look"
      /\ Len(body[w]) = Len(request[w])
      /\ UNCHANGED <<off, configures, request, body, since>>
  BY DEF HandOn, settings
<1>3. n \in Nat /\ d \in Handed
  BY <1>1 DEF Handed
<1>4. /\ Len(done'[w]) = n + 1 /\ done'[w][n + 1] = d
      /\ \A i \in 1 .. n : done'[w][i] = done[w][i]
  BY <1>1, <1>2, <1>3
<1>5. \A v \in Workers : v # w => done'[v] = done[v] /\ pc'[v] = pc[v]
  BY <1>1, <1>2
<1>6. d.body = body[w] /\ d.from = since[w] /\ d.to = configures
  OBVIOUS
<1>7. \A i \in 1 .. n : /\ done[w][i].from \in Nat /\ done[w][i].to \in Nat
                        /\ Len(done[w][i].body) \in Nat
  <2> TAKE i \in 1 .. n
  <2>1. done[w][i] \in Handed
    BY <1>1
  <2> QED BY <2>1 DEF Handed
<1> HIDE DEF d
<1>8. PrefixInv'
  <2>1. ASSUME NEW v \in Workers, v # w
        PROVE  /\ \A i \in 1 .. Len(done'[v]) : Len(done'[v][i].body) <= Len(request[v])
               /\ \A i, j \in 1 .. Len(done'[v]) :
                    i < j => Len(done'[v][i].body) <= Len(done'[v][j].body)
    BY <1>5, <2>1 DEF HInv, PrefixInv
  <2>2. /\ \A i \in 1 .. n + 1 : Len(done'[w][i].body) <= Len(request[w])
        /\ \A i, j \in 1 .. n + 1 : i < j => Len(done'[w][i].body) <= Len(done'[w][j].body)
    <3>1. /\ \A i \in 1 .. n : Len(done[w][i].body) <= Len(request[w])
          /\ \A i, j \in 1 .. n : i < j => Len(done[w][i].body) <= Len(done[w][j].body)
      BY DEF HInv, PrefixInv
    <3>2. Len(request[w]) \in Nat /\ Len(done'[w][n + 1].body) = Len(request[w])
      BY <1>1, <1>2, <1>4, <1>6
    <3>3. \A i \in 1 .. n : Len(done'[w][i].body) <= Len(request[w])
      BY <1>4, <3>1
    <3>4. \A i \in 1 .. n + 1 : i # n + 1 => i \in 1 .. n
      BY <1>3
    <3>5. \A i \in 1 .. n + 1 : Len(done'[w][i].body) <= Len(request[w])
      BY <3>2, <3>3, <3>4
    <3>6. ASSUME NEW i \in 1 .. n + 1, NEW j \in 1 .. n + 1, i < j
          PROVE  Len(done'[w][i].body) <= Len(done'[w][j].body)
      <4>1. i \in 1 .. n
        BY <1>3, <3>6
      <4>2. CASE j = n + 1
        BY <3>2, <3>3, <4>1, <4>2
      <4>3. CASE j # n + 1
        <5>1. j \in 1 .. n
          BY <3>4, <4>3
        <5> QED BY <1>4, <3>1, <3>6, <4>1, <5>1
      <4> QED BY <4>2, <4>3
    <3> QED BY <3>5, <3>6
  <2>3. /\ Len(request[w]) <= Len(Talk[w])
        /\ \A v \in Workers : /\ Len(request[v]) <= Len(Talk[v])
                              /\ \A i \in 1 .. Len(request[v]) : request[v][i] = Talk[v][i]
    BY DEF HInv, PrefixInv
  <2> SUFFICES ASSUME NEW v \in Workers
               PROVE  /\ \A i \in 1 .. Len(done'[v]) : Len(done'[v][i].body) <= Len(request[v])
                      /\ \A i, j \in 1 .. Len(done'[v]) :
                           i < j => Len(done'[v][i].body) <= Len(done'[v][j].body)
    BY <1>2, <2>3 DEF PrefixInv
  <2>4. CASE v = w
    BY <1>4, <2>2, <2>4
  <2> QED BY <2>1, <2>4
<1>9. AgeInv'
  <2>1. ASSUME NEW v \in Workers, v # w
        PROVE  /\ \A i \in 1 .. Len(done'[v]) :
                    /\ done'[v][i].from <= done'[v][i].to
                    /\ done'[v][i].to <= IF pc'[v] = "idle" THEN configures ELSE since[v]
               /\ \A i, j \in 1 .. Len(done'[v]) : i < j => done'[v][i].to <= done'[v][j].from
    BY <1>5, <2>1 DEF HInv, AgeInv
  <2>2. /\ since[w] <= configures
        /\ \A i \in 1 .. n : /\ done[w][i].from <= done[w][i].to
                             /\ done[w][i].to <= since[w]
        /\ \A i, j \in 1 .. n : i < j => done[w][i].to <= done[w][j].from
    BY <1>2 DEF HInv, AgeInv
  <2>3. \A i \in 1 .. n + 1 : i # n + 1 => i \in 1 .. n
    BY <1>3
  <2>4. ASSUME NEW i \in 1 .. n + 1
        PROVE  done'[w][i].from <= done'[w][i].to /\ done'[w][i].to <= configures
    <3>1. CASE i = n + 1
      BY <1>1, <1>4, <1>6, <2>2, <3>1
    <3>2. CASE i # n + 1
      <4>1. i \in 1 .. n
        BY <2>3, <3>2
      <4>2. done'[w][i] = done[w][i] /\ done[w][i].to \in Nat
        BY <1>4, <1>7, <4>1
      <4>3. since[w] \in Nat
        BY <1>1
      <4> QED BY <1>1, <2>2, <4>1, <4>2, <4>3
    <3> QED BY <3>1, <3>2
  <2>5. ASSUME NEW i \in 1 .. n + 1, NEW j \in 1 .. n + 1, i < j
        PROVE  done'[w][i].to <= done'[w][j].from
    <3>1. i \in 1 .. n
      BY <1>3, <2>5
    <3>2. CASE j = n + 1
      BY <1>4, <1>6, <2>2, <3>1, <3>2
    <3>3. CASE j # n + 1
      <4>1. j \in 1 .. n
        BY <2>3, <3>3
      <4> QED BY <1>4, <2>2, <2>5, <3>1, <4>1
    <3> QED BY <3>2, <3>3
  <2>6. pc'[w] = "idle"
    BY <1>1, <1>2
  <2>7. \A v \in Workers : since[v] <= configures
    BY DEF HInv, AgeInv
  <2> QED BY <1>2, <1>4, <2>1, <2>4, <2>5, <2>6, <2>7 DEF AgeInv
<1>10. PICK h \in [Nat -> BOOLEAN] : ImageInv(h)
  BY DEF HInv
<1>11. ASSUME NEW v \in Workers, NEW i \in 1 .. Len(done'[v]), done'[v][i].from = done'[v][i].to
       PROVE  done'[v][i].body = ImageOf(h[done'[v][i].to], v, Len(done'[v][i].body))
  <2>1. CASE v = w /\ i = n + 1
    <3>1. since[w] = configures
      BY <1>4, <1>6, <1>11, <2>1
    <3>2. body[w] = ImageOf(h[configures], w, Len(body[w]))
      BY <1>2, <1>10, <3>1 DEF ImageInv
    <3> QED BY <1>4, <1>6, <2>1, <3>2
  <2>2. CASE ~ (v = w /\ i = n + 1)
    <3>1. i \in 1 .. Len(done[v]) /\ done'[v][i] = done[v][i]
      BY <1>3, <1>4, <1>5, <2>2
    <3> QED BY <1>10, <1>11, <3>1 DEF ImageInv
  <2> QED BY <2>1, <2>2
<1>12. ImageInv(h)'
  BY <1>1, <1>2, <1>10, <1>11 DEF ImageInv
<1> QED BY <1>8, <1>9, <1>10, <1>12

LEMMA NextHInv == HInv /\ [Next]_vars => HInv'
<1> SUFFICES ASSUME HInv, [Next]_vars PROVE HInv'
  OBVIOUS
<1>1. IInv /\ IInv'
  BY NextIInv DEF HInv
<1>2. CASE UNCHANGED vars
  BY <1>1, <1>2 DEF vars, settings, HInv, PrefixInv, AgeInv, ImageInv
<1>3. CASE Configure
  <2>1. PICK h \in [Nat -> BOOLEAN] : ImageInv(h)
    BY DEF HInv
  <2>2. /\ configures \in Nat /\ configures' = configures + 1 /\ off' \in BOOLEAN
        /\ since \in [Workers -> Nat] /\ done \in [Workers -> Seq(Handed)]
        /\ UNCHANGED <<pc, request, body, since, done>>
    BY <1>1, <1>3 DEF Configure, IInv, TypeOK
  <2>3. \A v \in Workers : since[v] <= configures /\ since[v] # configures'
    BY <2>2 DEF HInv, AgeInv
  <2>4. \A v \in Workers : \A i \in 1 .. Len(done[v]) :
          done[v][i].to \in Nat /\ done[v][i].to <= configures
    <3> TAKE v \in Workers
    <3> TAKE i \in 1 .. Len(done[v])
    <3>1. done[v][i] \in Handed
      BY <2>2
    <3>2. done[v][i].to <= configures \/ done[v][i].to <= since[v]
      BY DEF HInv, AgeInv
    <3>3. done[v][i].to \in Nat /\ since[v] \in Nat
      BY <2>2, <3>1 DEF Handed
    <3> QED BY <2>2, <2>3, <3>2, <3>3
  <2>5. PICK g \in [Nat -> BOOLEAN] :
          g[configures'] = off' /\ \A n \in Nat : n <= configures => g[n] = h[n]
    <3> DEFINE g == [n \in Nat |-> IF n = configures + 1 THEN off' ELSE h[n]]
    <3>1. g \in [Nat -> BOOLEAN]
      BY <2>2
    <3>2. g[configures'] = off' /\ \A n \in Nat : n <= configures => g[n] = h[n]
      BY <2>2
    <3> QED BY <3>1, <3>2
  <2>6. ImageInv(g)'
    BY <2>1, <2>2, <2>3, <2>4, <2>5 DEF ImageInv
  <2>7. PrefixInv'
    BY <2>2 DEF HInv, PrefixInv
  <2>8. AgeInv'
    <3>1. \A v \in Workers : since[v] <= configures'
      BY <2>2, <2>3
    <3>2. \A v \in Workers : \A i \in 1 .. Len(done[v]) : done[v][i].to <= configures'
      BY <2>2, <2>4
    <3> QED BY <2>2, <3>1, <3>2 DEF HInv, AgeInv
  <2> QED BY <1>1, <2>5, <2>6, <2>7, <2>8 DEF HInv
<1>4. ASSUME NEW w \in Workers, Receive(w) PROVE HInv'
  BY <1>1, <1>4, ReceiveKeeps DEF HInv
<1>5. ASSUME NEW w \in Workers, LeaveAlone(w) PROVE HInv'
  <2>1. /\ pc[w] # "idle" /\ pc' = [pc EXCEPT ![w] = "look"]
        /\ Subject(w) = Due(w)
    BY <1>1, <1>5 DEF LeaveAlone, Due, IInv, TypeOK
  <2> QED BY <1>1, <1>5, <2>1, InsideKeeps DEF LeaveAlone, HInv
<1>6. ASSUME NEW w \in Workers, Look(w) PROVE HInv'
  <2>1. CASE off
    <3>1. /\ pc[w] # "idle" /\ pc' = [pc EXCEPT ![w] = "look"]
          /\ Subject(w) = Due(w)
      BY <1>1, <1>6, <2>1 DEF Look, Due, IInv, TypeOK
    <3> QED BY <1>1, <1>6, <2>1, <3>1, InsideKeeps DEF Look, HInv
  <2>2. CASE ~ off
    BY <1>1, <1>6, <2>2, InsideKeeps DEF Look, HInv
  <2> QED BY <2>1, <2>2
<1>7. ASSUME NEW w \in Workers, pc[w] \in {"get", "compute"},
             Told(w, CompressTextUncached(Subject(w)))
      PROVE  HInv'
  <2>1. Len(body[w]) < Len(request[w]) /\ Eligible(Piece(w))
    BY <1>1, <1>7 DEF IInv, LookingAtOne
  <2>2. PICK h \in [Nat -> BOOLEAN] : ImageInv(h)
    BY DEF HInv
  <2>3. since[w] = configures => ~ off
    BY <1>7, <2>2 DEF ImageInv
  <2>4. since[w] = configures => Best(Subject(w)) = Due(w)
    BY <2>1, <2>3 DEF Due
  <2>5. body' = [body EXCEPT ![w] = Append(@, Best(Subject(w)))]
    BY <1>7 DEF Told, Best
  <2> QED BY <1>1, <1>7, <2>1, <2>4, <2>5, InsideKeeps DEF Told, HInv
<1>8. ASSUME NEW w \in Workers, Hit(w) PROVE HInv'
  <2>1. Subject(w) \in Texts
    BY <1>1, <1>8, PieceType DEF Hit, IInv, LookingAtOne
  <2>2. items[Key(w)] = CompressTextUncached(Subject(w))
    BY <1>1, <1>8, <2>1 DEF Hit, Key, IInv, MemoTrue
  <2> QED BY <1>7, <1>8, <2>2 DEF Hit
<1>9. ASSUME NEW w \in Workers, Miss(w) PROVE HInv'
  <2>1. PICK h \in [Nat -> BOOLEAN] : ImageInv(h)
    BY DEF HInv
  <2>2. since[w] = configures => ~ off
    BY <1>9, <2>1 DEF Miss, ImageInv
  <2> QED BY <1>1, <1>9, <2>2, InsideKeeps DEF Miss, HInv
<1>10. ASSUME NEW w \in Workers, Remember(w) PROVE HInv'
  BY <1>7, <1>10 DEF Remember
<1>11. ASSUME NEW w \in Workers, HandOn(w) PROVE HInv'
  BY <1>1, <1>11, HandOnKeeps DEF HInv
<1> QED BY <1>2, <1>3, <1>4, <1>5, <1>6, <1>8, <1>9, <1>10, <1>11 DEF Next, Step

(* A later turn repeats the bytes of an earlier one when the settings did  *)
(* not change in between, for every memo and every other conversation      *)
(* (messages.go 76 to 81).                                                 *)
THEOREM HistoryIsStable == Spec => []HistoryStable
BY InitHInv, NextHInv, HInvStable, PTL DEF Spec

-----------------------------------------------------------------------------
(***************************************************************************)
(* Sums over finite sets, what MapThenSumSet computes: the recursion picks *)
(* the elements in an order of its own, which addition does not see.       *)
(***************************************************************************)
Chosen(s) == CHOOSE x \in s : TRUE

(* g holds the sums of f over the subsets of S.                            *)
Sums(f, S, g) ==
  g = [s \in SUBSET S |-> IF s = {} THEN 0 ELSE f[Chosen(s)] + g[s \ {Chosen(s)}]]

SumOf(f, S) == MapThenSumSet(LAMBDA m : f[m], S)

(* Finite sets by their size, for an induction over it.                    *)
LEMMA Smaller ==
  ASSUME NEW S, IsFiniteSet(S), NEW s \in SUBSET S
  PROVE  /\ IsFiniteSet(s) /\ Cardinality(s) \in Nat
         /\ Cardinality(s) = 0 <=> s = {}
         /\ \A x \in s : /\ s \ {x} \in SUBSET S
                         /\ Cardinality(s \ {x}) = Cardinality(s) - 1
         /\ s # {} => Chosen(s) \in s
<1>1. IsFiniteSet(s) /\ Cardinality(s) \in Nat
  BY FS_Subset, FS_CardinalityType
<1>2. Cardinality(s) = 0 <=> s = {}
  BY <1>1, FS_EmptySet
<1>3. \A x \in s : Cardinality(s \ {x}) = Cardinality(s) - 1
  BY <1>1, FS_RemoveElement
<1>4. s # {} => Chosen(s) \in s
  BY DEF Chosen
<1> QED BY <1>1, <1>2, <1>3, <1>4

LEMMA SumsExist ==
  ASSUME NEW f, NEW S, IsFiniteSet(S)
  PROVE  \E g : Sums(f, S, g)
<1> DEFINE Upto(n) == {s \in SUBSET S : Cardinality(s) <= n}
           Holds(n, g) == g = [s \in Upto(n) |->
                                 IF s = {} THEN 0 ELSE f[Chosen(s)] + g[s \ {Chosen(s)}]]
           Good == {n \in Nat : \E g : Holds(n, g)}
<1>1. 0 \in Good
  <2> DEFINE g == [s \in Upto(0) |-> 0]
  <2>1. \A s \in Upto(0) : s = {}
    BY Smaller
  <2>2. Holds(0, g)
    BY <2>1
  <2> QED BY <2>2
<1>2. ASSUME NEW n \in Nat, n \in Good PROVE n + 1 \in Good
  <2>1. PICK g : Holds(n, g)
    BY <1>2
  <2> DEFINE h == [s \in Upto(n + 1) |->
                     IF s \in Upto(n) THEN g[s] ELSE f[Chosen(s)] + g[s \ {Chosen(s)}]]
  <2>2. ASSUME NEW s \in Upto(n + 1)
        PROVE  h[s] = IF s = {} THEN 0 ELSE f[Chosen(s)] + h[s \ {Chosen(s)}]
    <3>1. CASE s = {}
      <4>1. s \in Upto(n)
        BY <3>1, Smaller
      <4>2. h[s] = g[s]
        BY <4>1
      <4> HIDE DEF h
      <4> QED BY <2>1, <3>1, <4>1, <4>2
    <3>2. CASE s # {}
      <4>1. s \ {Chosen(s)} \in SUBSET S
            /\ Cardinality(s \ {Chosen(s)}) = Cardinality(s) - 1 /\ Cardinality(s) \in Nat
        BY <3>2, Smaller
      <4>2. s \ {Chosen(s)} \in Upto(n) /\ s \ {Chosen(s)} \in Upto(n + 1)
        BY <4>1
      <4>3. h[s \ {Chosen(s)}] = g[s \ {Chosen(s)}]
        BY <4>2
      <4>4. CASE s \in Upto(n)
        <5>1. h[s] = g[s]
          BY <4>4
        <5> HIDE DEF h
        <5> QED BY <2>1, <3>2, <4>3, <4>4, <5>1
      <4>5. CASE s \notin Upto(n)
        <5>1. h[s] = f[Chosen(s)] + g[s \ {Chosen(s)}]
          BY <4>5
        <5> HIDE DEF h
        <5> QED BY <3>2, <4>3, <5>1
      <4> QED BY <4>4, <4>5
    <3> QED BY <3>1, <3>2
  <2>3. h = [s \in Upto(n + 1) |-> IF s = {} THEN 0 ELSE f[Chosen(s)] + h[s \ {Chosen(s)}]]
    BY <2>2
  <2> HIDE DEF h
  <2>4. Holds(n + 1, h)
    BY <2>3
  <2> HIDE DEF Holds
  <2>5. n + 1 \in Nat
    OBVIOUS
  <2> QED BY <2>4, <2>5
<1> HIDE DEF Good
<1>3. Cardinality(S) \in Good
  <2>1. Nat \subseteq Good
    BY <1>1, <1>2, NatSetInduction
  <2> QED BY <2>1, FS_CardinalityType
<1>4. PICK g : Holds(Cardinality(S), g)
  BY <1>3 DEF Good
<1>5. Upto(Cardinality(S)) = SUBSET S
  BY FS_Subset
<1> QED BY <1>4, <1>5 DEF Sums

LEMMA SumIsOne ==
  ASSUME NEW f, NEW S, IsFiniteSet(S)
  PROVE  \E g : Sums(f, S, g) /\ SumOf(f, S) = g[S]
<1> DEFINE g == CHOOSE g : g = [s \in SUBSET S |->
                  IF s = {} THEN 0 ELSE f[CHOOSE x \in s : TRUE] + g[s \ {CHOOSE x \in s : TRUE}]]
<1>1. \E h : h = [s \in SUBSET S |->
                  IF s = {} THEN 0 ELSE f[CHOOSE x \in s : TRUE] + h[s \ {CHOOSE x \in s : TRUE}]]
  <2>1. PICK h : Sums(f, S, h)
    BY SumsExist
  <2> QED BY <2>1, Zenon DEF Sums, Chosen
<1>2. g = [s \in SUBSET S |->
             IF s = {} THEN 0 ELSE f[CHOOSE x \in s : TRUE] + g[s \ {CHOOSE x \in s : TRUE}]]
  BY <1>1
<1>3. SumOf(f, S) = g[S]
  BY DEF SumOf, MapThenSumSet, MapThenFoldSet
<1>4. Sums(f, S, g)
  BY <1>2, Zenon DEF Sums, Chosen
<1> QED BY <1>3, <1>4

(* Whichever element is taken away first, the rest of the sum is that of    *)
(* the rest of the set.                                                     *)
LEMMA SumsRemove ==
  ASSUME NEW f, NEW S, IsFiniteSet(S), \A x \in S : f[x] \in Nat, NEW g, Sums(f, S, g)
  PROVE  \A s \in SUBSET S : g[s] \in Nat /\ \A x \in s : g[s] = f[x] + g[s \ {x}]
<1> DEFINE Right(s) == g[s] \in Nat /\ \A x \in s : g[s] = f[x] + g[s \ {x}]
           Good == {n \in Nat : \A s \in SUBSET S : Cardinality(s) <= n => Right(s)}
<1>1. \A s \in SUBSET S : g[s] = IF s = {} THEN 0 ELSE f[Chosen(s)] + g[s \ {Chosen(s)}]
  BY DEF Sums
<1>2. 0 \in Good
  <2>1. ASSUME NEW s \in SUBSET S, Cardinality(s) <= 0 PROVE Right(s)
    <3>1. s = {}
      <4>1. Cardinality(s) = 0
        BY <2>1, Smaller
      <4> QED BY <4>1, Smaller
    <3>2. g[s] = 0
      BY <1>1, <3>1
    <3>3. \A x \in s : FALSE
      BY <3>1
    <3> QED BY <3>2, <3>3
  <2> QED BY <2>1
<1>3. ASSUME NEW n \in Nat, n \in Good PROVE n + 1 \in Good
  <2>0. \A s \in SUBSET S : Cardinality(s) <= n => Right(s)
    BY <1>3
  <2> HIDE DEF Right
  <2> SUFFICES ASSUME NEW s \in SUBSET S, Cardinality(s) = n + 1
               PROVE  Right(s)
    <3>1. \A s \in SUBSET S : Cardinality(s) <= n + 1 => Cardinality(s) <= n \/ Cardinality(s) = n + 1
      BY Smaller
    <3> QED BY <2>0, <3>1
  <2> USE DEF Right
  <2> DEFINE y == Chosen(s)
  <2>1. s # {} /\ y \in s /\ y \in S
    BY Smaller
  <2>2. ASSUME NEW x \in s PROVE s \ {x} \in SUBSET S /\ Cardinality(s \ {x}) <= n
    BY Smaller
  <2>3. ASSUME NEW x \in s PROVE Right(s \ {x})
    BY <2>0, <2>2
  <2>4. g[s] = f[y] + g[s \ {y}]
    BY <1>1, <2>1
  <2> HIDE DEF y
  <2>5. g[s] \in Nat
    BY <2>1, <2>3, <2>4
  <2>6. ASSUME NEW x \in s, x # y PROVE g[s] = f[x] + g[s \ {x}]
    <3> DEFINE t == s \ {x, y}
    <3>1. x \in s \ {y} /\ y \in s \ {x} /\ (s \ {y}) \ {x} = t /\ (s \ {x}) \ {y} = t
      BY <2>1, <2>6
    <3>2. g[s \ {y}] = f[x] + g[t] /\ g[s \ {x}] = f[y] + g[t]
      BY <2>1, <2>3, <3>1
    <3>3. g[t] \in Nat
      <4>1. s \ {y} \in SUBSET S /\ Cardinality(s \ {y}) <= n
        BY <2>1, <2>2
      <4>2. t \in SUBSET S /\ Cardinality(t) <= n
        BY <3>1, <4>1, Smaller
      <4> QED BY <2>0, <4>2
    <3>4. f[x] \in Nat /\ f[y] \in Nat
      BY <2>1
    <3> QED BY <2>4, <3>2, <3>3, <3>4
  <2>7. \A x \in s : g[s] = f[x] + g[s \ {x}]
    BY <2>4, <2>6
  <2> QED BY <2>5, <2>7
<1> HIDE DEF Good
<1>4. \A s \in SUBSET S : Cardinality(s) \in Good
  <2>1. Nat \subseteq Good
    BY <1>2, <1>3, NatSetInduction
  <2> QED BY <2>1, Smaller
<1>5. \A s \in SUBSET S : Right(s)
  BY <1>4 DEF Good
<1> QED BY <1>5

(* A sum depends on the values at its elements alone.                      *)
LEMMA SumsAgree ==
  ASSUME NEW e, NEW f, NEW S, IsFiniteSet(S), NEW T, S \subseteq T,
         \A x \in S : e[x] = f[x],
         NEW g, Sums(e, S, g), NEW h, Sums(f, T, h)
  PROVE  \A s \in SUBSET S : g[s] = h[s]
<1> DEFINE Good == {n \in Nat : \A s \in SUBSET S : Cardinality(s) = n => g[s] = h[s]}
<1>1. \A s \in SUBSET S :
        /\ g[s] = IF s = {} THEN 0 ELSE e[Chosen(s)] + g[s \ {Chosen(s)}]
        /\ h[s] = IF s = {} THEN 0 ELSE f[Chosen(s)] + h[s \ {Chosen(s)}]
  BY DEF Sums
<1>2. 0 \in Good
  <2>1. ASSUME NEW s \in SUBSET S, Cardinality(s) = 0 PROVE g[s] = h[s]
    <3>1. s = {}
      BY <2>1, Smaller
    <3> QED BY <1>1, <3>1
  <2> QED BY <2>1
<1>3. ASSUME NEW n \in Nat, n \in Good PROVE n + 1 \in Good
  <2>1. ASSUME NEW s \in SUBSET S, Cardinality(s) = n + 1 PROVE g[s] = h[s]
    <3> DEFINE y == Chosen(s)
    <3>1. s # {} /\ y \in s /\ s \ {y} \in SUBSET S /\ Cardinality(s \ {y}) = n
      BY <2>1, Smaller
    <3>2. g[s \ {y}] = h[s \ {y}]
      BY <1>3, <3>1
    <3> QED BY <1>1, <3>1, <3>2
  <2> QED BY <2>1
<1> HIDE DEF Good
<1>4. \A s \in SUBSET S : Cardinality(s) \in Good
  <2>1. Nat \subseteq Good
    BY <1>2, <1>3, NatSetInduction
  <2> QED BY <2>1, Smaller
<1> QED BY <1>4 DEF Good

LEMMA SumSame ==
  ASSUME NEW e, NEW f, NEW S, IsFiniteSet(S), \A x \in S : e[x] = f[x]
  PROVE  SumOf(e, S) = SumOf(f, S)
<1>1. PICK g : Sums(e, S, g) /\ SumOf(e, S) = g[S]
  BY SumIsOne
<1>2. PICK h : Sums(f, S, h) /\ SumOf(f, S) = h[S]
  BY SumIsOne
<1>3. S \in SUBSET S /\ S \subseteq S
  OBVIOUS
<1>4. \A s \in SUBSET S : g[s] = h[s]
  BY <1>1, <1>2, <1>3, SumsAgree
<1> QED BY <1>1, <1>2, <1>3, <1>4

LEMMA SumNothing ==
  ASSUME NEW f PROVE SumOf(f, {}) = 0
<1>1. PICK g : Sums(f, {}, g) /\ SumOf(f, {}) = g[{}]
  BY SumIsOne, FS_EmptySet
<1> QED BY <1>1 DEF Sums

(* One more element, or one taken out.                                     *)
LEMMA SumMore ==
  ASSUME NEW f, NEW S, IsFiniteSet(S), NEW x, x \notin S, \A y \in S \cup {x} : f[y] \in Nat
  PROVE  /\ SumOf(f, S) \in Nat /\ SumOf(f, S \cup {x}) = SumOf(f, S) + f[x]
<1> DEFINE T == S \cup {x}
<1>1. IsFiniteSet(T)
  BY FS_AddElement
<1>2. PICK g : Sums(f, S, g) /\ SumOf(f, S) = g[S]
  BY SumIsOne
<1>3. PICK h : Sums(f, T, h) /\ SumOf(f, T) = h[T]
  BY <1>1, SumIsOne
<1>4. g[S] = h[S]
  <2>1. S \subseteq T /\ \A y \in S : f[y] = f[y]
    OBVIOUS
  <2>2. \A s \in SUBSET S : g[s] = h[s]
    BY <1>2, <1>3, <2>1, SumsAgree
  <2> QED BY <2>2
<1>5. \A s \in SUBSET T : h[s] \in Nat /\ \A y \in s : h[s] = f[y] + h[s \ {y}]
  BY <1>1, <1>3, SumsRemove
<1>6. T \in SUBSET T /\ S \in SUBSET T /\ x \in T /\ T \ {x} = S
  OBVIOUS
<1>7. h[S] \in Nat /\ h[T] = f[x] + h[S]
  BY <1>5, <1>6
<1> QED BY <1>2, <1>3, <1>4, <1>7

LEMMA SumIsNat ==
  ASSUME NEW f, NEW S, IsFiniteSet(S), \A y \in S : f[y] \in Nat
  PROVE  SumOf(f, S) \in Nat
<1>1. PICK g : Sums(f, S, g) /\ SumOf(f, S) = g[S]
  BY SumIsOne
<1>2. \A s \in SUBSET S : g[s] \in Nat
  BY <1>1, SumsRemove
<1> QED BY <1>1, <1>2

LEMMA SumUnion ==
  ASSUME NEW f, NEW S, IsFiniteSet(S), NEW T, IsFiniteSet(T), S \cap T = {},
         \A y \in S \cup T : f[y] \in Nat
  PROVE  SumOf(f, S \cup T) = SumOf(f, S) + SumOf(f, T)
<1> DEFINE Good == {n \in Nat : \A t \in SUBSET T : Cardinality(t) = n =>
                                  SumOf(f, S \cup t) = SumOf(f, S) + SumOf(f, t)}
<1>0. SumOf(f, S) \in Nat /\ \A t \in SUBSET T : IsFiniteSet(t) /\ SumOf(f, t) \in Nat
  <2>1. ASSUME NEW t \in SUBSET T PROVE IsFiniteSet(t) /\ SumOf(f, t) \in Nat
    <3>1. IsFiniteSet(t) /\ \A y \in t : f[y] \in Nat
      BY Smaller
    <3> QED BY <3>1, SumIsNat
  <2>2. \A y \in S : f[y] \in Nat
    OBVIOUS
  <2> QED BY <2>1, <2>2, SumIsNat
<1>1. 0 \in Good
  <2>1. ASSUME NEW t \in SUBSET T, Cardinality(t) = 0
        PROVE  SumOf(f, S \cup t) = SumOf(f, S) + SumOf(f, t)
    <3>1. t = {} /\ S \cup {} = S
      BY <2>1, Smaller
    <3> QED BY <1>0, <3>1, SumNothing
  <2> QED BY <2>1
<1>2. ASSUME NEW n \in Nat, n \in Good PROVE n + 1 \in Good
  <2>1. ASSUME NEW t \in SUBSET T, Cardinality(t) = n + 1
        PROVE  SumOf(f, S \cup t) = SumOf(f, S) + SumOf(f, t)
    <3>1. t # {}
      BY <2>1, Smaller
    <3>2. PICK x : x \in t
      BY <3>1
    <3> DEFINE u == t \ {x}
    <3>3. u \in SUBSET T /\ Cardinality(u) = n /\ IsFiniteSet(u) /\ SumOf(f, u) \in Nat
      BY <1>0, <2>1, <3>2, Smaller
    <3>4. /\ t = u \cup {x} /\ S \cup t = (S \cup u) \cup {x}
          /\ x \notin u /\ x \notin S \cup u
          /\ \A y \in u \cup {x} : f[y] \in Nat
          /\ \A y \in (S \cup u) \cup {x} : f[y] \in Nat
      BY <3>2
    <3>5. IsFiniteSet(S \cup u)
      BY <3>3, FS_Union
    <3> HIDE DEF u
    <3>6. SumOf(f, S \cup u) = SumOf(f, S) + SumOf(f, u)
      BY <1>2, <3>3
    <3>7. SumOf(f, u \cup {x}) = SumOf(f, u) + f[x]
      BY <3>3, <3>4, SumMore
    <3>8. SumOf(f, (S \cup u) \cup {x}) = SumOf(f, S \cup u) + f[x]
      BY <3>4, <3>5, SumMore
    <3>9. f[x] \in Nat
      BY <3>2
    <3>10. SumOf(f, t) = SumOf(f, u) + f[x] /\ SumOf(f, S \cup t) = SumOf(f, S \cup u) + f[x]
      BY <3>4, <3>7, <3>8
    <3> DEFINE a == SumOf(f, S)
               b == SumOf(f, u)
    <3>11. a \in Nat /\ b \in Nat
      BY <1>0, <3>3
    <3>12. SumOf(f, S \cup u) = a + b
      BY <3>6
    <3> HIDE DEF a, b
    <3>13. (a + b) + f[x] = a + (b + f[x])
      BY <3>9, <3>11
    <3> QED BY <3>10, <3>12, <3>13 DEF a, b
  <2> QED BY <2>1
<1> HIDE DEF Good
<1>3. Cardinality(T) \in Good
  <2>1. Nat \subseteq Good
    BY <1>1, <1>2, NatSetInduction
  <2> QED BY <2>1, FS_CardinalityType
<1> QED BY <1>3 DEF Good

-----------------------------------------------------------------------------
(***************************************************************************)
(* The bytes that moved.  The report of a request under way tells of the   *)
(* texts it has changed so far, the collector of those of all requests     *)
(* that were handed on; the places of a request are new to the collector,  *)
(* so that its report is added to the totals.                              *)
(***************************************************************************)
Places == Workers \X Nat \X Nat
Olds == [m \in Places |-> Size[Talk[m[1]][m[3]].text]]
News == [m \in Places |-> Size[done[m[1]][m[2]].body[m[3]]]]
After(w) == [m \in Places |-> Size[body[w][m[3]]]]

Turned(w) == {k \in DOMAIN body[w] : body[w][k] # Talk[w][k].text}
Moving(w) == {<<w, Len(done[w]) + 1, k>> : k \in Turned(w)}
Quiet == {t \in Turns : t[2] \in DOMAIN done[t[1]] /\ Changed(t[1], t[2]) = {}}

ReportInv(w) ==
  /\ IsFiniteSet(Moving(w))
  /\ report[w].compressed = Cardinality(Moving(w))
  /\ report[w].before = SumOf(Olds, Moving(w))
  /\ report[w].after = SumOf(After(w), Moving(w))
  /\ report[w].saw <=> report[w].considered > 0
  /\ report[w].compressed < report[w].considered => report[w].reason # NoReason

CollectorInv ==
  /\ IsFiniteSet(Moved) /\ IsFiniteSet(Quiet)
  /\ totals.compressed = Cardinality(Moved)
  /\ totals.before = SumOf(Olds, Moved)
  /\ totals.after = SumOf(News, Moved)
  /\ SumOf(skips, Reasons) = Cardinality(Quiet)

BytesInv ==
  /\ CollectorInv
  /\ \A w \in Workers :
       /\ Len(done[w]) <= MaxTurns
       /\ pc[w] # "idle" => Len(done[w]) < MaxTurns /\ ReportInv(w)

(* What is moved, place by place.                                          *)
LEMMA MovedPlaces ==
  ASSUME HInv
  PROVE  /\ \A m \in Moved : \E w \in Workers : \E i \in DOMAIN done[w] : \E k \in Changed(w, i) :
                               i \in 1 .. MaxTurns /\ m = <<w, i, k>>
         /\ \A w \in Workers : \A i \in DOMAIN done[w] : \A k \in Changed(w, i) :
              i \in 1 .. MaxTurns => <<w, i, k>> \in Moved
<1>1. \A m : m \in Moved <=> \E t \in Turns : /\ t[2] \in DOMAIN done[t[1]]
                                              /\ m \in {<<t[1], t[2], n>> : n \in Changed(t[1], t[2])}
  BY DEF Moved
<1>2. \A t : t \in Turns <=> \E w \in Workers : \E i \in 1 .. MaxTurns : t = <<w, i>>
  BY DEF Turns
<1>3. ASSUME NEW m \in Moved
      PROVE  \E w \in Workers : \E i \in DOMAIN done[w] : \E k \in Changed(w, i) :
               i \in 1 .. MaxTurns /\ m = <<w, i, k>>
  <2>1. PICK t \in Turns : /\ t[2] \in DOMAIN done[t[1]]
                           /\ m \in {<<t[1], t[2], n>> : n \in Changed(t[1], t[2])}
    BY <1>1
  <2>2. PICK w \in Workers : \E i \in 1 .. MaxTurns : t = <<w, i>>
    BY <1>2, <2>1
  <2>3. PICK i \in 1 .. MaxTurns : t = <<w, i>>
    BY <2>2
  <2>4. t[1] = w /\ t[2] = i
    BY <2>3
  <2>5. PICK k \in Changed(t[1], t[2]) : m = <<t[1], t[2], k>>
    BY <2>1
  <2> QED BY <2>1, <2>4, <2>5
<1>4. ASSUME NEW w \in Workers, NEW i \in DOMAIN done[w], NEW k \in Changed(w, i), i \in 1 .. MaxTurns
      PROVE  <<w, i, k>> \in Moved
  <2> DEFINE t == <<w, i>>
  <2>1. t \in Turns /\ t[1] = w /\ t[2] = i
    BY <1>2, <1>4
  <2>2. <<w, i, k>> \in {<<t[1], t[2], n>> : n \in Changed(t[1], t[2])}
    BY <2>1
  <2> HIDE DEF t
  <2> QED BY <1>1, <2>1, <2>2
<1> QED BY <1>3, <1>4

LEMMA PlacesOf ==
  ASSUME HInv
  PROVE  /\ Moved \subseteq Places
         /\ \A w \in Workers : Moving(w) \subseteq Places /\ Turned(w) \subseteq 1 .. Len(body[w])
         /\ \A m \in Moved : Olds[m] \in Nat /\ News[m] \in Nat
         /\ \A w \in Workers : \A m \in Moving(w) : Olds[m] \in Nat /\ After(w)[m] \in Nat
<1>1. \A w \in Workers :
        /\ body[w] \in Seq(Outcomes) /\ done[w] \in Seq(Handed)
        /\ Talk[w] \in Seq(Pieces) /\ request[w] \in Seq(Pieces)
        /\ Len(body[w]) <= Len(request[w]) /\ Len(request[w]) <= Len(Talk[w])
  BY TalkAssumption DEF HInv, IInv, TypeOK, PrefixInv
<1>2. ASSUME NEW w \in Workers, NEW k \in 1 .. Len(Talk[w])
      PROVE  k \in Nat /\ Size[Talk[w][k].text] \in Nat
  <2>1. Talk[w][k] \in Pieces /\ k \in Nat
    BY <1>1
  <2> QED BY <2>1, TextsAssumption DEF Pieces
<1>3. ASSUME NEW w \in Workers, NEW i \in DOMAIN done[w]
      PROVE  /\ i \in Nat /\ done[w][i].body \in Seq(Outcomes)
             /\ Len(done[w][i].body) <= Len(Talk[w])
  <2>1. i \in 1 .. Len(done[w])
    BY <1>1, <1>3
  <2>2. done[w][i] \in Handed
    BY <1>1, <2>1
  <2>3. done[w][i].body \in Seq(Outcomes)
    BY <2>2 DEF Handed
  <2>4. Len(done[w][i].body) <= Len(request[w])
    BY <2>1 DEF HInv, PrefixInv
  <2>5. Len(done[w][i].body) \in Nat /\ Len(request[w]) \in Nat /\ Len(Talk[w]) \in Nat
    BY <1>1, <2>3
  <2> QED BY <1>1, <2>1, <2>3, <2>4, <2>5
<1>4. ASSUME NEW m \in Moved
      PROVE  m \in Places /\ Olds[m] \in Nat /\ News[m] \in Nat
  <2>1. PICK w \in Workers : \E i \in DOMAIN done[w] : \E k \in Changed(w, i) :
                               i \in 1 .. MaxTurns /\ m = <<w, i, k>>
    BY MovedPlaces
  <2>2. PICK i \in DOMAIN done[w] : \E k \in Changed(w, i) : i \in 1 .. MaxTurns /\ m = <<w, i, k>>
    BY <2>1
  <2>3. PICK k \in Changed(w, i) : m = <<w, i, k>>
    BY <2>2
  <2>4. k \in 1 .. Len(done[w][i].body) /\ done[w][i].body[k] \in Outcomes
    BY <1>3 DEF Changed
  <2>5. Len(done[w][i].body) \in Nat /\ Len(Talk[w]) \in Nat
    BY <1>1, <1>3
  <2>6. k \in 1 .. Len(Talk[w]) /\ k \in Nat
    BY <1>3, <2>4, <2>5
  <2>7. m \in Places /\ m[1] = w /\ m[2] = i /\ m[3] = k
    BY <1>3, <2>3, <2>6 DEF Places
  <2>8. Size[Talk[w][k].text] \in Nat /\ Size[done[w][i].body[k]] \in Nat
    BY <1>2, <2>4, <2>6, TextsAssumption
  <2> QED BY <2>7, <2>8 DEF Olds, News
<1>5. ASSUME NEW w \in Workers
      PROVE  /\ Turned(w) \subseteq 1 .. Len(body[w])
             /\ \A m \in Moving(w) : m \in Places /\ Olds[m] \in Nat /\ After(w)[m] \in Nat
  <2>1. Turned(w) \subseteq 1 .. Len(body[w])
    BY <1>1 DEF Turned
  <2>2. ASSUME NEW m \in Moving(w) PROVE m \in Places /\ Olds[m] \in Nat /\ After(w)[m] \in Nat
    <3>1. PICK k \in Turned(w) : m = <<w, Len(done[w]) + 1, k>>
      BY DEF Moving
    <3>2. k \in 1 .. Len(body[w]) /\ Len(done[w]) + 1 \in Nat /\ body[w][k] \in Outcomes
      BY <1>1, <2>1
    <3>3. k \in 1 .. Len(Talk[w]) /\ k \in Nat
      <4>1. Len(body[w]) \in Nat /\ Len(request[w]) \in Nat /\ Len(Talk[w]) \in Nat
        BY <1>1
      <4> QED BY <1>1, <3>2, <4>1
    <3>4. m \in Places /\ m[1] = w /\ m[3] = k
      BY <3>1, <3>2, <3>3 DEF Places
    <3>5. Size[Talk[w][k].text] \in Nat /\ Size[body[w][k]] \in Nat
      BY <1>2, <3>2, <3>3, TextsAssumption
    <3> QED BY <3>4, <3>5 DEF Olds, After
  <2> QED BY <2>1, <2>2
<1> QED BY <1>4, <1>5

(* The sums of BytesMoved are sums of the sizes at the places that moved.   *)
LEMMA OldsTold ==
  ASSUME NEW S, IsFiniteSet(S), S \subseteq Places
  PROVE  MapThenSumSet(LAMBDA m : Size[Talk[m[1]][m[3]].text], S) = SumOf(Olds, S)
<1> DEFINE Is(h) == h = [s \in SUBSET S |->
             IF s = {} THEN 0 ELSE Size[Talk[Chosen(s)[1]][Chosen(s)[3]].text] + h[s \ {Chosen(s)}]]
           h == CHOOSE h : h = [s \in SUBSET S |->
             IF s = {} THEN 0
             ELSE Size[Talk[(CHOOSE x \in s : TRUE)[1]][(CHOOSE x \in s : TRUE)[3]].text] + h[s \ {CHOOSE x \in s : TRUE}]]
<1>1. PICK g : Sums(Olds, S, g) /\ SumOf(Olds, S) = g[S]
  BY SumIsOne
<1>2. \A s \in SUBSET S : s # {} => Olds[Chosen(s)] = Size[Talk[Chosen(s)[1]][Chosen(s)[3]].text]
  <2>1. \A s \in SUBSET S : s # {} => Chosen(s) \in Places
    BY DEF Chosen
  <2> HIDE DEF Is, h
  <2> QED BY <2>1 DEF Olds
<1>3. ASSUME NEW e PROVE Sums(Olds, S, e) <=> Is(e)
  <2>1. [s \in SUBSET S |-> IF s = {} THEN 0 ELSE Olds[Chosen(s)] + e[s \ {Chosen(s)}]]
        = [s \in SUBSET S |-> IF s = {} THEN 0 ELSE Size[Talk[Chosen(s)[1]][Chosen(s)[3]].text] + e[s \ {Chosen(s)}]]
    <3>1. \A s \in SUBSET S :
            (IF s = {} THEN 0 ELSE Olds[Chosen(s)] + e[s \ {Chosen(s)}])
            = IF s = {} THEN 0 ELSE Size[Talk[Chosen(s)[1]][Chosen(s)[3]].text] + e[s \ {Chosen(s)}]
      BY <1>2
    <3> QED BY <3>1, Zenon
  <2> QED BY <2>1, Zenon DEF Sums
<1>4. \E e : e = [s \in SUBSET S |->
             IF s = {} THEN 0
             ELSE Size[Talk[(CHOOSE x \in s : TRUE)[1]][(CHOOSE x \in s : TRUE)[3]].text] + e[s \ {CHOOSE x \in s : TRUE}]]
  <2>1. Is(g)
    BY <1>1, <1>3
  <2> HIDE DEF h
  <2> QED BY <2>1, Zenon DEF Chosen
<1>5. h = [s \in SUBSET S |->
             IF s = {} THEN 0
             ELSE Size[Talk[(CHOOSE x \in s : TRUE)[1]][(CHOOSE x \in s : TRUE)[3]].text] + h[s \ {CHOOSE x \in s : TRUE}]]
  BY <1>4
<1>6. MapThenSumSet(LAMBDA m : Size[Talk[m[1]][m[3]].text], S) = h[S]
  BY DEF MapThenSumSet, MapThenFoldSet
<1> HIDE DEF h
<1>7. Is(h)
  BY <1>5, Zenon DEF Chosen
<1>8. Sums(Olds, S, h)
  BY <1>3, <1>7
<1>9. S \subseteq S /\ S \in SUBSET S /\ \A x \in S : Olds[x] = Olds[x]
  OBVIOUS
<1>10. \A s \in SUBSET S : g[s] = h[s]
  BY <1>1, <1>8, <1>9, SumsAgree
<1> QED BY <1>1, <1>6, <1>9, <1>10

LEMMA NewsTold ==
  ASSUME NEW S, IsFiniteSet(S), S \subseteq Places
  PROVE  MapThenSumSet(LAMBDA m : Size[done[m[1]][m[2]].body[m[3]]], S) = SumOf(News, S)
<1> DEFINE Is(h) == h = [s \in SUBSET S |->
             IF s = {} THEN 0 ELSE Size[done[Chosen(s)[1]][Chosen(s)[2]].body[Chosen(s)[3]]] + h[s \ {Chosen(s)}]]
           h == CHOOSE h : h = [s \in SUBSET S |->
             IF s = {} THEN 0
             ELSE Size[done[(CHOOSE x \in s : TRUE)[1]][(CHOOSE x \in s : TRUE)[2]].body[(CHOOSE x \in s : TRUE)[3]]] + h[s \ {CHOOSE x \in s : TRUE}]]
<1>1. PICK g : Sums(News, S, g) /\ SumOf(News, S) = g[S]
  BY SumIsOne
<1>2. \A s \in SUBSET S : s # {} => News[Chosen(s)] = Size[done[Chosen(s)[1]][Chosen(s)[2]].body[Chosen(s)[3]]]
  <2>1. \A s \in SUBSET S : s # {} => Chosen(s) \in Places
    BY DEF Chosen
  <2> HIDE DEF Is, h
  <2> QED BY <2>1 DEF News
<1>3. ASSUME NEW e PROVE Sums(News, S, e) <=> Is(e)
  <2>1. [s \in SUBSET S |-> IF s = {} THEN 0 ELSE News[Chosen(s)] + e[s \ {Chosen(s)}]]
        = [s \in SUBSET S |-> IF s = {} THEN 0 ELSE Size[done[Chosen(s)[1]][Chosen(s)[2]].body[Chosen(s)[3]]] + e[s \ {Chosen(s)}]]
    <3>1. \A s \in SUBSET S :
            (IF s = {} THEN 0 ELSE News[Chosen(s)] + e[s \ {Chosen(s)}])
            = IF s = {} THEN 0 ELSE Size[done[Chosen(s)[1]][Chosen(s)[2]].body[Chosen(s)[3]]] + e[s \ {Chosen(s)}]
      BY <1>2
    <3> QED BY <3>1, Zenon
  <2> QED BY <2>1, Zenon DEF Sums
<1>4. \E e : e = [s \in SUBSET S |->
             IF s = {} THEN 0
             ELSE Size[done[(CHOOSE x \in s : TRUE)[1]][(CHOOSE x \in s : TRUE)[2]].body[(CHOOSE x \in s : TRUE)[3]]] + e[s \ {CHOOSE x \in s : TRUE}]]
  <2>1. Is(g)
    BY <1>1, <1>3
  <2> HIDE DEF h
  <2> QED BY <2>1, Zenon DEF Chosen
<1>5. h = [s \in SUBSET S |->
             IF s = {} THEN 0
             ELSE Size[done[(CHOOSE x \in s : TRUE)[1]][(CHOOSE x \in s : TRUE)[2]].body[(CHOOSE x \in s : TRUE)[3]]] + h[s \ {CHOOSE x \in s : TRUE}]]
  BY <1>4
<1>6. MapThenSumSet(LAMBDA m : Size[done[m[1]][m[2]].body[m[3]]], S) = h[S]
  BY DEF MapThenSumSet, MapThenFoldSet
<1> HIDE DEF h
<1>7. Is(h)
  BY <1>5, Zenon DEF Chosen
<1>8. Sums(News, S, h)
  BY <1>3, <1>7
<1>9. S \subseteq S /\ S \in SUBSET S /\ \A x \in S : News[x] = News[x]
  OBVIOUS
<1>10. \A s \in SUBSET S : g[s] = h[s]
  BY <1>1, <1>8, <1>9, SumsAgree
<1> QED BY <1>1, <1>6, <1>9, <1>10

LEMMA CollectorTells == HInv /\ CollectorInv => BytesMoved
<1> SUFFICES ASSUME HInv, CollectorInv PROVE BytesMoved
  OBVIOUS
<1>1. IsFiniteSet(Moved) /\ Moved \subseteq Places
  BY PlacesOf DEF CollectorInv
<1>2. MapThenSumSet(LAMBDA m : Size[Talk[m[1]][m[3]].text], Moved) = SumOf(Olds, Moved)
  BY <1>1, OldsTold
<1>3. MapThenSumSet(LAMBDA m : Size[done[m[1]][m[2]].body[m[3]]], Moved) = SumOf(News, Moved)
  BY <1>1, NewsTold
<1>4. MapThenSumSet(LAMBDA r : skips[r], Reasons) = SumOf(skips, Reasons)
  BY DEF SumOf
<1> QED BY <1>2, <1>3, <1>4 DEF CollectorInv, BytesMoved, Quiet

(* While no request is handed on, only the reports have to be looked at.   *)
LEMMA FrameBytes ==
  ASSUME BytesInv, UNCHANGED <<done, collector>>,
         \A w \in Workers : pc'[w] # "idle" => Len(done[w]) < MaxTurns /\ ReportInv(w)'
  PROVE  BytesInv'
<1>1. Moved' = Moved /\ Quiet' = Quiet
  BY DEF Moved, Quiet, Changed
<1>2. News' = News /\ Olds' = Olds
  BY DEF News, Olds
<1>3. CollectorInv'
  BY <1>1, <1>2 DEF BytesInv, CollectorInv, collector
<1> QED BY <1>3 DEF BytesInv

LEMMA SameReport ==
  ASSUME NEW w \in Workers, ReportInv(w), body'[w] = body[w], report'[w] = report[w], done' = done
  PROVE  ReportInv(w)'
<1>1. Moving(w)' = Moving(w)
  BY DEF Moving, Turned
<1>2. After(w)' = After(w)
  BY DEF After
<1> QED BY <1>1, <1>2 DEF ReportInv

(* One more text of a request: a place that moved, unless it is left alone. *)
LEMMA OneMoreText ==
  ASSUME HInv, NEW w \in Workers, Len(body[w]) < Len(request[w]), NEW t \in Outcomes,
         body' = [body EXCEPT ![w] = Append(@, t)], done' = done,
         NEW p, p = <<w, Len(done[w]) + 1, Len(body[w]) + 1>>
  PROVE  /\ Moving(w)' = IF t = Subject(w) THEN Moving(w) ELSE Moving(w) \cup {p}
         /\ p \notin Moving(w)
         /\ Olds[p] = Size[Subject(w)] /\ After(w)'[p] = Size[t]
         /\ \A m \in Moving(w) : After(w)'[m] = After(w)[m]
<1> DEFINE n == Len(body[w])
           i == Len(done[w]) + 1
<1>1. /\ body \in [Workers -> Seq(Outcomes)] /\ done[w] \in Seq(Handed)
      /\ body[w] \in Seq(Outcomes) /\ n \in Nat /\ i \in Nat
      /\ request[w] \in Seq(Pieces) /\ Len(request[w]) \in Nat
      /\ \A k \in 1 .. Len(request[w]) : request[w][k] = Talk[w][k]
  BY DEF HInv, IInv, TypeOK, PrefixInv
<1>2. n + 1 \in Nat /\ p \in Places /\ p[1] = w /\ p[3] = n + 1
  BY <1>1 DEF Places
<1>3. Subject(w) = Talk[w][n + 1].text
  <2>1. n + 1 \in 1 .. Len(request[w])
    BY <1>1
  <2> QED BY <1>1, <2>1 DEF Subject, Piece
<1>4. /\ body'[w] = Append(body[w], t) /\ DOMAIN body'[w] = 1 .. (n + 1) /\ DOMAIN body[w] = 1 .. n
      /\ body'[w][n + 1] = t /\ \A k \in 1 .. n : body'[w][k] = body[w][k]
  BY <1>1
<1>5. Turned(w)' = IF t = Subject(w) THEN Turned(w) ELSE Turned(w) \cup {n + 1}
  <2>1. Turned(w) = {k \in 1 .. n : body[w][k] # Talk[w][k].text}
    BY <1>4 DEF Turned
  <2>2. Turned(w)' = {k \in 1 .. (n + 1) : body'[w][k] # Talk[w][k].text}
    BY <1>4 DEF Turned
  <2>3. 1 .. (n + 1) = (1 .. n) \cup {n + 1}
    BY <1>1
  <2>4. \A k : k \in Turned(w)' <=> k \in Turned(w) \/ (k = n + 1 /\ t # Subject(w))
    BY <1>3, <1>4, <2>1, <2>2, <2>3
  <2> QED BY <2>4
<1>6. Moving(w) = {<<w, i, k>> : k \in Turned(w)} /\ Moving(w)' = {<<w, i, k>> : k \in Turned(w)'}
  BY DEF Moving
<1>7. Moving(w)' = IF t = Subject(w) THEN Moving(w) ELSE Moving(w) \cup {p}
  BY <1>5, <1>6
<1>8. Turned(w) \subseteq 1 .. n
  BY PlacesOf
<1>9. ASSUME NEW m \in Moving(w)
      PROVE  m # p /\ m \in Places /\ After(w)'[m] = After(w)[m]
  <2>1. PICK k \in Turned(w) : m = <<w, i, k>>
    BY <1>6
  <2>2. k \in 1 .. n /\ k # n + 1
    BY <1>1, <1>8
  <2>3. m \in Places /\ m[3] = k
    BY <1>1, <2>1, <2>2 DEF Places
  <2>4. m # p
    BY <1>2, <2>2, <2>3
  <2>5. After(w)'[m] = Size[body'[w][k]] /\ After(w)[m] = Size[body[w][k]]
    BY <2>3 DEF After
  <2> QED BY <1>4, <2>2, <2>3, <2>4, <2>5
<1>10. Olds[p] = Size[Subject(w)] /\ After(w)'[p] = Size[t]
  BY <1>2, <1>3, <1>4 DEF Olds, After
<1> QED BY <1>7, <1>9, <1>10

LEMMA ToldReport ==
  ASSUME HInv, NEW w \in Workers, ReportInv(w), Len(body[w]) < Len(request[w]),
         NEW d \in Decisions, d.result = Subject(w) => d.reason # NoReason,
         body' = [body EXCEPT ![w] = Append(@, d.result)], done' = done,
         report' = [report EXCEPT ![w] = Noted(@, Subject(w), d)]
  PROVE  ReportInv(w)'
<1> DEFINE t == d.result
           p == <<w, Len(done[w]) + 1, Len(body[w]) + 1>>
           r == report[w]
<1>1. t \in Outcomes /\ d.reason \in Reasons \cup {NoReason} /\ Subject(w) \in Texts
  BY PieceType DEF Decisions, HInv
<1>2. r \in Reports /\ report'[w] = Noted(r, Subject(w), d)
  BY DEF HInv, IInv, TypeOK
<1>3. /\ r.compressed \in Nat /\ r.considered \in Nat /\ r.before \in Nat /\ r.after \in Nat
      /\ r.compressed <= r.considered
  BY <1>2 DEF Reports, HInv, IInv, CountInv
<1>4. Size[t] \in Nat /\ Size[Subject(w)] \in Nat
  BY <1>1, TextsAssumption
<1>5. /\ Moving(w)' = IF t = Subject(w) THEN Moving(w) ELSE Moving(w) \cup {p}
      /\ p \notin Moving(w)
      /\ Olds[p] = Size[Subject(w)] /\ After(w)'[p] = Size[t]
      /\ \A m \in Moving(w) : After(w)'[m] = After(w)[m]
  BY <1>1, OneMoreText
<1>6. IsFiniteSet(Moving(w)) /\ \A m \in Moving(w) : Olds[m] \in Nat /\ After(w)[m] \in Nat
  BY PlacesOf DEF ReportInv
<1>7. SumOf(After(w)', Moving(w)) = SumOf(After(w), Moving(w))
  BY <1>5, <1>6, SumSame
<1>8. CASE t = Subject(w)
  <2>1. /\ report'[w].compressed = r.compressed /\ report'[w].before = r.before
        /\ report'[w].after = r.after /\ report'[w].saw = TRUE
        /\ report'[w].considered = r.considered + 1
        /\ report'[w].reason = FirstReason(r.reason, d.reason)
    BY <1>2, <1>8 DEF Noted
  <2>2. report'[w].reason # NoReason
    BY <1>8, <2>1 DEF FirstReason
  <2>3. Moving(w)' = Moving(w)
    BY <1>5, <1>8
  <2>4. Olds' = Olds
    BY DEF Olds
  <2>5. report'[w].considered > 0
    BY <1>3, <2>1
  <2> HIDE DEF r, t, p
  <2>6. /\ r.compressed = Cardinality(Moving(w)) /\ r.before = SumOf(Olds, Moving(w))
        /\ r.after = SumOf(After(w), Moving(w))
    BY DEF ReportInv, r
  <2> QED BY <1>6, <1>7, <2>1, <2>2, <2>3, <2>4, <2>5, <2>6 DEF ReportInv
<1>9. CASE t # Subject(w)
  <2>1. /\ report'[w].compressed = r.compressed + 1
        /\ report'[w].before = r.before + Size[Subject(w)]
        /\ report'[w].after = r.after + Size[t] /\ report'[w].saw = TRUE
        /\ report'[w].considered = r.considered + 1
        /\ report'[w].reason = r.reason
    BY <1>2, <1>9 DEF Noted
  <2>2. Moving(w)' = Moving(w) \cup {p}
    BY <1>5, <1>9
  <2> HIDE DEF p, t, r
  <2>3. IsFiniteSet(Moving(w)') /\ Cardinality(Moving(w)') = Cardinality(Moving(w)) + 1
    <3> DEFINE S == Moving(w)
    <3>1. IsFiniteSet(S) /\ p \notin S
      BY <1>5, <1>6
    <3> HIDE DEF S
    <3>2. IsFiniteSet(S \cup {p}) /\ Cardinality(S \cup {p}) = Cardinality(S) + 1
      BY <3>1, FS_AddElement
    <3> QED BY <2>2, <3>2 DEF S
  <2>4. SumOf(Olds, Moving(w) \cup {p}) = SumOf(Olds, Moving(w)) + Size[Subject(w)]
    <3>1. \A m \in Moving(w) \cup {p} : Olds[m] \in Nat
      BY <1>4, <1>5, <1>6
    <3> QED BY <1>5, <1>6, <3>1, SumMore
  <2>5. SumOf(After(w)', Moving(w) \cup {p}) = SumOf(After(w), Moving(w)) + Size[t]
    <3>1. \A m \in Moving(w) \cup {p} : After(w)'[m] \in Nat
      BY <1>4, <1>5, <1>6
    <3>2. SumOf(After(w)', Moving(w) \cup {p}) = SumOf(After(w)', Moving(w)) + After(w)'[p]
      BY <1>5, <1>6, <3>1, SumMore
    <3> QED BY <1>5, <1>7, <3>2
  <2>6. /\ r.compressed = Cardinality(Moving(w)) /\ r.before = SumOf(Olds, Moving(w))
        /\ r.after = SumOf(After(w), Moving(w))
        /\ r.compressed < r.considered => r.reason # NoReason
    BY DEF ReportInv, r
  <2>7. report'[w].considered > 0
        /\ (report'[w].compressed < report'[w].considered => r.compressed < r.considered)
    BY <1>3, <2>1
  <2>8. Olds' = Olds
    BY DEF Olds
  <2> QED BY <2>1, <2>2, <2>3, <2>4, <2>5, <2>6, <2>7, <2>8 DEF ReportInv
<1> QED BY <1>8, <1>9

(* A text that is left alone for not being of a tool changes the reason     *)
(* only.                                                                    *)
LEMMA AloneReport ==
  ASSUME HInv, NEW w \in Workers, ReportInv(w), LeaveAlone(w)
  PROVE  ReportInv(w)'
<1> DEFINE r == report[w]
<1>1. Subject(w) \in Outcomes
  BY PieceType, TextsAssumption DEF HInv, LeaveAlone
<1>2. Moving(w)' = Moving(w) /\ \A m \in Moving(w) : After(w)'[m] = After(w)[m]
  BY <1>1, OneMoreText DEF LeaveAlone
<1>3. r \in Reports
  BY DEF HInv, IInv, TypeOK
<1>4. /\ report'[w].compressed = r.compressed /\ report'[w].before = r.before
      /\ report'[w].after = r.after /\ report'[w].saw = r.saw
      /\ report'[w].considered = r.considered
      /\ report'[w].reason \in {r.reason, FirstReason(r.reason, "plain_content")}
  BY <1>3 DEF LeaveAlone, HInv, IInv, TypeOK, Reports
<1>5. r.reason # NoReason => report'[w].reason # NoReason
  BY <1>4 DEF FirstReason, NoReason
<1>6. SumOf(After(w)', Moving(w)) = SumOf(After(w), Moving(w))
  BY <1>2, SumSame DEF ReportInv
<1>7. Olds' = Olds
  BY DEF Olds
<1> HIDE DEF r
<1> QED BY <1>2, <1>4, <1>5, <1>6, <1>7 DEF ReportInv, r

(* A request that comes in has moved nothing.                              *)
LEMMA FreshReport ==
  ASSUME HInv, NEW w \in Workers, Receive(w)
  PROVE  ReportInv(w)'
<1>1. body'[w] = <<>> /\ report'[w] = Empty
  BY DEF Receive, HInv, IInv, TypeOK
<1>2. Moving(w)' = {}
  BY <1>1 DEF Moving, Turned
<1>3. SumOf(Olds', {}) = 0 /\ SumOf(After(w)', {}) = 0
  BY SumNothing
<1> QED BY <1>1, <1>2, <1>3, FS_EmptySet DEF ReportInv, Empty

(* One request more, with all its texts told: its places join those that   *)
(* moved.                                                                   *)
LEMMA HandedPlaces ==
  ASSUME HInv, NEW w \in Workers, HandOn(w), Len(done[w]) < MaxTurns
  PROVE  /\ Moved' = Moved \cup Moving(w)
         /\ Moved \cap Moving(w) = {}
         /\ \A m \in Moved : News'[m] = News[m]
         /\ \A m \in Moving(w) : News'[m] = After(w)[m]
         /\ Quiet' = IF Moving(w) = {} THEN Quiet \cup {<<w, Len(done[w]) + 1>>} ELSE Quiet
         /\ <<w, Len(done[w]) + 1>> \notin Quiet
<1>0. /\ done \in [Workers -> Seq(Handed)] /\ body[w] \in Seq(Outcomes)
      /\ since[w] \in Nat /\ configures \in Nat
  BY DEF HInv, IInv, TypeOK
<1>i. PICK i \in 1 .. MaxTurns : i = Len(done[w]) + 1
  <2>1. done[w] \in Seq(Handed)
    BY <1>0
  <2>2. Len(done[w]) \in Nat /\ MaxTurns \in Nat
    BY <2>1, TalkAssumption
  <2>3. Len(done[w]) + 1 \in 1 .. MaxTurns
    BY <2>2
  <2> QED BY <2>3
<1> DEFINE d == [body |-> body[w], from |-> since[w], to |-> configures]
<1>1. /\ done \in [Workers -> Seq(Handed)] /\ done[w] \in Seq(Handed) /\ d \in Handed
      /\ i \in Nat /\ i \in 1 .. MaxTurns /\ body[w] \in Seq(Outcomes)
      /\ \A v \in Workers : DOMAIN done[v] = 1 .. Len(done[v]) /\ Len(done[v]) \in Nat
  <2>1. d \in Handed
    BY <1>0 DEF Handed
  <2>2. \A v \in Workers : DOMAIN done[v] = 1 .. Len(done[v]) /\ Len(done[v]) \in Nat
    BY <1>0
  <2> QED BY <1>0, <1>i, <2>1, <2>2, TalkAssumption
<1>2. done' = [done EXCEPT ![w] = Append(@, d)] /\ UNCHANGED body
  BY DEF HandOn
<1>3. /\ \A v \in Workers : v # w => done'[v] = done[v]
      /\ DOMAIN done'[w] = 1 .. i /\ done'[w][i] = d
      /\ DOMAIN done[w] = 1 .. (i - 1)
      /\ \A j \in 1 .. (i - 1) : done'[w][j] = done[w][j]
  BY <1>1, <1>2, <1>i
<1>4. d.body = body[w]
  OBVIOUS
<1> HIDE DEF d
<1>5. /\ \A v \in Workers : \A j \in DOMAIN done[v] :
           j \in DOMAIN done'[v] /\ done'[v][j] = done[v][j] /\ Changed(v, j)' = Changed(v, j)
      /\ \A v \in Workers : \A j \in DOMAIN done'[v] : j \in DOMAIN done[v] \/ (v = w /\ j = i)
  <2>1. ASSUME NEW v \in Workers, NEW j \in DOMAIN done[v]
        PROVE  j \in DOMAIN done'[v] /\ done'[v][j] = done[v][j] /\ Changed(v, j)' = Changed(v, j)
    <3>1. CASE v # w
      BY <1>3, <2>1, <3>1 DEF Changed
    <3>2. CASE v = w
      <4>1. j \in 1 .. (i - 1) /\ j \in 1 .. i
        BY <1>1, <1>3, <2>1, <3>2
      <4>2. j \in DOMAIN done'[v] /\ done'[v][j] = done[v][j]
        BY <1>3, <3>2, <4>1
      <4> QED BY <4>2 DEF Changed
    <3> QED BY <3>1, <3>2
  <2>2. ASSUME NEW v \in Workers, NEW j \in DOMAIN done'[v]
        PROVE  j \in DOMAIN done[v] \/ (v = w /\ j = i)
    <3>1. CASE v # w
      BY <1>3, <2>2, <3>1
    <3>2. CASE v = w
      BY <1>1, <1>3, <2>2, <3>2
    <3> QED BY <3>1, <3>2
  <2> QED BY <2>1, <2>2
<1>6. Changed(w, i)' = Turned(w)
  BY <1>3, <1>4 DEF Changed, Turned
<1>7. i \notin DOMAIN done[w] /\ i \in DOMAIN done'[w]
  BY <1>1, <1>3
<1>8. \A m : m \in Moved <=> \E v \in Workers : \E j \in 1 .. MaxTurns :
        j \in DOMAIN done[v] /\ \E k \in Changed(v, j) : m = <<v, j, k>>
  <2>1. ASSUME NEW m \in Moved
        PROVE  \E v \in Workers : \E j \in 1 .. MaxTurns :
                 j \in DOMAIN done[v] /\ \E k \in Changed(v, j) : m = <<v, j, k>>
    BY MovedPlaces
  <2> QED BY <2>1, MovedPlaces
<1>9. \A m : m \in Moved' <=> \E v \in Workers : \E j \in 1 .. MaxTurns :
        j \in DOMAIN done'[v] /\ \E k \in Changed(v, j)' : m = <<v, j, k>>
  <2>1. \A m : m \in Moved' <=> \E t \in Turns :
          /\ t[2] \in DOMAIN done'[t[1]]
          /\ m \in {<<t[1], t[2], n>> : n \in Changed(t[1], t[2])'}
    BY DEF Moved
  <2>2. \A t : t \in Turns <=> \E v \in Workers : \E j \in 1 .. MaxTurns : t = <<v, j>>
    BY DEF Turns
  <2>3. ASSUME NEW m \in Moved'
        PROVE  \E v \in Workers : \E j \in 1 .. MaxTurns :
                 j \in DOMAIN done'[v] /\ \E k \in Changed(v, j)' : m = <<v, j, k>>
    <3>1. PICK t \in Turns : /\ t[2] \in DOMAIN done'[t[1]]
                             /\ m \in {<<t[1], t[2], n>> : n \in Changed(t[1], t[2])'}
      BY <2>1
    <3>2. PICK v \in Workers : \E j \in 1 .. MaxTurns : t = <<v, j>>
      BY <2>2, <3>1
    <3>3. PICK j \in 1 .. MaxTurns : t = <<v, j>>
      BY <3>2
    <3>4. t[1] = v /\ t[2] = j
      BY <3>3
    <3>5. PICK k \in Changed(t[1], t[2])' : m = <<t[1], t[2], k>>
      BY <3>1
    <3> QED BY <3>1, <3>4, <3>5
  <2>4. ASSUME NEW v \in Workers, NEW j \in 1 .. MaxTurns, j \in DOMAIN done'[v],
               NEW k \in Changed(v, j)'
        PROVE  <<v, j, k>> \in Moved'
    <3>1. PICK t \in Turns : t = <<v, j>>
      BY <2>2
    <3>2. t[1] = v /\ t[2] = j
      BY <3>1
    <3>3. <<v, j, k>> \in {<<t[1], t[2], n>> : n \in Changed(t[1], t[2])'}
      BY <3>2
    <3> QED BY <2>1, <2>4, <3>2, <3>3
  <2> QED BY <2>3, <2>4
<1>10. \A m : m \in Moving(w) <=> \E k \in Turned(w) : m = <<w, i, k>>
  BY <1>i DEF Moving
<1>11. Moved' = Moved \cup Moving(w)
  <2>1. ASSUME NEW m \in Moved' PROVE m \in Moved \cup Moving(w)
    <3>1. PICK v \in Workers : \E j \in 1 .. MaxTurns :
            j \in DOMAIN done'[v] /\ \E k \in Changed(v, j)' : m = <<v, j, k>>
      BY <1>9
    <3>2. PICK j \in 1 .. MaxTurns : j \in DOMAIN done'[v] /\ \E k \in Changed(v, j)' : m = <<v, j, k>>
      BY <3>1
    <3>3. PICK k \in Changed(v, j)' : m = <<v, j, k>>
      BY <3>2
    <3>4. CASE j \in DOMAIN done[v]
      <4>1. k \in Changed(v, j)
        BY <1>5, <3>3, <3>4
      <4> QED BY <1>8, <3>3, <3>4, <4>1
    <3>5. CASE v = w /\ j = i
      BY <1>6, <1>10, <3>3, <3>5
    <3> QED BY <1>5, <3>2, <3>4, <3>5
  <2>2. ASSUME NEW m \in Moved PROVE m \in Moved'
    <3>1. PICK v \in Workers : \E j \in 1 .. MaxTurns :
            j \in DOMAIN done[v] /\ \E k \in Changed(v, j) : m = <<v, j, k>>
      BY <1>8
    <3>2. PICK j \in 1 .. MaxTurns : j \in DOMAIN done[v] /\ \E k \in Changed(v, j) : m = <<v, j, k>>
      BY <3>1
    <3>3. j \in DOMAIN done'[v] /\ Changed(v, j)' = Changed(v, j)
      BY <1>5, <3>2
    <3> QED BY <1>9, <3>2, <3>3
  <2>3. ASSUME NEW m \in Moving(w) PROVE m \in Moved'
    BY <1>1, <1>6, <1>7, <1>9, <1>10
  <2> QED BY <2>1, <2>2, <2>3
<1>12. ASSUME NEW m \in Moved
       PROVE  m \notin Moving(w) /\ News'[m] = News[m]
  <2>1. PICK v \in Workers : \E j \in 1 .. MaxTurns :
          j \in DOMAIN done[v] /\ \E k \in Changed(v, j) : m = <<v, j, k>>
    BY <1>8
  <2>2. PICK j \in 1 .. MaxTurns : j \in DOMAIN done[v] /\ \E k \in Changed(v, j) : m = <<v, j, k>>
    BY <2>1
  <2>3. PICK k \in Changed(v, j) : m = <<v, j, k>>
    BY <2>2
  <2>4. m \in Places /\ m[1] = v /\ m[2] = j
    BY <2>3, PlacesOf
  <2>5. m \notin Moving(w)
    BY <1>7, <1>10, <2>2, <2>3
  <2>6. done'[v][j] = done[v][j]
    BY <1>5, <2>2
  <2>7. News[m] = Size[done[v][j].body[m[3]]] /\ News'[m] = Size[done'[v][j].body[m[3]]]
    BY <2>4 DEF News
  <2> QED BY <2>5, <2>6, <2>7
<1>13. ASSUME NEW m \in Moving(w) PROVE News'[m] = After(w)[m]
  <2>1. PICK k \in Turned(w) : m = <<w, i, k>>
    BY <1>10
  <2>2. m \in Places /\ m[1] = w /\ m[2] = i
    BY <2>1, PlacesOf
  <2>3. News'[m] = Size[done'[w][i].body[m[3]]] /\ After(w)[m] = Size[body[w][m[3]]]
    BY <2>2 DEF News, After
  <2> QED BY <1>3, <1>4, <2>3
<1>14. Moving(w) = {} <=> Turned(w) = {}
  BY <1>10
<1>15. \A t : t \in Quiet <=> \E v \in Workers : \E j \in 1 .. MaxTurns :
         t = <<v, j>> /\ j \in DOMAIN done[v] /\ Changed(v, j) = {}
  BY DEF Quiet, Turns
<1>16. \A t : t \in Quiet' <=> \E v \in Workers : \E j \in 1 .. MaxTurns :
         t = <<v, j>> /\ j \in DOMAIN done'[v] /\ Changed(v, j)' = {}
  BY DEF Quiet, Turns
<1>17. <<w, i>> \notin Quiet
  BY <1>7, <1>15
<1>18. Quiet' = IF Moving(w) = {} THEN Quiet \cup {<<w, i>>} ELSE Quiet
  <2>1. ASSUME NEW t \in Quiet PROVE t \in Quiet'
    BY <1>5, <1>15, <1>16
  <2>2. ASSUME NEW t \in Quiet' PROVE t \in Quiet \/ (t = <<w, i>> /\ Turned(w) = {})
    <3>1. PICK v \in Workers : \E j \in 1 .. MaxTurns :
            t = <<v, j>> /\ j \in DOMAIN done'[v] /\ Changed(v, j)' = {}
      BY <1>16
    <3>2. PICK j \in 1 .. MaxTurns : t = <<v, j>> /\ j \in DOMAIN done'[v] /\ Changed(v, j)' = {}
      BY <3>1
    <3>3. CASE j \in DOMAIN done[v]
      BY <1>5, <1>15, <3>2, <3>3
    <3>4. CASE v = w /\ j = i
      BY <1>6, <3>2, <3>4
    <3> QED BY <1>5, <3>2, <3>3, <3>4
  <2>3. Turned(w) = {} => <<w, i>> \in Quiet'
    BY <1>1, <1>6, <1>7, <1>16
  <2> QED BY <1>14, <2>1, <2>2, <2>3
<1> QED BY <1>i, <1>11, <1>12, <1>13, <1>17, <1>18

LEMMA SumBump ==
  ASSUME NEW S, IsFiniteSet(S), NEW f \in [S -> Nat], NEW x \in S
  PROVE  SumOf([f EXCEPT ![x] = @ + 1], S) = SumOf(f, S) + 1
<1> DEFINE e == [f EXCEPT ![x] = @ + 1]
           R == S \ {x}
<1>1. /\ IsFiniteSet(R) /\ x \notin R /\ S = R \cup {x}
      /\ \A y \in R : e[y] = f[y]
      /\ \A y \in R \cup {x} : e[y] \in Nat /\ f[y] \in Nat
      /\ e[x] = f[x] + 1
  BY FS_RemoveElement
<1> HIDE DEF e, R
<1>2. SumOf(e, R) = SumOf(f, R)
  BY <1>1, SumSame
<1>3. SumOf(e, R \cup {x}) = SumOf(e, R) + e[x]
  BY <1>1, SumMore
<1>4. SumOf(f, R \cup {x}) = SumOf(f, R) + f[x] /\ SumOf(f, R) \in Nat
  BY <1>1, SumMore
<1>5. SumOf(e, S) = SumOf(f, R) + (f[x] + 1) /\ SumOf(f, S) = SumOf(f, R) + f[x]
  BY <1>1, <1>2, <1>3, <1>4
<1>6. f[x] \in Nat
  OBVIOUS
<1>7. SumOf(e, S) = SumOf(f, S) + 1
  BY <1>4, <1>5, <1>6
<1> QED BY <1>7 DEF e

LEMMA ReasonsFinite == IsFiniteSet(Reasons)
<1>1. \A a, b, c : IsFiniteSet({a} \cup {b} \cup {c})
  BY FS_Singleton, FS_Union
<1>2. IsFiniteSet(({"plain_content"} \cup {"no_tool_result"} \cup {"too_small"})
                  \cup ({"not_log"} \cup {"no_gain"} \cup {"strategy_disabled"}))
  BY <1>1, FS_Union
<1>3. Reasons = ({"plain_content"} \cup {"no_tool_result"} \cup {"too_small"})
                \cup ({"not_log"} \cup {"no_gain"} \cup {"strategy_disabled"})
  BY DEF Reasons
<1> QED BY <1>2, <1>3

(* A request is counted under one reason when, and only when, nothing in it *)
(* moved.                                                                   *)
LEMMA SkippedWhenQuiet ==
  ASSUME HInv, NEW w \in Workers, ReportInv(w)
  PROVE  IF Moving(w) = {} THEN Skipped(report[w]) \in Reasons ELSE Skipped(report[w]) = NoReason
<1> DEFINE r == report[w]
<1>1. /\ r.compressed \in Nat /\ r.considered \in Nat /\ r.compressed <= r.considered
      /\ r.reason \in Reasons \cup {NoReason} /\ r.saw \in BOOLEAN
  BY DEF HInv, IInv, TypeOK, CountInv, Reports
<1>2. /\ r.compressed = Cardinality(Moving(w)) /\ (r.saw <=> r.considered > 0)
      /\ r.compressed < r.considered => r.reason # NoReason
  BY DEF ReportInv
<1>3. r.compressed = 0 <=> Moving(w) = {}
  BY <1>2, FS_EmptySet DEF ReportInv
<1>4. "no_tool_result" \in Reasons
  BY DEF Reasons
<1> HIDE DEF r
<1>5. CASE Moving(w) = {}
  <2>1. r.compressed = 0
    BY <1>3, <1>5
  <2>2. r.reason = NoReason => ~ r.saw
    BY <1>1, <1>2, <2>1
  <2>3. Skipped(r) = IF r.reason # NoReason THEN r.reason ELSE "no_tool_result"
    BY <1>1, <2>1, <2>2 DEF Skipped
  <2> QED BY <1>1, <1>4, <1>5, <2>3 DEF r
<1>6. CASE Moving(w) # {}
  <2>1. r.compressed > 0
    BY <1>1, <1>3, <1>6
  <2> QED BY <1>6, <2>1 DEF Skipped, r
<1> QED BY <1>5, <1>6

LEMMA HandOnBytes ==
  ASSUME HInv, BytesInv, NEW w \in Workers, HandOn(w)
  PROVE  BytesInv'
<1> DEFINE r == report[w]
           why == Skipped(r)
           n == Len(done[w])
<1>1. /\ pc[w] = "look" /\ ReportInv(w) /\ n < MaxTurns /\ CollectorInv
      /\ \A v \in Workers : Len(done[v]) <= MaxTurns
  BY DEF HandOn, BytesInv
<1>2. IF Moving(w) = {} THEN why \in Reasons ELSE why = NoReason
  BY <1>1, SkippedWhenQuiet
<1>3. NoReason \notin Reasons
  BY DEF NoReason, Reasons
<1>4. /\ r.compressed \in Nat /\ r.considered \in Nat /\ r.compressed <= r.considered
      /\ r.before \in Nat /\ r.after \in Nat
      /\ totals \in [{"compressed", "skipped", "before", "after"} -> Nat]
      /\ skips \in [Reasons -> Nat]
  BY DEF HInv, IInv, TypeOK, CountInv, Reports
<1>5. /\ r.compressed = Cardinality(Moving(w)) /\ IsFiniteSet(Moving(w))
      /\ r.before = SumOf(Olds, Moving(w)) /\ r.after = SumOf(After(w), Moving(w))
  BY <1>1 DEF ReportInv
<1>6. ~ (r.considered = 0 /\ why = NoReason)
  <2>1. SUFFICES ASSUME r.considered = 0 PROVE why # NoReason
    OBVIOUS
  <2>2. Moving(w) = {}
    BY <1>4, <1>5, <2>1, FS_EmptySet
  <2> QED BY <1>2, <1>3, <2>2
<1>7. /\ totals' = [compressed |-> totals.compressed + r.compressed,
                    skipped |-> totals.skipped + (r.considered - r.compressed),
                    before |-> totals.before + r.before,
                    after |-> totals.after + r.after]
      /\ skips' = IF why = NoReason THEN skips ELSE [skips EXCEPT ![why] = @ + 1]
  BY <1>6 DEF HandOn, Observe
<1>8. /\ Moved' = Moved \cup Moving(w)
      /\ Moved \cap Moving(w) = {}
      /\ \A m \in Moved : News'[m] = News[m]
      /\ \A m \in Moving(w) : News'[m] = After(w)[m]
      /\ Quiet' = IF Moving(w) = {} THEN Quiet \cup {<<w, n + 1>>} ELSE Quiet
      /\ <<w, n + 1>> \notin Quiet
  BY <1>1, HandedPlaces
<1>9. /\ \A m \in Moved : Olds[m] \in Nat /\ News[m] \in Nat
      /\ \A m \in Moving(w) : Olds[m] \in Nat /\ After(w)[m] \in Nat
  BY PlacesOf
<1>10. /\ IsFiniteSet(Moved) /\ IsFiniteSet(Quiet)
       /\ totals.compressed = Cardinality(Moved)
       /\ totals.before = SumOf(Olds, Moved) /\ totals.after = SumOf(News, Moved)
       /\ SumOf(skips, Reasons) = Cardinality(Quiet)
  BY <1>1 DEF CollectorInv
<1> HIDE DEF r, why
<1>11. IsFiniteSet(Moved') /\ totals'.compressed = Cardinality(Moved')
  <2>1. /\ IsFiniteSet(Moved \cup Moving(w))
        /\ Cardinality(Moved \cup Moving(w)) = Cardinality(Moved) + Cardinality(Moving(w))
    <3> DEFINE S == Moved
               T == Moving(w)
    <3>1. IsFiniteSet(S) /\ IsFiniteSet(T) /\ S \cap T = {}
      BY <1>5, <1>8, <1>10
    <3>2. Cardinality(S) \in Nat /\ Cardinality(T) \in Nat
      BY <3>1, FS_CardinalityType
    <3> HIDE DEF S, T
    <3>3. IsFiniteSet(S \cup T)
          /\ Cardinality(S \cup T) = Cardinality(S) + Cardinality(T) - Cardinality(S \cap T)
      BY <3>1, FS_Union
    <3>4. Cardinality(S \cap T) = 0
      BY <3>1, FS_EmptySet
    <3>5. IsFiniteSet(S \cup T) /\ Cardinality(S \cup T) = Cardinality(S) + Cardinality(T)
      BY <3>2, <3>3, <3>4
    <3> QED BY <3>5 DEF S, T
  <2> QED BY <1>5, <1>7, <1>8, <1>10, <2>1
<1>12. totals'.before = SumOf(Olds, Moved')
  <2>1. \A m \in Moved \cup Moving(w) : Olds[m] \in Nat
    BY <1>9
  <2>2. SumOf(Olds, Moved \cup Moving(w)) = SumOf(Olds, Moved) + SumOf(Olds, Moving(w))
    BY <1>5, <1>8, <1>10, <2>1, SumUnion
  <2> QED BY <1>5, <1>7, <1>8, <1>10, <2>2
<1>13. totals'.after = SumOf(News', Moved')
  <2>1. \A m \in Moved \cup Moving(w) : News'[m] \in Nat
    BY <1>8, <1>9
  <2>2. SumOf(News', Moved \cup Moving(w)) = SumOf(News', Moved) + SumOf(News', Moving(w))
    BY <1>5, <1>8, <1>10, <2>1, SumUnion
  <2>3. SumOf(News', Moved) = SumOf(News, Moved) /\ SumOf(News', Moving(w)) = SumOf(After(w), Moving(w))
    BY <1>5, <1>8, <1>10, SumSame
  <2> QED BY <1>5, <1>7, <1>8, <1>10, <2>2, <2>3
<1>14. IsFiniteSet(Quiet') /\ SumOf(skips', Reasons) = Cardinality(Quiet')
  <2>1. CASE Moving(w) = {}
    <3>1. why \in Reasons /\ skips' = [skips EXCEPT ![why] = @ + 1]
      BY <1>2, <1>3, <1>7, <2>1
    <3>2. SumOf(skips', Reasons) = SumOf(skips, Reasons) + 1
      BY <1>4, <3>1, ReasonsFinite, SumBump
    <3>3. IsFiniteSet(Quiet \cup {<<w, n + 1>>})
          /\ Cardinality(Quiet \cup {<<w, n + 1>>}) = Cardinality(Quiet) + 1
      <4> DEFINE p == <<w, n + 1>>
                 S == Quiet
      <4>1. p \notin S /\ IsFiniteSet(S)
        BY <1>8, <1>10
      <4> HIDE DEF p, S
      <4>2. IsFiniteSet(S \cup {p}) /\ Cardinality(S \cup {p}) = Cardinality(S) + 1
        BY <4>1, FS_AddElement
      <4> QED BY <4>2 DEF p, S
    <3> QED BY <1>8, <1>10, <2>1, <3>2, <3>3
  <2>2. CASE Moving(w) # {}
    BY <1>2, <1>7, <1>8, <1>10, <2>2
  <2> QED BY <2>1, <2>2
<1>15. CollectorInv'
  <2>1. Olds' = Olds
    BY DEF Olds
  <2> QED BY <1>11, <1>12, <1>13, <1>14, <2>1 DEF CollectorInv
<1>16. ASSUME NEW v \in Workers
       PROVE  /\ Len(done'[v]) <= MaxTurns
              /\ pc'[v] # "idle" => Len(done'[v]) < MaxTurns /\ ReportInv(v)'
  <2>1. /\ done \in [Workers -> Seq(Handed)] /\ pc \in [Workers -> {"idle", "look", "get", "compute"}]
        /\ Len(done[w]) \in Nat
    BY DEF HInv, IInv, TypeOK
  <2>2. CASE v = w
    <3>1. pc'[w] = "idle"
      BY <2>1 DEF HandOn
    <3>2. PICK d : done' = [done EXCEPT ![w] = Append(@, d)]
      BY DEF HandOn
    <3>3. Len(done'[w]) = n + 1
      <4>1. done[w] \in Seq(Handed) /\ done'[w] = Append(done[w], d)
        BY <2>1, <3>2
      <4> QED BY <4>1
    <3> QED BY <1>1, <2>1, <2>2, <3>1, <3>3, TalkAssumption
  <2>3. CASE v # w
    <3>1. done'[v] = done[v] /\ pc'[v] = pc[v] /\ body' = body /\ report' = report
      BY <2>1, <2>3 DEF HandOn
    <3>2. pc[v] # "idle" => ReportInv(v) /\ Len(done[v]) < MaxTurns
      BY DEF BytesInv
    <3>3. ReportInv(v) => ReportInv(v)'
      <4>1. Moving(v)' = Moving(v) /\ After(v)' = After(v) /\ Olds' = Olds
        BY <3>1 DEF Moving, Turned, After, Olds
      <4> QED BY <3>1, <4>1 DEF ReportInv
    <3> QED BY <1>1, <3>1, <3>2, <3>3
  <2> QED BY <2>2, <2>3
<1> QED BY <1>15, <1>16 DEF BytesInv

LEMMA InitBytes == Init => BytesInv
<1> SUFFICES ASSUME Init PROVE BytesInv
  OBVIOUS
<1>1. \A w \in Workers : DOMAIN done[w] = {} /\ Len(done[w]) = 0 /\ pc[w] = "idle"
  BY DEF Init
<1>2. Moved = {} /\ Quiet = {}
  BY <1>1 DEF Moved, Quiet, Turns
<1>3. SumOf(skips, Reasons) = 0
  <2> DEFINE Good == {n \in Nat : \A S \in SUBSET Reasons : Cardinality(S) = n => SumOf(skips, S) = 0}
  <2>1. 0 \in Good
    <3>1. \A S \in SUBSET Reasons : Cardinality(S) = 0 => S = {}
      BY ReasonsFinite, Smaller
    <3> QED BY <3>1, SumNothing
  <2>2. ASSUME NEW n \in Nat, n \in Good PROVE n + 1 \in Good
    <3>1. ASSUME NEW S \in SUBSET Reasons, Cardinality(S) = n + 1 PROVE SumOf(skips, S) = 0
      <4>1. S # {} /\ IsFiniteSet(S)
        BY <3>1, ReasonsFinite, Smaller
      <4>2. PICK x : x \in S
        BY <4>1
      <4> DEFINE R == S \ {x}
      <4>3. /\ R \in SUBSET Reasons /\ Cardinality(R) = n /\ IsFiniteSet(R)
            /\ x \notin R /\ S = R \cup {x}
        BY <3>1, <4>1, <4>2, ReasonsFinite, Smaller
      <4>4. \A y \in S : skips[y] = 0
        BY <3>1 DEF Init
      <4> HIDE DEF R
      <4>5. SumOf(skips, R) = 0
        BY <2>2, <4>3
      <4>6. SumOf(skips, R \cup {x}) = SumOf(skips, R) + skips[x]
        BY <4>3, <4>4, SumMore
      <4> QED BY <4>2, <4>3, <4>4, <4>5, <4>6
    <3> QED BY <3>1
  <2> HIDE DEF Good
  <2>3. Cardinality(Reasons) \in Good
    <3>1. Nat \subseteq Good
      BY <2>1, <2>2, NatSetInduction
    <3> QED BY <3>1, ReasonsFinite, FS_CardinalityType
  <2> QED BY <2>3 DEF Good
<1>4. SumOf(Olds, {}) = 0 /\ SumOf(News, {}) = 0
  BY SumNothing
<1>5. CollectorInv
  BY <1>2, <1>3, <1>4, FS_EmptySet DEF Init, CollectorInv
<1> QED BY <1>1, <1>5, TalkAssumption DEF BytesInv

LEMMA NextBytes == HInv /\ BytesInv /\ [Next]_vars => BytesInv'
<1> SUFFICES ASSUME HInv, BytesInv, [Next]_vars PROVE BytesInv'
  OBVIOUS
<1>1. /\ pc \in [Workers -> {"idle", "look", "get", "compute"}]
      /\ body \in [Workers -> Seq(Outcomes)] /\ report \in [Workers -> Reports]
  BY DEF HInv, IInv, TypeOK
<1>2. \A v \in Workers : pc[v] # "idle" => Len(done[v]) < MaxTurns /\ ReportInv(v)
  BY DEF BytesInv
<1>3. ASSUME UNCHANGED <<pc, body, report, done, collector>> PROVE BytesInv'
  BY <1>2, <1>3, SameReport, FrameBytes
<1>4. ASSUME NEW w \in Workers, UNCHANGED <<done, collector>>, Len(done[w]) < MaxTurns,
             pc' = [pc EXCEPT ![w] = pc'[w]], body' = [body EXCEPT ![w] = body'[w]],
             report' = [report EXCEPT ![w] = report'[w]], ReportInv(w)'
      PROVE  BytesInv'
  <2>1. ASSUME NEW v \in Workers, pc'[v] # "idle"
        PROVE  Len(done[v]) < MaxTurns /\ ReportInv(v)'
    <3>1. CASE v = w
      BY <1>4, <3>1
    <3>2. CASE v # w
      <4>1. pc'[v] = pc[v] /\ body'[v] = body[v] /\ report'[v] = report[v]
        BY <1>1, <1>4, <3>2
      <4> QED BY <1>2, <1>4, <2>1, <4>1, SameReport
    <3> QED BY <3>1, <3>2
  <2> QED BY <1>4, <2>1, FrameBytes
<1>5. CASE Configure \/ UNCHANGED vars
  BY <1>3, <1>5 DEF Configure, vars, collector
<1>6. ASSUME NEW w \in Workers, Receive(w) PROVE BytesInv'
  <2>1. ReportInv(w)'
    BY <1>6, FreshReport
  <2>2. /\ UNCHANGED <<done, collector>> /\ Len(done[w]) < MaxTurns
        /\ pc' = [pc EXCEPT ![w] = pc'[w]] /\ body' = [body EXCEPT ![w] = body'[w]]
        /\ report' = [report EXCEPT ![w] = report'[w]]
    BY <1>1, <1>6 DEF Receive
  <2> QED BY <1>4, <2>1, <2>2
<1>7. ASSUME NEW w \in Workers, LeaveAlone(w) PROVE BytesInv'
  <2>1. ReportInv(w) /\ Len(done[w]) < MaxTurns
    BY <1>2, <1>7 DEF LeaveAlone
  <2>2. ReportInv(w)'
    BY <1>7, <2>1, AloneReport
  <2>3. /\ UNCHANGED <<done, collector>>
        /\ pc' = [pc EXCEPT ![w] = pc'[w]] /\ body' = [body EXCEPT ![w] = body'[w]]
        /\ report' = [report EXCEPT ![w] = report'[w]]
    BY <1>1, <1>7 DEF LeaveAlone
  <2> QED BY <1>4, <2>1, <2>2, <2>3
(* a decision about a text, from the transform, the memo or the settings *)
<1>8. ASSUME NEW w \in Workers, pc[w] # "idle", Len(body[w]) < Len(request[w]),
             NEW d \in Decisions, d.result = Subject(w) => d.reason # NoReason,
             body' = [body EXCEPT ![w] = Append(@, d.result)],
             report' = [report EXCEPT ![w] = Noted(@, Subject(w), d)],
             pc' = [pc EXCEPT ![w] = pc'[w]], UNCHANGED <<done, collector>>
      PROVE  BytesInv'
  <2>1. ReportInv(w) /\ Len(done[w]) < MaxTurns
    BY <1>2, <1>8
  <2>2. ReportInv(w)'
    BY <1>8, <2>1, ToldReport
  <2>3. body' = [body EXCEPT ![w] = body'[w]] /\ report' = [report EXCEPT ![w] = report'[w]]
    BY <1>1, <1>8
  <2> QED BY <1>4, <1>8, <2>1, <2>2, <2>3
<1>9. ASSUME NEW w \in Workers, Look(w) PROVE BytesInv'
  <2>1. Subject(w) \in Texts /\ Subject(w) \in Outcomes
    BY <1>9, PieceType, TextsAssumption DEF Look, HInv
  <2>2. CASE off
    <3> DEFINE d == Left(Subject(w), "strategy_disabled")
    <3>1. d \in Decisions /\ d.reason # NoReason /\ d.result = Subject(w)
      BY <2>1 DEF Left, Decisions, Reasons, NoReason
    <3>2. /\ pc[w] # "idle" /\ Len(body[w]) < Len(request[w])
          /\ body' = [body EXCEPT ![w] = Append(@, d.result)]
          /\ report' = [report EXCEPT ![w] = Noted(@, Subject(w), d)]
          /\ pc' = [pc EXCEPT ![w] = pc'[w]] /\ UNCHANGED <<done, collector>>
      BY <1>1, <1>9, <2>2, <3>1 DEF Look
    <3> HIDE DEF d
    <3> QED BY <1>8, <3>1, <3>2
  <2>3. CASE ~ off
    <3>1. /\ pc[w] # "idle" /\ UNCHANGED <<body, report, done, collector>>
          /\ pc' = [pc EXCEPT ![w] = pc'[w]]
      BY <1>1, <1>9, <2>3 DEF Look
    <3>2. ReportInv(w)' /\ Len(done[w]) < MaxTurns
      BY <1>2, <3>1, SameReport
    <3>3. body' = [body EXCEPT ![w] = body'[w]] /\ report' = [report EXCEPT ![w] = report'[w]]
      BY <1>1, <3>1
    <3> QED BY <1>4, <3>1, <3>2, <3>3
  <2> QED BY <2>2, <2>3
<1>10. ASSUME NEW w \in Workers, pc[w] \in {"get", "compute"},
              Told(w, CompressTextUncached(Subject(w)))
       PROVE  BytesInv'
  <2> DEFINE d == CompressTextUncached(Subject(w))
  <2>1. Subject(w) \in Texts /\ Len(body[w]) < Len(request[w])
    BY <1>10, PieceType DEF HInv, IInv, LookingAtOne
  <2>2. d \in Decisions
    BY <2>1, Transformed
  <2>3. d.result = Subject(w) => d.reason # NoReason
    BY <2>1, TextsAssumption DEF CompressTextUncached, Left, NoReason
  <2>4. /\ pc[w] # "idle"
        /\ body' = [body EXCEPT ![w] = Append(@, d.result)]
        /\ report' = [report EXCEPT ![w] = Noted(@, Subject(w), d)]
        /\ pc' = [pc EXCEPT ![w] = pc'[w]] /\ UNCHANGED <<done, collector>>
    BY <1>1, <1>10 DEF Told
  <2> HIDE DEF d
  <2> QED BY <1>8, <2>1, <2>2, <2>3, <2>4
<1>11. ASSUME NEW w \in Workers, Hit(w) PROVE BytesInv'
  <2>1. Subject(w) \in Texts
    BY <1>11, PieceType DEF Hit, HInv, IInv, LookingAtOne
  <2>2. items[Key(w)] = CompressTextUncached(Subject(w))
    BY <1>11, <2>1 DEF Hit, Key, HInv, IInv, MemoTrue
  <2> QED BY <1>10, <1>11, <2>2 DEF Hit
<1>12. ASSUME NEW w \in Workers, Miss(w) PROVE BytesInv'
  <2>1. /\ pc[w] # "idle" /\ UNCHANGED <<body, report, done, collector>>
        /\ pc' = [pc EXCEPT ![w] = pc'[w]]
    BY <1>1, <1>12 DEF Miss
  <2>2. ReportInv(w)' /\ Len(done[w]) < MaxTurns
    BY <1>2, <2>1, SameReport
  <2>3. body' = [body EXCEPT ![w] = body'[w]] /\ report' = [report EXCEPT ![w] = report'[w]]
    BY <1>1, <2>1
  <2> QED BY <1>4, <2>1, <2>2, <2>3
<1>13. ASSUME NEW w \in Workers, Remember(w) PROVE BytesInv'
  BY <1>10, <1>13 DEF Remember
<1>14. ASSUME NEW w \in Workers, HandOn(w) PROVE BytesInv'
  BY <1>14, HandOnBytes
<1> QED BY <1>5, <1>6, <1>7, <1>9, <1>11, <1>12, <1>13, <1>14 DEF Next, Step

(* The collector's totals are the sizes of exactly the texts that were      *)
(* handed on changed, and a request counts as left alone when nothing in it *)
(* changed, for any conversations, settings and memo (compress.go and       *)
(* Collector.Observe in metrics.go).                                        *)
THEOREM BytesAreMoved == Spec => []BytesMoved
<1>1. HInv /\ BytesInv => BytesMoved
  BY CollectorTells DEF BytesInv
<1> QED BY <1>1, InitHInv, NextHInv, InitBytes, NextBytes, PTL DEF Spec

-----------------------------------------------------------------------------
(* The log compressor.  Lines are what the patterns tell of them and their  *)
(* bytes.                                                                   *)
IsOutput(lines) ==
  /\ Len(lines) \in Nat /\ DOMAIN lines = 1..Len(lines)
  /\ \A i \in 1..Len(lines) : lines[i].size \in Nat /\ lines[i].indented \in BOOLEAN

(* The fold of StackRegions: g holds the state of the scan at each set of   *)
(* places.                                                                  *)
Unscanned == [done |-> {}, open |-> NoRegion]
Scans(lines, D, g) ==
  g = [s \in SUBSET D |-> IF s = {} THEN Unscanned ELSE Scan(lines, g[s \ {Max(s)}], Max(s))]

LEMMA MaxOfUpto ==
  ASSUME NEW m \in Nat, NEW s \in SUBSET (1..(m + 1)), m + 1 \in s
  PROVE  Max(s) = m + 1
<1>1. \A y \in s : m + 1 >= y
  OBVIOUS
<1>2. Max(s) \in s /\ \A y \in s : Max(s) >= y
  BY <1>1 DEF Max
<1>3. Max(s) \in 1..(m + 1) /\ Max(s) >= m + 1
  BY <1>2
<1> HIDE DEF Max
<1> QED BY <1>3

LEMMA MaxInside ==
  ASSUME NEW n \in Nat, NEW s \in SUBSET (1..n), s # {}
  PROVE  Max(s) \in s
<1> DEFINE S == {m \in Nat : \A t \in SUBSET (1..m) : t # {} => Max(t) \in t}
<1>1. 0 \in S
  <2>1. \A t \in SUBSET (1..0) : t = {}
    OBVIOUS
  <2> QED BY <2>1
<1>2. ASSUME NEW m \in Nat, m \in S PROVE m + 1 \in S
  <2>1. SUFFICES ASSUME NEW t \in SUBSET (1..(m + 1)), t # {} PROVE Max(t) \in t
    OBVIOUS
  <2>2. CASE m + 1 \in t
    BY <2>2, MaxOfUpto
  <2>3. CASE m + 1 \notin t
    <3>1. t \in SUBSET (1..m)
      BY <2>3
    <3> QED BY <1>2, <2>1, <3>1
  <2> QED BY <2>2, <2>3
<1> HIDE DEF S
<1>3. n \in S
  BY <1>1, <1>2, NatSetInduction
<1> QED BY <1>3 DEF S

LEMMA ScansExist ==
  ASSUME NEW lines, NEW n \in Nat
  PROVE  \E g : Scans(lines, 1..n, g)
<1> DEFINE S == {m \in Nat : \E g : Scans(lines, 1..m, g)}
<1>1. 0 \in S
  <2>1. Scans(lines, 1..0, [s \in SUBSET (1..0) |-> Unscanned])
    <3>1. \A s \in SUBSET (1..0) : s = {}
      OBVIOUS
    <3> QED BY <3>1 DEF Scans
  <2> QED BY <2>1
<1>2. ASSUME NEW m \in Nat, m \in S PROVE m + 1 \in S
  <2>1. PICK g : Scans(lines, 1..m, g)
    BY <1>2
  <2> DEFINE h == [s \in SUBSET (1..(m + 1)) |->
                     IF s \in SUBSET (1..m) THEN g[s] ELSE Scan(lines, g[s \ {m + 1}], m + 1)]
  <2>2. ASSUME NEW s \in SUBSET (1..(m + 1))
        PROVE  h[s] = IF s = {} THEN Unscanned ELSE Scan(lines, h[s \ {Max(s)}], Max(s))
    <3>1. CASE s \in SUBSET (1..m)
      <4>1. h[s] = g[s]
        BY <3>1
      <4>2. s \ {Max(s)} \in SUBSET (1..m) /\ s \ {Max(s)} \in SUBSET (1..(m + 1))
        BY <3>1
      <4>3. h[s \ {Max(s)}] = g[s \ {Max(s)}]
        BY <4>2
      <4> HIDE DEF h
      <4> QED BY <2>1, <3>1, <4>1, <4>3 DEF Scans
    <3>2. CASE s \notin SUBSET (1..m)
      <4>1. m + 1 \in s
        BY <3>2
      <4>2. Max(s) = m + 1
        BY <4>1, MaxOfUpto
      <4>3. s \ {m + 1} \in SUBSET (1..m) /\ s \ {m + 1} \in SUBSET (1..(m + 1)) /\ s # {}
        BY <4>1
      <4>4. h[s \ {m + 1}] = g[s \ {m + 1}]
        BY <4>3
      <4>5. h[s] = Scan(lines, g[s \ {m + 1}], m + 1)
        BY <3>2
      <4> HIDE DEF h
      <4> QED BY <4>2, <4>3, <4>4, <4>5
    <3> QED BY <3>1, <3>2
  <2>3. h = [s \in SUBSET (1..(m + 1)) |->
               IF s = {} THEN Unscanned ELSE Scan(lines, h[s \ {Max(s)}], Max(s))]
    BY <2>2
  <2> HIDE DEF h
  <2>4. Scans(lines, 1..(m + 1), h)
    BY <2>3 DEF Scans
  <2> QED BY <2>4
<1> HIDE DEF S
<1>3. Nat \subseteq S
  BY <1>1, <1>2, NatSetInduction
<1> QED BY <1>3 DEF S

Scanned(lines) == FoldLeftDomain(LAMBDA st, i : Scan(lines, st, i), Unscanned, lines)

(* The states of the scan, one line at a time.                              *)
LEMMA ScanLineByLine ==
  ASSUME NEW lines, Len(lines) \in Nat, DOMAIN lines = 1..Len(lines)
  PROVE  \E st : /\ st[0] = Unscanned /\ st[Len(lines)] = Scanned(lines)
                 /\ \A i \in 0..(Len(lines) - 1) : st[i + 1] = Scan(lines, st[i], i + 1)
<1> DEFINE n == Len(lines)
           places == [i \in DOMAIN lines |-> i]
           g == CHOOSE g : g = [s \in SUBSET DOMAIN places |->
                  IF s = {} THEN Unscanned ELSE Scan(lines, g[s \ {Max(s)}], places[Max(s)])]
<1>0. DOMAIN places = 1..n /\ \A s \in SUBSET (1..n) : s # {} => places[Max(s)] = Max(s)
  BY MaxInside
<1>1. \E h : h = [s \in SUBSET DOMAIN places |->
                    IF s = {} THEN Unscanned ELSE Scan(lines, h[s \ {Max(s)}], places[Max(s)])]
  <2>1. PICK h : Scans(lines, 1..n, h)
    BY ScansExist
  <2>2. [s \in SUBSET (1..n) |-> IF s = {} THEN Unscanned ELSE Scan(lines, h[s \ {Max(s)}], Max(s))]
        = [s \in SUBSET DOMAIN places |->
             IF s = {} THEN Unscanned ELSE Scan(lines, h[s \ {Max(s)}], places[Max(s)])]
    BY <1>0
  <2> HIDE DEF places
  <2> QED BY <2>1, <2>2, Zenon DEF Scans
<1>2. g = [s \in SUBSET DOMAIN places |->
             IF s = {} THEN Unscanned ELSE Scan(lines, g[s \ {Max(s)}], places[Max(s)])]
  BY <1>1
<1>3. Scanned(lines) = g[DOMAIN places]
  BY DEF Scanned, FoldLeftDomain, FoldLeft, MapThenFoldSet
<1> HIDE DEF g, places
<1>4. \A s \in SUBSET (1..n) :
        g[s] = IF s = {} THEN Unscanned ELSE Scan(lines, g[s \ {Max(s)}], places[Max(s)])
  BY <1>0, <1>2
<1> DEFINE st == [i \in 0..n |-> g[1..i]]
<1>5. st[0] = Unscanned /\ st[n] = Scanned(lines)
  <2>1. 0 \in 0..n /\ n \in 0..n /\ 1..0 = {} /\ {} \in SUBSET (1..n)
    OBVIOUS
  <2> QED BY <1>0, <1>3, <1>4, <2>1
<1>6. ASSUME NEW i \in 0..(n - 1) PROVE st[i + 1] = Scan(lines, st[i], i + 1)
  <2>1. i \in Nat /\ i \in 0..n /\ i + 1 \in 0..n /\ 1..(i + 1) \in SUBSET (1..n) /\ i + 1 \in 1..(i + 1)
    OBVIOUS
  <2>2. Max(1..(i + 1)) = i + 1
    BY <2>1, MaxOfUpto
  <2>3. (1..(i + 1)) \ {i + 1} = 1..i /\ 1..(i + 1) # {}
    <3>1. \A k : k \in (1..(i + 1)) \ {i + 1} <=> k \in 1..i
      BY <2>1
    <3> QED BY <2>1, <3>1
  <2>4. g[1..(i + 1)] = Scan(lines, g[1..i], i + 1)
    BY <1>0, <1>4, <2>1, <2>2, <2>3
  <2> QED BY <2>1, <2>4
<1> HIDE DEF st
<1> QED BY <1>5, <1>6

(* What a region is made of: traceback headers and frames, indented lines   *)
(* and blank ones.  Behind the open region there are blank lines only.      *)
Regions == [first : Nat, last : Nat, python : BOOLEAN]
Around(lines, i, r) ==
  /\ r.first \in 1..i /\ r.last \in r.first..i
  /\ \A j \in r.first..r.last : lines[j].class # "other" \/ lines[j].indented
ScanInv(lines, i, st) ==
  /\ st \in [done : SUBSET Regions, open : Regions]
  /\ \A r \in (st.done \cup {st.open}) \ {NoRegion} : Around(lines, i, r)
  /\ st.open # NoRegion => \A j \in (st.open.last + 1)..i : Blank(lines[j])

LEMMA ScanKeeps ==
  ASSUME NEW lines, NEW i \in Nat, NEW st, ScanInv(lines, i, st)
  PROVE  ScanInv(lines, i + 1, Scan(lines, st, i + 1))
<1> DEFINE l == lines[i + 1]
           fresh == [first |-> i + 1, last |-> i + 1, python |-> l.class = "header"]
<1>1. /\ st.done \in SUBSET Regions /\ st.open \in Regions
      /\ st = [done |-> st.done, open |-> st.open]
      /\ st.open = [first |-> st.open.first, last |-> st.open.last, python |-> st.open.python]
      /\ st.open.first \in Nat /\ st.open.last \in Nat /\ st.open.python \in BOOLEAN
  BY DEF ScanInv, Regions
<1>2. \A r : Around(lines, i, r) => Around(lines, i + 1, r)
  BY DEF Around
<1>3. CASE Blank(l)
  <2>1. Scan(lines, st, i + 1) = st
    BY <1>3 DEF Scan
  <2>2. st.open # NoRegion => \A j \in (st.open.last + 1)..(i + 1) : Blank(lines[j])
    <3>1. SUFFICES ASSUME st.open # NoRegion, NEW j \in (st.open.last + 1)..(i + 1) PROVE Blank(lines[j])
      OBVIOUS
    <3>2. j \in (st.open.last + 1)..i \/ j = i + 1
      BY <1>1
    <3> QED BY <1>3, <3>1, <3>2 DEF ScanInv
  <2> QED BY <1>2, <2>1, <2>2 DEF ScanInv
<1>4. CASE ~Blank(l) /\ st.open # NoRegion /\ Extends(l, st.open)
  <2> DEFINE longer == [first |-> st.open.first, last |-> i + 1, python |-> st.open.python]
  <2>1. Scan(lines, st, i + 1) = [done |-> st.done, open |-> longer]
    <3>1. Scan(lines, st, i + 1) = [st EXCEPT !.open.last = i + 1]
      BY <1>4 DEF Scan
    <3> QED BY <1>1, <3>1
  <2>2. Around(lines, i, st.open)
    BY <1>4 DEF ScanInv
  <2>3. Around(lines, i + 1, longer)
    <3>1. longer.first \in 1..(i + 1) /\ longer.last \in longer.first..(i + 1)
      BY <1>1, <2>2 DEF Around
    <3>2. ASSUME NEW j \in longer.first..longer.last PROVE lines[j].class # "other" \/ lines[j].indented
      <4>1. j \in st.open.first..st.open.last \/ j \in (st.open.last + 1)..i \/ j = i + 1
        BY <1>1
      <4>2. CASE j \in st.open.first..st.open.last
        BY <2>2, <4>2 DEF Around
      <4>3. CASE j \in (st.open.last + 1)..i
        BY <1>4, <4>3 DEF ScanInv, Blank
      <4>4. CASE j = i + 1
        BY <1>4, <4>4 DEF Extends
      <4> QED BY <4>1, <4>2, <4>3, <4>4
    <3> QED BY <3>1, <3>2 DEF Around
  <2>4. longer \in Regions
    BY <1>1 DEF Regions
  <2>5. \A j \in (longer.last + 1)..(i + 1) : Blank(lines[j])
    OBVIOUS
  <2> HIDE DEF longer
  <2>6. \A r \in st.done \ {NoRegion} : Around(lines, i + 1, r)
    BY <1>2 DEF ScanInv
  <2> QED BY <1>1, <2>1, <2>3, <2>4, <2>5, <2>6 DEF ScanInv
<1>5. CASE ~Blank(l) /\ ~(st.open # NoRegion /\ Extends(l, st.open))
  <2> DEFINE next == IF StackSignal(l) THEN fresh ELSE NoRegion
  <2>1. Scan(lines, st, i + 1) = [done |-> st.done \cup {st.open}, open |-> next]
    BY <1>5 DEF Scan
  <2>2. next \in Regions
    BY DEF Regions, NoRegion
  <2>3. next # NoRegion => next = fresh /\ StackSignal(l)
    OBVIOUS
  <2>4. next # NoRegion => Around(lines, i + 1, next) /\ \A j \in (next.last + 1)..(i + 1) : Blank(lines[j])
    <3>1. fresh.first = i + 1 /\ fresh.last = i + 1
      OBVIOUS
    <3>2. ASSUME StackSignal(l) PROVE Around(lines, i + 1, fresh)
      <4>1. \A j \in (i + 1)..(i + 1) : j = i + 1
        OBVIOUS
      <4> QED BY <3>1, <3>2, <4>1 DEF Around, StackSignal
    <3>3. \A j \in (fresh.last + 1)..(i + 1) : FALSE
      BY <3>1
    <3> HIDE DEF fresh, next
    <3> QED BY <2>3, <3>2, <3>3
  <2>5. \A r \in (st.done \cup {st.open}) \ {NoRegion} : Around(lines, i + 1, r)
    BY <1>2 DEF ScanInv
  <2> HIDE DEF next
  <2> QED BY <1>1, <2>1, <2>2, <2>4, <2>5 DEF ScanInv
<1> QED BY <1>3, <1>4, <1>5

(* A traceback at the margin, from its header to the line before its        *)
(* exception, while it is scanned.                                          *)
Traceback(lines, first, last) ==
  /\ lines[first].class = "header" /\ ~lines[first].indented
  /\ \A i \in (first + 1)..last : lines[i].indented /\ lines[i].class # "blank"
  /\ lines[last + 1].class = "exception" /\ ~lines[last + 1].indented
Scanning(first, last, i, st) ==
  /\ i \in first..last => st.open = [first |-> first, last |-> i, python |-> TRUE]
  /\ i > last => [first |-> first, last |-> last, python |-> TRUE] \in st.done

LEMMA TracebackScanned ==
  ASSUME NEW lines, NEW i \in Nat, NEW st, ScanInv(lines, i, st),
         NEW first \in Nat \ {0}, NEW last \in Nat, first <= last, Traceback(lines, first, last),
         Scanning(first, last, i, st)
  PROVE  Scanning(first, last, i + 1, Scan(lines, st, i + 1))
<1> SUFFICES ASSUME NEW next, next = Scan(lines, st, i + 1) PROVE Scanning(first, last, i + 1, next)
  OBVIOUS
<1> DEFINE l == lines[i + 1]
           whole == [first |-> first, last |-> last, python |-> TRUE]
<1>1. /\ st = [done |-> st.done, open |-> st.open]
      /\ st.open = [first |-> st.open.first, last |-> st.open.last, python |-> st.open.python]
      /\ st.open.python \in BOOLEAN
  BY DEF ScanInv, Regions
<1>2. CASE i + 1 < first
  BY <1>2 DEF Scanning
<1>3. CASE i + 1 = first
  <2>1. ~Blank(l) /\ ~Extends(l, st.open) /\ StackSignal(l) /\ l.class = "header"
    BY <1>1, <1>3 DEF Blank, Extends, StackSignal, Traceback
  <2>2. next = [done |-> st.done \cup {st.open}, open |-> [first |-> i + 1, last |-> i + 1, python |-> l.class = "header"]]
    BY <2>1 DEF Scan
  <2>3. next.open = [first |-> first, last |-> i + 1, python |-> TRUE]
    <3>1. next.open = [first |-> i + 1, last |-> i + 1, python |-> l.class = "header"]
      BY <2>2
    <3>2. (l.class = "header") = TRUE
      BY <2>1
    <3> QED BY <1>3, <3>1, <3>2
  <2> QED BY <1>3, <2>3 DEF Scanning
<1>4. CASE i + 1 \in (first + 1)..last
  <2>1. i \in first..last
    BY <1>4
  <2>2. st.open = [first |-> first, last |-> i, python |-> TRUE]
    BY <2>1 DEF Scanning
  <2>3. ~Blank(l) /\ Extends(l, st.open) /\ st.open # NoRegion
    BY <1>4, <2>2 DEF Blank, Extends, Traceback, NoRegion
  <2>4. next = [st EXCEPT !.open.last = i + 1]
    BY <2>3 DEF Scan
  <2>5. next.open = [first |-> first, last |-> i + 1, python |-> TRUE]
    <3>1. next = [st EXCEPT !.open = [st.open EXCEPT !.last = i + 1]]
      BY <2>4
    <3>2. next.open = [st.open EXCEPT !.last = i + 1]
      BY <1>1, <3>1
    <3>3. next.open = [first |-> st.open.first, last |-> i + 1, python |-> st.open.python]
      BY <1>1, <3>2
    <3>4. st.open.first = first /\ st.open.python = TRUE
      BY <2>2
    <3> QED BY <3>3, <3>4
  <2> QED BY <1>4, <2>5 DEF Scanning
<1>5. CASE i = last
  <2>1. i \in first..last
    BY <1>5
  <2>2. st.open = [first |-> first, last |-> i, python |-> TRUE]
    BY <2>1 DEF Scanning
  <2>3. ~Blank(l) /\ ~Extends(l, st.open)
    BY <1>5, <2>2 DEF Blank, Extends, Traceback
  <2>4. next.done = st.done \cup {st.open}
    BY <2>3 DEF Scan
  <2>5. whole \in next.done
    BY <1>5, <2>2, <2>4
  <2> QED BY <1>5, <2>5 DEF Scanning
<1>6. CASE i > last
  <2>1. whole \in st.done
    BY <1>6 DEF Scanning
  <2>2. st.done \subseteq next.done
    BY <1>1 DEF Scan
  <2> QED BY <1>6, <2>1, <2>2 DEF Scanning
<1> QED BY <1>2, <1>3, <1>4, <1>5, <1>6

LEMMA RegionsOf ==
  ASSUME NEW lines, IsOutput(lines)
  PROVE  /\ \A r \in StackRegions(lines) : r \in Regions /\ Around(lines, Len(lines), r)
         /\ \A first, last \in 1..Len(lines) :
              first <= last /\ last < Len(lines) /\ Traceback(lines, first, last) =>
                [first |-> first, last |-> last, python |-> TRUE] \in StackRegions(lines)
<1> DEFINE n == Len(lines)
<1>1. n \in Nat /\ DOMAIN lines = 1..n
  BY DEF IsOutput
<1>2. PICK st : /\ st[0] = Unscanned /\ st[n] = Scanned(lines)
                /\ \A i \in 0..(n - 1) : st[i + 1] = Scan(lines, st[i], i + 1)
  BY <1>1, ScanLineByLine
<1>3. StackRegions(lines) = (st[n].done \cup {st[n].open}) \ {NoRegion}
  BY <1>2 DEF StackRegions, Scanned, Unscanned
<1> HIDE DEF n
<1> DEFINE S == {i \in Nat : i <= n => ScanInv(lines, i, st[i])}
<1>4. Nat \subseteq S
  <2>1. 0 \in S
    <3>1. ScanInv(lines, 0, Unscanned)
      BY DEF ScanInv, Unscanned, NoRegion, Regions
    <3> QED BY <1>2, <3>1
  <2>2. ASSUME NEW i \in Nat, i \in S PROVE i + 1 \in S
    <3>1. SUFFICES ASSUME i + 1 <= n PROVE ScanInv(lines, i + 1, st[i + 1])
      OBVIOUS
    <3>2. i \in 0..(n - 1) /\ i <= n
      BY <1>1, <3>1
    <3>3. ScanInv(lines, i, st[i]) /\ st[i + 1] = Scan(lines, st[i], i + 1)
      BY <1>2, <2>2, <3>2
    <3>4. ScanInv(lines, i + 1, Scan(lines, st[i], i + 1))
      BY <3>3, ScanKeeps
    <3> QED BY <3>3, <3>4
  <2> HIDE DEF S
  <2> QED BY <2>1, <2>2, NatSetInduction
<1>5. \A i \in 0..n : ScanInv(lines, i, st[i])
  BY <1>1, <1>4
<1>6. \A r \in StackRegions(lines) : r \in Regions /\ Around(lines, n, r)
  BY <1>1, <1>3, <1>5 DEF ScanInv
<1>7. ASSUME NEW first \in 1..n, NEW last \in 1..n, first <= last, last < n, Traceback(lines, first, last)
      PROVE  [first |-> first, last |-> last, python |-> TRUE] \in StackRegions(lines)
  <2> DEFINE T == {i \in Nat : i <= n => Scanning(first, last, i, st[i])}
             whole == [first |-> first, last |-> last, python |-> TRUE]
  <2>1. 0 \in T
    BY <1>1, <1>7 DEF Scanning
  <2>2. ASSUME NEW i \in Nat, i \in T PROVE i + 1 \in T
    <3>1. SUFFICES ASSUME i + 1 <= n PROVE Scanning(first, last, i + 1, st[i + 1])
      OBVIOUS
    <3>2. i \in 0..(n - 1) /\ i \in 0..n /\ i <= n
      BY <1>1, <3>1
    <3>3. Scanning(first, last, i, st[i]) /\ ScanInv(lines, i, st[i]) /\ st[i + 1] = Scan(lines, st[i], i + 1)
      BY <1>2, <1>5, <2>2, <3>2
    <3>4. first \in Nat \ {0} /\ last \in Nat
      BY <1>1
    <3>5. Scanning(first, last, i + 1, Scan(lines, st[i], i + 1))
      BY <1>7, <3>3, <3>4, TracebackScanned
    <3> QED BY <3>3, <3>5
  <2> HIDE DEF T
  <2>3. n \in T
    BY <1>1, <2>1, <2>2, NatSetInduction
  <2>4. Scanning(first, last, n, st[n])
    BY <1>1, <2>3 DEF T
  <2>5. whole \in st[n].done
    BY <1>1, <1>7, <2>4 DEF Scanning
  <2>6. whole # NoRegion
    BY <1>1 DEF NoRegion
  <2> QED BY <1>3, <2>5, <2>6
<1> QED BY <1>6, <1>7 DEF n

(* What CompressLog keeps: lines that tell, tracebacks to their ends, and   *)
(* by score whatever else there is room for.                                *)
KindsOf(lines) == Kinds(lines, StackRegions(lines))
Erring(lines) == {r \in StackRegions(lines) : HasError(lines, KindsOf(lines), r)}
Must(lines) == MustKeep(lines, KindsOf(lines), Erring(lines))
ScoresOf(lines) == Scores(KindsOf(lines), Erring(lines))
CandidatesOf(lines) == Candidates(lines, KindsOf(lines), ScoresOf(lines), Must(lines))
KeptOf(lines) == Kept(lines, StackRegions(lines), KindsOf(lines))
TellingOf(lines) ==
  {i \in DOMAIN lines : lines[i].class \in {"error", "exception", "fail", "summary"}}
CountedOf(lines) == {i \in DOMAIN lines : lines[i].class # "other" \/ lines[i].indented}
Ends(first, last) ==
  {i \in first..last : last - first < MaxStack \/ i < first + MaxStack \div 2 \/ i > last - MaxStack \div 2}

LEMMA KindsTell ==
  ASSUME NEW lines, IsOutput(lines), NEW i \in 1..Len(lines)
  PROVE  /\ i \in TellingOf(lines) => KindsOf(lines)[i] \in {"error", "fail", "summary"}
         /\ KindsOf(lines)[i] \in {"error", "fail", "summary"} => i \in TellingOf(lines)
         /\ KindsOf(lines)[i] = "warn" <=> lines[i].class = "warn"
         /\ KindsOf(lines)[i] # "other" => i \in CountedOf(lines)
<1> DEFINE stacked == \E r \in StackRegions(lines) : InRegion(i, r)
<1>1. DOMAIN lines = 1..Len(lines) /\ KindsOf(lines)[i] = Kind(lines[i], stacked)
  BY DEF IsOutput, KindsOf, Kinds
<1>2. stacked => i \in CountedOf(lines)
  <2>1. SUFFICES ASSUME NEW r \in StackRegions(lines), InRegion(i, r) PROVE i \in CountedOf(lines)
    OBVIOUS
  <2>2. Around(lines, Len(lines), r)
    BY <2>1, RegionsOf
  <2> QED BY <1>1, <2>1, <2>2 DEF Around, InRegion, CountedOf
<1> HIDE DEF stacked
<1>3. CASE lines[i].class \in {"error", "exception"}
  BY <1>1, <1>3 DEF Kind, ErrorLine, TellingOf, CountedOf
<1>4. CASE lines[i].class = "run"
  BY <1>1, <1>4 DEF Kind, ErrorLine, TellingOf, CountedOf
<1>5. CASE lines[i].class \in {"fail", "summary", "warn", "info"}
  BY <1>1, <1>5 DEF Kind, ErrorLine, TellingOf, CountedOf
<1>6. CASE lines[i].class \notin {"error", "exception", "run", "fail", "summary", "warn", "info"}
  <2>1. (KindsOf(lines)[i] = "stack" /\ stacked) \/ KindsOf(lines)[i] = "other"
    BY <1>1, <1>6 DEF Kind, ErrorLine
  <2> QED BY <1>1, <1>2, <1>6, <2>1 DEF TellingOf
<1> QED BY <1>3, <1>4, <1>5, <1>6

LEMMA StackEnds ==
  ASSUME NEW r \in Regions, r.first <= r.last
  PROVE  StackKept(r) \subseteq r.first..r.last /\ Ends(r.first, r.last) \subseteq StackKept(r)
<1>1. r.first \in Nat /\ r.last \in Nat /\ MaxStack \in Nat
  BY LogAssumption DEF Regions
<1>2. PICK half \in Nat : half = MaxStack \div 2 /\ half <= MaxStack
  BY <1>1
<1>3. CASE r.last - r.first + 1 > MaxStack
  <2>1. StackKept(r) = (r.first..(r.first + half - 1)) \cup ((r.last - half + 1)..r.last)
    BY <1>2, <1>3 DEF StackKept
  <2>2. Ends(r.first, r.last) = {i \in r.first..r.last : r.last - r.first < MaxStack \/ i < r.first + half \/ i > r.last - half}
    BY <1>2 DEF Ends
  <2> QED BY <1>1, <1>2, <1>3, <2>1, <2>2
<1>4. CASE ~(r.last - r.first + 1 > MaxStack)
  BY <1>4 DEF StackKept, Ends
<1> QED BY <1>3, <1>4

LEMMA MustTells ==
  ASSUME NEW lines, IsOutput(lines)
  PROVE  /\ TellingOf(lines) \subseteq Must(lines) /\ Must(lines) \subseteq CountedOf(lines)
         /\ \A first, last \in 1..Len(lines) :
              first <= last /\ last < Len(lines) /\ Traceback(lines, first, last) =>
                Ends(first, last) \subseteq Must(lines)
<1> DEFINE n == Len(lines)
<1>1. n \in Nat /\ DOMAIN lines = 1..n
  BY DEF IsOutput
<1>2. Must(lines) = {i \in 1..n : KindsOf(lines)[i] \in {"error", "fail", "summary"}}
                    \cup UNION {StackKept(r) \cup Behind(lines, r) : r \in Erring(lines)}
  BY <1>1 DEF Must, MustKeep
<1>3. TellingOf(lines) \subseteq Must(lines)
  <2>1. ASSUME NEW i \in TellingOf(lines) PROVE i \in Must(lines)
    <3>1. i \in 1..n
      BY <1>1 DEF TellingOf
    <3> QED BY <1>2, <3>1, KindsTell
  <2> QED BY <2>1
<1>4. ASSUME NEW i \in Must(lines) PROVE i \in CountedOf(lines)
  <2>1. CASE i \in 1..n /\ KindsOf(lines)[i] \in {"error", "fail", "summary"}
    <3>1. KindsOf(lines)[i] # "other"
      BY <2>1
    <3> QED BY <2>1, <3>1, KindsTell
  <2>2. CASE \E r \in Erring(lines) : i \in StackKept(r) \cup Behind(lines, r)
    <3>1. PICK r \in Erring(lines) : i \in StackKept(r) \cup Behind(lines, r)
      BY <2>2
    <3>2. r \in Regions /\ Around(lines, n, r)
      BY RegionsOf DEF Erring
    <3>3. CASE i \in StackKept(r)
      <4>1. r.first <= r.last /\ r.first \in 1..n /\ r.last \in 1..n
        BY <1>1, <3>2 DEF Around, Regions
      <4>2. i \in r.first..r.last
        BY <3>2, <3>3, <4>1, StackEnds
      <4> QED BY <1>1, <3>2, <4>1, <4>2 DEF Around, CountedOf
    <3>4. CASE i \in Behind(lines, r)
      BY <1>1, <3>4 DEF Behind, CountedOf, ExceptionLine
    <3> QED BY <3>1, <3>3, <3>4
  <2> QED BY <1>2, <2>1, <2>2
<1>5. ASSUME NEW first \in 1..n, NEW last \in 1..n, first <= last, last < n, Traceback(lines, first, last)
      PROVE  Ends(first, last) \subseteq Must(lines)
  <2> DEFINE r == [first |-> first, last |-> last, python |-> TRUE]
  <2>1. r \in StackRegions(lines) /\ r.first = first /\ r.last = last
    BY <1>5, RegionsOf
  <2>2. r \in Regions
    BY <2>1, RegionsOf
  <2> HIDE DEF r
  <2>3. last + 1 \in Behind(lines, r)
    BY <1>1, <1>5, <2>1 DEF Behind, Traceback, ExceptionLine
  <2>4. r \in Erring(lines)
    BY <2>1, <2>3 DEF Erring, HasError
  <2>5. Ends(first, last) \subseteq StackKept(r)
    BY <1>5, <2>1, <2>2, StackEnds
  <2> QED BY <1>2, <2>4, <2>5
<1> QED BY <1>3, <1>4, <1>5

LEMMA BudgetIsInt ==
  ASSUME NEW n \in Nat PROVE AdaptiveBudget(n) \in Int
<1>1. (n * BudgetPercent) \div 100 \in Int
  BY LogAssumption
<1>2. ASSUME NEW a \in Int, NEW b \in Int PROVE Max({a, b}) \in Int /\ Min({a, b}) \in Int
  <2>1. \E x \in {a, b} : \A y \in {a, b} : x >= y
    OBVIOUS
  <2>2. \E x \in {a, b} : \A y \in {a, b} : x =< y
    OBVIOUS
  <2> QED BY <2>1, <2>2 DEF Max, Min
<1> DEFINE share == (n * BudgetPercent) \div 100
           raised == Max({BudgetMin, share})
<1>3. AdaptiveBudget(n) = Min({BudgetMax, raised})
  BY DEF AdaptiveBudget
<1>4. raised \in Int
  <2>1. share \in Int /\ BudgetMin \in Int
    BY <1>1, LogAssumption
  <2> HIDE DEF share
  <2> QED BY <1>2, <2>1
<1> HIDE DEF raised
<1>5. BudgetMax \in Int
  BY LogAssumption
<1> QED BY <1>2, <1>3, <1>4, <1>5

LEMMA LeastOf ==
  ASSUME NEW S, S \subseteq Nat, S # {}
  PROVE  \E x \in S : \A y \in S : x <= y
<1>1. PICK x \in S : \A y \in S : ~(<<y, x>> \in OpToRel(<, Nat))
  BY NatLessThanWellFounded, WFMin
<1>2. ASSUME NEW y \in S PROVE x <= y
  <2>1. x \in Nat /\ y \in Nat
    OBVIOUS
  <2>2. ~(y < x)
    BY <1>1, <2>1 DEF OpToRel
  <2> QED BY <2>1, <2>2
<1> QED BY <1>2

LEMMA KeptTells ==
  ASSUME NEW lines, IsOutput(lines)
  PROVE  /\ Must(lines) \subseteq KeptOf(lines) /\ KeptOf(lines) \subseteq 1..Len(lines)
         /\ Cardinality(CountedOf(lines)) <= AdaptiveBudget(Len(lines)) =>
              \A i \in 1..Len(lines) : lines[i].class = "warn" =>
                \E j \in KeptOf(lines) : lines[j].class = "warn" /\ lines[j].key = lines[i].key
<1> DEFINE n == Len(lines)
           scores == ScoresOf(lines)
           cands == CandidatesOf(lines)
           must == Must(lines)
           kinds == KindsOf(lines)
           Ahead(i) == {j \in cands : scores[j] > scores[i] \/ (scores[j] = scores[i] /\ j < i)}
<1>1. n \in Nat /\ DOMAIN lines = 1..n
  BY DEF IsOutput
<1>2. /\ DOMAIN kinds = 1..n /\ DOMAIN scores = 1..n /\ Len(scores) = n
      /\ \A i \in 1..n : scores[i] = Score(kinds[i], \E r \in Erring(lines) : InRegion(i, r))
  <2>1. DOMAIN kinds = 1..n
    BY <1>1 DEF KindsOf, Kinds
  <2>2. scores = [i \in 1..n |-> Score(kinds[i], \E r \in Erring(lines) : InRegion(i, r))]
    BY <2>1 DEF ScoresOf, Scores
  <2>3. \A k, inside : Score(k, inside) \in Int
    BY DEF Score
  <2> HIDE DEF scores, kinds
  <2>4. scores \in [1..n -> Int]
    BY <2>2, <2>3
  <2>5. scores \in Seq(Int)
    BY <1>1, <2>4
  <2>6. Len(scores) = n
    BY <1>1, <2>4, <2>5
  <2> QED BY <1>1, <2>1, <2>2, <2>6
<1>3. /\ \A i \in 1..n : scores[i] \in Int
      /\ \A i \in 1..n : scores[i] > 0 => kinds[i] # "other"
      /\ \A i \in 1..n : kinds[i] = "warn" => scores[i] > 0
  <2>1. ASSUME NEW i \in 1..n
        PROVE scores[i] \in Int /\ (scores[i] > 0 => kinds[i] # "other") /\ (kinds[i] = "warn" => scores[i] > 0)
    <3>1. PICK inside : scores[i] = Score(kinds[i], inside)
      BY <1>2
    <3> HIDE DEF scores, kinds
    <3> QED BY <3>1 DEF Score
  <2> QED BY <2>1
<1>4. must \subseteq CountedOf(lines) /\ CountedOf(lines) \subseteq 1..n
  BY <1>1, MustTells DEF CountedOf
<1>5. \A i : i \in cands <=>
        /\ i \in (1..n) \ must /\ scores[i] > 0
        /\ kinds[i] = "warn" => ~\E j \in (1..n) \ must : j < i /\ kinds[j] = "warn" /\ lines[j].key = lines[i].key
  BY <1>1 DEF CandidatesOf, Candidates
<1>6. cands \subseteq CountedOf(lines) /\ cands \cap must = {}
  BY <1>3, <1>5, KindsTell
<1>7. KeptOf(lines) = Filled(must, cands, scores)
  BY DEF KeptOf, Kept, Must, CandidatesOf, ScoresOf, Erring
<1>8. KeptOf(lines) = must \cup {i \in cands : Cardinality(Ahead(i)) < AdaptiveBudget(n) - Cardinality(must)}
  <2> HIDE DEF scores, cands, must
  <2> QED BY <1>2, <1>7 DEF Filled
<1> HIDE DEF scores, cands, must, kinds
<1>9. Must(lines) \subseteq KeptOf(lines) /\ KeptOf(lines) \subseteq 1..n
  <2>1. must = Must(lines)
    BY DEF must
  <2> QED BY <1>4, <1>6, <1>8, <2>1
<1>10. ASSUME Cardinality(CountedOf(lines)) <= AdaptiveBudget(n), NEW i \in 1..n, lines[i].class = "warn"
       PROVE  \E j \in KeptOf(lines) : lines[j].class = "warn" /\ lines[j].key = lines[i].key
  <2>1. CASE i \in must
    BY <1>8, <1>10, <2>1
  <2>2. CASE i \notin must
    <3> DEFINE S == {j \in (1..n) \ must : lines[j].class = "warn" /\ lines[j].key = lines[i].key}
    <3>1. S \subseteq Nat /\ i \in S
      BY <1>10, <2>2
    <3>2. PICK j \in S : \A k \in S : j <= k
      BY <3>1, LeastOf
    <3>3. j \in (1..n) \ must /\ lines[j].class = "warn" /\ lines[j].key = lines[i].key
      OBVIOUS
    <3>4. \A k \in 1..n : kinds[k] = "warn" <=> lines[k].class = "warn"
      BY KindsTell DEF kinds
    <3>5. ~\E k \in (1..n) \ must : k < j /\ kinds[k] = "warn" /\ lines[k].key = lines[j].key
      <4>1. SUFFICES ASSUME NEW k \in (1..n) \ must, k < j, kinds[k] = "warn", lines[k].key = lines[j].key
                     PROVE  FALSE
        OBVIOUS
      <4>2. k \in S
        BY <3>3, <3>4, <4>1
      <4>3. j <= k /\ j \in Nat /\ k \in Nat
        BY <3>1, <3>2, <4>2
      <4> QED BY <4>1, <4>3
    <3>6. kinds[j] = "warn" /\ scores[j] > 0
      BY <1>3, <3>3, <3>4
    <3>7. j \in cands
      BY <1>5, <3>3, <3>5, <3>6
    <3> HIDE DEF S
    <3>8. Ahead(j) \subseteq cands /\ j \notin Ahead(j)
      BY <1>3, <3>3
    <3> HIDE DEF Ahead
    <3>9. IsFiniteSet(CountedOf(lines)) /\ Cardinality(CountedOf(lines)) \in Nat
      <4>1. IsFiniteSet(1..n)
        BY <1>1, FS_Interval
      <4> QED BY <1>4, <4>1, FS_Subset, FS_CardinalityType
    <3>10. IsFiniteSet(must) /\ IsFiniteSet(Ahead(j))
      BY <1>4, <1>6, <3>8, <3>9, FS_Subset
    <3>11. /\ Cardinality(must) \in Nat /\ Cardinality(Ahead(j)) \in Nat
           /\ IsFiniteSet(must \cup Ahead(j))
           /\ Cardinality(must \cup Ahead(j)) = Cardinality(must) + Cardinality(Ahead(j))
      <4>1. must \cap Ahead(j) = {}
        BY <1>6, <3>8
      <4>2. Cardinality(must \cap Ahead(j)) = 0
        BY <4>1, FS_EmptySet
      <4>3. Cardinality(must) \in Nat /\ Cardinality(Ahead(j)) \in Nat
        BY <3>10, FS_CardinalityType
      <4>4. /\ IsFiniteSet(must \cup Ahead(j))
            /\ Cardinality(must \cup Ahead(j))
               = Cardinality(must) + Cardinality(Ahead(j)) - Cardinality(must \cap Ahead(j))
        BY <3>10, FS_Union
      <4> QED BY <4>2, <4>3, <4>4
    <3>12. Cardinality((must \cup Ahead(j)) \cup {j}) = Cardinality(must) + Cardinality(Ahead(j)) + 1
      BY <3>3, <3>8, <3>11, FS_AddElement
    <3>13. (must \cup Ahead(j)) \cup {j} \subseteq CountedOf(lines)
      BY <1>4, <1>6, <3>7, <3>8
    <3>14. Cardinality(must) + Cardinality(Ahead(j)) + 1 <= Cardinality(CountedOf(lines))
      BY <3>9, <3>12, <3>13, FS_Subset
    <3>15. AdaptiveBudget(n) \in Int
      BY <1>1, BudgetIsInt
    <3>16. Cardinality(Ahead(j)) < AdaptiveBudget(n) - Cardinality(must)
      BY <1>10, <3>9, <3>11, <3>14, <3>15
    <3> QED BY <1>8, <3>3, <3>7, <3>16
  <2> QED BY <2>1, <2>2
<1> HIDE DEF n
<1>11. n = Len(lines)
  BY DEF n
<1> QED BY <1>9, <1>10, <1>11

(* What CompressLog omits: runs of lines between those kept.                *)
SizesOf(lines) == [i \in 1..Len(lines) |-> lines[i].size]
Mark(run) == [at |-> Min(run), counts |-> Cardinality(run)]
Marks(runs) == {Mark(run) : run \in runs}
CountsOf(marks) == [m \in marks |-> m.counts]

LEMMA SumsUnique ==
  ASSUME NEW f, NEW S, IsFiniteSet(S), NEW g, Sums(f, S, g), NEW h, Sums(f, S, h)
  PROVE  g[S] = h[S]
<1>1. S \subseteq S /\ S \in SUBSET S /\ \A x \in S : f[x] = f[x]
  OBVIOUS
<1>2. \A s \in SUBSET S : g[s] = h[s]
  BY <1>1, SumsAgree
<1> QED BY <1>1, <1>2

LEMMA BytesTold ==
  ASSUME NEW lines, IsOutput(lines), NEW S \in SUBSET (1..Len(lines)), IsFiniteSet(S)
  PROVE  Bytes(lines, S) = SumOf(SizesOf(lines), S)
<1> DEFINE f == SizesOf(lines)
           Is(h) == h = [s \in SUBSET S |->
             IF s = {} THEN 0 ELSE lines[Chosen(s)].size + h[s \ {Chosen(s)}]]
           h == CHOOSE h : h = [s \in SUBSET S |->
             IF s = {} THEN 0
             ELSE lines[CHOOSE x \in s : TRUE].size + h[s \ {CHOOSE x \in s : TRUE}]]
<1>1. PICK g : Sums(f, S, g) /\ SumOf(f, S) = g[S]
  BY SumIsOne
<1>2. \A s \in SUBSET S : s # {} => f[Chosen(s)] = lines[Chosen(s)].size
  <2>1. \A s \in SUBSET S : s # {} => Chosen(s) \in 1..Len(lines)
    BY DEF Chosen
  <2> HIDE DEF Is, h
  <2> QED BY <2>1 DEF SizesOf
<1> HIDE DEF f
<1>3. ASSUME NEW e PROVE Sums(f, S, e) <=> Is(e)
  <2>1. [s \in SUBSET S |-> IF s = {} THEN 0 ELSE f[Chosen(s)] + e[s \ {Chosen(s)}]]
        = [s \in SUBSET S |-> IF s = {} THEN 0 ELSE lines[Chosen(s)].size + e[s \ {Chosen(s)}]]
    <3>1. \A s \in SUBSET S :
            (IF s = {} THEN 0 ELSE f[Chosen(s)] + e[s \ {Chosen(s)}])
            = IF s = {} THEN 0 ELSE lines[Chosen(s)].size + e[s \ {Chosen(s)}]
      BY <1>2
    <3> QED BY <3>1, Zenon
  <2> QED BY <2>1, Zenon DEF Sums
<1>4. \E e : e = [s \in SUBSET S |->
             IF s = {} THEN 0
             ELSE lines[CHOOSE x \in s : TRUE].size + e[s \ {CHOOSE x \in s : TRUE}]]
  <2>1. Is(g)
    BY <1>1, <1>3
  <2> HIDE DEF h
  <2> QED BY <2>1, Zenon DEF Chosen
<1>5. h = [s \in SUBSET S |->
             IF s = {} THEN 0
             ELSE lines[CHOOSE x \in s : TRUE].size + h[s \ {CHOOSE x \in s : TRUE}]]
  BY <1>4
<1>6. Bytes(lines, S) = h[S]
  BY DEF Bytes, MapThenSumSet, MapThenFoldSet
<1> HIDE DEF h
<1>7. Is(h)
  BY <1>5, Zenon DEF Chosen
<1>8. Sums(f, S, h)
  BY <1>3, <1>7
<1>9. g[S] = h[S]
  BY <1>1, <1>8, SumsUnique
<1>10. Bytes(lines, S) = SumOf(f, S)
  BY <1>1, <1>6, <1>9
<1> QED BY <1>10 DEF f

LEMMA CountsTold ==
  ASSUME NEW S, IsFiniteSet(S)
  PROVE  MapThenSumSet(LAMBDA m : m.counts, S) = SumOf(CountsOf(S), S)
<1> DEFINE f == CountsOf(S)
           Is(h) == h = [s \in SUBSET S |->
             IF s = {} THEN 0 ELSE Chosen(s).counts + h[s \ {Chosen(s)}]]
           h == CHOOSE h : h = [s \in SUBSET S |->
             IF s = {} THEN 0
             ELSE (CHOOSE x \in s : TRUE).counts + h[s \ {CHOOSE x \in s : TRUE}]]
<1>1. PICK g : Sums(f, S, g) /\ SumOf(f, S) = g[S]
  BY SumIsOne
<1>2. \A s \in SUBSET S : s # {} => f[Chosen(s)] = Chosen(s).counts
  <2>1. \A s \in SUBSET S : s # {} => Chosen(s) \in S
    BY DEF Chosen
  <2> HIDE DEF Is, h
  <2> QED BY <2>1 DEF CountsOf
<1> HIDE DEF f
<1>3. ASSUME NEW e PROVE Sums(f, S, e) <=> Is(e)
  <2>1. [s \in SUBSET S |-> IF s = {} THEN 0 ELSE f[Chosen(s)] + e[s \ {Chosen(s)}]]
        = [s \in SUBSET S |-> IF s = {} THEN 0 ELSE Chosen(s).counts + e[s \ {Chosen(s)}]]
    <3>1. \A s \in SUBSET S :
            (IF s = {} THEN 0 ELSE f[Chosen(s)] + e[s \ {Chosen(s)}])
            = IF s = {} THEN 0 ELSE Chosen(s).counts + e[s \ {Chosen(s)}]
      BY <1>2
    <3> QED BY <3>1, Zenon
  <2> QED BY <2>1, Zenon DEF Sums
<1>4. \E e : e = [s \in SUBSET S |->
             IF s = {} THEN 0
             ELSE (CHOOSE x \in s : TRUE).counts + e[s \ {CHOOSE x \in s : TRUE}]]
  <2>1. Is(g)
    BY <1>1, <1>3
  <2> HIDE DEF h
  <2> QED BY <2>1, Zenon DEF Chosen
<1>5. h = [s \in SUBSET S |->
             IF s = {} THEN 0
             ELSE (CHOOSE x \in s : TRUE).counts + h[s \ {CHOOSE x \in s : TRUE}]]
  BY <1>4
<1>6. MapThenSumSet(LAMBDA m : m.counts, S) = h[S]
  BY DEF MapThenSumSet, MapThenFoldSet
<1> HIDE DEF h
<1>7. Is(h)
  BY <1>5, Zenon DEF Chosen
<1>8. Sums(f, S, h)
  BY <1>3, <1>7
<1>9. g[S] = h[S]
  BY <1>1, <1>8, SumsUnique
<1>10. MapThenSumSet(LAMBDA m : m.counts, S) = SumOf(f, S)
  BY <1>1, <1>6, <1>9
<1> QED BY <1>10 DEF f

LEMMA IntervalOf ==
  ASSUME NEW p \in Nat, NEW q \in Nat, p <= q
  PROVE  /\ IsFiniteSet(p..q) /\ Mark(p..q).counts \in Nat /\ Cardinality(p..q) = Mark(p..q).counts
         /\ Mark(p..q).at..(Mark(p..q).at + Mark(p..q).counts - 1) = p..q
<1>1. Min(p..q) = p
  <2>1. p \in p..q /\ \A y \in p..q : p =< y
    OBVIOUS
  <2>2. Min(p..q) \in p..q /\ \A y \in p..q : Min(p..q) =< y
    BY <2>1 DEF Min
  <2> HIDE DEF Min
  <2> QED BY <2>1, <2>2
<1>2. IsFiniteSet(p..q) /\ Cardinality(p..q) = q - p + 1
  BY FS_Interval
<1>3. Mark(p..q).at = p /\ Mark(p..q).counts = q - p + 1
  BY <1>1, <1>2 DEF Mark
<1> QED BY <1>2, <1>3

Between(lines, kept, p, q) ==
  /\ p \in 1..Len(lines) /\ q \in 1..Len(lines) /\ p <= q
  /\ (p..q) \cap kept = {} /\ (p - 1) \in kept \cup {0} /\ (q + 1) \in kept \cup {Len(lines) + 1}

LEMMA RunsOf ==
  ASSUME NEW lines, IsOutput(lines), NEW kept, NEW run \in Runs(lines, kept)
  PROVE  \E p, q \in Nat : Between(lines, kept, p, q) /\ run = p..q
<1> DEFINE n == Len(lines)
<1>1. n \in Nat /\ DOMAIN lines = 1..n
  BY DEF IsOutput
<1>2. PICK t \in (1..n) \X (1..n) :
        /\ t[1] <= t[2] /\ (t[1]..t[2]) \cap kept = {}
        /\ (t[1] - 1) \in kept \cup {0} /\ (t[2] + 1) \in kept \cup {n + 1}
        /\ run = t[1]..t[2]
  BY <1>1 DEF Runs
<1>3. t[1] \in 1..n /\ t[2] \in 1..n /\ t[1] \in Nat /\ t[2] \in Nat
  OBVIOUS
<1>4. Between(lines, kept, t[1], t[2])
  BY <1>2, <1>3 DEF Between
<1> QED BY <1>2, <1>3, <1>4

LEMMA RunsApart ==
  ASSUME NEW lines, IsOutput(lines), NEW kept,
         NEW run \in Runs(lines, kept), NEW other \in Runs(lines, kept), run \cap other # {}
  PROVE  run = other
<1>1. PICK p \in Nat, q \in Nat : Between(lines, kept, p, q) /\ run = p..q
  BY RunsOf
<1>2. PICK a \in Nat, b \in Nat : Between(lines, kept, a, b) /\ other = a..b
  BY RunsOf
<1>3. PICK x : x \in p..q /\ x \in a..b
  BY <1>1, <1>2
<1>4. Len(lines) \in Nat
  BY DEF IsOutput
<1>5. p = a
  <2>1. CASE p < a
    <3>1. a - 1 \in p..q /\ a - 1 # 0
      BY <1>1, <1>3, <1>4, <2>1 DEF Between
    <3> QED BY <1>1, <1>2, <3>1 DEF Between
  <2>2. CASE a < p
    <3>1. p - 1 \in a..b /\ p - 1 # 0
      BY <1>2, <1>3, <1>4, <2>2 DEF Between
    <3> QED BY <1>1, <1>2, <3>1 DEF Between
  <2> QED BY <2>1, <2>2
<1>6. q = b
  <2>1. CASE q < b
    <3>1. q + 1 \in a..b /\ q + 1 # Len(lines) + 1
      BY <1>2, <1>3, <1>4, <2>1 DEF Between
    <3> QED BY <1>1, <1>2, <3>1 DEF Between
  <2>2. CASE b < q
    <3>1. b + 1 \in p..q /\ b + 1 # Len(lines) + 1
      BY <1>1, <1>3, <1>4, <2>2 DEF Between
    <3> QED BY <1>1, <1>2, <3>1 DEF Between
  <2> QED BY <2>1, <2>2
<1> QED BY <1>1, <1>2, <1>5, <1>6

(* Each omitted run is longer than its marker, and its marker says where it *)
(* is; so they can be taken one by one.                                     *)
LEMMA RunIs ==
  ASSUME NEW lines, IsOutput(lines), NEW kept, NEW run \in Omitted(lines, kept)
  PROVE  /\ run \in Runs(lines, kept) /\ run \subseteq 1..Len(lines) /\ run \cap kept = {} /\ run # {}
         /\ IsFiniteSet(run) /\ Mark(run).counts \in Nat /\ Cardinality(run) = Mark(run).counts
         /\ Mark(run).at..(Mark(run).at + Mark(run).counts - 1) = run
         /\ SumOf(SizesOf(lines), run) \in Nat /\ SumOf(SizesOf(lines), run) > MarkerSize
<1>1. run \in Runs(lines, kept) /\ Bytes(lines, run) > MarkerSize
  BY DEF Omitted
<1>2. PICK p \in Nat, q \in Nat : Between(lines, kept, p, q) /\ run = p..q
  BY <1>1, RunsOf
<1>3. run \subseteq 1..Len(lines) /\ run \cap kept = {} /\ p <= q
  BY <1>2 DEF Between, IsOutput
<1>4. run # {}
  BY <1>2, <1>3
<1>5. /\ IsFiniteSet(run) /\ Mark(run).counts \in Nat /\ Cardinality(run) = Mark(run).counts
      /\ Mark(run).at..(Mark(run).at + Mark(run).counts - 1) = run
  BY <1>2, <1>3, IntervalOf
<1>6. Bytes(lines, run) = SumOf(SizesOf(lines), run)
  BY <1>3, <1>5, BytesTold
<1>7. \A i \in run : SizesOf(lines)[i] \in Nat
  BY <1>3 DEF SizesOf, IsOutput
<1>8. SumOf(SizesOf(lines), run) \in Nat
  BY <1>5, <1>7, SumIsNat
<1> QED BY <1>1, <1>3, <1>4, <1>5, <1>6, <1>8

LEMMA MarksTell ==
  ASSUME NEW lines, IsOutput(lines), NEW kept
  PROVE  LET omitted == Omitted(lines, kept)
             marks == Marks(omitted)
         IN  /\ IsFiniteSet(marks) /\ IsFiniteSet(UNION omitted) /\ Cardinality(marks) \in Nat
             /\ Cardinality(UNION omitted) = SumOf(CountsOf(marks), marks)
             /\ SumOf(SizesOf(lines), UNION omitted) >= MarkerSize * Cardinality(marks)
<1> DEFINE omitted == Omitted(lines, kept)
           marks == Marks(omitted)
           f == CountsOf(marks)
           sizes == SizesOf(lines)
           Tells(T) == /\ IsFiniteSet(Marks(T)) /\ IsFiniteSet(UNION T) /\ Cardinality(Marks(T)) \in Nat
                       /\ Cardinality(UNION T) = SumOf(f, Marks(T))
                       /\ SumOf(sizes, UNION T) >= MarkerSize * Cardinality(Marks(T))
           Good == {n \in Nat : \A T \in SUBSET omitted : Cardinality(T) = n => Tells(T)}
<1>1. Len(lines) \in Nat /\ DOMAIN lines = 1..Len(lines) /\ MarkerSize \in Nat
  BY LogAssumption DEF IsOutput
<1>2. /\ \A run \in omitted :
           /\ run \in Runs(lines, kept) /\ run \subseteq 1..Len(lines) /\ run # {} /\ IsFiniteSet(run)
           /\ Mark(run).counts \in Nat /\ Cardinality(run) = Mark(run).counts
           /\ SumOf(sizes, run) \in Nat /\ SumOf(sizes, run) > MarkerSize
      /\ \A run, other \in omitted : Mark(run) = Mark(other) => run = other
  BY RunIs
<1>3. \A run, other \in omitted : run # other => run \cap other = {}
  BY <1>2, RunsApart
<1>4. IsFiniteSet(omitted)
  <2>1. IsFiniteSet(SUBSET (1..Len(lines)))
    <3>1. IsFiniteSet(1..Len(lines))
      BY <1>1, FS_Interval
    <3> QED BY <3>1, FS_SUBSET
  <2>2. omitted \in SUBSET (SUBSET (1..Len(lines)))
    BY <1>2
  <2> HIDE DEF omitted
  <2> QED BY <2>1, <2>2, FS_Subset
<1>5. /\ \A i \in 1..Len(lines) : sizes[i] \in Nat
      /\ \A run \in omitted : f[Mark(run)] = Mark(run).counts
  <2>1. \A run \in omitted : Mark(run) \in marks
    BY DEF Marks
  <2> HIDE DEF omitted, marks
  <2> QED BY <2>1 DEF SizesOf, CountsOf, IsOutput
<1> HIDE DEF omitted, marks, f, sizes
<1>6. 0 \in Good
  <2>1. SUFFICES ASSUME NEW T \in SUBSET omitted, Cardinality(T) = 0 PROVE Tells(T)
    OBVIOUS
  <2>2. T = {} /\ UNION T = {} /\ Marks(T) = {}
    <3>1. T = {}
      BY <1>4, <2>1, Smaller
    <3> QED BY <3>1 DEF Marks
  <2>3. IsFiniteSet({}) /\ Cardinality({}) = 0
    BY FS_EmptySet
  <2>4. SumOf(f, {}) = 0 /\ SumOf(sizes, {}) = 0
    BY SumNothing
  <2>5. MarkerSize * 0 = 0 /\ 0 >= 0 /\ 0 \in Nat
    BY <1>1
  <2>6. SumOf(sizes, UNION T) = 0 /\ SumOf(f, Marks(T)) = 0
    BY <2>2, <2>4
  <2>7. IsFiniteSet(Marks(T)) /\ IsFiniteSet(UNION T) /\ Cardinality(Marks(T)) = 0 /\ Cardinality(UNION T) = 0
    BY <2>2, <2>3
  <2> HIDE DEF Good
  <2> QED BY <2>5, <2>6, <2>7
<1>7. ASSUME NEW n \in Nat, n \in Good PROVE n + 1 \in Good
  <2>1. SUFFICES ASSUME NEW T \in SUBSET omitted, Cardinality(T) = n + 1 PROVE Tells(T)
    OBVIOUS
  <2>2. T # {}
    BY <1>4, <2>1, Smaller
  <2>3. PICK run : run \in T
    BY <2>2
  <2> DEFINE U == T \ {run}
             u == UNION U
             m == Mark(run)
  <2>4. U \in SUBSET omitted /\ Cardinality(U) = n
    BY <1>4, <2>1, <2>3, Smaller
  <2>5. Tells(U)
    BY <1>7, <2>4
  <2> HIDE DEF Good
  <2>6. run \in omitted /\ UNION T = u \cup run /\ u \cap run = {}
    BY <1>3, <2>1, <2>3
  <2>7. Marks(T) = Marks(U) \cup {m} /\ m \notin Marks(U)
    BY <1>2, <2>1, <2>3 DEF Marks
  <2>8. IsFiniteSet(u) /\ IsFiniteSet(run) /\ IsFiniteSet(Marks(U)) /\ Cardinality(Marks(U)) \in Nat
    BY <1>2, <2>5, <2>6
  <2> HIDE DEF U
  <2>9. \A x \in Marks(U) \cup {m} : f[x] \in Nat
    <3>1. ASSUME NEW x \in Marks(U) \cup {m} PROVE f[x] \in Nat
      <4>1. PICK other \in omitted : x = Mark(other)
        BY <2>4, <2>6 DEF Marks
      <4> QED BY <1>2, <1>5, <4>1
    <3> QED BY <3>1
  <2>10. u \cup run \subseteq 1..Len(lines)
    BY <1>2, <2>4, <2>6
  <2>11. \A i \in u \cup run : sizes[i] \in Nat
    BY <1>5, <2>10
  <2> HIDE DEF u, m
  <2>12. IsFiniteSet(Marks(T)) /\ Cardinality(Marks(T)) = Cardinality(Marks(U)) + 1
    BY <2>7, <2>8, FS_AddElement
  <2>13. SumOf(f, Marks(U)) \in Nat /\ SumOf(f, Marks(T)) = SumOf(f, Marks(U)) + f[m]
    BY <2>7, <2>8, <2>9, SumMore
  <2>14. IsFiniteSet(UNION T) /\ Cardinality(UNION T) = Cardinality(u) + Cardinality(run)
    <3>1. Cardinality(u \cap run) = 0
      BY <2>6, FS_EmptySet
    <3>2. Cardinality(u) \in Nat /\ Cardinality(run) \in Nat
      BY <2>8, FS_CardinalityType
    <3>3. /\ IsFiniteSet(u \cup run)
          /\ Cardinality(u \cup run) = Cardinality(u) + Cardinality(run) - Cardinality(u \cap run)
      BY <2>8, FS_Union
    <3>4. Cardinality(u \cup run) = Cardinality(u) + Cardinality(run)
      BY <3>1, <3>2, <3>3
    <3> QED BY <2>6, <3>3, <3>4
  <2>15. SumOf(sizes, UNION T) = SumOf(sizes, u) + SumOf(sizes, run) /\ SumOf(sizes, u) \in Nat
    <3>1. SumOf(sizes, u \cup run) = SumOf(sizes, u) + SumOf(sizes, run)
      BY <2>6, <2>8, <2>11, SumUnion
    <3>2. \A i \in u : sizes[i] \in Nat
      BY <2>11
    <3>3. SumOf(sizes, u) \in Nat
      BY <2>8, <3>2, SumIsNat
    <3> QED BY <2>6, <3>1, <3>3
  <2>16. Cardinality(u) = SumOf(f, Marks(U)) /\ SumOf(sizes, u) >= MarkerSize * Cardinality(Marks(U))
    BY <2>5 DEF u
  <2>17. f[m] = Cardinality(run)
    BY <1>2, <1>5, <2>6 DEF m
  <2>18. SumOf(sizes, run) \in Nat /\ SumOf(sizes, run) > MarkerSize
    BY <1>2, <2>6
  <2>19. SumOf(sizes, UNION T) >= MarkerSize * Cardinality(Marks(T))
    <3>1. \A c, s, r \in Nat : s >= MarkerSize * c /\ r > MarkerSize => s + r >= MarkerSize * (c + 1)
      <4>1. SUFFICES ASSUME NEW c \in Nat, NEW s \in Nat, NEW r \in Nat, s >= MarkerSize * c, r > MarkerSize
                     PROVE  s + r >= MarkerSize * (c + 1)
        OBVIOUS
      <4>2. MarkerSize * (c + 1) = MarkerSize * c + MarkerSize /\ MarkerSize * c \in Nat
        BY <1>1
      <4> QED BY <1>1, <4>1, <4>2
    <3> QED BY <2>8, <2>12, <2>15, <2>16, <2>18, <3>1
  <2>20. Cardinality(Marks(T)) \in Nat
    BY <2>8, <2>12
  <2>21. Cardinality(UNION T) = SumOf(f, Marks(T))
    BY <2>13, <2>14, <2>16, <2>17
  <2> QED BY <2>12, <2>14, <2>19, <2>20, <2>21
<1>8. Nat \subseteq Good
  <2> HIDE DEF Good
  <2> QED BY <1>6, <1>7, NatSetInduction
<1>9. Cardinality(omitted) \in Nat
  BY <1>4, FS_CardinalityType
<1>10. Tells(omitted)
  BY <1>8, <1>9
<1> QED BY <1>10 DEF omitted, marks, f, sizes

(* CompressLog shows everything but the runs between what is kept and its   *)
(* neighbours; of an output of one line it keeps all.                       *)
LEMMA Compressed ==
  ASSUME NEW lines, IsOutput(lines)
  PROVE  \E kept \in SUBSET (1..Len(lines)) :
           /\ WithContext(lines, KeptOf(lines)) \subseteq kept
           /\ Len(lines) < 2 => kept = 1..Len(lines)
           /\ CompressLog(lines) = [shown |-> (1..Len(lines)) \ UNION Omitted(lines, kept),
                                    markers |-> Marks(Omitted(lines, kept))]
<1> DEFINE n == Len(lines)
           near == WithContext(lines, KeptOf(lines))
           omitted == IF n < 2 THEN {} ELSE Omitted(lines, near)
           kept == IF n < 2 THEN 1..n ELSE near
<1>1. DOMAIN lines = 1..n /\ near \subseteq 1..n
  BY DEF IsOutput, WithContext
<1>2. CompressLog(lines) = [shown |-> (1..n) \ UNION omitted, markers |-> Marks(omitted)]
  BY <1>1 DEF CompressLog, KeptOf, KindsOf, Marks, Mark
<1> HIDE DEF near
<1>3. omitted = Omitted(lines, kept)
  <2>1. CASE n < 2
    <3>1. \A run \in Omitted(lines, 1..n) : run \subseteq 1..n /\ run \cap (1..n) = {} /\ run # {}
      BY RunIs
    <3>2. Omitted(lines, 1..n) = {}
      <4>1. SUFFICES ASSUME NEW run \in Omitted(lines, 1..n) PROVE FALSE
        OBVIOUS
      <4> QED BY <3>1
    <3> QED BY <2>1, <3>2
  <2>2. CASE ~(n < 2)
    BY <2>2
  <2> QED BY <2>1, <2>2
<1>4. near \subseteq kept /\ kept \in SUBSET (1..n) /\ (n < 2 => kept = 1..n)
  BY <1>1
<1> HIDE DEF omitted, kept
<1> QED BY <1>2, <1>3, <1>4 DEF near

LEMMA UptoIs ==
  ASSUME NEW n \in Nat PROVE IsFiniteSet(1..n) /\ Cardinality(1..n) = n
<1>1. IsFiniteSet(1..n) /\ Cardinality(1..n) = IF 1 > n THEN 0 ELSE n - 1 + 1
  BY FS_Interval
<1> QED BY <1>1

LEMMA OutputFaithful ==
  ASSUME IsOutput(output) PROVE Faithful(CompressLog(output))
<1> DEFINE n == Len(output)
<1>1. n \in Nat /\ DOMAIN output = 1..n
  BY DEF IsOutput
<1>2. PICK kept \in SUBSET (1..n) :
        /\ WithContext(output, KeptOf(output)) \subseteq kept
        /\ n < 2 => kept = 1..n
        /\ CompressLog(output) = [shown |-> (1..n) \ UNION Omitted(output, kept),
                                  markers |-> Marks(Omitted(output, kept))]
  BY Compressed
<1> DEFINE omitted == Omitted(output, kept)
           gone == UNION omitted
           shown == (1..n) \ gone
           marks == Marks(omitted)
           result == [shown |-> shown, markers |-> marks]
           sizes == SizesOf(output)
<1>3. result.shown = shown /\ result.markers = marks
  OBVIOUS
<1>4. \A run \in omitted : /\ run \subseteq 1..n /\ run \cap kept = {}
                           /\ Mark(run).at..(Mark(run).at + Mark(run).counts - 1) = run
  BY RunIs
<1>5. gone \subseteq 1..n /\ kept \subseteq shown /\ shown \subseteq 1..n
  BY <1>4
<1>6. /\ IsFiniteSet(marks) /\ IsFiniteSet(gone) /\ Cardinality(marks) \in Nat
      /\ Cardinality(gone) = SumOf(CountsOf(marks), marks)
      /\ SumOf(sizes, gone) >= MarkerSize * Cardinality(marks)
  BY MarksTell
<1>7. IsFiniteSet(1..n) /\ Cardinality(1..n) = n /\ IsFiniteSet(shown)
  <2>1. IsFiniteSet(1..n) /\ Cardinality(1..n) = n
    BY <1>1, UptoIs
  <2>2. shown \in SUBSET (1..n)
    BY <1>5
  <2> HIDE DEF n, shown
  <2> QED BY <2>1, <2>2, FS_Subset
<1>8. ASSUME NEW m \in marks PROVE (m.at..(m.at + m.counts - 1)) \cap shown = {}
  <2>1. PICK run \in omitted : m = Mark(run)
    BY DEF Marks
  <2>2. m.at..(m.at + m.counts - 1) = run
    BY <1>4, <2>1
  <2> QED BY <2>2
<1>9. /\ Must(output) \subseteq KeptOf(output) /\ KeptOf(output) \subseteq 1..n
      /\ Cardinality(CountedOf(output)) <= AdaptiveBudget(n) =>
           \A i \in 1..n : output[i].class = "warn" =>
             \E j \in KeptOf(output) : output[j].class = "warn" /\ output[j].key = output[i].key
  BY KeptTells
<1>10. /\ TellingOf(output) \subseteq Must(output)
       /\ \A first, last \in 1..n :
            first <= last /\ last < n /\ Traceback(output, first, last) => Ends(first, last) \subseteq Must(output)
  BY MustTells
<1> HIDE DEF omitted, gone, shown, marks, result, sizes
<1>11. KeptOf(output) \subseteq shown
  <2>1. ASSUME NEW i \in KeptOf(output) PROVE i \in WithContext(output, KeptOf(output))
    <3>1. i \in 1..n /\ i - i \in (-Radius)..Radius
      BY <1>1, <1>9, LogAssumption
    <3> QED BY <1>1, <2>1, <3>1 DEF WithContext
  <2> QED BY <1>2, <1>5, <2>1
<1>12. ResultBytes(output, result) <= Bytes(output, DOMAIN output)
  <2>1. \A i \in 1..n : sizes[i] \in Nat
    BY DEF sizes, SizesOf, IsOutput
  <2>2. SumOf(sizes, shown \cup gone) = SumOf(sizes, shown) + SumOf(sizes, gone)
    <3>1. shown \cap gone = {}
      BY DEF shown
    <3>2. \A i \in shown \cup gone : sizes[i] \in Nat
      BY <1>5, <2>1
    <3> QED BY <1>6, <1>7, <3>1, <3>2, SumUnion
  <2>3. shown \cup gone = 1..n
    BY <1>5 DEF shown
  <2>4. SumOf(sizes, shown) \in Nat /\ SumOf(sizes, gone) \in Nat
    BY <1>5, <1>6, <1>7, <2>1, SumIsNat
  <2>5. Bytes(output, 1..n) = SumOf(sizes, 1..n) /\ Bytes(output, shown) = SumOf(sizes, shown)
    BY <1>5, <1>7, BytesTold DEF sizes
  <2>6. ResultBytes(output, result) = SumOf(sizes, shown) + MarkerSize * Cardinality(marks)
    BY <1>3, <2>5 DEF ResultBytes
  <2>7. MarkerSize * Cardinality(marks) \in Nat
    BY <1>6, LogAssumption
  <2>8. Bytes(output, 1..n) = SumOf(sizes, shown) + SumOf(sizes, gone)
    BY <2>2, <2>3, <2>5
  <2> QED BY <1>1, <1>6, <2>4, <2>6, <2>7, <2>8
<1>13. Cardinality(result.shown) + MapThenSumSet(LAMBDA m : m.counts, result.markers) = Len(output)
  <2>1. MapThenSumSet(LAMBDA m : m.counts, marks) = SumOf(CountsOf(marks), marks)
    BY <1>6, CountsTold
  <2>2. Cardinality(shown) + Cardinality(gone) = n
    <3>1. Cardinality(gone) \in Nat
      BY <1>6, FS_CardinalityType
    <3>2. (1..n) \cap gone = gone
      BY <1>5
    <3>3. Cardinality(shown) = Cardinality(1..n) - Cardinality((1..n) \cap gone)
      BY <1>7, FS_Difference DEF shown
    <3>4. Cardinality(shown) = Cardinality(1..n) - Cardinality(gone)
      BY <3>2, <3>3
    <3> HIDE DEF n
    <3> QED BY <1>1, <1>7, <3>1, <3>4
  <2> HIDE DEF n
  <2>3. Cardinality(result.shown) + MapThenSumSet(LAMBDA m : m.counts, result.markers) = n
    BY <1>3, <1>6, <2>1, <2>2, Zenon
  <2> QED BY <2>3 DEF n
<1>14. WithContext(output, Telling) \subseteq shown
  <2>1. Telling \subseteq KeptOf(output)
    <3>1. Telling = TellingOf(output)
      BY DEF Telling, TellingOf
    <3> QED BY <1>9, <1>10, <3>1
  <2>2. WithContext(output, Telling) \subseteq WithContext(output, KeptOf(output))
    BY <2>1 DEF WithContext
  <2> QED BY <1>2, <1>5, <2>2
<1>15. ASSUME NEW first \in DOMAIN output, NEW last \in DOMAIN output, last + 1 \in DOMAIN output,
              Frames(first, last)
       PROVE  {i \in first..last : \/ last - first < MaxStack
                                   \/ i < first + MaxStack \div 2 \/ i > last - MaxStack \div 2} \subseteq shown
  <2>1. first \in 1..n /\ last \in 1..n /\ last < n
    BY <1>1, <1>15
  <2>2. CASE first <= last
    <3>1. Traceback(output, first, last)
      BY <1>15 DEF Frames, Traceback
    <3>2. Ends(first, last) \subseteq Must(output)
      BY <1>10, <2>1, <2>2, <3>1
    <3>3. Ends(first, last) \subseteq shown
      BY <1>9, <1>11, <3>2
    <3> QED BY <3>3 DEF Ends
  <2>3. CASE ~(first <= last)
    <3>1. first..last = {}
      BY <2>1, <2>3
    <3> QED BY <3>1
  <2> QED BY <2>2, <2>3
<1>16. Cardinality({i \in DOMAIN output : output[i].class # "other" \/ output[i].indented}) <= AdaptiveBudget(Len(output)) =>
         \A i \in DOMAIN output : output[i].class = "warn" =>
           \E j \in shown : output[j].class = "warn" /\ output[j].key = output[i].key
  BY <1>1, <1>9, <1>11 DEF CountedOf
<1>17. Faithful(result)
  BY <1>3, <1>8, <1>12, <1>13, <1>14, <1>15, <1>16, Zenon DEF Faithful
<1>18. CompressLog(output) = result
  BY <1>2 DEF result, shown, marks, gone, omitted
<1> QED BY <1>17, <1>18

(* What is taken for a log has a line that speaks for it.                   *)
LEMMA LogsSpeak ==
  ASSUME IsOutput(output), LooksLikeLog(output)
  PROVE  \E i \in DOMAIN output : LogSignal(output[i])
<1> SUFFICES ASSUME \A i \in DOMAIN output : ~LogSignal(output[i]) PROVE FALSE
  OBVIOUS
<1>1. Len(output) \in Nat /\ DOMAIN output = 1..Len(output) /\ SignalPercent \in Nat \ {0}
  BY LogAssumption DEF IsOutput
<1> DEFINE blanks == {i \in DOMAIN output : Blank(output[i])}
           speaking == Len(output) - Cardinality(blanks)
<1>2. /\ {i \in DOMAIN output : LogSignal(output[i])} = {}
      /\ {i \in DOMAIN output : ErrorLine(output[i])} = {}
      /\ {i \in DOMAIN output : FailLine(output[i])} = {}
  BY DEF LogSignal
<1>3. Cardinality({}) = 0
  BY FS_EmptySet
<1>4. /\ speaking > 0
      /\ \/ 100 * Cardinality({i \in DOMAIN output : LogSignal(output[i])}) >= SignalPercent * speaking
         \/ Cardinality({i \in DOMAIN output : ErrorLine(output[i])}) >= 2
         \/ Cardinality({i \in DOMAIN output : FailLine(output[i])}) >= 1
         \/ Cardinality({i \in DOMAIN output : ErrorLine(output[i])}) >= 3
  BY DEF LooksLikeLog
<1>5. speaking \in Int
  <2>1. IsFiniteSet(blanks)
    <3>1. IsFiniteSet(1..Len(output)) /\ blanks \in SUBSET (1..Len(output))
      BY <1>1, FS_Interval
    <3> QED BY <3>1, FS_Subset
  <2> QED BY <1>1, <2>1, FS_CardinalityType
<1> HIDE DEF speaking
<1>6. SignalPercent * speaking >= 1
  BY <1>1, <1>4, <1>5
<1>7. \/ 100 * 0 >= SignalPercent * speaking \/ 0 >= 2 \/ 0 >= 1 \/ 0 >= 3
  BY <1>2, <1>3, <1>4
<1> QED BY <1>1, <1>5, <1>6, <1>7

(* A tool's output is lines of its dialect.                                 *)
LogInv == kind = "log" => dialect \in Dialects /\ output \in Seq(dialect)

LEMMA InitLog == BodiesInit => LogInv
<1> SUFFICES ASSUME BodiesInit, kind = "log" PROVE dialect \in Dialects /\ output \in Seq(dialect)
  BY DEF LogInv
<1> QED BY DEF BodiesInit

LEMMA NextLog == LogInv /\ [BodiesNext]_bodiesVars => LogInv'
<1> SUFFICES ASSUME LogInv, [BodiesNext]_bodiesVars PROVE LogInv'
  OBVIOUS
<1>1. CASE UNCHANGED <<kind, dialect, output>>
  BY <1>1 DEF LogInv
<1>2. CASE LineWritten
  <2>1. dialect \in Dialects /\ output \in Seq(dialect)
    BY <1>2 DEF LineWritten, LogInv
  <2>2. PICK l \in dialect : output' = Append(output, l)
    BY <1>2 DEF LineWritten
  <2>3. output' \in Seq(dialect)
    BY <2>1, <2>2
  <2> QED BY <1>2, <2>1, <2>3 DEF LogInv, LineWritten
<1>3. UNCHANGED <<kind, dialect, output>> \/ LineWritten
  <2>1. CASE SystemSays
    BY <2>1 DEF SystemSays, Says
  <2>2. CASE UserSays
    BY <2>2 DEF UserSays, Says
  <2>3. CASE AssistantSays
    BY <2>3 DEF AssistantSays, Says
  <2>4. CASE AssistantCalls
    BY <2>4 DEF AssistantCalls, Says
  <2>5. CASE ToolReturns
    BY <2>5 DEF ToolReturns, Says
  <2>6. CASE FunctionReturns
    BY <2>6 DEF FunctionReturns, Says
  <2>7. CASE AnthropicUserSays
    BY <2>7 DEF AnthropicUserSays, Says
  <2>8. CASE AnthropicSystemSays
    BY <2>8 DEF AnthropicSystemSays, Says
  <2>9. CASE AnthropicAssistantSays
    BY <2>9 DEF AnthropicAssistantSays, Says
  <2>10. CASE AnthropicAssistantCalls
    BY <2>10 DEF AnthropicAssistantCalls, Says
  <2>11. CASE AnthropicResults
    BY <2>11 DEF AnthropicResults, Says
  <2>12. CASE AnswerGrows
    BY <2>12 DEF AnswerGrows
  <2>13. CASE AnswerEnds
    BY <2>13 DEF AnswerEnds
  <2>14. CASE UNCHANGED bodiesVars
    BY <2>14 DEF bodiesVars
  <2> QED BY <2>1, <2>2, <2>3, <2>4, <2>5, <2>6, <2>7, <2>8, <2>9, <2>10, <2>11, <2>12, <2>13, <2>14
          DEF BodiesNext
<1> QED BY <1>1, <1>2, <1>3

LEMMA LogInvFaithful == LogInv => LogFaithful
<1> SUFFICES ASSUME LogInv, kind = "log"
             PROVE  /\ Faithful(CompressLog(output))
                    /\ LooksLikeLog(output) => \E i \in DOMAIN output : LogSignal(output[i])
  BY DEF LogFaithful
<1>1. dialect \in Dialects /\ output \in Seq(dialect)
  BY DEF LogInv
<1>2. Len(output) \in Nat /\ DOMAIN output = 1..Len(output) /\ \A i \in 1..Len(output) : output[i] \in dialect
  BY <1>1
<1>3. IsOutput(output)
  BY <1>1, <1>2, DialectsAssumption DEF IsOutput
<1> QED BY <1>3, OutputFaithful, LogsSpeak

(* Whatever lines a tool writes and whatever the budgets, what replaces its *)
(* output is no longer than it, says what is missing and where, and shows   *)
(* every line that tells of a failure with its neighbours, the ends of each *)
(* traceback and, when there is room for them, the warnings.                *)
THEOREM LogsAreFaithful == BodiesSpec => []LogFaithful
<1>1. BodiesInit => LogInv
  BY InitLog
<1>2. LogInv /\ [BodiesNext]_bodiesVars => LogInv'
  BY NextLog
<1>3. LogInv => LogFaithful
  BY LogInvFaithful
<1> QED BY <1>1, <1>2, <1>3, PTL DEF BodiesSpec

-----------------------------------------------------------------------------
(* A request with options is one of those a client can send. *)
OptionsInv == kind = "options" => options \in Options

(* No step changes the options of a request. *)
LEMMA OptionsStay == BodiesSpec => []OptionsInv
<1>1. BodiesInit => OptionsInv
  BY DEF BodiesInit, OptionsInv, Options
<1>2. OptionsInv /\ [BodiesNext]_bodiesVars => OptionsInv'
  <2>1. ASSUME [BodiesNext]_bodiesVars PROVE UNCHANGED <<kind, options>>
    BY <2>1 DEF BodiesNext, bodiesVars, SystemSays, UserSays, AssistantSays, AssistantCalls, ToolReturns, FunctionReturns,
       AnthropicUserSays, AnthropicSystemSays, AnthropicAssistantSays, AnthropicAssistantCalls, AnthropicResults,
       AnswerGrows, AnswerEnds, LineWritten, Says, Free
  <2>. QED  BY <2>1 DEF OptionsInv
<1>. QED  BY <1>1, <1>2, PTL DEF BodiesSpec

(* A thinking budget is below the token limit that goes with it, and the    *)
(* limit a client set is never changed, for any budgets, limits, default    *)
(* and headroom.                                                            *)
THEOREM ThinkingAlwaysFits == BodiesSpec => []ThinkingFits
<1>1. OptionsInv => ThinkingFits
  <2>1. SUFFICES ASSUME options \in Options, ValidClaudeChat(Request, options.unsupported)
                 PROVE  LET r == Reasoning(Request, options.unsupported)
                        IN /\ r.budget # 0 => r.budget < r.limit
                           /\ options.limit # 0 => r.limit = options.limit
                           /\ options.effort \in Efforts /\ ~options.unsupported => r.budget = Budget[options.effort]
    BY DEF OptionsInv, ThinkingFits
  <2>2. Request.limit = options.limit /\ Request.effort = options.effort
    BY DEF Request
  <2>3. options.limit \in Nat /\ options.unsupported \in BOOLEAN
    BY <2>1, LimitsAssumption DEF Options
  <2>. DEFINE e == options.effort
              n == options.limit
              limit == IF n = 0 THEN DefaultLimit ELSE n
              budget == IF options.unsupported \/ ~Thinks(Request) THEN 0 ELSE BudgetFor(e)
              r == Reasoning(Request, options.unsupported)
  <2>4. /\ r.budget = budget
        /\ r.limit = IF budget # 0 /\ limit <= budget /\ n = 0 THEN budget + Headroom ELSE limit
    BY <2>2 DEF Reasoning
  <2>5. Thinks(Request) <=> e \notin {"", "none"}
    BY <2>2 DEF Thinks
  <2>6. \/ options.unsupported
        \/ ~Thinks(Request)
        \/ e \in Efforts /\ (n # 0 => n > Budget[e])
    BY <2>1, <2>2 DEF ValidClaudeChat
  <2>7. e \in Efforts => BudgetFor(e) = Budget[e] /\ Budget[e] \in Nat \ {0} /\ e \notin {"", "none"}
    BY BudgetAssumption DEF BudgetFor, Efforts
  <2>. HIDE DEF r, e, n
  <2>8. CASE options.unsupported \/ ~Thinks(Request)
    BY <2>3, <2>4, <2>5, <2>7, <2>8, BudgetAssumption DEF r, e, n
  <2>9. CASE ~ (options.unsupported \/ ~Thinks(Request))
    <3>1. budget = Budget[e] /\ budget \in Nat \ {0} /\ (n # 0 => n > budget)
      BY <2>6, <2>7, <2>9
    <3>2. limit \in Nat /\ Headroom \in Nat \ {0}
      BY <2>3, BudgetAssumption DEF n
    <3>. HIDE DEF budget
    <3>3. (r.budget # 0 => r.budget < r.limit) /\ (n # 0 => r.limit = n)
      BY <2>4, <3>1, <3>2
    <3>. QED  BY <2>4, <3>1, <3>3 DEF r, e, n
  <2>. QED  BY <2>8, <2>9
<1>. QED  BY <1>1, OptionsStay, PTL

(* A declaration with its mark set or cleared.                              *)
LEMMA MarkSet ==
  ASSUME NEW f, NEW v, NEW w, NEW t, t = [shape |-> "openai", name |-> f, marked |-> v],
         NEW u, u = [t EXCEPT !.marked = w]
  PROVE  t.shape = "openai" /\ t.name = f /\ u = [shape |-> "openai", name |-> f, marked |-> w]
OBVIOUS

DeclaredAs(f, v) == [shape |-> "openai", name |-> f, marked |-> v]
IsDeclared(x) == \E f \in Functions, v \in BOOLEAN : x = DeclaredAs(f, v)

LEMMA DeclaredEach ==
  ASSUME NEW f \in Functions
  PROVE  IsDeclared(Tool("openai", f)) /\ IsDeclared(MarkTool(Tool("openai", f)))
<1>1. PICK t : t = Tool("openai", f)
  OBVIOUS
<1>2. PICK u : u = [t EXCEPT !.marked = TRUE]
  OBVIOUS
<1>3. t = [shape |-> "openai", name |-> f, marked |-> FALSE]
  BY ONLY <1>1 DEF Tool
<1>4. u = [shape |-> "openai", name |-> f, marked |-> TRUE]
  BY ONLY <1>2, <1>3, MarkSet
<1>5. t = DeclaredAs(f, FALSE) /\ u = DeclaredAs(f, TRUE)
  BY ONLY <1>3, <1>4 DEF DeclaredAs
<1>6. IsDeclared(t) /\ IsDeclared(u)
  BY ONLY f \in Functions, <1>5 DEF IsDeclared
<1>. QED  BY ONLY <1>1, <1>2, <1>6 DEF MarkTool

LEMMA DeclaredTools ==
  ASSUME NEW tools \in Declared, tools # Null
  PROVE  \A k \in DOMAIN tools.parts : IsDeclared(tools.parts[k])
<1>1. \A s : Parts(s).parts = s
  BY DEF Parts
<1>2. CASE tools = Parts(<<>>)
  <2>1. tools.parts = <<>> /\ DOMAIN <<>> = {}
    BY <1>1, <1>2
  <2>. QED  BY <2>1
<1>3. ASSUME NEW x, IsDeclared(x), tools = Parts(<<x>>)
      PROVE  \A k \in DOMAIN tools.parts : IsDeclared(tools.parts[k])
  <2>1. PICK s : s = <<x>>
    OBVIOUS
  <2>2. \A k \in DOMAIN s : s[k] = x
    BY <2>1
  <2>3. tools.parts = s
    BY <1>1, <1>3, <2>1
  <2>. QED  BY ONLY <1>3, <2>2, <2>3
<1>4. ASSUME NEW x, NEW y, IsDeclared(x), IsDeclared(y), tools = Parts(<<x, y>>)
      PROVE  \A k \in DOMAIN tools.parts : IsDeclared(tools.parts[k])
  <2>1. PICK s : s = <<x, y>>
    OBVIOUS
  <2>2. \A k \in DOMAIN s : s[k] = x \/ s[k] = y
    BY <2>1
  <2>3. tools.parts = s
    BY <1>1, <1>4, <2>1
  <2>. QED  BY ONLY <1>4, <2>2, <2>3
<1>5. \/ tools = Parts(<<>>)
      \/ \E f \in Functions : tools = Parts(<<Tool("openai", f)>>)
      \/ \E f \in Functions, g \in Functions : tools = Parts(<<Tool("openai", f), Tool("openai", g)>>)
      \/ \E f \in Functions : tools = Parts(<<MarkTool(Tool("openai", f)), Tool("openai", f)>>)
  BY ONLY tools \in Declared, tools # Null DEF Declared
<1>6. ASSUME NEW f \in Functions, tools = Parts(<<Tool("openai", f)>>)
      PROVE  \A k \in DOMAIN tools.parts : IsDeclared(tools.parts[k])
  <2>1. PICK x : x = Tool("openai", f)
    OBVIOUS
  <2>. QED  BY <1>3, <1>6, <2>1, DeclaredEach
<1>7. ASSUME NEW f \in Functions, NEW g \in Functions, tools = Parts(<<Tool("openai", f), Tool("openai", g)>>)
      PROVE  \A k \in DOMAIN tools.parts : IsDeclared(tools.parts[k])
  <2>1. IsDeclared(Tool("openai", f)) /\ IsDeclared(Tool("openai", g))
    BY DeclaredEach
  <2>. QED  BY ONLY <1>4, <1>7, <2>1
<1>8. ASSUME NEW f \in Functions,
             tools = Parts(<<MarkTool(Tool("openai", f)), Tool("openai", f)>>)
      PROVE  \A k \in DOMAIN tools.parts : IsDeclared(tools.parts[k])
  <2>1. PICK x, y : x = MarkTool(Tool("openai", f)) /\ y = Tool("openai", f)
    OBVIOUS
  <2>2. IsDeclared(x) /\ IsDeclared(y)
    BY ONLY f \in Functions, <2>1, DeclaredEach
  <2>3. tools = Parts(<<x, y>>)
    BY ONLY <1>8, <2>1
  <2>. QED  BY ONLY <1>4, <2>2, <2>3
<1>. QED  BY ONLY <1>2, <1>5, <1>6, <1>7, <1>8

(* The declarations of tools survive, each on its own and without its mark. *)
LEMMA DeclarationsSurvive ==
  ASSUME NEW tools \in Declared, tools # Null
  PROVE  LET there == Parts(ConvertToolDeclarations(tools.parts))
         IN  /\ Parts(ConvertToolDeclarationsToOpenAI(there.parts)) = WithoutMarks(tools)
             /\ there # Null
<1>. DEFINE one == tools.parts
            two == ConvertToolDeclarations(one)
            three == ConvertToolDeclarationsToOpenAI(two)
            bare == Apply(LAMBDA t : [t EXCEPT !.marked = FALSE], one)
<1>1. \A k \in DOMAIN one : IsDeclared(one[k])
  BY ONLY tools \in Declared, tools # Null, DeclaredTools
<1>2. bare = [k \in DOMAIN one |-> [one[k] EXCEPT !.marked = FALSE]]
  BY DEF Apply
<1>3. two = [k \in DOMAIN one |-> IF one[k].shape = "openai" /\ one[k].name # ""
                                  THEN Tool("anthropic", one[k].name) ELSE one[k]]
  BY DEF ConvertToolDeclarations, Apply
<1>4. three = [k \in DOMAIN two |-> IF two[k].shape = "anthropic" /\ two[k].name # ""
                                    THEN Tool("openai", two[k].name) ELSE two[k]]
  BY DEF ConvertToolDeclarationsToOpenAI, Apply
<1>. HIDE DEF one, two, three, bare
<1>5. DOMAIN two = DOMAIN one
  BY <1>3
<1>6. \A k \in DOMAIN one : (IF two[k].shape = "anthropic" /\ two[k].name # ""
                             THEN Tool("openai", two[k].name) ELSE two[k]) = [one[k] EXCEPT !.marked = FALSE]
  <2>1. SUFFICES ASSUME NEW k \in DOMAIN one
                 PROVE  (IF two[k].shape = "anthropic" /\ two[k].name # ""
                         THEN Tool("openai", two[k].name) ELSE two[k]) = [one[k] EXCEPT !.marked = FALSE]
    OBVIOUS
  <2>2. PICK f \in Functions, v \in BOOLEAN : one[k] = DeclaredAs(f, v)
    BY <1>1 DEF IsDeclared
  <2>3. f # "" /\ \A x : Tool(x, f).shape = x /\ Tool(x, f).name = f
    BY FunctionsAssumption DEF Tool
  <2>4. PICK t : t = one[k]
    OBVIOUS
  <2>5. PICK u : u = [t EXCEPT !.marked = FALSE]
    OBVIOUS
  <2>6. t.shape = "openai" /\ t.name = f /\ u = Tool("openai", f)
    <3>1. t = [shape |-> "openai", name |-> f, marked |-> v]
      BY ONLY <2>2, <2>4 DEF DeclaredAs
    <3>2. t.shape = "openai" /\ t.name = f /\ u = [shape |-> "openai", name |-> f, marked |-> FALSE]
      BY ONLY <2>5, <3>1, MarkSet
    <3>. QED  BY ONLY <3>2 DEF Tool
  <2>7. two[k] = Tool("anthropic", f)
    BY ONLY <1>3, k \in DOMAIN one, <2>3, <2>4, <2>6
  <2>8. (IF two[k].shape = "anthropic" /\ two[k].name # "" THEN Tool("openai", two[k].name) ELSE two[k]) = u
    BY ONLY <2>3, <2>6, <2>7
  <2>. QED  BY ONLY <2>4, <2>5, <2>8
<1>7. three = bare
  BY <1>2, <1>4, <1>5, <1>6
<1>8. Parts(two).parts = two /\ Parts(two) # Null
  BY DEF Parts, Null
<1>9. WithoutMarks(tools) = Parts(bare)
  BY DEF WithoutMarks, bare, one
<1>. QED  BY <1>7, <1>8, <1>9 DEF one, two, three

(* The shapes of tool choices. *)
LEMMA ChoiceShapes ==
  /\ NoChoice.type = "absent"
  /\ \A t : Choice(t).type = t
  /\ \A t, n : Named(t, n).type = t /\ Named(t, n).name = n
BY DEF NoChoice, Choice, Named

(* A choice among tools is the same after the way there and back. *)
LEMMA ChoiceReturns ==
  ASSUME NEW choice \in ToolChoices, choice.type # "none", NEW serial, serial \in BOOLEAN
  PROVE  LET there == ConvertToolChoice(choice, serial)
             back == ConvertToolChoiceToOpenAI(there)
         IN  /\ back = IF choice = NoChoice /\ serial THEN Choice("auto") ELSE choice
             /\ (back # NoChoice /\ there.disabled) <=> serial
<1>. DEFINE there == ConvertToolChoice(choice, serial)
            back == ConvertToolChoiceToOpenAI(there)
<1>1. \/ choice = NoChoice
      \/ choice = Choice("auto")
      \/ choice = Choice("required")
      \/ \E f \in Functions : choice = Named("function", f) /\ f # ""
  BY ChoiceShapes, FunctionsAssumption DEF ToolChoices
<1>2. CASE choice = NoChoice
  <2>1. choice.type = "absent"
    BY <1>2, ChoiceShapes
  <2>2. there = IF serial THEN BuildToolChoice("auto", "", TRUE) ELSE NoChoice
    BY <2>1 DEF ConvertToolChoice
  <2>. HIDE DEF there
  <2>3. CASE serial
    <3>1. there.type = "auto" /\ there.disabled = TRUE
      BY <2>2, <2>3 DEF BuildToolChoice
    <3>2. back = Choice("auto") /\ Choice("auto") # NoChoice
      BY <3>1, ChoiceShapes DEF ConvertToolChoiceToOpenAI
    <3>. QED  BY <1>2, <2>1, <2>3, <3>1, <3>2 DEF there
  <2>4. CASE ~serial
    <3>1. back = NoChoice
      BY <2>2, <2>4, ChoiceShapes DEF ConvertToolChoiceToOpenAI
    <3>. QED  BY <1>2, <2>1, <2>4, <3>1 DEF there
  <2>. QED  BY <2>3, <2>4
<1>3. CASE choice = Choice("auto")
  <2>1. choice.type = "auto"
    BY <1>3, ChoiceShapes
  <2>2. there = BuildToolChoice("auto", "", serial)
    BY <2>1 DEF ConvertToolChoice
  <2>. HIDE DEF there
  <2>3. there.type = "auto" /\ there.disabled = serial
    BY ONLY <2>2 DEF BuildToolChoice
  <2>4. back = choice /\ choice # NoChoice
    BY <1>3, <2>1, <2>3, ChoiceShapes DEF ConvertToolChoiceToOpenAI
  <2>. QED  BY <2>1, <2>3, <2>4 DEF there
<1>4. CASE choice = Choice("required")
  <2>1. choice.type = "required"
    BY <1>4, ChoiceShapes
  <2>2. there = BuildToolChoice("any", "", serial)
    BY <2>1 DEF ConvertToolChoice
  <2>. HIDE DEF there
  <2>3. there.type = "any" /\ there.disabled = serial
    BY ONLY <2>2 DEF BuildToolChoice
  <2>4. back = choice /\ choice # NoChoice
    BY <1>4, <2>1, <2>3, ChoiceShapes DEF ConvertToolChoiceToOpenAI
  <2>. QED  BY <2>1, <2>3, <2>4 DEF there
<1>5. ASSUME NEW f \in Functions, choice = Named("function", f), f # ""
      PROVE  /\ back = choice /\ choice # NoChoice
             /\ there.disabled = serial
  <2>0. choice = Named("function", f)
    BY <1>5
  <2>1. choice.type = "function" /\ choice.name = f
    BY ONLY <2>0, ChoiceShapes
  <2>2. there = BuildToolChoice("tool", f, serial)
    BY <1>5, <2>1 DEF ConvertToolChoice
  <2>. HIDE DEF there
  <2>3. there.type = "tool" /\ there.disabled = serial /\ there.name = f
    BY ONLY <2>2 DEF BuildToolChoice
  <2>4. back = choice /\ choice # NoChoice
    BY <1>5, <2>1, <2>3, ChoiceShapes DEF ConvertToolChoiceToOpenAI
  <2>. QED  BY <2>3, <2>4
<1>. HIDE DEF there, back
<1>6. ASSUME NEW f \in Functions, choice = Named("function", f), f # ""
      PROVE  /\ back = IF choice = NoChoice /\ serial THEN Choice("auto") ELSE choice
             /\ (back # NoChoice /\ there.disabled) <=> serial
  BY <1>5, <1>6
<1>. QED  BY <1>1, <1>2, <1>3, <1>4, <1>6 DEF there, back

(* Responses and Gemini are told the choice itself.                         *)
LEMMA ChoiceTold ==
  ASSUME NEW choice \in ToolChoices
  PROVE  ResponsesToolChoice(choice) = choice /\ ReadGemini(GeminiToolChoice(choice)) = choice
<1>1. \/ choice = NoChoice
      \/ choice = Choice("auto")
      \/ choice = Choice("none")
      \/ choice = Choice("required")
      \/ \E f \in Functions : choice = Named("function", f) /\ f # ""
  BY FunctionsAssumption DEF ToolChoices
<1>2. \A t, n, s : Named(t, n) # Choice(s)
  <2>1. ASSUME NEW t, NEW n, NEW s, Named(t, n) = Choice(s) PROVE FALSE
    <3>1. DOMAIN Named(t, n) = {"type", "name"} /\ DOMAIN Choice(s) = {"type"}
      BY DEF Named, Choice
    <3> QED BY <2>1, <3>1
  <2> QED BY <2>1
<1>3. \A s, t : Choice(s) = Choice(t) => s = t
  BY ChoiceShapes
<1>4. \A s : NoChoice = Choice(s) => s = "absent"
  BY ChoiceShapes
<1>5. CASE choice = NoChoice
  <2>1. choice.type = "absent"
    BY <1>5, ChoiceShapes
  <2>2. GeminiToolChoice(choice) = choice /\ ResponsesToolChoice(choice) = choice
    BY ONLY <1>5, <2>1 DEF GeminiToolChoice, ResponsesToolChoice
  <2>3. choice # Choice("AUTO") /\ choice # Choice("NONE") /\ choice # Choice("ANY")
    BY <1>4, <1>5
  <2>4. ReadGemini(choice) = choice
    BY ONLY <2>1, <2>3 DEF ReadGemini
  <2> QED BY <2>2, <2>4
<1>6. CASE choice = Choice("auto")
  <2>1. choice.type = "auto"
    BY <1>6, ChoiceShapes
  <2>2. PICK g : g = Choice("AUTO")
    OBVIOUS
  <2>3. g.type = "AUTO" /\ g # Choice("NONE") /\ g # Choice("ANY")
    BY <1>3, <2>2, ChoiceShapes
  <2>4. GeminiToolChoice(choice) = g /\ ResponsesToolChoice(choice) = choice
    BY ONLY <2>1, <2>2 DEF GeminiToolChoice, ResponsesToolChoice
  <2>5. ReadGemini(g) = Choice("auto")
    BY ONLY <2>2, <2>3 DEF ReadGemini
  <2> QED BY <1>6, <2>4, <2>5
<1>7. CASE choice = Choice("none")
  <2>1. choice.type = "none"
    BY <1>7, ChoiceShapes
  <2>2. PICK g : g = Choice("NONE")
    OBVIOUS
  <2>3. g.type = "NONE" /\ g # Choice("AUTO") /\ g # Choice("ANY")
    BY <1>3, <2>2, ChoiceShapes
  <2>4. GeminiToolChoice(choice) = g /\ ResponsesToolChoice(choice) = choice
    BY ONLY <2>1, <2>2 DEF GeminiToolChoice, ResponsesToolChoice
  <2>5. ReadGemini(g) = Choice("none")
    BY ONLY <2>2, <2>3 DEF ReadGemini
  <2> QED BY <1>7, <2>4, <2>5
<1>8. CASE choice = Choice("required")
  <2>1. choice.type = "required"
    BY <1>8, ChoiceShapes
  <2>2. PICK g : g = Choice("ANY")
    OBVIOUS
  <2>3. g.type = "ANY" /\ g # Choice("AUTO") /\ g # Choice("NONE")
    BY <1>3, <2>2, ChoiceShapes
  <2>4. GeminiToolChoice(choice) = g /\ ResponsesToolChoice(choice) = choice
    BY ONLY <2>1, <2>2 DEF GeminiToolChoice, ResponsesToolChoice
  <2>5. ReadGemini(g) = Choice("required")
    BY ONLY <2>2, <2>3 DEF ReadGemini
  <2> QED BY <1>8, <2>4, <2>5
<1>9. ASSUME NEW f, choice = Named("function", f), f # ""
      PROVE  ResponsesToolChoice(choice) = choice /\ ReadGemini(GeminiToolChoice(choice)) = choice
  <2>1. choice.type = "function" /\ choice.name = f
    BY ONLY <1>9, ChoiceShapes
  <2>2. PICK g : g = Named("ANY", f)
    OBVIOUS
  <2>3. g.type = "ANY" /\ g.name = f /\ g # Choice("AUTO") /\ g # Choice("NONE") /\ g # Choice("ANY")
    BY <1>2, <2>2, ChoiceShapes
  <2>4. GeminiToolChoice(choice) = g
    BY ONLY <1>9, <2>1, <2>2 DEF GeminiToolChoice
  <2>5. ResponsesToolChoice(choice) = choice
    BY ONLY <1>9, <2>1 DEF ResponsesToolChoice
  <2>6. ReadGemini(g) = Named("function", f)
    BY ONLY <2>3 DEF ReadGemini
  <2> QED BY <1>9, <2>4, <2>5, <2>6
<1> QED BY <1>1, <1>5, <1>6, <1>7, <1>8, <1>9

(* The declared tools and the choice among them survive the way into the    *)
(* Anthropic protocol and back, and Responses and Gemini are told the same  *)
(* choice, "none" included, or Gemini refuses, for any functions.  A mark on *)
(* a declaration does not survive.                                          *)
THEOREM ChoiceAlwaysSurvives == BodiesSpec => []ChoiceSurvives
<1>1. OptionsInv => ChoiceSurvives
  <2>. DEFINE there == ConvertOpenAIToolsToAnthropic(options.tools, options.choice, options.parallel)
              back == ConvertAnthropicToolsToOpenAI(there.tools, there.choice)
              serial == options.parallel = "false"
  <2>1. SUFFICES ASSUME kind = "options", options \in Options, options.tools # Null
                 PROVE  /\ IF options.choice.type = "none" THEN PartsOf(there.tools) = <<>> /\ there.choice = NoChoice
                           ELSE /\ back.tools = WithoutMarks(options.tools)
                                /\ back.choice = IF options.choice = NoChoice /\ serial THEN Choice("auto") ELSE options.choice
                                /\ back.parallel = "false" <=> serial
                        /\ ToResponses.choice = options.choice
                        /\ ~ToGemini.refused => ~serial /\ ReadGemini(ToGemini.choice) = options.choice
    BY DEF OptionsInv, ChoiceSurvives
  <2>2. /\ ToChat = Request /\ Request.choice = options.choice /\ Request.parallel = options.parallel
        /\ Request.tools = options.tools
    BY <2>1 DEF ToChat, Request
  <2>3. ToResponses.choice = ResponsesToolChoice(options.choice)
    BY <2>2 DEF ToResponses, ChatToResponsesBody
  <2>4. /\ ToGemini.choice = GeminiToolChoice(options.choice)
        /\ serial => ToGemini.refused
    BY <2>1, <2>2 DEF ToGemini, OpenAIToGeminiBody
  <2>5. options.choice.type = "none" => PartsOf(there.tools) = <<>> /\ there.choice = NoChoice
    BY DEF ConvertOpenAIToolsToAnthropic, PartsOf, Null
  <2>6. ASSUME options.choice.type # "none"
        PROVE  /\ there.tools = Parts(ConvertToolDeclarations(options.tools.parts))
               /\ there.choice = ConvertToolChoice(options.choice, serial)
    BY <2>1, <2>6 DEF ConvertOpenAIToolsToAnthropic
  <2>7. options.tools \in Declared /\ options.choice \in ToolChoices
    BY <2>1 DEF Options
  <2>. HIDE DEF there
  <2>8. ASSUME options.choice.type # "none"
        PROVE  /\ back.tools = WithoutMarks(options.tools)
               /\ back.choice = ConvertToolChoiceToOpenAI(there.choice)
               /\ back.parallel = IF back.choice # NoChoice /\ there.choice.disabled THEN "false" ELSE "absent"
    BY <2>1, <2>6, <2>7, <2>8, DeclarationsSurvive DEF ConvertAnthropicToolsToOpenAI
  <2>. HIDE DEF back
  <2>9. ASSUME options.choice.type # "none"
        PROVE  /\ back.choice = IF options.choice = NoChoice /\ serial THEN Choice("auto") ELSE options.choice
               /\ back.parallel = "false" <=> serial
    <3>1. serial \in BOOLEAN
      OBVIOUS
    <3>. HIDE DEF serial
    <3>2. LET went == ConvertToolChoice(options.choice, serial)
              came == ConvertToolChoiceToOpenAI(went)
          IN  /\ came = IF options.choice = NoChoice /\ serial THEN Choice("auto") ELSE options.choice
              /\ (came # NoChoice /\ went.disabled) <=> serial
      BY <2>7, <2>9, <3>1, ChoiceReturns
    <3>. QED  BY <2>6, <2>8, <2>9, <3>2
  <2>10. ResponsesToolChoice(options.choice) = options.choice /\ ReadGemini(GeminiToolChoice(options.choice)) = options.choice
    BY <2>7, ChoiceTold
  <2>. HIDE DEF serial
  <2>. QED  BY <2>3, <2>4, <2>5, <2>8, <2>9, <2>10
<1>. QED  BY <1>1, OptionsStay, PTL

-----------------------------------------------------------------------------
(* The answers.                                                             *)
Answers == [items : Seq([type : {"text", "thinking", "call"}, n : Nat]),
            ended : {"open", "done", "cut", "filtered", "failed"}]
AnswerInv == answer \in Answers

LEMMA AnswersStay == BodiesSpec => []AnswerInv
<1>1. BodiesInit => AnswerInv
  <2>1. <<>> \in Seq([type : {"text", "thinking", "call"}, n : Nat])
    OBVIOUS
  <2> QED BY <2>1 DEF BodiesInit, AnswerInv, Answers
<1>2. AnswerInv /\ [BodiesNext]_bodiesVars => AnswerInv'
  <2> SUFFICES ASSUME AnswerInv, [BodiesNext]_bodiesVars PROVE AnswerInv'
    OBVIOUS
  <2>1. CASE AnswerGrows
    <3>1. PICK type \in {"text", "thinking", "call"} :
            answer' = [answer EXCEPT !.items = Append(@, [type |-> type, n |-> Len(@) + 1])]
      BY <2>1 DEF AnswerGrows
    <3>2. [type |-> type, n |-> Len(answer.items) + 1] \in [type : {"text", "thinking", "call"}, n : Nat]
      BY DEF AnswerInv, Answers
    <3>3. Append(answer.items, [type |-> type, n |-> Len(answer.items) + 1])
            \in Seq([type : {"text", "thinking", "call"}, n : Nat])
      BY <3>2 DEF AnswerInv, Answers
    <3> QED BY <3>1, <3>3 DEF AnswerInv, Answers
  <2>2. CASE AnswerEnds
    BY <2>2 DEF AnswerEnds, AnswerInv, Answers
  <2>3. CASE UNCHANGED answer
    BY <2>3 DEF AnswerInv
  <2>4. ASSUME BodiesNext, ~AnswerGrows, ~AnswerEnds PROVE UNCHANGED answer
    BY <2>4, Zenon DEF BodiesNext, SystemSays, UserSays, AssistantSays, AssistantCalls, ToolReturns, FunctionReturns,
       AnthropicUserSays, AnthropicSystemSays, AnthropicAssistantSays, AnthropicAssistantCalls, AnthropicResults,
       LineWritten, Says
  <2> QED BY <2>1, <2>2, <2>3, <2>4 DEF bodiesVars
<1> QED BY <1>1, <1>2, PTL DEF BodiesSpec

(* The calls a converter makes of the parts of some types.                  *)
CallsAmong(s, types) == Apply(LAMBDA u : Call(u.id, u.name), OfType(s, types))

LEMMA CallsOfType ==
  ASSUME NEW s, IsSequence(s), NEW types
  PROVE  CallsAmong(s, types)
           = FlattenSeq([k \in 1..Len(s) |-> IF s[k].type \in types THEN <<Call(s[k].id, s[k].name)>> ELSE <<>>])
<1> DEFINE S == OfTypes(s, types)
           f == [p \in Range(s) |-> Call(p.id, p.name)]
<1>1. \A k \in 1..Len(s) : s[k] \in S <=> s[k].type \in types
  BY InRange DEF OfTypes
<1>2. \A k \in 1..Len(s) : f[s[k]] = Call(s[k].id, s[k].name)
  BY InRange
<1>3. OfType(s, types) = Pick(s, S) /\ IsSequence(Pick(s, S))
  BY OfTypeIsPick
<1>4. \A k \in DOMAIN Pick(s, S) : Pick(s, S)[k] \in Range(s)
  BY PickedFrom, <1>3, SequenceFacts
<1>5. CallsAmong(s, types) = Map(f, Pick(s, S))
  BY <1>3, <1>4 DEF CallsAmong, Apply, Map
<1> HIDE DEF f, S
<1>6. Map(f, Pick(s, S)) = FlattenSeq([k \in 1..Len(s) |-> IF s[k] \in S THEN <<f[s[k]]>> ELSE <<>>])
  <2> DEFINE L(g) == Map(g, Pick(s, S))
             R(g) == FlattenSeq([k \in 1..Len(s) |-> IF s[k] \in S THEN <<g[s[k]]>> ELSE <<>>])
  <2>1. \A g : L(g) = R(g)
    BY ONLY PickFacts, IsSequence(s)
  <2> HIDE DEF L, R
  <2>2. L(f) = R(f)
    BY ONLY <2>1
  <2> QED BY ONLY <2>2 DEF L, R
<1>7. [k \in 1..Len(s) |-> IF s[k] \in S THEN <<f[s[k]]>> ELSE <<>>]
        = [k \in 1..Len(s) |-> IF s[k].type \in types THEN <<Call(s[k].id, s[k].name)>> ELSE <<>>]
  BY <1>1, <1>2
<1> QED BY <1>5, <1>6, <1>7

(* What an answer says and calls, item by item.                             *)
AnyFunction == CHOOSE f \in Functions : TRUE
TextAmong(s) == FlattenSeq([k \in 1..Len(s) |-> IF s[k].type = "text" THEN <<s[k].n>> ELSE <<>>])
CallsIn(s) ==
  FlattenSeq([k \in 1..Len(s) |-> IF s[k].type = "call" THEN <<Call(CallIds[s[k].n], AnyFunction)>> ELSE <<>>])

LEMMA ItemsOfAnswer ==
  ASSUME AnswerInv
  PROVE  /\ IsSequence(answer.items)
         /\ \A k \in 1..Len(answer.items) : answer.items[k].type \in {"text", "thinking", "call"}
         /\ answer.ended \in {"open", "done", "cut", "filtered", "failed"}
<1>1. answer.items \in Seq([type : {"text", "thinking", "call"}, n : Nat])
  BY DEF AnswerInv, Answers
<1>2. IsSequence(answer.items)
      /\ \A k \in 1..Len(answer.items) : answer.items[k] \in [type : {"text", "thinking", "call"}, n : Nat]
  BY <1>1, TypedSequence
<1> QED BY <1>2 DEF AnswerInv, Answers

LEMMA SaidAndMadeIn ==
  ASSUME NEW s, IsSequence(s)
  PROVE  /\ Apply(LAMBDA i : i.n, OfType(s, {"text"})) = TextAmong(s)
         /\ Apply(LAMBDA i : Call(CallIds[i.n], AnyFunction), OfType(s, {"call"})) = CallsIn(s)
         /\ IsSequence(TextAmong(s)) /\ IsSequence(CallsIn(s))
         /\ CallsIn(s) = <<>> <=> \A k \in 1..Len(s) : s[k].type # "call"
<1> DEFINE f == [p \in Range(s) |-> p.n]
           g == [p \in Range(s) |-> Call(CallIds[p.n], AnyFunction)]
           texts == OfType(s, {"text"})
           calls == OfType(s, {"call"})
<1>1. /\ \A k \in DOMAIN texts : texts[k] \in Range(s)
      /\ \A k \in DOMAIN calls : calls[k] \in Range(s)
  BY ImagesOfType
<1>2. /\ IsSequence(texts) /\ IsSequence(calls)
      /\ calls = <<>> <=> \A k \in 1..Len(s) : s[k].type \notin {"call"}
  BY OfTypeIsPick
<1>3. Apply(LAMBDA i : i.n, texts) = Map(f, texts)
  <2> HIDE DEF texts
  <2> QED BY <1>1 DEF Apply, Map
<1>4. Apply(LAMBDA i : Call(CallIds[i.n], AnyFunction), calls) = Map(g, calls)
  <2> HIDE DEF calls
  <2> QED BY <1>1 DEF Apply, Map
<1>5. \A k \in 1..Len(s) : f[s[k]] = s[k].n /\ g[s[k]] = Call(CallIds[s[k].n], AnyFunction)
  BY InRange
<1> HIDE DEF f, g
<1>6. Map(f, texts) = TextAmong(s)
  <2>1. Map(f, texts) = FlattenSeq([k \in 1..Len(s) |-> IF s[k].type \in {"text"} THEN <<f[s[k]]>> ELSE <<>>])
    BY ImagesOfType
  <2>2. [k \in 1..Len(s) |-> IF s[k].type \in {"text"} THEN <<f[s[k]]>> ELSE <<>>]
          = [k \in 1..Len(s) |-> IF s[k].type = "text" THEN <<s[k].n>> ELSE <<>>]
    BY <1>5
  <2> QED BY <2>1, <2>2 DEF TextAmong
<1>7. Map(g, calls) = CallsIn(s)
  <2>1. Map(g, calls) = FlattenSeq([k \in 1..Len(s) |-> IF s[k].type \in {"call"} THEN <<g[s[k]]>> ELSE <<>>])
    BY ImagesOfType
  <2>2. [k \in 1..Len(s) |-> IF s[k].type \in {"call"} THEN <<g[s[k]]>> ELSE <<>>]
          = [k \in 1..Len(s) |-> IF s[k].type = "call" THEN <<Call(CallIds[s[k].n], AnyFunction)>> ELSE <<>>]
    BY <1>5
  <2> QED BY <2>1, <2>2 DEF CallsIn
<1>8. /\ IsSequence(Map(f, texts)) /\ IsSequence(Map(g, calls))
      /\ Map(g, calls) = <<>> <=> calls = <<>>
  <2> HIDE DEF texts, calls
  <2> QED BY <1>2, MapSequence
<1> QED BY <1>2, <1>3, <1>4, <1>6, <1>7, <1>8

LEMMA SaidAndMade ==
  ASSUME AnswerInv
  PROVE  /\ TextSaid = TextAmong(answer.items) /\ IsSequence(TextSaid)
         /\ CallsMade = CallsIn(answer.items) /\ IsSequence(CallsMade)
         /\ CallsMade = <<>> <=> \A k \in 1..Len(answer.items) : answer.items[k].type # "call"
<1>1. Spoke("text") = OfType(answer.items, {"text"}) /\ Spoke("call") = OfType(answer.items, {"call"})
  BY DEF Spoke, OfType, Select
<1>2. /\ TextSaid = Apply(LAMBDA i : i.n, OfType(answer.items, {"text"}))
      /\ CallsMade = Apply(LAMBDA i : Call(CallIds[i.n], AnyFunction), OfType(answer.items, {"call"}))
  BY <1>1 DEF TextSaid, CallsMade, AnyFunction, Apply
<1> QED BY <1>2, ItemsOfAnswer, SaidAndMadeIn

(* An answer put another way, item by item, has its calls and texts.        *)
LEMMA CallsConveyed ==
  ASSUME AnswerInv, NEW c, IsSequence(c), Len(c) = Len(answer.items), NEW types,
         \A k \in 1..Len(answer.items) :
           /\ c[k].type \in types <=> answer.items[k].type = "call"
           /\ answer.items[k].type = "call" => Call(c[k].id, c[k].name) = Call(CallIds[answer.items[k].n], AnyFunction)
  PROVE  /\ CallsAmong(c, types) = CallsMade
         /\ OfType(c, types) = <<>> <=> CallsMade = <<>>
<1> DEFINE s == answer.items
<1>1. CallsAmong(c, types)
        = FlattenSeq([k \in 1..Len(c) |-> IF c[k].type \in types THEN <<Call(c[k].id, c[k].name)>> ELSE <<>>])
  BY CallsOfType
<1>2. [k \in 1..Len(c) |-> IF c[k].type \in types THEN <<Call(c[k].id, c[k].name)>> ELSE <<>>]
        = [k \in 1..Len(s) |-> IF s[k].type = "call" THEN <<Call(CallIds[s[k].n], AnyFunction)>> ELSE <<>>]
  OBVIOUS
<1>3. CallsAmong(c, types) = CallsMade
  BY <1>1, <1>2, SaidAndMade DEF CallsIn
<1>4. OfType(c, types) = <<>> <=> \A k \in 1..Len(c) : c[k].type \notin types
  BY OfTypeIsPick
<1> QED BY <1>3, <1>4, SaidAndMade

LEMMA TextIs ==
  ASSUME AnswerInv, NEW tt,
         tt = [k \in 1..Len(answer.items) |-> IF answer.items[k].type = "text" THEN <<answer.items[k].n>> ELSE <<>>]
  PROVE  FlattenSeq(tt) = TextSaid
BY SaidAndMade DEF TextAmong

LEMMA AppliedTo ==
  ASSUME NEW s, IsSequence(s), NEW c, c = [k \in DOMAIN s |-> c[k]]
  PROVE  IsSequence(c) /\ Len(c) = Len(s) /\ DOMAIN s = 1..Len(s)
<1>1. Len(s) \in Nat /\ DOMAIN s = 1..Len(s)
  BY SequenceFacts
<1>2. DOMAIN c = 1..Len(s) /\ c = [k \in 1..Len(s) |-> c[k]]
  BY <1>1
<1> QED BY <1>1, <1>2, FunctionSequence

(* The answer as Bedrock puts it.                                           *)
LEMMA ByBedrock ==
  ASSUME AnswerInv, answer.ended \in {"done", "cut", "failed"}
  PROVE  ToldBy(FromBedrock)
<1> DEFINE s == answer.items
           c == Apply(AsBlock, s)
           stop == IF answer.ended = "cut" THEN "max_tokens" ELSE IF CallsMade # <<>> THEN "tool_use" ELSE "end_turn"
<1>1. IsSequence(s) /\ \A k \in 1..Len(s) : s[k].type \in {"text", "thinking", "call"}
  BY ItemsOfAnswer
<1>2. /\ IsSequence(c) /\ Len(c) = Len(s)
      /\ \A k \in 1..Len(s) : c[k] = AsBlock(s[k])
  <2>1. c = [k \in DOMAIN s |-> c[k]] /\ \A k \in DOMAIN s : c[k] = AsBlock(s[k])
    BY DEF Apply
  <2> HIDE DEF c, s
  <2> QED BY <1>1, <2>1, AppliedTo
<1> HIDE DEF c
<1>3. ASSUME NEW k \in 1..Len(s)
      PROVE  /\ c[k].type = "text" <=> s[k].type = "text"
             /\ c[k].type = "tool_use" <=> s[k].type = "call"
             /\ s[k].type = "text" => c[k].text = <<s[k].n>>
             /\ s[k].type = "call" => Call(c[k].id, c[k].name) = Call(CallIds[s[k].n], AnyFunction)
  <2> HIDE DEF s
  <2>1. c[k] = AsBlock(s[k]) /\ s[k].type \in {"text", "thinking", "call"}
    BY <1>1, <1>2
  <2>2. CASE s[k].type = "text"
    BY <2>1, <2>2 DEF AsBlock, Text
  <2>3. CASE s[k].type = "thinking"
    BY <2>1, <2>3 DEF AsBlock, Thinking
  <2>4. CASE s[k].type = "call"
    <3>1. c[k] = ToolUse(CallIds[s[k].n], AnyFunction)
      BY <2>1, <2>4 DEF AsBlock, AnyFunction
    <3> QED BY <2>4, <3>1 DEF ToolUse, Call
  <2> QED BY <2>1, <2>2, <2>3, <2>4
<1>4. Joined(c) = TextSaid
  <2>1. ASSUME NEW k \in 1..Len(c), c[k].type = "text" PROVE IsSequence(c[k].text)
    <3>1. c[k].text = <<s[k].n>>
      BY ONLY <1>2, <1>3, <2>1
    <3> QED BY ONLY <3>1, OneSequence
  <2>2. Joined(c) = FlattenSeq([k \in 1..Len(c) |-> IF c[k].type = "text" THEN c[k].text ELSE <<>>])
    BY <1>2, <2>1, JoinedIs
  <2>3. [k \in 1..Len(c) |-> IF c[k].type = "text" THEN c[k].text ELSE <<>>]
          = [k \in 1..Len(s) |-> IF s[k].type = "text" THEN <<s[k].n>> ELSE <<>>]
    BY <1>2, <1>3
  <2> QED BY <2>2, <2>3, TextIs
<1>5. /\ CallsAmong(c, {"tool_use"}) = CallsMade
      /\ OfType(c, {"tool_use"}) = <<>> <=> CallsMade = <<>>
  BY <1>2, <1>3, CallsConveyed
<1>6. FromBedrock = BedrockToOpenAI([error |-> Failed, id |-> "msg", content |-> c, stop |-> stop])
  BY DEF FromBedrock, c
<1>7. CASE Failed
  BY <1>6, <1>7 DEF ToldBy, BedrockToOpenAI
<1>8. CASE ~Failed
  <2>1. /\ FromBedrock.error = FALSE
        /\ FromBedrock.finish = CASE stop = "max_tokens" -> "length"
                                  [] stop = "tool_use" -> "tool_calls"
                                  [] OTHER -> IF OfType(c, {"tool_use"}) # <<>> THEN "tool_calls" ELSE "stop"
        /\ FromBedrock.content = IF Joined(c) = <<>> /\ OfType(c, {"tool_use"}) # <<>> THEN Null ELSE Str(Joined(c))
        /\ FromBedrock.calls = CallsAmong(c, {"tool_use"})
    BY <1>6, <1>8 DEF BedrockToOpenAI, CallsAmong
  <2>2. TextOf(FromBedrock.content) = TextSaid
    BY <1>4, <2>1 DEF TextOf, Null, Str
  <2>3. FromBedrock.finish = FinishTold
    BY <1>5, <1>8, <2>1 DEF FinishTold, Failed
  <2> QED BY <1>5, <1>8, <2>1, <2>2, <2>3 DEF ToldBy, Failed
<1> QED BY <1>7, <1>8

(* The answer as the Responses API puts it.                                 *)
LEMMA ByResponses ==
  ASSUME AnswerInv, answer.ended # "open"
  PROVE  ToldBy(FromResponses)
<1> DEFINE s == answer.items
           c == Apply(AsItem, s)
           status == CASE answer.ended = "done" -> "completed" [] Failed -> "failed" [] OTHER -> "incomplete"
           reason == IF answer.ended = "filtered" THEN "content_filter" ELSE "max_output_tokens"
           text == FlattenSeq(Apply(LAMBDA i : TextOf(i.content), OfType(c, {"message"})))
           calls == Apply(LAMBDA i : Call(i.id, i.name), OfType(c, {"function_call"}))
<1>1. IsSequence(s) /\ \A k \in 1..Len(s) : s[k].type \in {"text", "thinking", "call"}
  BY ItemsOfAnswer
<1>2. /\ IsSequence(c) /\ Len(c) = Len(s)
      /\ \A k \in 1..Len(s) : c[k] = AsItem(s[k])
  <2>1. c = [k \in DOMAIN s |-> c[k]] /\ \A k \in DOMAIN s : c[k] = AsItem(s[k])
    BY DEF Apply
  <2> HIDE DEF c, s
  <2> QED BY <1>1, <2>1, AppliedTo
<1> HIDE DEF c
<1>3. ASSUME NEW k \in 1..Len(s)
      PROVE  /\ c[k].type = "message" <=> s[k].type = "text"
             /\ c[k].type = "function_call" <=> s[k].type = "call"
             /\ s[k].type = "text" => TextOf(c[k].content) = <<s[k].n>>
             /\ s[k].type = "call" => Call(c[k].id, c[k].name) = Call(CallIds[s[k].n], AnyFunction)
  <2> HIDE DEF s
  <2>1. c[k] = AsItem(s[k]) /\ s[k].type \in {"text", "thinking", "call"}
    BY <1>1, <1>2
  <2>2. CASE s[k].type = "text"
    <3>1. c[k] = Said("assistant", Str(<<s[k].n>>))
      BY <2>1, <2>2 DEF AsItem
    <3>2. c[k].type = "message" /\ c[k].content = Str(<<s[k].n>>)
      BY <3>1 DEF Said
    <3> QED BY <2>2, <3>2 DEF TextOf, Str
  <2>3. CASE s[k].type = "thinking"
    BY <2>1, <2>3 DEF AsItem
  <2>4. CASE s[k].type = "call"
    <3>1. c[k] = FunctionCall(CallIds[s[k].n], AnyFunction)
      BY <2>1, <2>4 DEF AsItem, AnyFunction
    <3> QED BY <2>4, <3>1 DEF FunctionCall, Call
  <2> QED BY <2>1, <2>2, <2>3, <2>4
<1>4. text = TextSaid
  <2> DEFINE f == [p \in Range(c) |-> TextOf(p.content)]
             said == OfType(c, {"message"})
  <2>1. \A k \in 1..Len(c) : f[c[k]] = TextOf(c[k].content)
    BY <1>2, InRange
  <2>2. \A k \in DOMAIN said : said[k] \in Range(c)
    BY <1>2, ImagesOfType
  <2>3. Apply(LAMBDA i : TextOf(i.content), said) = Map(f, said)
    <3> HIDE DEF said
    <3> QED BY <2>2 DEF Apply, Map
  <2> HIDE DEF f
  <2>4. \A k \in 1..Len(c) : c[k].type \in {"message"} => IsSequence(f[c[k]])
    BY <1>2, <1>3, <2>1, OneSequence
  <2>5. FlattenSeq(Map(f, said)) = FlattenSeq([k \in 1..Len(c) |-> IF c[k].type \in {"message"} THEN f[c[k]] ELSE <<>>])
    BY <1>2, <2>4, FlatImagesOfType
  <2>6. [k \in 1..Len(c) |-> IF c[k].type \in {"message"} THEN f[c[k]] ELSE <<>>]
          = [k \in 1..Len(s) |-> IF s[k].type = "text" THEN <<s[k].n>> ELSE <<>>]
    BY <1>2, <1>3, <2>1
  <2> QED BY <2>3, <2>5, <2>6, TextIs
<1>5. calls = CallsMade
  <2>1. CallsAmong(c, {"function_call"}) = CallsMade
    BY <1>2, <1>3, CallsConveyed
  <2> QED BY <2>1 DEF CallsAmong
<1>6. FromResponses = ResponsesToChatCompletion([error |-> FALSE, output |-> c, status |-> status, reason |-> reason])
  BY DEF FromResponses, c
<1>7. answer.ended \in {"done", "cut", "filtered", "failed"}
  BY ItemsOfAnswer
<1>8. CASE Failed
  <2>1. status = "failed"
    BY <1>8 DEF Failed
  <2> HIDE DEF status
  <2> QED BY <1>6, <1>8, <2>1 DEF ToldBy, ResponsesToChatCompletion
<1>9. CASE ~Failed
  <2>1. /\ status \in {"completed", "incomplete"}
        /\ status = "incomplete" <=> answer.ended # "done"
    BY <1>7, <1>9 DEF Failed
  <2> HIDE DEF status
  <2>2. /\ FromResponses.error = FALSE
        /\ FromResponses.finish = IF status = "incomplete"
                                  THEN IF reason = "content_filter" THEN "content_filter" ELSE "length"
                                  ELSE IF calls # <<>> THEN "tool_calls" ELSE "stop"
        /\ FromResponses.content = IF text = <<>> /\ calls # <<>> THEN Null ELSE Str(text)
        /\ FromResponses.calls = calls
    BY <1>6, <2>1 DEF ResponsesToChatCompletion
  <2> HIDE DEF text, calls
  <2>3. TextOf(FromResponses.content) = TextSaid
    BY <1>4, <2>2 DEF TextOf, Null, Str
  <2>4. FromResponses.finish = FinishTold
    BY <1>5, <1>7, <1>9, <2>1, <2>2 DEF FinishTold, Failed
  <2> QED BY <1>5, <1>9, <2>2, <2>3, <2>4 DEF ToldBy, Failed
<1> QED BY <1>8, <1>9

(* The answer as Gemini puts it.                                            *)
LEMMA ByGemini ==
  ASSUME AnswerInv, answer.ended # "open"
  PROVE  ToldBy(FromGemini)
<1> DEFINE s == answer.items
           c == Apply(AsPart, s)
           reason == CASE answer.ended = "cut" -> "MAX_TOKENS" [] answer.ended = "filtered" -> "SAFETY" [] OTHER -> "STOP"
           text == FlattenSeq(Apply(LAMBDA p : p.text, Select(c, LAMBDA p : p.type = "text" /\ ~p.thought)))
           calls == OfType(c, {"functionCall"})
<1>1. IsSequence(s) /\ \A k \in 1..Len(s) : s[k].type \in {"text", "thinking", "call"}
  BY ItemsOfAnswer
<1>2. /\ IsSequence(c) /\ Len(c) = Len(s) /\ DOMAIN c = 1..Len(c)
      /\ \A k \in 1..Len(s) : c[k] = AsPart(s[k])
  <2>1. c = [k \in DOMAIN s |-> c[k]] /\ \A k \in DOMAIN s : c[k] = AsPart(s[k])
    BY DEF Apply
  <2> HIDE DEF c, s
  <2> QED BY <1>1, <2>1, AppliedTo, SequenceFacts
<1> HIDE DEF c
<1>3. ASSUME NEW k \in 1..Len(s)
      PROVE  /\ (c[k].type = "text" /\ ~c[k].thought) <=> s[k].type = "text"
             /\ c[k].type = "functionCall" <=> s[k].type = "call"
             /\ s[k].type = "text" => c[k].text = <<s[k].n>>
             /\ s[k].type = "call" => Call(c[k].id, c[k].name) = Call(CallIds[s[k].n], AnyFunction)
  <2> HIDE DEF s
  <2>1. c[k] = AsPart(s[k]) /\ s[k].type \in {"text", "thinking", "call"}
    BY <1>1, <1>2
  <2>2. CASE s[k].type = "text"
    BY <2>1, <2>2 DEF AsPart, GeminiText
  <2>3. CASE s[k].type = "thinking"
    BY <2>1, <2>3 DEF AsPart, GeminiText
  <2>4. CASE s[k].type = "call"
    <3>1. c[k] = GeminiCall(CallIds[s[k].n], AnyFunction)
      BY <2>1, <2>4 DEF AsPart, AnyFunction
    <3> QED BY <2>4, <3>1 DEF GeminiCall, Call
  <2> QED BY <2>1, <2>2, <2>3, <2>4
<1>4. text = TextSaid
  <2> DEFINE S == {p \in Range(c) : p.type = "text" /\ ~p.thought}
             f == [p \in Range(c) |-> p.text]
  <2>1. \A k \in 1..Len(c) : /\ f[c[k]] = c[k].text
                             /\ c[k] \in S <=> (c[k].type = "text" /\ ~c[k].thought)
    BY <1>2, InRange
  <2>2. Select(c, LAMBDA p : p.type = "text" /\ ~p.thought) = Pick(c, S)
    <3>1. Select(c, LAMBDA p : p.type = "text" /\ ~p.thought)
            = FlattenSeq([k \in 1..Len(c) |-> IF c[k].type = "text" /\ ~c[k].thought THEN <<c[k]>> ELSE <<>>])
      BY <1>2 DEF Select
    <3>2. [k \in 1..Len(c) |-> IF c[k].type = "text" /\ ~c[k].thought THEN <<c[k]>> ELSE <<>>]
            = [k \in 1..Len(c) |-> IF c[k] \in S THEN <<c[k]>> ELSE <<>>]
      BY <2>1
    <3> QED BY <3>1, <3>2 DEF Pick
  <2>3. \A k \in DOMAIN Pick(c, S) : Pick(c, S)[k] \in Range(c)
    BY <1>2, PickFacts, PickedFrom, SequenceFacts
  <2> HIDE DEF S
  <2>4. text = FlattenSeq(Map(f, Pick(c, S)))
    BY <2>2, <2>3 DEF Apply, Map
  <2> HIDE DEF f
  <2>5. \A k \in 1..Len(c) : c[k] \in S => IsSequence(f[c[k]])
    <3>1. \A k \in 1..Len(c) : c[k] \in S => f[c[k]] = <<s[k].n>>
      BY <1>2, <1>3, <2>1
    <3> QED BY <3>1, OneSequence
  <2>6. FlattenSeq(Map(f, Pick(c, S))) = FlattenSeq([k \in 1..Len(c) |-> IF c[k] \in S THEN f[c[k]] ELSE <<>>])
    BY <1>2, <2>5, FlatPick
  <2>7. [k \in 1..Len(c) |-> IF c[k] \in S THEN f[c[k]] ELSE <<>>]
          = [k \in 1..Len(s) |-> IF s[k].type = "text" THEN <<s[k].n>> ELSE <<>>]
    BY <1>2, <1>3, <2>1
  <2> QED BY <2>4, <2>6, <2>7, TextIs
<1>5. /\ Apply(LAMBDA u : Call(u.id, u.name), calls) = CallsMade
      /\ calls = <<>> <=> CallsMade = <<>>
  <2>1. CallsAmong(c, {"functionCall"}) = CallsMade /\ (calls = <<>> <=> CallsMade = <<>>)
    BY <1>2, <1>3, CallsConveyed
  <2> QED BY <2>1 DEF CallsAmong
<1>6. FromGemini = GeminiToOpenAIResponse([error |-> Failed, candidates |-> <<[parts |-> c, reason |-> reason]>>])[1]
  BY DEF FromGemini, c
<1>7. answer.ended \in {"done", "cut", "filtered", "failed"}
  BY ItemsOfAnswer
<1>8. CASE Failed
  BY <1>6, <1>8 DEF ToldBy, GeminiToOpenAIResponse
<1>9. CASE ~Failed
  <2>1. FromGemini = GeminiChoice([parts |-> c, reason |-> reason])
    BY <1>6, <1>9 DEF GeminiToOpenAIResponse, Apply
  <2>2. /\ FromGemini.error = FALSE
        /\ FromGemini.finish = GeminiFinishReason(reason, calls # <<>>)
        /\ FromGemini.content = IF text = <<>> /\ calls # <<>> THEN Null ELSE Str(text)
        /\ FromGemini.calls = Apply(LAMBDA u : Call(u.id, u.name), calls)
    BY <2>1 DEF GeminiChoice
  <2> HIDE DEF text, calls
  <2>3. TextOf(FromGemini.content) = TextSaid
    BY <1>4, <2>2 DEF TextOf, Null, Str
  <2>4. FromGemini.finish = FinishTold
    <3>1. CASE answer.ended = "cut"
      BY <2>2, <3>1 DEF FinishTold, GeminiFinishReason
    <3>2. CASE answer.ended = "filtered"
      BY <2>2, <3>2 DEF FinishTold, GeminiFinishReason
    <3>3. CASE answer.ended = "done"
      BY <1>5, <2>2, <3>3 DEF FinishTold, GeminiFinishReason
    <3> QED BY <1>7, <1>9, <3>1, <3>2, <3>3 DEF Failed
  <2> QED BY <1>5, <1>9, <2>2, <2>3, <2>4 DEF ToldBy, Failed
<1> QED BY <1>8, <1>9

LEMMA CallsAreCalls ==
  ASSUME NEW s, IsSequence(s)
  PROVE  \A k \in 1..Len(CallsIn(s)) : Call(CallsIn(s)[k].id, CallsIn(s)[k].name) = CallsIn(s)[k]
<1> DEFINE calls == OfType(s, {"call"})
<1>1. Len(calls) \in Nat /\ DOMAIN calls = 1..Len(calls)
  BY OfTypeIsPick, SequenceFacts
<1>2. CallsIn(s) = [k \in DOMAIN calls |-> Call(CallIds[calls[k].n], AnyFunction)]
  BY SaidAndMadeIn DEF Apply
<1> HIDE DEF calls
<1>3. DOMAIN CallsIn(s) = 1..Len(calls) /\ CallsIn(s) = [k \in 1..Len(calls) |-> CallsIn(s)[k]]
  BY <1>1, <1>2
<1>4. Len(CallsIn(s)) = Len(calls)
  BY <1>1, <1>3, FunctionSequence
<1> QED BY <1>1, <1>2, <1>4 DEF Call

SaidPart(text) == IF text # <<>> THEN <<Text(text)>> ELSE <<>>

(* A text, if there is one, and then the calls: what is joined is the text, *)
(* and the calls are the calls.                                             *)
LEMMA SaidThenUses ==
  ASSUME NEW uses, NEW text, NEW calls,
         IsSequence(uses), IsSequence(text), IsSequence(calls), Len(uses) = Len(calls),
         \A k \in 1..Len(uses) : uses[k].type = "tool_use" /\ Call(uses[k].id, uses[k].name) = calls[k]
  PROVE  /\ Joined(SaidPart(text) \o uses) = text
         /\ CallsAmong(SaidPart(text) \o uses, {"tool_use"}) = calls
<1> SUFFICES ASSUME NEW said, NEW c, said = SaidPart(text), c = said \o uses
             PROVE  Joined(c) = text /\ CallsAmong(c, {"tool_use"}) = calls
  OBVIOUS
<1>0. /\ IsSequence(said)
      /\ \A k \in 1..Len(said) : said[k].type = "text" /\ said[k].text = text
      /\ FlattenSeq([k \in 1..Len(said) |-> text]) = text
  <2>1. CASE text # <<>>
    <3>1. said = <<Text(text)>>
      BY <2>1 DEF SaidPart
    <3>2. \A k \in 1..1 : k = 1
      OBVIOUS
    <3>3. [k \in 1..1 |-> text] = <<text>>
      OBVIOUS
    <3>4. Text(text).type = "text" /\ Text(text).text = text
      BY DEF Text
    <3> QED BY <3>1, <3>2, <3>3, <3>4, OneSequence, FlattenOne
  <2>2. CASE text = <<>>
    <3>1. said = <<>>
      BY <2>2 DEF SaidPart
    <3>2. \A k \in 1..0 : FALSE
      OBVIOUS
    <3>3. [k \in 1..0 |-> text] = <<>>
      OBVIOUS
    <3> QED BY <2>2, <3>1, <3>2, <3>3, EmptySequence, FlattenNone
  <2> QED BY <2>1, <2>2
<1>1. /\ IsSequence(c) /\ Len(c) = Len(said) + Len(uses) /\ Len(said) \in Nat /\ Len(uses) \in Nat
  <2>1. IsSequence(said) /\ IsSequence(uses)
    BY <1>0
  <2>2. Len(said) \in Nat /\ Len(uses) \in Nat
    BY <2>1, SequenceFacts
  <2>3. IsSequence(said \o uses) /\ Len(said \o uses) = Len(said) + Len(uses)
    BY ONLY <2>1, ConcatSequences
  <2> QED BY <2>2, <2>3
<1>2. ASSUME NEW k \in 1..Len(c)
      PROVE  \/ k \in 1..Len(said) /\ c[k] = said[k]
             \/ k \notin 1..Len(said) /\ k - Len(said) \in 1..Len(uses) /\ c[k] = uses[k - Len(said)]
  BY <1>0, ConcatPlaces
<1> DEFINE a == [k \in 1..Len(said) |-> text]
           b == [k \in 1..Len(uses) |-> <<>>]
           d == [k \in 1..Len(said) |-> <<>>]
           e == [k \in 1..Len(uses) |-> <<calls[k]>>]
<1>3. /\ OfSequences(a) /\ Len(a) = Len(said) /\ OfSequences(b) /\ Len(b) = Len(uses)
      /\ OfSequences(d) /\ Len(d) = Len(said) /\ OfSequences(e) /\ Len(e) = Len(uses)
  <2>1. /\ IsSequence(a) /\ Len(a) = Len(said) /\ IsSequence(b) /\ Len(b) = Len(uses)
        /\ IsSequence(d) /\ Len(d) = Len(said) /\ IsSequence(e) /\ Len(e) = Len(uses)
    <3>1. /\ DOMAIN a = 1..Len(said) /\ a = [k \in 1..Len(said) |-> a[k]]
          /\ DOMAIN b = 1..Len(uses) /\ b = [k \in 1..Len(uses) |-> b[k]]
          /\ DOMAIN d = 1..Len(said) /\ d = [k \in 1..Len(said) |-> d[k]]
          /\ DOMAIN e = 1..Len(uses) /\ e = [k \in 1..Len(uses) |-> e[k]]
      OBVIOUS
    <3> HIDE DEF a, b, d, e
    <3>2. IsSequence(a) /\ Len(a) = Len(said) /\ IsSequence(d) /\ Len(d) = Len(said)
      BY <1>1, <3>1, FunctionSequence
    <3>3. IsSequence(b) /\ Len(b) = Len(uses) /\ IsSequence(e) /\ Len(e) = Len(uses)
      BY <1>1, <3>1, FunctionSequence
    <3> QED BY <3>2, <3>3
  <2>2. /\ \A k \in 1..Len(said) : a[k] = text /\ d[k] = <<>>
        /\ \A k \in 1..Len(uses) : b[k] = <<>> /\ e[k] = <<calls[k]>>
    OBVIOUS
  <2> HIDE DEF a, b, d, e
  <2>3. /\ \A k \in 1..Len(said) : IsSequence(a[k]) /\ IsSequence(d[k])
        /\ \A k \in 1..Len(uses) : IsSequence(b[k]) /\ IsSequence(e[k])
    BY <2>2, OneSequence, EmptySequence
  <2> QED BY <2>1, <2>3 DEF OfSequences
<1>4. FlattenSeq(b) = <<>> /\ FlattenSeq(d) = <<>> /\ FlattenSeq(a) = text /\ FlattenSeq(e) = calls
  <2>0. FlattenSeq(a) = text
    BY <1>0
  <2>1. FlattenSeq(e) = calls
    BY FlattenSingles
  <2>2. (\A k \in 1..Len(b) : b[k] = <<>>) /\ \A k \in 1..Len(d) : d[k] = <<>>
    BY <1>3
  <2> HIDE DEF b, d
  <2> QED BY <1>3, <2>0, <2>1, <2>2, FlattenEmpties
<1>5. [k \in 1..Len(c) |-> IF c[k].type = "text" THEN c[k].text ELSE <<>>] = a \o b
  <2> DEFINE l == [k \in 1..Len(c) |-> IF c[k].type = "text" THEN c[k].text ELSE <<>>]
  <2>1. IsSequence(l) /\ Len(l) = Len(c)
    BY <1>1, SequenceFacts, FunctionSequence
  <2>2. IsSequence(a) /\ IsSequence(b) /\ IsSequence(a \o b) /\ Len(a \o b) = Len(c)
    BY <1>1, <1>3, ConcatSequences DEF OfSequences
  <2>3. ASSUME NEW k \in 1..Len(c) PROVE l[k] = (a \o b)[k]
    <3>1. \/ k \in 1..Len(a) /\ (a \o b)[k] = a[k]
          \/ k \notin 1..Len(a) /\ k - Len(a) \in 1..Len(b) /\ (a \o b)[k] = b[k - Len(a)]
      BY <2>2, ConcatPlaces
    <3>2. CASE k \in 1..Len(said)
      BY <1>0, <1>2, <1>3, <3>1, <3>2
    <3>3. CASE k \notin 1..Len(said)
      <4>1. k - Len(said) \in 1..Len(uses) /\ c[k] = uses[k - Len(said)]
        BY <1>2, <3>3
      <4>2. l[k] = <<>>
        BY <4>1
      <4>3. b[k - Len(said)] = <<>>
        BY <4>1
      <4> HIDE DEF l, a, b
      <4> QED BY <1>3, <3>1, <3>3, <4>2, <4>3
    <3> QED BY <3>2, <3>3
  <2> HIDE DEF l, a, b
  <2>4. l = a \o b
    BY <2>1, <2>2, <2>3, SameSequence
  <2> QED BY <2>4 DEF l
<1>6. [k \in 1..Len(c) |-> IF c[k].type \in {"tool_use"} THEN <<Call(c[k].id, c[k].name)>> ELSE <<>>] = d \o e
  <2> DEFINE l == [k \in 1..Len(c) |-> IF c[k].type \in {"tool_use"} THEN <<Call(c[k].id, c[k].name)>> ELSE <<>>]
  <2>1. IsSequence(l) /\ Len(l) = Len(c)
    <3>1. Len(c) \in Nat /\ DOMAIN l = 1..Len(c) /\ l = [k \in 1..Len(c) |-> l[k]]
      BY <1>1
    <3> HIDE DEF l
    <3> QED BY <3>1, FunctionSequence
  <2>2. IsSequence(d) /\ IsSequence(e) /\ IsSequence(d \o e) /\ Len(d \o e) = Len(c)
    <3>1. IsSequence(d) /\ IsSequence(e)
      BY <1>3 DEF OfSequences
    <3> HIDE DEF d, e
    <3>2. IsSequence(d \o e) /\ Len(d \o e) = Len(d) + Len(e)
      BY <3>1, ConcatSequences
    <3> QED BY <1>1, <1>3, <3>1, <3>2
  <2>3. ASSUME NEW k \in 1..Len(c) PROVE l[k] = (d \o e)[k]
    <3>1. \/ k \in 1..Len(d) /\ (d \o e)[k] = d[k]
          \/ k \notin 1..Len(d) /\ k - Len(d) \in 1..Len(e) /\ (d \o e)[k] = e[k - Len(d)]
      BY <2>2, ConcatPlaces
    <3>2. CASE k \in 1..Len(said)
      BY <1>0, <1>2, <1>3, <3>1, <3>2
    <3>3. CASE k \notin 1..Len(said)
      <4>1. k - Len(said) \in 1..Len(uses) /\ c[k] = uses[k - Len(said)]
        BY <1>2, <3>3
      <4>2. l[k] = <<calls[k - Len(said)]>>
        BY <4>1
      <4>3. e[k - Len(said)] = <<calls[k - Len(said)]>>
        BY <4>1
      <4> HIDE DEF l, d, e
      <4> QED BY <1>3, <3>1, <3>3, <4>2, <4>3
    <3> QED BY <3>2, <3>3
  <2> HIDE DEF l, d, e
  <2>4. l = d \o e
    BY <2>1, <2>2, <2>3, SameSequence
  <2> QED BY <2>4 DEF l
<1> HIDE DEF a, b, d, e
<1>7. FlattenSeq(a \o b) = text /\ FlattenSeq(d \o e) = calls
  <2>1. /\ FlattenSeq(a \o b) = FlattenSeq(a) \o FlattenSeq(b)
        /\ FlattenSeq(d \o e) = FlattenSeq(d) \o FlattenSeq(e)
    BY <1>3, FlattenConcat
  <2>2. text \o <<>> = text /\ <<>> \o calls = calls
    BY ConcatEmpty
  <2> QED BY <1>4, <2>1, <2>2
<1>8. \A k \in 1..Len(c) : c[k].type = "text" => IsSequence(c[k].text)
  BY <1>0, <1>2
<1>9. IsSequence(c)
  BY <1>1
<1>10. Joined(c) = FlattenSeq([k \in 1..Len(c) |-> IF c[k].type = "text" THEN c[k].text ELSE <<>>])
  BY <1>8, <1>9, JoinedIs
<1>11. CallsAmong(c, {"tool_use"})
         = FlattenSeq([k \in 1..Len(c) |-> IF c[k].type \in {"tool_use"} THEN <<Call(c[k].id, c[k].name)>> ELSE <<>>])
  BY ONLY <1>9, CallsOfType
<1> QED BY <1>5, <1>6, <1>7, <1>10, <1>11

(* The chat.completion made of it, as the Anthropic client gets it.         *)
LEMMA ByAnthropicMessage ==
  ASSUME AnswerInv, answer.ended # "open", ~Failed
  PROVE  LET message == OpenAIToAnthropicResponse(FromResponses)
         IN  /\ Joined(message.content) = TextSaid
             /\ Apply(LAMBDA u : Call(u.id, u.name), OfType(message.content, {"tool_use"})) = CallsMade
             /\ message.stop = "max_tokens" <=> answer.ended = "cut"
             /\ answer.ended = "done" => message.stop = IF CallsMade # <<>> THEN "tool_use" ELSE "end_turn"
<1> DEFINE m == OpenAIToAnthropicResponse(FromResponses)
           said == SaidPart(TextSaid)
           uses == [k \in 1..Len(CallsMade) |-> ToolUse(CallsMade[k].id, CallsMade[k].name)]
           blocks == said \o uses
           n == Len(said)
           c == IF blocks = <<>> THEN <<Text(<<>>)>> ELSE blocks
<1>1. /\ FromResponses.finish = FinishTold /\ FromResponses.calls = CallsMade
      /\ TextOf(FromResponses.content) = TextSaid
  BY ByResponses DEF ToldBy
<1>2. /\ IsSequence(TextSaid) /\ IsSequence(CallsMade) /\ DOMAIN CallsMade = 1..Len(CallsMade) /\ Len(CallsMade) \in Nat
      /\ \A k \in 1..Len(CallsMade) : Call(CallsMade[k].id, CallsMade[k].name) = CallsMade[k]
  <2>1. IsSequence(answer.items) /\ IsSequence(CallsMade) /\ IsSequence(TextSaid) /\ CallsMade = CallsIn(answer.items)
    BY ItemsOfAnswer, SaidAndMade
  <2> QED BY <2>1, CallsAreCalls, SequenceFacts
<1>3. /\ m.content = c
      /\ m.stop = CASE FinishTold = "length" -> "max_tokens"
                    [] FinishTold = "tool_calls" -> "tool_use"
                    [] OTHER -> IF CallsMade # <<>> THEN "tool_use" ELSE "end_turn"
  BY <1>1, <1>2 DEF OpenAIToAnthropicResponse, Apply, SaidPart
<1>4. /\ IsSequence(uses) /\ Len(uses) = Len(CallsMade)
      /\ \A k \in 1..Len(uses) : /\ uses[k].type = "tool_use"
                                 /\ Call(uses[k].id, uses[k].name) = CallsMade[k]
  <2>1. DOMAIN uses = 1..Len(CallsMade) /\ uses = [k \in 1..Len(CallsMade) |-> uses[k]]
    OBVIOUS
  <2>2. \A k \in 1..Len(CallsMade) : uses[k] = ToolUse(CallsMade[k].id, CallsMade[k].name)
    OBVIOUS
  <2> HIDE DEF uses
  <2>3. IsSequence(uses) /\ Len(uses) = Len(CallsMade)
    BY <1>2, <2>1, FunctionSequence
  <2>4. ASSUME NEW k \in 1..Len(uses)
        PROVE  uses[k].type = "tool_use" /\ Call(uses[k].id, uses[k].name) = CallsMade[k]
    <3>1. uses[k] = ToolUse(CallsMade[k].id, CallsMade[k].name)
      BY <2>2, <2>3
    <3>2. uses[k].type = "tool_use" /\ uses[k].id = CallsMade[k].id /\ uses[k].name = CallsMade[k].name
      BY <3>1 DEF ToolUse
    <3> QED BY <1>2, <2>3, <3>2
  <2> QED BY <2>3, <2>4
<1>5. IsSequence(said)
  BY OneSequence, EmptySequence DEF SaidPart
<1> HIDE DEF said, uses
<1>6. Joined(c) = TextSaid /\ CallsAmong(c, {"tool_use"}) = CallsMade
  <2>1. CASE blocks = <<>>
    <3>1. said = <<>> /\ uses = <<>>
      BY <1>4, <1>5, <2>1, ConcatIsEmpty
    <3>2. CallsMade = <<>>
      BY <1>2, <1>4, <3>1, EmptySequence
    <3>3. TextSaid = <<>>
      BY <3>1, OneSequence DEF said, SaidPart
    <3>4. /\ Text(<<>>).type = "text" /\ Text(<<>>).text = <<>>
      BY DEF Text
    <3>5. c = <<Text(<<>>)>> /\ IsSequence(c) /\ Len(c) = 1 /\ c[1] = Text(<<>>)
      BY <2>1, OneSequence
    <3> HIDE DEF c
    <3>6. \A k \in 1..Len(c) : c[k].type = "text" /\ c[k].text = <<>>
      BY <3>4, <3>5
    <3>7. Joined(c) = FlattenSeq([k \in 1..Len(c) |-> IF c[k].type = "text" THEN c[k].text ELSE <<>>])
      BY <3>5, <3>6, EmptySequence, JoinedIs
    <3>8. [k \in 1..Len(c) |-> IF c[k].type = "text" THEN c[k].text ELSE <<>>] = <<<<>>>>
      BY <3>5, <3>6
    <3>9. OfType(c, {"tool_use"}) = <<>>
      BY <3>5, <3>6, OfTypeIsPick
    <3>10. Apply(LAMBDA u : Call(u.id, u.name), <<>>) = <<>>
      BY DEF Apply
    <3> QED BY <3>2, <3>3, <3>7, <3>8, <3>9, <3>10, FlattenOne DEF CallsAmong
  <2>2. CASE blocks # <<>>
    <3>1. c = said \o uses
      BY <2>2
    <3> HIDE DEF c
    <3>2. /\ said = SaidPart(TextSaid)
          /\ IsSequence(uses) /\ IsSequence(TextSaid) /\ IsSequence(CallsMade) /\ Len(uses) = Len(CallsMade)
          /\ \A k \in 1..Len(uses) : uses[k].type = "tool_use" /\ Call(uses[k].id, uses[k].name) = CallsMade[k]
      BY <1>2, <1>4 DEF said
    <3>3. /\ Joined(c) = TextSaid
          /\ CallsAmong(c, {"tool_use"}) = CallsMade
      BY ONLY <3>1, <3>2, SaidThenUses
    <3> QED BY <3>3
  <2> QED BY <2>1, <2>2
<1>7. answer.ended \in {"done", "cut", "filtered"}
  BY ItemsOfAnswer DEF Failed
<1>8. m.stop = "max_tokens" <=> answer.ended = "cut"
  <2>1. CASE answer.ended = "cut"
    BY <1>3, <2>1 DEF FinishTold
  <2>2. CASE answer.ended = "filtered"
    BY <1>3, <2>2 DEF FinishTold
  <2>3. CASE answer.ended = "done"
    BY <1>3, <2>3 DEF FinishTold
  <2> QED BY <1>7, <2>1, <2>2, <2>3
<1>9. answer.ended = "done" => m.stop = IF CallsMade # <<>> THEN "tool_use" ELSE "end_turn"
  BY <1>3 DEF FinishTold
<1> QED BY <1>3, <1>6, <1>8, <1>9 DEF CallsAmong

(* Whatever the upstream, and however many items its answer has: AnswersTold,
   from the texts and calls of every item and the order of the items.       *)
THEOREM AnswersAreTold == BodiesSpec => []AnswersTold
<1>1. AnswerInv => AnswersTold
  <2> SUFFICES ASSUME AnswerInv, answer.ended # "open" PROVE AnswersTold
    BY DEF AnswersTold
  <2>1. answer.ended # "filtered" => ToldBy(FromBedrock)
    BY ItemsOfAnswer, ByBedrock
  <2>2. ToldBy(FromResponses) /\ ToldBy(FromGemini)
    BY ByResponses, ByGemini
  <2> QED BY <2>1, <2>2, ByAnthropicMessage DEF AnswersTold
<1> QED BY <1>1, AnswersStay, PTL
=============================================================================
