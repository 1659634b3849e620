----------------------- MODULE CacheAttributionProofs -----------------------
(* Every request is judged against its immediate predecessor, and the split *)
(* of the rewritten histories adds up, for any number of requests, users,   *)
(* messages and sessions.                                                   *)
EXTENDS CacheAttribution, SequenceTheorems, FiniteSetTheorems, TLAPS

(* An observation under key k describes a request of session k. *)
Describes(p, k) ==
  /\ p.known = TRUE
  /\ p.request \in Bodies
  /\ SessionKey(p.request) = k
  /\ p.system = p.request.system
  /\ p.prefix = Prefix(p.request)
  /\ p.live = LiveZone(p.request)
  /\ p.full = FullChain(p.request)
  /\ p.count = Len(p.request.messages)

Typed ==
  /\ pc \in [Requests -> {"idle", "get", "put", "bump", "add"}]
  /\ prev = [r \in Requests |-> prev[r]]
  /\ outcome = [r \in Requests |-> outcome[r]]
  /\ divergence = [r \in Requests |-> divergence[r]]
  /\ body = [r \in Requests |-> body[r]]
  /\ before = [r \in Requests |-> before[r]]
  /\ \A r \in Requests : pc[r] # "idle" => body[r] \in Bodies
  /\ rewritten \in Nat /\ diverged \in Nat

(* The lock is held from get to put. *)
LockInv == \A r \in Requests : pc[r] = "put" <=> holder = r

StateInv == \A k \in DOMAIN state : Describes(state[k], k)

PrevInv == \A r \in Requests : pc[r] = "put" =>
             \/ prev[r] = Unknown
             \/ Describes(prev[r], SessionKey(body[r]))

OutcomeInv == \A r \in Requests : pc[r] \in {"bump", "add"} =>
                (outcome[r] = "messages_rewritten" <=> divergence[r] # "none")

IInv == /\ Typed /\ LockInv /\ StateInv /\ PrevInv /\ OutcomeInv
        /\ JudgedByPredecessor /\ DivergenceAddsUp

-----------------------------------------------------------------------------
(* A rewritten history has at least two messages: a shorter one that starts *)
(* with the same message is extended, not rewritten.                        *)
LEMMA HistoryTyped ==
  ASSUME NEW b \in Bodies
  PROVE  /\ b.messages \in Seq(Messages)
         /\ b.messages \in Histories
BY AttributionAssumption DEF Bodies, Histories

LEMMA RewrittenIsLocated ==
  ASSUME NEW b \in Bodies, NEW p, Describes(p, SessionKey(b)),
         Classify(p, b) = "messages_rewritten"
  PROVE  p.count >= 2
<1> DEFINE m == b.messages
           q == p.request.messages
<1>1. m \in Seq(Messages) /\ q \in Seq(Messages) /\ Zero \notin Messages
  BY HistoryTyped, AttributionAssumption DEF Describes
<1>2. First(b) = First(p.request)
  BY DEF Describes, SessionKey
<1>3. b.system = p.system /\ Prefix(b) # Prefix(p.request) /\ ~IsAppendOnly(p, b)
  BY DEF Classify, Describes
<1>4. p.count = Len(q) /\ p.full = FullChain(p.request)
  BY DEF Describes
<1>5. CASE q = <<>>
  <2>1. m = <<>>
    BY <1>1, <1>2, <1>5 DEF First
  <2>2. QED
    BY <1>3, <1>5, <2>1 DEF Prefix
<1>6. CASE q # <<>> /\ Len(q) = 1
  <2>1. m # <<>> /\ Head(m) = Head(q)
    BY <1>1, <1>2, <1>6 DEF First
  <2>2. Len(m) > 1
    BY <1>1, <1>3, <1>6, <2>1 DEF Prefix
  <2>3. ChainAt(m, 1) = q
    <3>1. ChainAt(m, 1) = SubSeq(m, 1, 1)
      BY <2>2 DEF ChainAt
    <3>2. 1 \in Int /\ m[1] = Head(m) /\ \A i \in 1..1 : m[i] \in Messages
      BY <1>1, <2>1, <2>2
    <3>3. /\ SubSeq(m, 1, 1) \in Seq(Messages) /\ Len(SubSeq(m, 1, 1)) = 1
          /\ SubSeq(m, 1, 1)[1] = m[1]
      <4>1. /\ SubSeq(m, 1, 1) \in Seq(Messages)
            /\ Len(SubSeq(m, 1, 1)) = IF 1 <= 1 THEN 1 - 1 + 1 ELSE 0
            /\ \A i \in 1..(1 - 1 + 1) : SubSeq(m, 1, 1)[i] = m[1 + i - 1]
        BY <3>2, SubSeqProperties
      <4>2. QED
        BY <4>1
    <3>4. q[1] = Head(q)
      BY <1>1, <1>6
    <3>5. \A i \in 1..Len(q) : SubSeq(m, 1, 1)[i] = q[i]
      BY <1>6, <2>1, <3>2, <3>3, <3>4
    <3>6. SubSeq(m, 1, 1) = q
      BY <1>1, <1>6, <3>3, <3>5, SeqEqual
    <3>7. QED
      BY <3>1, <3>6
  <2>4. p.full = q /\ q # Zero
    BY <1>4, <1>6, HistoryTyped, AttributionAssumption DEF FullChain, Describes
  <2>5. QED
    BY <1>3, <1>4, <1>6, <2>2, <2>3, <2>4 DEF IsAppendOnly
<1>7. CASE Len(q) >= 2
  BY <1>4, <1>7
<1>8. q = <<>> \/ (q # <<>> /\ Len(q) = 1) \/ Len(q) >= 2
  <2>1. Len(q) \in Nat /\ (Len(q) = 0 <=> q = <<>>)
    BY <1>1
  <2>2. \A n \in Nat : n = 0 \/ n = 1 \/ n >= 2
    OBVIOUS
  <2>3. Len(q) = 1 => Len(q) # 0
    OBVIOUS
  <2>4. QED
    BY <2>1, <2>2, <2>3
<1>9. QED
  BY <1>5, <1>6, <1>7, <1>8

-----------------------------------------------------------------------------
LEMMA ObservationDescribes ==
  ASSUME NEW b \in Bodies, NEW x, NEW y
  PROVE  Describes([Observation(b) EXCEPT !.requests = x, !.busted = y], SessionKey(b))
BY DEF Observation, Describes

LEMMA OnlyWith ==
  ASSUME NEW f, NEW k, NEW v, NEW keys
  PROVE  LET g == Only(With(f, k, v), keys) IN
           \A j \in DOMAIN g :
             \/ j = k /\ g[j] = v
             \/ j \in DOMAIN f /\ g[j] = f[j]
<1> DEFINE h == With(f, k, v)
           g == Only(h, keys)
<1>1. ASSUME NEW j \in DOMAIN g
      PROVE  j \in DOMAIN h /\ g[j] = h[j]
  BY <1>1 DEF Only
<1>2. ASSUME NEW j \in DOMAIN h
      PROVE  h[j] = IF j = k THEN v ELSE f[j]
  BY <1>2 DEF With
<1>3. DOMAIN h = DOMAIN f \cup {k}
  BY DEF With
<1> HIDE DEF h
<1>4. ASSUME NEW j \in DOMAIN g
      PROVE  (j = k /\ g[j] = v) \/ (j \in DOMAIN f /\ g[j] = f[j])
  BY <1>1, <1>2, <1>3, <1>4
<1>5. QED
  BY <1>4 DEF h

LEMMA StepInv ==
  ASSUME IInv, NEW r \in Requests,
         Begin(r) \/ Look(r) \/ Store(r) \/ CountBump(r) \/ Add(r)
  PROVE  IInv'
<1> USE AttributionAssumption
    DEF storeVars, countVars, localVars
<1>1. CASE Begin(r)
  <2>1. Typed' /\ LockInv' /\ StateInv' /\ OutcomeInv' /\ DivergenceAddsUp'
    BY <1>1 DEF Begin, IInv, Typed, LockInv, StateInv, Describes, OutcomeInv,
       DivergenceAddsUp
  <2>2. PrevInv' /\ JudgedByPredecessor'
    BY <1>1 DEF Begin, IInv, Typed, PrevInv, JudgedByPredecessor, Tracked, Describes
  <2>3. QED
    BY <2>1, <2>2 DEF IInv
<1>2. CASE Look(r)
  <2> DEFINE k == SessionKey(body[r])
  <2>1. Typed' /\ LockInv' /\ OutcomeInv' /\ DivergenceAddsUp'
    BY <1>2 DEF Look, Get, IInv, Typed, LockInv, OutcomeInv, DivergenceAddsUp
  <2>2. \A q \in Requests : pc'[q] = "put" => q = r
    BY <1>2 DEF Look, IInv, Typed, LockInv
  <2>3. CASE k \in Tracked /\ prev' = [prev EXCEPT ![r] = state[k]] /\ state' = state
    <3>1. prev'[r] = state[k] /\ Describes(state[k], k) /\ body' = body
      BY <1>2, <2>3 DEF Look, IInv, Typed, StateInv, Tracked
    <3>2. StateInv'
      BY <2>3 DEF IInv, StateInv, Describes
    <3>3. PrevInv'
      BY <2>2, <3>1 DEF PrevInv, Describes
    <3>4. JudgedByPredecessor'
      BY <2>2, <2>3, <3>1 DEF JudgedByPredecessor, Tracked, Describes
    <3>5. QED
      BY <2>1, <3>2, <3>3, <3>4 DEF IInv
  <2>4. CASE prev' = [prev EXCEPT ![r] = Unknown] /\ state' = Without(state, k)
    <3>1. prev'[r] = Unknown /\ body' = body
      BY <1>2, <2>4 DEF Look, IInv, Typed
    <3>2. StateInv'
      BY <2>4 DEF IInv, StateInv, Describes, Without
    <3>3. PrevInv'
      BY <2>2, <3>1 DEF PrevInv
    <3>4. JudgedByPredecessor'
      BY <2>2, <2>4, <3>1 DEF JudgedByPredecessor, Tracked, Without, Unknown
    <3>5. QED
      BY <2>1, <3>2, <3>3, <3>4 DEF IInv
  <2>5. QED
    BY <1>2, <2>3, <2>4 DEF Look, Get
<1>3. CASE Store(r)
  <2> DEFINE k == SessionKey(body[r])
  <2>1. \A q \in Requests : pc'[q] # "put"
    BY <1>3 DEF Store, IInv, Typed, LockInv
  <2>2. body[r] \in Bodies
    BY <1>3 DEF Store, IInv, Typed
  <2>3. StateInv'
    <3>1. PICK x, y, keys :
            state' = Only(With(state, k, [Observation(body[r]) EXCEPT
                                            !.requests = x, !.busted = y]), keys)
      BY <1>3 DEF Store, Put
    <3> DEFINE new == [Observation(body[r]) EXCEPT !.requests = x, !.busted = y]
    <3>2. Describes(new, k)
      BY <2>2, ObservationDescribes
    <3>3. \A j \in DOMAIN state' :
            \/ j = k /\ state'[j] = new
            \/ j \in DOMAIN state /\ state'[j] = state[j]
      <4>1. state' = Only(With(state, k, new), keys)
        BY <3>1
      <4>2. QED
        BY <4>1, OnlyWith
    <3>4. \A j \in DOMAIN state' : Describes(state'[j], j)
      BY <3>2, <3>3 DEF IInv, StateInv
    <3>5. QED
      BY <3>4 DEF StateInv, Describes
  <2>4. OutcomeInv'
    <3>1. outcome'[r] = Classify(prev[r], body[r])
      BY <1>3 DEF Store, IInv, Typed
    <3>2. divergence'[r] = IF outcome'[r] = "messages_rewritten"
                           THEN DivergenceWhere(prev[r], body[r]) ELSE "none"
      BY <1>3, <3>1 DEF Store, IInv, Typed
    <3>3. outcome'[r] = "messages_rewritten" => divergence'[r] # "none"
      <4>1. SUFFICES ASSUME outcome'[r] = "messages_rewritten"
                     PROVE  divergence'[r] # "none"
        OBVIOUS
      <4>2. Describes(prev[r], k)
        BY <1>3, <3>1, <4>1 DEF Store, IInv, PrevInv, Unknown, Classify
      <4>3. prev[r].count >= 2 /\ prev[r].count \in Nat
        <5>1. prev[r].count >= 2
          BY <2>2, <3>1, <4>1, <4>2, RewrittenIsLocated
        <5>2. prev[r].request \in Bodies /\ prev[r].count = Len(prev[r].request.messages)
          BY <4>2 DEF Describes
        <5>3. prev[r].request.messages \in Seq(Messages)
          BY <5>2, HistoryTyped
        <5>4. QED
          BY <5>1, <5>2, <5>3
      <4>4. DivergenceWhere(prev[r], body[r]) # "none"
        BY <4>3 DEF DivergenceWhere
      <4>5. QED
        BY <3>2, <4>1, <4>4
    <3>4. \A q \in Requests \ {r} : /\ outcome'[q] = outcome[q]
                                   /\ divergence'[q] = divergence[q]
                                   /\ pc'[q] = pc[q]
      BY <1>3 DEF Store, IInv, Typed
    <3>5. QED
      BY <3>2, <3>3, <3>4 DEF OutcomeInv, IInv
  <2>5. Typed' /\ LockInv' /\ DivergenceAddsUp'
    BY <1>3 DEF Store, IInv, Typed, LockInv, DivergenceAddsUp
  <2>6. PrevInv' /\ JudgedByPredecessor'
    BY <2>1 DEF PrevInv, JudgedByPredecessor
  <2>7. QED
    BY <2>3, <2>4, <2>5, <2>6 DEF IInv
<1>4. CASE CountBump(r)
  <2> DEFINE k == SessionKey(body[r])
  <2>1. /\ DOMAIN state' = DOMAIN state
        /\ \A j \in DOMAIN state :
             /\ Describes(state'[j], j)
             /\ state'[j].request = state[j].request
    <3>1. CASE k \notin Tracked
      BY <1>4, <3>1 DEF CountBump, IInv, StateInv
    <3>2. CASE k \in Tracked
      <4>1. state' = [state EXCEPT ![k] = [state[k] EXCEPT
                       !.requests = @ + 1, !.busted = @ + One(Busted(outcome[r]))]]
        BY <1>4, <3>2 DEF CountBump
      <4>2. QED
        BY <4>1 DEF IInv, StateInv, Describes
    <3>3. QED
      BY <3>1, <3>2
  <2>2. StateInv' /\ PrevInv' /\ JudgedByPredecessor'
    BY <1>4, <2>1, SMTT(60) DEF CountBump, IInv, Typed, StateInv, PrevInv,
       JudgedByPredecessor, Tracked, Describes
  <2>3. Typed' /\ LockInv' /\ OutcomeInv' /\ DivergenceAddsUp'
    BY <1>4 DEF CountBump, IInv, Typed, LockInv, OutcomeInv, DivergenceAddsUp
  <2>4. QED
    BY <2>2, <2>3 DEF IInv
<1>5. CASE Add(r)
  <2>1. DivergenceAddsUp' /\ rewritten' \in Nat /\ diverged' \in Nat
    BY <1>5 DEF Add, One, IInv, Typed, OutcomeInv, DivergenceAddsUp
  <2>2. Typed' /\ LockInv' /\ OutcomeInv'
    BY <1>5, <2>1 DEF Add, IInv, Typed, LockInv, OutcomeInv
  <2>3. StateInv' /\ PrevInv' /\ JudgedByPredecessor'
    BY <1>5 DEF Add, IInv, Typed, StateInv, PrevInv, JudgedByPredecessor,
       Tracked, Describes
  <2>4. QED
    BY <2>1, <2>2, <2>3 DEF IInv
<1>6. QED
  BY <1>1, <1>2, <1>3, <1>4, <1>5

LEMMA TickInv ==
  ASSUME IInv, Tick
  PROVE  IInv'
<1>1. /\ DOMAIN state' = DOMAIN state
      /\ \A j \in DOMAIN state : /\ Describes(state'[j], j)
                                 /\ state'[j].request = state[j].request
  <2>1. state' = [k \in Tracked |-> [state[k] EXCEPT !.age =
                                       IF @ <= SessionTTL THEN @ + 1 ELSE @]]
    BY DEF Tick
  <2>2. ASSUME NEW p, NEW j, Describes(p, j), NEW x
        PROVE  Describes([p EXCEPT !.age = x], j)
               /\ [p EXCEPT !.age = x].request = p.request
    BY <2>2 DEF Describes
  <2>3. \A j \in Tracked : state'[j] = [state[j] EXCEPT !.age =
                             IF @ <= SessionTTL THEN @ + 1 ELSE @]
    BY <2>1
  <2>4. \A j \in DOMAIN state : Describes(state[j], j)
    BY DEF IInv, StateInv
  <2>5. QED
    BY <2>1, <2>2, <2>3, <2>4, ZenonT(40) DEF Tracked
<1>2. StateInv' /\ PrevInv' /\ JudgedByPredecessor'
  BY <1>1, SMTT(20) DEF Tick, localVars, IInv, StateInv, PrevInv, JudgedByPredecessor,
     Tracked, Describes
<1>3. Typed' /\ LockInv' /\ OutcomeInv' /\ DivergenceAddsUp'
  BY DEF Tick, localVars, countVars, IInv, Typed, LockInv, OutcomeInv, DivergenceAddsUp
<1>4. QED
  BY <1>2, <1>3 DEF IInv

LEMMA Invariant == Spec => []IInv
<1>1. Init => IInv
  BY AttributionAssumption DEF Init, IInv, Typed, LockInv, StateInv, PrevInv,
     OutcomeInv, JudgedByPredecessor, DivergenceAddsUp
<1>2. IInv /\ [Next]_vars => IInv'
  <2>1. IInv /\ UNCHANGED vars => IInv'
    BY DEF vars, storeVars, localVars, countVars, IInv, Typed, LockInv, StateInv,
       PrevInv, OutcomeInv, JudgedByPredecessor, DivergenceAddsUp, Tracked, Describes
  <2>2. QED
    BY <2>1, StepInv, TickInv DEF Next
<1>3. QED
  BY <1>1, <1>2, PTL DEF Spec

-----------------------------------------------------------------------------
(* The counters of a session.  Both maps have the same sessions, and an     *)
(* observation that is stored has a counter.                                *)
Counting(p) == "requests" \in DOMAIN p /\ p.requests \in Nat

CountInv ==
  /\ DOMAIN since = DOMAIN state
  /\ \A k \in DOMAIN state : Counting(state[k]) /\ since[k] \in Nat

PendingTyped == \A k : IsFiniteSet(Pending(k)) /\ Cardinality(Pending(k)) \in Nat

LEMMA PendingFinite == PendingTyped
BY AttributionAssumption, FS_Subset, FS_CardinalityType DEF PendingTyped, Pending

(* Who is pending changes by one request that stored or counted.            *)
LEMMA OneMorePending ==
  ASSUME NEW k, NEW r \in Requests, pc[r] # "bump",
         pc' = [pc EXCEPT ![r] = "bump"], pc = [q \in Requests |-> pc[q]], body' = body
  PROVE  /\ SessionKey(body[r]) = k => Cardinality(Pending(k)') = Cardinality(Pending(k)) + 1
         /\ SessionKey(body[r]) # k => Pending(k)' = Pending(k)
<1>1. CASE SessionKey(body[r]) = k
  <2>1. Pending(k)' = Pending(k) \cup {r} /\ r \notin Pending(k)
    BY <1>1 DEF Pending, SessionKey, First
  <2>. QED  BY <1>1, <2>1, PendingFinite, FS_AddElement DEF PendingTyped
<1>2. CASE SessionKey(body[r]) # k
  BY <1>2 DEF Pending, SessionKey, First
<1>. QED  BY <1>1, <1>2

LEMMA OneLessPending ==
  ASSUME NEW k, NEW r \in Requests, pc[r] = "bump",
         pc' = [pc EXCEPT ![r] = "add"], pc = [q \in Requests |-> pc[q]], body' = body
  PROVE  /\ SessionKey(body[r]) = k => Cardinality(Pending(k)') = Cardinality(Pending(k)) - 1
         /\ SessionKey(body[r]) # k => Pending(k)' = Pending(k)
<1>1. CASE SessionKey(body[r]) = k
  <2>1. Pending(k)' = Pending(k) \ {r} /\ r \in Pending(k)
    BY <1>1 DEF Pending, SessionKey, First
  <2>. QED  BY <1>1, <2>1, PendingFinite, FS_RemoveElement DEF PendingTyped
<1>2. CASE SessionKey(body[r]) # k
  BY <1>2 DEF Pending, SessionKey, First
<1>. QED  BY <1>1, <1>2

LEMMA OnlyWithDomain ==
  ASSUME NEW f, NEW k, NEW v, NEW keys
  PROVE  DOMAIN Only(With(f, k, v), keys) = (DOMAIN f \cup {k}) \cap keys
BY DEF Only, With

(* Storing an observation keeps the counter that is in the store.           *)
LEMMA StoreCounts ==
  ASSUME IInv, CountInv, BumpsKept, NEW r \in Requests, Store(r)
  PROVE  CountInv' /\ BumpsKept'
<1>. DEFINE k == SessionKey(body[r])
            new == [Observation(body[r]) EXCEPT !.requests = Counters(r, k).requests,
                                                !.busted = Counters(r, k).busted]
            n == IF k \in Tracked THEN since[k] + 1 ELSE 1
            keys == ToSet(Evict(ToFront(k)))
<1>1. /\ state' = Only(With(state, k, new), keys)
      /\ since' = Only(With(since, k, n), keys)
      /\ pc[r] = "put" /\ pc' = [pc EXCEPT ![r] = "bump"] /\ body' = body
  BY DEF Store, Put
<1>t. pc = [q \in Requests |-> pc[q]]
  BY DEF IInv, Typed
<1>2. "requests" \in DOMAIN new
      /\ new.requests = IF k \in Tracked THEN state[k].requests ELSE 0
  BY DEF Observation, Counters
<1>3. n \in Nat /\ Counting(new)
  BY <1>2 DEF CountInv, Counting, Tracked
<1>. HIDE DEF new, n, keys, k
<1>4. /\ DOMAIN state' = (DOMAIN state \cup {k}) \cap keys
      /\ DOMAIN since' = (DOMAIN since \cup {k}) \cap keys
  <2>1. \A f, v : DOMAIN Only(With(f, k, v), keys) = (DOMAIN f \cup {k}) \cap keys
    BY OnlyWithDomain
  <2>. QED  BY <1>1, <2>1
<1>5. \A j \in DOMAIN state' : /\ state'[j] = IF j = k THEN new ELSE state[j]
                               /\ since'[j] = IF j = k THEN n ELSE since[j]
  BY <1>1, <1>4 DEF Only, With, CountInv
<1>6. CountInv'
  BY <1>3, <1>4, <1>5 DEF CountInv, Counting
<1>7. ASSUME NEW j \in DOMAIN state'
      PROVE  state'[j].requests + Cardinality(Pending(j)') >= since'[j]
  <2>1. /\ j = k => Cardinality(Pending(j)') = Cardinality(Pending(j)) + 1
        /\ j # k => Pending(j)' = Pending(j)
    BY <1>1, <1>t, OneMorePending DEF k
  <2>2. Cardinality(Pending(j)) \in Nat
    BY PendingFinite DEF PendingTyped
  <2>3. CASE j = k
    BY <1>2, <1>5, <2>1, <2>2, <2>3 DEF BumpsKept, CountInv, Counting, Tracked, n
  <2>4. CASE j # k
    BY <1>4, <1>5, <1>7, <2>1, <2>4 DEF BumpsKept, Tracked
  <2>. QED  BY <2>3, <2>4
<1>. QED  BY <1>6, <1>7 DEF BumpsKept, Tracked, Pending

LEMMA BumpCounts ==
  ASSUME IInv, CountInv, BumpsKept, NEW r \in Requests, CountBump(r)
  PROVE  CountInv' /\ BumpsKept'
<1>. DEFINE k == SessionKey(body[r])
<1>1. /\ pc[r] = "bump" /\ pc' = [pc EXCEPT ![r] = "add"] /\ body' = body /\ since' = since
      /\ state' = IF k \in Tracked
                  THEN [state EXCEPT ![k].requests = @ + 1,
                                     ![k].busted = @ + One(Busted(outcome[r]))]
                  ELSE state
  BY DEF CountBump
<1>t. pc = [q \in Requests |-> pc[q]]
  BY DEF IInv, Typed
<1>. HIDE DEF k
<1>2. /\ DOMAIN state' = DOMAIN state
      /\ \A j \in DOMAIN state : /\ Counting(state'[j])
                                 /\ state'[j].requests = IF j = k THEN state[j].requests + 1
                                                         ELSE state[j].requests
  BY <1>1 DEF Tracked, CountInv, Counting
<1>3. CountInv'
  BY <1>1, <1>2 DEF CountInv
<1>4. ASSUME NEW j \in DOMAIN state
      PROVE  state'[j].requests + Cardinality(Pending(j)') >= since[j]
  <2>1. /\ j = k => Cardinality(Pending(j)') = Cardinality(Pending(j)) - 1
        /\ j # k => Pending(j)' = Pending(j)
    BY <1>1, <1>t, OneLessPending DEF k
  <2>2. /\ Cardinality(Pending(j)) \in Nat /\ state[j].requests \in Nat
        /\ state[j].requests + Cardinality(Pending(j)) >= since[j] /\ since[j] \in Nat
    BY PendingFinite DEF PendingTyped, CountInv, Counting, BumpsKept, Tracked
  <2>. QED  BY <1>2, <2>1, <2>2
<1>. QED  BY <1>1, <1>2, <1>3, <1>4 DEF BumpsKept, Tracked, Pending

LEMMA BumpStep ==
  ASSUME IInv, CountInv, BumpsKept, [Next]_vars
  PROVE  CountInv' /\ BumpsKept'
<1>. USE DEF storeVars, countVars, localVars
(* nobody becomes pending, and sessions only go *)
<1>a. ASSUME DOMAIN state' \subseteq DOMAIN state, DOMAIN since' = DOMAIN state',
             \A j \in DOMAIN state' : /\ since'[j] = since[j]
                                      /\ state'[j].requests = state[j].requests
                                      /\ "requests" \in DOMAIN state'[j],
             \A j : Pending(j)' = Pending(j)
      PROVE  CountInv' /\ BumpsKept'
  BY <1>a DEF CountInv, Counting, BumpsKept, Tracked, Pending
<1>1. ASSUME NEW r \in Requests, Begin(r) \/ Add(r) PROVE CountInv' /\ BumpsKept'
  <2>1. UNCHANGED <<state, since>> /\ \A j : Pending(j)' = Pending(j)
    BY <1>1 DEF Begin, Add, Pending, IInv, Typed, SessionKey, First
  <2>. QED  BY <1>a, <2>1 DEF CountInv, Counting
<1>2. ASSUME NEW r \in Requests, Look(r) PROVE CountInv' /\ BumpsKept'
  <2>. DEFINE k == SessionKey(body[r])
  <2>1. \A j : Pending(j)' = Pending(j)
    BY <1>2 DEF Look, Pending, IInv, Typed, SessionKey, First
  <2>2. CASE UNCHANGED <<state, since>>
    BY <1>a, <2>1, <2>2 DEF CountInv, Counting
  <2>3. CASE state' = Without(state, k) /\ since' = Without(since, k)
    <3>1. /\ DOMAIN state' = DOMAIN state \ {k} /\ DOMAIN since' = DOMAIN since \ {k}
          /\ \A j \in DOMAIN state' : state'[j] = state[j]
          /\ \A j \in DOMAIN since' : since'[j] = since[j]
      BY <2>3 DEF Without
    <3>. HIDE DEF k
    <3>. QED  BY <1>a, <2>1, <3>1 DEF CountInv, Counting
  <2>. QED  BY <1>2, <2>2, <2>3 DEF Look, Get
<1>3. ASSUME NEW r \in Requests, Store(r) PROVE CountInv' /\ BumpsKept'
  BY <1>3, StoreCounts
<1>4. ASSUME NEW r \in Requests, CountBump(r) PROVE CountInv' /\ BumpsKept'
  BY <1>4, BumpCounts
<1>5. CASE Tick
  <2>1. \A j : Pending(j)' = Pending(j)
    BY <1>5 DEF Tick, Pending, SessionKey, First
  <2>2. /\ DOMAIN state' = DOMAIN state /\ since' = since
        /\ \A j \in DOMAIN state : /\ state'[j].requests = state[j].requests
                                   /\ "requests" \in DOMAIN state'[j]
    BY <1>5 DEF Tick, Tracked, CountInv, Counting
  <2>. QED  BY <1>a, <2>1, <2>2 DEF CountInv
<1>6. CASE UNCHANGED vars
  <2>1. UNCHANGED <<state, since>> /\ \A j : Pending(j)' = Pending(j)
    BY <1>6 DEF vars, Pending, SessionKey, First
  <2>. QED  BY <1>a, <2>1 DEF CountInv, Counting
<1>. QED  BY <1>1, <1>2, <1>3, <1>4, <1>5, <1>6 DEF Next

-----------------------------------------------------------------------------
(* observe compares a request with the one it replaces in the store, however *)
(* many are observed at once: the comparison holds the lock throughout.      *)
THEOREM PredecessorJudges == Spec => []JudgedByPredecessor
BY Invariant, PTL DEF IInv

(* The places of divergence add up to the requests counted as               *)
(* messages_rewritten: a conversation starts with the message that is part  *)
(* of its key, so a rewritten history always has two messages or more.      *)
THEOREM DivergenceTotals == Spec => []DivergenceAddsUp
BY Invariant, PTL DEF IInv

(* No request of a tracked conversation is lost to another one: what put    *)
(* stores and what countBump still has to add cover every request since the *)
(* session was inserted (put and countBump in session.go).                 *)
THEOREM BumpsStay == Spec => []BumpsKept
<1>1. Init => CountInv /\ BumpsKept
  BY DEF Init, CountInv, BumpsKept, Tracked
<1>2. IInv /\ CountInv /\ BumpsKept /\ [Next]_vars => CountInv' /\ BumpsKept'
  BY BumpStep
<1>. QED  BY <1>1, <1>2, Invariant, PTL DEF Spec

-----------------------------------------------------------------------------
(* What the digests tell of the messages.                                   *)

(* A prefix, element by element. *)
LEMMA PrefixIff ==
  ASSUME NEW S, NEW s \in Seq(S), NEW t \in Seq(S), Len(s) <= Len(t)
  PROVE  /\ SubSeq(t, 1, Len(s)) = s <=> \A i \in 1..Len(s) : t[i] = s[i]
         /\ IsPrefix(s, t) <=> \A i \in 1..Len(s) : t[i] = s[i]
<1> DEFINE n == Len(s)
           u == SubSeq(t, 1, n)
<1>1. n \in Nat /\ Len(t) \in Nat /\ \A i \in 1..n : t[i] \in S
  OBVIOUS
<1>2. /\ u \in Seq(S) /\ Len(u) = IF 1 <= n THEN n - 1 + 1 ELSE 0
      /\ \A i \in 1..(n - 1 + 1) : u[i] = t[1 + i - 1]
  BY <1>1, SubSeqProperties
<1>3. Len(u) = n
  BY <1>1, <1>2
<1>4. ASSUME NEW i \in 1..n PROVE u[i] = t[i]
  <2>1. i \in 1..(n - 1 + 1) /\ 1 + i - 1 = i
    BY <1>1
  <2> QED BY <1>2, <2>1
<1> HIDE DEF u
<1>5. u = s <=> \A i \in 1..n : t[i] = s[i]
  <2>1. ASSUME \A i \in 1..n : t[i] = s[i] PROVE u = s
    <3>1. \A i \in 1..Len(u) : u[i] = s[i]
      BY <1>3, <1>4, <2>1
    <3> QED BY <1>2, <1>3, <3>1, SeqEqual
  <2> QED BY <1>4, <2>1
<1>6. SubSeq(s, 1, Len(s)) = s
  BY SubSeqFull
<1>7. IsPrefix(s, t) <=> s = u
  BY <1>6 DEF IsPrefix, u
<1> QED BY <1>5, <1>7 DEF u

(* A history is a prefix of another just when its chain digest is found.    *)
LEMMA PrefixIs ==
  ASSUME NEW S, NEW s \in Seq(S), NEW t
  PROVE  IsPrefix(s, t) <=> Len(s) <= Len(t) /\ SubSeq(t, 1, Len(s)) = s
<1>1. SubSeq(s, 1, Len(s)) = s
  BY SubSeqFull
<1> QED BY <1>1 DEF IsPrefix

LEMMA FrontFacts ==
  ASSUME NEW S, NEW s \in Seq(S), s # <<>>
  PROVE  /\ Front(s) \in Seq(S) /\ Len(Front(s)) = Len(s) - 1
         /\ \A i \in 1..(Len(s) - 1) : Front(s)[i] = s[i]
<1> DEFINE n == Len(s) - 1
           u == SubSeq(s, 1, n)
<1>1. n \in Nat /\ Len(s) \in Nat /\ \A i \in 1..n : s[i] \in S
  OBVIOUS
<1>2. /\ u \in Seq(S) /\ Len(u) = IF 1 <= n THEN n - 1 + 1 ELSE 0
      /\ \A i \in 1..(n - 1 + 1) : u[i] = s[1 + i - 1]
  BY <1>1, SubSeqProperties
<1>3. Len(u) = n
  <2>1. \A k \in Nat : (IF 1 <= k THEN k - 1 + 1 ELSE 0) = k
    OBVIOUS
  <2> HIDE DEF u, n
  <2> QED BY <1>1, <1>2, <2>1
<1>4. ASSUME NEW i \in 1..n PROVE u[i] = s[i]
  <2>1. i \in 1..(n - 1 + 1) /\ 1 + i - 1 = i
    BY <1>1
  <2> QED BY <1>2, <2>1
<1> QED BY <1>2, <1>3, <1>4 DEF Front

(* The digests of a history: of all but its last message and of the last.   *)
(* Two requests of one session begin with the same message, or neither has  *)
(* a message; so the digests agree just when the histories do.              *)
LEMMA DigestsTell ==
  ASSUME NEW p \in Bodies, NEW c \in Bodies, First(p) = First(c)
  PROVE  LET s == p.messages
             t == c.messages
         IN  /\ Prefix(p) = Prefix(c) =>
                  /\ Len(s) = Len(t)
                  /\ s # <<>> => \A i \in 1..(Len(s) - 1) : s[i] = t[i]
                  /\ LiveZone(p) = LiveZone(c) => s = t
                  /\ LiveZone(p) # LiveZone(c) => Len(s) > 1
             /\ s = t => Prefix(p) = Prefix(c) /\ LiveZone(p) = LiveZone(c)
             /\ /\ Len(s) = Len(t) /\ Len(s) > 1
                /\ \A i \in 1..(Len(s) - 1) : s[i] = t[i]
                => Prefix(p) = Prefix(c)
             /\ s = <<>> <=> t = <<>>
             /\ s # <<>> => s[1] = t[1]
<1> DEFINE s == p.messages
           t == c.messages
<1>1. s \in Seq(Messages) /\ t \in Seq(Messages) /\ Zero \notin Messages
  BY HistoryTyped, AttributionAssumption
<1>2. Len(s) \in Nat /\ Len(t) \in Nat /\ (Len(s) = 0 <=> s = <<>>) /\ (Len(t) = 0 <=> t = <<>>)
  BY <1>1
<1>3. (s = <<>> <=> t = <<>>) /\ (s # <<>> => s[1] = t[1])
  BY <1>1 DEF First
<1>4. ASSUME NEW b \in Bodies, Len(b.messages) > 1
      PROVE  /\ b.messages # <<>> /\ Prefix(b) = Front(b.messages) /\ Prefix(b) # Zero
             /\ Front(b.messages) \in Seq(Messages)
             /\ Len(Front(b.messages)) = Len(b.messages) - 1
             /\ \A i \in 1..(Len(b.messages) - 1) : Front(b.messages)[i] = b.messages[i]
  <2> DEFINE m == b.messages
  <2>1. m \in Seq(Messages) /\ m # <<>> /\ Len(m) \in Nat /\ m \in Histories
    BY <1>4, HistoryTyped
  <2>2. /\ Front(m) \in Seq(Messages) /\ Len(Front(m)) = Len(m) - 1
        /\ \A i \in 1..(Len(m) - 1) : Front(m)[i] = m[i]
    BY <2>1, FrontFacts
  <2>3. Front(m) \in Histories
    <3>1. Len(m) \in 0..MaxMessages
      <4>1. PICK n \in 0..MaxMessages : m \in [1..n -> Messages]
        BY <2>1 DEF Histories
      <4>2. Len(m) = n
        BY <2>1, <4>1, AttributionAssumption
      <4> QED BY <4>2
    <3>2. Len(m) - 1 \in 0..MaxMessages
      BY <1>4, <3>1, AttributionAssumption
    <3>3. Front(m) \in [1..(Len(m) - 1) -> Messages]
      BY <2>2
    <3> QED BY <3>2, <3>3 DEF Histories
  <2>4. Prefix(b) = Front(m)
    BY <1>4 DEF Prefix
  <2>5. Prefix(b) # Zero
    BY <2>3, <2>4, AttributionAssumption
  <2> QED BY <2>1, <2>2, <2>4, <2>5
<1>5. ASSUME NEW b \in Bodies, ~(Len(b.messages) > 1) PROVE Prefix(b) = Zero
  BY <1>5 DEF Prefix
<1>6. ASSUME Prefix(p) = Prefix(c)
      PROVE  /\ Len(s) = Len(t)
             /\ s # <<>> => \A i \in 1..(Len(s) - 1) : s[i] = t[i]
             /\ LiveZone(p) = LiveZone(c) => s = t
             /\ LiveZone(p) # LiveZone(c) => Len(s) > 1
  <2>1. CASE Len(s) > 1
    <3>1. Len(t) > 1
      BY <1>4, <1>5, <1>6, <2>1
    <3>2. Front(s) = Front(t) /\ s # <<>> /\ t # <<>>
      BY <1>4, <1>6, <2>1, <3>1
    <3>3. Len(s) = Len(t)
      BY <1>2, <1>4, <2>1, <3>1, <3>2
    <3>4. \A i \in 1..(Len(s) - 1) : s[i] = t[i]
      BY <1>4, <2>1, <3>1, <3>2, <3>3
    <3>5. ASSUME LiveZone(p) = LiveZone(c) PROVE s = t
      <4>1. s[Len(s)] = t[Len(s)]
        BY <3>2, <3>3, <3>5 DEF LiveZone, Last
      <4>2. \A i \in 1..Len(s) : i \in 1..(Len(s) - 1) \/ i = Len(s)
        BY <1>2
      <4>3. \A i \in 1..Len(s) : s[i] = t[i]
        BY <3>4, <4>1, <4>2
      <4> QED BY <1>1, <3>3, <4>3, SeqEqual
    <3> QED BY <2>1, <3>3, <3>4, <3>5
  <2>2. CASE ~(Len(s) > 1)
    <3>1. ~(Len(t) > 1)
      BY <1>4, <1>5, <1>6, <2>2
    <3>2. \/ Len(s) = 0 /\ Len(t) = 0
          \/ Len(s) = 1 /\ Len(t) = 1 /\ s[1] = t[1]
      <4>1. \A n \in Nat : n = 0 \/ n = 1 \/ n > 1
        OBVIOUS
      <4> QED BY <1>2, <1>3, <2>2, <3>1, <4>1
    <3>3. Len(s) = Len(t) /\ \A i \in 1..Len(s) : s[i] = t[i]
      BY <3>2
    <3>4. s = t
      BY <1>1, <3>3, SeqEqual
    <3>5. LiveZone(p) = LiveZone(c)
      BY <3>4 DEF LiveZone
    <3> QED BY <3>4, <3>5
  <2> QED BY <2>1, <2>2
<1>7. s = t => Prefix(p) = Prefix(c) /\ LiveZone(p) = LiveZone(c)
  BY DEF Prefix, LiveZone
<1>8. ASSUME Len(s) = Len(t), Len(s) > 1, \A i \in 1..(Len(s) - 1) : s[i] = t[i]
      PROVE  Prefix(p) = Prefix(c)
  <2>1. /\ Front(s) \in Seq(Messages) /\ Front(t) \in Seq(Messages)
        /\ Len(Front(s)) = Len(s) - 1 /\ Len(Front(t)) = Len(s) - 1
        /\ Prefix(p) = Front(s) /\ Prefix(c) = Front(t)
    BY <1>4, <1>8
  <2>2. \A i \in 1..Len(Front(s)) : Front(s)[i] = Front(t)[i]
    BY <1>4, <1>8, <2>1
  <2>3. Front(s) = Front(t)
    BY <2>1, <2>2, SeqEqual
  <2> QED BY <2>1, <2>3
<1> QED BY <1>3, <1>6, <1>7, <1>8

(* What classify says of two requests of one session and one system.        *)
ToldRight(p, c, o, d) ==
  /\ o = "identical" <=> p = c
  /\ o = "append_only" <=> ~Edited(p, c) /\ p # c
  /\ o = "live_zone_only" <=> Edited(p, c) /\ Len(p) = Len(c) /\ ~Edited(Front(p), c)
  /\ d = "tail" => Edited(p, c) /\ ~Edited(Front(p), c)
  /\ d = "history" => Edited(Front(p), c)

LEMMA ClassifyRight ==
  ASSUME NEW b \in Bodies, NEW p, Describes(p, SessionKey(b)), b.system = p.system,
         NEW o, o = Classify(p, b),
         NEW d, d = IF o = "messages_rewritten" THEN DivergenceWhere(p, b) ELSE "none"
  PROVE  ToldRight(p.request.messages, b.messages, o, d)
<1> DEFINE s == p.request.messages
           t == b.messages
<1>1. /\ p.request \in Bodies /\ First(p.request) = First(b) /\ p.known
      /\ p.prefix = Prefix(p.request) /\ p.live = LiveZone(p.request)
      /\ p.full = FullChain(p.request) /\ p.count = Len(s)
  BY DEF Describes, SessionKey
<1>2. /\ s \in Seq(Messages) /\ t \in Seq(Messages) /\ s \in Histories
      /\ Len(s) \in Nat /\ Len(t) \in Nat /\ (s = <<>> <=> Len(s) = 0)
  <2>1. s \in Seq(Messages) /\ t \in Seq(Messages) /\ s \in Histories
    BY <1>1, HistoryTyped
  <2> QED BY <2>1
<1>3. (p.full = IF s = <<>> THEN Zero ELSE s) /\ s # Zero
  BY <1>1, <1>2, AttributionAssumption DEF FullChain
<1> DEFINE same == Prefix(p.request) = Prefix(b)
           live == LiveZone(p.request) = LiveZone(b)
<1>4. /\ same => /\ Len(s) = Len(t)
                 /\ s # <<>> => \A i \in 1..(Len(s) - 1) : s[i] = t[i]
                 /\ live => s = t
                 /\ ~live => Len(s) > 1
      /\ s = t => same /\ live
      /\ Len(s) = Len(t) /\ Len(s) > 1 /\ (\A i \in 1..(Len(s) - 1) : s[i] = t[i]) => same
      /\ s = <<>> <=> t = <<>>
      /\ s # <<>> => s[1] = t[1]
  <2> HIDE DEF s, t, same, live
  <2> QED BY <1>1, DigestsTell, Zenon DEF s, t, same, live
<1>5. o = IF same THEN IF live THEN "identical" ELSE "live_zone_only"
          ELSE IF IsAppendOnly(p, b) THEN "append_only" ELSE "messages_rewritten"
  BY <1>1 DEF Classify
<1> HIDE DEF same, live
<1>6. IsPrefix(s, t) /\ s # t => Len(s) < Len(t)
  <2>1. SUFFICES ASSUME IsPrefix(s, t), Len(s) = Len(t) PROVE s = t
    BY <1>2, PrefixIs
  <2>2. SubSeq(t, 1, Len(t)) = t /\ SubSeq(t, 1, Len(s)) = s
    BY <1>2, <2>1, PrefixIs, SubSeqFull
  <2> QED BY <2>1, <2>2
<1>7. IsAppendOnly(p, b) <=> s # <<>> /\ IsPrefix(s, t) /\ s # t
  <2>1. IsAppendOnly(p, b) <=> Len(t) > Len(s) /\ s # <<>> /\ ChainAt(t, Len(s)) = s
    BY <1>1, <1>3 DEF IsAppendOnly
  <2>2. Len(t) > Len(s) => ChainAt(t, Len(s)) = SubSeq(t, 1, Len(s))
    BY <1>2 DEF ChainAt
  <2>3. IsPrefix(s, t) <=> Len(s) <= Len(t) /\ SubSeq(t, 1, Len(s)) = s
    BY <1>2, PrefixIs
  <2> QED BY <1>2, <1>6, <2>1, <2>2, <2>3
<1>8. IsPrefix(s, t) /\ s # t => s # <<>> /\ ~same
  BY <1>2, <1>4, <1>6
<1>9. IsPrefix(t, t)
  BY <1>2, PrefixIs, SubSeqFull
<1>10. s # <<>> => /\ Front(s) \in Seq(Messages) /\ Len(Front(s)) = Len(s) - 1
                   /\ \A i \in 1..(Len(s) - 1) : Front(s)[i] = s[i]
                   /\ Len(s) - 1 <= Len(t) =>
                        (IsPrefix(Front(s), t) <=>
                           \A i \in 1..(Len(s) - 1) : s[i] = t[i])
  <2>1. SUFFICES ASSUME s # <<>>
                 PROVE  /\ Front(s) \in Seq(Messages) /\ Len(Front(s)) = Len(s) - 1
                        /\ \A i \in 1..(Len(s) - 1) : Front(s)[i] = s[i]
                        /\ Len(s) - 1 <= Len(t) =>
                             (IsPrefix(Front(s), t) <=>
                                \A i \in 1..(Len(s) - 1) : s[i] = t[i])
    OBVIOUS
  <2>2. /\ Front(s) \in Seq(Messages) /\ Len(Front(s)) = Len(s) - 1
        /\ \A i \in 1..(Len(s) - 1) : Front(s)[i] = s[i]
    BY <1>2, <2>1, FrontFacts
  <2>3. ASSUME Len(s) - 1 <= Len(t)
        PROVE  IsPrefix(Front(s), t) <=> \A i \in 1..(Len(s) - 1) : t[i] = Front(s)[i]
    <3> DEFINE u == Front(s)
    <3>1. u \in Seq(Messages) /\ Len(u) = Len(s) - 1 /\ Len(u) <= Len(t)
      BY <2>2, <2>3
    <3> HIDE DEF u, s, t
    <3>2. IsPrefix(u, t) <=> \A i \in 1..Len(u) : t[i] = u[i]
      BY <1>2, <3>1, PrefixIff
    <3> QED BY <3>1, <3>2 DEF u
  <2> QED BY <2>2, <2>3
<1>11. o = "identical" <=> s = t
  BY <1>4, <1>5
<1>12. o = "append_only" <=> IsPrefix(s, t) /\ s # t
  BY <1>5, <1>7, <1>8
<1>13. o = "live_zone_only" <=> ~IsPrefix(s, t) /\ Len(s) = Len(t) /\ IsPrefix(Front(s), t)
  <2>1. ASSUME o = "live_zone_only"
        PROVE  ~IsPrefix(s, t) /\ Len(s) = Len(t) /\ IsPrefix(Front(s), t)
    <3>1. same /\ ~live
      BY <1>5, <2>1
    <3>2. Len(s) = Len(t) /\ s # <<>> /\ s # t /\ \A i \in 1..(Len(s) - 1) : s[i] = t[i]
      BY <1>2, <1>4, <3>1
    <3>3. IsPrefix(Front(s), t)
      BY <1>2, <1>10, <3>2
    <3> QED BY <1>2, <1>6, <3>2, <3>3
  <2>2. ASSUME ~IsPrefix(s, t), Len(s) = Len(t), IsPrefix(Front(s), t)
        PROVE  o = "live_zone_only"
    <3>1. s # t /\ s # <<>>
      BY <1>4, <1>9, <2>2
    <3>2. \A i \in 1..(Len(s) - 1) : s[i] = t[i]
      BY <1>2, <1>10, <2>2, <3>1
    <3>3. Len(s) > 1
      <4> HIDE DEF s, t
      <4>1. SUFFICES ASSUME Len(s) = 1 PROVE FALSE
        <5>1. \A n \in Nat : n = 0 \/ n = 1 \/ n > 1
          OBVIOUS
        <5> QED BY <1>2, <3>1, <5>1
      <4>2. \A i \in 1..Len(s) : t[i] = s[i]
        BY <1>4, <3>1, <4>1
      <4>3. Len(s) <= Len(t)
        BY <1>2, <2>2
      <4> QED BY <1>2, <2>2, <4>2, <4>3, PrefixIff
    <3>4. same
      BY <1>4, <2>2, <3>2, <3>3
    <3> QED BY <1>4, <1>5, <3>1, <3>4
  <2> QED BY <2>1, <2>2
<1>14. ASSUME d # "none"
       PROVE  /\ ~IsPrefix(s, t) /\ Len(s) >= 2 /\ Prefix(p.request) = Front(s) /\ s # <<>>
              /\ d = IF Len(t) >= Len(s) - 1 /\ ChainAt(t, Len(s) - 1) = Front(s)
                     THEN "tail" ELSE "history"
  <2>1. o = "messages_rewritten" /\ d = DivergenceWhere(p, b)
    BY <1>14
  <2>2. s # t /\ ~IsPrefix(s, t)
    BY <1>11, <1>12, <2>1
  <2>3. Len(s) >= 2
    BY <1>1, <1>2, <1>14, <2>1 DEF DivergenceWhere
  <2>4. Prefix(p.request) = Front(s) /\ s # <<>>
    BY <1>2, <2>3 DEF Prefix
  <2> QED BY <1>1, <1>2, <2>1, <2>2, <2>3, <2>4 DEF DivergenceWhere
<1>15. ASSUME s # <<>>
       PROVE  Len(t) >= Len(s) - 1 /\ ChainAt(t, Len(s) - 1) = Front(s)
                <=> IsPrefix(Front(s), t)
  <2>1. Len(t) >= Len(s) - 1 => ChainAt(t, Len(s) - 1) = SubSeq(t, 1, Len(s) - 1)
    BY <1>2 DEF ChainAt
  <2>2. IsPrefix(Front(s), t)
          <=> Len(s) - 1 <= Len(t) /\ SubSeq(t, 1, Len(s) - 1) = Front(s)
    BY <1>10, <1>15, PrefixIs
  <2> QED BY <1>2, <2>1, <2>2
<1>16. /\ d = "tail" => ~IsPrefix(s, t) /\ IsPrefix(Front(s), t)
       /\ d = "history" => ~IsPrefix(Front(s), t)
  BY <1>14, <1>15
<1> QED BY <1>11, <1>12, <1>13, <1>16 DEF ToldRight, Edited

LEMMA ClassifiedStep ==
  ASSUME IInv, ClassifiedRight, [Next]_vars
  PROVE  ClassifiedRight'
<1> USE DEF storeVars, countVars, localVars
<1> DEFINE Right(r) == /\ pc[r] = "bump" /\ before[r] # Zero
                       /\ before[r].system = body[r].system
                       => ToldRight(before[r].messages, body[r].messages,
                                    outcome[r], divergence[r])
<1>1. ClassifiedRight <=> \A r \in Requests : Right(r)
  BY DEF ClassifiedRight, ToldRight
<1>2. ClassifiedRight' <=> \A r \in Requests : Right(r)'
  BY DEF ClassifiedRight, ToldRight, Edited
(* a request waiting to count is left as it is by the steps of others *)
<1>3. ASSUME NEW q \in Requests, Right(q),
             pc'[q] = "bump" => /\ pc[q] = "bump" /\ before'[q] = before[q]
                                /\ body'[q] = body[q] /\ outcome'[q] = outcome[q]
                                /\ divergence'[q] = divergence[q]
      PROVE  Right(q)'
  BY <1>3 DEF ToldRight, Edited
<1> HIDE DEF Right
<1>4. ASSUME NEW r \in Requests, Store(r) PROVE ClassifiedRight'
  <2>1. Right(r)'
    <3>1. SUFFICES ASSUME before'[r] # Zero, before'[r].system = body[r].system
                   PROVE  ToldRight(before'[r].messages, body[r].messages,
                                    outcome'[r], divergence'[r])
      BY <1>4 DEF Right, Store, ToldRight, Edited
    <3>2. /\ pc[r] = "put" /\ body[r] \in Bodies
          /\ outcome'[r] = Classify(prev[r], body[r])
          /\ divergence'[r] = IF outcome'[r] = "messages_rewritten"
                              THEN DivergenceWhere(prev[r], body[r]) ELSE "none"
      BY <1>4 DEF Store, IInv, Typed
    <3>3. prev[r].known /\ before'[r] = prev[r].request
      BY <1>4, <3>1 DEF Store, IInv, Typed
    <3>4. Describes(prev[r], SessionKey(body[r]))
      BY <3>2, <3>3 DEF IInv, PrevInv, Unknown
    <3>5. body[r].system = prev[r].system
      BY <3>1, <3>3, <3>4 DEF Describes
    <3> QED BY <3>2, <3>3, <3>4, <3>5, ClassifyRight
  <2>2. ASSUME NEW q \in Requests, q # r PROVE Right(q)'
    <3>1. pc'[q] = pc[q] /\ before'[q] = before[q] /\ body'[q] = body[q]
          /\ outcome'[q] = outcome[q] /\ divergence'[q] = divergence[q]
      BY <1>4, <2>2 DEF Store, IInv, Typed
    <3> QED BY <1>1, <1>3, <3>1
  <2> QED BY <1>2, <2>1, <2>2
<1>5. ASSUME NEW r \in Requests, Begin(r) \/ Look(r) \/ CountBump(r) \/ Add(r)
      PROVE  ClassifiedRight'
  <2>1. ASSUME NEW q \in Requests, pc'[q] = "bump"
        PROVE  /\ pc[q] = "bump" /\ before'[q] = before[q] /\ body'[q] = body[q]
               /\ outcome'[q] = outcome[q] /\ divergence'[q] = divergence[q]
    BY <1>5, <2>1 DEF Begin, Look, CountBump, Add, IInv, Typed
  <2> QED BY <1>1, <1>2, <1>3, <2>1
<1>6. CASE Tick \/ UNCHANGED vars
  BY <1>1, <1>2, <1>3, <1>6 DEF Tick, vars
<1> QED BY <1>4, <1>5, <1>6 DEF Next

(* What an observation says of a request is true of the messages: a history *)
(* counts as extended, edited at its end or rewritten just when it is, for  *)
(* histories of any length (classify and divergence in classifier.go).      *)
THEOREM Classified == Spec => []ClassifiedRight
<1>1. Init => ClassifiedRight
  BY DEF Init, ClassifiedRight
<1> QED BY <1>1, ClassifiedStep, Invariant, PTL DEF Spec
=============================================================================
