------------------------ MODULE ResponseRoutesProofs ------------------------
(* The registry leads every call for a stored response to the instance that *)
(* created it and stays within its bound, for any numbers of requests,      *)
(* responses, instances, models and routes.                                 *)
EXTENDS ResponseRoutes, FiniteSetTheorems, TLAPS

(* A route names the instance that created the response: somebody did. *)
RouteInv == \A i \in Ids : route[i] # NoRoute =>
              route[i].dep = owner[i] /\ owner[i] # None

(* What a request in state s between two of its steps knows about the       *)
(* instance it calls and about the response it is about to remember.        *)
Knows(s, own) ==
  /\ s.pc = "lookup" => Wanted(s) \in Ids
  /\ s.pc = "resolve" => Creates(s) /\ Wanted(s) = None
  /\ s.pc \in {"check", "call"} =>
       /\ s.target # None
       /\ Creates(s) \/ s.id \in Ids
       /\ Wanted(s) # None => s.target = own[Wanted(s)]
  /\ s.pc \in {"remember", "stream"} =>
       s.id \in Ids /\ s.dep # None /\ own[s.id] = s.dep
  /\ s.pc = "forget" => s.id \in Ids

LocalInv == \A r \in Requests : Knows(req[r], owner)

IInv == TypeOK /\ RouteInv /\ LocalInv

Step(r) ==
  \/ CreateResponse(r) \/ StoredResponse(r) \/ Lookup(r) \/ Resolve(r)
  \/ Check(r) \/ FailsOver(r) \/ Created(r) \/ Answered(r) \/ Deleted(r)
  \/ RememberCreated(r) \/ StreamEvent(r) \/ StreamEnds(r) \/ Forget(r)

-----------------------------------------------------------------------------
(* remember adds one route, and only takes away others. *)
LEMMA RememberEffect ==
  ASSUME TypeOK, NEW i \in Ids, NEW d \in Instances \cup {None}, Remember(i, d)
  PROVE  /\ route' \in [Ids -> Route]
         /\ recency' \in [Ids -> 0..RouteTTL]
         /\ \A j \in Ids \ {i} : route'[j] \in {route[j], NoRoute}
         /\ route'[i] = [dep |-> d, left |-> RouteTTL]
BY RoutesAssumption DEF TypeOK, Remember, NoRoute, Route

LEMMA RememberRoutes ==
  ASSUME TypeOK, RouteInv, NEW i \in Ids, NEW d \in Instances, Remember(i, d),
         owner[i] = d, owner' = owner
  PROVE  RouteInv'
<1>1. /\ \A j \in Ids \ {i} : route'[j] \in {route[j], NoRoute}
      /\ route'[i].dep = d
  <2>1. d \in Instances \cup {None}
    OBVIOUS
  <2>2. route'[i] = [dep |-> d, left |-> RouteTTL]
    BY <2>1, RememberEffect
  <2>3. \A j \in Ids \ {i} : route'[j] \in {route[j], NoRoute}
    BY <2>1, RememberEffect
  <2>4. QED
    BY <2>2, <2>3
<1>2. d # None
  BY RoutesAssumption
<1>3. QED
  BY <1>1, <1>2 DEF RouteInv

(* A request may forget all it knows. *)
LEMMA IdleKnows ==
  /\ Idle \in RequestState
  /\ \A own : Knows(Idle, own)
BY DEF Idle, RequestState, Knows

(* The requests a step leaves alone keep what they know. *)
LEMMA Becoming ==
  ASSUME IInv, NEW r \in Requests, NEW s \in RequestState,
         Becomes(r, s), Knows(s, owner), owner' = owner
  PROVE  req' \in [Requests -> RequestState] /\ LocalInv'
BY DEF IInv, TypeOK, LocalInv, Becomes, Knows

LEMMA Finishing ==
  ASSUME IInv, NEW r \in Requests, Finish(r), owner' = owner
  PROVE  req' \in [Requests -> RequestState] /\ LocalInv'
BY IdleKnows, Becoming DEF Finish

-----------------------------------------------------------------------------
LEMMA StepInv ==
  ASSUME IInv, NEW r \in Requests, Step(r)
  PROVE  IInv'
<1> USE RoutesAssumption
<1>0. req[r] \in RequestState /\ Knows(req[r], owner)
  BY DEF IInv, TypeOK, LocalInv
(* the steps that leave the registry and the instances alone *)
<1>a. ASSUME req' \in [Requests -> RequestState], LocalInv',
             UNCHANGED <<route, owner, gone, recency>>
      PROVE  IInv'
  BY <1>a DEF IInv, TypeOK, RouteInv
<1>1. CASE CreateResponse(r)
  <2>1. PICK op \in {"create", "stream"}, i \in Ids \cup {None},
             m \in Models \cup {None} :
          Becomes(r, [Idle EXCEPT !.pc = IF i = None THEN "resolve" ELSE "lookup",
                                  !.op = op, !.prev = i, !.model = m])
    BY <1>1 DEF CreateResponse
  <2> DEFINE s == [Idle EXCEPT !.pc = IF i = None THEN "resolve" ELSE "lookup",
                               !.op = op, !.prev = i, !.model = m]
  <2>2. s \in RequestState
    BY DEF Idle, RequestState
  <2>3. Knows(s, owner)
    BY DEF Idle, Knows, Wanted, Creates
  <2>4. QED
    BY <1>1, <1>a, <2>1, <2>2, <2>3, Becoming DEF CreateResponse
<1>2. CASE StoredResponse(r)
  <2>1. PICK op \in {"get", "delete"}, i \in Ids :
          Becomes(r, [Idle EXCEPT !.pc = "lookup", !.op = op, !.id = i])
    BY <1>2 DEF StoredResponse
  <2> DEFINE s == [Idle EXCEPT !.pc = "lookup", !.op = op, !.id = i]
  <2>2. s \in RequestState
    BY DEF Idle, RequestState
  <2>3. Knows(s, owner)
    BY DEF Idle, Knows, Wanted, Creates
  <2>4. QED
    BY <1>2, <1>a, <2>1, <2>2, <2>3, Becoming DEF StoredResponse
<1>3. CASE Lookup(r)
  <2> DEFINE i == Wanted(req[r])
             s == [req[r] EXCEPT !.pc = IF req[r].model = None THEN "call" ELSE "check",
                                 !.dep = route[i].dep, !.target = route[i].dep]
  <2>1. i \in Ids /\ UNCHANGED <<owner, gone, recency>>
    BY <1>0, <1>3 DEF Lookup, Knows
  <2>2. CASE i \in Current /\ Becomes(r, s) /\ UNCHANGED route
    <3>1. route[i] # NoRoute /\ route[i].dep \in Instances \cup {None}
      BY <2>1, <2>2 DEF Current, NoRoute, IInv, TypeOK, Route
    <3>2. route[i].dep = owner[i] /\ owner[i] # None
      BY <2>1, <3>1 DEF IInv, RouteInv
    <3>3. s \in RequestState
      BY <1>0, <3>1, ZenonT(40) DEF RequestState
    <3>4. /\ s.pc \in {"call", "check"} /\ s.target = owner[i] /\ Wanted(s) = i
          /\ Creates(s) \/ s.id \in Ids
      BY <1>0, <2>1, <3>2 DEF RequestState, Wanted, Creates
    <3>5. Knows(s, owner)
      BY <3>2, <3>4 DEF Knows
    <3>6. QED
      BY <1>a, <2>1, <2>2, <3>3, <3>5, Becoming
  <2>3. CASE route' = [route EXCEPT ![i] = NoRoute] /\ Finish(r)
    <3>1. route' \in [Ids -> Route] /\ RouteInv'
      BY <2>1, <2>3 DEF IInv, TypeOK, RouteInv, Route, NoRoute
    <3>2. QED
      BY <2>1, <2>3, <3>1, Finishing DEF IInv, TypeOK
  <2>4. QED
    BY <1>3, <2>2, <2>3 DEF Lookup
<1>4. CASE Resolve(r)
  <2>1. CASE Finish(r)
    BY <1>4, <1>a, <2>1, Finishing DEF Resolve
  <2>2. ASSUME NEW d \in Serving(req[r].model),
               Becomes(r, [req[r] EXCEPT !.pc = "call", !.dep = d, !.target = d])
        PROVE  IInv'
    <3> DEFINE s == [req[r] EXCEPT !.pc = "call", !.dep = d, !.target = d]
    <3>1. d \in Instances
      BY DEF Serving
    <3>2. s \in RequestState
      BY <1>0, <3>1 DEF RequestState
    <3>3. s.pc = "call" /\ s.target = d /\ Wanted(s) = None /\ Creates(s)
      BY <1>0, <1>4 DEF RequestState, Resolve, Knows, Wanted, Creates
    <3>4. Knows(s, owner)
      BY <3>1, <3>3 DEF Knows
    <3>5. QED
      BY <1>4, <1>a, <2>2, <3>2, <3>4, Becoming DEF Resolve
  <2>3. QED
    BY <1>4, <2>1, <2>2 DEF Resolve
<1>5. CASE Check(r)
  <2> DEFINE s == [req[r] EXCEPT !.pc = "call"]
  <2>1. s \in RequestState
    BY <1>0 DEF RequestState
  <2>2. /\ s.pc = "call" /\ s.target = req[r].target /\ s.id = req[r].id
        /\ Wanted(s) = Wanted(req[r]) /\ Creates(s) = Creates(req[r])
    BY <1>0 DEF RequestState, Wanted, Creates
  <2>3. Knows(s, owner)
    BY <1>0, <1>5, <2>2 DEF Check, Knows
  <2>4. QED
    BY <1>5, <1>a, <2>1, <2>3, Becoming, Finishing DEF Check
<1>6. CASE FailsOver(r)
  <2>1. PICK d \in Instances : Becomes(r, [req[r] EXCEPT !.target = d])
    BY <1>6 DEF FailsOver, Serving
  <2> DEFINE s == [req[r] EXCEPT !.target = d]
  <2>2. s \in RequestState
    BY <1>0 DEF RequestState
  <2>3. s.pc = "call" /\ s.target = d /\ Wanted(s) = None /\ Creates(s)
    BY <1>0, <1>6 DEF RequestState, FailsOver, Wanted, Creates
  <2>4. Knows(s, owner)
    BY <2>3 DEF Knows
  <2>5. QED
    BY <1>6, <1>a, <2>1, <2>2, <2>4, Becoming DEF FailsOver
<1>7. CASE Created(r)
  <2> DEFINE d == req[r].target
             Next1 == IF req[r].op = "stream" THEN "stream" ELSE "remember"
             s(i) == [req[r] EXCEPT !.id = i, !.dep = d, !.pc = Next1]
  <2>1. PICK i \in Ids : /\ owner[i] = None
                         /\ owner' = [owner EXCEPT ![i] = d]
                         /\ Becomes(r, s(i))
    BY <1>7 DEF Created
  <2>2. d \in Instances /\ UNCHANGED <<route, gone, recency>>
    BY <1>0, <1>7 DEF Created, Knows, RequestState
  <2>3. owner' \in [Ids -> Instances \cup {None}] /\ owner'[i] = d
    BY <2>1, <2>2 DEF IInv, TypeOK
  <2>4. RouteInv'
    BY <2>1, <2>2 DEF IInv, TypeOK, RouteInv
  <2>5. s(i) \in RequestState
    BY <1>0, <2>2 DEF RequestState
  <2>6. s(i).pc \in {"stream", "remember"} /\ s(i).id = i /\ s(i).dep = d
    BY <1>0 DEF RequestState
  <2>7. Knows(s(i), owner')
    BY <2>2, <2>3, <2>6 DEF Knows
  <2>8. ASSUME NEW q \in Requests
        PROVE  Knows(req[q], owner')
    (* whoever was not None is not i *)
    <3>1. req[q] \in RequestState /\ Knows(req[q], owner)
      BY DEF IInv, TypeOK, LocalInv
    <3>2. \A j : j # i => owner'[j] = owner[j]
      BY <2>1 DEF IInv, TypeOK
    <3>3. CASE req[q].pc \in {"check", "call"}
      BY <2>1, <3>1, <3>2, <3>3 DEF Knows
    <3>4. CASE req[q].pc \notin {"check", "call"}
      BY <2>1, <3>1, <3>2, <3>4 DEF Knows
    <3>5. QED
      BY <3>3, <3>4
  <2>9. req' \in [Requests -> RequestState] /\ LocalInv'
    BY <2>1, <2>5, <2>7, <2>8 DEF Becomes, IInv, TypeOK, LocalInv
  <2>10. QED
    BY <2>2, <2>3, <2>4, <2>9 DEF IInv, TypeOK
<1>8. CASE Answered(r)
  BY <1>8, <1>a, Finishing DEF Answered
<1>9. CASE Deleted(r)
  <2> DEFINE s == [req[r] EXCEPT !.pc = "forget"]
  <2>1. req[r].id \in Ids
    BY <1>0, <1>9 DEF Deleted, Stores, Knows, Wanted, Creates, RequestState
  <2>2. s \in RequestState /\ s.pc = "forget" /\ s.id \in Ids
    BY <1>0, <2>1 DEF RequestState
  <2>3. Knows(s, owner)
    BY <2>2 DEF Knows
  <2>4. req' \in [Requests -> RequestState] /\ LocalInv'
    BY <1>9, <2>2, <2>3, Becoming, Finishing DEF Deleted
  <2>5. QED
    BY <1>9, <2>1, <2>4 DEF Deleted, IInv, TypeOK, RouteInv
<1>10. CASE RememberCreated(r)
  <2>0. Remember(req[r].id, req[r].dep) /\ owner' = owner
    BY <1>10 DEF RememberCreated
  <2>1. req[r].id \in Ids /\ req[r].dep \in Instances /\ owner[req[r].id] = req[r].dep
    BY <1>0, <1>10 DEF RememberCreated, Knows, RequestState
  <2>2. req' \in [Requests -> RequestState] /\ LocalInv'
    BY <1>10, Finishing DEF RememberCreated
  <2>3. TypeOK'
    BY <1>10, <2>1, <2>2, RememberEffect DEF RememberCreated, IInv, TypeOK
  <2>4. RouteInv'
    BY <2>0, <2>1, RememberRoutes DEF IInv
  <2>5. QED
    BY <2>2, <2>3, <2>4 DEF IInv
<1>11. CASE StreamEvent(r)
  <2>0. Remember(req[r].id, req[r].dep) /\ owner' = owner
    BY <1>11 DEF StreamEvent
  <2>1. req[r].id \in Ids /\ req[r].dep \in Instances /\ owner[req[r].id] = req[r].dep
    BY <1>0, <1>11 DEF StreamEvent, Knows, RequestState
  <2>2. TypeOK'
    BY <1>11, <2>1, RememberEffect DEF StreamEvent, IInv, TypeOK
  <2>3. RouteInv'
    BY <2>0, <2>1, RememberRoutes DEF IInv
  <2>4. LocalInv'
    BY <1>11 DEF StreamEvent, IInv, LocalInv, Knows
  <2>5. QED
    BY <2>2, <2>3, <2>4 DEF IInv
<1>12. CASE StreamEnds(r)
  BY <1>12, <1>a, Finishing DEF StreamEnds
<1>13. CASE Forget(r)
  <2>1. req' \in [Requests -> RequestState] /\ LocalInv'
    BY <1>13, Finishing DEF Forget
  <2>2. req[r].id \in Ids
    BY <1>0, <1>13 DEF Forget, Knows
  <2>3. route' \in [Ids -> Route] /\ RouteInv'
    BY <1>13, <2>2 DEF Forget, IInv, TypeOK, RouteInv, Route, NoRoute
  <2>4. QED
    BY <1>13, <2>1, <2>3 DEF Forget, IInv, TypeOK
<1>14. QED
  BY <1>1, <1>2, <1>3, <1>4, <1>5, <1>6, <1>7, <1>8, <1>9, <1>10, <1>11,
     <1>12, <1>13 DEF Step

LEMMA TickInv ==
  ASSUME IInv, Tick
  PROVE  IInv'
<1>1. TypeOK'
  <2>1. \A n \in 0..RouteTTL : Less(n) \in 0..RouteTTL
    BY RoutesAssumption DEF Less
  <2>2. \A i \in Ids : [route[i] EXCEPT !.left = Less(@)] \in Route
    BY <2>1 DEF IInv, TypeOK, Route
  <2>3. QED
    BY <2>1, <2>2 DEF Tick, IInv, TypeOK
<1>2. RouteInv'
  BY RoutesAssumption DEF Tick, Less, IInv, TypeOK, Route, RouteInv, NoRoute
<1>3. LocalInv'
  BY DEF Tick, IInv, LocalInv, Knows
<1>4. QED
  BY <1>1, <1>2, <1>3 DEF IInv

(* A bounded set of routes stays bounded when routes only go. *)
LEMMA FewerRoutes ==
  ASSUME Bounded, Routed' \subseteq Routed
  PROVE  Bounded'
<1>1. IsFiniteSet(Routed)
  BY RoutesAssumption, FS_Subset DEF Routed
<1>2. /\ Cardinality(Routed) \in Nat /\ Cardinality(Routed') \in Nat
      /\ Cardinality(Routed') <= Cardinality(Routed)
  BY <1>1, FS_Subset, FS_CardinalityType
<1>3. QED
  BY <1>2, RoutesAssumption DEF Bounded

(* remember makes room before it takes it. *)
LEMMA RememberBounded ==
  ASSUME TypeOK, Bounded, NEW i \in Ids, NEW d, Remember(i, d)
  PROVE  Bounded'
<1> USE RoutesAssumption
<1>1. PICK e \in Evictable(i) :
        route' = [j \in Ids |-> IF j = i THEN [dep |-> d, left |-> RouteTTL]
                                ELSE IF j \in Current \ {e} THEN route[j]
                                ELSE NoRoute]
  BY DEF Remember
<1>2. Routed' \subseteq (Current \ {e}) \cup {i}
  BY <1>1 DEF Routed, NoRoute
<1>3. Current \subseteq Routed
  BY DEF Current, Routed, NoRoute
<1>4. /\ IsFiniteSet(Routed) /\ IsFiniteSet(Current)
      /\ Cardinality(Current) \in Nat /\ Cardinality(Current) <= MaxRoutes
  <2>1. IsFiniteSet(Routed)
    BY FS_Subset DEF Routed
  <2>2. IsFiniteSet(Current) /\ Cardinality(Current) <= Cardinality(Routed)
    BY <2>1, <1>3, FS_Subset
  <2>3. Cardinality(Current) \in Nat /\ Cardinality(Routed) \in Nat
    BY <2>1, <2>2, FS_CardinalityType
  <2>4. QED
    BY <2>1, <2>2, <2>3 DEF Bounded
<1>5. /\ IsFiniteSet((Current \ {e}) \cup {i})
      /\ Cardinality((Current \ {e}) \cup {i}) <= MaxRoutes
  <2> DEFINE Rest == Current \ {e}
  <2>1. /\ IsFiniteSet(Rest) /\ Cardinality(Rest) \in Nat
        /\ Cardinality(Rest) = IF e \in Current THEN Cardinality(Current) - 1
                               ELSE Cardinality(Current)
    BY <1>4, FS_RemoveElement, FS_CardinalityType
  <2>2. /\ IsFiniteSet(Rest \cup {i})
        /\ Cardinality(Rest \cup {i}) = IF i \in Rest THEN Cardinality(Rest)
                                        ELSE Cardinality(Rest) + 1
    BY <2>1, FS_AddElement
  <2>3. CASE i \in Current \/ Cardinality(Current) < MaxRoutes
    <3>1. e = None /\ e \notin Current
      BY <2>3, <1>1 DEF Evictable, Current
    <3>2. QED
      BY <1>4, <2>1, <2>2, <2>3, <3>1
  <2>4. CASE ~(i \in Current \/ Cardinality(Current) < MaxRoutes)
    <3>1. e \in Current
      BY <2>4, <1>1 DEF Evictable
    <3>2. QED
      BY <1>4, <2>1, <2>2, <3>1
  <2>5. QED
    BY <2>3, <2>4
<1>6. Cardinality(Routed') <= Cardinality((Current \ {e}) \cup {i})
  BY <1>2, <1>5, FS_Subset
<1>7. IsFiniteSet(Routed')
  BY <1>2, <1>5, FS_Subset
<1>8. Cardinality(Routed') \in Nat /\ Cardinality((Current \ {e}) \cup {i}) \in Nat
  BY <1>5, <1>7, FS_CardinalityType
<1>9. QED
  BY <1>5, <1>6, <1>8 DEF Bounded

LEMMA BoundedPreserved ==
  ASSUME IInv, Bounded, [Next]_vars
  PROVE  Bounded'
<1>1. ASSUME NEW r \in Requests, Step(r)
      PROVE  Bounded'
  <2>1. req[r] \in RequestState /\ Knows(req[r], owner)
    BY DEF IInv, TypeOK, LocalInv
  <2>2. CASE RememberCreated(r) \/ StreamEvent(r)
    BY <2>1, <2>2, RememberBounded DEF IInv, RememberCreated, StreamEvent, Knows
  <2>3. CASE Lookup(r) \/ Forget(r)
    <3>1. Routed' \subseteq Routed
      BY <2>3 DEF Lookup, Forget, Routed, IInv, TypeOK
    <3>2. QED
      BY <3>1, FewerRoutes
  <2>4. CASE UNCHANGED route
    BY <2>4, FewerRoutes DEF Routed
  <2>5. QED
    BY <1>1, <2>2, <2>3, <2>4 DEF Step, CreateResponse, StoredResponse, Resolve,
       Check, FailsOver, Created, Answered, Deleted, StreamEnds
<1>2. CASE Tick
  <2>1. Routed' \subseteq Routed
    BY <1>2 DEF Tick, Routed, NoRoute, Less, IInv, TypeOK, Route
  <2>2. QED
    BY <2>1, FewerRoutes
<1>3. CASE UNCHANGED vars
  BY <1>3, FewerRoutes DEF vars, Routed
<1>4. QED
  BY <1>1, <1>2, <1>3 DEF Next, Step

LEMMA Invariant == Spec => []IInv
<1>1. Init => IInv
  <2>1. Init => TypeOK /\ RouteInv
    BY IdleKnows, RoutesAssumption DEF Init, TypeOK, RouteInv, NoRoute, Route
  <2>2. Init => LocalInv
    BY IdleKnows DEF Init, LocalInv
  <2>3. QED
    BY <2>1, <2>2 DEF IInv
<1>2. IInv /\ [Next]_vars => IInv'
  <2>1. IInv /\ UNCHANGED vars => IInv'
    BY DEF vars, IInv, TypeOK, RouteInv, LocalInv, Knows
  <2>2. QED
    BY <2>1, StepInv, TickInv DEF Next, Step
<1>3. QED
  BY <1>1, <1>2, PTL DEF Spec

-----------------------------------------------------------------------------
(* What eviction may take.  The history counts the time of a route as long  *)
(* as the registry has it, and forget is for deleted responses only.        *)
AgeInv == \A i \in Current : recency[i] = route[i].left
ForgetInv == \A r \in Requests : req[r].pc = "forget" => req[r].id \in gone

Younger(i) == {j \in Ids \ {i} : recency[j] >= recency[i]}

(* The one that makes room is among the oldest, and with the new one there  *)
(* are as many after it as the registry holds.                              *)
LEMMA RememberRecent ==
  ASSUME IInv, AgeInv, RecentKept, NEW x \in Ids, NEW d \in Instances, Remember(x, d),
         gone' = gone
  PROVE  AgeInv' /\ RecentKept'
<1>. USE RoutesAssumption
<1>0. TypeOK
  BY DEF IInv
<1>1. PICK e \in Evictable(x) :
        route' = [j \in Ids |-> IF j = x THEN [dep |-> d, left |-> RouteTTL]
                                ELSE IF j \in Current \ {e} THEN route[j]
                                ELSE NoRoute]
  BY DEF Remember
<1>2. /\ recency'[x] = RouteTTL /\ \A j \in Ids \ {x} : recency'[j] = recency[j]
      /\ \A j \in Ids : recency[j] \in 0..RouteTTL
  BY <1>0 DEF Remember, TypeOK
<1>3. /\ x \in Current' /\ route'[x].left = RouteTTL
      /\ \A j \in Ids \ {x} : j \in Current' <=> j \in Current \ {e}
      /\ \A j \in Current \ {e, x} : route'[j] = route[j]
  BY <1>1 DEF Current, NoRoute
<1>4. AgeInv'
  BY <1>2, <1>3 DEF AgeInv, Current
<1>5. ASSUME NEW i \in Ids \ gone, recency'[i] > 0, i \notin Current'
      PROVE  Cardinality(Younger(i)') >= MaxRoutes
  <2>1. i # x /\ recency'[i] = recency[i] /\ (i \in Current => i = e)
    BY <1>2, <1>3, <1>5
  <2>2. ASSUME NEW S, S \subseteq Younger(i)', Cardinality(S) >= MaxRoutes
        PROVE  Cardinality(Younger(i)') >= MaxRoutes
    <3>1. IsFiniteSet(Younger(i)')
      BY FS_Subset DEF Younger
    <3>2. /\ Cardinality(S) \in Nat /\ Cardinality(Younger(i)') \in Nat
          /\ Cardinality(S) <= Cardinality(Younger(i)')
      BY <2>2, <3>1, FS_Subset, FS_CardinalityType
    <3>. QED  BY <2>2, <3>2
  <2>3. CASE i \notin Current
    <3>1. Cardinality(Younger(i)) >= MaxRoutes
      BY <1>5, <2>1, <2>3 DEF RecentKept, Younger
    <3>2. Younger(i) \subseteq Younger(i)'
      BY <1>2, <2>1 DEF Younger
    <3>. QED  BY <2>2, <3>1, <3>2
  <2>4. CASE i \in Current
    <3>1. /\ x \notin Current /\ ~(Cardinality(Current) < MaxRoutes)
          /\ \A k \in Current : route[i].left <= route[k].left
      BY <1>1, <2>1, <2>4 DEF Evictable
    <3>. DEFINE S == (Current \ {i}) \cup {x}
    <3>2. S \subseteq Younger(i)'
      <4>1. ASSUME NEW j \in Current \ {i} PROVE j \in Younger(i)'
        BY <1>2, <2>1, <2>4, <3>1 DEF Younger, AgeInv, Current
      <4>2. x \in Younger(i)'
        BY <1>2, <2>1 DEF Younger
      <4>. QED  BY <4>1, <4>2
    <3>3. IsFiniteSet(Current) /\ Cardinality(Current) \in Nat
      BY FS_Subset, FS_CardinalityType DEF Current
    <3>4. /\ IsFiniteSet(Current \ {i})
          /\ Cardinality(Current \ {i}) = Cardinality(Current) - 1
      BY <2>4, <3>3, FS_RemoveElement
    <3>5. Cardinality(S) = Cardinality(Current)
      <4>1. x \notin Current \ {i}
        BY <3>1
      <4>2. Cardinality((Current \ {i}) \cup {x}) = Cardinality(Current \ {i}) + 1
        BY <3>4, <4>1, FS_AddElement
      <4>. QED  BY <3>3, <3>4, <4>2
    <3>6. Cardinality(S) >= MaxRoutes
      BY <3>1, <3>3, <3>5
    <3>. QED  BY <2>2, <3>2, <3>6
  <2>. QED  BY <2>3, <2>4
<1>6. RecentKept'
  BY <1>5 DEF RecentKept, Younger
<1>. QED  BY <1>4, <1>6

(* All other steps take a route away only when it expires or is deleted.    *)
LEMMA RecentStep ==
  ASSUME IInv, AgeInv, ForgetInv, RecentKept, [Next]_vars
  PROVE  AgeInv' /\ ForgetInv' /\ RecentKept'
<1>. USE RoutesAssumption
<1>1. ASSUME NEW r \in Requests, Step(r) PROVE ForgetInv'
  <2>. DEFINE s == [req[r] EXCEPT !.pc = "forget"]
  <2>0. req[r] \in RequestState /\ req = [q \in Requests |-> req[q]]
    BY DEF IInv, TypeOK
  <2>1. CASE Deleted(r)
    <3>1. /\ gone' = gone \cup {req[r].id}
          /\ Becomes(r, Idle) \/ Becomes(r, s)
      BY <2>1 DEF Deleted, Finish
    <3>2. Idle.pc # "forget" /\ s.id = req[r].id
      BY <2>0 DEF Idle, RequestState
    <3>. QED  BY <2>0, <3>1, <3>2 DEF ForgetInv, Becomes
  <2>2. ASSUME gone' = gone, req'[r].pc # "forget",
               \A q \in Requests \ {r} : req'[q] = req[q]
        PROVE  ForgetInv'
    BY <2>2 DEF ForgetInv
  <2>3. CASE CreateResponse(r) \/ StoredResponse(r)
    BY <2>0, <2>2, <2>3 DEF CreateResponse, StoredResponse, Becomes, Idle
  <2>a. ASSUME gone' = gone, NEW t, Becomes(r, t), t.pc # "forget" PROVE ForgetInv'
    BY <2>0, <2>2, <2>a DEF Becomes
  <2>b. Idle.pc # "forget"
    BY DEF Idle
  <2>4. CASE Lookup(r) \/ Check(r)
    <3>. DEFINE d == route[Wanted(req[r])].dep
                known(c) == [req[r] EXCEPT !.pc = c, !.dep = d, !.target = d]
                called == [req[r] EXCEPT !.pc = "call"]
    <3>1. called.pc # "forget" /\ known("call").pc # "forget" /\ known("check").pc # "forget"
      BY <2>0 DEF RequestState
    <3>2. /\ gone' = gone
          /\ \/ Becomes(r, Idle) \/ Becomes(r, called)
             \/ Becomes(r, known("call")) \/ Becomes(r, known("check"))
      BY <2>4 DEF Lookup, Check, Finish
    <3>. QED  BY <2>a, <2>b, <3>1, <3>2
  <2>5. CASE Resolve(r) \/ FailsOver(r) \/ Created(r) \/ Answered(r)
    <3>1. CASE Finish(r)
      BY <2>5, <2>a, <2>b, <3>1 DEF Resolve, FailsOver, Created, Answered, Finish
    <3>2. CASE Resolve(r) /\ ~Finish(r)
      <4>1. PICK d \in Serving(req[r].model) :
              Becomes(r, [req[r] EXCEPT !.pc = "call", !.dep = d, !.target = d])
        BY <3>2 DEF Resolve
      <4>2. [req[r] EXCEPT !.pc = "call", !.dep = d, !.target = d].pc # "forget"
        BY <2>0 DEF RequestState
      <4>. QED  BY <2>a, <3>2, <4>1, <4>2 DEF Resolve
    <3>3. CASE FailsOver(r)
      <4>1. PICK d \in Serving(ModelOf[req[r].dep]) : Becomes(r, [req[r] EXCEPT !.target = d])
        BY <3>3 DEF FailsOver
      <4>2. [req[r] EXCEPT !.target = d].pc # "forget"
        BY <2>0, <3>3 DEF RequestState, FailsOver
      <4>. QED  BY <2>a, <3>3, <4>1, <4>2 DEF FailsOver
    <3>4. CASE Created(r)
      <4>. DEFINE new(i) == [req[r] EXCEPT !.id = i, !.dep = req[r].target,
                    !.pc = IF req[r].op = "stream" THEN "stream" ELSE "remember"]
      <4>1. PICK i \in Ids : Becomes(r, new(i))
        BY <3>4 DEF Created
      <4>2. new(i).pc # "forget"
        BY <2>0 DEF RequestState
      <4>. QED  BY <2>a, <3>4, <4>1, <4>2 DEF Created
    <3>. QED  BY <2>5, <3>1, <3>2, <3>3, <3>4 DEF Answered
  <2>6. CASE RememberCreated(r) \/ StreamEvent(r) \/ StreamEnds(r) \/ Forget(r)
    BY <2>0, <2>2, <2>6 DEF RememberCreated, StreamEvent, StreamEnds, Forget, Finish, Becomes, Idle
  <2>. QED  BY <1>1, <2>1, <2>3, <2>4, <2>5, <2>6 DEF Step
<1>2. ASSUME NEW r \in Requests, Step(r) PROVE AgeInv' /\ RecentKept'
  <2>1. req[r] \in RequestState /\ Knows(req[r], owner) /\ TypeOK
    BY DEF IInv, TypeOK, LocalInv
  <2>2. CASE RememberCreated(r) \/ StreamEvent(r)
    <3>1. /\ Remember(req[r].id, req[r].dep) /\ gone' = gone
          /\ req[r].id \in Ids /\ req[r].dep \in Instances
      BY <2>1, <2>2 DEF RememberCreated, StreamEvent, Knows, RequestState
    <3>. QED  BY <3>1, RememberRecent
  <2>3. CASE Lookup(r) \/ Forget(r)
    <3>1. /\ gone' = gone /\ recency' = recency
          /\ \A i \in Ids \ gone : i \in Current <=> i \in Current'
          /\ \A i \in Current' : i \in Current /\ route'[i] = route[i]
      BY <2>1, <2>3 DEF Lookup, Forget, ForgetInv, Current, TypeOK, NoRoute
    <3>. QED  BY <3>1 DEF AgeInv, RecentKept
  <2>4. CASE UNCHANGED <<route, recency>> /\ gone \subseteq gone'
    BY <2>4 DEF AgeInv, RecentKept, Current
  <2>. QED
    BY <1>2, <2>2, <2>3, <2>4 DEF Step, CreateResponse, StoredResponse, Resolve, Check,
       FailsOver, Created, Answered, Deleted, StreamEnds
<1>3. CASE Tick
  <2>1. /\ UNCHANGED <<req, gone>>
        /\ \A i \in Ids : /\ recency[i] \in Nat /\ route[i].left \in Nat
                          /\ recency'[i] = Less(recency[i])
                          /\ route'[i].left = Less(route[i].left)
    BY <1>3 DEF Tick, IInv, TypeOK, Route
  <2>2. AgeInv' /\ ForgetInv'
    BY <2>1 DEF AgeInv, ForgetInv, Current, Less
  <2>3. ASSUME NEW i \in Ids \ gone, recency'[i] > 0, i \notin Current'
        PROVE  Cardinality(Younger(i)') >= MaxRoutes
    <3>1. i \notin Current /\ recency[i] > 0
      BY <2>1, <2>3 DEF AgeInv, Current, Less
    <3>2. Younger(i) \subseteq Younger(i)'
      BY <2>1, <2>3 DEF Younger, Less
    <3>3. Cardinality(Younger(i)) >= MaxRoutes
      BY <3>1 DEF RecentKept, Younger
    <3>4. IsFiniteSet(Younger(i)')
      BY FS_Subset DEF Younger
    <3>5. /\ Cardinality(Younger(i)) \in Nat /\ Cardinality(Younger(i)') \in Nat
          /\ Cardinality(Younger(i)) <= Cardinality(Younger(i)')
      BY <3>2, <3>4, FS_Subset, FS_CardinalityType
    <3>. QED  BY <3>3, <3>5
  <2>. QED  BY <2>1, <2>2, <2>3 DEF RecentKept, Younger
<1>4. CASE UNCHANGED vars
  BY <1>4 DEF vars, AgeInv, ForgetInv, RecentKept, Current
<1>. QED  BY <1>1, <1>2, <1>3, <1>4 DEF Next, Step

-----------------------------------------------------------------------------
(* What can bring a deleted response back.  Until its creator has           *)
(* remembered it, nobody else can know a new response.                      *)
GoneInv == \A i \in gone : owner[i] # None

Unknowing(s, i) ==
  /\ s.pc \in {"check", "call"} => Wanted(s) # i
  /\ s.pc \in {"remember", "stream", "forget"} => s.id # i

NewInv ==
  \A r \in Requests : req[r].pc = "remember" =>
    /\ req[r].id \notin gone /\ route[req[r].id] = NoRoute
    /\ \A q \in Requests \ {r} : Unknowing(req[q], req[r].id)

(* What a step of one request must not do to the new response of another.   *)
LEMMA NewKept ==
  ASSUME IInv, NewInv, NEW r \in Requests, NEW t \in RequestState,
         \A q \in Requests \ {r} : req'[q] = req[q], req'[r] = t,
         \A q \in Requests \ {r} : req[q].pc = "remember" =>
           /\ Unknowing(t, req[q].id)
           /\ req[q].id \notin gone' /\ route'[req[q].id] = NoRoute,
         t.pc = "remember" =>
           /\ t.id \notin gone' /\ route'[t.id] = NoRoute
           /\ \A q \in Requests \ {r} : Unknowing(req[q], t.id)
  PROVE  NewInv'
BY DEF NewInv

LEMMA NewStep ==
  ASSUME IInv, ForgetInv, GoneInv, NewInv, NEW r \in Requests, Step(r)
  PROVE  NewInv'
<1>. USE RoutesAssumption
<1>0. /\ req[r] \in RequestState /\ Knows(req[r], owner) /\ TypeOK /\ RouteInv
      /\ req = [q \in Requests |-> req[q]]
      /\ \A q \in Requests : Knows(req[q], owner)
  BY DEF IInv, TypeOK, LocalInv
<1>i. Idle \in RequestState /\ Idle.pc = "idle" /\ \A i : Unknowing(Idle, i)
  BY IdleKnows DEF Idle, Unknowing
(* a request that learns nothing new *)
<1>a. ASSUME NEW t \in RequestState, Becomes(r, t), t.pc # "remember", gone' = gone,
             \A j \in Ids : route[j] = NoRoute => route'[j] = NoRoute,
             \A q \in Requests \ {r} : req[q].pc = "remember" => Unknowing(t, req[q].id)
      PROVE  NewInv'
  <2>1. \A q \in Requests \ {r} : req'[q] = req[q]
    BY <1>0, <1>a DEF Becomes
  <2>2. req'[r] = t
    BY <1>0, <1>a DEF Becomes
  <2>3. \A q \in Requests \ {r} : req[q].pc = "remember" =>
           req[q].id \notin gone' /\ route'[req[q].id] = NoRoute
    BY <1>0, <1>a DEF NewInv, Knows
  <2>. QED  BY <1>a, <2>1, <2>2, <2>3, NewKept
<1>b. ASSUME Finish(r), gone' = gone,
             \A j \in Ids : route[j] = NoRoute => route'[j] = NoRoute
      PROVE  NewInv'
  BY <1>a, <1>b, <1>i DEF Finish
<1>1. CASE CreateResponse(r)
  <2>1. PICK op \in {"create", "stream"}, i \in Ids \cup {None},
             m \in Models \cup {None} :
          Becomes(r, [Idle EXCEPT !.pc = IF i = None THEN "resolve" ELSE "lookup",
                                  !.op = op, !.prev = i, !.model = m])
    BY <1>1 DEF CreateResponse
  <2>. DEFINE s == [Idle EXCEPT !.pc = IF i = None THEN "resolve" ELSE "lookup",
                                !.op = op, !.prev = i, !.model = m]
  <2>2. s \in RequestState /\ s.pc \in {"resolve", "lookup"}
    BY DEF Idle, RequestState
  <2>. HIDE DEF s
  <2>3. \A i_1 : Unknowing(s, i_1)
    BY <2>2 DEF Unknowing
  <2>. QED  BY <1>1, <1>a, <2>1, <2>2, <2>3 DEF CreateResponse, s
<1>2. CASE StoredResponse(r)
  <2>1. PICK op \in {"get", "delete"}, i \in Ids :
          Becomes(r, [Idle EXCEPT !.pc = "lookup", !.op = op, !.id = i])
    BY <1>2 DEF StoredResponse
  <2>. DEFINE s == [Idle EXCEPT !.pc = "lookup", !.op = op, !.id = i]
  <2>2. s \in RequestState /\ s.pc = "lookup"
    BY DEF Idle, RequestState
  <2>. HIDE DEF s
  <2>3. \A j : Unknowing(s, j)
    BY <2>2 DEF Unknowing
  <2>. QED  BY <1>2, <1>a, <2>1, <2>2, <2>3 DEF StoredResponse, s
<1>3. CASE Lookup(r)
  <2>. DEFINE i == Wanted(req[r])
              s == [req[r] EXCEPT !.pc = IF req[r].model = None THEN "call" ELSE "check",
                                  !.dep = route[i].dep, !.target = route[i].dep]
  <2>1. i \in Ids /\ gone' = gone
    BY <1>0, <1>3 DEF Lookup, Knows
  <2>2. CASE i \in Current /\ Becomes(r, s) /\ UNCHANGED route
    <3>1. route[i] # NoRoute /\ route[i].dep \in Instances \cup {None}
      BY <1>0, <2>1, <2>2 DEF Current, NoRoute, TypeOK, Route
    <3>2. s \in RequestState
      BY <1>0, <3>1, ZenonT(40) DEF RequestState
    <3>3. s.pc \in {"call", "check"} /\ Wanted(s) = i
      BY <1>0 DEF RequestState, Wanted, Creates
    <3>4. \A q \in Requests : req[q].pc = "remember" => req[q].id # i
      BY <3>1 DEF NewInv
    <3>. HIDE DEF s, i
    <3>5. \A q \in Requests : req[q].pc = "remember" => Unknowing(s, req[q].id)
      BY <3>3, <3>4 DEF Unknowing
    <3>. QED  BY <1>a, <2>1, <2>2, <3>2, <3>3, <3>5
  <2>3. CASE route' = [route EXCEPT ![i] = NoRoute] /\ Finish(r)
    BY <1>0, <1>b, <2>1, <2>3 DEF TypeOK
  <2>. QED  BY <1>3, <2>2, <2>3 DEF Lookup
<1>4. CASE Resolve(r) \/ Check(r) \/ FailsOver(r)
  <2>1. UNCHANGED <<route, gone>>
    BY <1>4 DEF Resolve, Check, FailsOver
  <2>2. CASE Finish(r)
    BY <1>b, <2>1, <2>2
  <2>3. CASE ~Finish(r)
    <3>1. PICK d \in Instances :
            \/ Becomes(r, [req[r] EXCEPT !.pc = "call", !.dep = d, !.target = d])
                 /\ Wanted(req[r]) = None
            \/ Becomes(r, [req[r] EXCEPT !.pc = "call"]) /\ req[r].pc = "check"
            \/ Becomes(r, [req[r] EXCEPT !.target = d]) /\ req[r].pc = "call"
      BY <1>0, <1>4, <2>3 DEF Resolve, Check, FailsOver, Serving, Knows
    <3>. DEFINE s1 == [req[r] EXCEPT !.pc = "call", !.dep = d, !.target = d]
                s2 == [req[r] EXCEPT !.pc = "call"]
                s3 == [req[r] EXCEPT !.target = d]
    <3>2. s1 \in RequestState /\ s2 \in RequestState /\ s3 \in RequestState
      BY <1>0 DEF RequestState
    <3>3. /\ s1.pc = "call" /\ s2.pc = "call" /\ s3.pc = req[r].pc
          /\ Wanted(s1) = Wanted(req[r]) /\ Wanted(s2) = Wanted(req[r])
          /\ Wanted(s3) = Wanted(req[r])
      BY <1>0 DEF RequestState, Wanted, Creates
    <3>. HIDE DEF s1, s2, s3
    <3>4. ASSUME NEW q \in Requests \ {r}, req[q].pc = "remember"
          PROVE  /\ Wanted(req[r]) = None => Unknowing(s1, req[q].id)
                 /\ req[r].pc = "check" => Unknowing(s2, req[q].id)
                 /\ req[r].pc = "call" => Unknowing(s3, req[q].id)
      <4>1. req[q].id \in Ids /\ Unknowing(req[r], req[q].id)
        BY <1>0, <3>4 DEF NewInv, Knows
      <4>. QED  BY <3>3, <4>1 DEF Unknowing
    <3>5. CASE Becomes(r, s1) /\ Wanted(req[r]) = None
      BY <1>a, <2>1, <3>2, <3>3, <3>4, <3>5
    <3>6. CASE Becomes(r, s2) /\ req[r].pc = "check"
      BY <1>a, <2>1, <3>2, <3>3, <3>4, <3>6
    <3>7. CASE Becomes(r, s3) /\ req[r].pc = "call"
      BY <1>a, <2>1, <3>2, <3>3, <3>4, <3>7
    <3>. QED  BY <3>1, <3>5, <3>6, <3>7 DEF s1, s2, s3
  <2>. QED  BY <2>2, <2>3
<1>5. CASE Created(r)
  <2>. DEFINE s(i) == [req[r] EXCEPT !.id = i, !.dep = req[r].target,
                          !.pc = IF req[r].op = "stream" THEN "stream" ELSE "remember"]
  <2>1. PICK i \in Ids : owner[i] = None /\ Becomes(r, s(i))
    BY <1>5 DEF Created
  <2>. DEFINE t == s(i)
  <2>2. /\ t \in RequestState /\ t.pc \in {"stream", "remember"} /\ t.id = i
    BY <1>0 DEF RequestState
  <2>3. /\ req'[r] = t /\ \A q \in Requests \ {r} : req'[q] = req[q]
        /\ UNCHANGED <<route, gone>>
    BY <1>0, <1>5, <2>1 DEF Becomes, Created
  <2>. HIDE DEF t
  <2>4. i \notin gone /\ route[i] = NoRoute
    BY <1>0, <2>1 DEF GoneInv, RouteInv
  <2>5. ASSUME NEW q \in Requests \ {r} PROVE Unknowing(req[q], i)
    BY <1>0, <2>1 DEF Unknowing, Knows, ForgetInv, GoneInv
  <2>6. ASSUME NEW q \in Requests \ {r}, req[q].pc = "remember"
        PROVE  /\ Unknowing(t, req[q].id)
               /\ req[q].id \notin gone' /\ route'[req[q].id] = NoRoute
    <3>1. owner[req[q].id] # None
      BY <1>0, <2>6 DEF Knows
    <3>. QED  BY <2>1, <2>2, <2>3, <2>6, <3>1 DEF Unknowing, NewInv
  <2>. QED  BY <2>2, <2>3, <2>4, <2>5, <2>6, NewKept
<1>6. CASE Answered(r) \/ StreamEnds(r)
  BY <1>6, <1>b DEF Answered, StreamEnds
<1>7. CASE Deleted(r)
  <2>. DEFINE s == [req[r] EXCEPT !.pc = "forget"]
  <2>1. s \in RequestState /\ s.pc = "forget" /\ s.id = req[r].id
    BY <1>0 DEF RequestState
  <2>2. PICK t \in {Idle, s} : Becomes(r, t)
    BY <1>7 DEF Deleted, Finish
  <2>3. /\ req'[r] = t /\ \A q \in Requests \ {r} : req'[q] = req[q]
        /\ route' = route /\ gone' = gone \cup {req[r].id}
    BY <1>0, <1>7, <2>2 DEF Becomes, Deleted
  <2>4. req[r].pc = "call" /\ Wanted(req[r]) = req[r].id
    BY <1>7 DEF Deleted, Wanted, Creates
  <2>. HIDE DEF s
  <2>5. ASSUME NEW q \in Requests \ {r}, req[q].pc = "remember"
        PROVE  /\ Unknowing(t, req[q].id)
               /\ req[q].id \notin gone' /\ route'[req[q].id] = NoRoute
    <3>1. Unknowing(req[r], req[q].id)
      BY <2>5 DEF NewInv
    <3>2. req[r].id # req[q].id
      BY <2>4, <3>1 DEF Unknowing
    <3>3. Unknowing(t, req[q].id)
      BY <1>i, <2>1, <3>2 DEF Unknowing
    <3>. QED  BY <2>3, <2>5, <3>2, <3>3 DEF NewInv
  <2>. QED  BY <1>i, <2>1, <2>3, <2>5, NewKept
<1>8. CASE RememberCreated(r) \/ StreamEvent(r)
  <2>1. /\ Remember(req[r].id, req[r].dep) /\ gone' = gone
        /\ req[r].id \in Ids /\ req[r].dep \in Instances \cup {None}
    BY <1>0, <1>8 DEF RememberCreated, StreamEvent, Knows, RequestState
  <2>2. \A j \in Ids \ {req[r].id} : route[j] = NoRoute => route'[j] = NoRoute
    BY <1>0, <2>1, RememberEffect
  <2>3. PICK t \in RequestState : /\ req'[r] = t /\ t \in {Idle, req[r]} /\ t.pc # "remember"
                                  /\ \A q \in Requests \ {r} : req'[q] = req[q]
    BY <1>0, <1>8, <1>i DEF RememberCreated, StreamEvent, Finish, Becomes
  <2>4. ASSUME NEW q \in Requests \ {r}, req[q].pc = "remember"
        PROVE  /\ Unknowing(t, req[q].id)
               /\ req[q].id \notin gone' /\ route'[req[q].id] = NoRoute
    <3>1. Unknowing(req[r], req[q].id) /\ req[q].id \in Ids
      BY <1>0, <2>4 DEF NewInv, Knows
    <3>2. req[r].id # req[q].id
      BY <1>8, <3>1 DEF Unknowing, RememberCreated, StreamEvent
    <3>. QED  BY <1>i, <2>1, <2>2, <2>3, <2>4, <3>1, <3>2 DEF NewInv
  <2>. QED  BY <2>3, <2>4, NewKept
<1>9. CASE Forget(r)
  BY <1>0, <1>9, <1>b DEF Forget, TypeOK
<1>. QED  BY <1>1, <1>2, <1>3, <1>4, <1>5, <1>6, <1>7, <1>8, <1>9 DEF Step

LEMMA GoneStep ==
  ASSUME IInv, GoneInv, NEW r \in Requests, Step(r)
  PROVE  GoneInv'
<1>1. req[r] \in RequestState /\ Knows(req[r], owner)
  BY DEF IInv, TypeOK, LocalInv
<1>2. CASE Deleted(r)
  BY <1>1, <1>2 DEF Deleted, Stores, GoneInv, Knows
<1>3. CASE Created(r)
  <2>1. PICK i \in Ids : owner[i] = None /\ owner' = [owner EXCEPT ![i] = req[r].target]
    BY <1>3 DEF Created
  <2>. QED  BY <1>3, <2>1 DEF Created, GoneInv, IInv, TypeOK
<1>4. CASE UNCHANGED <<owner, gone>>
  BY <1>4 DEF GoneInv
<1>. QED
  BY <1>2, <1>3, <1>4 DEF Step, CreateResponse, StoredResponse, Lookup, Resolve, Check,
     FailsOver, Answered, RememberCreated, StreamEvent, StreamEnds, Forget

(* Only remember makes a route, and only for the request's own response.    *)
LEMMA RouteMade ==
  ASSUME IInv, NewInv, [Next]_vars,
         NEW i \in gone, route[i] = NoRoute, route'[i] # NoRoute
  PROVE  \E r \in Requests : req[r].pc = "stream" /\ req[r].id = i
<1>0. TypeOK /\ i \in Ids
  BY DEF IInv, TypeOK
<1>1. ASSUME NEW r \in Requests, Step(r)
      PROVE  req[r].pc = "stream" /\ req[r].id = i
  <2>1. req[r] \in RequestState /\ Knows(req[r], owner)
    BY DEF IInv, TypeOK, LocalInv
  <2>2. CASE RememberCreated(r) \/ StreamEvent(r)
    <3>1. /\ Remember(req[r].id, req[r].dep)
          /\ req[r].id \in Ids /\ req[r].dep \in Instances \cup {None}
      BY <2>1, <2>2 DEF RememberCreated, StreamEvent, Knows, RequestState
    <3>2. req[r].id = i
      BY <1>0, <3>1, RememberEffect
    <3>. QED  BY <2>2, <3>2 DEF RememberCreated, StreamEvent, NewInv
  <2>3. CASE Lookup(r) \/ Forget(r)
    BY <1>0, <2>3 DEF Lookup, Forget, TypeOK
  <2>4. CASE UNCHANGED route
    BY <2>4
  <2>. QED
    BY <1>1, <2>2, <2>3, <2>4 DEF Step, CreateResponse, StoredResponse, Resolve, Check,
       FailsOver, Created, Answered, Deleted, StreamEnds
<1>2. CASE Tick
  <2>1. [NoRoute EXCEPT !.left = Less(@)] = NoRoute
    BY DEF NoRoute, Less
  <2>. QED  BY <1>0, <1>2, <2>1 DEF Tick
<1>3. CASE UNCHANGED vars
  BY <1>3 DEF vars
<1>. QED  BY <1>1, <1>2, <1>3 DEF Next, Step

-----------------------------------------------------------------------------
(* The types of the registry, the requests and the instances. *)
THEOREM TypeCorrect == Spec => []TypeOK
BY Invariant, PTL DEF IInv

(* A route names the instance that created its response, whatever failed    *)
(* over, was evicted or was deleted meanwhile.                              *)
THEOREM RoutesAreOwners == Spec => []RoutesToOwner
<1>1. IInv => RoutesToOwner
  BY DEF IInv, RouteInv, RoutesToOwner
<1>2. QED
  BY <1>1, Invariant, PTL

(* previous_response_id, GET and DELETE reach the owning instance. *)
THEOREM CallsReachOwner == Spec => []CallsOwner
<1>1. IInv => CallsOwner
  BY DEF IInv, LocalInv, Knows, CallsOwner
<1>2. QED
  BY <1>1, Invariant, PTL

(* The registry never holds more than its 10,000 routes. *)
THEOREM StaysBounded == Spec => []Bounded
<1>1. Init => Bounded
  <2>1. Init => Routed = {}
    BY DEF Init, Routed
  <2>2. QED
    BY <2>1, FS_EmptySet, RoutesAssumption DEF Bounded
<1>2. IInv /\ Bounded /\ [Next]_vars => Bounded'
  BY BoundedPreserved
<1>3. QED
  BY <1>1, <1>2, Invariant, PTL DEF Spec

(* A route goes missing before its time only when its response was deleted  *)
(* or as many as the registry holds were remembered since (remember, forget *)
(* in responses.go).                                                        *)
THEOREM RecentStay == Spec => []RecentKept
<1>1. Init => AgeInv /\ ForgetInv /\ RecentKept
  BY DEF Init, AgeInv, ForgetInv, RecentKept, Current, NoRoute, Idle
<1>2. IInv /\ AgeInv /\ ForgetInv /\ RecentKept /\ [Next]_vars
        => AgeInv' /\ ForgetInv' /\ RecentKept'
  BY RecentStep
<1>. QED  BY <1>1, <1>2, Invariant, PTL DEF Spec

(* A deleted response returns to the registry only through a stream that    *)
(* still reports it (lookup, remember and forget in responses.go).          *)
THEOREM DeletedStay == Spec => DeletedComesBackByStreamOnly
<1>. DEFINE All == IInv /\ AgeInv /\ ForgetInv /\ RecentKept /\ GoneInv /\ NewInv
<1>1. Init => All
  <2>1. Init => IInv
    BY IdleKnows, RoutesAssumption
    DEF Init, IInv, TypeOK, RouteInv, NoRoute, Route, LocalInv
  <2>2. Init => AgeInv /\ ForgetInv /\ RecentKept /\ GoneInv /\ NewInv
    BY DEF Init, AgeInv, ForgetInv, RecentKept, Current, NoRoute, Idle, GoneInv, NewInv
  <2>. QED  BY <2>1, <2>2
<1>2. All /\ [Next]_vars => All'
  <2>1. SUFFICES ASSUME All, [Next]_vars PROVE All'
    OBVIOUS
  <2>2. ASSUME NEW r \in Requests, Step(r) PROVE All'
    BY <2>1, <2>2, StepInv, RecentStep, GoneStep, NewStep DEF Step
  <2>3. CASE Tick
    <3>1. GoneInv' /\ NewInv'
      <4>1. [NoRoute EXCEPT !.left = Less(@)] = NoRoute
        BY DEF NoRoute, Less
      <4>2. \A i \in Ids : route[i] = NoRoute => route'[i] = NoRoute
        BY <2>3, <4>1 DEF Tick
      <4>3. \A r \in Requests : req[r].pc = "remember" => req[r].id \in Ids
        BY <2>1 DEF IInv, LocalInv, Knows
      <4>. QED  BY <2>1, <2>3, <4>2, <4>3 DEF Tick, GoneInv, NewInv, Unknowing
    <3>. QED  BY <2>1, <2>3, <3>1, TickInv, RecentStep
  <2>4. CASE UNCHANGED vars
    <3>1. IInv' /\ GoneInv' /\ NewInv'
      BY <2>1, <2>4 DEF vars, IInv, TypeOK, RouteInv, LocalInv, Knows, GoneInv, NewInv, Unknowing
    <3>. QED  BY <2>1, <3>1, RecentStep
  <2>. QED  BY <2>1, <2>2, <2>3, <2>4 DEF Next, Step
<1>3. All /\ [Next]_vars =>
        [\A i \in gone : route[i] = NoRoute /\ route'[i] # NoRoute
           => \E r \in Requests : req[r].pc = "stream" /\ req[r].id = i]_vars
  BY RouteMade
<1>. QED  BY <1>1, <1>2, <1>3, PTL DEF Spec, DeletedComesBackByStreamOnly
=============================================================================
