--------------------------- MODULE ResponseRoutes ---------------------------
(***************************************************************************)
(* The registry of src/internal/handler/openai/responses.go: which         *)
(* deployment stores a response of the Responses API, so that GET, DELETE  *)
(* and previous_response_id reach it.  The registry is guarded by a mutex; *)
(* the calls between its operations are not.                               *)
(*                                                                         *)
(* The responses the deployments store (owner, gone) are external.  How    *)
(* GetDeployment and CallStreaming choose an instance is the subject of    *)
(* DeploymentPool; here any instance of the model may be chosen.           *)
(***************************************************************************)
EXTENDS Naturals, FiniteSets

CONSTANTS
  Requests, Ids, Instances, Models,
  ModelOf,     \* the model an instance runs
  MaxRoutes,   \* maxResponseRoutes, 10,000
  RouteTTL,    \* responseRouteTTL, 24 h
  None

ASSUME RoutesAssumption ==
  /\ IsFiniteSet(Ids)
  /\ ModelOf \in [Instances -> Models]
  /\ MaxRoutes \in Nat \ {0}
  /\ RouteTTL \in Nat \ {0}
  /\ None \notin Ids \cup Instances \cup Models

VARIABLES
  route,    \* responseRegistry.routes: deployment and time left, 0 when expired
  req,      \* the local state of the requests
  owner,    \* the instance that created a response (external)
  gone,     \* the responses deleted from their instance (external)
  recency   \* the time left to each route when none were evicted (history)

vars == <<route, req, owner, gone, recency>>

NoRoute == [dep |-> None, left |-> 0]
Idle == [pc |-> "idle", op |-> None, prev |-> None, model |-> None,
         id |-> None, dep |-> None, target |-> None]

Init ==
  /\ route = [i \in Ids |-> NoRoute]
  /\ req = [r \in Requests |-> Idle]
  /\ owner = [i \in Ids |-> None]
  /\ gone = {}
  /\ recency = [i \in Ids |-> 0]

Routed == {i \in Ids : route[i] # NoRoute}
Current == {i \in Ids : route[i].left > 0}

-----------------------------------------------------------------------------
(* responseRegistry *)

(* Mutant: an update of a known id makes room as well. *)
EvictsOnUpdate(i) ==
  IF Cardinality(Current) < MaxRoutes THEN {None}
  ELSE {j \in Current : \A k \in Current : route[j].left <= route[k].left}

(* Mutant: one route too many. *)
EvictsLate(i) ==
  IF i \in Current \/ Cardinality(Current) <= MaxRoutes THEN {None}
  ELSE {j \in Current : \A k \in Current : route[j].left <= route[k].left}

(* Which route may make room for i: one with the earliest expiry, and only  *)
(* when i is new and the registry is full.                                  *)
Evictable(i) ==
  IF i \in Current \/ Cardinality(Current) < MaxRoutes THEN {None}
  ELSE {j \in Current : \A k \in Current : route[j].left <= route[k].left}

(* remember: the expired routes go, then at most one for want of room. *)
Remember(i, d) ==
  /\ \E evicted \in Evictable(i) :
       route' = [j \in Ids |-> IF j = i THEN [dep |-> d, left |-> RouteTTL]
                               ELSE IF j \in Current \ {evicted} THEN route[j]
                               ELSE NoRoute]
  /\ recency' = [recency EXCEPT ![i] = RouteTTL]

-----------------------------------------------------------------------------
(* A request *)

Creates(s) == s.op \in {"create", "stream"}

(* The response a request needs a route to. *)
Wanted(s) == IF Creates(s) THEN s.prev ELSE s.id

Becomes(r, s) == req' = [req EXCEPT ![r] = s]
Finish(r) == Becomes(r, Idle)

(* CreateResponse without a model and without a previous response, which is *)
(* turned down at once, is left out.                                        *)
CreateResponse(r) ==
  /\ req[r] = Idle
  /\ \E op \in {"create", "stream"}, i \in Ids \cup {None}, m \in Models \cup {None} :
       /\ i # None \/ m # None
       /\ Becomes(r, [Idle EXCEPT !.pc = IF i = None THEN "resolve" ELSE "lookup",
                                  !.op = op, !.prev = i, !.model = m])
  /\ UNCHANGED <<route, owner, gone, recency>>

StoredResponse(r) ==
  /\ req[r] = Idle
  /\ \E op \in {"get", "delete"}, i \in Ids :
       Becomes(r, [Idle EXCEPT !.pc = "lookup", !.op = op, !.id = i])
  /\ UNCHANGED <<route, owner, gone, recency>>

(* lookup, which deletes a route it finds expired *)
Lookup(r) ==
  /\ req[r].pc = "lookup"
  /\ LET i == Wanted(req[r]) IN
       \/ /\ i \in Current
          /\ Becomes(r, [req[r] EXCEPT
               !.pc = IF req[r].model = None THEN "call" ELSE "check",
               !.dep = route[i].dep, !.target = route[i].dep])
          /\ UNCHANGED route
       \/ /\ i \notin Current
          /\ route' = [route EXCEPT ![i] = NoRoute]
          /\ Finish(r)
  /\ UNCHANGED <<owner, gone, recency>>

Serving(m) == {d \in Instances : ModelOf[d] = m}

(* GetDeployment may fail *)
Resolve(r) ==
  /\ req[r].pc = "resolve"
  /\ \/ Finish(r)
     \/ \E d \in Serving(req[r].model) :
          Becomes(r, [req[r] EXCEPT !.pc = "call", !.dep = d, !.target = d])
  /\ UNCHANGED <<route, owner, gone, recency>>

(* A model named beside the previous response must be the owner's. *)
Check(r) ==
  /\ req[r].pc = "check"
  /\ \/ Finish(r)
     \/ \E d \in Serving(req[r].model) :
          /\ ModelOf[d] = ModelOf[req[r].dep]
          /\ Becomes(r, [req[r] EXCEPT !.pc = "call"])
  /\ UNCHANGED <<route, owner, gone, recency>>

(* Mutant: a continued response may fail over as well. *)
FailsOverAlways(r) ==
  /\ req[r].pc = "call" /\ req[r].op = "stream"
  /\ \E d \in Serving(ModelOf[req[r].dep]) :
       Becomes(r, [req[r] EXCEPT !.target = d])
  /\ UNCHANGED <<route, owner, gone, recency>>

(* CallStreaming replaces a retired instance by one of the same model; a    *)
(* request with a previous response has no retries.                         *)
FailsOver(r) ==
  /\ req[r].pc = "call" /\ req[r].op = "stream" /\ req[r].prev = None
  /\ \E d \in Serving(ModelOf[req[r].dep]) :
       Becomes(r, [req[r] EXCEPT !.target = d])
  /\ UNCHANGED <<route, owner, gone, recency>>

Stores(d, i) == owner[i] = d /\ i \notin gone

(* Mutant: the deployment resolved first is remembered. *)
KeepsFirst(r) ==
  /\ req[r].pc = "call" /\ Creates(req[r])
  /\ req[r].prev # None => Stores(req[r].target, req[r].prev)
  /\ \E i \in Ids :
       /\ owner[i] = None
       /\ owner' = [owner EXCEPT ![i] = req[r].target]
       /\ Becomes(r, [req[r] EXCEPT !.id = i,
               !.pc = IF req[r].op = "stream" THEN "stream" ELSE "remember"])
  /\ UNCHANGED <<route, gone, recency>>

(* A 2xx answer to a create: the instance stores a new response, and may    *)
(* continue only one it stores.                                             *)
Created(r) ==
  /\ req[r].pc = "call" /\ Creates(req[r])
  /\ req[r].prev # None => Stores(req[r].target, req[r].prev)
  /\ \E i \in Ids :
       /\ owner[i] = None
       /\ owner' = [owner EXCEPT ![i] = req[r].target]
       /\ Becomes(r, [req[r] EXCEPT !.id = i, !.dep = req[r].target,
               !.pc = IF req[r].op = "stream" THEN "stream" ELSE "remember"])
  /\ UNCHANGED <<route, gone, recency>>

(* Mutant: a GET renews the route it used. *)
GetRenews(r) ==
  /\ req[r].pc = "call"
  /\ IF req[r].op = "get" THEN Becomes(r, [req[r] EXCEPT !.pc = "remember"]) ELSE Finish(r)
  /\ UNCHANGED <<route, owner, gone, recency>>

(* The answer to a GET, and every answer or error that is not 2xx. *)
Answered(r) ==
  /\ req[r].pc = "call"
  /\ Finish(r)
  /\ UNCHANGED <<route, owner, gone, recency>>

RememberCreated(r) ==
  /\ req[r].pc = "remember"
  /\ Remember(req[r].id, req[r].dep)
  /\ Finish(r)
  /\ UNCHANGED <<owner, gone>>

(* Each event of a stream that carries the response remembers it. *)
StreamEvent(r) ==
  /\ req[r].pc = "stream"
  /\ Remember(req[r].id, req[r].dep)
  /\ UNCHANGED <<req, owner, gone>>

StreamEnds(r) ==
  /\ req[r].pc = "stream"
  /\ Finish(r)
  /\ UNCHANGED <<route, owner, gone, recency>>

(* The instance deletes the response; the answer may be lost on its way. *)
Deleted(r) ==
  /\ req[r].pc = "call" /\ req[r].op = "delete"
  /\ Stores(req[r].target, req[r].id)
  /\ gone' = gone \cup {req[r].id}
  /\ Finish(r) \/ Becomes(r, [req[r] EXCEPT !.pc = "forget"])
  /\ UNCHANGED <<route, owner, recency>>

Forget(r) ==
  /\ req[r].pc = "forget"
  /\ route' = [route EXCEPT ![req[r].id] = NoRoute]
  /\ Finish(r)
  /\ UNCHANGED <<owner, gone, recency>>

Less(n) == IF n > 0 THEN n - 1 ELSE 0

Tick ==
  /\ route' = [i \in Ids |-> [route[i] EXCEPT !.left = Less(@)]]
  /\ recency' = [i \in Ids |-> Less(recency[i])]
  /\ UNCHANGED <<req, owner, gone>>

Next ==
  \/ Tick
  \/ \E r \in Requests :
       \/ CreateResponse(r) \/ StoredResponse(r) \/ Lookup(r) \/ Resolve(r)
       \/ Check(r) \/ FailsOver(r) \/ Created(r) \/ Answered(r) \/ Deleted(r)
       \/ RememberCreated(r) \/ StreamEvent(r) \/ StreamEnds(r) \/ Forget(r)

Spec == Init /\ [][Next]_vars

-----------------------------------------------------------------------------
Route == [dep : Instances \cup {None}, left : 0..RouteTTL]

RequestState ==
  [pc : {"idle", "lookup", "resolve", "check", "call", "remember", "stream", "forget"},
   op : {"create", "stream", "get", "delete", None},
   prev : Ids \cup {None}, model : Models \cup {None}, id : Ids \cup {None},
   dep : Instances \cup {None}, target : Instances \cup {None}]

TypeOK ==
  /\ route \in [Ids -> Route]
  /\ req \in [Requests -> RequestState]
  /\ owner \in [Ids -> Instances \cup {None}]
  /\ gone \in SUBSET Ids
  /\ recency \in [Ids -> 0..RouteTTL]

(* A route names the instance that created the response, also when the      *)
(* stream that created it failed over on its way.                           *)
RoutesToOwner == \A i \in Ids : route[i] # NoRoute => route[i].dep = owner[i]

(* README.md, "previous_response_id stays on the owning deployment": a call *)
(* for a known response is made to the instance that created it, whatever   *)
(* was evicted, deleted, renewed or failed over since the look-up.          *)
CallsOwner ==
  \A r \in Requests : req[r].pc = "call" /\ Wanted(req[r]) # None
                        => req[r].target = owner[Wanted(req[r])]

(* The registry stays within its 10,000 routes. *)
Bounded == Cardinality(Routed) <= MaxRoutes

(* Eviction takes nothing a client could still count on: a route is only    *)
(* missing before its time when the response was deleted or MaxRoutes       *)
(* others were remembered at the same time or later.                        *)
RecentKept ==
  \A i \in Ids \ gone : recency[i] > 0 /\ i \notin Current
    => Cardinality({j \in Ids \ {i} : recency[j] >= recency[i]}) >= MaxRoutes

(* A deleted response comes back into the registry only by the stream that  *)
(* still reports it, never by another request that used its old route.      *)
DeletedComesBackByStreamOnly ==
  [][\A i \in gone : route[i] = NoRoute /\ route'[i] # NoRoute
       => \E r \in Requests : req[r].pc = "stream" /\ req[r].id = i]_vars
=============================================================================
