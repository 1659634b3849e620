------------------------ MODULE DeploymentPoolProofs ------------------------
(* The safety properties of DeploymentPool for every set of requests and    *)
(* instances, every catalogue and every limit its assumptions allow.        *)
EXTENDS DeploymentPool, TLAPS

(* One request at a time fetches, it holds the lock, and the list it is     *)
(* about to replace is a stale one.                                         *)
LockInv ==
  /\ \A r \in Requests : pc[r] = "fetch" <=> lock = r
  /\ lock # NoRequest => cacheAge = CacheTTL

(* Only instances the platform has started are ever listed or called. *)
KnownInv ==
  /\ \A d \in cached : platform[d] # "absent"
  /\ \A r \in Requests : \A d \in snap[r] : platform[d] # "absent"
  /\ \A r \in Requests : dep[r] # NoInstance => platform[dep[r]] # "absent"

(* What a request reported is on the blacklist, and what it is about to call *)
(* it has not reported.                                                      *)
Calling(r) == pc[r] = "send" \/ (pc[r] = "loop" /\ mode[r] = "stream")
TriedInv ==
  \A r \in Requests : /\ mode[r] \notin {"call", "stream"} => tried[r] = {}
                      /\ pc[r] = "loop" => mode[r] \in {"call", "stream"}
                      /\ \A d \in tried[r] : blacklist[d] > 0
                      /\ Calling(r) => dep[r] \in Instances \ tried[r]

(* A request that may fail over looks for the deployed name of its model. *)
PinnedInv ==
  \A r \in Requests : dep[r] # NoInstance =>
    IF mode[r] \in {"call", "stream"}
    THEN \E e \in Instances : target[r] = ModelOf[e] /\ SameModel(e, dep[r])
    ELSE pc[r] \in {"send", "done"}

(* CallStreaming only looks for a replacement of an instance it had. *)
StageInv ==
  \A r \in Requests :
    /\ pc[r] = "recover" => stage[r] = "again"
    /\ mode[r] = "stream" /\ stage[r] # "first" => dep[r] # NoInstance

IInv == /\ TypeOK /\ LockInv /\ KnownInv /\ OnlyRetiredBlacklisted
        /\ TriedInv /\ PinnedInv /\ StageInv

-----------------------------------------------------------------------------
(* Look-ups *)

(* Whatever name is looked up, a match comes from the list and is healthy. *)
LEMMA MatchIsHealthy ==
  ASSUME NEW deps, NEW name, NEW d \in Matches(deps, name)
  PROVE  d \in deps /\ blacklist[d] = 0
  BY DEF Matches, Passes, Healthy, Newest, Exact, Prefixed

(* The passes of findDeployment for a deployed name find its model only.    *)
LEMMA MatchKeepsModel ==
  ASSUME NEW deps \in SUBSET Instances, NEW e \in Instances,
         NEW d \in Matches(deps, ModelOf[e])
  PROVE  SameModel(e, d)
<1> DEFINE n == ModelOf[e]
<1>1. LatestOf[n] = NoFamily /\ Bare[Alias[n]] = Bare[n]
  BY DeployedNameAssumption
<1>2. Newest(Healthy(deps), LatestOf[n]) = {}
  BY <1>1 DEF Newest
<1>3. d \in Exact(Healthy(deps), Alias[n]) \/ d \in Prefixed(Healthy(deps), Alias[n])
      \/ d \in Exact(Healthy(deps), n) \/ d \in Prefixed(Healthy(deps), n)
  BY <1>2 DEF Matches, Passes
<1>4. QED
  BY <1>1, <1>3 DEF Exact, Prefixed, SameModel

(* What a request is handed is in the list it holds. *)
LEMMA ChoiceIsListed ==
  ASSUME NEW r \in Requests, NEW d \in Choices(r)
  PROVE  d \in snap[r]
  BY MatchIsHealthy DEF Choices, OrchestrationOf

-----------------------------------------------------------------------------
(* Typing *)

LEMMA ConstantsAreNat ==
  /\ MaxRetries \in Nat /\ CacheTTL \in Nat \ {0}
  /\ BlacklistTTL \in Nat \ {0} /\ RecoveryGap \in Nat \ {0}
  /\ ModelOf \in [Instances -> Names]
  BY LimitAssumption, CatalogueAssumption

LEMMA InitTyped == Init => TypeOK
<1> SUFFICES ASSUME Init PROVE TypeOK
  OBVIOUS
<1>1. mode \in [Requests -> AllModes] /\ target \in [Requests -> Names]
  BY CatalogueAssumption DEF Init
<1>2. pc \in [Requests -> {"loop", "read", "acquire", "fetch", "select",
                          "recover", "send", "done"}]
  BY DEF Init
<1>3. QED
  BY <1>1, <1>2, ConstantsAreNat DEF Init, TypeOK

(* The control labels that a failed look-up leads to. *)
LEMMA NotFoundTyped ==
  ASSUME TypeOK, NEW r \in Requests, NotFound(r)
  PROVE  /\ pc' = [pc EXCEPT ![r] = pc'[r]]
         /\ pc'[r] \in {"read", "recover", "done"}
         /\ stage' = [stage EXCEPT ![r] = stage'[r]]
         /\ stage'[r] \in {"first", "again", "refreshed"}
         /\ outcome' = [outcome EXCEPT ![r] = outcome'[r]]
         /\ outcome'[r] \in {"none", "cancelled", "nodeployment", "listed",
                             "exhausted", "served", "refused", "broken"} \cup Retirement
  BY DEF TypeOK, NotFound, Goto, Finish, Retirement

LEMMA StepTyped ==
  ASSUME TypeOK, TriedInv, NEW r \in Requests, Step(r)
  PROVE  TypeOK'
<1>1. CASE LoopTop(r)
  BY <1>1 DEF TypeOK, LoopTop, Goto, Finish, poolVars
<1>2. CASE ListRead(r)
  BY <1>2 DEF TypeOK, ListRead, Goto, poolVars
<1>3. CASE ListAcquire(r)
  BY <1>3 DEF TypeOK, ListAcquire, Goto
<1>4. CASE FetchSucceeds(r)
  BY <1>4, ConstantsAreNat DEF TypeOK, FetchSucceeds, Goto, Listed
<1>5. CASE FetchFails(r)
  BY <1>5, NotFoundTyped DEF TypeOK, FetchFails
<1>6. CASE Resolve(r)
  <2>1. snap' = [snap EXCEPT ![r] = {}]
        /\ UNCHANGED <<platform, poolVars, blacklist, mode, attempt, cancelled, tried>>
    BY <1>6 DEF Resolve
  <2>2. CASE mode[r] = "models"
    BY <1>6, <2>1, <2>2 DEF TypeOK, Resolve, Finish, poolVars
  <2>3. CASE mode[r] # "models" /\ Choices(r) = {} /\ NotFound(r) /\ UNCHANGED <<dep, target>>
    BY <2>1, <2>3, NotFoundTyped DEF TypeOK, poolVars
  <2>4. CASE \E d \in Choices(r) :
               /\ dep' = [dep EXCEPT ![r] = d]
               /\ target' = [target EXCEPT ![r] = NextTarget(r, d)]
               /\ Goto(r, IF mode[r] = "stream" THEN "loop" ELSE "send")
               /\ UNCHANGED stage
    <3>1. PICK d \in Choices(r) :
               /\ dep' = [dep EXCEPT ![r] = d]
               /\ target' = [target EXCEPT ![r] = NextTarget(r, d)]
               /\ Goto(r, IF mode[r] = "stream" THEN "loop" ELSE "send")
               /\ UNCHANGED stage
      BY <2>4
    <3>2. d \in Instances
      BY ChoiceIsListed DEF TypeOK
    <3>3. NextTarget(r, d) \in Names
      BY <3>2, ConstantsAreNat DEF NextTarget, TypeOK
    <3>4. QED
      BY <2>1, <3>1, <3>2, <3>3 DEF TypeOK, Goto, poolVars
  <2>5. QED
    BY <1>6, <2>2, <2>3, <2>4 DEF Resolve
<1>7. CASE Recover(r)
  BY <1>7, ConstantsAreNat DEF TypeOK, Recover, Goto, Finish, Retirement
<1>8. CASE AnswerReturned(r)
  BY <1>8 DEF TypeOK, AnswerReturned, Answers, Finish, Retirement, poolVars
<1>9. CASE InstanceRetired(r)
  <2> USE DEF InstanceRetired
  <2>0. dep[r] \in Instances
    BY <1>9 DEF TriedInv, Calling
  <2>1. blacklist' \in [Instances -> 0..BlacklistTTL]
    BY <1>9, <2>0, ConstantsAreNat DEF TypeOK, MarkUnhealthy
  <2>2. attempt' \in [Requests -> 0..MaxRetries]
    BY <1>9, ConstantsAreNat DEF TypeOK
  <2>3. tried' \in [Requests -> SUBSET Instances]
    BY <1>9, <2>0 DEF TypeOK
  <2>4. QED
    BY <1>9, <2>1, <2>2, <2>3 DEF TypeOK, Goto, Finish, Retirement, poolVars
<1>10. QED
  BY <1>1, <1>2, <1>3, <1>4, <1>5, <1>6, <1>7, <1>8, <1>9 DEF Step

LEMMA NextTyped ==
  ASSUME TypeOK, TriedInv, [Next]_vars
  PROVE  TypeOK'
<1>1. CASE \E r \in Requests : Step(r)
  BY <1>1, StepTyped
<1>2. CASE \E r \in Requests : Cancel(r)
  BY <1>2 DEF TypeOK, Cancel, poolVars
<1>3. CASE \E d \in Instances : PlatformMoves(d)
  BY <1>3 DEF TypeOK, PlatformMoves, poolVars
<1>4. CASE Tick
  <2>1. cacheAge' \in 0..CacheTTL /\ recoveryAge' \in 0..RecoveryGap
    BY <1>4, ConstantsAreNat DEF Tick, Older, TypeOK
  <2>2. blacklist' \in [Instances -> 0..BlacklistTTL]
    BY <1>4, ConstantsAreNat DEF Tick, TypeOK
  <2>3. tried' \in [Requests -> SUBSET Instances]
    BY <1>4 DEF Tick, TypeOK
  <2>4. QED
    BY <1>4, <2>1, <2>2, <2>3 DEF Tick, TypeOK
<1>5. CASE UNCHANGED vars
  BY <1>5 DEF TypeOK, vars, poolVars
<1>6. QED
  BY <1>1, <1>2, <1>3, <1>4, <1>5 DEF Next

-----------------------------------------------------------------------------
(* The lock *)

LEMMA LockPreserved ==
  ASSUME TypeOK, LockInv, [Next]_vars
  PROVE  LockInv'
<1> USE LimitAssumption DEF LockInv, TypeOK
<1>1. ASSUME NEW r \in Requests, Step(r)
      PROVE  LockInv'
  <2>1. CASE LoopTop(r)
    BY <2>1 DEF LoopTop, Goto, Finish, poolVars
  <2>2. CASE ListRead(r)
    BY <2>2 DEF ListRead, Goto, poolVars
  <2>3. CASE ListAcquire(r)
    BY <2>3 DEF ListAcquire, Goto, Fresh
  <2>4. CASE FetchSucceeds(r)
    BY <2>4 DEF FetchSucceeds, Goto
  <2>5. CASE FetchFails(r)
    BY <2>5 DEF FetchFails, NotFound, Goto, Finish
  <2>6. CASE Resolve(r)
    BY <2>6 DEF Resolve, NotFound, Goto, Finish, poolVars
  <2>7. CASE Recover(r)
    BY <2>7 DEF Recover, Goto, Finish
  <2>8. CASE AnswerReturned(r)
    BY <2>8 DEF AnswerReturned, Finish, poolVars
  <2>9. CASE InstanceRetired(r)
    BY <2>9 DEF InstanceRetired, Goto, Finish, poolVars
  <2>10. QED
    BY <1>1, <2>1, <2>2, <2>3, <2>4, <2>5, <2>6, <2>7, <2>8, <2>9 DEF Step
<1>2. CASE \E r \in Requests : Cancel(r)
  BY <1>2 DEF Cancel, poolVars
<1>3. CASE \E d \in Instances : PlatformMoves(d)
  BY <1>3 DEF PlatformMoves, poolVars
<1>4. CASE Tick
  BY <1>4 DEF Tick, Older
<1>5. CASE UNCHANGED vars
  BY <1>5 DEF vars, poolVars
<1>6. QED
  BY <1>1, <1>2, <1>3, <1>4, <1>5 DEF Next

-----------------------------------------------------------------------------
(* The platform *)

(* Instances start once and never come back. *)
LEMMA PlatformMonotone ==
  ASSUME TypeOK, [Next]_vars, NEW d \in Instances
  PROVE  /\ platform[d] # "absent" => platform'[d] # "absent"
         /\ platform[d] \in {"zombie", "removed"} => platform'[d] \in {"zombie", "removed"}
<1>1. CASE UNCHANGED platform
  BY <1>1
<1>2. CASE \E e \in Instances : PlatformMoves(e)
  BY <1>2 DEF PlatformMoves, TypeOK
<1>3. UNCHANGED platform \/ \E e \in Instances : PlatformMoves(e)
  BY DEF Next, Step, LoopTop, ListRead, ListAcquire, FetchSucceeds, FetchFails,
         Resolve, Recover, AnswerReturned, InstanceRetired, Cancel, Tick, vars
<1>4. QED
  BY <1>1, <1>2, <1>3

(* A request is handed an instance at the end of a look-up and at no other  *)
(* time.                                                                    *)
Handed(r) == pc[r] = "select" /\ pc'[r] \in {"loop", "send"}

LEMMA HandedChoice ==
  ASSUME TypeOK, [Next]_vars, NEW r \in Requests, Handed(r)
  PROVE  /\ mode[r] # "models"
         /\ dep'[r] \in Choices(r)
         /\ target'[r] = NextTarget(r, dep'[r])
         /\ UNCHANGED <<mode, tried, blacklist>>
         /\ pc'[r] = "send" \/ (pc'[r] = "loop" /\ mode[r] = "stream")
<1>1. PICK s \in Requests : Resolve(s)
  BY DEF Handed, Next, Step, LoopTop, ListRead, ListAcquire, FetchSucceeds,
         FetchFails, Resolve, Recover, AnswerReturned, InstanceRetired, Cancel,
         Tick, PlatformMoves, vars, poolVars, NotFound, Goto, Finish, TypeOK
<1>2. s = r
  BY <1>1 DEF Handed, Resolve, TypeOK, NotFound, Goto, Finish
<1>3. QED
  BY <1>1, <1>2 DEF Handed, Resolve, NotFound, Goto, Finish, TypeOK

LEMMA DepChanges ==
  ASSUME TypeOK, [Next]_vars, NEW r \in Requests, dep'[r] # dep[r]
  PROVE  Handed(r)
<1>1. PICK s \in Requests : Resolve(s)
  BY DEF Next, Step, LoopTop, ListRead, ListAcquire, FetchSucceeds, FetchFails,
         Resolve, Recover, AnswerReturned, InstanceRetired, Cancel, Tick,
         PlatformMoves, vars, poolVars
<1>2. s = r
  BY <1>1 DEF Resolve, TypeOK
<1>3. QED
  BY <1>1, <1>2 DEF Handed, Resolve, Goto, TypeOK

LEMMA KnownPreserved ==
  ASSUME TypeOK, KnownInv, [Next]_vars
  PROVE  KnownInv'
<1>1. \A d \in cached' : platform'[d] # "absent"
  <2>1. cached' = cached \/ (cached' = Listed /\ UNCHANGED platform)
    BY DEF Next, Step, LoopTop, ListRead, ListAcquire, FetchSucceeds, FetchFails,
           Resolve, Recover, AnswerReturned, InstanceRetired, Cancel, Tick,
           PlatformMoves, vars, poolVars
  <2>2. QED
    BY <2>1, PlatformMonotone DEF KnownInv, TypeOK, Listed
<1>2. ASSUME NEW r \in Requests, NEW d \in snap'[r]
      PROVE  platform'[d] # "absent"
  <2>1. \/ snap'[r] \in {snap[r], {}, cached}
        \/ snap'[r] = Listed /\ UNCHANGED platform
    BY DEF Next, Step, LoopTop, ListRead, ListAcquire, FetchSucceeds, FetchFails,
           Resolve, Recover, AnswerReturned, InstanceRetired, Cancel, Tick,
           PlatformMoves, vars, poolVars, TypeOK
  <2>2. QED
    BY <1>2, <2>1, PlatformMonotone DEF KnownInv, TypeOK, Listed
<1>3. ASSUME NEW r \in Requests, dep'[r] # NoInstance
      PROVE  platform'[dep'[r]] # "absent"
  <2>1. CASE dep'[r] = dep[r]
    BY <1>3, <2>1, PlatformMonotone DEF KnownInv, TypeOK
  <2>2. CASE dep'[r] # dep[r]
    BY <2>2, DepChanges, HandedChoice, ChoiceIsListed, PlatformMonotone DEF KnownInv, TypeOK
  <2>3. QED
    BY <2>1, <2>2
<1>4. QED
  BY <1>1, <1>2, <1>3 DEF KnownInv

(* Only an instance that answered with a retirement enters the blacklist. *)
LEMMA RetiredPreserved ==
  ASSUME TypeOK, KnownInv, TriedInv, OnlyRetiredBlacklisted, [Next]_vars
  PROVE  OnlyRetiredBlacklisted'
<1> SUFFICES ASSUME NEW d \in Instances, blacklist'[d] > 0
             PROVE  platform'[d] \in {"zombie", "removed"}
  BY DEF OnlyRetiredBlacklisted
<1>1. CASE blacklist[d] > 0
  BY <1>1, PlatformMonotone DEF OnlyRetiredBlacklisted
<1>2. CASE ~(blacklist[d] > 0)
  <2>1. PICK r \in Requests : InstanceRetired(r)
    BY <1>2 DEF Next, Step, LoopTop, ListRead, ListAcquire, FetchSucceeds,
           FetchFails, Resolve, Recover, AnswerReturned, Cancel, Tick,
           PlatformMoves, vars, poolVars
  <2>2. dep[r] \in Instances /\ dep[r] # NoInstance
    BY <2>1, LimitAssumption DEF InstanceRetired, TriedInv, Calling
  <2>3. d = dep[r]
    BY <1>2, <2>1, <2>2 DEF InstanceRetired, MarkUnhealthy, TypeOK
  <2>4. ~Serving(dep[r])
    BY <2>1 DEF InstanceRetired, Answers, FailsOver, Retirement
  <2>5. QED
    BY <2>1, <2>2, <2>3, <2>4 DEF KnownInv, Serving, TypeOK, InstanceRetired
<1>3. QED
  BY <1>1, <1>2

-----------------------------------------------------------------------------
(* What a request has reported *)

LEMMA TriedPreserved ==
  ASSUME TypeOK, TriedInv, [Next]_vars, NEW r \in Requests
  PROVE  /\ mode'[r] \notin {"call", "stream"} => tried'[r] = {}
         /\ pc'[r] = "loop" => mode'[r] \in {"call", "stream"}
         /\ \A d \in tried'[r] : blacklist'[d] > 0
         /\ Calling(r)' => dep'[r] \in Instances \ tried'[r]
<1> USE DEF TriedInv, Calling, TypeOK
<1>1. CASE Handed(r)
  <2>1. dep'[r] \in snap[r]
    BY <1>1, HandedChoice, ChoiceIsListed
  <2>2. CASE mode[r] = "orchestrate"
    BY <1>1, <2>1, <2>2, HandedChoice
  <2>3. CASE mode[r] # "orchestrate"
    <3>1. blacklist[dep'[r]] = 0
      BY <1>1, <2>3, HandedChoice, MatchIsHealthy DEF Choices
    <3>2. QED
      BY <1>1, <2>1, <3>1, HandedChoice
  <2>4. QED
    BY <2>2, <2>3
<1>2. CASE ~Handed(r) /\ \E s \in Requests : InstanceRetired(s)
  <2>1. PICK s \in Requests : InstanceRetired(s)
    BY <1>2
  <2>2. dep[s] \in Instances /\ blacklist' = [blacklist EXCEPT ![dep[s]] = BlacklistTTL]
        /\ mode[s] \in {"call", "stream"} /\ UNCHANGED <<mode, dep>>
    BY <2>1 DEF InstanceRetired, MarkUnhealthy, FailsOver
  <2>3. \A d \in Instances : blacklist[d] > 0 \/ d = dep[s] => blacklist'[d] > 0
    BY <2>2, LimitAssumption
  <2>4. ~Calling(s)'
    BY <2>1 DEF InstanceRetired, Goto, Finish
  <2>5. tried' = [tried EXCEPT ![s] = @ \cup {dep[s]}]
        /\ (r # s => pc'[r] = pc[r])
    BY <2>1 DEF InstanceRetired, Goto, Finish
  <2>6. QED
    BY <2>2, <2>3, <2>4, <2>5
<1>3. CASE ~Handed(r) /\ Tick
  BY <1>3 DEF Tick
<1>4. CASE ~Handed(r) /\ ~Tick /\ ~\E s \in Requests : InstanceRetired(s)
  <2>1. UNCHANGED <<tried, blacklist, mode>>
    BY <1>4 DEF Next, Step, LoopTop, ListRead, ListAcquire, FetchSucceeds,
           FetchFails, Resolve, Recover, AnswerReturned, Cancel, PlatformMoves,
           vars, poolVars
  <2>2. /\ Calling(r)' => Calling(r)
        /\ pc'[r] = "loop" => pc[r] = "loop"
    BY <1>4 DEF Next, Step, LoopTop, ListRead, ListAcquire, FetchSucceeds,
           FetchFails, Resolve, Recover, AnswerReturned, Cancel, PlatformMoves,
           vars, poolVars, NotFound, Goto, Finish, Handed
  <2>3. dep'[r] = dep[r]
    BY <1>4, DepChanges
  <2>4. QED
    BY <1>4, <2>1, <2>2, <2>3
<1>5. QED
  BY <1>1, <1>2, <1>3, <1>4

-----------------------------------------------------------------------------
(* The pinned model *)

LEMMA TargetChanges ==
  ASSUME TypeOK, [Next]_vars, NEW r \in Requests, target'[r] # target[r]
  PROVE  Handed(r)
<1>1. PICK s \in Requests : Resolve(s)
  BY DEF Next, Step, LoopTop, ListRead, ListAcquire, FetchSucceeds, FetchFails,
         Resolve, Recover, AnswerReturned, InstanceRetired, Cancel, Tick,
         PlatformMoves, vars, poolVars
<1>2. s = r
  BY <1>1 DEF Resolve, TypeOK
<1>3. QED
  BY <1>1, <1>2 DEF Handed, Resolve, Goto, TypeOK

(* The instance a request is handed serves the model it is pinned to. *)
LEMMA HandedKeepsModel ==
  ASSUME TypeOK, PinnedInv, [Next]_vars, NEW r \in Requests, Handed(r),
         dep[r] # NoInstance
  PROVE  SameModel(dep[r], dep'[r])
<1>1. mode[r] \in {"call", "stream"}
  BY DEF PinnedInv, Handed
<1>2. PICK e \in Instances : target[r] = ModelOf[e] /\ SameModel(e, dep[r])
  BY <1>1 DEF PinnedInv
<1>3. dep'[r] \in Matches(snap[r], ModelOf[e])
  BY <1>1, <1>2, HandedChoice DEF Choices
<1>4. SameModel(e, dep'[r])
  BY <1>3, MatchKeepsModel DEF TypeOK
<1>5. QED
  BY <1>2, <1>4 DEF SameModel

LEMMA StagePreserved ==
  ASSUME TypeOK, TriedInv, StageInv, [Next]_vars
  PROVE  StageInv'
<1> SUFFICES ASSUME NEW r \in Requests
             PROVE  /\ pc'[r] = "recover" => stage'[r] = "again"
                    /\ mode'[r] = "stream" /\ stage'[r] # "first" => dep'[r] # NoInstance
  BY DEF StageInv
<1>1. UNCHANGED mode
  BY DEF Next, Step, LoopTop, ListRead, ListAcquire, FetchSucceeds, FetchFails,
         Resolve, Recover, AnswerReturned, InstanceRetired, Cancel, Tick,
         PlatformMoves, vars
<1>2. pc'[r] = "recover" => stage'[r] = "again"
  BY DEF StageInv, Next, Step, LoopTop, ListRead, ListAcquire, FetchSucceeds,
         FetchFails, Resolve, Recover, AnswerReturned, InstanceRetired, Cancel,
         Tick, PlatformMoves, vars, NotFound, Goto, Finish, TypeOK
<1>3. mode[r] = "stream" /\ stage'[r] # "first" => dep'[r] # NoInstance
  <2>1. CASE Handed(r)
    BY <2>1, HandedChoice, ChoiceIsListed, LimitAssumption DEF TypeOK
  <2>2. CASE ~Handed(r)
    <3>1. dep'[r] = dep[r]
      BY <2>2, DepChanges
    <3>2. mode[r] = "stream" /\ stage'[r] # stage[r] /\ stage'[r] # "first"
            => dep[r] \in Instances \/ stage[r] # "first"
      BY DEF StageInv, TriedInv, Calling, Next, Step, LoopTop, ListRead,
             ListAcquire, FetchSucceeds, FetchFails, Resolve, Recover,
             AnswerReturned, InstanceRetired, Cancel, Tick, PlatformMoves, vars,
             NotFound, Goto, Finish, TypeOK
    <3>3. QED
      BY <3>1, <3>2, LimitAssumption DEF StageInv
  <2>3. QED
    BY <2>1, <2>2
<1>4. QED
  BY <1>1, <1>2, <1>3

LEMMA PinnedPreserved ==
  ASSUME TypeOK, TriedInv, PinnedInv, StageInv, [Next]_vars
  PROVE  PinnedInv'
<1> SUFFICES ASSUME NEW r \in Requests, dep'[r] # NoInstance
             PROVE  IF mode'[r] \in {"call", "stream"}
                    THEN \E e \in Instances : target'[r] = ModelOf[e] /\ SameModel(e, dep'[r])
                    ELSE pc'[r] \in {"send", "done"}
  BY DEF PinnedInv, SameModel
<1>1. CASE Handed(r)
  <2>1. dep'[r] \in Instances
    BY <1>1, HandedChoice, ChoiceIsListed DEF TypeOK
  <2>2. CASE mode[r] = "call" \/ stage[r] = "first"
    BY <1>1, <2>1, <2>2, HandedChoice DEF NextTarget, SameModel
  <2>3. CASE ~(mode[r] = "call" \/ stage[r] = "first")
    <3>1. CASE mode[r] = "stream"
      BY <1>1, <2>1, <2>3, <3>1, HandedChoice, HandedKeepsModel
         DEF NextTarget, SameModel, PinnedInv, StageInv
    <3>2. CASE mode[r] \notin {"call", "stream"}
      BY <1>1, <3>2, HandedChoice
    <3>3. QED
      BY <2>3, <3>1, <3>2
  <2>4. QED
    BY <2>2, <2>3
<1>2. CASE ~Handed(r)
  <2>1. dep'[r] = dep[r] /\ target'[r] = target[r]
    BY <1>2, DepChanges, TargetChanges
  <2>2. UNCHANGED mode
    BY DEF Next, Step, LoopTop, ListRead, ListAcquire, FetchSucceeds, FetchFails,
           Resolve, Recover, AnswerReturned, InstanceRetired, Cancel, Tick,
           PlatformMoves, vars
  <2>3. mode[r] \notin {"call", "stream"} /\ pc[r] \in {"send", "done"}
          => pc'[r] \in {"send", "done"}
    BY DEF Next, Step, LoopTop, ListRead, ListAcquire, FetchSucceeds, FetchFails,
           Resolve, Recover, AnswerReturned, InstanceRetired, Cancel, Tick,
           PlatformMoves, vars, NotFound, Goto, Finish, FailsOver, TypeOK
  <2>4. QED
    BY <1>2, <2>1, <2>2, <2>3 DEF PinnedInv
<1>3. QED
  BY <1>1, <1>2

-----------------------------------------------------------------------------
(* The theorems *)

LEMMA Initially == Init => IInv
<1> SUFFICES ASSUME Init PROVE IInv
  OBVIOUS
<1>1. TypeOK
  BY InitTyped
<1>2. LockInv /\ KnownInv /\ OnlyRetiredBlacklisted /\ TriedInv /\ PinnedInv
      /\ StageInv
  BY LimitAssumption DEF Init, LockInv, KnownInv, OnlyRetiredBlacklisted,
                         TriedInv, Calling, PinnedInv, StageInv
<1>3. QED
  BY <1>1, <1>2 DEF IInv

LEMMA Inductive == IInv /\ [Next]_vars => IInv'
  BY NextTyped, LockPreserved, KnownPreserved, RetiredPreserved, TriedPreserved,
     PinnedPreserved, StagePreserved DEF IInv, TriedInv

LEMMA Invariant == Spec => []IInv
  BY Initially, Inductive, PTL DEF Spec

(* Type correctness of DeploymentPool. *)
THEOREM TypeCorrect == Spec => []TypeOK
<1>1. IInv => TypeOK
  BY DEF IInv
<1>2. QED
  BY <1>1, Invariant, PTL

(* MarkUnhealthy never takes an instance out of rotation that still serves. *)
THEOREM RetiredOnly == Spec => []OnlyRetiredBlacklisted
<1>1. IInv => OnlyRetiredBlacklisted
  BY DEF IInv
<1>2. QED
  BY <1>1, Invariant, PTL

(* FindAndCall and CallStreaming do not return to an instance they reported. *)
THEOREM NoRecall == Spec => []NeverRecalled
<1>1. IInv => NeverRecalled
  BY DEF IInv, TriedInv, Calling, NeverRecalled
<1>2. QED
  BY <1>1, Invariant, PTL

(* Failover stays on the model the request was first resolved to.  *)
THEOREM ModelKept == Spec => FailoverKeepsModel
<1>1. IInv /\ [Next]_vars => [\A r \in Requests :
        dep[r] # NoInstance => SameModel(dep[r], dep'[r])]_vars
  <2> SUFFICES ASSUME IInv, [Next]_vars, NEW r \in Requests, dep[r] # NoInstance
               PROVE  SameModel(dep[r], dep'[r])
    OBVIOUS
  <2>1. CASE dep'[r] = dep[r]
    BY <2>1 DEF SameModel
  <2>2. CASE dep'[r] # dep[r]
    BY <2>2, DepChanges, HandedKeepsModel DEF IInv
  <2>3. QED
    BY <2>1, <2>2
<1>2. QED
  BY <1>1, Invariant, PTL DEF Spec, FailoverKeepsModel

(* list() replaces no list that is still fresh. *)
THEOREM FreshKept == Spec => FreshListStable
<1>1. IInv /\ [Next]_vars => [Fresh => cached' = cached]_vars
  <2> SUFFICES ASSUME IInv, [Next]_vars, Fresh
               PROVE  cached' = cached
    OBVIOUS
  <2>1. ~\E r \in Requests : FetchSucceeds(r)
    BY LimitAssumption DEF IInv, LockInv, FetchSucceeds, Fresh
  <2>2. QED
    BY <2>1 DEF Next, Step, LoopTop, ListRead, ListAcquire, FetchFails, Resolve,
            Recover, AnswerReturned, InstanceRetired, Cancel, Tick,
            PlatformMoves, vars, poolVars
<1>2. QED
  BY <1>1, Invariant, PTL DEF Spec, FreshListStable

(* A step that ends a call without an answer, other than a connection that  *)
(* broke, is the request's own and blacklists the instance it called.       *)
LEMMA SenderReports ==
  ASSUME TypeOK, TriedInv, [Next]_vars, NEW r \in Requests, mode[r] = "call",
         pc[r] = "send", pc'[r] # "send", ~Serving(dep[r]), outcome'[r] # "broken"
  PROVE  blacklist'[dep[r]] = BlacklistTTL
<1>1. AnswerReturned(r) \/ InstanceRetired(r)
  <2>1. ASSUME NEW s \in Requests, Step(s), ~(AnswerReturned(s) \/ InstanceRetired(s))
        PROVE  FALSE
    <3>1. pc[s] # "send"
      BY <2>1 DEF Step, LoopTop, ListRead, ListAcquire, FetchSucceeds, FetchFails,
         Resolve, Recover
    <3>2. \E label : pc' = [pc EXCEPT ![s] = label]
      BY <2>1, NotFoundTyped DEF Step, LoopTop, ListRead, ListAcquire, FetchSucceeds,
         FetchFails, Resolve, Recover, Goto, Finish
    <3>. QED  BY <3>1, <3>2 DEF TypeOK
  <2>2. ASSUME NEW s \in Requests \ {r}, AnswerReturned(s) \/ InstanceRetired(s)
        PROVE  FALSE
    BY <2>2 DEF AnswerReturned, InstanceRetired, Goto, Finish, TypeOK
  <2>. QED  BY <2>1, <2>2 DEF Next, Cancel, PlatformMoves, Tick, vars
<1>2. CASE AnswerReturned(r)
  BY <1>2 DEF AnswerReturned, Answers, FailsOver, Finish, TypeOK
<1>3. CASE InstanceRetired(r)
  <2>1. dep[r] \in Instances
    BY DEF TypeOK, TriedInv, Calling
  <2>. QED  BY <1>3, <2>1 DEF InstanceRetired, MarkUnhealthy, TypeOK
<1>. QED  BY <1>1, <1>2, <1>3

(* FindAndCall leaves no retirement it receives unreported: the instance is *)
(* on the blacklist for a full hour when the request goes on or returns.    *)
THEOREM CallReports == Spec => FailoverBlacklists
<1>1. IInv /\ [Next]_vars =>
        [\A r \in Requests : mode[r] = "call" => ReportsRetirement(r)]_vars
  BY SenderReports DEF IInv, ReportsRetirement
<1>. QED  BY <1>1, Invariant, PTL DEF Spec, FailoverBlacklists
=============================================================================
