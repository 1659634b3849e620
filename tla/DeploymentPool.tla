--------------------------- MODULE DeploymentPool ---------------------------
(***************************************************************************)
(* Deployment discovery, blacklisting and failover: the DeploymentManager  *)
(* of src/internal/sapclient/deployments.go, used by concurrent requests.  *)
(*                                                                         *)
(* Every request is a process.  The handlers use the manager in five ways: *)
(*   "call"    FindAndCall (chat completions, messages)                    *)
(*   "stream"  GetDeployment, then CallStreaming                           *)
(*   "direct"  GetDeployment, then one call of their own (embeddings,      *)
(*             images, transcription, non-streaming Responses)             *)
(*   "orchestrate"  GetOrchestrationDeployment, then one call              *)
(*   "models"  ListAll                                                     *)
(*                                                                         *)
(* Timers count in abstract ticks: an age that reached its limit stays     *)
(* there, and a blacklist entry with no time left is an expired one.       *)
(* The platform (SAP AI Core) is external.                                 *)
(***************************************************************************)
EXTENDS Naturals

CONSTANTS
  Requests,        \* concurrent requests
  Instances,       \* deployment instances, identified by their DeployedURL
  Names,           \* model names, as requested or as deployed, lower case
  Asked,           \* the names requests may ask for
  Modes,           \* the ways requests use the manager in this instance
  ModelOf,         \* EffectiveModelName of an instance
  Alias,           \* catalogue.Normalize
  Bare,            \* normalizeDepName: the name without its vendor prefix
  LatestOf,        \* catalogue.LatestFamily of a requested name, or NoFamily
  FamilyOf,        \* the Claude family of a deployed name, or NoFamily
  VersionOf,       \* its version, as a rank
  NoName,          \* the empty name
  NoFamily,
  OrchScenario,    \* instances whose scenario is "orchestration"
  OrchNamed,       \* instances whose model name contains "orchestration"
  MaxRetries,      \* the handlers pass 5
  CacheTTL,        \* deploymentCacheTTL, 12 h
  BlacklistTTL,    \* blacklistTTL, 1 h
  RecoveryGap,     \* the minute between two recovery refreshes
  Cancellable,     \* the requests whose client may disconnect (a bound)
  NoInstance,
  NoRequest

AllModes == {"call", "stream", "direct", "orchestrate", "models"}

ASSUME CatalogueAssumption ==
  /\ Asked \subseteq Names
  /\ Modes \subseteq AllModes
  /\ ModelOf \in [Instances -> Names]
  /\ Alias \in [Names -> Names]
  /\ Bare \in [Names -> Names]
  /\ VersionOf \in [Names -> Nat]
  /\ OrchScenario \subseteq Instances
  /\ OrchNamed \subseteq Instances

(* A deployed name is not a moving alias, and Normalize keeps its bare form. *)
ASSUME DeployedNameAssumption ==
  \A d \in Instances : /\ LatestOf[ModelOf[d]] = NoFamily
                       /\ Bare[Alias[ModelOf[d]]] = Bare[ModelOf[d]]

ASSUME LimitAssumption ==
  /\ MaxRetries \in Nat
  /\ CacheTTL \in Nat \ {0}
  /\ BlacklistTTL \in Nat \ {0}
  /\ RecoveryGap \in Nat \ {0}
  /\ NoInstance \notin Instances
  /\ NoRequest \notin Requests

VARIABLES
  platform,     \* what SAP AI Core knows of each instance (external)
  cached,       \* DeploymentManager.cached
  cacheAge,     \* time since fetchedAt; CacheTTL also stands for the zero time
  recoveryAge,  \* time since recoveryRefreshedAt
  blacklist,    \* time left of each blacklist entry, 0 without one
  lock,         \* the request that holds mu for writing across its fetch
  pc, stage, mode, target, dep, snap, attempt, cancelled, outcome,
  tried         \* history: instances this request reported, while still listed

poolVars == <<cached, cacheAge, recoveryAge, lock>>
vars == <<platform, poolVars, blacklist, pc, stage, mode, target, dep, snap,
          attempt, cancelled, outcome, tried>>

-----------------------------------------------------------------------------
(* What the code computes from a deployment list. *)

Listed == {d \in Instances : platform[d] \in {"serving", "zombie"}}
Serving(d) == platform[d] = "serving"

Fresh == cacheAge < CacheTTL

Healthy(deps) == {d \in deps : blacklist[d] = 0}

Newest(deps, family) ==
  {d \in deps : /\ family # NoFamily
                /\ FamilyOf[ModelOf[d]] = family
                /\ \A e \in deps : FamilyOf[ModelOf[e]] = family
                                     => VersionOf[ModelOf[e]] <= VersionOf[ModelOf[d]]}
Exact(deps, name) == {d \in deps : ModelOf[d] = name}
Prefixed(deps, name) ==
  {d \in deps : Bare[ModelOf[d]] # NoName /\ Bare[ModelOf[d]] = Bare[name]}

(* The passes of findDeployment in order, over healthy instances only. *)
Passes(deps, name) ==
  <<Newest(deps, LatestOf[name]),
    Exact(deps, Alias[name]), Prefixed(deps, Alias[name]),
    Exact(deps, name), Prefixed(deps, name)>>

(* The code takes the first match in the order the platform listed them.    *)
(* That order is the platform's choice, so any match of the first pass that *)
(* has one may be taken.                                                    *)
Matches(deps, name) ==
  LET found == Passes(Healthy(deps), name)
  IN  {d \in deps : \E i \in 1..5 : /\ d \in found[i]
                                    /\ \A j \in 1..(i - 1) : found[j] = {}}

OrchestrationOf(deps) ==
  IF deps \cap OrchScenario # {} THEN deps \cap OrchScenario
                                 ELSE deps \cap OrchNamed

(* What a request may be handed for the list it holds. *)
Choices(r) == IF mode[r] = "orchestrate" THEN OrchestrationOf(snap[r])
                                         ELSE Matches(snap[r], target[r])

(* Upstream answers, by what the caller tells apart: "refused" is any error *)
(* that is no retirement (generic 404, 429, 5xx), "gone_status" a 410 or an *)
(* error status with a retirement envelope, "gone_body" a 200 with one,     *)
(* "broken" a transport or body-read error.                                 *)
Retirement == {"gone_status", "gone_body"}
Answers(d) ==
  {"broken"} \cup IF Serving(d) THEN {"served", "refused"} ELSE Retirement

(* Mutant: a generic error counts as a retirement. *)
AnyErrorFailsOver(r, answer) ==
  mode[r] \in {"call", "stream"} /\ answer \notin {"served", "broken"}

(* Whether the caller of the instance reports the answer and fails over. *)
FailsOver(r, answer) ==
  \/ mode[r] = "call" /\ answer \in Retirement
  \/ mode[r] = "stream" /\ answer = "gone_status"

-----------------------------------------------------------------------------
Init ==
  /\ platform \in [Instances -> {"absent", "serving"}]
  /\ cached = {}
  /\ cacheAge = CacheTTL
  /\ recoveryAge = RecoveryGap
  /\ blacklist = [d \in Instances |-> 0]
  /\ lock = NoRequest
  /\ mode \in [Requests -> Modes]
  /\ target \in [Requests -> Asked]
  /\ pc = [r \in Requests |-> IF mode[r] = "call" THEN "loop" ELSE "read"]
  /\ stage = [r \in Requests |-> "first"]
  /\ dep = [r \in Requests |-> NoInstance]
  /\ snap = [r \in Requests |-> {}]
  /\ attempt = [r \in Requests |-> 0]
  /\ cancelled = [r \in Requests |-> FALSE]
  /\ outcome = [r \in Requests |-> "none"]
  /\ tried = [r \in Requests |-> {}]

Goto(r, label) == /\ pc' = [pc EXCEPT ![r] = label]
                  /\ UNCHANGED outcome
Finish(r, result) == /\ pc' = [pc EXCEPT ![r] = "done"]
                     /\ outcome' = [outcome EXCEPT ![r] = result]

(* findDeployment returned an error.  FindAndCall goes on to findReplacement *)
(* after its first attempt; findReplacement goes on to its recovery refresh  *)
(* unless the context is done; every other caller reports what it has.       *)
NotFound(r) ==
  \/ /\ mode[r] = "call" /\ attempt[r] > 0 /\ stage[r] = "first"
     /\ stage' = [stage EXCEPT ![r] = "again"]
     /\ Goto(r, "read")
  \/ /\ stage[r] = "again" /\ ~cancelled[r]
     /\ Goto(r, "recover")
     /\ UNCHANGED stage
  \/ /\ \/ stage[r] = "first" /\ ~(mode[r] = "call" /\ attempt[r] > 0)
        \/ stage[r] = "again" /\ cancelled[r]
        \/ stage[r] = "refreshed"
     /\ Finish(r, IF mode[r] = "stream" /\ attempt[r] > 0
                  THEN "gone_status" ELSE "nodeployment")
     /\ UNCHANGED stage

(* The head of both retry loops: FindAndCall looks an instance up after it, *)
(* CallStreaming calls the instance it already has.                         *)
LoopTop(r) ==
  /\ pc[r] = "loop"
  /\ \/ cancelled[r] /\ Finish(r, "cancelled") /\ UNCHANGED stage
     \/ /\ ~cancelled[r]
        /\ stage' = [stage EXCEPT ![r] = "first"]
        /\ Goto(r, IF mode[r] = "call" THEN "read" ELSE "send")
  /\ UNCHANGED <<platform, poolVars, blacklist, mode, target, dep, snap,
                 attempt, cancelled, tried>>

(* list(): the check under the read lock. *)
ListRead(r) ==
  /\ pc[r] = "read" /\ lock = NoRequest
  /\ snap' = IF Fresh THEN [snap EXCEPT ![r] = cached] ELSE snap
  /\ Goto(r, IF Fresh THEN "select" ELSE "acquire")
  /\ UNCHANGED <<platform, poolVars, blacklist, stage, mode, target, dep,
                 attempt, cancelled, tried>>

(* Mutant: the check is not repeated under the write lock. *)
AcquireUnchecked(r) ==
  /\ pc[r] = "acquire" /\ lock = NoRequest
  /\ lock' = r
  /\ Goto(r, "fetch")
  /\ UNCHANGED <<platform, cached, cacheAge, recoveryAge, blacklist, stage,
                 mode, target, dep, snap, attempt, cancelled, tried>>

(* list(): the write lock and the check repeated under it. *)
ListAcquire(r) ==
  /\ pc[r] = "acquire" /\ lock = NoRequest
  /\ \/ /\ Fresh
        /\ snap' = [snap EXCEPT ![r] = cached]
        /\ Goto(r, "select")
        /\ UNCHANGED lock
     \/ /\ ~Fresh
        /\ lock' = r
        /\ Goto(r, "fetch")
        /\ UNCHANGED snap
  /\ UNCHANGED <<platform, cached, cacheAge, recoveryAge, blacklist, stage,
                 mode, target, dep, attempt, cancelled, tried>>

(* list(): fetch() runs under the write lock; it keeps the RUNNING instances. *)
FetchSucceeds(r) ==
  /\ pc[r] = "fetch"
  /\ cached' = Listed
  /\ cacheAge' = 0
  /\ snap' = [snap EXCEPT ![r] = Listed]
  /\ lock' = NoRequest
  /\ Goto(r, "select")
  /\ UNCHANGED <<platform, recoveryAge, blacklist, stage, mode, target, dep,
                 attempt, cancelled, tried>>

(* Mutant: the error path returns without unlocking. *)
FetchFailsLocked(r) ==
  /\ pc[r] = "fetch"
  /\ NotFound(r)
  /\ UNCHANGED <<platform, poolVars, blacklist, mode, target, dep, snap,
                 attempt, cancelled, tried>>

(* Transport error, bad status or body, or the context of r is done. *)
FetchFails(r) ==
  /\ pc[r] = "fetch"
  /\ lock' = NoRequest
  /\ NotFound(r)
  /\ UNCHANGED <<platform, cached, cacheAge, recoveryAge, blacklist, mode,
                 target, dep, snap, attempt, cancelled, tried>>

(* Mutant: the loop keeps looking for the name the client asked for. *)
UnpinnedTarget(r, d) == target[r]

(* FindAndCall pins `resolved` to each instance it finds; CallStreaming looks *)
(* for the model of `initial`, the instance its handler resolved.             *)
NextTarget(r, d) ==
  IF mode[r] = "call" \/ stage[r] = "first" THEN ModelOf[d] ELSE target[r]

(* The end of a look-up. *)
Resolve(r) ==
  /\ pc[r] = "select"
  /\ \/ /\ mode[r] = "models"
        /\ Finish(r, "listed")
        /\ UNCHANGED <<stage, dep, target>>
     \/ /\ mode[r] # "models" /\ Choices(r) = {}
        /\ NotFound(r)
        /\ UNCHANGED <<dep, target>>
     \/ /\ mode[r] # "models"
        /\ \E d \in Choices(r) :
             /\ dep' = [dep EXCEPT ![r] = d]
             /\ target' = [target EXCEPT ![r] = NextTarget(r, d)]
        /\ Goto(r, IF mode[r] = "stream" THEN "loop" ELSE "send")
        /\ UNCHANGED stage
  /\ snap' = [snap EXCEPT ![r] = {}]
  /\ UNCHANGED <<platform, poolVars, blacklist, mode, attempt, cancelled, tried>>

(* findReplacement after its own look-up failed: at most one refresh of the *)
(* list per RecoveryGap, shared by all requests.                            *)
Recover(r) ==
  /\ pc[r] = "recover" /\ lock = NoRequest
  /\ \/ /\ recoveryAge < RecoveryGap
        /\ Finish(r, IF mode[r] = "stream" THEN "gone_status" ELSE "nodeployment")
        /\ UNCHANGED <<stage, cacheAge, recoveryAge>>
     \/ /\ recoveryAge >= RecoveryGap
        /\ recoveryAge' = 0
        /\ cacheAge' = CacheTTL
        /\ stage' = [stage EXCEPT ![r] = "refreshed"]
        /\ Goto(r, "read")
  /\ UNCHANGED <<platform, cached, lock, blacklist, mode, target, dep, snap,
                 attempt, cancelled, tried>>

(* Mutant: an entry already there is kept and no new one is made. *)
NeverMarks(d) == blacklist

(* MarkUnhealthy: the entry runs for a full BlacklistTTL again. *)
MarkUnhealthy(d) == [blacklist EXCEPT ![d] = BlacklistTTL]

(* The call ends in an answer its caller passes on. *)
AnswerReturned(r) ==
  /\ pc[r] = "send"
  /\ \E answer \in Answers(dep[r]) : /\ ~FailsOver(r, answer)
                                      /\ Finish(r, answer)
  /\ UNCHANGED <<platform, poolVars, blacklist, stage, mode, target, dep, snap,
                 attempt, cancelled, tried>>

(* The call ends in a retirement its caller reports.  The next attempt of   *)
(* FindAndCall starts at the loop head, that of CallStreaming with          *)
(* findReplacement; after the last one the first returns an error and the   *)
(* second the answer itself.                                                *)
InstanceRetired(r) ==
  /\ pc[r] = "send"
  /\ \E answer \in Answers(dep[r]) : FailsOver(r, answer)
  /\ blacklist' = MarkUnhealthy(dep[r])
  /\ tried' = [tried EXCEPT ![r] = @ \cup {dep[r]}]
  /\ \/ /\ attempt[r] < MaxRetries
        /\ attempt' = [attempt EXCEPT ![r] = @ + 1]
        /\ stage' = [stage EXCEPT ![r] = "again"]
        /\ Goto(r, IF mode[r] = "call" THEN "loop" ELSE "read")
     \/ /\ attempt[r] >= MaxRetries
        /\ Finish(r, IF mode[r] = "call" THEN "exhausted" ELSE "gone_status")
        /\ UNCHANGED <<attempt, stage>>
  /\ UNCHANGED <<platform, poolVars, mode, target, dep, snap, cancelled>>

-----------------------------------------------------------------------------
(* The environment. *)

(* An instance starts, retires while still listed, and leaves the list. *)
PlatformMoves(d) ==
  /\ \E next \in {<<"absent", "serving">>, <<"serving", "zombie">>,
                  <<"zombie", "removed">>} :
       platform[d] = next[1] /\ platform' = [platform EXCEPT ![d] = next[2]]
  /\ UNCHANGED <<poolVars, blacklist, pc, stage, mode, target, dep, snap,
                 attempt, cancelled, outcome, tried>>

(* The client of r disconnects. *)
Cancel(r) ==
  /\ r \in Cancellable /\ pc[r] # "done" /\ ~cancelled[r]
  /\ cancelled' = [cancelled EXCEPT ![r] = TRUE]
  /\ UNCHANGED <<platform, poolVars, blacklist, pc, stage, mode, target, dep,
                 snap, attempt, outcome, tried>>

Older(age, limit) == IF age < limit THEN age + 1 ELSE limit

(* Time passes; isBlacklisted drops the entries whose time is over. *)
Tick ==
  /\ cacheAge' = Older(cacheAge, CacheTTL)
  /\ recoveryAge' = Older(recoveryAge, RecoveryGap)
  /\ blacklist' = [d \in Instances |->
                     IF blacklist[d] > 0 THEN blacklist[d] - 1 ELSE 0]
  /\ tried' = [r \in Requests |-> {d \in tried[r] : blacklist[d] # 1}]
  /\ UNCHANGED <<platform, cached, lock, pc, stage, mode, target, dep, snap,
                 attempt, cancelled, outcome>>

Step(r) == \/ LoopTop(r) \/ ListRead(r) \/ ListAcquire(r)
           \/ FetchSucceeds(r) \/ FetchFails(r) \/ Resolve(r) \/ Recover(r)
           \/ AnswerReturned(r) \/ InstanceRetired(r)

Next == \/ \E r \in Requests : Step(r) \/ Cancel(r)
        \/ \E d \in Instances : PlatformMoves(d)
        \/ Tick

(* A goroutine keeps running; locks, the network and the platform answer. *)
Fairness == \A r \in Requests : WF_vars(Step(r))

Spec == Init /\ [][Next]_vars /\ Fairness

-----------------------------------------------------------------------------
TypeOK ==
  /\ platform \in [Instances -> {"absent", "serving", "zombie", "removed"}]
  /\ cached \in SUBSET Instances
  /\ cacheAge \in 0..CacheTTL
  /\ recoveryAge \in 0..RecoveryGap
  /\ blacklist \in [Instances -> 0..BlacklistTTL]
  /\ lock \in Requests \cup {NoRequest}
  /\ pc \in [Requests -> {"loop", "read", "acquire", "fetch", "select",
                          "recover", "send", "done"}]
  /\ stage \in [Requests -> {"first", "again", "refreshed"}]
  /\ mode \in [Requests -> AllModes]
  /\ target \in [Requests -> Names]
  /\ dep \in [Requests -> Instances \cup {NoInstance}]
  /\ snap \in [Requests -> SUBSET Instances]
  /\ attempt \in [Requests -> 0..MaxRetries]
  /\ cancelled \in [Requests -> BOOLEAN]
  /\ outcome \in [Requests -> {"none", "cancelled", "nodeployment", "listed",
                               "exhausted", "served", "refused", "broken"}
                              \cup Retirement]
  /\ tried \in [Requests -> SUBSET Instances]

(* A retirement report never hits an instance that still serves: a generic  *)
(* error (404, 429, 5xx) must not take a live deployment out of rotation    *)
(* for every other request (isRetryableStatus, MarkUnhealthy).              *)
OnlyRetiredBlacklisted ==
  \A d \in Instances : blacklist[d] > 0 => platform[d] \in {"zombie", "removed"}

(* Within one request, an instance that reported its retirement is not      *)
(* called again while its blacklist entry lasts, whatever other requests    *)
(* refresh, mark or fetch meanwhile.                                        *)
NeverRecalled ==
  \A r \in Requests : pc[r] = "send" => dep[r] \notin tried[r]

(* Failover changes the instance, never the model: also for a request that  *)
(* named a moving -latest alias and whose list was refreshed in between.    *)
SameModel(d, e) == Bare[ModelOf[d]] = Bare[ModelOf[e]]
FailoverKeepsModel ==
  [][\A r \in Requests : dep[r] # NoInstance => SameModel(dep[r], dep'[r])]_vars

(* A list younger than its TTL is only replaced after a recovery refresh    *)
(* discarded it: requests that wait for the lock while another one fetches  *)
(* use that result instead of fetching again.                               *)
FreshListStable == [][Fresh => cached' = cached]_vars

(* A request that an instance answered with a retirement has put it on the  *)
(* blacklist for a full hour before it goes on or returns.                  *)
ReportsRetirement(r) ==
  (pc[r] = "send" /\ pc'[r] # "send" /\ ~Serving(dep[r]) /\ outcome'[r] # "broken")
    => blacklist'[dep[r]] = BlacklistTTL

(* FindAndCall keeps that promise for every retirement, in whichever form   *)
(* it is reported and also on the last attempt; CallStreaming cannot tell   *)
(* one that comes with status 200.                                          *)
FailoverBlacklists ==
  [][\A r \in Requests : mode[r] = "call" => ReportsRetirement(r)]_vars

(* Every request ends, although the look-ups of all of them wait for a lock *)
(* that is held across a network call.                                      *)
Termination == \A r \in Requests : <>(pc[r] = "done")

=============================================================================
