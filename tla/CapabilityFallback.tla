------------------------- MODULE CapabilityFallback -------------------------
(***************************************************************************)
(* What the proxy learns about the deployments from their rejections, and  *)
(* the fallbacks built on it: capability_cache.go, thinking_cache.go,      *)
(* execute.go and the chat functions of chat.go under                      *)
(* src/internal/handler/openai.                                            *)
(*                                                                         *)
(* Three caches are shared by all requests: deployments that do not know   *)
(* reasoning_effort, that take function tools on /responses only, and that *)
(* do not support adaptive thinking.  A worker runs one request after the  *)
(* other, of one of three kinds:                                           *)
(*   "gpt"       completeGPT and chatStream                                *)
(*   "thinking"  thinkingStream and the Claude calls built like it         *)
(*   "qwen"      the non-streaming Qwen branch of Complete                 *)
(* What a deployment rejects is external and fixed at the start.           *)
(***************************************************************************)
EXTENDS Naturals

CONSTANTS
  Workers,
  Instances,
  Mixes,          \* sets of kinds that run side by side (a bound)
  CapabilityTTL   \* capabilityTTL, 1 h

Kinds == {"gpt", "thinking", "qwen"}

ASSUME CapabilityAssumption ==
  /\ Mixes \subseteq SUBSET Kinds
  /\ CapabilityTTL \in Nat \ {0}

Efforts == {"absent", "none", "set"}
Keys == {"effort", "responses", "thinking"} \X Instances
NoEntry == CapabilityTTL + 1
Nothing == <<>>

VARIABLES
  rejects,   \* what the deployments reject (external)
  mix,       \* the kinds of requests clients send (external)
  entries,   \* the caches: time left, 0 when expired but not yet deleted
  kind, dep, effort, tools,  \* the request a worker runs
  pc,
  sends,     \* whether the body carries the effort or thinking parameter
  retried,   \* whether the parameter was dropped after a rejection
  got,       \* the rejection in the 400 body
  stale,     \* the key and continuation of a look-up that met an expired entry
  outcome

request == <<kind, dep, effort, tools>>
vars == <<rejects, mix, entries, request, pc, sends, retried, got, stale, outcome>>

Live(k) == entries[k] \in 1..CapabilityTTL
Expired(k) == entries[k] = 0

Init ==
  /\ rejects \in SUBSET Keys
  /\ entries = [k \in Keys |-> NoEntry]
  /\ mix \in Mixes
  /\ kind \in [Workers -> mix]
  /\ dep \in [Workers -> Instances]
  /\ effort = [w \in Workers |-> "absent"]
  /\ tools = [w \in Workers |-> FALSE]
  /\ pc = [w \in Workers |-> "idle"]
  /\ sends = [w \in Workers |-> FALSE]
  /\ retried = [w \in Workers |-> FALSE]
  /\ got = [w \in Workers |-> "nothing"]
  /\ stale = [w \in Workers |-> Nothing]
  /\ outcome = [w \in Workers |-> "none"]

Key(w, capability) == <<capability, dep[w]>>
Parameter(w) == Key(w, IF kind[w] = "gpt" THEN "effort" ELSE "thinking")

-----------------------------------------------------------------------------
(* capabilityCache *)

(* has: a live entry leads to yes, no entry to no; an expired one is first  *)
(* deleted, in a step of its own.                                           *)
Has(w, k, yes, no) ==
  /\ pc' = [pc EXCEPT ![w] = IF Live(k) THEN yes
                             ELSE IF Expired(k) THEN "drop" ELSE no]
  /\ stale' = [stale EXCEPT ![w] = IF Expired(k) THEN <<k, no>> ELSE Nothing]

(* Mutant: Delete instead of CompareAndDelete. *)
DropBlindly(k) == [entries EXCEPT ![k] = NoEntry]

(* CompareAndDelete: only the expired value that was read is deleted. *)
DropExpired(k) == IF Expired(k) THEN [entries EXCEPT ![k] = NoEntry] ELSE entries

Drop(w) ==
  /\ pc[w] = "drop"
  /\ entries' = DropExpired(stale[w][1])
  /\ pc' = [pc EXCEPT ![w] = stale[w][2]]
  /\ stale' = [stale EXCEPT ![w] = Nothing]
  /\ UNCHANGED <<rejects, mix, request, sends, retried, got, outcome>>

(* mark: deletes every expired entry, then stores a new one. *)
Marked(k) == [j \in Keys |-> IF j = k THEN CapabilityTTL
                             ELSE IF Expired(j) THEN NoEntry ELSE entries[j]]

-----------------------------------------------------------------------------
(* A request *)

Begin(w) ==
  /\ pc[w] = "idle"
  /\ \E k \in mix, d \in Instances, e \in Efforts, t \in BOOLEAN :
       /\ t => k = "gpt"   \* only the GPT path looks at the tools
       /\ kind' = [kind EXCEPT ![w] = k]
       /\ dep' = [dep EXCEPT ![w] = d]
       /\ effort' = [effort EXCEPT ![w] = e]
       /\ tools' = [tools EXCEPT ![w] = t]
  /\ pc' = [pc EXCEPT ![w] = IF kind'[w] = "gpt" THEN "route" ELSE "build"]
  /\ retried' = [retried EXCEPT ![w] = FALSE]
  /\ got' = [got EXCEPT ![w] = "nothing"]
  /\ outcome' = [outcome EXCEPT ![w] = "none"]
  /\ UNCHANGED <<rejects, mix, entries, sends, stale>>

(* shouldUseResponses, apart from its cache look-up. *)
BridgesTools(w) == tools[w] /\ effort[w] # "none"

Route(w) ==
  /\ pc[w] = "route"
  /\ Has(w, Key(w, "responses"), IF BridgesTools(w) THEN "bridge" ELSE "build", "build")
  /\ UNCHANGED <<rejects, mix, entries, request, sends, retried, got, outcome>>

(* The body is built without the parameter when the deployment is known not *)
(* to take it.                                                              *)
Build(w) ==
  /\ pc[w] = "build"
  /\ Has(w, Parameter(w), "call", "call")
  /\ sends' = [sends EXCEPT ![w] = effort[w] # "absent" /\ ~Live(Parameter(w))]
  /\ UNCHANGED <<rejects, mix, entries, request, retried, got, outcome>>

Finish(w, result) == /\ pc' = [pc EXCEPT ![w] = "idle"]
                     /\ outcome' = [outcome EXCEPT ![w] = result]

(* How the deployment answers the body that was sent. *)
Rejection(w) ==
  IF kind[w] = "gpt"
  THEN IF sends[w] /\ Key(w, "effort") \in rejects THEN "no_effort"
       ELSE IF /\ tools[w] /\ Key(w, "responses") \in rejects
               /\ ~(sends[w] /\ effort[w] = "none")
            THEN "use_responses" ELSE "nothing"
  ELSE IF sends[w] /\ effort[w] = "set" /\ Key(w, "thinking") \in rejects
       THEN "no_thinking" ELSE "nothing"

(* "error" stands for transport errors and every other upstream failure. *)
Call(w) ==
  /\ pc[w] = "call"
  /\ \/ Finish(w, "error") /\ UNCHANGED got
     \/ Rejection(w) = "nothing" /\ Finish(w, "ok") /\ UNCHANGED got
     \/ /\ Rejection(w) # "nothing"
        /\ got' = [got EXCEPT ![w] = Rejection(w)]
        /\ pc' = [pc EXCEPT ![w] = "rejected"]
        /\ UNCHANGED outcome
  /\ UNCHANGED <<rejects, mix, entries, request, sends, retried, stale>>

(* Mutant: the Qwen branch, too, repeats only what the cache does not know. *)
AsksAgain(w) ==
  /\ pc[w] = "rejected"
  /\ \/ /\ retried[w] \/ effort[w] = "absent"
        /\ pc' = [pc EXCEPT ![w] = "tools"]
        /\ UNCHANGED stale
     \/ /\ ~retried[w] /\ effort[w] # "absent"
        /\ Has(w, Parameter(w), "tools",
               IF got[w] = "use_responses" THEN "tools" ELSE "mark")
  /\ UNCHANGED <<rejects, mix, entries, request, sends, retried, got, outcome>>

(* After a 400: the parameter was rejected, it was not dropped before, and  *)
(* the cache does not know yet.  The Qwen branch does not ask the cache.    *)
Rejected(w) ==
  /\ pc[w] = "rejected"
  /\ \/ /\ retried[w] \/ effort[w] = "absent"
        /\ pc' = [pc EXCEPT ![w] = "tools"]
        /\ UNCHANGED stale
     \/ /\ ~retried[w] /\ effort[w] # "absent" /\ kind[w] = "qwen"
        /\ pc' = [pc EXCEPT ![w] = "mark"]
        /\ UNCHANGED stale
     \/ /\ ~retried[w] /\ effort[w] # "absent" /\ kind[w] # "qwen"
        /\ Has(w, Parameter(w), "tools",
               IF got[w] = "use_responses" THEN "tools" ELSE "mark")
  /\ UNCHANGED <<rejects, mix, entries, request, sends, retried, got, outcome>>

(* Mutant: a loop in place of the single retry, with the body unchanged. *)
RetriesForever(w) ==
  /\ pc[w] = "mark"
  /\ entries' = Marked(Parameter(w))
  /\ pc' = [pc EXCEPT ![w] = "call"]
  /\ UNCHANGED <<rejects, mix, request, sends, retried, got, stale, outcome>>

(* Remember the rejection and repeat the call once; the thinking calls      *)
(* build their body anew.                                                   *)
Mark(w) ==
  /\ pc[w] = "mark"
  /\ entries' = Marked(Parameter(w))
  /\ retried' = [retried EXCEPT ![w] = TRUE]
  /\ sends' = [sends EXCEPT ![w] = FALSE]
  /\ pc' = [pc EXCEPT ![w] = IF kind[w] = "gpt" THEN "call" ELSE "build"]
  /\ UNCHANGED <<rejects, mix, request, got, stale, outcome>>

(* Mutant: any rejection of a request with tools marks its deployment. *)
ToolsAnyError(w) == tools[w]

NeedsResponses(w) == tools[w] /\ got[w] = "use_responses"

Tools(w) ==
  /\ pc[w] = "tools"
  /\ \/ /\ NeedsResponses(w)
        /\ entries' = Marked(Key(w, "responses"))
        /\ pc' = [pc EXCEPT ![w] = "bridge"]
        /\ UNCHANGED outcome
     \/ ~NeedsResponses(w) /\ Finish(w, "bad_request") /\ UNCHANGED entries
  /\ UNCHANGED <<rejects, mix, request, sends, retried, got, stale>>

(* chatViaResponses, responsesStream: validateResponsesBridge refuses to    *)
(* drop an explicit "none".                                                 *)
Bridge(w) ==
  /\ pc[w] = "bridge"
  /\ \/ effort[w] = "none" /\ Finish(w, "bad_request")
     \/ effort[w] # "none" /\ \E result \in {"ok", "error"} : Finish(w, result)
  /\ UNCHANGED <<rejects, mix, entries, request, sends, retried, got, stale>>

(* Marking and building the body of the retry are two statements in a row,  *)
(* without a call between them: the hour of an entry does not pass there.   *)
Rebuilding == \E w \in Workers : pc[w] = "build" /\ retried[w]

Tick ==
  /\ ~Rebuilding
  /\ entries' = [k \in Keys |-> IF Live(k) THEN entries[k] - 1 ELSE entries[k]]
  /\ UNCHANGED <<rejects, mix, request, pc, sends, retried, got, stale, outcome>>

Step(w) == \/ Drop(w) \/ Route(w) \/ Build(w) \/ Call(w) \/ Rejected(w)
           \/ Mark(w) \/ Tools(w) \/ Bridge(w)

Next == Tick \/ \E w \in Workers : Begin(w) \/ Step(w)

(* A request that was started keeps running; the deployments answer. *)
Fairness == \A w \in Workers : WF_vars(Step(w))

Spec == Init /\ [][Next]_vars /\ Fairness

-----------------------------------------------------------------------------
TypeOK ==
  /\ rejects \in SUBSET Keys
  /\ entries \in [Keys -> 0..NoEntry]
  /\ kind \in [Workers -> mix] /\ mix \in Mixes
  /\ dep \in [Workers -> Instances]
  /\ effort \in [Workers -> Efforts]
  /\ tools \in [Workers -> BOOLEAN]
  /\ pc \in [Workers -> {"idle", "route", "build", "call", "rejected", "mark",
                         "tools", "bridge", "drop"}]
  /\ sends \in [Workers -> BOOLEAN]
  /\ retried \in [Workers -> BOOLEAN]
  /\ got \in [Workers -> {"nothing", "no_effort", "use_responses", "no_thinking"}]
  /\ stale \in [Workers -> {Nothing} \cup (Keys \X {"build", "call", "tools", "mark"})]
  /\ outcome \in [Workers -> {"none", "ok", "bad_request", "error"}]

(* A deployment is only marked for what it really rejects: an entry takes a *)
(* capability away from every request for an hour.                          *)
MarksAreTrue == \A k \in Keys : entries[k] # NoEntry => k \in rejects

(* What was learned lasts its hour: a look-up that met an expired entry     *)
(* does not delete the new one another request stored meanwhile.            *)
LiveMarkKept == [][\A k \in Keys : entries[k] > 0 /\ entries[k] # NoEntry
                                     => entries'[k] # NoEntry]_vars

(* execute.go: "retry once without it rather than turning a previously      *)
(* working request into a 400 because the client sets the field".  A request*)
(* can be served unless its deployment refuses both the bridge and the      *)
(* field that keeps it off the bridge.                                      *)
Servable(w) == ~(/\ effort[w] = "none" /\ tools[w] /\ kind[w] = "gpt"
                 /\ Key(w, "effort") \in rejects /\ Key(w, "responses") \in rejects)

(* Whatever other requests mark meanwhile, two kinds of requests are served *)
(* when they can be: those of the Qwen branch, which repeats a call without *)
(* asking the cache again, and those that switch off a reasoning their      *)
(* deployment has (README.md, "Explicit reasoning_effort:none can still use *)
(* Chat after this capability is cached").  The other branches ask the      *)
(* cache again and may pass a rejection on.                                 *)
ServedWhenPossible ==
  \A w \in Workers :
    /\ outcome[w] = "bad_request" /\ Servable(w)
    => /\ kind[w] # "qwen"
       /\ ~(kind[w] = "gpt" /\ effort[w] = "none" /\ Key(w, "effort") \notin rejects)

(* Every request ends: no fallback leads back to a call that was rejected. *)
RequestsEnd == \A w \in Workers : pc[w] # "idle" ~> pc[w] = "idle"
=============================================================================
