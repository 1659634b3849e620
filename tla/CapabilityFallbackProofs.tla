---------------------- MODULE CapabilityFallbackProofs ----------------------
(***************************************************************************)
(* What CapabilityFallback promises, for any number of workers and         *)
(* deployments.  A look-up that meets an expired entry takes one step more *)
(* than others; At(w) is where the request continues once it is through.   *)
(***************************************************************************)
EXTENDS CapabilityFallback, TLAPS

Stages == {"idle", "route", "build", "call", "rejected", "mark", "tools", "bridge"}

At(w) == IF pc[w] = "drop" THEN stale[w][2] ELSE pc[w]

StaleOK == \A w \in Workers :
             pc[w] = "drop" => stale[w] \in Keys \X {"build", "call", "tools", "mark"}

(* A rejection that is held was justified, its request can receive it, and  *)
(* a mark is made for a rejected parameter only.                            *)
GotTrue(w) ==
  /\ got[w] = "use_responses" => /\ Key(w, "responses") \in rejects
                                 /\ kind[w] = "gpt"
  /\ got[w] = "no_effort" => Key(w, "effort") \in rejects /\ kind[w] = "gpt"
  /\ got[w] = "no_thinking" => Key(w, "thinking") \in rejects /\ kind[w] # "gpt"
  /\ At(w) = "rejected" => got[w] # "nothing"
  /\ At(w) = "mark" => got[w] \in {"no_effort", "no_thinking"}

(* The repeated call goes without the parameter: its mark outlives the      *)
(* building of its body.                                                    *)
RetryBare(w) ==
  retried[w] => /\ ~sends[w]
                /\ At(w) = "build" => Live(Parameter(w)) /\ pc[w] = "build"
                /\ At(w) \notin {"route", "mark"}
                /\ Parameter(w) \in rejects

(* Where a request outside the GPT path can be after a 400. *)
OtherKinds(w) ==
  kind[w] # "gpt" =>
    /\ At(w) \in {"idle", "build", "call", "rejected", "mark", "tools"}
    /\ At(w) = "rejected" => sends[w] /\ effort[w] = "set"
    /\ kind[w] = "qwen" => At(w) # "tools"

(* A GPT request that switches reasoning off sends the field until its      *)
(* deployment turns out not to know it.                                     *)
OffKnown(w) ==
  kind[w] = "gpt" /\ effort[w] = "none" /\ Key(w, "effort") \notin rejects =>
    /\ At(w) \in {"idle", "route", "build", "call"}
    /\ At(w) = "call" => sends[w]

ServedHere(w) ==
  outcome[w] = "bad_request" /\ Servable(w) =>
    /\ kind[w] # "qwen"
    /\ ~(kind[w] = "gpt" /\ effort[w] = "none" /\ Key(w, "effort") \notin rejects)

Local(w) == GotTrue(w) /\ RetryBare(w) /\ OtherKinds(w) /\ OffKnown(w) /\ ServedHere(w)

IInv == TypeOK /\ StaleOK /\ MarksAreTrue /\ \A w \in Workers : Local(w)

-----------------------------------------------------------------------------
(* Deleting an expired entry and storing a mark, entry by entry. *)
LEMMA MarkKeeps ==
  ASSUME TypeOK, NEW k \in Keys
  PROVE  /\ Marked(k) \in [Keys -> 0..NoEntry]
         /\ Marked(k)[k] = CapabilityTTL
         /\ \A j \in Keys : /\ Marked(k)[j] # NoEntry => j = k \/ entries[j] # NoEntry
                            /\ Live(j) => Marked(k)[j] \in 1..CapabilityTTL
BY CapabilityAssumption DEF TypeOK, Marked, NoEntry, Live, Expired

LEMMA DropKeeps ==
  ASSUME TypeOK, NEW k \in Keys
  PROVE  /\ DropExpired(k) \in [Keys -> 0..NoEntry]
         /\ \A j \in Keys : /\ DropExpired(k)[j] # NoEntry => entries[j] # NoEntry
                            /\ Live(j) => DropExpired(k)[j] = entries[j]
BY CapabilityAssumption DEF TypeOK, DropExpired, NoEntry, Live, Expired

LEMMA ParameterIsKey ==
  ASSUME TypeOK, NEW w \in Workers
  PROVE  Parameter(w) \in Keys /\ Key(w, "responses") \in Keys
BY DEF TypeOK, Parameter, Key, Keys

(* A look-up sends the request on to one of two places; only when it is the  *)
(* one for "known" was the entry live.                                       *)
LEMMA HasLeads ==
  ASSUME TypeOK, NEW w \in Workers, NEW k \in Keys, NEW yes \in Stages,
         NEW no \in {"build", "call", "tools", "mark"}, Has(w, k, yes, no)
  PROVE  /\ pc' \in [Workers -> Stages \cup {"drop"}]
         /\ stale' \in [Workers -> {Nothing} \cup (Keys \X {"build", "call", "tools", "mark"})]
         /\ At(w)' = IF Live(k) THEN yes ELSE no
         /\ pc'[w] = "drop" => stale'[w] \in Keys \X {"build", "call", "tools", "mark"}
         /\ Live(k) => pc'[w] = yes
         /\ \A v \in Workers \ {w} : /\ pc'[v] = pc[v] /\ stale'[v] = stale[v]
                                     /\ At(v)' = At(v)
BY CapabilityAssumption DEF TypeOK, Has, Live, Expired, At, Stages

(* What Route, Build and Rejected ask the caches. *)
LEMMA LookUps ==
  ASSUME TypeOK, NEW w \in Workers, Route(w) \/ Build(w) \/ Rejected(w)
  PROVE  /\ pc' \in [Workers -> Stages \cup {"drop"}]
         /\ stale' \in [Workers -> {Nothing} \cup (Keys \X {"build", "call", "tools", "mark"})]
         /\ pc'[w] = "drop" => stale'[w] \in Keys \X {"build", "call", "tools", "mark"}
         /\ \A v \in Workers \ {w} : pc'[v] = pc[v] /\ stale'[v] = stale[v] /\ At(v)' = At(v)
         /\ Route(w) => IF Live(Key(w, "responses")) /\ BridgesTools(w)
                        THEN At(w)' = "bridge" ELSE At(w)' = "build"
         /\ Build(w) => At(w)' = "call"
         /\ Rejected(w) =>
              /\ At(w)' \in {"tools", "mark"}
              /\ At(w)' = "mark" => /\ kind[w] # "qwen" => got[w] # "use_responses"
                                    /\ ~retried[w]
              /\ At(w)' = "tools" /\ kind[w] = "qwen" => retried[w] \/ effort[w] = "absent"
<1>. USE ParameterIsKey DEF Stages
<1>1. CASE Route(w)
  <2>1. Has(w, Key(w, "responses"), IF BridgesTools(w) THEN "bridge" ELSE "build", "build")
    BY <1>1 DEF Route
  <2>2. pc[w] = "route"
    BY <1>1 DEF Route
  <2>3. CASE BridgesTools(w)
    BY <2>1, <2>2, <2>3, HasLeads DEF Build, Rejected
  <2>4. CASE ~BridgesTools(w)
    BY <2>1, <2>2, <2>4, HasLeads DEF Build, Rejected
  <2>. QED  BY <2>3, <2>4
<1>2. CASE Build(w)
  <2>1. pc[w] = "build" /\ Has(w, Parameter(w), "call", "call")
    BY <1>2 DEF Build
  <2>. QED  BY <2>1, HasLeads DEF Route, Rejected
<1>3. CASE Rejected(w)
  <2>1. pc[w] = "rejected"
    BY <1>3 DEF Rejected
  <2>2. CASE /\ retried[w] \/ effort[w] = "absent"
             /\ pc' = [pc EXCEPT ![w] = "tools"] /\ UNCHANGED stale
    BY <2>1, <2>2 DEF TypeOK, At, Route, Build
  <2>3. CASE /\ ~retried[w] /\ effort[w] # "absent" /\ kind[w] = "qwen"
             /\ pc' = [pc EXCEPT ![w] = "mark"] /\ UNCHANGED stale
    BY <2>1, <2>3 DEF TypeOK, At, Route, Build
  <2>4. CASE /\ ~retried[w] /\ effort[w] # "absent" /\ kind[w] # "qwen"
             /\ Has(w, Parameter(w), "tools",
                    IF got[w] = "use_responses" THEN "tools" ELSE "mark")
    <3>1. CASE got[w] = "use_responses"
      BY <2>1, <2>4, <3>1, HasLeads DEF Route, Build
    <3>2. CASE got[w] # "use_responses"
      BY <2>1, <2>4, <3>2, HasLeads DEF Route, Build
    <3>. QED  BY <3>1, <3>2
  <2>. QED  BY <1>3, <2>2, <2>3, <2>4 DEF Rejected
<1>. QED  BY <1>1, <1>2, <1>3

(* Every step keeps the types. *)
LEMMA TypeStep ==
  ASSUME TypeOK, StaleOK, [Next]_vars
  PROVE  TypeOK'
<1>. USE CapabilityAssumption DEF request, Stages
<1>1. ASSUME NEW w \in Workers, Begin(w) PROVE TypeOK'
  BY <1>1 DEF TypeOK, Begin, Efforts, Kinds
<1>2. ASSUME NEW w \in Workers, Drop(w) PROVE TypeOK'
  <2>1. stale[w][1] \in Keys /\ stale[w][2] \in {"build", "call", "tools", "mark"}
    BY <1>2 DEF Drop, StaleOK
  <2>. QED  BY <1>2, <2>1, DropKeeps DEF TypeOK, Drop
<1>3. ASSUME NEW w \in Workers, Route(w) PROVE TypeOK'
  BY <1>3, LookUps DEF TypeOK, Route
<1>4. ASSUME NEW w \in Workers, Build(w) PROVE TypeOK'
  BY <1>4, LookUps DEF TypeOK, Build
<1>5. ASSUME NEW w \in Workers, Call(w) PROVE TypeOK'
  <2>1. Rejection(w) \in {"nothing", "no_effort", "use_responses", "no_thinking"}
    BY DEF Rejection
  <2>. QED  BY <1>5, <2>1 DEF TypeOK, Call, Finish
<1>6. ASSUME NEW w \in Workers, Rejected(w) PROVE TypeOK'
  BY <1>6, LookUps DEF TypeOK, Rejected
<1>7. ASSUME NEW w \in Workers, Mark(w) PROVE TypeOK'
  BY <1>7, MarkKeeps, ParameterIsKey DEF TypeOK, Mark
<1>8. ASSUME NEW w \in Workers, Tools(w) PROVE TypeOK'
  <2>1. entries' \in [Keys -> 0..NoEntry]
    BY <1>8, MarkKeeps, ParameterIsKey DEF TypeOK, Tools
  <2>. QED  BY <1>8, <2>1 DEF TypeOK, Tools, Finish
<1>9. ASSUME NEW w \in Workers, Bridge(w) PROVE TypeOK'
  BY <1>9 DEF TypeOK, Bridge, Finish
<1>10. CASE Tick
  <2>1. entries' \in [Keys -> 0..NoEntry]
    BY <1>10 DEF TypeOK, Tick, Live, NoEntry
  <2>. QED  BY <1>10, <2>1 DEF TypeOK, Tick
<1>11. CASE UNCHANGED vars
  BY <1>11 DEF TypeOK, vars
<1>. QED  BY <1>1, <1>2, <1>3, <1>4, <1>5, <1>6, <1>7, <1>8, <1>9, <1>10, <1>11 DEF Next, Step

(* A look-up that meets an expired entry has a place to continue. *)
LEMMA StaleStep ==
  ASSUME TypeOK, StaleOK, [Next]_vars
  PROVE  StaleOK'
<1>1. ASSUME NEW w \in Workers, Route(w) \/ Build(w) \/ Rejected(w) PROVE StaleOK'
  BY <1>1, LookUps DEF StaleOK
<1>2. ASSUME NEW w \in Workers,
             Begin(w) \/ Drop(w) \/ Call(w) \/ Mark(w) \/ Tools(w) \/ Bridge(w)
      PROVE  StaleOK'
  BY <1>2 DEF StaleOK, TypeOK, Begin, Drop, Call, Mark, Tools, Bridge, Finish
<1>3. CASE Tick \/ UNCHANGED vars
  BY <1>3 DEF StaleOK, Tick, vars
<1>. QED  BY <1>1, <1>2, <1>3 DEF Next, Step

(* A request changes nothing of another one but what both read in the       *)
(* caches.                                                                  *)
LEMMA OthersKept ==
  ASSUME TypeOK, StaleOK, NEW w \in Workers, Begin(w) \/ Step(w), NEW v \in Workers \ {w}
  PROVE  /\ kind'[v] = kind[v] /\ dep'[v] = dep[v] /\ effort'[v] = effort[v]
         /\ tools'[v] = tools[v] /\ pc'[v] = pc[v] /\ At(v)' = At(v)
         /\ sends'[v] = sends[v] /\ retried'[v] = retried[v]
         /\ got'[v] = got[v] /\ outcome'[v] = outcome[v]
<1>. USE DEF TypeOK, request, At
<1>1. CASE Route(w) \/ Build(w) \/ Rejected(w)
  <2>1. pc'[v] = pc[v] /\ At(v)' = At(v)
    BY <1>1, LookUps
  <2>. QED  BY <1>1, <2>1 DEF Route, Build, Rejected
<1>2. CASE Begin(w)
  BY <1>2 DEF Begin
<1>3. CASE Drop(w) \/ Mark(w)
  BY <1>3 DEF Drop, Mark
<1>4. CASE Call(w) \/ Tools(w) \/ Bridge(w)
  BY <1>4 DEF Call, Tools, Bridge, Finish
<1>. QED  BY <1>1, <1>2, <1>3, <1>4 DEF Step

(* What a step does to the caches: live entries stay live, and a new one is *)
(* made by Mark and by Tools only.                                          *)
LEMMA EntriesStep ==
  ASSUME TypeOK, StaleOK, NEW w \in Workers, Begin(w) \/ Step(w), NEW k \in Keys
  PROVE  /\ rejects' = rejects
         /\ Live(k) => Live(k)'
         /\ entries'[k] # NoEntry =>
              \/ entries[k] # NoEntry
              \/ Mark(w) /\ k = Parameter(w)
              \/ Tools(w) /\ NeedsResponses(w) /\ k = Key(w, "responses")
<1>1. CASE Begin(w) \/ Route(w) \/ Build(w) \/ Call(w) \/ Rejected(w) \/ Bridge(w)
  BY <1>1 DEF Begin, Route, Build, Call, Rejected, Bridge, Live
<1>2. CASE Drop(w)
  <2>1. stale[w][1] \in Keys
    BY <1>2 DEF Drop, StaleOK
  <2>. QED  BY <1>2, <2>1, DropKeeps DEF Drop, Live
<1>3. CASE Mark(w)
  BY <1>3, MarkKeeps, ParameterIsKey DEF Mark, Live
<1>4. CASE Tools(w) /\ NeedsResponses(w)
  BY <1>4, MarkKeeps, ParameterIsKey DEF Tools, Live
<1>5. CASE Tools(w) /\ ~NeedsResponses(w)
  BY <1>5 DEF Tools, Live
<1>. QED  BY <1>1, <1>2, <1>3, <1>4, <1>5 DEF Step

(* A mark is made for a capability the deployment was seen to reject. *)
LEMMA MarksStep ==
  ASSUME IInv, [Next]_vars
  PROVE  MarksAreTrue'
<1>1. ASSUME NEW w \in Workers, Begin(w) \/ Step(w) PROVE MarksAreTrue'
  <2>1. TypeOK /\ StaleOK /\ MarksAreTrue /\ GotTrue(w)
    BY DEF IInv, Local
  <2>2. Mark(w) => Parameter(w) \in rejects
    BY <2>1 DEF GotTrue, Mark, At, Parameter
  <2>3. NeedsResponses(w) => Key(w, "responses") \in rejects
    BY <2>1 DEF GotTrue, NeedsResponses
  <2>4. ASSUME NEW k \in Keys, entries'[k] # NoEntry PROVE k \in rejects'
    BY <1>1, <2>1, <2>2, <2>3, <2>4, EntriesStep DEF MarksAreTrue
  <2>. QED  BY <2>4 DEF MarksAreTrue, NoEntry
<1>2. CASE Tick
  BY <1>2, CapabilityAssumption DEF IInv, TypeOK, Tick, MarksAreTrue, Live, NoEntry
<1>3. CASE UNCHANGED vars
  BY <1>3 DEF IInv, vars, MarksAreTrue, NoEntry
<1>. QED  BY <1>1, <1>2, <1>3 DEF Next

(* What others do leaves a request where it is. *)
LEMMA LocalKept ==
  ASSUME IInv, NEW w \in Workers, Begin(w) \/ Step(w), NEW v \in Workers \ {w}
  PROVE  Local(v)'
<1>1. TypeOK /\ StaleOK /\ Local(v)
  BY DEF IInv
<1>2. rejects' = rejects /\ (Live(Parameter(v)) => Live(Parameter(v))')
  <2>1. Parameter(v)' = Parameter(v)
    BY <1>1, OthersKept DEF Parameter, Key
  <2>2. \A k \in Keys : rejects' = rejects /\ (Live(k) => Live(k)')
    BY <1>1, EntriesStep
  <2>. QED  BY <1>1, <2>1, <2>2, ParameterIsKey DEF Live
<1>3. /\ kind'[v] = kind[v] /\ dep'[v] = dep[v] /\ effort'[v] = effort[v]
      /\ tools'[v] = tools[v] /\ pc'[v] = pc[v] /\ At(v)' = At(v)
      /\ sends'[v] = sends[v] /\ retried'[v] = retried[v]
      /\ got'[v] = got[v] /\ outcome'[v] = outcome[v]
  BY <1>1, OthersKept
<1>. HIDE DEF At, Live
<1>4. GotTrue(v)' /\ OtherKinds(v)' /\ OffKnown(v)' /\ ServedHere(v)'
  BY <1>1, <1>2, <1>3 DEF Local, GotTrue, OtherKinds, OffKnown, ServedHere, Servable, Key
<1>5. RetryBare(v)'
  BY <1>1, <1>2, <1>3 DEF Local, RetryBare, Parameter, Key
<1>. QED  BY <1>4, <1>5 DEF Local

(* A request that moves keeps what is said of it, step by step. *)
LEMMA LocalStep ==
  ASSUME IInv, NEW w \in Workers, Begin(w) \/ Step(w)
  PROVE  Local(w)'
<1>. USE DEF request, Key, Parameter
<1>0. TypeOK /\ StaleOK /\ MarksAreTrue /\ Local(w)
  BY DEF IInv
<1>1. CASE Begin(w)
  <2>1. GotTrue(w)'
    BY <1>0, <1>1
    DEF TypeOK, Local, GotTrue, At, Begin
  <2>2. RetryBare(w)'
    BY <1>0, <1>1
    DEF TypeOK, Local, RetryBare, At, Begin
  <2>3. OtherKinds(w)'
    BY <1>0, <1>1
    DEF TypeOK, Local, OtherKinds, At, Begin
  <2>4. OffKnown(w)'
    BY <1>0, <1>1
    DEF TypeOK, Local, OffKnown, At, Begin
  <2>5. ServedHere(w)'
    BY <1>0, <1>1
    DEF TypeOK, Local, ServedHere, At, Servable, Begin
  <2>. QED  BY <2>1, <2>2, <2>3, <2>4, <2>5 DEF Local
<1>2. CASE Drop(w)
  <2>1. GotTrue(w)'
    BY <1>0, <1>2
    DEF TypeOK, Local, GotTrue, At, Drop
  <2>2. RetryBare(w)'
    BY <1>0, <1>2
    DEF TypeOK, Local, RetryBare, At, Drop
  <2>3. OtherKinds(w)'
    BY <1>0, <1>2
    DEF TypeOK, Local, OtherKinds, At, Drop
  <2>4. OffKnown(w)'
    BY <1>0, <1>2
    DEF TypeOK, Local, OffKnown, At, Drop
  <2>5. ServedHere(w)'
    BY <1>0, <1>2
    DEF TypeOK, Local, ServedHere, At, Servable, Drop
  <2>. QED  BY <2>1, <2>2, <2>3, <2>4, <2>5 DEF Local
<1>3. CASE Route(w)
  <2>1. pc[w] = "route" /\ At(w) = "route"
    BY <1>3 DEF At, Route
  <2>2. GotTrue(w)'
    BY <1>0, <1>3, <2>1, LookUps
    DEF TypeOK, Local, GotTrue, Route, BridgesTools
  <2>3. RetryBare(w)'
    BY <1>0, <1>3, <2>1, LookUps
    DEF TypeOK, Local, RetryBare, Route, BridgesTools
  <2>4. OtherKinds(w)'
    BY <1>0, <1>3, <2>1, LookUps
    DEF TypeOK, Local, OtherKinds, Route, BridgesTools
  <2>5. OffKnown(w)'
    BY <1>0, <1>3, <2>1, LookUps
    DEF TypeOK, Local, OffKnown, Route, BridgesTools
  <2>6. ServedHere(w)'
    BY <1>0, <1>3, <2>1, LookUps
    DEF TypeOK, Local, ServedHere, Servable, Route, BridgesTools
  <2>. QED  BY <2>2, <2>3, <2>4, <2>5, <2>6 DEF Local
<1>4. CASE Build(w)
  <2>1. pc[w] = "build" /\ At(w) = "build" /\ At(w)' = "call"
    BY <1>0, <1>4, LookUps DEF At, Build
  <2>2. /\ sends'[w] = (effort[w] # "absent" /\ ~Live(Parameter(w)))
        /\ Live(Parameter(w)) => Parameter(w) \in rejects
    <3>1. sends'[w] = (effort[w] # "absent" /\ ~Live(Parameter(w)))
      BY <1>0, <1>4 DEF TypeOK, Build
    <3>2. \A k \in Keys : Live(k) => k \in rejects
      BY <1>0, CapabilityAssumption DEF MarksAreTrue, Live, NoEntry
    <3>. QED  BY <1>0, <3>1, <3>2, ParameterIsKey
  <2>3. GotTrue(w)'
    BY <1>0, <1>4, <2>1, <2>2, LookUps
    DEF TypeOK, Local, GotTrue, Build
  <2>4. RetryBare(w)'
    BY <1>0, <1>4, <2>1, <2>2, LookUps
    DEF TypeOK, Local, RetryBare, Build
  <2>5. OtherKinds(w)'
    BY <1>0, <1>4, <2>1, <2>2, LookUps
    DEF TypeOK, Local, OtherKinds, Build
  <2>6. OffKnown(w)'
    BY <1>0, <1>4, <2>1, <2>2, LookUps
    DEF TypeOK, Local, OffKnown, Build
  <2>7. ServedHere(w)'
    BY <1>0, <1>4, <2>1, <2>2, LookUps
    DEF TypeOK, Local, ServedHere, Servable, Build
  <2>. QED  BY <2>3, <2>4, <2>5, <2>6, <2>7 DEF Local
<1>5. CASE Call(w)
  <2>1. GotTrue(w)'
    BY <1>0, <1>5
    DEF TypeOK, Local, GotTrue, At, Call, Finish, Rejection
  <2>2. RetryBare(w)'
    BY <1>0, <1>5
    DEF TypeOK, Local, RetryBare, At, Call, Finish, Rejection
  <2>3. OtherKinds(w)'
    BY <1>0, <1>5
    DEF TypeOK, Local, OtherKinds, At, Call, Finish, Rejection
  <2>4. OffKnown(w)'
    BY <1>0, <1>5
    DEF TypeOK, Local, OffKnown, At, Call, Finish, Rejection
  <2>5. ServedHere(w)'
    BY <1>0, <1>5
    DEF TypeOK, Local, ServedHere, At, Servable, Call, Finish, Rejection
  <2>. QED  BY <2>1, <2>2, <2>3, <2>4, <2>5 DEF Local
<1>6. CASE Rejected(w)
  <2>1. pc[w] = "rejected" /\ At(w) = "rejected"
    BY <1>6 DEF At, Rejected
  <2>2. GotTrue(w)'
    BY <1>0, <1>6, <2>1, LookUps
    DEF TypeOK, Local, GotTrue, Rejected, OtherKinds
  <2>3. RetryBare(w)'
    <3>1. At(w)' \in {"tools", "mark"} /\ (At(w)' = "mark" => ~retried[w])
      BY <1>0, <1>6, LookUps
    <3>. QED  BY <1>0, <1>6, <2>1, <3>1 DEF Local, RetryBare, Rejected
  <2>4. OtherKinds(w)'
    <3>1. /\ At(w)' \in {"tools", "mark"}
          /\ At(w)' = "tools" /\ kind[w] = "qwen" => retried[w] \/ effort[w] = "absent"
      BY <1>0, <1>6, LookUps
    <3>2. kind[w] # "gpt" => sends[w] /\ effort[w] = "set" /\ ~retried[w]
      BY <1>0, <2>1 DEF Local, OtherKinds, RetryBare
    <3>. QED  BY <1>6, <3>1, <3>2 DEF OtherKinds, Rejected
  <2>5. OffKnown(w)'
    BY <1>0, <1>6, <2>1, LookUps
    DEF TypeOK, Local, OffKnown, Rejected
  <2>6. ServedHere(w)'
    BY <1>0, <1>6, <2>1, LookUps
    DEF TypeOK, Local, ServedHere, Servable, Rejected
  <2>. QED  BY <2>2, <2>3, <2>4, <2>5, <2>6 DEF Local
<1>7. CASE Mark(w)
  <2>1. GotTrue(w)'
    BY <1>0, <1>7, MarkKeeps, ParameterIsKey
    DEF TypeOK, Local, GotTrue, At, Mark
  <2>2. RetryBare(w)'
    <3>1. /\ pc[w] = "mark" /\ Parameter(w) \in rejects
          /\ Parameter(w)' = Parameter(w) /\ rejects' = rejects
      BY <1>0, <1>7 DEF Local, GotTrue, Mark, At
    <3>2. Live(Parameter(w))'
      <4>1. entries'[Parameter(w)] = CapabilityTTL
        BY <1>0, <1>7, MarkKeeps, ParameterIsKey DEF Mark
      <4>. QED  BY <3>1, <4>1, CapabilityAssumption DEF Live
    <3>3. ~sends'[w] /\ At(w)' \in {"call", "build"} /\ pc'[w] = At(w)'
      BY <1>0, <1>7 DEF TypeOK, Mark, At
    <3>. QED  BY <3>1, <3>2, <3>3 DEF RetryBare
  <2>3. OtherKinds(w)'
    BY <1>0, <1>7, MarkKeeps, ParameterIsKey
    DEF TypeOK, Local, OtherKinds, At, Mark
  <2>4. OffKnown(w)'
    BY <1>0, <1>7, MarkKeeps, ParameterIsKey
    DEF TypeOK, Local, OffKnown, At, Mark
  <2>5. ServedHere(w)'
    BY <1>0, <1>7, MarkKeeps, ParameterIsKey
    DEF TypeOK, Local, ServedHere, At, Servable, Mark
  <2>. QED  BY <2>1, <2>2, <2>3, <2>4, <2>5 DEF Local
<1>8. CASE Tools(w)
  <2>1. GotTrue(w)'
    BY <1>0, <1>8
    DEF TypeOK, Local, GotTrue, At, Tools, Finish
  <2>2. RetryBare(w)'
    BY <1>0, <1>8
    DEF TypeOK, Local, RetryBare, At, Tools, Finish
  <2>3. OtherKinds(w)'
    BY <1>0, <1>8
    DEF TypeOK, Local, OtherKinds, At, Tools, Finish, GotTrue, NeedsResponses
  <2>4. OffKnown(w)'
    BY <1>0, <1>8
    DEF TypeOK, Local, OffKnown, At, Tools, Finish
  <2>5. ServedHere(w)'
    BY <1>0, <1>8
    DEF TypeOK, Local, ServedHere, At, Servable, Tools, Finish, OtherKinds, OffKnown
  <2>. QED  BY <2>1, <2>2, <2>3, <2>4, <2>5 DEF Local
<1>9. CASE Bridge(w)
  <2>1. GotTrue(w)'
    BY <1>0, <1>9
    DEF TypeOK, Local, GotTrue, At, Bridge, Finish
  <2>2. RetryBare(w)'
    BY <1>0, <1>9
    DEF TypeOK, Local, RetryBare, At, Bridge, Finish
  <2>3. OtherKinds(w)'
    BY <1>0, <1>9
    DEF TypeOK, Local, OtherKinds, At, Bridge, Finish
  <2>4. OffKnown(w)'
    BY <1>0, <1>9
    DEF TypeOK, Local, OffKnown, At, Bridge, Finish
  <2>5. ServedHere(w)'
    BY <1>0, <1>9
    DEF TypeOK, Local, ServedHere, At, Servable, Bridge, Finish, OtherKinds, OffKnown
  <2>. QED  BY <2>1, <2>2, <2>3, <2>4, <2>5 DEF Local
<1>. QED  BY <1>1, <1>2, <1>3, <1>4, <1>5, <1>6, <1>7, <1>8, <1>9 DEF Step

LEMMA InvariantStep ==
  ASSUME IInv, [Next]_vars
  PROVE  IInv'
<1>1. TypeOK' /\ StaleOK' /\ MarksAreTrue'
  BY TypeStep, StaleStep, MarksStep DEF IInv
<1>2. ASSUME NEW v \in Workers PROVE Local(v)'
  <2>1. ASSUME NEW w \in Workers, Begin(w) \/ Step(w) PROVE Local(v)'
    BY <2>1, LocalStep, LocalKept
  <2>2. CASE Tick
    <3>1. retried[v] => At(v) # "build"
      BY <2>2 DEF IInv, Local, RetryBare, Tick, Rebuilding
    <3>. QED  BY <2>2, <3>1 DEF IInv, Local, GotTrue, RetryBare, OtherKinds, OffKnown,
                  ServedHere, Servable, Tick, request, At, Key, Parameter
  <2>3. CASE UNCHANGED vars
    BY <2>3 DEF IInv, Local, GotTrue, RetryBare, OtherKinds, OffKnown,
         ServedHere, Servable, vars, request, At, Key, Parameter, Live
  <2>. QED  BY <2>1, <2>2, <2>3 DEF Next
<1>. QED  BY <1>1, <1>2 DEF IInv

LEMMA InvariantStarts == Init => IInv
<1>. SUFFICES ASSUME Init PROVE IInv
  OBVIOUS
<1>1. TypeOK
  BY CapabilityAssumption DEF Init, TypeOK, Efforts, NoEntry
<1>2. StaleOK /\ MarksAreTrue
  BY DEF Init, StaleOK, MarksAreTrue
<1>3. \A w \in Workers : Local(w)
  BY DEF Init, Local, GotTrue, RetryBare, OtherKinds, OffKnown, ServedHere, At
<1>. QED  BY <1>1, <1>2, <1>3 DEF IInv

LEMMA Invariant == Spec => []IInv
BY InvariantStarts, InvariantStep, PTL DEF Spec

-----------------------------------------------------------------------------
(* The caches, the requests and the look-ups always have their types        *)
(* (capability_cache.go, execute.go, chat.go).                              *)
THEOREM TypeCorrect == Spec => []TypeOK
<1>1. IInv => TypeOK
  BY DEF IInv
<1>. QED  BY <1>1, Invariant, PTL

(* A deployment is marked only for a capability it really rejects, however  *)
(* many requests ask, mark and delete entries at once (markReasoning, mark  *)
(* in capability_cache.go).                                                 *)
THEOREM MarksTrue == Spec => []MarksAreTrue
<1>1. IInv => MarksAreTrue
  BY DEF IInv
<1>. QED  BY <1>1, Invariant, PTL

(* Requests of the Qwen branch, and GPT requests that switch off a          *)
(* reasoning their deployment has, are never turned away because of what    *)
(* other requests learned (qwen.go, execute.go, chat.go).                   *)
THEOREM ServedAlways == Spec => []ServedWhenPossible
<1>1. IInv => ServedWhenPossible
  BY DEF IInv, Local, ServedHere, ServedWhenPossible
<1>. QED  BY <1>1, Invariant, PTL

(* An entry that has time left is deleted by nobody: the look-up that met   *)
(* its expired predecessor deletes only that one (has in                    *)
(* capability_cache.go).                                                    *)
THEOREM MarksLast == Spec => LiveMarkKept
<1>1. ASSUME TypeOK, StaleOK, [Next]_vars, NEW k \in Keys,
             entries[k] > 0, entries[k] # NoEntry
      PROVE  entries'[k] # NoEntry
  <2>1. Live(k)
    BY <1>1, CapabilityAssumption DEF TypeOK, Live, NoEntry
  <2>2. ASSUME NEW w \in Workers, Begin(w) \/ Step(w) PROVE entries'[k] # NoEntry
    <3>1. Live(k)'
      BY <1>1, <2>1, <2>2, EntriesStep
    <3>. QED  BY <3>1, CapabilityAssumption DEF Live, NoEntry
  <2>3. CASE Tick
    BY <1>1, <2>1, <2>3, CapabilityAssumption DEF Tick, Live, NoEntry
  <2>4. CASE UNCHANGED vars
    BY <1>1, <2>4 DEF vars, NoEntry
  <2>. QED  BY <1>1, <2>2, <2>3, <2>4 DEF Next
<1>2. TypeOK /\ StaleOK /\ [Next]_vars =>
        [\A k \in Keys : entries[k] > 0 /\ entries[k] # NoEntry => entries'[k] # NoEntry]_vars
  BY <1>1 DEF NoEntry
<1>3. IInv => TypeOK /\ StaleOK
  BY DEF IInv
<1>. QED  BY <1>2, <1>3, Invariant, PTL DEF Spec, LiveMarkKept

=============================================================================
