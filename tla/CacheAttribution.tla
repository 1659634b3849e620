-------------------------- MODULE CacheAttribution --------------------------
(***************************************************************************)
(* Cache attribution, src/internal/diagnostics: every finished request is  *)
(* compared with the previous one of its conversation and counted.         *)
(*                                                                         *)
(* observe takes two locks: the collector's around get, classify and put,  *)
(* and again in Add; the session store's inside each of its operations.    *)
(* Between put and Add it holds neither.                                   *)
(*                                                                         *)
(* SHA-256 is taken to be injective: a digest is the thing it digests, the *)
(* chain digest of a run of messages is that run, and Zero is the all-zero *)
(* array that digests nothing.  Requests that are skipped or failed only   *)
(* count in a series of their own and are left out.                        *)
(***************************************************************************)
EXTENDS Naturals, Sequences, SequencesExt, FiniteSets

CONSTANTS
  Requests,        \* requests being observed at the same time
  Users, Messages,
  Systems,         \* what precedes the messages: the system prompt and the tools
  MaxMessages,     \* bound: messages of a request
  MaxRequests,     \* bound: requests in all
  Capacity,        \* defaultSessionCapacity, 1000
  SessionTTL,      \* defaultSessionTTL, 30 min
  Zero, Nobody

Histories == UNION {[1..n -> Messages] : n \in 0..MaxMessages}

ASSUME AttributionAssumption ==
  /\ Capacity \in Nat \ {0}
  /\ {SessionTTL, MaxMessages, MaxRequests} \subseteq Nat
  /\ IsFiniteSet(Requests)
  /\ Nobody \notin Requests
  /\ Zero \notin Messages \cup Histories

Bodies == [user : Users, system : Systems, messages : Histories]
Unknown == [known |-> FALSE]

VARIABLES
  lru,       \* sessionStore.order: session keys, the most recent first
  state,     \* sessionStore.items: the last observation of a session, with the
             \* request itself as its history
  holder,    \* who holds Collector.mu
  pc, body,
  prev,      \* what get returned
  outcome, divergence,  \* of the request being observed
  total, busted, rewritten, diverged,  \* Collector.outcome, result, divergence
  before,    \* history: the previous request of the conversation itself
  since      \* history: requests of a session since it was inserted

storeVars == <<lru, state, since>>
countVars == <<total, busted, rewritten, diverged>>
localVars == <<pc, body, prev, outcome, divergence, before>>
vars == <<storeVars, holder, localVars, countVars>>

Init ==
  /\ lru = <<>>
  /\ state = <<>>
  /\ holder = Nobody
  /\ pc = [r \in Requests |-> "idle"]
  /\ body = [r \in Requests |-> Zero]
  /\ prev = [r \in Requests |-> Unknown]
  /\ outcome = [r \in Requests |-> "none"]
  /\ divergence = [r \in Requests |-> "none"]
  /\ total = 0 /\ busted = 0 /\ rewritten = 0 /\ diverged = 0
  /\ before = [r \in Requests |-> Zero]
  /\ since = <<>>

-----------------------------------------------------------------------------
(* parseRequest *)

First(b) == IF b.messages = <<>> THEN Zero ELSE Head(b.messages)
LiveZone(b) == IF b.messages = <<>> THEN Zero ELSE Last(b.messages)
Prefix(b) == IF Len(b.messages) > 1 THEN Front(b.messages) ELSE Zero
FullChain(b) == IF b.messages = <<>> THEN Zero ELSE b.messages

SessionKey(b) == <<b.user, First(b)>>

ChainAt(messages, upto) == SubSeq(messages, 1, IF upto < Len(messages) THEN upto ELSE Len(messages))

-----------------------------------------------------------------------------
(* classify *)

(* Mutant: only the first message is compared, as by a hash window. *)
AppendOnlyWindowed(p, b) ==
  /\ Len(b.messages) > p.count
  /\ p.full # Zero
  /\ ChainAt(b.messages, 1) = ChainAt(p.full, 1)

IsAppendOnly(p, b) ==
  /\ Len(b.messages) > p.count
  /\ p.full # Zero
  /\ ChainAt(b.messages, p.count) = p.full

Classify(p, b) ==
  CASE ~p.known                     -> "first_request"
    [] p.known /\ b.system # p.system -> "system_changed"
    [] p.known /\ b.system = p.system ->
         IF Prefix(b) = p.prefix
         THEN IF LiveZone(b) = p.live THEN "identical" ELSE "live_zone_only"
         ELSE IF IsAppendOnly(p, b) THEN "append_only" ELSE "messages_rewritten"

DivergenceWhere(p, b) ==
  IF p.count < 2 THEN "none"
  ELSE IF /\ Len(b.messages) >= p.count - 1
          /\ ChainAt(b.messages, p.count - 1) = p.prefix
       THEN "tail" ELSE "history"

Busted(o) == o \in {"system_changed", "messages_rewritten"}

-----------------------------------------------------------------------------
(* sessionStore *)

Tracked == DOMAIN state
Without(f, k) == [j \in DOMAIN f \ {k} |-> f[j]]
With(f, k, v) == [j \in DOMAIN f \cup {k} |-> IF j = k THEN v ELSE f[j]]
Only(f, keys) == [j \in DOMAIN f \cap keys |-> f[j]]
ToFront(k) == <<k>> \o SelectSeq(lru, LAMBDA j : j # k)

(* get, which deletes a session it finds expired *)
Get(r, k) ==
  IF k \in Tracked /\ state[k].age <= SessionTTL
  THEN /\ prev' = [prev EXCEPT ![r] = state[k]]
       /\ lru' = ToFront(k)
       /\ UNCHANGED <<state, since>>
  ELSE /\ prev' = [prev EXCEPT ![r] = Unknown]
       /\ lru' = SelectSeq(lru, LAMBDA j : j # k)
       /\ state' = Without(state, k)
       /\ since' = Without(since, k)

Observation(b) ==
  [known |-> TRUE, system |-> b.system, prefix |-> Prefix(b), full |-> FullChain(b),
   live |-> LiveZone(b), count |-> Len(b.messages), requests |-> 0, busted |-> 0,
   age |-> 0, request |-> b]

(* Mutant: the counters of the copy that get returned are put back. *)
StaleCounters(r, k) ==
  IF prev[r].known THEN [requests |-> prev[r].requests, busted |-> prev[r].busted]
  ELSE [requests |-> 0, busted |-> 0]

(* put keeps the counters that are in the store now. *)
Counters(r, k) ==
  IF k \in Tracked THEN [requests |-> state[k].requests, busted |-> state[k].busted]
  ELSE [requests |-> 0, busted |-> 0]

(* The sessions that stay when the keys exceed the capacity. *)
Evict(keys) == SubSeq(keys, 1, IF Len(keys) > Capacity THEN Capacity ELSE Len(keys))

Put(r, k) ==
  LET new == [Observation(body[r]) EXCEPT !.requests = Counters(r, k).requests,
                                          !.busted = Counters(r, k).busted]
      kept == Evict(ToFront(k))
      n == IF k \in Tracked THEN since[k] + 1 ELSE 1
  IN /\ lru' = kept
     /\ state' = Only(With(state, k, new), ToSet(kept))
     /\ since' = Only(With(since, k, n), ToSet(kept))

-----------------------------------------------------------------------------
(* observe *)

Begin(r) ==
  /\ pc[r] = "idle"
  /\ total + Cardinality({q \in Requests : pc[q] # "idle"}) < MaxRequests
  /\ \E b \in Bodies : body' = [body EXCEPT ![r] = b]
  /\ pc' = [pc EXCEPT ![r] = "get"]
  /\ UNCHANGED <<storeVars, holder, prev, outcome, divergence, before, countVars>>

(* Mutant: get does not wait for the collector's lock. *)
LooksUnlocked(r) ==
  /\ pc[r] = "get"
  /\ Get(r, SessionKey(body[r]))
  /\ pc' = [pc EXCEPT ![r] = "put"]
  /\ UNCHANGED <<holder, body, outcome, divergence, before, countVars>>

Look(r) ==
  /\ pc[r] = "get" /\ holder = Nobody
  /\ holder' = r
  /\ Get(r, SessionKey(body[r]))
  /\ pc' = [pc EXCEPT ![r] = "put"]
  /\ UNCHANGED <<body, outcome, divergence, before, countVars>>

Store(r) ==
  LET b == body[r]
      o == Classify(prev[r], b)
  IN /\ pc[r] = "put"
     /\ outcome' = [outcome EXCEPT ![r] = o]
     /\ divergence' = [divergence EXCEPT ![r] =
          IF o = "messages_rewritten" THEN DivergenceWhere(prev[r], b) ELSE "none"]
     /\ before' = [before EXCEPT ![r] = IF prev[r].known THEN prev[r].request ELSE Zero]
     /\ Put(r, SessionKey(b))
     /\ holder' = Nobody
     /\ pc' = [pc EXCEPT ![r] = "bump"]
     /\ UNCHANGED <<body, prev, countVars>>

One(condition) == IF condition THEN 1 ELSE 0

(* countBump, for a session that may be gone by now *)
CountBump(r) ==
  LET k == SessionKey(body[r]) IN
  /\ pc[r] = "bump"
  /\ state' = IF k \in Tracked
              THEN [state EXCEPT ![k].requests = @ + 1,
                                 ![k].busted = @ + One(Busted(outcome[r]))]
              ELSE state
  /\ pc' = [pc EXCEPT ![r] = "add"]
  /\ UNCHANGED <<lru, since, holder, body, prev, outcome, divergence, before, countVars>>

(* Collector.Add; the request is done *)
Add(r) ==
  /\ pc[r] = "add" /\ holder = Nobody
  /\ total' = total + 1
  /\ busted' = busted + One(Busted(outcome[r]))
  /\ rewritten' = rewritten + One(outcome[r] = "messages_rewritten")
  /\ diverged' = diverged + One(divergence[r] # "none")
  /\ pc' = [pc EXCEPT ![r] = "idle"]
  /\ body' = [body EXCEPT ![r] = Zero]
  /\ prev' = [prev EXCEPT ![r] = Unknown]
  /\ outcome' = [outcome EXCEPT ![r] = "none"]
  /\ divergence' = [divergence EXCEPT ![r] = "none"]
  /\ before' = [before EXCEPT ![r] = Zero]
  /\ UNCHANGED <<storeVars, holder>>

(* Sessions age until they are expired. *)
Tick ==
  /\ \E k \in Tracked : state[k].age <= SessionTTL
  /\ state' = [k \in Tracked |-> [state[k] EXCEPT !.age =
                                    IF @ <= SessionTTL THEN @ + 1 ELSE @]]
  /\ UNCHANGED <<lru, since, holder, localVars, countVars>>

Next == Tick \/ \E r \in Requests :
                  Begin(r) \/ Look(r) \/ Store(r) \/ CountBump(r) \/ Add(r)

Spec == Init /\ [][Next]_vars

-----------------------------------------------------------------------------
(* observe: "the get/classify/put sequence ... atomic with respect to other *)
(* requests of the same conversation": a request is judged against the one  *)
(* that is replaced by it, never against an older one.                      *)
JudgedByPredecessor ==
  \A r \in Requests : pc[r] = "put" =>
    LET k == SessionKey(body[r]) IN
      IF prev[r].known THEN k \in Tracked /\ state[k].request = prev[r].request
      ELSE k \notin Tracked

(* What the digests say is true of the messages: nothing was edited when a  *)
(* request counts as append_only, nothing before the last message when it   *)
(* counts as live_zone_only or as a tail rewrite.                           *)
Edited(p, c) == ~IsPrefix(p, c)
ClassifiedRight ==
  \A r \in Requests : pc[r] = "bump" /\ before[r] # Zero =>
    LET p == before[r].messages
        c == body[r].messages
        o == outcome[r]
    IN before[r].system = body[r].system =>
         /\ o = "identical" <=> p = c
         /\ o = "append_only" <=> ~Edited(p, c) /\ p # c
         /\ o = "live_zone_only" <=> Edited(p, c) /\ Len(p) = Len(c)
                                       /\ ~Edited(Front(p), c)
         /\ divergence[r] = "tail" => Edited(p, c) /\ ~Edited(Front(p), c)
         /\ divergence[r] = "history" => Edited(Front(p), c)

(* entry.divergence: every request counted as messages_rewritten has its    *)
(* place counted, so that the split adds up to the whole.                   *)
DivergenceAddsUp == diverged = rewritten

(* put accumulates the counters: no request of a tracked conversation is    *)
(* lost to another one that is being observed.                              *)
Pending(k) == {r \in Requests : pc[r] = "bump" /\ SessionKey(body[r]) = k}
BumpsKept == \A k \in Tracked :
               state[k].requests + Cardinality(Pending(k)) >= since[k]
=============================================================================
