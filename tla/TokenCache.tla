----------------------------- MODULE TokenCache -----------------------------
(***************************************************************************)
(* The bearer token of the SAP AI Core client: AuthManager of              *)
(* src/internal/sapclient/auth.go, its singleflight group, and the signed  *)
(* request loop of src/internal/sapclient/client.go that uses it.          *)
(*                                                                         *)
(* Every request is a process that runs Client.do once.  One request leads *)
(* a token exchange, the others that need one wait for its result.  The    *)
(* token endpoint and the upstream are external: each exchange issues a    *)
(* new token with a lifetime of the endpoint's choice, whose clock starts  *)
(* when it is issued, and the upstream may answer 401 at any time.  An     *)
(* answer without expires_in, or with one of zero or less, states no       *)
(* lifetime: the token may live for any time, or be expired already.  A    *)
(* cancelled context shows as a failed exchange or a failed call.          *)
(***************************************************************************)
EXTENDS Naturals

CONSTANTS
  Requests,
  MaxTokens,     \* exchanges that may succeed (a bound)
  Lifetimes,     \* expires_in values, in ticks; 0 when the answer states none
  DefaultLifetime, \* 3600 s: what the client assumes then
  Margin,        \* 60 s: a token this close to its expiry is not used
  FetchTimeout,  \* 30 s: the http.Client timeout of an exchange
  MaxTransient,  \* maxTransientRetries
  NoRequest

ASSUME TokenAssumption ==
  /\ MaxTokens \in Nat /\ MaxTransient \in Nat
  /\ Lifetimes \subseteq Nat /\ DefaultLifetime \in Nat
  /\ Margin \in Nat /\ FetchTimeout \in Nat /\ FetchTimeout < Margin
  /\ NoRequest \notin Requests

NoToken == 0
Tokens == 1..MaxTokens

VARIABLES
  token,       \* AuthManager.token
  left,        \* time until AuthManager.expiresAt
  leader,      \* the request whose exchange the singleflight group runs
  issued,      \* how many tokens the endpoint has issued; the last is in flight
  stated,      \* expires_in of each issued token
  latency,     \* time since the endpoint issued it
  serverLeft,  \* time until the endpoint lets each token expire
  pc, authAttempt, transient,
  used,        \* the token of the request's last call
  rejected,    \* the token the upstream answered 401 to
  outcome

cacheVars == <<token, left>>
exchangeVars == <<leader, issued, stated, latency, serverLeft>>
requestVars == <<authAttempt, transient, used, rejected, outcome>>
tokenVars == <<cacheVars, exchangeVars, pc, requestVars>>

TokenInit ==
  /\ token = NoToken /\ left = 0
  /\ leader = NoRequest
  /\ issued = 0 /\ latency = 0
  /\ stated = [t \in Tokens |-> 0]
  /\ serverLeft = [t \in Tokens |-> 0]
  /\ pc = [r \in Requests |-> "get"]
  /\ authAttempt = [r \in Requests |-> 0]
  /\ transient = [r \in Requests |-> 0]
  /\ used = [r \in Requests |-> NoToken]
  /\ rejected = [r \in Requests |-> NoToken]
  /\ outcome = [r \in Requests |-> "none"]

-----------------------------------------------------------------------------
(* GetToken *)

(* Mutant: a token is used until the very end of its lifetime. *)
UsableToTheEnd == token # NoToken /\ left > 0

Usable == token # NoToken /\ left > Margin

CacheHit(r) ==
  /\ pc[r] = "get" /\ Usable
  /\ used' = [used EXCEPT ![r] = token]
  /\ pc' = [pc EXCEPT ![r] = "send"]
  /\ UNCHANGED <<cacheVars, exchangeVars, authAttempt, transient, rejected, outcome>>

CacheMiss(r) ==
  /\ pc[r] = "get" /\ ~Usable
  /\ pc' = [pc EXCEPT ![r] = "join"]
  /\ UNCHANGED <<cacheVars, exchangeVars, requestVars>>

(* Mutant: every caller runs its own exchange. *)
LeadAlways(r) ==
  /\ pc[r] = "join"
  /\ leader' = r
  /\ pc' = [pc EXCEPT ![r] = "ask"]
  /\ UNCHANGED <<cacheVars, issued, stated, latency, serverLeft, requestVars>>

Lead(r) ==
  /\ pc[r] = "join" /\ leader = NoRequest
  /\ leader' = r
  /\ pc' = [pc EXCEPT ![r] = "ask"]
  /\ UNCHANGED <<cacheVars, issued, stated, latency, serverLeft, requestVars>>

Join(r) ==
  /\ pc[r] = "join" /\ leader # NoRequest
  /\ pc' = [pc EXCEPT ![r] = "wait"]
  /\ UNCHANGED <<cacheVars, exchangeVars, requestVars>>

-----------------------------------------------------------------------------
(* fetchToken, run by the leader *)

(* The endpoint issues a token that lives as long as it states, or for a    *)
(* time of its own when it states none; the answer is on its way.           *)
Issue(r) ==
  /\ pc[r] = "ask" /\ issued < MaxTokens
  /\ issued' = issued + 1
  /\ \E ttl, life \in Lifetimes :
       /\ ttl > 0 => life = ttl
       /\ stated' = [stated EXCEPT ![issued + 1] = ttl]
       /\ serverLeft' = [serverLeft EXCEPT ![issued + 1] = life]
  /\ latency' = 0
  /\ pc' = [pc EXCEPT ![r] = "reply"]
  /\ UNCHANGED <<cacheVars, leader, requestVars>>

(* The answer was read in time; expiresAt counts from now, not from Issue. *)
Store(r) ==
  /\ pc[r] = "reply" /\ latency <= FetchTimeout
  /\ token' = issued
  /\ left' = IF stated[issued] > 0 THEN stated[issued] ELSE DefaultLifetime
  /\ pc' = [pc EXCEPT ![r] = "stored"]
  /\ UNCHANGED <<exchangeVars, requestVars>>

Shares(r) == {r} \cup {s \in Requests : pc[s] = "wait"}

(* The singleflight call returns: its key is free, all callers have the token. *)
Deliver(r) ==
  /\ pc[r] = "stored"
  /\ leader' = NoRequest
  /\ used' = [s \in Requests |-> IF s \in Shares(r) THEN issued ELSE used[s]]
  /\ pc' = [s \in Requests |-> IF s \in Shares(r) THEN "send" ELSE pc[s]]
  /\ UNCHANGED <<cacheVars, issued, stated, latency, serverLeft,
                 authAttempt, transient, rejected, outcome>>

(* Mutant: a failed exchange only answers its leader. *)
FailLeaderOnly(r) ==
  /\ pc[r] \in {"ask", "reply"}
  /\ leader' = NoRequest
  /\ outcome' = [outcome EXCEPT ![r] = "error"]
  /\ pc' = [pc EXCEPT ![r] = "done"]
  /\ UNCHANGED <<cacheVars, issued, stated, latency, serverLeft,
                 authAttempt, transient, used, rejected>>

(* Transport error, timeout, bad answer or the leader's context is done: the *)
(* error is everybody's.                                                     *)
FetchFails(r) ==
  /\ pc[r] \in {"ask", "reply"}
  /\ leader' = NoRequest
  /\ outcome' = [s \in Requests |-> IF s \in Shares(r) THEN "error" ELSE outcome[s]]
  /\ pc' = [s \in Requests |-> IF s \in Shares(r) THEN "done" ELSE pc[s]]
  /\ UNCHANGED <<cacheVars, issued, stated, latency, serverLeft,
                 authAttempt, transient, used, rejected>>

-----------------------------------------------------------------------------
(* Client.do and doOnce *)

Finish(r, result) == /\ pc' = [pc EXCEPT ![r] = "done"]
                     /\ outcome' = [outcome EXCEPT ![r] = result]

(* Any answer but 401, and the 401 of the second attempt, is the result. *)
Answered(r) ==
  /\ pc[r] = "send"
  /\ \/ Finish(r, "answer")
     \/ authAttempt[r] = 1 /\ Finish(r, "401")
     \/ Finish(r, "error")
  /\ UNCHANGED <<cacheVars, exchangeVars, authAttempt, transient, used, rejected>>

(* A DNS-layer error: the call is repeated with the same token. *)
TransientError(r) ==
  /\ pc[r] = "send" /\ transient[r] < MaxTransient
  /\ transient' = [transient EXCEPT ![r] = @ + 1]
  /\ UNCHANGED <<cacheVars, exchangeVars, pc, authAttempt, used, rejected, outcome>>

Unauthorized(r) ==
  /\ pc[r] = "send" /\ authAttempt[r] = 0
  /\ rejected' = [rejected EXCEPT ![r] = used[r]]
  /\ pc' = [pc EXCEPT ![r] = "invalidate"]
  /\ UNCHANGED <<cacheVars, exchangeVars, authAttempt, transient, used, outcome>>

(* Mutant: the retry starts before the cache is cleared. *)
RetryWithoutInvalidate(r) ==
  /\ pc[r] = "invalidate"
  /\ authAttempt' = [authAttempt EXCEPT ![r] = 1]
  /\ transient' = [transient EXCEPT ![r] = 0]
  /\ pc' = [pc EXCEPT ![r] = "get"]
  /\ UNCHANGED <<cacheVars, exchangeVars, used, rejected, outcome>>

(* InvalidateToken, then the second and last pass of the loop. *)
Invalidate(r) ==
  /\ pc[r] = "invalidate"
  /\ token' = NoToken /\ left' = 0
  /\ authAttempt' = [authAttempt EXCEPT ![r] = 1]
  /\ transient' = [transient EXCEPT ![r] = 0]
  /\ pc' = [pc EXCEPT ![r] = "get"]
  /\ UNCHANGED <<exchangeVars, used, rejected, outcome>>

-----------------------------------------------------------------------------
Less(n) == IF n > 0 THEN n - 1 ELSE 0

(* Time passes, for both sides; the latency of an exchange counts until its *)
(* answer is read, or is too late.                                          *)
Tick ==
  /\ left' = Less(left)
  /\ serverLeft' = [t \in Tokens |-> Less(serverLeft[t])]
  /\ latency' = IF latency <= FetchTimeout /\ \E r \in Requests : pc[r] = "reply"
                THEN latency + 1 ELSE latency
  /\ UNCHANGED <<token, leader, issued, stated, pc, requestVars>>

Step(r) == \/ CacheHit(r) \/ CacheMiss(r) \/ Lead(r) \/ Join(r)
           \/ Issue(r) \/ Store(r) \/ Deliver(r) \/ FetchFails(r)
           \/ Answered(r) \/ TransientError(r) \/ Unauthorized(r) \/ Invalidate(r)

TokenNext == Tick \/ \E r \in Requests : Step(r)

(* Goroutines keep running and both servers answer or time out. *)
Fairness == \A r \in Requests : WF_tokenVars(Step(r))

TokenSpec == TokenInit /\ [][TokenNext]_tokenVars /\ Fairness

-----------------------------------------------------------------------------
TokenTypeOK ==
  /\ token \in 0..MaxTokens /\ left \in Nat
  /\ leader \in Requests \cup {NoRequest}
  /\ issued \in 0..MaxTokens
  /\ stated \in [Tokens -> Nat]
  /\ latency \in 0..(FetchTimeout + 1)
  /\ serverLeft \in [Tokens -> Nat]
  /\ pc \in [Requests -> {"get", "join", "ask", "reply", "stored", "wait",
                          "send", "invalidate", "done"}]
  /\ authAttempt \in [Requests -> 0..1]
  /\ transient \in [Requests -> 0..MaxTransient]
  /\ used \in [Requests -> 0..MaxTokens]
  /\ rejected \in [Requests -> 0..MaxTokens]
  /\ outcome \in [Requests -> {"none", "answer", "401", "error"}]

(* Concurrent requests share one exchange: at no time do two of them talk   *)
(* to the token endpoint (README.md, How It Works; singleflight in GetToken). *)
Exchanging(r) == pc[r] \in {"ask", "reply", "stored"}
OneExchange ==
  \A r, s \in Requests : Exchanging(r) /\ Exchanging(s) => r = s

(* A token whose lifetime the endpoint stated has not expired there when it *)
(* is taken from the cache, although the client counts its lifetime from    *)
(* the moment it read the answer: the margin has to cover the longest       *)
(* exchange.  Nothing is promised of a token without a lifetime, or with    *)
(* one of zero or less: fetchToken keeps it for DefaultLifetime.            *)
CacheHitUnexpired ==
  [][\A r \in Requests :
       pc[r] = "get" /\ pc'[r] = "send" /\ stated[used'[r]] > 0
         => serverLeft[used'[r]] > 0]_tokenVars

(* After a 401 the rejected token is never taken from the cache again by    *)
(* the request that saw it rejected.                                        *)
RejectedLeavesCache ==
  [][\A r \in Requests : pc[r] = "get" /\ pc'[r] = "send"
                           => used'[r] # rejected[r]]_tokenVars

(* "InvalidateToken clears the cached token, forcing the next GetToken call *)
(* to fetch a fresh one" (auth.go): the retry after a 401 does not carry the *)
(* token that was rejected.                                                 *)
RetryUsesFreshToken ==
  \A r \in Requests : pc[r] = "send" /\ authAttempt[r] = 1 => used[r] # rejected[r]

(* Every request ends, also those that wait for the exchange of another one *)
(* that fails.                                                              *)
Termination == \A r \in Requests : <>(pc[r] = "done")
=============================================================================
