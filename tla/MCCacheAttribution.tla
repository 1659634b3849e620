------------------------- MODULE MCCacheAttribution -------------------------
EXTENDS CacheAttribution, TLC

(* Requests run the same code, and the digests of users, systems and        *)
(* messages are only compared with each other.                              *)
Symmetric == Permutations(Requests) \cup Permutations(Users)
               \cup Permutations(Systems) \cup Permutations(Messages)
=============================================================================
