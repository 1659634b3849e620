-------------------------- MODULE MCDeploymentPool --------------------------
(* Two instances of the newest opus, deployed with and without the vendor   *)
(* prefix, and one of an older opus; clients ask by alias or for the latest. *)
EXTENDS DeploymentPool, TLC

CONSTANTS a1, a2, b1

MCNames == {"anthropic--claude-4.8-opus", "claude-4.8-opus", "claude-opus-4-8",
            "anthropic--claude-4.6-opus", "claude-4.6-opus",
            "claude-opus-latest", ""}
MCModelOf == [d \in Instances |-> CASE d = a1 -> "anthropic--claude-4.8-opus"
                                     [] d = a2 -> "claude-4.8-opus"
                                     [] d = b1 -> "anthropic--claude-4.6-opus"]
MCAlias == [n \in MCNames |-> IF n = "claude-opus-4-8"
                              THEN "anthropic--claude-4.8-opus" ELSE n]
MCBare == [n \in MCNames |->
             CASE n = "anthropic--claude-4.8-opus" -> "claude-4.8-opus"
               [] n = "anthropic--claude-4.6-opus" -> "claude-4.6-opus"
               [] OTHER -> n]
MCLatestOf == [n \in MCNames |-> IF n = "claude-opus-latest" THEN "opus" ELSE "none"]
Older46 == {"anthropic--claude-4.6-opus", "claude-4.6-opus"}
Newer48 == {"anthropic--claude-4.8-opus", "claude-4.8-opus"}
MCFamilyOf == [n \in MCNames |-> IF n \in Older46 \cup Newer48 THEN "opus" ELSE "none"]
MCVersionOf == [n \in MCNames |-> IF n \in Newer48 THEN 408 ELSE 406]

Symmetry == Permutations(Requests)
=============================================================================
