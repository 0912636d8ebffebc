-------------------------- MODULE MCWalletPipeline -------------------------
(* A turn of each of two users that may run a plan, and a second message   *)
(* of the first user.                                                      *)
EXTENDS WalletPipeline, TLC

CONSTANTS t1, t2, t3, u1, u2

MCSessionOf == (t1 :> u1) @@ (t2 :> u1) @@ (t3 :> u2)
MCPolicyConfig == Config(0, {})
MCRequests == {ContractCall("swap", 0), ContractCall("transfer", 0)}

Symmetry == Permutations({t1, t2})
=============================================================================
