-------------------------- MODULE MCWalletService --------------------------
(* Three messages of user u1 and one of user u2; the policy lets a plain     *)
(* transfer pass and asks for a token transfer; the fee may rise.          *)
EXTENDS WalletService, TLC

CONSTANTS t1, t2, t3, t4, u1, u2

MCSessionOf == (t1 :> u1) @@ (t2 :> u1) @@ (t3 :> u1) @@ (t4 :> u2)
MCPolicyConfig == Config(0, {})
MCRequests == {Transfer(1), ContractCall("transfer", 0), ContractCall("approve", 0)}

Symmetry == Permutations({t1, t2, t3})
=============================================================================
