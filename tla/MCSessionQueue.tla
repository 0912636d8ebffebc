--------------------------- MODULE MCSessionQueue ---------------------------
(* Four messages of session s1 and s2 and one without a session, a channel *)
(* of capacity 1 so that senders park behind it.                           *)
EXTENDS SessionQueue, TLC

CONSTANTS c1, c2, c3, c4, c5, s1, s2

MCKeyOf == (c1 :> s1) @@ (c2 :> s1) @@ (c3 :> s1) @@ (c4 :> s2) @@ (c5 :> NoKey)
=============================================================================
