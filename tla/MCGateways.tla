----------------------------- MODULE MCGateways -----------------------------
(* Two Telegram messages of one user; two Signal users, one message of them *)
(* empty, the reply to the other one may hang; a Discord user, whose turn   *)
(* may hang, and another one.                                               *)
EXTENDS Gateways
MCPlatformOf == <<"telegram", "telegram", "signal", "signal", "discord", "discord">>
MCKeyOf == <<"t", "t", "s1", "s2", "d1", "d2">>
=============================================================================
