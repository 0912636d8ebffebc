---------------------------- MODULE MCAgentTurn ----------------------------
(* One Telegram user with an old file.  Sessions do not touch each other's  *)
(* transcripts, and other platforms take a part of the same steps.         *)
EXTENDS AgentTurn

CONSTANT tg

MCSettings ==
  {[orchestration |-> "auto", planner |-> "off"], [orchestration |-> "off", planner |-> "auto"]}
MCSkillFiles == <<"SKILL.md", "script">>
=============================================================================
