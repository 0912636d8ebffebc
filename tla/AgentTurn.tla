----------------------------- MODULE AgentTurn -----------------------------
(***************************************************************************)
(* agent/agent.go HandleMessage: what becomes of one message, from the     *)
(* commands that never reach the LLM to the reactive loop and the recorded *)
(* exchange, on top of the transcript files of module SessionStore; and    *)
(* the dialogue of newskill.go with the reviews that precede a skill.      *)
(*                                                                         *)
(* The LLM is a choice of answer.  Of a text only its class matters, of a  *)
(* skill's file only what was done for it before it was written.           *)
(***************************************************************************)
EXTENDS SessionStore

CONSTANTS
  Texts,            \* the classes of messages that arrive
  Settings,         \* the modes the process may be started with
  SkillFiles,       \* the files of a skill, in the order WriteSkill writes them
  MaxToolRounds     \* maxToolRounds

AllTexts == {"newskill", "cancel", "/new", "/remember", "approve:", "SKILL.md",
             "send", "swap", "chat"}
OrchestrationModes == {"off", "auto", "always"}
PlannerModes == {"off", "wallet", "auto", "always_wallet"}

ASSUME TurnAssumption ==
  /\ Texts \subseteq AllTexts
  /\ Settings \subseteq [orchestration : OrchestrationModes, planner : PlannerModes]
  /\ MaxToolRounds \in Nat \ {0}

VARIABLES
  setting,    \* the modes of this process
  msg,        \* the message each session's turn is handling
  awaiting,   \* newSkillAwaiting
  prior,      \* whether the session's message before this one was a trigger
  skill       \* the skill's files, each as the set of what preceded its writing, or
              \* as a text that no review has seen: one of write_file, or a piece

turnVars == <<setting, msg, awaiting, prior, skill>>
allVars == <<vars, turnVars>>

Absent == {"absent"}
Unreviewed == {"written"}
Reviewed == {"asked", "security", "feasibility"}

Idle == [phase |-> "none", text |-> "", rounds |-> 0, called |-> FALSE, claims |-> FALSE,
         by |-> "", passed |-> {}, file |-> 0]

TurnInit ==
  /\ Init
  /\ setting \in Settings
  /\ msg = [u \in Users |-> Idle]
  /\ awaiting = {}
  /\ prior = [u \in Users |-> FALSE]
  /\ skill = [f \in ToSet(SkillFiles) |-> Absent]

In(u, phase) == msg[u].phase = phase
To(u, phase) == msg' = [msg EXCEPT ![u].phase = phase]

\* Nothing but the two texts of the exchange goes on to the transcript.
ToStore(u) == msg' = [msg EXCEPT ![u] = [Idle EXCEPT !.phase = "store"]]

\* The reply leaves HandleMessage.
Replies(u) ==
  /\ msg' = [msg EXCEPT ![u] = Idle]
  /\ prior' = [prior EXCEPT ![u] = (msg[u].text = "newskill")]

\* It does so before the transcript was looked at, or without a record in it.
RepliesAtOnce(u) == Replies(u) /\ UNCHANGED vars
RepliesUnrecorded(u) == Replies(u) /\ TurnEndsSilently(u)

Receive(u) ==
  /\ In(u, "none") /\ pc[u] = "idle"
  /\ \E text \in Texts : msg' = [msg EXCEPT ![u] = [Idle EXCEPT !.phase = "received", !.text = text]]
  /\ UNCHANGED <<vars, setting, awaiting, prior, skill>>

-----------------------------------------------------------------------------
(* The newskill dialogue.                                                  *)

\* Every message that follows the trigger is taken as the skill, commands and
\* "cancel" included; only a SKILL.md gets as far as the reviews.
TakeSkillContent(u) ==
  /\ In(u, "received") /\ u \in awaiting
  /\ awaiting' = awaiting \ {u}
  /\ \/ /\ msg[u].text = "SKILL.md"
        /\ msg' = [msg EXCEPT ![u] = [@ EXCEPT
             !.phase = "security", !.by = "dialogue",
             !.passed = IF prior[u] THEN {"asked"} ELSE {}]]
        /\ UNCHANGED <<vars, prior>>
     \/ msg[u].text # "SKILL.md" /\ RepliesAtOnce(u)
  /\ UNCHANGED <<setting, skill>>

StartSkillDialogue(u) ==
  /\ In(u, "received") /\ u \notin awaiting
  /\ \/ msg[u].text = "newskill" /\ awaiting' = awaiting \cup {u} /\ RepliesAtOnce(u)
     \/ msg[u].text = "cancel" /\ RepliesAtOnce(u) /\ UNCHANGED awaiting
     \/ /\ msg[u].text \notin {"newskill", "cancel"}
        /\ To(u, "command")
        /\ UNCHANGED <<vars, prior, awaiting>>
  /\ UNCHANGED <<setting, skill>>

\* The dialogue ends with a reply, the tool with a result for the loop.
SkillDone(u) ==
  \/ msg[u].by = "dialogue" /\ RepliesAtOnce(u)
  \/ /\ msg[u].by = "tool"
     /\ msg' = [msg EXCEPT ![u] = [@ EXCEPT !.phase = "loop", !.by = "", !.passed = {}, !.file = 0]]
     /\ UNCHANGED <<vars, prior>>

\* RunSecurityCheck and RunFeasibilityCheck: a failed call, no answer and an
\* answer that does not parse refuse the skill as a bad verdict does.
Review(u, check, next) ==
  /\ In(u, check)
  /\ \/ /\ msg' = [msg EXCEPT ![u].phase = next, ![u].passed = @ \cup {check}]
        /\ UNCHANGED <<vars, prior>>
     \/ SkillDone(u)
  /\ UNCHANGED <<setting, awaiting, skill>>

SecurityCheckFailingOpen(u) ==
  /\ In(u, "security")
  /\ \E verdict \in {{}, {"security"}} :
       msg' = [msg EXCEPT ![u].phase = "feasibility", ![u].passed = @ \cup verdict]
  /\ UNCHANGED <<vars, setting, awaiting, prior, skill>>

SecurityCheck(u) == Review(u, "security", "feasibility")
FeasibilityCheck(u) == Review(u, "feasibility", "persist")

\* WriteSkill, one file at a time; a file that fails leaves those before it.
WriteSkill(u) ==
  /\ In(u, "persist")
  /\ LET n == msg[u].file + 1
     IN \/ /\ skill' = [skill EXCEPT ![SkillFiles[n]] = msg[u].passed]
           /\ \/ n = Len(SkillFiles) /\ SkillDone(u)
              \/ n < Len(SkillFiles) /\ msg' = [msg EXCEPT ![u].file = n] /\ UNCHANGED <<vars, prior>>
        \/ skill' \in {skill, [skill EXCEPT ![SkillFiles[n]] = Unreviewed]} /\ SkillDone(u)
  /\ UNCHANGED <<setting, awaiting>>

-----------------------------------------------------------------------------
(* Commands, the transcript, and who answers.                              *)

\* "/new": session.Clear, whose second file may still have to be removed.
ClearSession(u) ==
  /\ In(u, "command") /\ msg[u].text = "/new"
  /\ Clear(u) \/ ClearFails(u)
  /\ \/ pc'[u] = "idle" /\ Replies(u)
     \/ pc'[u] # "idle" /\ ToStore(u) /\ UNCHANGED prior
  /\ UNCHANGED <<setting, awaiting, skill>>

\* trySessionRemember only reads the transcript; ApproveCommand and
\* ExecuteApproved are modules ExecApprovals and WalletService.
OtherCommand(u) ==
  /\ In(u, "command") /\ msg[u].text \in {"/remember", "approve:"}
  /\ RepliesAtOnce(u)
  /\ UNCHANGED <<setting, awaiting, skill>>

LoadSession(u) ==
  /\ In(u, "command") /\ msg[u].text \notin {"/new", "/remember", "approve:"}
  /\ Load(u)
  /\ To(u, "orchestrate")
  /\ UNCHANGED <<setting, awaiting, prior, skill>>

\* shouldTryGeneralOrchestration: for "auto" the hints, the length or the router.
MayOrchestrate == setting.orchestration \in {"auto", "always"}

\* The reply stands and is recorded.
Answer(u, claims) ==
  /\ msg' = [msg EXCEPT ![u].phase = "append", ![u].claims = claims]
  /\ UNCHANGED vars

\* tryGeneralOrchestration, whose inside is module Orchestration.  The tools of its
\* steps are those of the loop, write_skill with its reviews and write_file too.
Orchestrate(u) ==
  /\ In(u, "orchestrate")
  /\ \/ /\ MayOrchestrate /\ Answer(u, FALSE)
        /\ \E files \in SUBSET DOMAIN skill :
             \E texts \in [files -> {Unreviewed, Reviewed}] :
               skill' = [f \in DOMAIN skill |-> IF f \in files THEN texts[f] ELSE skill[f]]
     \/ To(u, "planner") /\ UNCHANGED <<vars, skill>>
  /\ UNCHANGED <<setting, awaiting, prior>>

\* shouldUseWalletPlanner; for "auto" the keywords or the router decide.
MayPlan(u) ==
  /\ setting.orchestration = "off"
  /\ msg[u].text # "send"
  /\ \/ setting.planner \in {"auto", "always_wallet"}
     \/ setting.planner = "wallet" /\ msg[u].text = "swap"

\* tryWalletPlanner: without a valid plan the loop takes over; a plan that ends
\* with an error is not recorded.  Its execution is module WalletPipeline.
TryWalletPlanner(u) ==
  /\ In(u, "planner")
  /\ \/ MayPlan(u) /\ Answer(u, FALSE) /\ UNCHANGED prior
     \/ MayPlan(u) /\ RepliesUnrecorded(u)
     \/ To(u, "loop") /\ UNCHANGED <<vars, prior>>
  /\ UNCHANGED <<setting, awaiting, skill>>

-----------------------------------------------------------------------------
(* The reactive loop.                                                      *)

NextRound(u, called) ==
  /\ msg[u].rounds < MaxToolRounds
  /\ msg' = [msg EXCEPT ![u].rounds = @ + 1, ![u].called = @ \/ called]
  /\ UNCHANGED vars

\* Structured calls and calls parsed out of the text; called is whether one of
\* them is a wallet_execute_ tool.
CallTools(u) ==
  /\ In(u, "loop")
  /\ \E called \in BOOLEAN : NextRound(u, called)
  /\ UNCHANGED <<setting, awaiting, prior, skill>>

\* write_file with the path of one of the skill's files, which lie in the workspace
\* of the file tools.  It may fail once the file is truncated.
CallWriteFile(u) ==
  /\ In(u, "loop")
  /\ NextRound(u, FALSE)
  /\ \E f \in ToSet(SkillFiles) : skill' = [skill EXCEPT ![f] = Unreviewed]
  /\ UNCHANGED <<setting, awaiting, prior>>

CallWriteSkill(u) ==
  /\ In(u, "loop") /\ msg[u].rounds < MaxToolRounds
  /\ msg' = [msg EXCEPT ![u] = [@ EXCEPT !.rounds = msg[u].rounds + 1, !.phase = "security", !.by = "tool",
                                         !.passed = {"asked"}, !.file = 0]]
  /\ UNCHANGED <<vars, setting, awaiting, prior, skill>>

UnfoundedInFirstRound(u, claims) ==
  msg[u].text = "send" /\ ~msg[u].called /\ claims /\ msg[u].rounds = 0

\* wantsWalletSend, no wallet tool in this turn, and claimsWalletWasSent.
Unfounded(u, claims) == msg[u].text = "send" /\ ~msg[u].called /\ claims

\* A text; one that claims a transfer without a call is sent back to the model.
FinalText(u) ==
  /\ In(u, "loop") /\ msg[u].rounds < MaxToolRounds
  /\ \E claims \in BOOLEAN :
       \/ Unfounded(u, claims) /\ NextRound(u, FALSE)
       \/ ~Unfounded(u, claims) /\ Answer(u, claims)
  /\ UNCHANGED <<setting, awaiting, prior, skill>>

\* An LLM error, no choices, an empty text, or the tool limit: an apology, and
\* nothing of the turn is recorded whatever its tools did.
GiveUp(u) ==
  /\ In(u, "loop")
  /\ RepliesUnrecorded(u)
  /\ UNCHANGED <<setting, awaiting, skill>>

\* session.Append, its error ignored, and the rest of Clear.
RecordExchange(u) ==
  /\ \/ In(u, "append") /\ AppendStarts(u)
     \/ In(u, "store") /\ (CopyCreates(u) \/ CopyWrites(u) \/ CopyFails(u) \/ RemoveOld(u)
                           \/ EncodeUser(u) \/ EncodeAssistant(u) \/ EncodeFails(u) \/ ClearOld(u))
  /\ \/ pc'[u] = "idle" /\ Replies(u)
     \/ pc'[u] # "idle" /\ ToStore(u) /\ UNCHANGED prior
  /\ UNCHANGED <<setting, awaiting, skill>>

-----------------------------------------------------------------------------
\* The process dies, with the map of dialogues, and starts again.
ProcessCrash ==
  /\ Crash
  /\ msg' = [u \in Users |-> Idle]
  /\ prior' = [u \in Users |-> FALSE]
  /\ awaiting' = {}
  /\ \/ UNCHANGED skill
     \/ \E u \in Users : In(u, "persist") /\ skill' = [skill EXCEPT ![SkillFiles[msg[u].file + 1]] = Unreviewed]
  /\ UNCHANGED setting

TurnNext ==
  \/ \E u \in Users :
       \/ Receive(u) \/ TakeSkillContent(u) \/ StartSkillDialogue(u)
       \/ SecurityCheck(u) \/ FeasibilityCheck(u) \/ WriteSkill(u)
       \/ ClearSession(u) \/ OtherCommand(u) \/ LoadSession(u)
       \/ Orchestrate(u) \/ TryWalletPlanner(u)
       \/ CallTools(u) \/ CallWriteFile(u) \/ CallWriteSkill(u) \/ FinalText(u) \/ GiveUp(u)
       \/ RecordExchange(u)
  \/ ProcessCrash

TurnSpec == TurnInit /\ [][TurnNext]_allVars

-----------------------------------------------------------------------------
Phases == {"none", "received", "security", "feasibility", "persist", "command",
           "orchestrate", "planner", "loop", "append", "store"}

\* The turn and the store are in step: a turn holds the transcript exactly while
\* it thinks, and touches its files exactly while it records or clears.
TurnTypeOK ==
  /\ TypeOK
  /\ setting \in Settings /\ awaiting \subseteq Users /\ prior \in [Users -> BOOLEAN]
  /\ \A u \in Users :
       /\ msg[u].phase \in Phases /\ msg[u].text \in Texts \cup {""}
       /\ msg[u].rounds \in 0..MaxToolRounds
       /\ pc[u] = "thinking" <=>
            \/ msg[u].phase \in {"orchestrate", "planner", "loop", "append"}
            \/ msg[u].by = "tool" /\ msg[u].phase \in {"security", "feasibility", "persist"}
       /\ pc[u] \notin {"idle", "thinking"} <=> msg[u].phase = "store"

\* What the newskill dialogue and the tool write_skill put into a skill's files went
\* through both reviews before, and was asked for: by a call of write_skill, or by a
\* newskill right before the message it came in.  Neither an unanswered review, nor a
\* cancelled or interrupted dialogue, nor a restart lets another text through: but for a
\* write that was cut off, the tool write_file alone does.
NoReviewIsSkipped ==
  \A f \in DOMAIN skill : skill[f] \in {Absent, Unreviewed, Reviewed}

\* Whoever asks the loop to send funds is never told that they were sent in a turn
\* that called no wallet tool, in whichever round the model says so (agent.go:355
\* "Do not claim success").  Orchestrated answers are not held to it.
NoUnfoundedClaim ==
  \A u \in Users :
    msg[u].phase = "append" /\ msg[u].text = "send" /\ msg[u].claims => msg[u].called
=============================================================================
