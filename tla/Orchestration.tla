--------------------------- MODULE Orchestration ---------------------------
(***************************************************************************)
(* agent/orchestration_run.go and agent/planning/orchestration.go: the LLM *)
(* writes a plan of steps, the plan is validated, every step is a bounded  *)
(* loop of LLM rounds and tool calls, and the outputs become the answer.   *)
(* Whenever that is not possible the turn goes on with the reactive loop,  *)
(* as if nothing had happened.                                             *)
(*                                                                         *)
(* A step of a plan is [id, tools, deps]; a blank id or tool is "".        *)
(***************************************************************************)
EXTENDS Naturals, Sequences

CONSTANTS
  Plans,       \* what the planner LLM may answer: [goal, steps]
  Registered,  \* the registered tool names
  WalletTools, \* those that start with wallet_
  SendTools,   \* those of wallet_execute_ that the pipeline serves
  ReadTools,   \* the balance tools a step with a wallet tool always gets
  MaxSteps,    \* MaxOrchestrationSteps
  MaxRounds    \* maxOrchestrationStepRounds

ASSUME OrchestrationAssumption ==
  /\ WalletTools \subseteq Registered /\ "" \notin Registered
  /\ SendTools \subseteq WalletTools /\ ReadTools \subseteq WalletTools
  /\ MaxSteps \in Nat /\ MaxRounds \in Nat \ {0}
  /\ \A p \in Plans : p.steps \in Seq([id : STRING, tools : SUBSET STRING, deps : SUBSET STRING])

VARIABLES
  wallet,   \* whether a wallet is configured
  stage,    \* "planning", "step", "round", "synthesis", "answered", "fallback"
  plan,     \* the accepted plan
  at,       \* index of the current step
  round,    \* round of the current step
  last,     \* the step's last tool output: "none", "good", "failed"
  out,      \* stepOut, from the ids of the steps that have ended
  context,  \* from the ids of the started steps: whose outputs their prompt held
  calls     \* tool calls made: [step, tool, piped]

vars == <<wallet, stage, plan, at, round, last, out, context, calls>>

NoPlan == [goal |-> FALSE, steps |-> <<>>]

Init ==
  /\ wallet \in BOOLEAN
  /\ stage = "planning" /\ plan = NoPlan
  /\ at = 0 /\ round = 0 /\ last = "none"
  /\ out = <<>> /\ context = <<>> /\ calls = {}

Bind(f, x, v) == [y \in DOMAIN f \cup {x} |-> IF y = x THEN v ELSE f[y]]

-----------------------------------------------------------------------------
(* Validation.                                                             *)

WellFormed(s) == s.id # "" /\ s.tools # {} /\ s.tools \subseteq Registered

DependsBackwardsOrOnItself(steps, i) ==
  \A d \in steps[i].deps : \E j \in 1..i : steps[j].id = d

DependsBackwards(steps, i) ==
  \A d \in steps[i].deps : \E j \in 1..(i - 1) : steps[j].id = d

ValidateOrchestrationPlan(p) ==
  /\ p.goal
  /\ Len(p.steps) \in 1..MaxSteps
  /\ \A i \in DOMAIN p.steps : WellFormed(p.steps[i]) /\ DependsBackwards(p.steps, i)
  /\ \A i, j \in DOMAIN p.steps : p.steps[i].id = p.steps[j].id => i = j

ValidateOrchestrationPlanPolicy(p) ==
  \A i \in DOMAIN p.steps :
    /\ "spawn_subagents" \notin p.steps[i].tools
    /\ wallet \/ p.steps[i].tools \cap WalletTools = {}

-----------------------------------------------------------------------------
FallsBack ==
  /\ stage' = "fallback"
  /\ UNCHANGED <<wallet, plan, at, round, last, out, context, calls>>

\* The planner LLM fails, answers nothing or no JSON, or its plan is refused.
PlanRefused ==
  /\ stage = "planning"
  /\ \/ FallsBack
     \/ \E p \in Plans : ~(ValidateOrchestrationPlan(p) /\ ValidateOrchestrationPlanPolicy(p)) /\ FallsBack

PlanAccepted ==
  /\ stage = "planning"
  /\ \E p \in Plans :
       /\ ValidateOrchestrationPlan(p) /\ ValidateOrchestrationPlanPolicy(p)
       /\ plan' = p
  /\ stage' = "step" /\ at' = 1
  /\ UNCHANGED <<wallet, round, last, out, context, calls>>

Step == plan.steps[at]

\* filterToolsForRuntime and augmentWalletReadToolsAllowlist.
RuntimeTools(s) ==
  LET kept == IF wallet THEN s.tools ELSE s.tools \ WalletTools
  IN IF wallet /\ kept \cap WalletTools # {} THEN kept \cup ReadTools ELSE kept

WalletPipe(s) == wallet /\ RuntimeTools(s) \cap SendTools # {}

\* The step's prompt is built from the outputs of its dependencies, which are
\* never empty.
StepStarts ==
  /\ stage = "step" /\ at <= Len(plan.steps)
  /\ context' = Bind(context, Step.id, Step.deps \cap DOMAIN out)
  /\ stage' = "round" /\ round' = 0 /\ last' = "none"
  /\ UNCHANGED <<wallet, plan, at, out, calls>>

StepEndsSilentlyAs(text) ==
  /\ out' = IF text = "remark" THEN out ELSE Bind(out, Step.id, text)
  /\ at' = at + 1
  /\ stage' = "step"
  /\ UNCHANGED <<wallet, plan, round, last, context>>

\* The end of a step: its text, else its last tool output, else a remark.
StepEndsAs(text) ==
  /\ out' = Bind(out, Step.id, text)
  /\ at' = at + 1
  /\ stage' = "step"
  /\ UNCHANGED <<wallet, plan, round, last, context>>

WithoutText == IF last = "none" THEN "remark" ELSE "tool output"

\* The LLM fails, which becomes the step's text, or returns no choices or an
\* empty text; or the rounds are over.
StepGivesUp ==
  /\ stage = "round"
  /\ \/ round < MaxRounds /\ StepEndsAs("error")
     \/ StepEndsAs(WithoutText)
  /\ UNCHANGED calls

\* Structured calls, of which those without a name are passed over, and a call parsed
\* out of the text.  The model may name any tool: executeToolForMessage looks at the
\* name, not at the step's list.  The output of the last one counts; it may be empty.
StepCalls ==
  /\ stage = "round" /\ round < MaxRounds
  /\ \E tools \in SUBSET Registered :
       /\ calls' = calls \cup {[step |-> Step.id, tool |-> t,
                                piped |-> t \in SendTools /\ WalletPipe(Step)] : t \in tools}
       /\ last' \in IF tools = {} THEN {last} ELSE {"none", "good", "failed"}
  /\ round' = round + 1
  /\ UNCHANGED <<wallet, stage, plan, at, out, context>>

\* A text right after a failed call is sent back while another round is left.
MustRetry == last = "failed" /\ round < MaxRounds - 1

StepAnswers ==
  /\ stage = "round" /\ round < MaxRounds
  /\ \/ MustRetry /\ round' = round + 1 /\ UNCHANGED <<wallet, stage, plan, at, last, out, context>>
     \/ ~MustRetry /\ StepEndsAs("text")
  /\ UNCHANGED calls

SynthesisFailureFallsBack ==
  /\ stage = "step" /\ at > Len(plan.steps)
  /\ stage' \in {"answered", "fallback"}
  /\ UNCHANGED <<wallet, plan, at, round, last, out, context, calls>>

\* The answer is the LLM's synthesis, or the outputs themselves when it fails;
\* only without any output the turn falls back.
Synthesis ==
  /\ stage = "step" /\ at > Len(plan.steps)
  /\ stage' = IF DOMAIN out = {} THEN "fallback" ELSE "answered"
  /\ UNCHANGED <<wallet, plan, at, round, last, out, context, calls>>

Done == stage \in {"answered", "fallback"} /\ UNCHANGED vars

Next ==
  \/ PlanRefused \/ PlanAccepted \/ StepStarts \/ StepCalls \/ StepAnswers \/ StepGivesUp
  \/ Synthesis \/ Done

Spec == Init /\ [][Next]_vars

-----------------------------------------------------------------------------
Ids == {plan.steps[i].id : i \in DOMAIN plan.steps}

TypeOK ==
  /\ wallet \in BOOLEAN
  /\ stage \in {"planning", "step", "round", "answered", "fallback"}
  /\ plan \in Plans \cup {NoPlan}
  /\ at \in Nat /\ round \in 0..MaxRounds /\ last \in {"none", "good", "failed"}
  /\ DOMAIN out \subseteq Ids /\ DOMAIN context \subseteq Ids

\* A step never starts before the steps it depends on have ended, and its prompt
\* holds the output of every one of them, whatever the plan the LLM wrote and
\* however its steps ended (orchestration_run.go:53 "depends_on lists step ids that
\* must complete before this step").
DependenciesFirst ==
  \A i \in DOMAIN plan.steps :
    plan.steps[i].id \in DOMAIN context => context[plan.steps[i].id] = plan.steps[i].deps

\* When the turn falls back to the reactive loop, which starts the request again
\* from the beginning, no tool has been called: nothing is done twice.
FallbackBeforeActing == stage = "fallback" => calls = {}

\* An answer is made of an output of every step, also of those that failed.
AnswerCoversPlan == stage = "answered" => DOMAIN out = Ids

=============================================================================
