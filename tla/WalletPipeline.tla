---------------------------- MODULE WalletPipeline --------------------------
(***************************************************************************)
(* agent/planning: a contract call requested by the LLM is not passed to   *)
(* the wallet directly but run as the fixed plan of WalletTxTemplate by    *)
(* WalletExecutor.Execute, on top of module WalletService.  Each pass of   *)
(* the plan calls ExecuteContractCall at most twice.                       *)
(***************************************************************************)
EXTENDS WalletService

VARIABLES
  stage,    \* the step of the plan each turn's executor is at
  goal,     \* the contract call of the plan
  already   \* txAlreadySent

planVars == <<stage, goal, already>>
allVars == <<vars, planVars>>

PlanInit ==
  /\ Init
  /\ stage = [t \in Turns |-> "none"]
  /\ goal = [t \in Turns |-> Nil]
  /\ already = [t \in Turns |-> FALSE]

To(t, from, to) ==
  /\ stage[t] = from
  /\ stage' = [stage EXCEPT ![t] = to]

\* executeToolForMessage, tryWalletContractPipeline and tryWalletPlanner: valid
\* constraints make a plan (parse_intent is local and always succeeds).
PlanStarts(t) ==
  /\ pc[t] = "ready" /\ ops[t] < MaxOps
  /\ To(t, "none", "policy_check")
  /\ \E a \in Requests : a.type = "contract_call" /\ goal' = [goal EXCEPT ![t] = a]
  /\ already' = [already EXCEPT ![t] = FALSE]
  /\ UNCHANGED vars

\* WalletPreviewContract: an RPC error or a denial stops the plan.
PolicyCheck(t) ==
  /\ \/ To(t, "policy_check", "none")
     \/ /\ To(t, "policy_check", "simulate")
        /\ Evaluate(PolicyConfig, goal[t]) # "deny"
  /\ UNCHANGED <<vars, goal, already>>

\* eth_call: a failing simulation stops the plan.
Simulate(t) ==
  /\ To(t, "simulate", "none") \/ To(t, "simulate", "approval_gate")
  /\ UNCHANGED <<vars, goal, already>>

\* The approval gate executes the call: there is no other way to ask.
ApprovalGate(t) ==
  /\ To(t, "approval_gate", "gate_result")
  /\ Execute(t, goal[t])
  /\ UNCHANGED <<goal, already>>

GateResultForgetting(t) ==
  /\ To(t, "gate_result", IF ret[t] = "asked" THEN "none" ELSE "sign_send")
  /\ TurnTakesResult(t)
  /\ UNCHANGED <<goal, already>>

\* Only "Approval required" stops the plan here.  The wallet reports failures
\* as text with a nil error, so an error goes on to sign_send.
GateResult(t) ==
  /\ To(t, "gate_result", IF ret[t] = "asked" THEN "none" ELSE "sign_send")
  /\ already' = [already EXCEPT ![t] = (ret[t] = "sent")]
  /\ TurnTakesResult(t)
  /\ UNCHANGED goal

SignSend(t) ==
  \/ /\ already[t]
     /\ To(t, "sign_send", "verify_receipt")
     /\ UNCHANGED <<vars, goal, already>>
  \/ /\ ~already[t]
     /\ To(t, "sign_send", "send_result")
     /\ Execute(t, goal[t])
     /\ UNCHANGED <<goal, already>>

SendResult(t) ==
  /\ To(t, "send_result", IF ret[t] = "asked" THEN "none" ELSE "verify_receipt")
  /\ TurnTakesResult(t)
  /\ UNCHANGED <<goal, already>>

VerifyReceipt(t) ==
  /\ To(t, "verify_receipt", "none")
  /\ UNCHANGED <<vars, goal, already>>

Execution(t) ==
  PlanStarts(t) \/ PolicyCheck(t) \/ Simulate(t) \/ ApprovalGate(t) \/ GateResult(t)
    \/ SignSend(t) \/ SendResult(t) \/ VerifyReceipt(t)

\* The rest of the turn and the wallet, while no plan waits for a result.
TurnStep(t) ==
  /\ stage[t] = "none"
  /\ \/ TurnStarts(t) \/ TurnTakesResult(t) \/ TurnEnds(t)
     \/ \E id \in ApprovalIds : Approve(t, id)
  /\ UNCHANGED planVars

WalletStep(t) ==
  /\ ExecuteAction(t) \/ ApproveForeign(t) \/ ApproveOwned(t) \/ Broadcast(t)
  /\ UNCHANGED planVars

PlanRestart ==
  /\ Restart
  /\ stage' = [t \in Turns |-> "none"]
  /\ goal' = [t \in Turns |-> Nil]
  /\ already' = [t \in Turns |-> FALSE]

PlanNext ==
  \/ \E t \in Turns : Execution(t) \/ TurnStep(t) \/ WalletStep(t)
  \/ (NodeMines \/ Tick) /\ UNCHANGED planVars
  \/ PlanRestart

PlanSpec == PlanInit /\ [][PlanNext]_allVars

-----------------------------------------------------------------------------
\* When sign_send calls ExecuteContractCall a second time, the approval gate's
\* call has broadcast nothing that the node acknowledged: a plan can only send
\* twice when the answer to the first transaction was lost.
SecondSendOnlyAfterLoss ==
  \A t \in Turns : stage[t] = "send_result" =>
    \A x \in sent : x.turn = t /\ x.call = ops[t] - 1 => ~x.answered

\* wallet_executor.go:123 "already broadcast in prior step", and the test that
\* "expected 1 contract call": a plan broadcasts once (a turn runs one plan when
\* MaxOps is 1).
PlanBroadcastsOnce ==
  \A x, y \in sent : x.turn = y.turn => x.call = y.call
=============================================================================
