---------------------------- MODULE WalletProofs ---------------------------
(***************************************************************************)
(* Proofs about the wallet, for every set of turns and sessions, every     *)
(* policy and every behaviour of the node: an approval moves funds at most *)
(* once, nothing is broadcast without an authorisation, no session         *)
(* replaces a transaction of its own, the history file does not list what  *)
(* never reached the node, the plan executor only sends again what was     *)
(* lost; and of what reaches the wallet: a tool call becomes the call it   *)
(* asks for, and the policy applies its strictest rule.                    *)
(*                                                                         *)
(* WalletInv is the inductive invariant.  ApprovedOnce needs the place of  *)
(* an approval at every step: while its owner executes it nothing has been *)
(* sent for it, and once something has been sent it is gone from the store *)
(* for good.  That no second turn holds it then is what the queue gives    *)
(* (SerialInv): the store's own lock does not.  To the wallet the plan     *)
(* executor is one more caller, so that the invariant carries over to it.  *)
(***************************************************************************)
EXTENDS WalletPipeline, ToolCalls, TLAPS

\* A call of the wallet, by the turn's loop or by its plan, which makes more
\* than MaxOps of them.
CallsWallet(t) == \E a \in Requests : Execute(t, a)

\* A step of the wallet service, alone or under the plan executor.
Step == [Next]_vars \/ \E t \in Turns : CallsWallet(t)

\* The types the argument needs.
Shape ==
  /\ pc \in [Turns -> PCs]
  /\ held \in [Turns -> Holds \cup {Nil}]
  /\ act \in [Turns -> Requests \cup {Nil}]
  /\ tx \in [Turns -> Txs \cup {Nil}]
  /\ asked \subseteq Approvals
  /\ now \in Nat
  /\ mined \in Seq(Txs) /\ mempool \subseteq Txs

\* The queue's guarantee: a session has at most one active turn.
SerialInv ==
  \A t, u \in Turns : Active(t) /\ Active(u) /\ User(t) = User(u) => t = u

\* An ID denotes one request.
AskedInv ==
  /\ pending \subseteq asked
  /\ \A p, q \in asked : p.id = q.id => p = q

Uses(x, id) == x.approval # Nil /\ x.approval.id = id

\* The approval a turn executes was requested for the action it executes.
Requested(t) ==
  \E p \in asked : /\ p.id = held[t].id /\ p.action = act[t]
                   /\ held[t].since <= p.expires

Executing == {"owner", "approved", "price", "send"}

HoldInv(t) ==
  /\ pc[t] \in {"new", "ready", "execute", "prepare", "over"} => held[t] = Nil
  /\ pc[t] \in {"owner", "approved"} => held[t] # Nil
  /\ held[t] # Nil /\ pc[t] \in Executing => Requested(t)
  /\ held[t] # Nil /\ pc[t] \in Executing \ {"owner"} => OwnedBy(t) /\ Entry(held[t].id) = {}
  /\ held[t] # Nil /\ pc[t] \in Executing /\ OwnedBy(t) =>
       \A x \in sent : ~Uses(x, held[t].id)

\* What is signed is the action that was decided upon, and what is recorded is
\* what was sent.
ActInv(t) ==
  /\ pc[t] \in {"execute", "prepare"} \cup Executing => act[t] \in Requests
  /\ held[t] = Nil /\ pc[t] \in {"prepare", "price", "send"} =>
       Evaluate(PolicyConfig, act[t]) = "allow"
  /\ pc[t] \in {"price", "send", "record"} => tx[t] \in Txs /\ tx[t].action = act[t]
  /\ pc[t] = "record" =>
       \E x \in sent : x.tx = tx[t] /\ x.turn = t /\ x.approval = held[t]

\* An approval that has been spent is gone from the store for good.
SentInv ==
  \A x \in sent : x.approval # Nil =>
    /\ Entry(x.approval.id) = {}
    /\ \E p \in asked : p.id = x.approval.id

WalletInv ==
  /\ Shape /\ SerialInv /\ AskedInv /\ SentInv
  /\ \A t \in Turns : HoldInv(t) /\ ActInv(t)
  /\ ApprovedOnce /\ Authorised /\ HistoryTruthful

-----------------------------------------------------------------------------
\* Every step keeps the types.
LEMMA ShapeStep ==
  ASSUME Shape, \A t \in Turns : ActInv(t), pending \subseteq asked, Step
  PROVE  Shape'
<1> USE WalletAssumption DEF Shape, Active, Goto, Returns
<1>1. CASE UNCHANGED vars
  BY <1>1 DEF vars
<1>2. ASSUME NEW t \in Turns, Turn(t) \/ CallsWallet(t) PROVE Shape'
  <2>1. CASE TurnStarts(t) BY <2>1 DEF TurnStarts, PCs
  <2>2. CASE CallsWallet(t) BY <2>2 DEF CallsWallet, Execute, PCs
  <2>3. CASE TurnTakesResult(t) BY <2>3 DEF TurnTakesResult, Forget, PCs
  <2>4. CASE TurnEnds(t) BY <2>4 DEF TurnEnds, PCs
  <2> QED BY <1>2, <2>1, <2>2, <2>3, <2>4 DEF Turn, ToolCall, CallsWallet
<1>3. ASSUME NEW t \in Turns, ExecuteAction(t) PROVE Shape'
  <2>1. CASE ExecuteFails(t) BY <2>1 DEF ExecuteFails, PCs
  <2>2. CASE PolicyDenies(t) BY <2>2 DEF PolicyDenies, PCs
  <2>3. CASE PolicyAllows(t) BY <2>3 DEF PolicyAllows, PCs
  <2>4. CASE PolicyAsks(t)
    <3>1. act[t] \in Requests /\ SessionOf[t] \in Sessions /\ now + TTL \in Nat
      BY <2>4 DEF PolicyAsks, ActInv
    <3>2. asked' \subseteq Approvals
      BY <2>4, <3>1 DEF PolicyAsks, Approvals, User
    <3> QED BY <2>4, <3>2 DEF PolicyAsks, PCs
  <2> QED BY <1>3, <2>1, <2>2, <2>3, <2>4 DEF ExecuteAction
<1>4. ASSUME NEW t \in Turns, ExecuteApproved(t) PROVE Shape'
  <2>1. ASSUME NEW id \in ApprovalIds, ApproveUnknown(t, id) PROVE Shape'
    BY <2>1 DEF ApproveUnknown, PCs, Holds
  <2>2. ASSUME NEW id \in ApprovalIds, ApproveFound(t, id) PROVE Shape'
    BY <2>2 DEF ApproveFound, PCs, Holds, Entry, Approvals
  <2>3. CASE ApproveForeign(t) BY <2>3 DEF ApproveForeign, PCs
  <2>4. CASE ApproveOwned(t) BY <2>4 DEF ApproveOwned, PCs
  <2> QED BY <1>4, <2>1, <2>2, <2>3, <2>4 DEF ExecuteApproved, Approve
<1>5. ASSUME NEW t \in Turns, Broadcast(t) PROVE Shape'
  <2>1. CASE ReadNonce(t)
    <3>1. act[t] \in Requests BY <2>1 DEF ReadNonce, ActInv, Executing
    <3>2. PICK n : /\ n \in Nat
                   /\ tx' = [tx EXCEPT ![t] = [nonce |-> n, price |-> 0, action |-> act[t]]]
      <4>1. Len(mined) \in Nat OBVIOUS
      <4>2. \A n \in Len(mined)..(Len(mined) + Cardinality(mempool)) : n \in Nat
        BY <4>1
      <4> QED BY <2>1, <4>2 DEF ReadNonce
    <3>3. tx' \in [Turns -> Txs \cup {Nil}] BY <3>1, <3>2 DEF Txs
    <3> QED BY <2>1, <3>3 DEF ReadNonce, PCs
  <2>2. CASE Sign(t)
    <3>1. tx[t] \in Txs BY <2>2 DEF Sign, ActInv
    <3>2. PICK g \in Nat : tx' = [tx EXCEPT ![t].price = g] BY <2>2 DEF Sign
    <3>3. tx' \in [Turns -> Txs \cup {Nil}] BY <3>1, <3>2 DEF Txs
    <3> QED BY <2>2, <3>3 DEF Sign, PCs
  <2>3. CASE PrepareFails(t) BY <2>3 DEF PrepareFails, PCs
  <2>4. CASE SendAccepted(t)
    <3>1. tx[t] \in Txs BY <2>4 DEF SendAccepted, ActInv
    <3> QED BY <2>4, <3>1 DEF SendAccepted, NodeAccepts, PCs
  <2>5. CASE SendUnanswered(t)
    <3>1. tx[t] \in Txs BY <2>5 DEF SendUnanswered, ActInv
    <3> QED BY <2>5, <3>1 DEF SendUnanswered, NodeAccepts, PCs
  <2>6. CASE SendRefused(t) BY <2>6 DEF SendRefused, PCs
  <2>7. CASE Record(t) BY <2>7 DEF Record, PCs
  <2> QED BY <1>5, <2>1, <2>2, <2>3, <2>4, <2>5, <2>6, <2>7 DEF Broadcast
<1>6. CASE NodeMines
  <2>1. PICK x \in mempool : mined' = Append(mined, x) /\ mempool' = mempool \ {x}
    BY <1>6 DEF NodeMines
  <2>2. x \in Txs OBVIOUS
  <2>3. mined' \in Seq(Txs) BY <2>1, <2>2
  <2> QED BY <1>6, <2>1, <2>3 DEF NodeMines
<1>7. CASE Tick BY <1>7 DEF Tick
<1>8. CASE Restart BY <1>8 DEF Restart, Forget, PCs
<1> QED BY <1>1, <1>2, <1>3, <1>4, <1>5, <1>6, <1>7, <1>8 DEF Step, Next

-----------------------------------------------------------------------------
\* The steps in which a turn only changes its own variables and the history:
\* they leave the store and what was asked and sent alone.
Private(t) ==
  \/ TurnStarts(t) \/ CallsWallet(t) \/ TurnTakesResult(t) \/ TurnEnds(t)
  \/ ExecuteFails(t) \/ PolicyDenies(t) \/ PolicyAllows(t)
  \/ \E id \in ApprovalIds : ApproveFound(t, id)
  \/ ApproveForeign(t)
  \/ ReadNonce(t) \/ Sign(t) \/ PrepareFails(t) \/ SendRefused(t) \/ Record(t)

Sends(t) == SendAccepted(t) \/ SendUnanswered(t)

Environment == NodeMines \/ Tick \/ UNCHANGED vars

\* Every step is one of these.
LEMMA NextCases ==
  ASSUME Step
  PROVE  \/ \E t \in Turns : \/ Private(t) \/ Sends(t) \/ PolicyAsks(t) \/ ApproveOwned(t)
                             \/ \E id \in ApprovalIds : ApproveUnknown(t, id)
         \/ Environment \/ Restart
BY DEF Step, Next, Turn, ToolCall, CallsWallet, ExecuteAction, ExecuteApproved, Approve, Broadcast, Private, Sends,
       Environment

\* Private steps touch one turn and leave the shared stores alone.
LEMMA PrivateFrame ==
  ASSUME Shape, NEW t \in Turns, Private(t)
  PROVE  /\ UNCHANGED <<pending, asked, sent>>
         /\ \A u \in Turns \ {t} : /\ pc'[u] = pc[u] /\ held'[u] = held[u]
                                   /\ act'[u] = act[u] /\ tx'[u] = tx[u]
<1> USE DEF Shape, Goto, Returns
<1>1. CASE TurnStarts(t) BY <1>1 DEF TurnStarts
<1>2. CASE CallsWallet(t) BY <1>2 DEF CallsWallet, Execute
<1>3. CASE TurnTakesResult(t) BY <1>3 DEF TurnTakesResult, Forget
<1>4. CASE TurnEnds(t) BY <1>4 DEF TurnEnds
<1>5. CASE ExecuteFails(t) BY <1>5 DEF ExecuteFails
<1>6. CASE PolicyDenies(t) BY <1>6 DEF PolicyDenies
<1>7. CASE PolicyAllows(t) BY <1>7 DEF PolicyAllows
<1>8. ASSUME NEW id \in ApprovalIds, ApproveFound(t, id)
      PROVE  /\ UNCHANGED <<pending, asked, sent>>
             /\ \A u \in Turns \ {t} : /\ pc'[u] = pc[u] /\ held'[u] = held[u]
                                       /\ act'[u] = act[u] /\ tx'[u] = tx[u]
  BY <1>8 DEF ApproveFound
<1>9. CASE ApproveForeign(t) BY <1>9 DEF ApproveForeign
<1>10. CASE ReadNonce(t) BY <1>10 DEF ReadNonce
<1>11. CASE Sign(t) BY <1>11 DEF Sign
<1>12. CASE PrepareFails(t) BY <1>12 DEF PrepareFails
<1>13. CASE SendRefused(t) BY <1>13 DEF SendRefused
<1>14. CASE Record(t) BY <1>14 DEF Record
<1> QED BY <1>1, <1>2, <1>3, <1>4, <1>5, <1>6, <1>7, <1>8, <1>9, <1>10, <1>11, <1>12, <1>13,
           <1>14 DEF Private

\* The other steps of a turn touch one turn too, and grow what was asked or sent.
LEMMA SharedFrame ==
  ASSUME Shape, NEW t \in Turns,
         \/ Sends(t) \/ PolicyAsks(t) \/ ApproveOwned(t)
         \/ \E id \in ApprovalIds : ApproveUnknown(t, id)
  PROVE  /\ asked \subseteq asked' /\ sent \subseteq sent'
         /\ Active(t)
         /\ \A u \in Turns \ {t} : /\ pc'[u] = pc[u] /\ held'[u] = held[u]
                                   /\ act'[u] = act[u] /\ tx'[u] = tx[u]
<1> USE DEF Shape, Goto, Returns, Active
<1>1. CASE SendAccepted(t) BY <1>1 DEF SendAccepted, NodeAccepts
<1>2. CASE SendUnanswered(t) BY <1>2 DEF SendUnanswered, NodeAccepts
<1>3. CASE PolicyAsks(t) BY <1>3 DEF PolicyAsks
<1>4. CASE ApproveOwned(t) BY <1>4 DEF ApproveOwned
<1>5. CASE \E id \in ApprovalIds : ApproveUnknown(t, id) BY <1>5 DEF ApproveUnknown
<1> QED BY <1>1, <1>2, <1>3, <1>4, <1>5 DEF Sends

\* A transaction the node accepts is the one the turn signed.
LEMMA SentRecord ==
  ASSUME NEW t \in Turns, Sends(t)
  PROVE  \E y : /\ sent' = sent \cup {y}
                /\ y.tx = tx[t] /\ y.turn = t /\ y.approval = held[t]
<1>1. PICK answered \in BOOLEAN : NodeAccepts(t, answered)
  BY DEF Sends, SendAccepted, SendUnanswered
<1> DEFINE y == [tx |-> tx[t], turn |-> t, call |-> ops[t], approval |-> held[t],
                 displaced |-> Rivals(tx[t]), answered |-> answered]
<1>2. sent' = sent \cup {y} BY <1>1 DEF NodeAccepts
<1>3. y.tx = tx[t] /\ y.turn = t /\ y.approval = held[t] OBVIOUS
<1> QED BY <1>2, <1>3

\* A session keeps at most one active turn: only TurnStarts makes a turn active.
LEMMA SerialStep ==
  ASSUME Shape, SerialInv, Step
  PROVE  SerialInv'
<1>1. ASSUME NEW t \in Turns, Private(t) PROVE SerialInv'
  <2>1. \A u \in Turns \ {t} : pc'[u] = pc[u] BY <1>1, PrivateFrame
  <2>2. CASE TurnStarts(t)
    <3>1. \A u \in Turns : User(u) = User(t) => ~Active(u) BY <2>2 DEF TurnStarts
    <3> QED BY <2>1, <3>1 DEF SerialInv, Active, User
  <2>3. CASE ~TurnStarts(t)
    <3>1. Active(t)
      BY <1>1, <2>3 DEF Private, Active, CallsWallet, Execute, TurnTakesResult, TurnEnds, ExecuteFails,
           PolicyDenies, PolicyAllows, ApproveFound, ApproveForeign, ReadNonce, Sign, PrepareFails,
           SendRefused, Record, Goto, Returns
    <3> QED BY <2>1, <3>1 DEF SerialInv, Active, User
  <2> QED BY <2>2, <2>3
<1>2. ASSUME NEW t \in Turns,
             \/ Sends(t) \/ PolicyAsks(t) \/ ApproveOwned(t)
             \/ \E id \in ApprovalIds : ApproveUnknown(t, id)
      PROVE  SerialInv'
  <2>1. Active(t) /\ \A u \in Turns \ {t} : pc'[u] = pc[u] BY <1>2, SharedFrame
  <2> QED BY <2>1 DEF SerialInv, Active, User
<1>3. CASE Environment
  BY <1>3 DEF Environment, NodeMines, Tick, vars, SerialInv, Active
<1>4. CASE Restart
  BY <1>4 DEF Restart, SerialInv, Active, Shape
<1> QED BY <1>1, <1>2, <1>3, <1>4, NextCases

\* An ID denotes one request: Add never reuses a reading of the clock.
LEMMA AskedStep ==
  ASSUME Shape, AskedInv, Step
  PROVE  AskedInv'
<1> USE DEF AskedInv
<1>1. ASSUME NEW t \in Turns, Private(t) PROVE AskedInv'
  BY <1>1, PrivateFrame
<1>2. ASSUME NEW t \in Turns, PolicyAsks(t) PROVE AskedInv'
  BY <1>2 DEF PolicyAsks, NextId
<1>3. ASSUME NEW t \in Turns, Sends(t) PROVE AskedInv'
  BY <1>3 DEF Sends, SendAccepted, SendUnanswered
<1>4. ASSUME NEW t \in Turns, ApproveOwned(t) PROVE AskedInv'
  BY <1>4 DEF ApproveOwned
<1>5. ASSUME NEW t \in Turns, NEW id \in ApprovalIds, ApproveUnknown(t, id) PROVE AskedInv'
  BY <1>5 DEF ApproveUnknown
<1>6. CASE Environment BY <1>6 DEF Environment, NodeMines, Tick, vars
<1>7. CASE Restart BY <1>7 DEF Restart
<1> QED BY <1>1, <1>2, <1>3, <1>4, <1>5, <1>6, <1>7, NextCases

-----------------------------------------------------------------------------
\* An approval, once spent, stays out of the store.
LEMMA SentStep ==
  ASSUME Shape, AskedInv, SentInv, \A t \in Turns : HoldInv(t) /\ ActInv(t), Step
  PROVE  SentInv'
<1> USE DEF SentInv, Entry
<1>1. ASSUME NEW t \in Turns, Private(t) PROVE SentInv'
  BY <1>1, PrivateFrame
<1>2. ASSUME NEW t \in Turns, PolicyAsks(t) PROVE SentInv'
  BY <1>2 DEF PolicyAsks, NextId
<1>3. ASSUME NEW t \in Turns, Sends(t) PROVE SentInv'
  <2>1. PICK y : sent' = sent \cup {y} /\ y.approval = held[t]
    BY <1>3, SentRecord
  <2>2. pc[t] = "send" /\ UNCHANGED <<pending, asked>>
    BY <1>3 DEF Sends, SendAccepted, SendUnanswered, Goto, Returns
  <2>3. held[t] # Nil => Entry(held[t].id) = {} /\ \E p \in asked : p.id = held[t].id
    BY <2>2 DEF HoldInv, Executing, OwnedBy
  <2> QED BY <2>1, <2>2, <2>3
<1>4. ASSUME NEW t \in Turns, ApproveOwned(t) PROVE SentInv'
  BY <1>4 DEF ApproveOwned
<1>5. ASSUME NEW t \in Turns, NEW id \in ApprovalIds, ApproveUnknown(t, id) PROVE SentInv'
  BY <1>5 DEF ApproveUnknown
<1>6. CASE Environment BY <1>6 DEF Environment, NodeMines, Tick, vars
<1>7. CASE Restart BY <1>7 DEF Restart
<1> QED BY <1>1, <1>2, <1>3, <1>4, <1>5, <1>6, <1>7, NextCases

\* What is signed is the action that was decided upon.
LEMMA ActStep ==
  ASSUME Shape, \A t \in Turns : HoldInv(t) /\ ActInv(t), Step, Shape',
         asked \subseteq Approvals, pending \subseteq asked
  PROVE  \A t \in Turns : ActInv(t)'
<1> USE DEF Shape, ActInv, Executing
<1>1. ASSUME NEW t \in Turns, Private(t) PROVE \A u \in Turns : ActInv(u)'
  <2>1. /\ UNCHANGED sent
        /\ \A u \in Turns \ {t} : /\ pc'[u] = pc[u] /\ held'[u] = held[u]
                                  /\ act'[u] = act[u] /\ tx'[u] = tx[u]
    BY <1>1, PrivateFrame
  <2>2. \A u \in Turns \ {t} : ActInv(u)' BY <2>1
  <2>3. ActInv(t)'
    <3> USE <2>1 DEF Goto, Returns, HoldInv
    <3>1. CASE TurnStarts(t) BY <3>1 DEF TurnStarts
    <3>2. CASE CallsWallet(t) BY <3>2 DEF CallsWallet, Execute
    <3>3. CASE TurnTakesResult(t) BY <3>3 DEF TurnTakesResult, Forget
    <3>4. CASE TurnEnds(t) BY <3>4 DEF TurnEnds
    <3>5. CASE ExecuteFails(t) BY <3>5 DEF ExecuteFails
    <3>6. CASE PolicyDenies(t) BY <3>6 DEF PolicyDenies
    <3>7. CASE PolicyAllows(t) BY <3>7 DEF PolicyAllows
    <3>8. ASSUME NEW id \in ApprovalIds, ApproveFound(t, id) PROVE ActInv(t)'
      BY <3>8, WalletAssumption DEF ApproveFound, Entry, Approvals, Holds, ApprovalIds
    <3>9. CASE ApproveForeign(t) BY <3>9 DEF ApproveForeign
    <3>10. CASE ReadNonce(t)
      <4>1. PICK n \in Len(mined)..(Len(mined) + Cardinality(mempool)) :
              tx' = [tx EXCEPT ![t] = [nonce |-> n, price |-> 0, action |-> act[t]]]
        BY <3>10 DEF ReadNonce
      <4>2. pc'[t] = "price" /\ pc[t] \in {"prepare", "approved"} /\ UNCHANGED <<act, held>>
        BY <3>10 DEF ReadNonce
      <4>3. tx'[t] = [nonce |-> n, price |-> 0, action |-> act[t]] BY <4>1
      <4>4. tx'[t].action = act[t] /\ tx'[t] \in Txs
        <5>1. Len(mined) \in Nat OBVIOUS
        <5>2. \A m \in Len(mined)..(Len(mined) + Cardinality(mempool)) : m \in Nat BY <5>1
        <5> QED BY <4>1, <4>2, <4>3, <5>2 DEF Txs
      <4> QED BY <4>2, <4>4
    <3>11. CASE Sign(t)
      <4>1. PICK g \in GasPrices : tx' = [tx EXCEPT ![t].price = g]
        BY <3>11 DEF Sign
      <4>2. pc[t] = "price" /\ pc'[t] = "send" /\ UNCHANGED <<act, held>> BY <3>11 DEF Sign
      <4>3. tx[t] \in Txs /\ tx[t].action = act[t] BY <4>2
      <4>4. tx'[t] = [nonce |-> tx[t].nonce, price |-> g, action |-> tx[t].action]
        BY <4>1, <4>3 DEF Txs
      <4>5. tx'[t] \in Txs /\ tx'[t].action = act[t]
        BY <4>3, <4>4, WalletAssumption DEF Txs
      <4> QED BY <4>2, <4>5
    <3>12. CASE PrepareFails(t) BY <3>12 DEF PrepareFails
    <3>13. CASE SendRefused(t) BY <3>13 DEF SendRefused
    <3>14. CASE Record(t) BY <3>14 DEF Record
    <3> QED BY <1>1, <3>1, <3>2, <3>3, <3>4, <3>5, <3>6, <3>7, <3>8, <3>9, <3>10, <3>11, <3>12,
               <3>13, <3>14 DEF Private
  <2> QED BY <2>2, <2>3
<1>2. ASSUME NEW t \in Turns,
             \/ Sends(t) \/ PolicyAsks(t) \/ ApproveOwned(t)
             \/ \E id \in ApprovalIds : ApproveUnknown(t, id)
      PROVE  \A u \in Turns : ActInv(u)'
  <2>1. \A u \in Turns \ {t} : ActInv(u)' BY <1>2, SharedFrame
  <2>2. ActInv(t)'
    <3> USE DEF Goto, Returns, HoldInv
    <3>1. CASE SendAccepted(t)
      <4>1. PICK y : sent' = sent \cup {y} /\ y.tx = tx[t] /\ y.turn = t /\ y.approval = held[t]
        BY <3>1, SentRecord DEF Sends
      <4> QED BY <3>1, <4>1 DEF SendAccepted
    <3>2. CASE SendUnanswered(t) BY <3>2 DEF SendUnanswered
    <3>3. CASE PolicyAsks(t) BY <3>3 DEF PolicyAsks
    <3>4. CASE ApproveOwned(t) BY <3>4 DEF ApproveOwned
    <3>5. CASE \E id \in ApprovalIds : ApproveUnknown(t, id) BY <3>5 DEF ApproveUnknown
    <3> QED BY <1>2, <3>1, <3>2, <3>3, <3>4, <3>5 DEF Sends
  <2> QED BY <2>1, <2>2
<1>3. CASE Environment BY <1>3 DEF Environment, NodeMines, Tick, vars
<1>4. CASE Restart BY <1>4 DEF Restart, Forget, Active, PCs
<1> QED BY <1>1, <1>2, <1>3, <1>4, NextCases

-----------------------------------------------------------------------------
\* Where an approval can be while it is executed.
LEMMA HoldStep ==
  ASSUME Shape, SerialInv, AskedInv, SentInv, \A t \in Turns : HoldInv(t) /\ ActInv(t),
         Step
  PROVE  \A t \in Turns : HoldInv(t)'
<1> USE DEF Shape, HoldInv, Executing
<1>1. ASSUME NEW t \in Turns, Private(t) PROVE \A u \in Turns : HoldInv(u)'
  <2>1. /\ UNCHANGED <<pending, asked, sent>>
        /\ \A u \in Turns \ {t} : /\ pc'[u] = pc[u] /\ held'[u] = held[u]
                                  /\ act'[u] = act[u] /\ tx'[u] = tx[u]
    BY <1>1, PrivateFrame
  <2>2. \A u \in Turns \ {t} : HoldInv(u)' BY <2>1 DEF Requested, OwnedBy, Entry
  <2>3. HoldInv(t)'
    <3> USE <2>1 DEF Goto, Returns, Requested, OwnedBy, Entry
    <3>1. CASE TurnStarts(t) BY <3>1 DEF TurnStarts
    <3>2. CASE CallsWallet(t) BY <3>2 DEF CallsWallet, Execute
    <3>3. CASE TurnTakesResult(t) BY <3>3 DEF TurnTakesResult, Forget
    <3>4. CASE TurnEnds(t) BY <3>4 DEF TurnEnds
    <3>5. CASE ExecuteFails(t) BY <3>5 DEF ExecuteFails
    <3>6. CASE PolicyDenies(t) BY <3>6 DEF PolicyDenies
    <3>7. CASE PolicyAllows(t) BY <3>7 DEF PolicyAllows
    <3>8. ASSUME NEW id \in ApprovalIds, ApproveFound(t, id) PROVE HoldInv(t)'
      <4>1. PICK p \in pending : p.id = id /\ now <= p.expires /\ act' = [act EXCEPT ![t] = p.action]
        BY <3>8 DEF ApproveFound
      <4>2. pc'[t] = "owner" /\ held'[t] = [id |-> id, since |-> now] BY <3>8 DEF ApproveFound
      <4>3. held'[t] # Nil BY <4>2, WalletAssumption DEF ApprovalIds
      <4>4. p \in asked /\ p.id = held'[t].id /\ p.action = act'[t] /\ held'[t].since <= p.expires
        BY <4>1, <4>2 DEF AskedInv
      <4>5. \A x \in sent : ~Uses(x, id) BY <4>1 DEF SentInv, Uses
      <4>6. Requested(t)'
        BY <4>4
      <4> QED BY <4>2, <4>3, <4>5, <4>6 DEF Uses
    <3>9. CASE ApproveForeign(t) BY <3>9 DEF ApproveForeign
    <3>10. CASE ReadNonce(t) BY <3>10 DEF ReadNonce
    <3>11. CASE Sign(t) BY <3>11 DEF Sign
    <3>12. CASE PrepareFails(t) BY <3>12 DEF PrepareFails
    <3>13. CASE SendRefused(t) BY <3>13 DEF SendRefused
    <3>14. CASE Record(t) BY <3>14 DEF Record
    <3> QED BY <1>1, <3>1, <3>2, <3>3, <3>4, <3>5, <3>6, <3>7, <3>8, <3>9, <3>10, <3>11, <3>12,
               <3>13, <3>14 DEF Private
  <2> QED BY <2>2, <2>3
<1>2. ASSUME NEW t \in Turns, PolicyAsks(t) PROVE \A u \in Turns : HoldInv(u)'
  <2>1. PICK p : /\ pending' = pending \cup {p} /\ asked' = asked \cup {p}
                 /\ \A q \in asked : q.id # p.id
    <3> DEFINE Added(id) ==
          [id |-> id, action |-> act[t], user |-> User(t), expires |-> now + TTL]
    <3>1. PICK id \in ApprovalIds :
            /\ NextId(id)
            /\ pending' = pending \cup {Added(id)} /\ asked' = asked \cup {Added(id)}
      BY <1>2 DEF PolicyAsks
    <3>2. Added(id).id = id OBVIOUS
    <3> QED BY <3>1, <3>2 DEF NextId
  <2>2. UNCHANGED <<held, act, sent>> /\ pc'[t] = "returned"
        /\ \A u \in Turns \ {t} : pc'[u] = pc[u]
    BY <1>2 DEF PolicyAsks, Returns, Goto
  <2>3. ASSUME NEW u \in Turns \ {t} PROVE HoldInv(u)'
    <3>1. ASSUME held[u] # Nil, pc[u] \in Executing
          PROVE  /\ Requested(u)' /\ held[u].id # p.id
                 /\ OwnedBy(u)' <=> OwnedBy(u)
                 /\ Entry(held[u].id)' = Entry(held[u].id)
      <4>1. Requested(u) BY <3>1
      <4>2. held[u].id # p.id BY <4>1, <2>1 DEF Requested
      <4> QED BY <2>1, <2>2, <4>1, <4>2 DEF Requested, OwnedBy, Entry
    <3> QED BY <2>2, <3>1 DEF Uses
  <2> QED BY <2>2, <2>3
<1>3. ASSUME NEW t \in Turns, Sends(t) PROVE \A u \in Turns : HoldInv(u)'
  <2>1. PICK y : sent' = sent \cup {y} /\ y.approval = held[t]
    BY <1>3, SentRecord
  <2>2. /\ UNCHANGED <<held, act, pending, asked>> /\ pc'[t] \in {"record", "returned"}
        /\ pc[t] = "send" /\ \A u \in Turns \ {t} : pc'[u] = pc[u]
    BY <1>3 DEF Sends, SendAccepted, SendUnanswered, Returns, Goto
  <2>3. ASSUME NEW u \in Turns \ {t} PROVE HoldInv(u)'
    <3>1. ASSUME held[u] # Nil, pc[u] \in Executing, OwnedBy(u), Uses(y, held[u].id)
          PROVE  FALSE
      <4>1. held[t] # Nil /\ held[t].id = held[u].id BY <2>1, <3>1 DEF Uses
      <4>2. OwnedBy(t) BY <2>2, <4>1
      <4>3. User(t) = User(u) BY <3>1, <4>1, <4>2 DEF OwnedBy, AskedInv
      <4>4. Active(t) /\ Active(u) BY <2>2, <3>1 DEF Active
      <4> QED BY <4>3, <4>4 DEF SerialInv
    <3> QED BY <2>1, <2>2, <3>1 DEF Requested, OwnedBy, Entry
  <2> QED BY <2>2, <2>3
<1>4. ASSUME NEW t \in Turns, ApproveOwned(t) PROVE \A u \in Turns : HoldInv(u)'
  <2>1. /\ UNCHANGED <<held, act, asked, sent>> /\ pc[t] = "owner" /\ pc'[t] = "approved"
        /\ \A u \in Turns \ {t} : pc'[u] = pc[u]
    BY <1>4 DEF ApproveOwned, Goto
  <2>2. OwnedBy(t) /\ pending' = pending \ Entry(held[t].id) BY <1>4 DEF ApproveOwned
  <2>3. \A u \in Turns \ {t} : HoldInv(u)' BY <2>1, <2>2 DEF Requested, OwnedBy, Entry
  <2>4. HoldInv(t)'
    <3>1. OwnedBy(t)' /\ Requested(t)' BY <2>1, <2>2 DEF Requested, OwnedBy
    <3>2. Entry(held[t].id)' = {} BY <2>1, <2>2 DEF Entry
    <3> QED BY <2>1, <2>2, <3>1, <3>2
  <2> QED BY <2>3, <2>4
<1>5. ASSUME NEW t \in Turns, NEW id \in ApprovalIds, ApproveUnknown(t, id)
      PROVE  \A u \in Turns : HoldInv(u)'
  BY <1>5 DEF ApproveUnknown, Returns, Goto, Requested, OwnedBy, Entry
<1>6. CASE Environment
  BY <1>6 DEF Environment, NodeMines, Tick, vars, Requested, OwnedBy, Entry
<1>7. CASE Restart
  BY <1>7 DEF Restart, Forget, Active, PCs
<1> QED BY <1>1, <1>2, <1>3, <1>4, <1>5, <1>6, <1>7, NextCases

-----------------------------------------------------------------------------
\* The three properties follow each step from what holds while a turn sends.
LEMMA PropertyStep ==
  ASSUME WalletInv, Step
  PROVE  (ApprovedOnce /\ Authorised /\ HistoryTruthful)'
<1> USE DEF WalletInv
<1>1. ASSUME NEW t \in Turns, Private(t)
      PROVE (ApprovedOnce /\ Authorised /\ HistoryTruthful)'
  <2>1. UNCHANGED <<asked, sent>> BY <1>1, PrivateFrame
  <2>2. (ApprovedOnce /\ Authorised)' BY <2>1 DEF ApprovedOnce, Authorised
  <2>3. CASE Record(t)
    <3>1. PICK x \in sent : x.tx = tx[t] /\ x.turn = t /\ x.approval = held[t]
      BY <2>3 DEF ActInv, Record, Returns, Goto
    <3>2. history' \subseteq history \cup {[tx |-> tx[t], user |-> User(t), approval |-> held[t]]}
      BY <2>3 DEF Record
    <3> QED BY <2>1, <2>2, <3>1, <3>2 DEF HistoryTruthful
  <2>4. CASE ~Record(t)
    <3>1. UNCHANGED history
      BY <1>1, <2>4 DEF Private, TurnStarts, CallsWallet, Execute, TurnTakesResult, TurnEnds,
           ExecuteFails, PolicyDenies, PolicyAllows, ApproveFound, ApproveForeign, ReadNonce, Sign,
           PrepareFails, SendRefused
    <3> QED BY <2>1, <2>2, <3>1 DEF HistoryTruthful
  <2> QED BY <2>3, <2>4
<1>2. ASSUME NEW t \in Turns, Sends(t)
      PROVE (ApprovedOnce /\ Authorised /\ HistoryTruthful)'
  <2>1. PICK y : sent' = sent \cup {y} /\ y.tx = tx[t] /\ y.turn = t /\ y.approval = held[t]
    BY <1>2, SentRecord
  <2>2. UNCHANGED <<history, asked>> /\ pc[t] = "send"
    BY <1>2 DEF Sends, SendAccepted, SendUnanswered, Returns, Goto
  <2>3. HistoryTruthful' BY <2>1, <2>2 DEF HistoryTruthful
  <2>4. ApprovedOnce'
    <3>1. held[t] # Nil => \A x \in sent : ~Uses(x, held[t].id)
      BY <2>2 DEF HoldInv, Executing
    <3> QED BY <2>1, <3>1 DEF ApprovedOnce, Uses
  <2>5. Authorised'
    <3>1. y.tx.action = act[t] BY <2>1, <2>2 DEF ActInv
    <3>2. CASE held[t] = Nil
      BY <2>1, <2>2, <3>1, <3>2 DEF Authorised, ActInv
    <3>3. CASE held[t] # Nil
      <4>1. \E p \in asked : /\ p.id = held[t].id /\ p.action = act[t]
                             /\ p.user = User(t) /\ held[t].since <= p.expires
        BY <2>2, <3>3 DEF HoldInv, Executing, Requested, OwnedBy, AskedInv
      <4> QED BY <2>1, <2>2, <3>1, <3>3, <4>1 DEF Authorised
    <3> QED BY <3>2, <3>3
  <2> QED BY <2>3, <2>4, <2>5
<1>3. ASSUME sent' = sent, asked \subseteq asked', UNCHANGED history
      PROVE (ApprovedOnce /\ Authorised /\ HistoryTruthful)'
  BY <1>3 DEF ApprovedOnce, Authorised, HistoryTruthful
<1>4. ASSUME NEW t \in Turns,
             PolicyAsks(t) \/ ApproveOwned(t) \/ \E id \in ApprovalIds : ApproveUnknown(t, id)
      PROVE sent' = sent /\ asked \subseteq asked' /\ UNCHANGED history
  BY <1>4 DEF PolicyAsks, ApproveOwned, ApproveUnknown
<1>5. CASE Environment \/ Restart
  BY <1>3, <1>5 DEF Environment, NodeMines, Tick, vars, Restart
<1> QED BY <1>1, <1>2, <1>3, <1>4, <1>5, NextCases

\* It holds before any turn, and every step keeps it.
LEMMA InitInv ==
  ASSUME Init
  PROVE  WalletInv
<1>1. Shape BY DEF Init, Shape, PCs, Approvals
<1>2. SerialInv BY DEF Init, SerialInv, Active
<1>3. \A t \in Turns : HoldInv(t) /\ ActInv(t) BY DEF Init, HoldInv, ActInv, Executing
<1> QED BY <1>1, <1>2, <1>3
        DEF Init, WalletInv, AskedInv, SentInv, ApprovedOnce, Authorised, HistoryTruthful

LEMMA InvStep ==
  ASSUME WalletInv, Step
  PROVE  WalletInv'
<1> USE DEF WalletInv
<1>1. Shape' BY ShapeStep DEF AskedInv
<1>2. SerialInv' BY SerialStep
<1>3. AskedInv' BY AskedStep
<1>4. SentInv' BY SentStep
<1>5. \A t \in Turns : HoldInv(t)' BY HoldStep
<1>6. \A t \in Turns : ActInv(t)' BY <1>1, ActStep DEF Shape, AskedInv
<1>7. (ApprovedOnce /\ Authorised /\ HistoryTruthful)' BY PropertyStep
<1> QED BY <1>1, <1>2, <1>3, <1>4, <1>5, <1>6, <1>7

\* WalletInv is inductive.
THEOREM WalletInvariant == Spec => []WalletInv
<1>1. WalletInv /\ [Next]_vars => WalletInv' BY InvStep DEF Step
<1> QED BY InitInv, <1>1, PTL DEF Spec

\* An approval moves funds at most once (ExecuteApproved, approval.Store).
THEOREM OneTransactionPerApproval == Spec => []ApprovedOnce
BY WalletInvariant, PTL DEF WalletInv

\* Nothing is broadcast that the policy did not allow or its user approve in time.
THEOREM NothingUnauthorised == Spec => []Authorised
BY WalletInvariant, PTL DEF WalletInv

\* The history file only lists transactions the node accepted.
THEOREM HistoryIsTruthful == Spec => []HistoryTruthful
BY WalletInvariant, PTL DEF WalletInv

-----------------------------------------------------------------------------
(* The nonces: what the node has accepted it has mined or replaced by more. *)

SentTxInv ==
  \A x \in sent :
    /\ x.tx \in Txs
    /\ \A d \in x.displaced : d \in Txs /\ d.nonce = x.tx.nonce /\ d.price < x.tx.price
    /\ \/ x.tx.nonce < Len(mined)
       \/ \E z \in mempool : z.nonce = x.tx.nonce /\ z.price >= x.tx.price

\* While a turn builds a transaction its session has not used the nonce.
NonceInv ==
  \A t \in Turns : pc[t] \in {"price", "send"} =>
    \A x \in sent : User(x.turn) = User(t) => x.tx.nonce # tx[t].nonce

\* What a broadcast does to the node.
LEMMA Acceptance ==
  ASSUME Shape, \A t \in Turns : ActInv(t), NEW t \in Turns, Sends(t)
  PROVE  \E y : /\ sent' = sent \cup {y}
                /\ y.tx = tx[t] /\ y.turn = t /\ y.displaced = Rivals(tx[t]) /\ y.call = ops[t]
                /\ mempool' = (mempool \ Rivals(tx[t])) \cup {tx[t]}
                /\ tx[t] \in Txs /\ tx[t].nonce >= Len(mined)
                /\ \A r \in Rivals(tx[t]) : r.price < tx[t].price
                /\ UNCHANGED <<mined, tx, ops>>
                /\ pc[t] = "send" /\ \A u \in Turns \ {t} : pc'[u] = pc[u]
                /\ \/ y.answered /\ pc'[t] = "record"
                   \/ ~y.answered /\ pc'[t] = "returned" /\ ret' = [ret EXCEPT ![t] = "error"]
<1> DEFINE y(answered) == [tx |-> tx[t], turn |-> t, call |-> ops[t], approval |-> held[t],
                           displaced |-> Rivals(tx[t]), answered |-> answered]
<1>1. pc[t] = "send" /\ tx[t] \in Txs /\ UNCHANGED <<tx, ops>>
  BY DEF Sends, SendAccepted, SendUnanswered, ActInv, Goto, Returns
<1>2. ASSUME NEW answered \in BOOLEAN, NodeAccepts(t, answered)
      PROVE  /\ sent' = sent \cup {y(answered)}
             /\ mempool' = (mempool \ Rivals(tx[t])) \cup {tx[t]}
             /\ tx[t].nonce >= Len(mined)
             /\ \A r \in Rivals(tx[t]) : r.price < tx[t].price
             /\ UNCHANGED mined
  BY <1>2 DEF NodeAccepts
<1>3. CASE SendAccepted(t)
  <2>1. pc'[t] = "record" /\ \A u \in Turns \ {t} : pc'[u] = pc[u]
    BY <1>3 DEF SendAccepted, Goto, Shape
  <2> WITNESS y(TRUE)
  <2> QED BY <1>1, <1>2, <1>3, <2>1 DEF SendAccepted
<1>4. CASE SendUnanswered(t)
  <2>1. pc'[t] = "returned" /\ ret' = [ret EXCEPT ![t] = "error"] /\ \A u \in Turns \ {t} : pc'[u] = pc[u]
    BY <1>4 DEF SendUnanswered, Goto, Returns, Shape
  <2> WITNESS y(FALSE)
  <2> QED BY <1>1, <1>2, <1>4, <2>1 DEF SendUnanswered
<1> QED BY <1>3, <1>4 DEF Sends

\* The pending nonce is one that the node has not taken from anyone.
LEMMA PendingNonce ==
  ASSUME Shape, SentTxInv, NEW n \in Nat, n >= Len(mined), IsPendingNonce(n)
  PROVE  \A x \in sent : x.tx.nonce # n
<1>1. Len(mined) \in Nat BY DEF Shape
<1> QED BY <1>1 DEF SentTxInv, IsPendingNonce, Taken, Txs

\* What the node has accepted stays accepted, whoever sends.
LEMMA SentTxStep ==
  ASSUME WalletInv, SentTxInv, Step
  PROVE  SentTxInv'
<1> USE DEF WalletInv
<1>0. Len(mined) \in Nat BY DEF Shape
<1>1. ASSUME NEW t \in Turns, Sends(t) PROVE SentTxInv'
  <2>1. PICK y : /\ sent' = sent \cup {y}
                 /\ y.tx = tx[t] /\ y.displaced = Rivals(tx[t])
                 /\ mempool' = (mempool \ Rivals(tx[t])) \cup {tx[t]}
                 /\ tx[t] \in Txs
                 /\ \A r \in Rivals(tx[t]) : r.price < tx[t].price
                 /\ UNCHANGED mined
    BY <1>1, Acceptance
  <2>2. \A r \in Rivals(tx[t]) : r \in Txs /\ r.nonce = tx[t].nonce BY DEF Rivals, Shape
  <2>3. ASSUME NEW x \in sent, NEW z \in mempool,
               z.nonce = x.tx.nonce, z.price >= x.tx.price
        PROVE  \E w \in mempool' : w.nonce = x.tx.nonce /\ w.price >= x.tx.price
    <3>1. CASE z \in Rivals(tx[t])
      <4>1. z \in Txs /\ x.tx \in Txs /\ z.price < tx[t].price /\ z.nonce = tx[t].nonce
        BY <2>1, <2>2, <3>1 DEF SentTxInv, Rivals
      <4> QED BY <2>1, <2>3, <4>1 DEF Txs
    <3>2. CASE z \notin Rivals(tx[t]) BY <2>1, <2>3, <3>2
    <3> QED BY <3>1, <3>2
  <2>4. \A x \in sent : \/ x.tx.nonce < Len(mined)
                        \/ \E w \in mempool' : w.nonce = x.tx.nonce /\ w.price >= x.tx.price
    BY <2>3 DEF SentTxInv
  <2>5. tx[t].price >= tx[t].price /\ tx[t] \in mempool' BY <2>1 DEF Txs
  <2> QED BY <2>1, <2>2, <2>4, <2>5 DEF SentTxInv
<1>2. CASE NodeMines
  <2>1. PICK x \in mempool : /\ x.nonce = Len(mined) /\ mined' = Append(mined, x)
                             /\ mempool' = mempool \ {x} /\ UNCHANGED sent
    BY <1>2 DEF NodeMines
  <2>2. Len(mined') = Len(mined) + 1 BY <2>1 DEF Shape
  <2>3. ASSUME NEW y \in sent
        PROVE  \/ y.tx.nonce < Len(mined')
               \/ \E z \in mempool' : z.nonce = y.tx.nonce /\ z.price >= y.tx.price
    <3>1. y.tx.nonce \in Nat BY DEF SentTxInv, Txs
    <3> QED BY <1>0, <2>1, <2>2, <3>1 DEF SentTxInv
  <2> QED BY <2>1, <2>3 DEF SentTxInv
<1>3. CASE UNCHANGED <<sent, mempool, mined>>
  BY <1>3 DEF SentTxInv
<1>4. ASSUME NEW t \in Turns, Private(t) PROVE UNCHANGED <<sent, mempool, mined>>
  BY <1>4 DEF Private, TurnStarts, CallsWallet, Execute, TurnTakesResult, TurnEnds, ExecuteFails,
       PolicyDenies, PolicyAllows, ApproveFound, ApproveForeign, ReadNonce, Sign, PrepareFails,
       SendRefused, Record
<1>5. ASSUME NEW t \in Turns,
             PolicyAsks(t) \/ ApproveOwned(t) \/ \E id \in ApprovalIds : ApproveUnknown(t, id)
      PROVE  UNCHANGED <<sent, mempool, mined>>
  BY <1>5 DEF PolicyAsks, ApproveOwned, ApproveUnknown
<1>6. CASE Tick \/ UNCHANGED vars \/ Restart
  BY <1>3, <1>6 DEF Tick, vars, Restart
<1> QED BY <1>1, <1>2, <1>3, <1>4, <1>5, <1>6, NextCases DEF Environment

\* While a turn holds a nonce, only a turn of its own session could take it, and
\* the queue runs no other.
LEMMA NonceStep ==
  ASSUME WalletInv, SentTxInv, NonceInv, Step
  PROVE  NonceInv'
<1> USE DEF WalletInv
<1>1. ASSUME NEW t \in Turns, Private(t) PROVE NonceInv'
  <2>1. /\ UNCHANGED sent
        /\ \A u \in Turns \ {t} : pc'[u] = pc[u] /\ tx'[u] = tx[u]
    BY <1>1, PrivateFrame
  <2>2. CASE ReadNonce(t)
    <3>1. PICK n \in Len(mined)..(Len(mined) + Cardinality(mempool)) :
            /\ IsPendingNonce(n)
            /\ tx' = [tx EXCEPT ![t] = [nonce |-> n, price |-> 0, action |-> act[t]]]
      BY <2>2 DEF ReadNonce
    <3>2. n \in Nat /\ n >= Len(mined)
      <4>1. Len(mined) \in Nat BY DEF Shape
      <4>2. \A m \in Len(mined)..(Len(mined) + Cardinality(mempool)) : m \in Nat /\ m >= Len(mined)
        BY <4>1
      <4> QED BY <4>2
    <3>3. \A x \in sent : x.tx.nonce # n BY <3>1, <3>2, PendingNonce
    <3>4. tx'[t].nonce = n BY <3>1 DEF Shape
    <3> QED BY <2>1, <3>3, <3>4 DEF NonceInv, User
  <2>3. CASE Sign(t)
    <3>1. PICK g : tx' = [tx EXCEPT ![t].price = g] BY <2>3 DEF Sign
    <3>2. pc[t] = "price" /\ tx[t] \in Txs BY <2>3 DEF Sign, Goto, ActInv
    <3>3. tx'[t].nonce = tx[t].nonce BY <3>1, <3>2 DEF Shape, Txs
    <3> QED BY <2>1, <3>2, <3>3 DEF NonceInv, User
  <2>4. CASE ~ReadNonce(t) /\ ~Sign(t)
    <3>1. pc'[t] \notin {"price", "send"}
      BY <1>1, <2>4 DEF Shape, Private, TurnStarts, CallsWallet, Execute, TurnTakesResult, TurnEnds,
           ExecuteFails, PolicyDenies, PolicyAllows, ApproveFound, ApproveForeign, PrepareFails,
           SendRefused, Record, Goto, Returns
    <3> QED BY <2>1, <3>1 DEF NonceInv, User
  <2> QED BY <2>2, <2>3, <2>4
<1>2. ASSUME NEW t \in Turns, Sends(t) PROVE NonceInv'
  <2>1. PICK y : /\ sent' = sent \cup {y} /\ y.turn = t
                 /\ UNCHANGED tx /\ pc[t] = "send" /\ pc'[t] \in {"record", "returned"}
                 /\ \A u \in Turns \ {t} : pc'[u] = pc[u]
    BY <1>2, Acceptance
  <2>2. ASSUME NEW u \in Turns, pc'[u] \in {"price", "send"}
        PROVE  User(t) # User(u)
    BY <2>1, <2>2 DEF SerialInv, Active
  <2> QED BY <2>1, <2>2 DEF NonceInv, User
<1>3. ASSUME NEW t \in Turns,
             PolicyAsks(t) \/ ApproveOwned(t) \/ \E id \in ApprovalIds : ApproveUnknown(t, id)
      PROVE  NonceInv'
  BY <1>3 DEF PolicyAsks, ApproveOwned, ApproveUnknown, Goto, Returns, NonceInv, Shape, User
<1>4. CASE Environment \/ Restart
  BY <1>4 DEF Environment, NodeMines, Tick, vars, Restart, NonceInv, Shape, User, Active
<1> QED BY <1>1, <1>2, <1>3, <1>4, NextCases

\* A transaction displaces what others sent for its nonce, and is dearer.
LEMMA DisplacesStep ==
  ASSUME WalletInv, SentTxInv, NonceInv, NoSelfReplacement, Step
  PROVE  NoSelfReplacement'
<1> USE DEF WalletInv
<1>1. ASSUME NEW t \in Turns, Sends(t) PROVE NoSelfReplacement'
  <2>1. PICK y : /\ sent' = sent \cup {y}
                 /\ y.tx = tx[t] /\ y.turn = t /\ y.displaced = Rivals(tx[t])
                 /\ tx[t] \in Txs /\ tx[t].nonce >= Len(mined) /\ pc[t] = "send"
                 /\ \A r \in Rivals(tx[t]) : r.price < tx[t].price
    BY <1>1, Acceptance
  <2>2. \A x \in sent : x.tx \in Rivals(tx[t]) => User(x.turn) # User(t)
    BY <2>1 DEF NonceInv, Rivals
  <2>3. ASSUME NEW x \in sent, tx[t] \in x.displaced PROVE FALSE
    <3>1. x.tx \in Txs /\ tx[t].nonce = x.tx.nonce /\ tx[t].price < x.tx.price
      BY <2>3 DEF SentTxInv
    <3>2. ~(x.tx.nonce < Len(mined))
      <4>1. Len(mined) \in Nat BY DEF Shape
      <4> QED BY <2>1, <3>1, <4>1 DEF Txs
    <3>3. PICK z \in mempool : z.nonce = x.tx.nonce /\ z.price >= x.tx.price
      BY <3>2 DEF SentTxInv
    <3>4. z \in Txs /\ z.price < tx[t].price BY <2>1, <3>1, <3>3 DEF Rivals, Shape
    <3> QED BY <2>1, <3>1, <3>3, <3>4 DEF Txs
  <2>4. tx[t] \notin Rivals(tx[t]) BY <2>1 DEF Txs
  <2> QED BY <2>1, <2>2, <2>3, <2>4 DEF NoSelfReplacement, User
<1>2. CASE UNCHANGED sent BY <1>2 DEF NoSelfReplacement, User
<1>3. ASSUME NEW t \in Turns, Private(t) PROVE UNCHANGED sent BY <1>3, PrivateFrame
<1>4. ASSUME NEW t \in Turns,
             PolicyAsks(t) \/ ApproveOwned(t) \/ \E id \in ApprovalIds : ApproveUnknown(t, id)
      PROVE  UNCHANGED sent
  BY <1>4 DEF PolicyAsks, ApproveOwned, ApproveUnknown
<1>5. CASE Environment \/ Restart
  BY <1>2, <1>5 DEF Environment, NodeMines, Tick, vars, Restart
<1> QED BY <1>1, <1>2, <1>3, <1>4, <1>5, NextCases

\* A session does not replace its own transaction (PrepareExecution reads the nonce
\* long before SendRawTransaction sends it).
THEOREM NoSessionReplacesItself == Spec => []NoSelfReplacement
<1> DEFINE Inv == WalletInv /\ SentTxInv /\ NonceInv /\ NoSelfReplacement
<1>1. Init => Inv
  <2>1. Init => SentTxInv /\ NonceInv /\ NoSelfReplacement
    BY DEF Init, SentTxInv, NonceInv, NoSelfReplacement
  <2> QED BY <2>1, InitInv
<1>2. Inv /\ [Next]_vars => Inv'
  BY InvStep, SentTxStep, NonceStep, DisplacesStep DEF Step
<1> QED BY <1>1, <1>2, PTL DEF Spec

-----------------------------------------------------------------------------
Stages ==
  {"none", "policy_check", "simulate", "approval_gate", "gate_result", "sign_send",
   "send_result", "verify_receipt"}

\* A plan under way has a contract call for its goal.
GoalInv ==
  /\ stage \in [Turns -> Stages] /\ goal \in [Turns -> Requests \cup {Nil}]
  /\ \A t \in Turns : stage[t] # "none" => goal[t] \in Requests

LEMMA GoalStep ==
  ASSUME GoalInv, [PlanNext]_allVars
  PROVE  GoalInv'
<1> USE DEF GoalInv, Stages, To
<1>1. CASE UNCHANGED planVars BY <1>1 DEF planVars
<1>2. CASE PlanRestart BY <1>2 DEF PlanRestart
<1>3. ASSUME NEW t \in Turns, Execution(t) PROVE GoalInv'
  <2>1. CASE PlanStarts(t) BY <2>1 DEF PlanStarts
  <2>2. CASE PolicyCheck(t) \/ Simulate(t) \/ VerifyReceipt(t)
    BY <2>2 DEF PolicyCheck, Simulate, VerifyReceipt
  <2>3. CASE ApprovalGate(t) \/ GateResult(t)
    BY <2>3 DEF ApprovalGate, GateResult
  <2>4. CASE SignSend(t) \/ SendResult(t)
    BY <2>4 DEF SignSend, SendResult
  <2> QED BY <1>3, <2>1, <2>2, <2>3, <2>4 DEF Execution
<1> QED BY <1>1, <1>2, <1>3 DEF PlanNext, TurnStep, WalletStep, allVars

\* To the wallet service, a step of the plan is one of its own steps or a call.
LEMMA PlanIsStep ==
  ASSUME GoalInv, [PlanNext]_allVars
  PROVE  Step
<1>1. ASSUME NEW t \in Turns, Execution(t) PROVE Step
  <2>1. CASE TurnTakesResult(t) BY <2>1 DEF Step, Next, Turn
  <2>2. CASE Execute(t, goal[t]) /\ stage[t] # "none" BY <2>2 DEF Step, CallsWallet, GoalInv
  <2>3. CASE UNCHANGED vars BY <2>3 DEF Step
  <2> QED BY <1>1, <2>1, <2>2, <2>3
          DEF Execution, PlanStarts, PolicyCheck, Simulate, ApprovalGate, GateResult, SignSend,
              SendResult, VerifyReceipt, To
<1>2. ASSUME NEW t \in Turns, TurnStep(t) PROVE Step
  BY <1>2 DEF TurnStep, Step, Next, Turn, ExecuteApproved
<1>3. ASSUME NEW t \in Turns, WalletStep(t) PROVE Step
  BY <1>3 DEF WalletStep, Step, Next, ExecuteApproved
<1> QED BY <1>1, <1>2, <1>3 DEF PlanNext, PlanRestart, allVars, Step, Next

\* The wallet's invariant holds under the plan executor, whose stages agree with the
\* wallet calls they are waiting for (WalletExecutor.Execute).
THEOREM PlanInvariant == PlanSpec => [](WalletInv /\ GoalInv)
<1>1. PlanInit => WalletInv /\ GoalInv
  <2>1. PlanInit => WalletInv BY InitInv DEF PlanInit
  <2>2. PlanInit => GoalInv BY DEF PlanInit, GoalInv, Stages
  <2> QED BY <2>1, <2>2
<1>2. WalletInv /\ GoalInv /\ [PlanNext]_allVars => (WalletInv /\ GoalInv)'
  BY InvStep, PlanIsStep, GoalStep
<1> QED BY <1>1, <1>2, PTL DEF PlanSpec

\* The plan executor, which calls the wallet again after a failure, can get no
\* transaction out of it that was not allowed or approved (Execute).
THEOREM PlanIsAuthorised == PlanSpec => []Authorised
BY PlanInvariant, PTL DEF WalletInv

\* The plan executor has no way to the wallet but its calls: what any stage does to the
\* wallet is to begin a call or to take its result (WalletExecutor.Execute).
THEOREM PlanOnlyCallsTheWallet ==
  PlanSpec => Init /\ [][Next \/ \E t \in Turns : CallsWallet(t)]_vars
<1>1. GoalInv /\ [PlanNext]_allVars => [Next \/ \E t \in Turns : CallsWallet(t)]_vars
  BY PlanIsStep DEF Step
<1>2. PlanInit => Init
  BY DEF PlanInit
<1> QED BY <1>1, <1>2, PlanInvariant, PTL DEF PlanSpec
-----------------------------------------------------------------------------
(* The calls of a turn: each sends at most once, and says so when it did.  *)

CallTypes == ops \in [Turns -> Nat] /\ DOMAIN ret = Turns

Unsent == {"new", "execute", "owner", "approved", "prepare", "price", "send"}

CallInv(t) ==
  /\ \A x \in sent : x.turn = t => x.call \in Nat /\ x.call <= ops[t]
  /\ pc[t] \in Unsent \/ (pc[t] = "ready" /\ ops[t] = 0) =>
       \A x \in sent : x.turn = t => x.call # ops[t]
  /\ pc[t] = "returned" /\ ret[t] # "sent" =>
       \A x \in sent : x.turn = t /\ x.call = ops[t] => ~x.answered
  /\ held[t] = Nil /\ pc[t] \in {"execute", "prepare", "price", "send", "record", "returned"} =>
       ops[t] > 0

\* Only Execute counts a call, and a step of a turn leaves the others' calls alone.
LEMMA CallFrame ==
  ASSUME Shape, CallTypes, NEW t \in Turns,
         \/ Private(t) \/ Sends(t) \/ PolicyAsks(t) \/ ApproveOwned(t)
         \/ \E id \in ApprovalIds : ApproveUnknown(t, id)
  PROVE  /\ CallTypes'
         /\ ops'[t] = IF CallsWallet(t) THEN ops[t] + 1 ELSE ops[t]
         /\ \A u \in Turns \ {t} : ops'[u] = ops[u] /\ ret'[u] = ret[u]
<1> USE DEF CallTypes
<1>1. CASE CallsWallet(t)
  <2>1. ops' = [ops EXCEPT ![t] = ops[t] + 1] /\ UNCHANGED ret BY <1>1 DEF CallsWallet, Execute
  <2>2. ops[t] + 1 \in Nat OBVIOUS
  <2> QED BY <1>1, <2>1, <2>2
<1>2. CASE TurnTakesResult(t)
  <2>1. pc[t] = "returned" BY <1>2 DEF TurnTakesResult, Goto
  <2> QED BY <1>2, <2>1 DEF TurnTakesResult, Forget, CallsWallet, Execute, Goto
<1>3. CASE \/ ExecuteFails(t) \/ PolicyDenies(t) \/ ApproveForeign(t) \/ PrepareFails(t) \/ SendRefused(t)
           \/ Record(t) \/ PolicyAsks(t) \/ \E id \in ApprovalIds : ApproveUnknown(t, id)
  <2>1. UNCHANGED ops /\ \E r : ret' = [ret EXCEPT ![t] = r]
    BY <1>3 DEF ExecuteFails, PolicyDenies, ApproveForeign, PrepareFails, SendRefused, Record,
         PolicyAsks, ApproveUnknown, Returns
  <2> QED BY <2>1 DEF CallsWallet, Execute
<1>4. CASE Sends(t)
  <2>1. UNCHANGED ops /\ (UNCHANGED ret \/ \E r : ret' = [ret EXCEPT ![t] = r])
    BY <1>4 DEF Sends, SendAccepted, SendUnanswered, Returns
  <2> QED BY <2>1 DEF CallsWallet, Execute
<1>5. CASE \/ TurnStarts(t) \/ TurnEnds(t) \/ PolicyAllows(t) \/ ReadNonce(t) \/ Sign(t) \/ ApproveOwned(t)
           \/ \E id \in ApprovalIds : ApproveFound(t, id)
  <2>1. UNCHANGED <<ops, ret>>
    BY <1>5 DEF TurnStarts, TurnEnds, PolicyAllows, ReadNonce, Sign, ApproveOwned, ApproveFound
  <2> QED BY <2>1 DEF CallsWallet, Execute
<1> QED BY <1>1, <1>2, <1>3, <1>4, <1>5 DEF Private

\* Of the calls of a turn only the running one can send.
LEMMA CallStep ==
  ASSUME WalletInv, CallTypes, \A t \in Turns : CallInv(t), Step
  PROVE  CallTypes' /\ \A t \in Turns : CallInv(t)'
<1> USE DEF WalletInv, CallInv, Unsent
<1>1. ASSUME NEW t \in Turns, Private(t) PROVE CallTypes' /\ \A u \in Turns : CallInv(u)'
  <2>1. /\ UNCHANGED sent
        /\ \A u \in Turns \ {t} : pc'[u] = pc[u] /\ held'[u] = held[u]
    BY <1>1, PrivateFrame
  <2>2. /\ CallTypes'
        /\ ops'[t] = IF CallsWallet(t) THEN ops[t] + 1 ELSE ops[t]
        /\ \A u \in Turns \ {t} : ops'[u] = ops[u] /\ ret'[u] = ret[u]
    BY <1>1, CallFrame
  <2>3. \A u \in Turns \ {t} : CallInv(u)' BY <2>1, <2>2
  <2>4. CallInv(t)'
    <3> USE <2>1, <2>2 DEF Shape, CallTypes, Goto, Returns
    <3>1. CASE CallsWallet(t)
      <4>1. pc'[t] = "execute" /\ ops'[t] = ops[t] + 1 /\ ops[t] \in Nat
        BY <3>1 DEF CallsWallet, Execute
      <4>2. \A x \in sent : x.turn = t => x.call \in Nat /\ x.call < ops'[t]
        BY <4>1
      <4> QED BY <4>1, <4>2
    <3>2. CASE ~CallsWallet(t) /\ TurnTakesResult(t) BY <3>2 DEF TurnTakesResult
    <3>3. CASE ~CallsWallet(t) /\ (TurnStarts(t) \/ TurnEnds(t) \/ PolicyAllows(t))
      BY <3>3 DEF TurnStarts, TurnEnds, PolicyAllows
    <3>4. CASE ~CallsWallet(t) /\ (ExecuteFails(t) \/ PolicyDenies(t))
      BY <3>4 DEF ExecuteFails, PolicyDenies, HoldInv
    <3>5. CASE ~CallsWallet(t) /\ \E id \in ApprovalIds : ApproveFound(t, id)
      <4>1. held'[t] # Nil
        BY <3>5, WalletAssumption DEF ApproveFound, ApprovalIds
      <4> QED BY <3>5, <4>1 DEF ApproveFound
    <3>6. CASE ~CallsWallet(t) /\ (ApproveForeign(t) \/ PrepareFails(t) \/ SendRefused(t))
      BY <3>6 DEF ApproveForeign, PrepareFails, SendRefused, HoldInv
    <3>7. CASE ~CallsWallet(t) /\ (ReadNonce(t) \/ Sign(t))
      BY <3>7 DEF ReadNonce, Sign, HoldInv
    <3>8. CASE ~CallsWallet(t) /\ Record(t) BY <3>8 DEF Record
    <3> QED BY <1>1, <3>1, <3>2, <3>3, <3>4, <3>5, <3>6, <3>7, <3>8 DEF Private
  <2> QED BY <2>2, <2>3, <2>4
<1>2. ASSUME NEW t \in Turns, Sends(t) PROVE CallTypes' /\ \A u \in Turns : CallInv(u)'
  <2>1. PICK y : /\ sent' = sent \cup {y} /\ y.turn = t /\ y.call = ops[t]
                 /\ UNCHANGED ops
                 /\ pc[t] = "send" /\ \A u \in Turns \ {t} : pc'[u] = pc[u]
                 /\ \/ y.answered /\ pc'[t] = "record"
                    \/ ~y.answered /\ pc'[t] = "returned" /\ ret' = [ret EXCEPT ![t] = "error"]
    BY <1>2, Acceptance
  <2>2. CallTypes' /\ \A u \in Turns \ {t} : ret'[u] = ret[u] BY <1>2, CallFrame
  <2>3. UNCHANGED held BY <1>2 DEF Sends, SendAccepted, SendUnanswered
  <2>4. \A u \in Turns \ {t} : CallInv(u)' BY <2>1, <2>2, <2>3
  <2>5. CallInv(t)' BY <2>1, <2>2, <2>3 DEF CallTypes
  <2> QED BY <2>2, <2>4, <2>5
<1>3. ASSUME NEW t \in Turns,
             PolicyAsks(t) \/ ApproveOwned(t) \/ \E id \in ApprovalIds : ApproveUnknown(t, id)
      PROVE  CallTypes' /\ \A u \in Turns : CallInv(u)'
  <2>1. /\ CallTypes' /\ UNCHANGED ops
        /\ \A u \in Turns \ {t} : ret'[u] = ret[u]
    BY <1>3, CallFrame DEF PolicyAsks, ApproveOwned, ApproveUnknown
  <2>2. UNCHANGED sent BY <1>3 DEF PolicyAsks, ApproveOwned, ApproveUnknown
  <2>3. \A u \in Turns \ {t} : pc'[u] = pc[u] /\ held'[u] = held[u] BY <1>3, SharedFrame
  <2>4. \A u \in Turns \ {t} : CallInv(u)' BY <2>1, <2>2, <2>3
  <2>5. CallInv(t)'
    <3> USE <2>1, <2>2 DEF Shape, CallTypes, Goto, Returns, HoldInv
    <3>1. CASE PolicyAsks(t) BY <3>1 DEF PolicyAsks
    <3>2. CASE ApproveOwned(t) BY <3>2 DEF ApproveOwned
    <3>3. ASSUME NEW id \in ApprovalIds, ApproveUnknown(t, id) PROVE CallInv(t)'
      <4>1. held'[t] # Nil BY <3>3, WalletAssumption DEF ApproveUnknown, ApprovalIds
      <4> QED BY <3>3, <4>1 DEF ApproveUnknown
    <3> QED BY <1>3, <3>1, <3>2, <3>3
  <2> QED BY <2>1, <2>4, <2>5
<1>4. CASE Environment
  BY <1>4 DEF Environment, NodeMines, Tick, vars, CallTypes
<1>5. CASE Restart
  <2>1. CallTypes' BY <1>5 DEF Restart, Forget, CallTypes
  <2>2. \A u \in Turns : pc'[u] \in {"new", "over"} /\ (pc'[u] = "new" => pc[u] = "new")
    BY <1>5 DEF Restart, Active, Shape
  <2>3. UNCHANGED <<ops, sent>> BY <1>5 DEF Restart
  <2> QED BY <2>1, <2>2, <2>3
<1> QED BY <1>1, <1>2, <1>3, <1>4, <1>5, NextCases

\* A step of the wallet for one turn, as far as the plans of the turns see it.
LEMMA WalletFrame ==
  ASSUME Shape, CallTypes, \A t \in Turns : ActInv(t), NEW u \in Turns,
         \/ Private(u) \/ Sends(u) \/ PolicyAsks(u) \/ ApproveOwned(u)
         \/ \E id \in ApprovalIds : ApproveUnknown(u, id)
  PROVE  /\ \A t \in Turns \ {u} : pc'[t] = pc[t] /\ ops'[t] = ops[t]
         /\ \A x \in sent' : x \in sent \/ (x.turn = u /\ x.call = ops[u] /\ pc[u] = "send")
<1>1. \A t \in Turns \ {u} : pc'[t] = pc[t] BY PrivateFrame, SharedFrame
<1>2. \A t \in Turns \ {u} : ops'[t] = ops[t] BY CallFrame
<1>3. \A x \in sent' : x \in sent \/ (x.turn = u /\ x.call = ops[u] /\ pc[u] = "send")
  <2>1. CASE Sends(u) BY <2>1, Acceptance
  <2>2. CASE Private(u) BY <2>2, PrivateFrame
  <2>3. CASE PolicyAsks(u) \/ ApproveOwned(u) \/ \E id \in ApprovalIds : ApproveUnknown(u, id)
    BY <2>3 DEF PolicyAsks, ApproveOwned, ApproveUnknown
  <2> QED BY <2>1, <2>2, <2>3
<1> QED BY <1>1, <1>2, <1>3

\* What the node acknowledged of call n of turn t.
Acknowledged(t, n) == \E x \in sent : x.turn = t /\ x.call = n /\ x.answered

LossInv(t) ==
  /\ stage[t] = "sign_send" /\ ~already[t] =>
       pc[t] \in {"ready", "over"} /\ ~Acknowledged(t, ops[t])
  /\ stage[t] = "send_result" => ~Acknowledged(t, ops[t] - 1)

PlanInv ==
  /\ WalletInv /\ GoalInv /\ CallTypes /\ DOMAIN already = Turns
  /\ \A t \in Turns : CallInv(t) /\ LossInv(t)

\* The steps of a plan that leave the wallet alone, and those that do not.
LEMMA LossExecution ==
  ASSUME PlanInv, NEW t \in Turns, Execution(t)
  PROVE  LossInv(t)' /\ DOMAIN already' = Turns
<1> USE DEF PlanInv, GoalInv, To, LossInv, Acknowledged
<1>1. CASE PlanStarts(t) \/ PolicyCheck(t) \/ Simulate(t) \/ VerifyReceipt(t) \/ ApprovalGate(t)
  BY <1>1 DEF PlanStarts, PolicyCheck, Simulate, VerifyReceipt, ApprovalGate, vars, Execute
<1>2. CASE GateResult(t)
  <2>1. /\ pc[t] = "returned" /\ pc'[t] \in {"ready", "over"} /\ UNCHANGED <<ops, sent>>
    BY <1>2 DEF GateResult, TurnTakesResult, Goto, WalletInv, Shape
  <2>2. already' = [already EXCEPT ![t] = (ret[t] = "sent")] /\ stage'[t] # "send_result"
    BY <1>2 DEF GateResult
  <2>3. already'[t] <=> ret[t] = "sent" BY <2>2
  <2>4. ret[t] # "sent" => ~Acknowledged(t, ops[t]) BY <2>1 DEF CallInv
  <2> QED BY <2>1, <2>2, <2>3, <2>4
<1>3. CASE SignSend(t)
  <2>1. CASE already[t]
    BY <1>3, <2>1 DEF SignSend
  <2>2. CASE ~already[t]
    <3>1. /\ stage[t] = "sign_send" /\ stage'[t] = "send_result"
          /\ ops' = [ops EXCEPT ![t] = ops[t] + 1] /\ UNCHANGED <<sent, already>>
      BY <1>3, <2>2 DEF SignSend, Execute
    <3>2. ops'[t] - 1 = ops[t] BY <3>1 DEF CallTypes
    <3> QED BY <2>2, <3>1, <3>2
  <2> QED BY <2>1, <2>2
<1>4. CASE SendResult(t) BY <1>4 DEF SendResult, TurnTakesResult
<1> QED BY <1>1, <1>2, <1>3, <1>4 DEF Execution

\* A plan's second call follows a first one that the node did not acknowledge.
LEMMA LossStep ==
  ASSUME PlanInv, [PlanNext]_allVars
  PROVE  (\A t \in Turns : LossInv(t)') /\ DOMAIN already' = Turns
<1> USE DEF PlanInv
<1>1. ASSUME NEW u \in Turns, Execution(u)
      PROVE  (\A t \in Turns : LossInv(t)') /\ DOMAIN already' = Turns
  <2>1. LossInv(u)' /\ DOMAIN already' = Turns BY <1>1, LossExecution
  <2>2. ASSUME NEW t \in Turns \ {u} PROVE LossInv(t)'
    <3>1. stage'[t] = stage[t] /\ already'[t] = already[t]
      BY <1>1 DEF Execution, PlanStarts, PolicyCheck, Simulate, ApprovalGate, GateResult, SignSend,
           SendResult, VerifyReceipt, To, GoalInv
    <3>2. pc'[t] = pc[t] /\ ops'[t] = ops[t] /\ UNCHANGED sent
      BY <1>1 DEF Execution, PlanStarts, PolicyCheck, Simulate, ApprovalGate, GateResult, SignSend,
           SendResult, VerifyReceipt, TurnTakesResult, Execute, Goto, vars, WalletInv, Shape, CallTypes
    <3> QED BY <3>1, <3>2 DEF LossInv, Acknowledged
  <2> QED BY <2>1, <2>2
<1>2. ASSUME NEW u \in Turns, TurnStep(u) \/ WalletStep(u)
      PROVE  (\A t \in Turns : LossInv(t)') /\ DOMAIN already' = Turns
  <2>1. UNCHANGED <<stage, already>> BY <1>2 DEF TurnStep, WalletStep, planVars
  <2>2. \/ Private(u) \/ Sends(u) \/ PolicyAsks(u) \/ ApproveOwned(u)
        \/ \E id \in ApprovalIds : ApproveUnknown(u, id)
    BY <1>2 DEF TurnStep, WalletStep, ExecuteAction, Broadcast, Approve, Private, Sends
  <2>3. /\ \A t \in Turns \ {u} : pc'[t] = pc[t] /\ ops'[t] = ops[t]
        /\ \A x \in sent' : x \in sent \/ (x.turn = u /\ x.call = ops[u] /\ pc[u] = "send")
    BY <2>2, WalletFrame DEF WalletInv
  <2>4. \A t \in Turns \ {u} : LossInv(t)' BY <2>1, <2>3 DEF LossInv, Acknowledged
  <2>5. CASE TurnStep(u)
    BY <2>1, <2>4, <2>5 DEF TurnStep, LossInv
  <2>6. CASE WalletStep(u)
    <3>1. UNCHANGED ops /\ pc[u] \notin {"ready", "over"}
      BY <2>6 DEF WalletStep, ExecuteAction, ExecuteFails, PolicyDenies, PolicyAsks, PolicyAllows,
           ApproveForeign, ApproveOwned, Broadcast, ReadNonce, Sign, PrepareFails, SendAccepted,
           SendUnanswered, SendRefused, Record, Goto, Returns
    <3>2. ops[u] - 1 # ops[u] BY DEF CallTypes
    <3> QED BY <2>1, <2>3, <2>4, <3>1, <3>2 DEF LossInv, Acknowledged
  <2> QED BY <1>2, <2>5, <2>6
<1>3. CASE PlanRestart
  BY <1>3 DEF PlanRestart, LossInv
<1>4. CASE (NodeMines \/ Tick) /\ UNCHANGED planVars
  BY <1>4 DEF NodeMines, Tick, planVars, LossInv, Acknowledged
<1>5. CASE UNCHANGED allVars
  BY <1>5 DEF allVars, vars, planVars, LossInv, Acknowledged
<1> QED BY <1>1, <1>2, <1>3, <1>4, <1>5 DEF PlanNext

\* The executor asks the wallet again only when the node's answer to the first
\* transaction was lost (the txAlreadySent flag of Execute).
THEOREM SecondSendFollowsLoss == PlanSpec => []SecondSendOnlyAfterLoss
<1>1. PlanInit => PlanInv
  <2>1. PlanInit => WalletInv /\ GoalInv BY InitInv DEF PlanInit, GoalInv, Stages
  <2>2. PlanInit => CallTypes /\ \A t \in Turns : CallInv(t)
    BY DEF PlanInit, Init, CallTypes, CallInv, Unsent
  <2>3. PlanInit => DOMAIN already = Turns /\ \A t \in Turns : LossInv(t)
    BY DEF PlanInit, LossInv
  <2> QED BY <2>1, <2>2, <2>3 DEF PlanInv
<1>2. PlanInv /\ [PlanNext]_allVars => PlanInv'
  <2> SUFFICES ASSUME PlanInv, [PlanNext]_allVars PROVE PlanInv'
    OBVIOUS
  <2>1. Step /\ GoalInv' BY PlanIsStep, GoalStep DEF PlanInv
  <2>2. WalletInv' /\ CallTypes' /\ \A t \in Turns : CallInv(t)'
    BY <2>1, InvStep, CallStep DEF PlanInv
  <2> QED BY <2>1, <2>2, LossStep DEF PlanInv
<1>3. PlanInv => SecondSendOnlyAfterLoss
  BY DEF PlanInv, LossInv, Acknowledged, SecondSendOnlyAfterLoss
<1> QED BY <1>1, <1>2, <1>3, PTL DEF PlanSpec

-----------------------------------------------------------------------------
(* What reaches the wallet (module ToolCalls).  A behaviour is one decision, *)
(* so that each theorem is a fact about one operator on every input.       *)

\* The input stays, and once the decision is made the output is its answer.
DecisionInv ==
  /\ input \in (IF decision = "policy" THEN PolicyInputs ELSE ToolInputs)
  /\ decision \in {"policy", "tools"}
  /\ Made("policy") =>
       output = Evaluate(Config(ConfiguredLimit(input.setting), input.allowed),
                         IF input.fn = "" THEN Transfer(input.value)
                         ELSE ContractCall(input.fn, input.value))
  /\ Made("tools") => output = Calls(input.env, input.request)

LEMMA DecisionInvariant == DecisionSpec => []DecisionInv
<1>1. DecisionInit => DecisionInv BY DEF DecisionInit, DecisionInv, Made
<1>2. DecisionInv /\ [DecisionNext]_decisionVars => DecisionInv'
  <2> SUFFICES ASSUME DecisionInv, [DecisionNext]_decisionVars PROVE DecisionInv' OBVIOUS
  <2>1. CASE DecisionNext /\ Evaluates
    <3>1. decision = "policy" /\ made' = TRUE /\ UNCHANGED <<decision, input>>
      BY <2>1 DEF DecisionNext, Evaluates
    <3> QED BY <2>1, <3>1 DEF DecisionInv, Evaluates, Made
  <2>2. CASE DecisionNext /\ CallsTool
    <3>1. decision = "tools" /\ made' = TRUE /\ UNCHANGED <<decision, input>>
      BY <2>2 DEF DecisionNext, CallsTool
    <3> QED BY <2>2, <3>1 DEF DecisionInv, CallsTool, Made
  <2>3. CASE UNCHANGED decisionVars BY <2>3 DEF DecisionInv, decisionVars, Made
  <2> QED BY <2>1, <2>2, <2>3 DEF DecisionNext
<1> QED BY <1>1, <1>2, PTL DEF DecisionSpec

\* The name each function's calldata gives an action.
LEMMA Annotations ==
  /\ Functions = {"approve", "transfer", "transferFrom", "increaseAllowance", "permitInts",
                  "permit", "mint", "burn", "swap", "none"}
  /\ \A fn \in {"approve", "transfer", "transferFrom", "increaseAllowance"} : AnnotateAction(fn) = fn
  /\ AnnotateAction("permitInts") = "permit"
  /\ AnnotateAction("permit") = "unknown_permit" /\ AnnotateAction("mint") = "unknown_mint"
  /\ AnnotateAction("burn") = "unknown_burn" /\ AnnotateAction("swap") = "unknown_swap"
  /\ AnnotateAction("none") = "" /\ AnnotateAction("") = ""
BY DEF Functions, AnnotateAction, KnownSelectors, UnknownSelectors

\* The order in which Engine.Evaluate looks at its rules never hides a stricter one,
\* for any limit, value, function and list of allowed methods, with the exceptions that
\* Ineffective names.
THEOREM PolicyIsStrict == DecisionSpec => []StrictestRuleWins
<1>1. DecisionInv => StrictestRuleWins
  <2> SUFFICES ASSUME DecisionInv, Made("policy") PROVE StrictestRuleWins
    BY DEF StrictestRuleWins
  <2> DEFINE limit == ConfiguredLimit(input.setting)
             a == IF input.fn = "" THEN Transfer(input.value) ELSE ContractCall(input.fn, input.value)
             cfg == Config(limit, input.allowed)
             method == AnnotateAction(input.fn)
  <2>1. input \in PolicyInputs /\ output = Evaluate(cfg, a) BY DEF DecisionInv, Made
  <2>0. input.fn \in Functions \cup {""} BY <2>1 DEF PolicyInputs
  <2>2. limit \in Int /\ input.value \in Int
    <3>1. input.setting \in Settings /\ input.value \in Values BY <2>1 DEF PolicyInputs
    <3>2. \A v \in Values : v \in Int BY MaxValueAssumption DEF Values
    <3>3. input.setting.text = "number" => input.setting.n \in Values BY <3>1 DEF Settings
    <3>4. limit = input.setting.n \/ limit = 0 BY DEF ConfiguredLimit
    <3>5. input.setting.text # "number" => limit = 0 BY DEF ConfiguredLimit
    <3> HIDE DEF limit
    <3> QED BY <3>1, <3>2, <3>3, <3>4, <3>5
  <2>3. /\ a.method = method /\ a.value = input.value
        /\ a.type = IF input.fn = "" THEN "transfer" ELSE "contract_call"
    <3>1. input.fn = "" => method = "" BY Annotations
    <3> QED BY <3>1 DEF Transfer, ContractCall
  <2>4. /\ cfg.limit = limit /\ cfg.allowed = input.allowed
        /\ cfg.blocked = {"approve", "increaseAllowance", "permit"}
        /\ cfg.required = {"transfer", "transferFrom", "mint", "burn"}
    BY DEF Config
  <2> DEFINE holds(rule) == Says(rule, input) /\ ~Ineffective(rule, input)
  <2>5. /\ holds("blocked") <=> method \in cfg.blocked
        /\ holds("required") <=> method \in cfg.required
    <3>1. holds("blocked") <=> Name(input.fn) \in cfg.blocked /\ input.fn \notin {"permit", "mint", "burn"}
      BY DEF Says, Ineffective
    <3>2. holds("required") <=> Name(input.fn) \in cfg.required /\ input.fn \notin {"permit", "mint", "burn"}
      BY DEF Says, Ineffective
    <3> HIDE DEF holds, cfg
    <3> QED BY <2>0, <2>4, <3>1, <3>2, Annotations DEF Name
  <2>6. holds("limit") <=> limit > 0 /\ input.value > limit
    <3>1. holds("limit") <=> input.value > cfg.limit /\ ~(limit <= 0) BY DEF Says, Ineffective
    <3> HIDE DEF holds, cfg, limit
    <3> QED BY <2>2, <2>4, <3>1
  <2>7. holds("allowlist") => cfg.allowed # {} /\ a.type = "contract_call" /\ method \notin cfg.allowed
    BY <2>3, <2>4 DEF Says
  <2>8. /\ DOMAIN Answer = {"blocked", "allowlist", "required", "limit"}
        /\ Answer["blocked"] = "deny" /\ Answer["allowlist"] = "deny"
        /\ Answer["required"] = "require_approval" /\ Answer["limit"] = "require_approval"
    BY DEF Answer
  <2>9. Strictness["allow"] = 0 /\ Strictness["require_approval"] = 1 /\ Strictness["deny"] = 2
    BY DEF Strictness
  <2> HIDE DEF limit, a, cfg, method, holds
  <2>10. holds("limit") => OverLimit(cfg, a) /\ a.value > 0
    <3>1. limit > 0 /\ input.value > limit => input.value > 0 BY <2>2
    <3> QED BY <2>3, <2>4, <2>6, <3>1 DEF OverLimit
  <2>11. OverLimit(cfg, a) => holds("limit") BY <2>3, <2>4, <2>6 DEF OverLimit
  <2>12. output \in {"allow", "require_approval", "deny"} BY <2>1 DEF Evaluate
  <2>13. holds("blocked") \/ holds("allowlist") => output = "deny"
    BY <2>1, <2>3, <2>5, <2>7 DEF Evaluate
  <2>14. holds("required") => output # "allow" BY <2>1, <2>3, <2>5 DEF Evaluate
  <2>15. holds("limit") => output # "allow" BY <2>1, <2>10 DEF Evaluate
  <2>16. input.allowed = {} /\ output = "deny" => holds("blocked") BY <2>1, <2>3, <2>4, <2>5 DEF Evaluate
  <2>17. output = "require_approval" => holds("required") \/ holds("limit")
    BY <2>1, <2>3, <2>5, <2>11 DEF Evaluate
  <2> DEFINE applicable == {rule \in DOMAIN Answer : Says(rule, input) /\ ~Ineffective(rule, input)}
  <2>18. \A rule \in DOMAIN Answer : rule \in applicable <=> holds(rule) BY DEF holds
  <2> HIDE DEF applicable
  <2>19. ASSUME NEW rule \in applicable PROVE Strictness[Answer[rule]] <= Strictness[output]
    <3>1. rule \in DOMAIN Answer /\ holds(rule) BY <2>18, <2>19 DEF applicable
    <3>2. CASE rule \in {"blocked", "allowlist"} BY <2>8, <2>9, <2>13, <3>1, <3>2
    <3>3. CASE rule \in {"required", "limit"} BY <2>8, <2>9, <2>12, <2>14, <2>15, <3>1, <3>3
    <3> QED BY <2>8, <3>1, <3>2, <3>3
  <2>20. input.allowed = {} /\ output # "allow" => \E rule \in applicable : Answer[rule] = output
    BY <2>8, <2>12, <2>16, <2>17, <2>18
  <2> QED BY <2>19, <2>20 DEF StrictestRuleWins, applicable
<1> QED BY <1>1, DecisionInvariant, PTL

\* What an amount is read as: one of those that stand for it; a string as itself.
LEMMA Reading ==
  ASSUME NEW r, r.amount.n \in Int, r.amount.form \in {"string", "number"}
  PROVE  /\ Parsed(r.amount) \subseteq StandFor(r.amount)
         /\ Parsed(r.amount) \subseteq Int
         /\ r.amount.form = "string" => Parsed(r.amount) = {r.amount.n}
         /\ \E n \in Parsed(r.amount) : n >= r.amount.n
<1> DEFINE m == r.amount.n
<1>1. r.amount.form = "string" => Parsed(r.amount) = {m} /\ StandFor(r.amount) = {m}
  BY DEF Parsed, StandFor
<1>2. CASE r.amount.form = "string" BY <1>1, <1>2
<1>3. CASE r.amount.form = "number"
  <2>1. Parsed(r.amount) = AsFloat(m) BY <1>3 DEF Parsed
  <2>2. StandFor(r.amount) = IF m > Exact THEN (m - 1)..(m + 1) ELSE {m} BY <1>3 DEF StandFor
  <2>3. Exact \in Int BY ExactAssumption
  <2> HIDE DEF m
  <2>4. m \in Int BY DEF m
  <2>5. CASE m <= Exact
    <3>1. AsFloat(m) = {m} BY <2>5 DEF AsFloat
    <3> QED BY <1>3, <2>1, <2>2, <2>3, <2>4, <2>5, <3>1 DEF m
  <2>6. CASE m > Exact /\ m % 2 = 0
    <3>1. AsFloat(m) = {m} BY <2>6 DEF AsFloat
    <3>2. m \in (m - 1)..(m + 1) BY <2>4
    <3> QED BY <1>3, <2>1, <2>2, <2>4, <2>6, <3>1, <3>2 DEF m
  <2>7. CASE m > Exact /\ m % 2 # 0
    <3>1. ~(m <= Exact) BY <2>3, <2>4, <2>7
    <3>2. AsFloat(m) = {m - 1, m + 1} BY <2>7, <3>1 DEF AsFloat
    <3>3. /\ m - 1 \in (m - 1)..(m + 1) /\ m + 1 \in (m - 1)..(m + 1)
          /\ m - 1 \in Int /\ m + 1 \in Int /\ m + 1 >= m
      BY <2>4
    <3> QED BY <1>3, <2>1, <2>2, <2>7, <3>2, <3>3 DEF m
  <2> QED BY <2>3, <2>4, <2>5, <2>6, <2>7
<1> QED BY <1>2, <1>3

\* What a well-formed tool call of a token, a transfer or a contract makes of the
\* request is what it asks for, whether or not it goes through the pipeline.
THEOREM RequestIsHonoured == DecisionSpec => []CallAsAsked
<1>1. DecisionInv => CallAsAsked
  <2> DEFINE env == input.env
             r == input.request
             reg == Registry(env)
             cid == AskedChain(env, r)
             id == ParseChainID(r.chain)
             asks(n) == IF cid \in reg.chains THEN {Asked(env, r, n)} ELSE {}
  <2> SUFFICES ASSUME DecisionInv, Made("tools"), WellFormed(r), env.wallet
               PROVE  /\ output \subseteq {Asked(env, r, n) : n \in StandFor(r.amount)}
                      /\ output = {} <=> cid \notin reg.chains \/ Prevented(env, r)
    BY DEF CallAsAsked
  <2>1. input \in ToolInputs /\ output = Calls(env, r) BY DEF DecisionInv, Made
  <2>2. /\ r.tool \in Tools /\ r.amount.n \in Int /\ r.chain.n \in Int
        /\ env.list \in Seq(Nat \ {0}) /\ env.single \in Nat /\ env.default \in Nat
    BY <2>1, ToolCallsAssumption, MaxValueAssumption DEF ToolInputs, Values
  <2>3. reg.default \in Nat /\ 0 \notin reg.chains
    <3>1. CASE env.list = <<>> BY <2>2, <3>1 DEF Registry
    <3>2. CASE env.list # <<>>
      <4>1. \A i \in DOMAIN env.list : env.list[i] \in Nat \ {0} BY <2>2
      <4>2. 1 \in DOMAIN env.list BY <2>2, <3>2
      <4> QED BY <2>2, <3>2, <4>1, <4>2 DEF Registry
    <3> QED BY <3>1, <3>2
  <2>4. /\ r.to = "0x" /\ r.amount.form \in {"string", "number"}
        /\ (r.chain.form = "absent" \/ (r.chain.form \in {"number", "digits"} /\ r.chain.n > 0))
        /\ (r.tool = "contract_call" => r.data = "0x" /\ r.fn # "none")
        /\ (r.tool = "erc20_transfer" => r.party = "0x" /\ r.amount.n > 0)
        /\ (r.tool = "erc20_approve" => r.party = "0x" /\ r.amount.n >= 0)
    BY DEF WellFormed
  <2>5. cid = (IF r.chain.form = "absent" THEN reg.default ELSE r.chain.n)
    BY DEF AskedChain
  <2>6. Resolve(reg, id) = IF cid \in reg.chains THEN cid ELSE 0
    <3> HIDE DEF r, env, reg, cid
    <3> QED BY <2>2, <2>3, <2>4, <2>5 DEF Resolve, ParseChainID
  <2>7. \A action, data :
          Call(reg, id, "to", action, data) =
            IF cid \in reg.chains
            THEN {[chain |-> cid, to |-> "to", action |-> action, data |-> data]} ELSE {}
    <3> HIDE DEF reg, cid, id
    <3> QED BY <2>3, <2>6 DEF Call, Refused
  <2>8. /\ Parsed(r.amount) \subseteq StandFor(r.amount) /\ Parsed(r.amount) \subseteq Int
        /\ r.amount.form = "string" => Parsed(r.amount) = {r.amount.n}
        /\ \E n \in Parsed(r.amount) : n >= r.amount.n
    <3> HIDE DEF r
    <3> QED BY <2>2, <2>4, Reading
  <2>9. /\ Address("to", r.to) = "to" /\ IsHexAddress(Trimmed(r.to))
        /\ Address("to", Trimmed(r.to)) = "to"
    BY <2>4 DEF Address, IsHexAddress, Trimmed
  <2>10. \A n : asks(n) =
           CASE r.tool = "transfer" -> Call(reg, id, "to", Transfer(n), NoData)
             [] r.tool = "erc20_transfer" ->
                  Call(reg, id, "to", ContractCall("transfer", 0), TokenData("transfer", n))
             [] r.tool = "erc20_approve" ->
                  Call(reg, id, "to", ContractCall("approve", 0), TokenData("approve", n))
             [] r.tool = "contract_call" ->
                  Call(reg, id, "to", ContractCall(r.fn, n), GivenData(r.fn))
    <3> SUFFICES ASSUME NEW n PROVE asks(n) =
           CASE r.tool = "transfer" -> Call(reg, id, "to", Transfer(n), NoData)
             [] r.tool = "erc20_transfer" ->
                  Call(reg, id, "to", ContractCall("transfer", 0), TokenData("transfer", n))
             [] r.tool = "erc20_approve" ->
                  Call(reg, id, "to", ContractCall("approve", 0), TokenData("approve", n))
             [] r.tool = "contract_call" ->
                  Call(reg, id, "to", ContractCall(r.fn, n), GivenData(r.fn))
      OBVIOUS
    <3> HIDE DEF env, r, reg, id
    <3>1. r.tool = "contract_call" => GivenData(r.fn) = [fn |-> r.fn, party |-> "given", amount |-> 0]
      BY <2>4 DEF GivenData
    <3>2. CASE r.tool = "transfer" BY <2>7, <3>2 DEF Asked
    <3>3. CASE r.tool = "erc20_transfer" BY <2>7, <3>3 DEF Asked, TokenData
    <3>4. CASE r.tool = "erc20_approve" BY <2>7, <3>4 DEF Asked, TokenData
    <3>5. CASE r.tool = "contract_call" BY <2>7, <3>1, <3>5 DEF Asked
    <3> QED BY <2>2, <3>2, <3>3, <3>4, <3>5 DEF Tools
  <2> HIDE DEF env, r, reg, cid, id, asks
  <2>11. \E ns \in SUBSET StandFor(r.amount) :
           ns # {} /\ RawCalls(reg, r) = UNION {asks(n) : n \in ns}
    <3>1. CASE r.tool = "transfer"
      <4>1. RawCalls(reg, r) = UNION {asks(n) : n \in Parsed(r.amount)}
        BY <2>9, <2>10, <3>1 DEF RawCalls, id, TokenFunction
      <4> QED BY <2>8, <4>1
    <3>2. CASE r.tool \in {"erc20_transfer", "erc20_approve"}
      <4>1. TokenAmounts(r) \subseteq StandFor(r.amount) BY <2>8 DEF TokenAmounts
      <4>2. TokenAmounts(r) # {} BY <2>2, <2>4, <2>8, <3>2 DEF TokenAmounts
      <4>3. IsHexAddress(Trimmed(r.party)) BY <2>4, <3>2 DEF IsHexAddress, Trimmed
      <4>4. /\ r.tool \in DOMAIN TokenFunction /\ r.tool # "transfer" /\ r.tool # "contract_call"
            /\ TokenFunction["erc20_transfer"] = "transfer" /\ TokenFunction["erc20_approve"] = "approve"
        BY <3>2 DEF TokenFunction
      <4>5. RawCalls(reg, r) = TokenCalls(reg, id, r) BY <4>4 DEF RawCalls, id
      <4>6. TokenCalls(reg, id, r) = UNION {asks(n) : n \in TokenAmounts(r)}
        <5>1. CASE r.tool = "erc20_transfer" BY <2>9, <2>10, <4>3, <4>4, <5>1 DEF TokenCalls
        <5>2. CASE r.tool = "erc20_approve" BY <2>9, <2>10, <4>3, <4>4, <5>2 DEF TokenCalls
        <5> QED BY <3>2, <5>1, <5>2
      <4> QED BY <4>1, <4>2, <4>5, <4>6
    <3>3. CASE r.tool = "contract_call"
      <4>1. ContractValues(r.amount) = Parsed(r.amount) BY <2>4 DEF ContractValues
      <4>2. r.tool \notin DOMAIN TokenFunction BY <3>3 DEF TokenFunction
      <4>3. RawCalls(reg, r) = UNION {Call(reg, id, Address("to", r.to), ContractCall(r.fn, v), GivenData(r.fn)) :
                                        v \in ContractValues(r.amount)}
        BY <2>4, <3>3, <4>2 DEF RawCalls, id
      <4>4. RawCalls(reg, r) = UNION {asks(n) : n \in Parsed(r.amount)}
        BY <2>9, <2>10, <3>3, <4>1, <4>3
      <4> QED BY <2>8, <4>4
    <3> QED BY <2>2, <3>1, <3>2, <3>3 DEF Tools
  <2>12. ASSUME PipelineTakes(r)
         PROVE  PipelineCalls(env, r) =
                  IF Stops(env, Asked(env, r, r.amount.n).action) THEN {} ELSE asks(r.amount.n)
    <3>1. r.amount.form = "string" /\ Parsed(r.amount) = {r.amount.n}
      BY <2>4, <2>8, <2>12 DEF PipelineTakes
    <3>2. r.tool \in {"contract_call", "erc20_transfer", "erc20_approve"}
      BY <2>12 DEF PipelineTakes, TokenFunction
    <3>3. /\ ~(r.chain.form = "text" \/ (r.chain.form \in {"digits", "padded"} /\ r.chain.n <= 0))
          /\ id = IF r.chain.form = "number" THEN (IF r.chain.n > 0 THEN r.chain.n ELSE 0)
                  ELSE IF r.chain.form = "absent" THEN 0 ELSE r.chain.n
      BY <2>2, <2>4 DEF id, ParseChainID
    <3>4. CASE r.tool = "contract_call"
      <4>1. ContractValues(r.amount) = {r.amount.n} BY <3>1 DEF ContractValues
      <4>2. PipelineCalls(env, r) =
              UNION {ReachesGate(env, id, "to", ContractCall(r.fn, v), GivenData(r.fn)) : v \in {r.amount.n}}
        BY <2>9, <3>3, <3>4, <4>1 DEF PipelineCalls
      <4>3. PipelineCalls(env, r) = ReachesGate(env, id, "to", ContractCall(r.fn, r.amount.n), GivenData(r.fn))
        BY <4>2
      <4>4. Asked(env, r, r.amount.n).action = ContractCall(r.fn, r.amount.n) BY <3>4 DEF Asked
      <4> QED BY <2>10, <3>4, <4>3, <4>4 DEF ReachesGate, Refused, reg
    <3>5. CASE r.tool = "erc20_transfer"
      <4>1. TokenFunction[r.tool] = "transfer" BY <3>5 DEF TokenFunction
      <4>2. PipelineCalls(env, r) =
              UNION {ReachesGate(env, id, "to", ContractCall("transfer", 0), TokenData("transfer", n)) : n \in {r.amount.n}}
        BY <2>9, <3>1, <3>3, <3>5, <4>1 DEF PipelineCalls
      <4>3. PipelineCalls(env, r) = ReachesGate(env, id, "to", ContractCall("transfer", 0), TokenData("transfer", r.amount.n))
        BY <4>2
      <4>4. Asked(env, r, r.amount.n).action = ContractCall("transfer", 0) BY <3>5 DEF Asked
      <4> QED BY <2>10, <3>5, <4>3, <4>4 DEF ReachesGate, Refused, reg
    <3>6. CASE r.tool = "erc20_approve"
      <4>1. TokenFunction[r.tool] = "approve" BY <3>6 DEF TokenFunction
      <4>2. PipelineCalls(env, r) =
              UNION {ReachesGate(env, id, "to", ContractCall("approve", 0), TokenData("approve", n)) : n \in {r.amount.n}}
        BY <2>9, <3>1, <3>3, <3>6, <4>1 DEF PipelineCalls
      <4>3. PipelineCalls(env, r) = ReachesGate(env, id, "to", ContractCall("approve", 0), TokenData("approve", r.amount.n))
        BY <4>2
      <4>4. Asked(env, r, r.amount.n).action = ContractCall("approve", 0) BY <3>6 DEF Asked
      <4> QED BY <2>10, <3>6, <4>3, <4>4 DEF ReachesGate, Refused, reg
    <3> QED BY <3>2, <3>4, <3>5, <3>6
  <2>13. PipelineTakes(r) <=> r.tool # "transfer" /\ r.amount.form = "string"
    <3>1. DOMAIN TokenFunction = {"erc20_transfer", "erc20_approve"} BY DEF TokenFunction
    <3>2. r.amount.form = "string" => Parsed(r.amount) # {} BY <2>8
    <3>3. /\ Trimmed(r.to) = "0x"
          /\ r.tool = "contract_call" => Trimmed(r.data) = "0x"
          /\ r.tool \in DOMAIN TokenFunction => IsHexAddress(Trimmed(r.party))
      BY <2>4, <3>1 DEF Trimmed, IsHexAddress
    <3>4. r.amount.n >= 0 => r.amount.n > 0 \/ r.amount.n = 0 BY <2>2
    <3> QED BY <2>2, <2>4, <3>1, <3>2, <3>3, <3>4 DEF PipelineTakes, Tools
  <2>14. CASE Pipeline(env) /\ PipelineTakes(r)
    <3>1. output = PipelineCalls(env, r) BY <2>1, <2>14 DEF Calls
    <3>2. Prevented(env, r) <=> Stops(env, Asked(env, r, r.amount.n).action)
      BY <2>13, <2>14 DEF Prevented, Stops
    <3>3. r.amount.n \in StandFor(r.amount) BY <2>8, <2>13, <2>14
    <3> QED BY <2>12, <2>14, <3>1, <3>2, <3>3 DEF asks
  <2>15. CASE ~(Pipeline(env) /\ PipelineTakes(r))
    <3>1. output = RawCalls(reg, r) BY <2>1, <2>15 DEF Calls, reg
    <3>2. ~Prevented(env, r) BY <2>13, <2>15 DEF Prevented
    <3>3. PICK ns \in SUBSET StandFor(r.amount) : ns # {} /\ RawCalls(reg, r) = UNION {asks(n) : n \in ns}
      BY <2>11
    <3>4. CASE cid \in reg.chains
      <4>1. \A n : asks(n) = {Asked(env, r, n)} BY <3>4 DEF asks
      <4>2. output = {Asked(env, r, n) : n \in ns} BY <3>1, <3>3, <4>1
      <4> QED BY <3>2, <3>3, <3>4, <4>2
    <3>5. CASE cid \notin reg.chains
      <4>1. \A n : asks(n) = {} BY <3>5 DEF asks
      <4>2. output = {} BY <3>1, <3>3, <4>1
      <4> QED BY <3>5, <4>2
    <3> QED BY <3>4, <3>5
  <2> QED BY <2>14, <2>15
<1> QED BY <1>1, DecisionInvariant, PTL

\* The pipelines of exec_tool.go send nothing that the raw call would not, but for fields
\* they trim of blanks.
THEOREM PipelineAddsNothing == DecisionSpec => []PipelineSendsTheSame
<1>1. DecisionInv => PipelineSendsTheSame
  <2> DEFINE env == input.env
             r == input.request
             reg == Registry(env)
             id == ParseChainID(r.chain)
  <2> SUFFICES ASSUME DecisionInv, Made("tools"),
                      "padded" \notin {r.to, r.data, r.chain.form}
               PROVE  output \subseteq RawCalls(reg, r)
    BY DEF PipelineSendsTheSame
  <2>1. input \in ToolInputs /\ output = Calls(env, r) BY DEF DecisionInv, Made
  <2>2. /\ r.tool \in Tools /\ r.amount.n \in Int /\ r.chain.n \in Int
        /\ r.amount.form \in {"string", "number", "text", "absent"}
        /\ r.chain.form \in {"number", "digits", "padded", "text", "absent"}
    BY <2>1, ToolCallsAssumption, MaxValueAssumption DEF ToolInputs, Values
  <2> HIDE DEF env, r, reg, id
  <2>3. \A to, action, data : ReachesGate(env, id, to, action, data) \subseteq Call(reg, id, to, action, data)
    BY DEF ReachesGate, Refused, reg
  <2>4. ASSUME PipelineTakes(r) PROVE PipelineCalls(env, r) \subseteq RawCalls(reg, r)
    <3>1. Trimmed(r.to) = r.to /\ Trimmed(r.data) = r.data BY DEF Trimmed
    <3>2. CASE r.chain.form = "text" \/ (r.chain.form \in {"digits", "padded"} /\ r.chain.n <= 0)
      BY <3>2 DEF PipelineCalls, Refused
    <3>3. CASE ~(r.chain.form = "text" \/ (r.chain.form \in {"digits", "padded"} /\ r.chain.n <= 0))
      <4>1. id = IF r.chain.form = "number" THEN (IF r.chain.n > 0 THEN r.chain.n ELSE 0)
                 ELSE IF r.chain.form = "absent" THEN 0 ELSE r.chain.n
        BY <2>2, <3>3 DEF id, ParseChainID
      <4>2. CASE r.tool = "contract_call"
        <5>1. r.data = "0x" BY <2>4, <3>1, <4>2 DEF PipelineTakes, TokenFunction
        <5>2. r.tool \notin DOMAIN TokenFunction /\ r.tool # "transfer" BY <4>2 DEF TokenFunction
        <5>3. RawCalls(reg, r) =
                UNION {Call(reg, id, Address("to", r.to), ContractCall(r.fn, v), GivenData(r.fn)) :
                       v \in ContractValues(r.amount)}
          BY <4>2, <5>1, <5>2 DEF RawCalls, id
        <5>4. PipelineCalls(env, r) =
                UNION {ReachesGate(env, id, Address("to", r.to), ContractCall(r.fn, v), GivenData(r.fn)) :
                       v \in ContractValues(r.amount)}
          BY <3>1, <3>3, <4>1, <4>2 DEF PipelineCalls
        <5> QED BY <2>3, <5>3, <5>4
      <4>3. CASE r.tool \in DOMAIN TokenFunction
        <5>1. r.tool # "transfer" /\ r.tool # "contract_call" BY <4>3 DEF TokenFunction
        <5>2. /\ r.to = "0x" /\ IsHexAddress(Trimmed(r.party)) /\ r.amount.form # "number"
              /\ Parsed(r.amount) # {}
              /\ (r.amount.n > 0 \/ (r.tool = "erc20_approve" /\ r.amount.n = 0))
          BY <2>4, <3>1, <5>1 DEF PipelineTakes
        <5>3. Parsed(r.amount) = {r.amount.n} BY <2>2, <5>2 DEF Parsed
        <5>4. TokenAmounts(r) = Parsed(r.amount) BY <5>2, <5>3 DEF TokenAmounts
        <5>5. Address("to", r.to) = "to" /\ IsHexAddress(Trimmed(r.to))
          BY <3>1, <5>2 DEF Address, IsHexAddress
        <5> DEFINE fn == TokenFunction[r.tool]
        <5>6. RawCalls(reg, r) = TokenCalls(reg, id, r) BY <4>3, <5>1 DEF RawCalls, id
        <5>7. TokenCalls(reg, id, r) =
                UNION {Call(reg, id, "to", ContractCall(fn, 0), TokenData(fn, n)) : n \in Parsed(r.amount)}
          BY <5>2, <5>4, <5>5 DEF TokenCalls
        <5>8. PipelineCalls(env, r) =
                UNION {ReachesGate(env, id, "to", ContractCall(fn, 0), TokenData(fn, n)) : n \in Parsed(r.amount)}
          BY <3>1, <3>3, <4>1, <5>1, <5>5 DEF PipelineCalls
        <5> HIDE DEF fn
        <5> QED BY <2>3, <5>6, <5>7, <5>8
      <4> QED BY <2>4, <4>2, <4>3 DEF PipelineTakes
    <3> QED BY <3>2, <3>3
  <2> QED BY <2>1, <2>4 DEF Calls, Refused, reg
<1> QED BY <1>1, DecisionInvariant, PTL
=============================================================================
