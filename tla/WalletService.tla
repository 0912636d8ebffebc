---------------------------- MODULE WalletService ---------------------------
(***************************************************************************)
(* wallet/service.go with the approval store, the history store, the EOA   *)
(* account and the RPC node: from a tool call or an approval message to a  *)
(* broadcast transaction.                                                  *)
(*                                                                         *)
(* A turn is one run of agent.HandleMessage.  The session queue runs the   *)
(* turns of one session one after the other (module SessionQueue) and the  *)
(* turns of different sessions side by side; all share one key, one nonce  *)
(* sequence, one approval store and one history file.                      *)
(*                                                                         *)
(* The definitions Turn..., Node... describe the program around the wallet *)
(* and the RPC node.  Approval IDs are nanosecond clock readings; they are *)
(* numbered here, two readings in the same nanosecond are left out.        *)
(***************************************************************************)
EXTENDS WalletPolicy, FiniteSets, Sequences

CONSTANTS
  Turns,          \* incoming messages
  Sessions,       \* the (platform, user) pairs
  SessionOf,      \* the session of each turn
  PolicyConfig,   \* the engine's configuration
  Requests,       \* the actions the model may ask the wallet for
  GasPrices,      \* what SuggestGasPrice may answer
  MaxApprovals,   \* bound on the approvals ever requested
  MaxOps,         \* bound on the wallet calls of one turn
  TTL,            \* lifetime of an approval, in clock ticks
  MaxTime,        \* bound on the clock
  MaxMined,       \* bound on the transactions mined
  Nil

ASSUME WalletAssumption ==
  /\ SessionOf \in [Turns -> Sessions]
  /\ Requests \subseteq Actions
  /\ GasPrices \subseteq Nat /\ GasPrices # {}
  /\ MaxApprovals \in Nat /\ MaxOps \in Nat /\ TTL \in Nat /\ MaxTime \in Nat
  /\ MaxMined \in Nat
  /\ Nil \notin [id : 1..MaxApprovals, since : Nat]

ApprovalIds == 1..MaxApprovals

VARIABLES
  pc,         \* where each turn is
  ops,        \* wallet calls each turn has made
  act,        \* the action being executed
  held,       \* the approval being executed, [id, since]; Nil for a tool call
  tx,         \* the transaction being built: [nonce, price, action]
  ret,        \* the kind of result the last wallet call returned
  pending,    \* approval.Store.pending
  now,        \* the clock
  history,    \* the entries of the history file
  mempool,    \* transactions the node has accepted and not mined
  mined,      \* transactions on chain, by nonce
  asked,      \* every approval ever requested
  sent        \* every acceptance of a transaction by the node

turnVars == <<pc, ops, act, held, tx, ret>>
nodeVars == <<mempool, mined>>
vars == <<pc, ops, act, held, tx, ret, pending, now, history, mempool, mined, asked, sent>>

User(t) == SessionOf[t]

Goto(t, from, to) ==
  /\ pc[t] \in from
  /\ pc' = [pc EXCEPT ![t] = to]

\* A wallet call ends and its result goes back to the turn.
Returns(t, from, result) ==
  /\ Goto(t, from, "returned")
  /\ ret' = [ret EXCEPT ![t] = result]

Init ==
  /\ pc = [t \in Turns |-> "new"]
  /\ ops = [t \in Turns |-> 0]
  /\ act = [t \in Turns |-> Nil]
  /\ held = [t \in Turns |-> Nil]
  /\ tx = [t \in Turns |-> Nil]
  /\ ret = [t \in Turns |-> Nil]
  /\ pending = {}
  /\ now = 0
  /\ history = {}
  /\ mempool = {}
  /\ mined = <<>>
  /\ asked = {}
  /\ sent = {}

-----------------------------------------------------------------------------
(* The turn around the wallet calls.                                       *)

Active(t) == pc[t] \notin {"new", "over"}

TurnStartsUnqueued(t) ==
  /\ Goto(t, {"new"}, "ready")
  /\ UNCHANGED <<ops, act, held, tx, ret, pending, now, history, mempool, mined, asked, sent>>

\* The queue starts a turn when no other turn of its session is active.
TurnStarts(t) ==
  /\ \A u \in Turns : User(u) = User(t) => ~Active(u)
  /\ Goto(t, {"new"}, "ready")
  /\ UNCHANGED <<ops, act, held, tx, ret, pending, now, history, mempool, mined, asked, sent>>

\* ExecuteTransfer or ExecuteContractCall build the action and call ExecuteAction.
Execute(t, a) ==
  /\ Goto(t, {"ready"}, "execute")
  /\ act' = [act EXCEPT ![t] = a]
  /\ ops' = [ops EXCEPT ![t] = @ + 1]
  /\ UNCHANGED <<held, tx, ret, pending, now, history, mempool, mined, asked, sent>>

\* The LLM asks for a transaction.
ToolCall(t) == ops[t] < MaxOps /\ \E a \in Requests : Execute(t, a)

\* The variables of the wallet call go out of scope.
Forget(S) ==
  /\ act' = [t \in Turns |-> IF t \in S THEN Nil ELSE act[t]]
  /\ held' = [t \in Turns |-> IF t \in S THEN Nil ELSE held[t]]
  /\ tx' = [t \in Turns |-> IF t \in S THEN Nil ELSE tx[t]]
  /\ ret' = [t \in Turns |-> IF t \in S THEN Nil ELSE ret[t]]

\* The result becomes the reply of an approval message, which ends the turn,
\* or a tool message for the LLM.
TurnTakesResult(t) ==
  /\ Goto(t, {"returned"}, IF held[t] # Nil THEN "over" ELSE "ready")
  /\ Forget({t})
  /\ UNCHANGED <<ops, pending, now, history, mempool, mined, asked, sent>>

TurnEnds(t) ==
  /\ Goto(t, {"ready"}, "over")
  /\ UNCHANGED <<ops, act, held, tx, ret, pending, now, history, mempool, mined, asked, sent>>

-----------------------------------------------------------------------------
(* ExecuteAction: policy, approval request.                                *)

\* The chain is not configured, its provider cannot be built, or the amount
\* does not parse: nothing has happened yet.
ExecuteFails(t) ==
  /\ Returns(t, {"execute", "approved"}, "error")
  /\ UNCHANGED <<ops, act, held, tx, pending, now, history, mempool, mined, asked, sent>>

PolicyDenies(t) ==
  /\ pc[t] = "execute" /\ Evaluate(PolicyConfig, act[t]) = "deny"
  /\ Returns(t, {"execute"}, "denied")
  /\ UNCHANGED <<ops, act, held, tx, pending, now, history, mempool, mined, asked, sent>>

\* The clock never repeats a reading: IDs are given out in increasing order.
NextId(id) ==
  /\ \A p \in asked : p.id # id
  /\ \A j \in ApprovalIds : j < id => \E p \in asked : p.id = j

\* approval.Store.Add, then the notification, whose error is ignored.
PolicyAsks(t) ==
  /\ pc[t] = "execute" /\ Evaluate(PolicyConfig, act[t]) = "require_approval"
  /\ Returns(t, {"execute"}, "asked")
  /\ \E id \in ApprovalIds :
       LET p == [id |-> id, action |-> act[t], user |-> User(t), expires |-> now + TTL]
       IN  /\ NextId(id)
           /\ pending' = pending \cup {p}
           /\ asked' = asked \cup {p}
  /\ UNCHANGED <<ops, act, held, tx, now, history, mempool, mined, sent>>

PolicyAllows(t) ==
  /\ pc[t] = "execute" /\ Evaluate(PolicyConfig, act[t]) = "allow"
  /\ Goto(t, {"execute"}, "prepare")
  /\ UNCHANGED <<ops, act, held, tx, ret, pending, now, history, mempool, mined, asked, sent>>

-----------------------------------------------------------------------------
(* ExecuteApproved: the message "approve: <id>" executes a pending action. *)

Entry(id) == {p \in pending : p.id = id}

\* approval.Store.Get: an unknown ID, or one whose time is over and which is
\* dropped now, ends the call.
ApproveUnknown(t, id) ==
  /\ ops[t] = 0
  /\ \A p \in Entry(id) : now > p.expires
  /\ Returns(t, {"ready"}, "error")
  /\ pending' = pending \ Entry(id)
  /\ held' = [held EXCEPT ![t] = [id |-> id, since |-> now]]
  /\ UNCHANGED <<ops, act, tx, now, history, mempool, mined, asked, sent>>

ApproveFoundExpired(t, id) ==
  /\ ops[t] = 0
  /\ \E p \in Entry(id) : act' = [act EXCEPT ![t] = p.action]
  /\ Goto(t, {"ready"}, "owner")
  /\ held' = [held EXCEPT ![t] = [id |-> id, since |-> now]]
  /\ UNCHANGED <<ops, tx, ret, pending, now, history, mempool, mined, asked, sent>>

ApproveFound(t, id) ==
  /\ ops[t] = 0
  /\ \E p \in Entry(id) : now <= p.expires /\ act' = [act EXCEPT ![t] = p.action]
  /\ Goto(t, {"ready"}, "owner")
  /\ held' = [held EXCEPT ![t] = [id |-> id, since |-> now]]
  /\ UNCHANGED <<ops, tx, ret, pending, now, history, mempool, mined, asked, sent>>

Approve(t, id) == ApproveUnknown(t, id) \/ ApproveFound(t, id)

\* Get returned a pointer to the entry: the store may have dropped the entry
\* since, and its fields are still those of the request.
OwnedBy(t) == \E p \in asked : p.id = held[t].id /\ p.user = User(t)

ApproveForeign(t) ==
  /\ pc[t] = "owner" /\ ~OwnedBy(t)
  /\ Returns(t, {"owner"}, "error")
  /\ UNCHANGED <<ops, act, held, tx, pending, now, history, mempool, mined, asked, sent>>

ApproveOwnedKept(t) ==
  /\ pc[t] = "owner" /\ OwnedBy(t)
  /\ Goto(t, {"owner"}, "approved")
  /\ UNCHANGED <<ops, act, held, tx, ret, pending, now, history, mempool, mined, asked, sent>>

\* approval.Store.Remove: the approval is used up before anything is sent.
ApproveOwned(t) ==
  /\ pc[t] = "owner" /\ OwnedBy(t)
  /\ Goto(t, {"owner"}, "approved")
  /\ pending' = pending \ Entry(held[t].id)
  /\ UNCHANGED <<ops, act, held, tx, ret, now, history, mempool, mined, asked, sent>>

-----------------------------------------------------------------------------
(* PrepareExecution, SendRawTransaction and history.Add.                   *)

\* PendingNonceAt: the first nonce neither mined nor taken in the mempool.
Taken(n) == \E x \in mempool : x.nonce = n

IsPendingNonce(n) == ~Taken(n) /\ \A m \in Len(mined)..(n - 1) : Taken(m)

ReadNonce(t) ==
  /\ Goto(t, {"prepare", "approved"}, "price")
  /\ \E n \in Len(mined)..(Len(mined) + Cardinality(mempool)) :
       /\ IsPendingNonce(n)
       /\ tx' = [tx EXCEPT ![t] = [nonce |-> n, price |-> 0, action |-> act[t]]]
  /\ UNCHANGED <<ops, act, held, ret, pending, now, history, mempool, mined, asked, sent>>

\* SuggestGasPrice and the signature.
Sign(t) ==
  /\ Goto(t, {"price"}, "send")
  /\ \E g \in GasPrices : tx' = [tx EXCEPT ![t].price = g]
  /\ UNCHANGED <<ops, act, held, ret, pending, now, history, mempool, mined, asked, sent>>

PrepareFails(t) ==
  /\ Returns(t, {"prepare", "price"}, "error")
  /\ UNCHANGED <<ops, act, held, tx, pending, now, history, mempool, mined, asked, sent>>

\* The node takes a transaction for a free nonce, or one that outbids the
\* transaction it replaces.
Rivals(x) == {y \in mempool : y.nonce = x.nonce}

NodeAccepts(t, answered) ==
  /\ tx[t].nonce >= Len(mined)
  /\ \A y \in Rivals(tx[t]) : y.price < tx[t].price
  /\ mempool' = (mempool \ Rivals(tx[t])) \cup {tx[t]}
  /\ sent' = sent \cup {[tx |-> tx[t], turn |-> t, call |-> ops[t], approval |-> held[t],
                         displaced |-> Rivals(tx[t]), answered |-> answered]}
  /\ UNCHANGED mined

SendAccepted(t) ==
  /\ Goto(t, {"send"}, "record")
  /\ NodeAccepts(t, TRUE)
  /\ UNCHANGED <<ops, act, held, tx, ret, pending, now, history, asked>>

\* The node took the transaction and its answer never came back.
SendUnanswered(t) ==
  /\ Returns(t, {"send"}, "error")
  /\ NodeAccepts(t, FALSE)
  /\ UNCHANGED <<ops, act, held, tx, pending, now, history, asked>>

\* The node was not reached, or refused: nonce too low, underpriced, known.
SendRefused(t) ==
  /\ Returns(t, {"send"}, "error")
  /\ UNCHANGED <<ops, act, held, tx, pending, now, history, mempool, mined, asked, sent>>

RecordUnchecked(t) ==
  /\ Returns(t, {"record", "send"}, "sent")
  /\ history' = history \cup {[tx |-> tx[t], user |-> User(t), approval |-> held[t]]}
  /\ UNCHANGED <<ops, act, held, tx, pending, now, mempool, mined, asked, sent>>

\* history.Add; a failure to write is logged and the call still succeeds.
Record(t) ==
  /\ Returns(t, {"record"}, "sent")
  /\ \/ history' = history \cup {[tx |-> tx[t], user |-> User(t), approval |-> held[t]]}
     \/ UNCHANGED history
  /\ UNCHANGED <<ops, act, held, tx, pending, now, mempool, mined, asked, sent>>

-----------------------------------------------------------------------------
(* The node, the clock and the process.                                    *)

NodeMines ==
  /\ Len(mined) < MaxMined
  /\ \E x \in mempool : /\ x.nonce = Len(mined)
                        /\ mined' = Append(mined, x)
                        /\ mempool' = mempool \ {x}
  /\ UNCHANGED <<pc, ops, act, held, tx, ret, pending, now, history, asked, sent>>

Tick ==
  /\ now < MaxTime
  /\ now' = now + 1
  /\ UNCHANGED <<pc, ops, act, held, tx, ret, pending, history, mempool, mined, asked, sent>>

\* main returns on SIGINT without waiting for turns, and starts again with an
\* empty approval store: Store.save is never called and nothing loads it.
Restart ==
  /\ pc' = [t \in Turns |-> IF Active(t) THEN "over" ELSE pc[t]]
  /\ pending' = {}
  /\ Forget(Turns)
  /\ UNCHANGED <<ops, now, history, mempool, mined, asked, sent>>

-----------------------------------------------------------------------------
ExecuteAction(t) ==
  ExecuteFails(t) \/ PolicyDenies(t) \/ PolicyAsks(t) \/ PolicyAllows(t)

ExecuteApproved(t) ==
  (\E id \in ApprovalIds : Approve(t, id)) \/ ApproveForeign(t) \/ ApproveOwned(t)

Broadcast(t) ==
  ReadNonce(t) \/ Sign(t) \/ PrepareFails(t)
  \/ SendAccepted(t) \/ SendUnanswered(t) \/ SendRefused(t) \/ Record(t)

Turn(t) == TurnStarts(t) \/ ToolCall(t) \/ TurnTakesResult(t) \/ TurnEnds(t)

Next ==
  \/ \E t \in Turns : Turn(t) \/ ExecuteAction(t) \/ ExecuteApproved(t) \/ Broadcast(t)
  \/ NodeMines \/ Tick \/ Restart

Spec == Init /\ [][Next]_vars
-----------------------------------------------------------------------------
PCs == {"new", "ready", "execute", "owner", "approved", "prepare", "price", "send",
        "record", "returned", "over"}
RetKinds == {"error", "denied", "asked", "sent"}

Approvals == [id : ApprovalIds, action : Requests, user : Sessions, expires : Nat]
Holds == [id : ApprovalIds, since : Nat]
Txs == [nonce : Nat, price : Nat, action : Requests]

TypeOK ==
  /\ pc \in [Turns -> PCs]
  /\ ops \in [Turns -> Nat]
  /\ act \in [Turns -> Requests \cup {Nil}]
  /\ held \in [Turns -> Holds \cup {Nil}]
  /\ tx \in [Turns -> Txs \cup {Nil}]
  /\ ret \in [Turns -> RetKinds \cup {Nil}]
  /\ pending \subseteq asked /\ asked \subseteq Approvals
  /\ now \in Nat
  /\ history \subseteq [tx : Txs, user : Sessions, approval : Holds \cup {Nil}]
  /\ mempool \subseteq Txs /\ mined \in Seq(Txs)

-----------------------------------------------------------------------------
(* Safety.                                                                 *)

\* One approval, one transaction: however often the user repeats the message,
\* whatever fails and whenever the process restarts.  The code has no lock
\* around Get and Remove in ExecuteApproved; it is the session queue that keeps
\* two messages of the owner apart.
ApprovedOnce ==
  \A x, y \in sent : x.approval # Nil /\ y.approval # Nil /\ x.approval.id = y.approval.id
                       => x = y

\* Nothing reaches the node that the policy did not allow, unless the user it
\* was requested for approved that very action before it expired (wallet.md:
\* "Do not execute the transaction until they approve").
Authorised ==
  \A x \in sent :
    \/ x.approval = Nil /\ Evaluate(PolicyConfig, x.tx.action) = "allow"
    \/ /\ x.approval # Nil
       /\ \E p \in asked : /\ p.id = x.approval.id /\ p.action = x.tx.action
                           /\ p.user = User(x.turn) /\ x.approval.since <= p.expires

\* A session never replaces its own transaction in the mempool, although the
\* nonce is read, and the fee chosen, well before the transaction is sent.
\* Two sessions can: they may read the same pending nonce.
NoSelfReplacement ==
  \A x, y \in sent : y.tx \in x.displaced => User(x.turn) # User(y.turn)

\* The history file only lists transactions the node accepted, for the user and
\* the approval they were sent for, across restarts.
HistoryTruthful ==
  \A e \in history : \E x \in sent :
    x.tx = e.tx /\ User(x.turn) = e.user /\ x.approval = e.approval
=============================================================================
