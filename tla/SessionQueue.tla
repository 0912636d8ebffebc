---------------------------- MODULE SessionQueue ----------------------------
(***************************************************************************)
(* sessionqueue/queue.go: turns of one session run one at a time, turns of *)
(* different sessions run concurrently.                                    *)
(*                                                                         *)
(* Every element of Calls is one invocation of Queue.Process, running in   *)
(* the goroutine of the gateway that received the message.  A worker is    *)
(* named after the call that created it, so the worker of call w has its   *)
(* jobs channel in jobs[w] and its loop state in cur[w] and result[w].     *)
(*                                                                         *)
(* A buffered Go channel of capacity jobBufferSize is one sequence: its    *)
(* first jobBufferSize elements are in the buffer, the others belong to    *)
(* senders parked in the channel's FIFO wait queue.  A receive moves the   *)
(* first parked sender's value into the buffer and wakes that sender.      *)
(* The operators named ...Unchecked, ...Dropped..., ...Newest and so on     *)
(* are the plausible mistakes the properties are shown to detect; no       *)
(* specification uses them.                                                *)
(***************************************************************************)
EXTENDS Naturals, Sequences

CONSTANTS
  Calls,           \* invocations of Process
  Keys,            \* session keys that get a worker
  NoKey,           \* the keys "" and "_", which bypass the queue
  KeyOf,           \* session.SessionKey of the message of a call
  jobBufferSize,   \* capacity of a worker's channel (32 in the code)
  Terminating,     \* sessions whose handlers are assumed to end (liveness only)
  None             \* nil

Results == {"answer", "apology"}

ASSUME ConstantsAssumption ==
  /\ KeyOf \in [Calls -> Keys \cup {NoKey}]
  /\ NoKey \notin Keys
  /\ jobBufferSize \in Nat \ {0}
  /\ Terminating \subseteq Keys
  /\ None \notin Calls \cup Results

VARIABLES
  pc,         \* where each call of Process is
  sessions,   \* Queue.sessions: key -> worker
  createMu,   \* holder of Queue.createMu
  worker,     \* the worker getOrCreateWorker returned to each call
  running,    \* workers whose goroutine has been started
  jobs,       \* worker -> channel contents, parked senders included
  cur,        \* worker -> the job its handler is running
  result,     \* worker -> the handler's result, before it is delivered
  reply       \* call -> contents of its reply channel, then the value returned

vars == <<pc, sessions, createMu, worker, running, jobs, cur, result, reply>>

Init ==
  /\ pc = [c \in Calls |-> "idle"]
  /\ sessions = [k \in Keys |-> None]
  /\ createMu = None
  /\ worker = [c \in Calls |-> None]
  /\ running = {}
  /\ jobs = [w \in Calls |-> <<>>]
  /\ cur = [w \in Calls |-> None]
  /\ result = [w \in Calls |-> None]
  /\ reply = [c \in Calls |-> None]

-----------------------------------------------------------------------------
(* The calling goroutine: Process and getOrCreateWorker.                   *)

Goto(c, from, to) ==
  /\ pc[c] = from
  /\ pc' = [pc EXCEPT ![c] = to]

\* Process: the key decides between the queue and a direct call of the handler.
Process(c) ==
  /\ Goto(c, "idle", IF KeyOf[c] = NoKey THEN "direct" ELSE "load")
  /\ UNCHANGED <<sessions, createMu, worker, running, jobs, cur, result, reply>>

\* The bypass: the handler runs in the caller, and nothing recovers a panic.
DirectReturn(c) ==
  /\ Goto(c, "direct", "done")
  /\ reply' = [reply EXCEPT ![c] = "answer"]
  /\ UNCHANGED <<sessions, createMu, worker, running, jobs, cur, result>>

DirectPanic(c) ==
  /\ Goto(c, "direct", "panicked")
  /\ UNCHANGED <<sessions, createMu, worker, running, jobs, cur, result, reply>>

\* First, lock-free sessions.Load.
LoadHit(c) ==
  /\ Goto(c, "load", "send")
  /\ sessions[KeyOf[c]] # None
  /\ worker' = [worker EXCEPT ![c] = sessions[KeyOf[c]]]
  /\ UNCHANGED <<sessions, createMu, running, jobs, cur, result, reply>>

LoadMiss(c) ==
  /\ Goto(c, "load", "lock")
  /\ sessions[KeyOf[c]] = None
  /\ UNCHANGED <<sessions, createMu, worker, running, jobs, cur, result, reply>>

Lock(c) ==
  /\ createMu = None
  /\ Goto(c, "lock", "recheck")
  /\ createMu' = c
  /\ UNCHANGED <<sessions, worker, running, jobs, cur, result, reply>>

\* Second Load, under createMu: another call may have created the worker.
RecheckHit(c) ==
  /\ Goto(c, "recheck", "send")
  /\ sessions[KeyOf[c]] # None
  /\ worker' = [worker EXCEPT ![c] = sessions[KeyOf[c]]]
  /\ createMu' = None
  /\ UNCHANGED <<sessions, running, jobs, cur, result, reply>>

RecheckMissUnchecked(c) ==
  /\ Goto(c, "recheck", "store")
  /\ UNCHANGED <<sessions, createMu, worker, running, jobs, cur, result, reply>>

RecheckMiss(c) ==
  /\ Goto(c, "recheck", "store")
  /\ sessions[KeyOf[c]] = None
  /\ UNCHANGED <<sessions, createMu, worker, running, jobs, cur, result, reply>>

\* The worker is published before its goroutine is started.
Store(c) ==
  /\ Goto(c, "store", "start")
  /\ sessions' = [sessions EXCEPT ![KeyOf[c]] = c]
  /\ UNCHANGED <<createMu, worker, running, jobs, cur, result, reply>>

\* go w.run, then the deferred unlock on return.
Start(c) ==
  /\ Goto(c, "start", "send")
  /\ running' = running \cup {c}
  /\ worker' = [worker EXCEPT ![c] = c]
  /\ createMu' = None
  /\ UNCHANGED <<sessions, jobs, cur, result, reply>>

SendDroppedWhenFull(c) ==
  LET w == worker[c] IN
  /\ Goto(c, "send", "wait")
  /\ jobs' = IF Len(jobs[w]) < jobBufferSize
               THEN [jobs EXCEPT ![w] = Append(@, c)] ELSE jobs
  /\ UNCHANGED <<sessions, createMu, worker, running, cur, result, reply>>

\* w.jobs <- job: a full buffer parks the sender.
Send(c) ==
  LET w == worker[c] IN
  /\ Goto(c, "send", IF Len(jobs[w]) < jobBufferSize THEN "wait" ELSE "parked")
  /\ jobs' = [jobs EXCEPT ![w] = Append(@, c)]
  /\ UNCHANGED <<sessions, createMu, worker, running, cur, result, reply>>

\* return <-replyCh
Return(c) ==
  /\ reply[c] # None
  /\ Goto(c, "wait", "done")
  /\ UNCHANGED <<sessions, createMu, worker, running, jobs, cur, result, reply>>

-----------------------------------------------------------------------------
(* The worker's goroutine: run.                                            *)

ReceiveNewest(w) ==
  /\ w \in running
  /\ cur[w] = None
  /\ jobs[w] # <<>>
  /\ cur' = [cur EXCEPT ![w] = jobs[w][Len(jobs[w])]]
  /\ jobs' = [jobs EXCEPT ![w] = SubSeq(@, 1, Len(@) - 1)]
  /\ pc' = [pc EXCEPT ![jobs[w][Len(jobs[w])]] = "wait"]
  /\ UNCHANGED <<sessions, createMu, worker, running, result, reply>>

\* for j := range w.jobs; the receive wakes the first parked sender.
Receive(w) ==
  /\ w \in running
  /\ cur[w] = None
  /\ jobs[w] # <<>>
  /\ cur' = [cur EXCEPT ![w] = Head(jobs[w])]
  /\ jobs' = [jobs EXCEPT ![w] = Tail(@)]
  /\ pc' = IF Len(jobs[w]) > jobBufferSize
             THEN [pc EXCEPT ![jobs[w][jobBufferSize + 1]] = "wait"]
             ELSE pc
  /\ UNCHANGED <<sessions, createMu, worker, running, result, reply>>

HandlerEndsUnrecovered(w, r) ==
  /\ cur[w] # None /\ result[w] = None /\ w \in running
  /\ result' = IF r = "apology" THEN result ELSE [result EXCEPT ![w] = r]
  /\ running' = IF r = "apology" THEN running \ {w} ELSE running
  /\ UNCHANGED <<pc, sessions, createMu, worker, jobs, cur, reply>>

\* The handler returns, or panics and recover() substitutes the apology.
HandlerEnds(w, r) ==
  /\ cur[w] # None
  /\ result[w] = None
  /\ result' = [result EXCEPT ![w] = r]
  /\ UNCHANGED <<pc, sessions, createMu, worker, running, jobs, cur, reply>>

\* j.replyCh <- result: capacity 1 and a single send, so it never blocks.
Reply(w) ==
  /\ result[w] # None
  /\ reply' = [reply EXCEPT ![cur[w]] = result[w]]
  /\ cur' = [cur EXCEPT ![w] = None]
  /\ result' = [result EXCEPT ![w] = None]
  /\ UNCHANGED <<pc, sessions, createMu, worker, running, jobs>>

-----------------------------------------------------------------------------
CreateWorker(c) ==
  LoadHit(c) \/ LoadMiss(c) \/ Lock(c) \/ RecheckHit(c) \/ RecheckMiss(c)
             \/ Store(c) \/ Start(c)

Caller(c) ==
  Process(c) \/ DirectReturn(c) \/ DirectPanic(c) \/ CreateWorker(c)
             \/ Send(c) \/ Return(c)

Worker(w) == Receive(w) \/ Reply(w) \/ \E r \in Results : HandlerEnds(w, r)

Next == \E c \in Calls : Caller(c) \/ Worker(c)

Spec == Init /\ [][Next]_vars

-----------------------------------------------------------------------------
(* Helper state formulae.                                                  *)

Keyed(c) == KeyOf[c] # NoKey

\* Some handler is working on call c.
Handling(c) == \E w \in Calls : cur[w] = c

\* A turn is active from the start of its handler to the delivery of its reply.
InHandler(w) == cur[w] # None /\ result[w] = None

\* c has put its job in a channel and its handler has not started.
Queued(c) == \E w \in Calls : \E i \in DOMAIN jobs[w] : jobs[w][i] = c

PCs == {"idle", "direct", "load", "lock", "recheck", "store", "start", "send",
        "parked", "wait", "done", "panicked"}

TypeOK ==
  /\ pc \in [Calls -> PCs]
  /\ sessions \in [Keys -> Calls \cup {None}]
  /\ createMu \in Calls \cup {None}
  /\ worker \in [Calls -> Calls \cup {None}]
  /\ running \subseteq Calls
  /\ jobs \in [Calls -> Seq(Calls)]
  /\ cur \in [Calls -> Calls \cup {None}]
  /\ result \in [Calls -> Results \cup {None}]
  /\ reply \in [Calls -> Results \cup {None}]

-----------------------------------------------------------------------------
(* Safety.                                                                 *)

\* Turns of one session never overlap: two handlers at work serve calls of
\* different sessions.  This is what the wallet's approval check, the session
\* file and the awaiting-skill state rely on (queue.go: "processes messages one
\* at a time per session").
OneTurnPerSession ==
  \A v, w \in Calls :
    cur[v] # None /\ cur[w] # None /\ KeyOf[cur[v]] = KeyOf[cur[w]] => v = w

\* A call that has handed over its job finds it in exactly one place: at one
\* position of one channel, in a handler, or answered in its reply channel.  So
\* no turn is lost, run twice, or answered to the wrong caller, whatever the
\* interleaving of parked senders with the worker's receives.
TurnTakenOnce ==
  /\ \A c \in Calls : pc[c] \in {"parked", "wait"} =>
       Queued(c) \/ Handling(c) \/ reply[c] # None
  /\ \A c \in Calls : Queued(c) => ~Handling(c)
  /\ \A c \in Calls : Queued(c) \/ Handling(c) => reply[c] = None
  /\ \A v, w \in Calls : \A i \in DOMAIN jobs[v], j \in DOMAIN jobs[w] :
       jobs[v][i] = jobs[w][j] => v = w /\ i = j

-----------------------------------------------------------------------------
(* What the queue promises, as a specification of its own: SessionServer.  *)

\* The unfinished turns of session k, oldest first: the one being handled, then
\* the channel with its parked senders.
LineOf(k) ==
  LET w == sessions[k]
  IN  IF w = None THEN <<>>
      ELSE IF InHandler(w) THEN <<cur[w]>> \o jobs[w] ELSE jobs[w]

PhaseOf(c) ==
  CASE pc[c] = "direct"                                -> "serving"
    [] pc[c] \in {"done", "panicked"}                  -> pc[c]
    [] pc[c] \in {"parked", "wait"}                    ->
         IF Queued(c) THEN "waiting"
         ELSE IF InHandler(worker[c]) /\ cur[worker[c]] = c THEN "serving"
         ELSE "served"
    [] OTHER                                           -> "outside"

Server == INSTANCE SessionServer
            WITH line <- [k \in Keys |-> LineOf(k)],
                 phase <- [c \in Calls |-> PhaseOf(c)]

\* The queue implements the server: turns of a session start in the order their
\* jobs entered the channel, one at a time, each once (queue.go: "Messages for
\* the same session are processed in FIFO order").
ImplementsServer == Server!Spec

-----------------------------------------------------------------------------
(* Liveness.                                                               *)

\* The goroutines are scheduled.  A handler is only assumed to end for the
\* sessions in Terminating: an LLM or RPC call of another session may hang.
\* Messages need not arrive, and the bypass is not concerned.
Fairness ==
  /\ \A c \in Calls : WF_vars(CreateWorker(c)) /\ WF_vars(Send(c)) /\ WF_vars(Return(c))
  /\ \A w \in Calls : WF_vars(Receive(w)) /\ WF_vars(Reply(w))
  /\ \A w \in Calls : KeyOf[w] \in Terminating =>
       WF_vars(\E r \in Results : HandlerEnds(w, r))

FairSpec == Spec /\ Fairness

\* A message of a session whose handlers end is answered, a panic in an earlier
\* turn, a full channel and a hung turn of another session notwithstanding.
EveryTurnAnswered ==
  \A c \in Calls : KeyOf[c] \in Terminating => (pc[c] = "load" ~> pc[c] = "done")
=============================================================================
