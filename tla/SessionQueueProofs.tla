-------------------------- MODULE SessionQueueProofs ------------------------
(***************************************************************************)
(* Proofs about the session queue, for every set of calls and sessions and *)
(* every channel capacity: its handlers exclude each other, it runs every  *)
(* turn once, and it implements SessionServer.                             *)
(***************************************************************************)
EXTENDS SessionQueue, TLAPS

QueuePCs == {"load", "lock", "recheck", "store", "start", "send", "parked", "wait"}

\* Only calls with a session key get past the bypass.
KeyInv ==
  /\ \A c \in Calls : pc[c] \in QueuePCs => KeyOf[c] \in Keys
  /\ \A w \in Calls : \A i \in DOMAIN jobs[w] : KeyOf[jobs[w][i]] \in Keys

\* createMu is held by the call inside getOrCreateWorker's critical section,
\* and that call has established that no worker exists before it stores one.
LockInv ==
  /\ \A c \in Calls : pc[c] \in {"recheck", "store", "start"} => createMu = c
  /\ \A c \in Calls : pc[c] = "store" => sessions[KeyOf[c]] = None
  /\ \A c \in Calls : pc[c] = "start" => sessions[KeyOf[c]] = c

\* Whoever got a worker got the one registered for its session, and a worker
\* only ever sees jobs of calls that got it.
WorkerInv ==
  /\ \A c \in Calls : pc[c] \in {"send", "parked", "wait"} => worker[c] # None
  /\ \A c \in Calls : worker[c] # None =>
       KeyOf[c] \in Keys /\ sessions[KeyOf[c]] = worker[c]
  /\ \A w \in Calls : \A i \in DOMAIN jobs[w] : worker[jobs[w][i]] = w
  /\ \A w \in Calls : cur[w] # None => worker[cur[w]] = w

IInv == TypeOK /\ KeyInv /\ LockInv /\ WorkerInv

-----------------------------------------------------------------------------
\* A step keeps every variable's type and the bypass closed to unkeyed calls.
LEMMA TypeStep == TypeOK /\ KeyInv /\ [Next]_vars => TypeOK' /\ KeyInv'
<1> SUFFICES ASSUME TypeOK, KeyInv, [Next]_vars PROVE TypeOK' /\ KeyInv'
  OBVIOUS
<1> USE ConstantsAssumption DEF TypeOK, KeyInv, PCs, QueuePCs, Goto
<1>1. ASSUME NEW c \in Calls, Process(c) PROVE TypeOK' /\ KeyInv'
  BY <1>1 DEF Process
<1>2. ASSUME NEW c \in Calls, DirectReturn(c) \/ DirectPanic(c) PROVE TypeOK' /\ KeyInv'
  BY <1>2, ZenonT(60) DEF DirectReturn, DirectPanic, Results
<1>3. ASSUME NEW c \in Calls, CreateWorker(c) PROVE TypeOK' /\ KeyInv'
  <2>1. CASE LoadHit(c) \/ RecheckHit(c)
    BY <2>1, ZenonT(60) DEF LoadHit, RecheckHit
  <2>2. CASE LoadMiss(c) \/ RecheckMiss(c)
    BY <2>2, ZenonT(60) DEF LoadMiss, RecheckMiss
  <2>3. CASE Lock(c)
    BY <2>3 DEF Lock
  <2>4. CASE Store(c)
    BY <2>4 DEF Store
  <2>5. CASE Start(c)
    BY <2>5 DEF Start
  <2> QED BY <1>3, <2>1, <2>2, <2>3, <2>4, <2>5 DEF CreateWorker
<1>4. ASSUME NEW c \in Calls, Send(c) PROVE TypeOK' /\ KeyInv'
  <2>1. jobs' \in [Calls -> Seq(Calls)]
    <3>1. \A w \in Calls : Append(jobs[w], c) \in Seq(Calls)
      OBVIOUS
    <3>2. jobs' = [jobs EXCEPT ![worker[c]] = Append(jobs[worker[c]], c)]
      BY <1>4 DEF Send
    <3> QED BY <3>1, <3>2
  <2>2. pc' \in [Calls -> PCs] /\ KeyInv'
    BY <1>4 DEF Send
  <2> QED BY <1>4, <2>1, <2>2 DEF Send
<1>5. ASSUME NEW c \in Calls, Return(c) PROVE TypeOK' /\ KeyInv'
  BY <1>5 DEF Return
<1>6. ASSUME NEW w \in Calls, Receive(w) PROVE TypeOK' /\ KeyInv'
  <2>1. jobs[w] \in Seq(Calls) /\ jobs[w] # <<>>
    BY <1>6 DEF Receive
  <2>2. Head(jobs[w]) \in Calls /\ Tail(jobs[w]) \in Seq(Calls)
    BY <2>1
  <2>3. jobs' \in [Calls -> Seq(Calls)] /\ cur' \in [Calls -> Calls \cup {None}]
    BY <1>6, <2>2 DEF Receive
  <2>4. pc' \in [Calls -> PCs]
    BY <1>6 DEF Receive
  <2>5. KeyInv'
    <3>0. \A v \in Calls : \A i \in DOMAIN jobs'[v] : KeyOf[jobs'[v][i]] \in Keys
      <4>1. jobs' = [jobs EXCEPT ![w] = Tail(jobs[w])]
        BY <1>6 DEF Receive
      <4>2. \A i \in DOMAIN Tail(jobs[w]) : i + 1 \in DOMAIN jobs[w] /\ Tail(jobs[w])[i] = jobs[w][i + 1]
        BY <2>1
      <4>3. \A i \in DOMAIN Tail(jobs[w]) : KeyOf[Tail(jobs[w])[i]] \in Keys
        BY <4>2 DEF KeyInv
      <4> QED BY <4>1, <4>3 DEF KeyInv, TypeOK
    <3>1. CASE Len(jobs[w]) > jobBufferSize
      <4>1. jobs[w][jobBufferSize + 1] \in Calls
        BY <2>1, <3>1
      <4> QED BY <1>6, <3>0, <3>1, <4>1 DEF Receive
    <3>2. CASE ~(Len(jobs[w]) > jobBufferSize)
      BY <1>6, <3>0, <3>2 DEF Receive
    <3> QED BY <3>1, <3>2
  <2> QED BY <1>6, <2>3, <2>4, <2>5 DEF Receive
<1>7. ASSUME NEW w \in Calls, NEW r \in Results, HandlerEnds(w, r)
      PROVE TypeOK' /\ KeyInv'
  BY <1>7 DEF HandlerEnds
<1>8. ASSUME NEW w \in Calls, Reply(w) PROVE TypeOK' /\ KeyInv'
  BY <1>8 DEF Reply
<1>9. CASE UNCHANGED vars
  BY <1>9 DEF vars
<1> QED
  BY <1>1, <1>2, <1>3, <1>4, <1>5, <1>6, <1>7, <1>8, <1>9
     DEF Next, Caller, Worker

LEMMA InitType == Init => TypeOK /\ KeyInv
  BY ConstantsAssumption DEF Init, TypeOK, KeyInv, PCs, QueuePCs

\* Every variable keeps the type of the Go value it stands for.
THEOREM TypeCorrect == Spec => [](TypeOK /\ KeyInv)
  BY InitType, TypeStep, PTL DEF Spec

-----------------------------------------------------------------------------
\* The lock protects the registration of a worker.
LEMMA LockStep == TypeOK /\ KeyInv /\ LockInv /\ [Next]_vars => LockInv'
<1> SUFFICES ASSUME TypeOK, KeyInv, LockInv, [Next]_vars PROVE LockInv'
  OBVIOUS
<1> USE ConstantsAssumption DEF TypeOK, KeyInv, LockInv, PCs, QueuePCs, Goto
<1>1. ASSUME NEW c \in Calls, Process(c) \/ DirectReturn(c) \/ DirectPanic(c)
      PROVE LockInv'
  BY <1>1 DEF Process, DirectReturn, DirectPanic
<1>2. ASSUME NEW c \in Calls, CreateWorker(c) PROVE LockInv'
  <2>1. CASE LoadHit(c) \/ LoadMiss(c)
    BY <2>1 DEF LoadHit, LoadMiss
  <2>2. CASE Lock(c)
    BY <2>2 DEF Lock
  <2>3. CASE RecheckHit(c) \/ RecheckMiss(c)
    BY <2>3 DEF RecheckHit, RecheckMiss
  <2>4. CASE Store(c)
    BY <2>4 DEF Store
  <2>5. CASE Start(c)
    BY <2>5 DEF Start
  <2> QED BY <1>2, <2>1, <2>2, <2>3, <2>4, <2>5 DEF CreateWorker
<1>3. ASSUME NEW c \in Calls, Send(c) \/ Return(c) PROVE LockInv'
  BY <1>3 DEF Send, Return
<1>4. ASSUME NEW w \in Calls, Receive(w) PROVE LockInv'
  BY <1>4 DEF Receive
<1>5. ASSUME NEW w \in Calls, Worker(w), ~Receive(w) PROVE LockInv'
  BY <1>5 DEF Worker, HandlerEnds, Reply
<1>6. CASE UNCHANGED vars
  BY <1>6 DEF vars
<1> QED BY <1>1, <1>2, <1>3, <1>4, <1>5, <1>6 DEF Next, Caller

\* A registered worker is never replaced.
LEMMA SessionsStable ==
  ASSUME TypeOK, KeyInv, LockInv, [Next]_vars, NEW k \in Keys, sessions[k] # None
  PROVE  sessions'[k] = sessions[k]
<1> USE ConstantsAssumption DEF TypeOK, KeyInv, LockInv, QueuePCs, Goto
<1>1. ASSUME NEW c \in Calls, Store(c) PROVE sessions'[k] = sessions[k]
  BY <1>1 DEF Store
<1>2. ASSUME NEW c \in Calls, Caller(c), ~Store(c) PROVE sessions' = sessions
  BY <1>2 DEF Caller, CreateWorker, Process, DirectReturn, DirectPanic, LoadHit,
              LoadMiss, Lock, RecheckHit, RecheckMiss, Start, Send, Return
<1>3. ASSUME NEW w \in Calls, Worker(w) PROVE sessions' = sessions
  BY <1>3 DEF Worker, Receive, HandlerEnds, Reply
<1> QED BY <1>1, <1>2, <1>3 DEF Next, vars

LEMMA WorkerStep == IInv /\ [Next]_vars => WorkerInv'
<1> SUFFICES ASSUME IInv, [Next]_vars PROVE WorkerInv'
  OBVIOUS
<1> USE DEF IInv
<1>0. TypeOK' /\ KeyInv'
  BY TypeStep
<1>s. \A k \in Keys : sessions[k] # None => sessions'[k] = sessions[k]
  BY SessionsStable
<1> USE ConstantsAssumption DEF TypeOK, KeyInv, LockInv, WorkerInv, PCs, QueuePCs, Goto
<1>1. ASSUME NEW c \in Calls, Process(c) \/ DirectReturn(c) \/ DirectPanic(c)
      PROVE WorkerInv'
  BY <1>1 DEF Process, DirectReturn, DirectPanic
<1>2. ASSUME NEW c \in Calls, CreateWorker(c) PROVE WorkerInv'
  <2>1. CASE LoadHit(c) \/ RecheckHit(c)
    <3>1. KeyOf[c] \in Keys /\ worker[c] # None => worker[c] = sessions[KeyOf[c]]
      BY <2>1 DEF LoadHit, RecheckHit
    <3>2. worker' = [worker EXCEPT ![c] = sessions[KeyOf[c]]] /\ UNCHANGED <<sessions, jobs, cur>>
      BY <2>1 DEF LoadHit, RecheckHit
    <3>3. \A d \in Calls : worker[d] # None => worker'[d] = worker[d]
      BY <3>1, <3>2
    <3>4. /\ \A w \in Calls : \A i \in DOMAIN jobs'[w] : worker'[jobs'[w][i]] = w
          /\ \A w \in Calls : cur'[w] # None => worker'[cur'[w]] = w
      <4>1. \A w \in Calls : \A i \in DOMAIN jobs[w] : jobs[w][i] \in Calls
        OBVIOUS
      <4> QED BY <3>2, <3>3, <4>1
    <3>5. /\ \A d \in Calls : pc'[d] \in {"send", "parked", "wait"} => worker'[d] # None
          /\ \A d \in Calls : worker'[d] # None =>
               KeyOf[d] \in Keys /\ sessions'[KeyOf[d]] = worker'[d]
      BY <2>1, <3>1, <3>2 DEF LoadHit, RecheckHit
    <3> QED BY <3>4, <3>5
  <2>2. CASE LoadMiss(c) \/ RecheckMiss(c) \/ Lock(c)
    BY <2>2 DEF LoadMiss, RecheckMiss, Lock
  <2>3. CASE Store(c)
    BY <2>3, <1>s DEF Store
  <2>4. CASE Start(c)
    BY <2>4 DEF Start
  <2> QED BY <1>2, <2>1, <2>2, <2>3, <2>4 DEF CreateWorker
<1>3. ASSUME NEW c \in Calls, Send(c) PROVE WorkerInv'
  BY <1>3 DEF Send
<1>4. ASSUME NEW c \in Calls, Return(c) PROVE WorkerInv'
  BY <1>4 DEF Return
<1>5. ASSUME NEW w \in Calls, Receive(w) PROVE WorkerInv'
  BY <1>5, SMTT(60) DEF Receive
<1>6. ASSUME NEW w \in Calls, Reply(w) PROVE WorkerInv'
  BY <1>6 DEF Reply
<1>7. ASSUME NEW w \in Calls, NEW r \in Results, HandlerEnds(w, r) PROVE WorkerInv'
  BY <1>7 DEF HandlerEnds
<1>8. CASE UNCHANGED vars
  BY <1>8 DEF vars
<1> QED BY <1>1, <1>2, <1>3, <1>4, <1>5, <1>6, <1>7, <1>8 DEF Next, Caller, Worker

\* IInv is inductive: calls, workers and channels of Process and getOrCreateWorker.
THEOREM InvariantHolds == Spec => []IInv
<1>1. Init => IInv
  <2>1. Init => LockInv /\ WorkerInv
    BY ConstantsAssumption DEF Init, LockInv, WorkerInv
  <2> QED BY <2>1, InitType DEF IInv
<1>2. IInv /\ [Next]_vars => IInv'
  BY TypeStep, LockStep, WorkerStep DEF IInv
<1> QED BY <1>1, <1>2, PTL DEF Spec

\* Two handlers at work at the same time serve different sessions.
THEOREM MutualExclusion == Spec => []OneTurnPerSession
<1>1. IInv => OneTurnPerSession
  <2> SUFFICES ASSUME IInv, NEW v \in Calls, NEW w \in Calls,
                      cur[v] # None, cur[w] # None, KeyOf[cur[v]] = KeyOf[cur[w]]
               PROVE v = w
    BY DEF OneTurnPerSession
  <2>1. cur[v] \in Calls /\ cur[w] \in Calls
    BY DEF IInv, TypeOK
  <2>2. worker[cur[v]] = v /\ worker[cur[w]] = w /\ v # None /\ w # None
    BY ConstantsAssumption DEF IInv, WorkerInv
  <2> QED BY <2>1, <2>2 DEF IInv, WorkerInv
<1> QED BY <1>1, InvariantHolds, PTL

-----------------------------------------------------------------------------
\* A job is at one position of its worker's channel, its sender parked exactly when
\* that position is beyond the buffer, or in its worker's handler, or answered.
PlaceInv ==
  /\ \A w \in Calls : \A i \in DOMAIN jobs[w] :
       /\ pc[jobs[w][i]] = IF i <= jobBufferSize THEN "wait" ELSE "parked"
       /\ reply[jobs[w][i]] = None
       /\ cur[w] # jobs[w][i]
       /\ \A j \in DOMAIN jobs[w] : jobs[w][i] = jobs[w][j] => i = j
  /\ \A w \in Calls : cur[w] # None => pc[cur[w]] = "wait" /\ reply[cur[w]] = None
  /\ \A w \in Calls : result[w] # None => cur[w] # None
  /\ \A c \in Calls : pc[c] \in {"parked", "wait"} => Queued(c) \/ Handling(c) \/ reply[c] # None
  /\ \A c \in Calls : reply[c] # None => pc[c] \in {"wait", "done"}

-----------------------------------------------------------------------------
\* The steps of a caller but for Send: channels and handlers stay as they are, and
\* the caller has no job in them.
LEMMA PlaceOfCaller ==
  ASSUME IInv, PlaceInv, NEW c \in Calls, Caller(c), ~Send(c)
  PROVE  PlaceInv'
<1> USE ConstantsAssumption DEF IInv, TypeOK
<1>0. reply[c] # None => pc[c] \in {"wait", "done"}
  BY DEF PlaceInv
<1>1. /\ UNCHANGED <<jobs, cur, result>>
      /\ pc[c] \notin {"parked", "wait"} \/ reply[c] # None
      /\ \A d \in Calls : d # c => pc'[d] = pc[d] /\ reply'[d] = reply[d]
      /\ pc'[c] \notin {"parked", "wait"}
      /\ reply'[c] # None => pc'[c] = "done"
  <2>1. CASE Process(c)
    <3>1. pc'[c] \in {"load", "direct"} /\ pc[c] = "idle"
      BY <2>1 DEF Process, Goto
    <3> QED BY <1>0, <2>1, <3>1 DEF Process, Goto
  <2>2. CASE DirectReturn(c) \/ DirectPanic(c)
    BY <1>0, <2>2 DEF DirectReturn, DirectPanic, Goto
  <2>3. CASE LoadHit(c) \/ LoadMiss(c) \/ Lock(c) \/ RecheckHit(c)
    BY <1>0, <2>3 DEF LoadHit, LoadMiss, Lock, RecheckHit, Goto
  <2>4. CASE RecheckMiss(c) \/ Store(c) \/ Start(c)
    BY <1>0, <2>4 DEF RecheckMiss, Store, Start, Goto
  <2>5. CASE Return(c)
    BY <1>0, <2>5 DEF Return, Goto
  <2> QED BY <2>1, <2>2, <2>3, <2>4, <2>5 DEF Caller, CreateWorker
<1>2. \A w \in Calls : \A i \in DOMAIN jobs[w] : jobs[w][i] \in Calls /\ jobs[w][i] # c
  <2> SUFFICES ASSUME NEW w \in Calls, NEW i \in DOMAIN jobs[w]
               PROVE  jobs[w][i] \in Calls /\ jobs[w][i] # c
    OBVIOUS
  <2>1. jobs[w][i] \in Calls
    OBVIOUS
  <2>2. pc[jobs[w][i]] \in {"wait", "parked"} /\ reply[jobs[w][i]] = None
    BY DEF PlaceInv
  <2> QED BY <1>1, <2>1, <2>2
<1>3. \A w \in Calls : cur[w] # None => cur[w] \in Calls /\ cur[w] # c
  BY <1>1 DEF PlaceInv
<1>4. \A w \in Calls : \A i \in DOMAIN jobs'[w] :
       /\ pc'[jobs'[w][i]] = IF i <= jobBufferSize THEN "wait" ELSE "parked"
       /\ reply'[jobs'[w][i]] = None
       /\ cur'[w] # jobs'[w][i]
       /\ \A j \in DOMAIN jobs'[w] : jobs'[w][i] = jobs'[w][j] => i = j
  BY <1>1, <1>2 DEF PlaceInv
<1>5. \A w \in Calls : cur'[w] # None => pc'[cur'[w]] = "wait" /\ reply'[cur'[w]] = None
  BY <1>1, <1>3 DEF PlaceInv
<1>6. \A d \in Calls : pc'[d] \in {"parked", "wait"} => (Queued(d) \/ Handling(d))' \/ reply'[d] # None
  <2>1. \A d \in Calls : pc[d] \in {"parked", "wait"} => Queued(d) \/ Handling(d) \/ reply[d] # None
    BY DEF PlaceInv
  <2>2. \A d \in Calls : (Queued(d) <=> Queued(d)') /\ (Handling(d) <=> Handling(d)')
    BY <1>1 DEF Queued, Handling
  <2> QED BY <1>1, <2>1, <2>2
<1>7. \A d \in Calls : reply'[d] # None => pc'[d] \in {"wait", "done"}
  BY <1>1 DEF PlaceInv
<1>8. \A w \in Calls : result'[w] # None => cur'[w] # None
  BY <1>1 DEF PlaceInv
<1> QED BY <1>4, <1>5, <1>6, <1>7, <1>8 DEF PlaceInv

\* w.jobs <- job puts a new job behind all others.
LEMMA PlaceOfSend ==
  ASSUME IInv, PlaceInv, NEW c \in Calls, Send(c)
  PROVE  PlaceInv'
<1> USE ConstantsAssumption DEF IInv, TypeOK
<1> DEFINE w == worker[c]
<1>1. /\ w \in Calls /\ pc[c] = "send" /\ reply[c] = None
      /\ jobs[w] \in Seq(Calls)
      /\ jobs' = [jobs EXCEPT ![w] = Append(jobs[w], c)]
      /\ pc' = [pc EXCEPT ![c] = IF Len(jobs[w]) < jobBufferSize THEN "wait" ELSE "parked"]
      /\ UNCHANGED <<cur, result, reply>>
  <2>1. pc[c] = "send" /\ w # None
    BY DEF Send, Goto, WorkerInv
  <2>2. reply[c] = None
    BY <2>1 DEF PlaceInv
  <2> QED BY <2>1, <2>2 DEF Send, Goto
<1> HIDE DEF w
<1>2. /\ \A v \in Calls : \A i \in DOMAIN jobs[v] : jobs[v][i] \in Calls /\ jobs[v][i] # c
      /\ \A v \in Calls : cur[v] # None => cur[v] \in Calls /\ cur[v] # c
  <2>1. ASSUME NEW v \in Calls, NEW i \in DOMAIN jobs[v] PROVE jobs[v][i] \in Calls /\ jobs[v][i] # c
    <3>1. pc[jobs[v][i]] \in {"wait", "parked"}
      BY DEF PlaceInv
    <3> QED BY <1>1, <3>1
  <2>2. ASSUME NEW v \in Calls, cur[v] # None PROVE cur[v] \in Calls /\ cur[v] # c
    BY <1>1, <2>2 DEF PlaceInv
  <2> QED BY <2>1, <2>2
<1>3. /\ DOMAIN jobs'[w] = 1..(Len(jobs[w]) + 1)
      /\ DOMAIN jobs[w] = 1..Len(jobs[w]) /\ Len(jobs[w]) \in Nat
      /\ \A i \in DOMAIN jobs[w] : jobs'[w][i] = jobs[w][i]
      /\ jobs'[w][Len(jobs[w]) + 1] = c
  BY <1>1
<1>4. \A v \in Calls : v # w => jobs'[v] = jobs[v]
  BY <1>1
<1>5. ASSUME NEW v \in Calls, NEW i \in DOMAIN jobs'[v]
      PROVE  /\ pc'[jobs'[v][i]] = IF i <= jobBufferSize THEN "wait" ELSE "parked"
             /\ reply'[jobs'[v][i]] = None
             /\ cur'[v] # jobs'[v][i]
             /\ \A j \in DOMAIN jobs'[v] : jobs'[v][i] = jobs'[v][j] => i = j
  <2>1. CASE v # w
    BY <1>1, <1>2, <1>4, <2>1 DEF PlaceInv
  <2>2. CASE v = w /\ i \in DOMAIN jobs[w]
    BY <1>1, <1>2, <1>3, <2>2 DEF PlaceInv
  <2>3. CASE v = w /\ i = Len(jobs[w]) + 1
    BY <1>1, <1>2, <1>3, <2>3
  <2> QED BY <1>3, <2>1, <2>2, <2>3
<1>6. \A v \in Calls : cur'[v] # None => pc'[cur'[v]] = "wait" /\ reply'[cur'[v]] = None
  BY <1>1, <1>2 DEF PlaceInv
<1>7. ASSUME NEW d \in Calls, pc'[d] \in {"parked", "wait"}
      PROVE  (Queued(d) \/ Handling(d))' \/ reply'[d] # None
  <2>1. CASE d = c
    <3>1. Len(jobs[w]) + 1 \in DOMAIN jobs'[w]
      BY <1>3
    <3> QED BY <1>1, <1>3, <2>1, <3>1 DEF Queued
  <2>2. CASE d # c
    <3>1. Queued(d) \/ Handling(d) \/ reply[d] # None
      BY <1>1, <1>7, <2>2 DEF PlaceInv
    <3>2. Queued(d) => Queued(d)'
      <4> SUFFICES ASSUME NEW v \in Calls, NEW i \in DOMAIN jobs[v], jobs[v][i] = d
                   PROVE  i \in DOMAIN jobs'[v] /\ jobs'[v][i] = d
        BY DEF Queued
      <4>1. CASE v = w
        BY <1>3, <4>1
      <4>2. CASE v # w
        BY <1>4, <4>2
      <4> QED BY <4>1, <4>2
    <3> QED BY <1>1, <3>1, <3>2 DEF Handling
  <2> QED BY <2>1, <2>2
<1>8. \A d \in Calls : reply'[d] # None => pc'[d] \in {"wait", "done"}
  BY <1>1 DEF PlaceInv
<1>9. \A v \in Calls : result'[v] # None => cur'[v] # None
  BY <1>1 DEF PlaceInv
<1> QED BY <1>5, <1>6, <1>7, <1>8, <1>9 DEF PlaceInv

\* What a receive does to the channel of w: every job moves up by one.
LEMMA ReceiveShifts ==
  ASSUME IInv, NEW w \in Calls, Receive(w)
  PROVE  /\ Len(jobs[w]) \in Nat \ {0} /\ DOMAIN jobs[w] = 1..Len(jobs[w])
         /\ cur'[w] = jobs[w][1] /\ jobs[w][1] \in Calls
         /\ DOMAIN jobs'[w] = 1..(Len(jobs[w]) - 1)
         /\ \A i \in DOMAIN jobs'[w] : i + 1 \in DOMAIN jobs[w] /\ jobs'[w][i] = jobs[w][i + 1]
         /\ \A v \in Calls : v # w => jobs'[v] = jobs[v] /\ cur'[v] = cur[v]
<1> USE DEF IInv, TypeOK
<1>1. jobs[w] \in Seq(Calls) /\ jobs[w] # <<>>
  BY DEF Receive
<1>2. /\ Len(jobs[w]) \in Nat \ {0} /\ DOMAIN jobs[w] = 1..Len(jobs[w])
      /\ Head(jobs[w]) = jobs[w][1] /\ jobs[w][1] \in Calls
      /\ Len(Tail(jobs[w])) = Len(jobs[w]) - 1
      /\ DOMAIN Tail(jobs[w]) = 1..(Len(jobs[w]) - 1)
      /\ \A i \in DOMAIN Tail(jobs[w]) : i + 1 \in DOMAIN jobs[w] /\ Tail(jobs[w])[i] = jobs[w][i + 1]
  BY <1>1
<1>3. /\ cur' = [cur EXCEPT ![w] = Head(jobs[w])]
      /\ jobs' = [jobs EXCEPT ![w] = Tail(jobs[w])]
  BY DEF Receive
<1> QED BY <1>2, <1>3

LEMMA PlaceOfReceive ==
  ASSUME IInv, PlaceInv, NEW w \in Calls, Receive(w)
  PROVE  PlaceInv'
<1> USE ConstantsAssumption DEF IInv, TypeOK
<1> DEFINE n == Len(jobs[w])
           woken == jobs[w][jobBufferSize + 1]
<1>1. /\ n \in Nat \ {0} /\ DOMAIN jobs[w] = 1..n
      /\ cur'[w] = jobs[w][1] /\ jobs[w][1] \in Calls
      /\ DOMAIN jobs'[w] = 1..(n - 1)
      /\ \A i \in DOMAIN jobs'[w] : i + 1 \in DOMAIN jobs[w] /\ jobs'[w][i] = jobs[w][i + 1]
      /\ \A v \in Calls : v # w => jobs'[v] = jobs[v] /\ cur'[v] = cur[v]
  BY ReceiveShifts
<1>2. /\ cur[w] = None /\ UNCHANGED <<reply, result>>
      /\ pc' = IF n > jobBufferSize THEN [pc EXCEPT ![woken] = "wait"] ELSE pc
  BY DEF Receive
<1>3. n > jobBufferSize => jobBufferSize + 1 \in DOMAIN jobs[w] /\ woken \in Calls
  BY <1>1
<1> HIDE DEF n, woken
<1>4. \A v \in Calls : \A i \in DOMAIN jobs[v] : jobs[v][i] \in Calls /\ worker[jobs[v][i]] = v
  BY DEF WorkerInv
\* Whoever is not woken stays where it was.
<1>5. \A d \in Calls : ~(n > jobBufferSize /\ d = woken) => pc'[d] = pc[d]
  BY <1>2
<1>6. ASSUME n > jobBufferSize
      PROVE  /\ pc[woken] = "parked" /\ pc'[woken] = "wait" /\ reply[woken] = None
             /\ worker[woken] = w /\ (\A v \in Calls : cur[v] # woken)
  <2>1. woken = jobs[w][jobBufferSize + 1] /\ jobBufferSize + 1 \in DOMAIN jobs[w]
    BY <1>3, <1>6 DEF woken
  <2>2. pc[woken] = "parked" /\ reply[woken] = None /\ worker[woken] = w
    <3>1. ~(jobBufferSize + 1 <= jobBufferSize)
      OBVIOUS
    <3> QED BY <1>4, <2>1, <3>1 DEF PlaceInv
  <2>3. pc'[woken] = "wait"
    BY <1>2, <1>3, <1>6
  <2>4. ASSUME NEW v \in Calls, cur[v] = woken PROVE FALSE
    <3>1. cur[v] # None
      BY <1>3, <1>6, <2>4
    <3>2. pc[cur[v]] = "wait"
      BY <3>1 DEF PlaceInv
    <3> QED BY <2>2, <2>4, <3>2
  <2> QED BY <2>2, <2>3, <2>4
<1>7. ASSUME NEW v \in Calls, NEW i \in DOMAIN jobs'[v]
      PROVE  /\ pc'[jobs'[v][i]] = IF i <= jobBufferSize THEN "wait" ELSE "parked"
             /\ reply'[jobs'[v][i]] = None
             /\ cur'[v] # jobs'[v][i]
             /\ \A j \in DOMAIN jobs'[v] : jobs'[v][i] = jobs'[v][j] => i = j
  <2>1. CASE v # w
    <3>1. i \in DOMAIN jobs[v] /\ jobs'[v] = jobs[v] /\ cur'[v] = cur[v]
      BY <1>1, <2>1
    <3>2. ~(n > jobBufferSize /\ jobs[v][i] = woken)
      BY <1>4, <1>6, <2>1, <3>1
    <3> QED BY <1>2, <1>4, <1>5, <3>1, <3>2 DEF PlaceInv
  <2>2. CASE v = w
    <3>1. /\ i \in 1..(n - 1) /\ i + 1 \in DOMAIN jobs[w] /\ 1 \in DOMAIN jobs[w]
          /\ jobs'[w][i] = jobs[w][i + 1]
      BY <1>1, <2>2
    <3>2. \A j \in DOMAIN jobs[w] : jobs[w][i + 1] = jobs[w][j] => i + 1 = j
      BY <3>1 DEF PlaceInv
    <3>3. cur'[w] # jobs'[w][i]
      <4>1. i \in Nat /\ i + 1 # 1
        BY <1>1, <3>1
      <4> QED BY <1>1, <3>1, <3>2, <4>1
    <3>4. \A j \in DOMAIN jobs'[w] : jobs'[w][i] = jobs'[w][j] => i = j
      <4> SUFFICES ASSUME NEW j \in DOMAIN jobs'[w], jobs'[w][i] = jobs'[w][j] PROVE i = j
        OBVIOUS
      <4>1. /\ j + 1 \in DOMAIN jobs[w] /\ jobs'[w][j] = jobs[w][j + 1]
            /\ j \in 1..(n - 1)
        BY <1>1
      <4>i. i \in Nat /\ j \in Nat
        BY <3>1, <4>1
      <4>2. i + 1 = j + 1
        BY <3>1, <3>2, <4>1
      <4> QED BY <4>2, <4>i
    <3>5. reply'[jobs'[w][i]] = None
      BY <1>2, <3>1 DEF PlaceInv
    <3>6. pc'[jobs'[w][i]] = IF i <= jobBufferSize THEN "wait" ELSE "parked"
      <4>1. CASE i = jobBufferSize
        <5>1. n > jobBufferSize /\ jobs'[w][i] = woken
          BY <1>1, <3>1, <4>1 DEF woken
        <5> QED BY <1>6, <4>1, <5>1
      <4>2. CASE i # jobBufferSize
        <5>1. pc[jobs[w][i + 1]] = IF i + 1 <= jobBufferSize THEN "wait" ELSE "parked"
          BY <3>1 DEF PlaceInv
        <5>2. (i + 1 <= jobBufferSize) = (i <= jobBufferSize)
          BY <3>1, <4>2
        <5>3. ~(n > jobBufferSize /\ jobs[w][i + 1] = woken)
          <6>1. n > jobBufferSize => jobBufferSize + 1 \in DOMAIN jobs[w] /\ i + 1 # jobBufferSize + 1
            BY <1>3, <3>1, <4>2
          <6> QED BY <3>2, <6>1 DEF woken
        <5> QED BY <1>4, <1>5, <3>1, <5>1, <5>2, <5>3
      <4> QED BY <4>1, <4>2
    <3> QED BY <2>2, <3>3, <3>4, <3>5, <3>6
  <2> QED BY <2>1, <2>2
<1>8. ASSUME NEW v \in Calls, cur'[v] # None PROVE pc'[cur'[v]] = "wait" /\ reply'[cur'[v]] = None
  <2>1. CASE v = w
    <3>1. /\ 1 \in DOMAIN jobs[w] /\ 1 <= jobBufferSize
          /\ 1 # jobBufferSize + 1 /\ cur'[v] = jobs[w][1]
      BY <1>1, <2>1
    <3>2. /\ pc[jobs[w][1]] = "wait" /\ reply[jobs[w][1]] = None
          /\ ~(n > jobBufferSize /\ jobs[w][1] = woken)
      BY <1>3, <3>1 DEF PlaceInv, woken
    <3> QED BY <1>1, <1>2, <1>5, <3>1, <3>2
  <2>2. CASE v # w
    <3>1. cur'[v] = cur[v] /\ cur[v] \in Calls /\ pc[cur[v]] = "wait" /\ reply[cur[v]] = None
      BY <1>1, <1>8, <2>2 DEF PlaceInv
    <3> QED BY <1>2, <1>5, <1>6, <3>1
  <2> QED BY <2>1, <2>2
<1>9. ASSUME NEW d \in Calls, pc'[d] \in {"parked", "wait"}
      PROVE  (Queued(d) \/ Handling(d))' \/ reply'[d] # None
  <2>1. pc[d] \in {"parked", "wait"}
    BY <1>5, <1>6, <1>9
  <2>2. Queued(d) \/ Handling(d) \/ reply[d] # None
    BY <2>1 DEF PlaceInv
  <2>3. ASSUME NEW v \in Calls, NEW i \in DOMAIN jobs[v], jobs[v][i] = d
        PROVE  (Queued(d) \/ Handling(d))'
    <3>1. CASE v # w
      BY <1>1, <2>3, <3>1 DEF Queued
    <3>2. CASE v = w /\ i = 1
      BY <1>1, <2>3, <3>2 DEF Handling
    <3>3. CASE v = w /\ i # 1
      <4>1. i - 1 \in DOMAIN jobs'[w] /\ jobs'[w][i - 1] = d
        BY <1>1, <2>3, <3>3
      <4> QED BY <4>1 DEF Queued
    <3> QED BY <3>1, <3>2, <3>3
  <2>4. Handling(d) => Handling(d)'
    BY <1>1, <1>2 DEF Handling
  <2> QED BY <1>2, <2>2, <2>3, <2>4 DEF Queued
<1>10. \A d \in Calls : reply'[d] # None => pc'[d] \in {"wait", "done"}
  BY <1>2, <1>5, <1>6 DEF PlaceInv
<1>11. \A v \in Calls : result'[v] # None => cur'[v] # None
  BY <1>1, <1>2 DEF PlaceInv
<1> QED BY <1>7, <1>8, <1>9, <1>10, <1>11 DEF PlaceInv

\* The handler ends and its result reaches the caller's channel.
LEMMA PlaceOfHandler ==
  ASSUME IInv, PlaceInv, NEW w \in Calls, Reply(w) \/ \E r \in Results : HandlerEnds(w, r)
  PROVE  PlaceInv'
<1> USE ConstantsAssumption DEF IInv, TypeOK
<1>1. ASSUME NEW r \in Results, HandlerEnds(w, r) PROVE PlaceInv'
  <2>1. cur[w] # None /\ UNCHANGED <<pc, jobs, cur, reply>> /\ result' = [result EXCEPT ![w] = r]
    BY <1>1 DEF HandlerEnds
  <2>2. \A v \in Calls : result'[v] # None => cur'[v] # None
    BY <2>1 DEF PlaceInv
  <2>3. \A d \in Calls : (Queued(d) <=> Queued(d)') /\ (Handling(d) <=> Handling(d)')
    BY <2>1 DEF Queued, Handling
  <2> QED BY <2>1, <2>2, <2>3 DEF PlaceInv
<1>2. CASE Reply(w)
  <2>1. /\ cur[w] \in Calls /\ worker[cur[w]] = w /\ pc[cur[w]] = "wait" /\ UNCHANGED <<pc, jobs>>
        /\ reply' = [reply EXCEPT ![cur[w]] = result[w]]
        /\ cur' = [cur EXCEPT ![w] = None] /\ result' = [result EXCEPT ![w] = None]
        /\ result[w] # None
    BY <1>2 DEF Reply, PlaceInv, WorkerInv
  <2>2. \A v \in Calls : \A i \in DOMAIN jobs[v] :
          jobs[v][i] \in Calls /\ jobs[v][i] # cur[w]
    BY <2>1 DEF PlaceInv, WorkerInv
  <2>3. \A v \in Calls : v # w /\ cur[v] # None => cur[v] # cur[w]
    BY <2>1 DEF WorkerInv
  <2>4. \A v \in Calls : \A i \in DOMAIN jobs'[v] :
          /\ pc'[jobs'[v][i]] = IF i <= jobBufferSize THEN "wait" ELSE "parked"
          /\ reply'[jobs'[v][i]] = None
          /\ cur'[v] # jobs'[v][i]
          /\ \A j \in DOMAIN jobs'[v] : jobs'[v][i] = jobs'[v][j] => i = j
    BY <2>1, <2>2 DEF PlaceInv
  <2>5. \A v \in Calls : cur'[v] # None => pc'[cur'[v]] = "wait" /\ reply'[cur'[v]] = None
    BY <2>1, <2>3 DEF PlaceInv
  <2>6. ASSUME NEW d \in Calls, pc'[d] \in {"parked", "wait"}
        PROVE  (Queued(d) \/ Handling(d))' \/ reply'[d] # None
    <3>1. Queued(d) \/ Handling(d) \/ reply[d] # None
      BY <2>1, <2>6 DEF PlaceInv
    <3>2. CASE d = cur[w]
      BY <2>1, <3>2
    <3>3. CASE d # cur[w]
      BY <2>1, <3>1, <3>3 DEF Queued, Handling
    <3> QED BY <3>2, <3>3
  <2>7. \A d \in Calls : reply'[d] # None => pc'[d] \in {"wait", "done"}
    BY <2>1 DEF PlaceInv
  <2>8. \A v \in Calls : result'[v] # None => cur'[v] # None
    BY <2>1 DEF PlaceInv
  <2> QED BY <2>4, <2>5, <2>6, <2>7, <2>8 DEF PlaceInv
<1> QED BY <1>1, <1>2

LEMMA PlaceStep == IInv /\ PlaceInv /\ [Next]_vars => PlaceInv'
<1> SUFFICES ASSUME IInv, PlaceInv, [Next]_vars PROVE PlaceInv'
  OBVIOUS
<1>1. CASE UNCHANGED vars
  BY <1>1 DEF vars, PlaceInv, Queued, Handling
<1>2. ASSUME NEW c \in Calls, Caller(c) PROVE PlaceInv'
  BY <1>2, PlaceOfCaller, PlaceOfSend
<1>3. ASSUME NEW w \in Calls, Worker(w) PROVE PlaceInv'
  BY <1>3, PlaceOfReceive, PlaceOfHandler DEF Worker
<1> QED BY <1>1, <1>2, <1>3 DEF Next

\* PlaceInv is inductive with it: every call of Process is in one place of the queue.
THEOREM PlaceHolds == Spec => [](IInv /\ PlaceInv)
<1>1. Init => PlaceInv
  BY ConstantsAssumption DEF Init, PlaceInv
<1> QED BY <1>1, PlaceStep, InvariantHolds, PTL DEF Spec

\* Every job that was handed over is in exactly one place: no turn is lost, run
\* twice, or answered to another caller.
THEOREM EveryTurnOnce == Spec => []TurnTakenOnce
<1>1. IInv /\ PlaceInv => TurnTakenOnce
  <2> SUFFICES ASSUME IInv, PlaceInv PROVE TurnTakenOnce
    OBVIOUS
  <2> USE ConstantsAssumption DEF IInv, TypeOK
  <2>1. \A v \in Calls : \A i \in DOMAIN jobs[v] : jobs[v][i] \in Calls /\ worker[jobs[v][i]] = v
    BY DEF WorkerInv
  <2>2. \A c \in Calls : pc[c] \in {"parked", "wait"} => Queued(c) \/ Handling(c) \/ reply[c] # None
    BY DEF PlaceInv
  <2>3. ASSUME NEW c \in Calls, Queued(c) PROVE ~Handling(c) /\ reply[c] = None
    <3>1. PICK v \in Calls : \E i \in DOMAIN jobs[v] : jobs[v][i] = c
      BY <2>3 DEF Queued
    <3>2. reply[c] = None /\ cur[v] # c /\ worker[c] = v
      BY <2>1, <3>1 DEF PlaceInv
    <3>3. \A w \in Calls : cur[w] = c => w = v
      BY <3>2 DEF WorkerInv
    <3> QED BY <3>2, <3>3 DEF Handling
  <2>4. \A c \in Calls : Handling(c) => reply[c] = None
    BY DEF Handling, PlaceInv
  <2>5. \A v, w \in Calls : \A i \in DOMAIN jobs[v], j \in DOMAIN jobs[w] :
          jobs[v][i] = jobs[w][j] => v = w /\ i = j
    <3> SUFFICES ASSUME NEW v \in Calls, NEW w \in Calls, NEW i \in DOMAIN jobs[v],
                        NEW j \in DOMAIN jobs[w], jobs[v][i] = jobs[w][j]
                 PROVE  v = w /\ i = j
      OBVIOUS
    <3>1. v = w
      BY <2>1
    <3> QED BY <3>1 DEF PlaceInv
  <2> QED BY <2>2, <2>3, <2>4, <2>5 DEF TurnTakenOnce
<1> QED BY <1>1, PlaceHolds, PTL

-----------------------------------------------------------------------------
(* The refinement of SessionServer.                                        *)

\* A worker is registered for its own session, and only the bypass calls a handler
\* without one.
OwnInv ==
  /\ \A k \in Keys : sessions[k] # None => KeyOf[sessions[k]] = k
  /\ \A c \in Calls : pc[c] = "direct" => KeyOf[c] = NoKey

LEMMA OwnStep == IInv /\ OwnInv /\ [Next]_vars => OwnInv'
<1> SUFFICES ASSUME IInv, OwnInv, [Next]_vars PROVE OwnInv'
  OBVIOUS
<1> USE ConstantsAssumption DEF IInv, TypeOK, KeyInv, QueuePCs, OwnInv, Goto
<1>1. ASSUME NEW c \in Calls, Process(c) PROVE OwnInv'
  BY <1>1 DEF Process
<1>2. ASSUME NEW c \in Calls, Caller(c), ~Process(c) PROVE OwnInv'
  <2>1. CASE DirectReturn(c) \/ DirectPanic(c)
    BY <2>1 DEF DirectReturn, DirectPanic
  <2>2. CASE LoadHit(c) \/ LoadMiss(c) \/ Lock(c) \/ RecheckHit(c) \/ RecheckMiss(c)
    BY <2>2 DEF LoadHit, LoadMiss, Lock, RecheckHit, RecheckMiss
  <2>3. CASE Store(c)
    BY <2>3 DEF Store
  <2>4. CASE Start(c)
    BY <2>4 DEF Start
  <2>5. CASE Send(c)
    BY <2>5 DEF Send
  <2>6. CASE Return(c)
    BY <2>6 DEF Return
  <2> QED BY <1>2, <2>1, <2>2, <2>3, <2>4, <2>5, <2>6 DEF Caller, CreateWorker
<1>3. ASSUME NEW w \in Calls, Receive(w) PROVE OwnInv'
  BY <1>3 DEF Receive
<1>4. ASSUME NEW w \in Calls, Worker(w), ~Receive(w) PROVE OwnInv'
  BY <1>4 DEF Worker, HandlerEnds, Reply
<1>5. CASE UNCHANGED vars
  BY <1>5 DEF vars
<1> QED BY <1>1, <1>2, <1>3, <1>4, <1>5 DEF Next

RInv == IInv /\ PlaceInv /\ OwnInv

LEMMA RInvHolds == Spec => []RInv
<1>1. Init => OwnInv
  BY ConstantsAssumption DEF Init, OwnInv
<1> QED BY <1>1, OwnStep, PlaceHolds, PTL DEF Spec, RInv

\* Of a call that handed over its job the phase says where the job is.
LEMMA PhaseOfJob ==
  ASSUME RInv, NEW c \in Calls, pc[c] \in {"parked", "wait"}
  PROVE  /\ Queued(c) => PhaseOf(c) = "waiting"
         /\ \A w \in Calls : cur[w] = c => /\ worker[c] = w /\ ~Queued(c)
                                         /\ PhaseOf(c) = IF result[w] = None THEN "serving" ELSE "served"
         /\ reply[c] # None => PhaseOf(c) = "served"
<1> USE ConstantsAssumption DEF RInv, IInv, TypeOK
<1>1. PhaseOf(c) = IF Queued(c) THEN "waiting"
                   ELSE IF InHandler(worker[c]) /\ cur[worker[c]] = c THEN "serving" ELSE "served"
  BY DEF PhaseOf
<1>2. worker[c] \in Calls
  BY DEF WorkerInv
<1>3. Queued(c) => reply[c] = None /\ cur[worker[c]] # c
  BY DEF Queued, PlaceInv, WorkerInv
<1>4. \A w \in Calls : cur[w] = c => worker[c] = w /\ reply[c] = None
  BY DEF WorkerInv, PlaceInv
<1> QED BY <1>1, <1>2, <1>3, <1>4 DEF InHandler

LEMMA PhaseOfJobNext ==
  (RInv => \A c, w \in Calls : pc[c] \in {"parked", "wait"} /\ cur[w] = c =>
     PhaseOf(c) = IF result[w] = None THEN "serving" ELSE "served")'
<1>1. RInv => \A c, w \in Calls : pc[c] \in {"parked", "wait"} /\ cur[w] = c =>
        PhaseOf(c) = IF result[w] = None THEN "serving" ELSE "served"
  BY PhaseOfJob
<1> QED BY <1>1, PTL

\* A registered worker's line, and whose it is.
LEMMA LineOfWorker ==
  ASSUME RInv, NEW c \in Calls, NEW w \in Calls, worker[c] = w
  PROVE  /\ KeyOf[c] \in Keys /\ sessions[KeyOf[c]] = w
         /\ LineOf(KeyOf[c]) = IF InHandler(w) THEN <<cur[w]>> \o jobs[w] ELSE jobs[w]
         /\ \A k \in Keys : k # KeyOf[c] => sessions[k] # w
BY ConstantsAssumption DEF RInv, IInv, WorkerInv, OwnInv, LineOf

\* A step that changes neither lines nor phases is a stutter of the server.
LEMMA Stutters ==
  ASSUME \A k \in Keys : LineOf(k)' = LineOf(k), \A c \in Calls : PhaseOf(c)' = PhaseOf(c)
  PROVE  UNCHANGED Server!abstractVars
<1>1. [k \in Keys |-> LineOf(k)]' = [k \in Keys |-> LineOf(k)]
  OBVIOUS
<1>2. [c \in Calls |-> PhaseOf(c)]' = [c \in Calls |-> PhaseOf(c)]
  OBVIOUS
<1> QED BY <1>1, <1>2 DEF Server!abstractVars

\* A caller's step but Send: no line changes, and no phase but the caller's.
LEMMA CallerKeepsLines ==
  ASSUME RInv, NEW c \in Calls, Caller(c), ~Send(c)
  PROVE  /\ \A k \in Keys : LineOf(k)' = LineOf(k)
         /\ \A d \in Calls : d # c => PhaseOf(d)' = PhaseOf(d)
<1> USE ConstantsAssumption DEF RInv, IInv, TypeOK
<1>1. /\ UNCHANGED <<jobs, cur, result>>
      /\ \A d \in Calls : d # c => pc'[d] = pc[d] /\ worker'[d] = worker[d]
  BY DEF Caller, CreateWorker, Process, DirectReturn, DirectPanic, LoadHit, LoadMiss, Lock,
         RecheckHit, RecheckMiss, Store, Start, Return, Goto
<1>2. /\ \A d \in Calls : Queued(d)' = Queued(d)
      BY <1>1 DEF Queued, InHandler
<1>3. ASSUME NEW d \in Calls, d # c PROVE PhaseOf(d)' = PhaseOf(d)
  <2>1. worker[d] \in Calls \cup {None} /\ worker'[d] = worker[d] /\ pc'[d] = pc[d]
    BY <1>1, <1>3
  <2>2. Queued(d)' = Queued(d) /\ InHandler(worker[d])' = InHandler(worker[d])
    BY <1>1, <1>2, <2>1 DEF InHandler
  <2> QED BY <1>1, <2>1, <2>2 DEF PhaseOf
<1>4. \A k \in Keys : LineOf(k)' = LineOf(k)
  <2>1. CASE Store(c)
    <3>1. KeyOf[c] \in Keys /\ sessions[KeyOf[c]] = None /\ pc[c] = "store"
      BY <2>1 DEF Store, Goto, KeyInv, LockInv, QueuePCs
    <3>2. jobs[c] = <<>> /\ cur[c] = None
      <4>1. ASSUME NEW d \in Calls, worker[d] = c PROVE FALSE
        <5>1. KeyOf[d] \in Keys /\ sessions[KeyOf[d]] = c /\ c # None
          BY <4>1 DEF WorkerInv
        <5>2. KeyOf[c] = KeyOf[d]
          BY <5>1 DEF OwnInv
        <5> QED BY <3>1, <5>1, <5>2
      <4>2. cur[c] = None
        BY <4>1 DEF WorkerInv
      <4>3. jobs[c] \in Seq(Calls) /\ 1 \notin DOMAIN jobs[c]
        BY <4>1 DEF WorkerInv
      <4> QED BY <4>2, <4>3
    <3>3. sessions' = [sessions EXCEPT ![KeyOf[c]] = c]
      BY <2>1 DEF Store
    <3> QED BY <1>1, <1>2, <3>1, <3>2, <3>3 DEF LineOf, InHandler
  <2>2. CASE ~Store(c)
    <3>1. sessions' = sessions
      BY <2>2 DEF Caller, CreateWorker, Process, DirectReturn, DirectPanic, LoadHit, LoadMiss,
                  Lock, RecheckHit, RecheckMiss, Start, Return
    <3> QED BY <1>1, <1>2, <3>1 DEF LineOf, InHandler
  <2> QED BY <2>1, <2>2
<1> QED BY <1>3, <1>4

LEMMA CallerRefines ==
  ASSUME RInv, NEW c \in Calls, Caller(c), ~Send(c)
  PROVE  Server!Next \/ UNCHANGED Server!abstractVars
<1> USE ConstantsAssumption DEF RInv, IInv, TypeOK
<1>1. /\ [k \in Keys |-> LineOf(k)]' = [k \in Keys |-> LineOf(k)]
      /\ \A d \in Calls : d # c => PhaseOf(d)' = PhaseOf(d)
  BY CallerKeepsLines
<1>2. ASSUME PhaseOf(c)' = PhaseOf(c) PROVE UNCHANGED Server!abstractVars
  BY <1>1, <1>2, CallerKeepsLines, Stutters
<1>3. [d \in Calls |-> PhaseOf(d)]' = [[d \in Calls |-> PhaseOf(d)] EXCEPT ![c] = PhaseOf(c)']
  BY <1>1
<1>4. CASE CreateWorker(c)
  <2>1. pc[c] \in {"load", "lock", "recheck", "store", "start"}
        /\ pc'[c] \in {"lock", "recheck", "store", "start", "send"}
    BY <1>4 DEF CreateWorker, LoadHit, LoadMiss, Lock, RecheckHit, RecheckMiss, Store, Start, Goto
  <2>2. PhaseOf(c) = "outside" /\ PhaseOf(c)' = "outside"
    BY <2>1 DEF PhaseOf
  <2> QED BY <1>2, <2>2
<1>5. CASE Process(c) /\ KeyOf[c] # NoKey
  <2>1. pc[c] = "idle" /\ pc'[c] = "load"
    BY <1>5 DEF Process, Goto
  <2>2. PhaseOf(c) = "outside" /\ PhaseOf(c)' = "outside"
    BY <2>1 DEF PhaseOf
  <2> QED BY <1>2, <2>2
<1>6. CASE Process(c) /\ KeyOf[c] = NoKey
  <2>1. pc[c] = "idle" /\ pc'[c] = "direct"
    BY <1>6 DEF Process, Goto
  <2>2. PhaseOf(c) = "outside" /\ PhaseOf(c)' = "serving"
    BY <2>1 DEF PhaseOf
  <2>3. Server!Bypass(c)
    BY <1>1, <1>3, <1>6, <2>2 DEF Server!Bypass, Server!Move
  <2> QED BY <2>3 DEF Server!Next
<1>7. CASE DirectReturn(c) \/ DirectPanic(c)
  <2>1. pc[c] = "direct" /\ pc'[c] \in {"done", "panicked"}
    BY <1>7 DEF DirectReturn, DirectPanic, Goto
  <2>2. KeyOf[c] = NoKey
    BY <2>1 DEF OwnInv
  <2>3. PhaseOf(c) = "serving" /\ PhaseOf(c)' \in {"done", "panicked"}
    BY <2>1 DEF PhaseOf
  <2>4. Server!Bypass(c)
    BY <1>1, <1>3, <2>2, <2>3 DEF Server!Bypass, Server!Move
  <2> QED BY <2>4 DEF Server!Next
<1>8. CASE Return(c)
  <2>1. pc[c] = "wait" /\ reply[c] # None /\ pc'[c] = "done"
    BY <1>8 DEF Return, Goto
  <2>2. PhaseOf(c) = "served"
    BY <2>1, PhaseOfJob
  <2>3. PhaseOf(c)' = "done"
    BY <2>1 DEF PhaseOf
  <2>4. Server!Leave(c)
    BY <1>1, <1>3, <2>2, <2>3 DEF Server!Leave, Server!Move
  <2> QED BY <2>4 DEF Server!Next
<1> QED BY <1>4, <1>5, <1>6, <1>7, <1>8 DEF Caller

\* Handing over a job is joining the line of its session.
LEMMA SendRefines ==
  ASSUME RInv, NEW c \in Calls, Send(c)
  PROVE  Server!Next
<1> USE ConstantsAssumption DEF RInv, IInv, TypeOK
<1> DEFINE w == worker[c]
           k == KeyOf[c]
<1>1. /\ w \in Calls /\ pc[c] = "send" /\ jobs[w] \in Seq(Calls)
      /\ jobs' = [jobs EXCEPT ![w] = Append(jobs[w], c)]
      /\ pc'[c] \in {"wait", "parked"} /\ (\A d \in Calls : d # c => pc'[d] = pc[d])
      /\ UNCHANGED <<sessions, worker, cur, result, reply>>
  BY DEF Send, Goto, WorkerInv
<1>2. /\ k \in Keys /\ k # NoKey /\ sessions[k] = w
      /\ LineOf(k) = IF InHandler(w) THEN <<cur[w]>> \o jobs[w] ELSE jobs[w]
      /\ \A l \in Keys : l # k => sessions[l] # w
  BY <1>1, LineOfWorker
<1> HIDE DEF w, k
<1>3. LineOf(k)' = Append(LineOf(k), c)
  <2>1. LineOf(k)' = IF InHandler(w) THEN <<cur[w]>> \o Append(jobs[w], c) ELSE Append(jobs[w], c)
    BY <1>1, <1>2 DEF LineOf, InHandler
  <2>2. ASSUME InHandler(w) PROVE <<cur[w]>> \o Append(jobs[w], c) = Append(<<cur[w]>> \o jobs[w], c)
    <3>1. cur[w] \in Calls
      BY <1>1, <2>2 DEF InHandler
    <3> QED BY <1>1, <3>1
  <2> QED BY <1>2, <2>1, <2>2
<1>4. ASSUME NEW l \in Keys, l # k PROVE LineOf(l)' = LineOf(l)
  BY <1>1, <1>2, <1>4 DEF LineOf, InHandler
<1>5. PhaseOf(c) = "outside"
  BY <1>1 DEF PhaseOf
<1>6. PhaseOf(c)' = "waiting"
  <2>1. Len(jobs[w]) + 1 \in DOMAIN jobs'[w] /\ jobs'[w][Len(jobs[w]) + 1] = c
    BY <1>1
  <2>2. Queued(c)'
    BY <1>1, <2>1 DEF Queued
  <2> QED BY <1>1, <2>2 DEF PhaseOf
<1>7. ASSUME NEW d \in Calls, d # c PROVE PhaseOf(d)' = PhaseOf(d)
  <2>1. Queued(d)' = Queued(d)
    <3>1. ASSUME NEW v \in Calls, v # w PROVE jobs'[v] = jobs[v]
      BY <1>1, <3>1
    <3>2. (\E i \in DOMAIN jobs'[w] : jobs'[w][i] = d) <=> (\E i \in DOMAIN jobs[w] : jobs[w][i] = d)
      <4>1. /\ DOMAIN jobs'[w] = 1..(Len(jobs[w]) + 1) /\ DOMAIN jobs[w] = 1..Len(jobs[w])
            /\ Len(jobs[w]) \in Nat /\ jobs'[w][Len(jobs[w]) + 1] = c
            /\ \A i \in DOMAIN jobs[w] : jobs'[w][i] = jobs[w][i]
        BY <1>1
      <4>2. ASSUME NEW i \in DOMAIN jobs'[w], jobs'[w][i] = d PROVE i \in DOMAIN jobs[w] /\ jobs[w][i] = d
        <5>1. i # Len(jobs[w]) + 1
          BY <1>7, <4>1, <4>2
        <5> QED BY <4>1, <4>2, <5>1
      <4>3. ASSUME NEW i \in DOMAIN jobs[w], jobs[w][i] = d PROVE i \in DOMAIN jobs'[w] /\ jobs'[w][i] = d
        BY <4>1, <4>3
      <4> QED BY <4>2, <4>3
    <3> QED BY <3>1, <3>2 DEF Queued
  <2>2. pc'[d] = pc[d] /\ worker'[d] = worker[d] /\ InHandler(worker[d])' = InHandler(worker[d])
    BY <1>1, <1>7 DEF InHandler
  <2> QED BY <1>1, <2>1, <2>2 DEF PhaseOf
<1>8. Server!Join(c)
  <2>1. [l \in Keys |-> LineOf(l)]' = [[l \in Keys |-> LineOf(l)] EXCEPT ![k] = Append(@, c)]
    BY <1>2, <1>3, <1>4
  <2>2. [d \in Calls |-> PhaseOf(d)]' = [[d \in Calls |-> PhaseOf(d)] EXCEPT ![c] = "waiting"]
    BY <1>6, <1>7
  <2> QED BY <1>2, <1>5, <2>1, <2>2 DEF Server!Join, Server!Move, k
<1> QED BY <1>8 DEF Server!Next

\* A worker that takes a job serves the oldest turn of its session's line.
LEMMA ReceiveRefines ==
  ASSUME RInv, NEW w \in Calls, Receive(w)
  PROVE  Server!Next
<1> USE ConstantsAssumption DEF RInv, IInv, TypeOK
<1>0. jobs[w][1] \in Calls
  BY ReceiveShifts
<1>a. PICK c \in Calls : c = jobs[w][1]
  BY <1>0
<1>1. /\ Len(jobs[w]) \in Nat \ {0} /\ DOMAIN jobs[w] = 1..Len(jobs[w])
      /\ cur'[w] = c /\ c \in Calls
      /\ DOMAIN jobs'[w] = 1..(Len(jobs[w]) - 1)
      /\ \A i \in DOMAIN jobs'[w] : i + 1 \in DOMAIN jobs[w] /\ jobs'[w][i] = jobs[w][i + 1]
      /\ \A v \in Calls : v # w => jobs'[v] = jobs[v] /\ cur'[v] = cur[v]
  BY <1>a, ReceiveShifts
<1>2. /\ cur[w] = None /\ result[w] = None /\ jobs[w] \in Seq(Calls) /\ jobs[w] # <<>>
      /\ jobs'[w] = Tail(jobs[w]) /\ UNCHANGED <<sessions, worker, reply, result>>
  BY DEF Receive, PlaceInv
<1>3. 1 \in DOMAIN jobs[w] /\ worker[c] = w /\ Queued(c)
  BY <1>1, <1>a DEF WorkerInv, Queued
<1>4. pc[c] \in {"parked", "wait"}
  BY <1>3, <1>a DEF PlaceInv
<1>b. PICK k \in Keys : k = KeyOf[c]
  BY <1>3, LineOfWorker
<1>5. /\ k # NoKey /\ sessions[k] = w
      /\ LineOf(k) = IF InHandler(w) THEN <<cur[w]>> \o jobs[w] ELSE jobs[w]
      /\ \A l \in Keys : l # k => sessions[l] # w
  BY <1>3, <1>b, LineOfWorker
<1>6. RInv'
  BY PlaceOfReceive, OwnStep, TypeStep, LockStep, WorkerStep DEF Next, Worker, RInv, IInv
<1>7. \A l \in Keys : LineOf(l)' = LineOf(l)
  <2>1. LineOf(k) = jobs[w]
    BY <1>2, <1>5 DEF InHandler
  <2>2. LineOf(k)' = <<c>> \o Tail(jobs[w])
    BY <1>1, <1>2, <1>5 DEF LineOf, InHandler
  <2>3. <<c>> \o Tail(jobs[w]) = jobs[w]
    BY <1>1, <1>2, <1>a
  <2>4. ASSUME NEW l \in Keys, l # k PROVE LineOf(l)' = LineOf(l)
    BY <1>1, <1>2, <1>5, <2>4 DEF LineOf, InHandler
  <2> QED BY <2>1, <2>2, <2>3, <2>4
<1>8. PhaseOf(c) = "waiting"
  BY <1>1, <1>3, <1>4, PhaseOfJob
<1>9. pc' \in [Calls -> PCs] /\ \A d \in Calls : pc'[d] # pc[d] => pc[d] = "parked" /\ pc'[d] = "wait"
  <2>1. CASE Len(jobs[w]) > jobBufferSize
    <3>1. /\ jobBufferSize + 1 \in DOMAIN jobs[w] /\ jobs[w][jobBufferSize + 1] \in Calls
          /\ ~(jobBufferSize + 1 <= jobBufferSize)
      BY <1>1, <1>2, <2>1
    <3>2. pc[jobs[w][jobBufferSize + 1]] = "parked"
      BY <3>1 DEF PlaceInv
    <3>3. pc' = [pc EXCEPT ![jobs[w][jobBufferSize + 1]] = "wait"]
      BY <2>1 DEF Receive
    <3> QED BY <1>6, <3>1, <3>2, <3>3
  <2>2. CASE ~(Len(jobs[w]) > jobBufferSize)
    BY <2>2 DEF Receive
  <2> QED BY <2>1, <2>2
<1>10. PhaseOf(c)' = "serving"
  <2>1. pc'[c] \in {"parked", "wait"}
    BY <1>1, <1>4, <1>9
  <2>2. PhaseOf(c)' = IF result'[w] = None THEN "serving" ELSE "served"
    BY <1>1, <1>6, <2>1, PhaseOfJobNext
  <2> QED BY <1>1, <1>2, <2>2
<1>11. ASSUME NEW d \in Calls, d # c PROVE PhaseOf(d)' = PhaseOf(d)
  <2>1. Queued(d)' = Queued(d)
    <3>1. (\E i \in DOMAIN jobs'[w] : jobs'[w][i] = d) => (\E i \in DOMAIN jobs[w] : jobs[w][i] = d)
      BY <1>1
    <3>2. ASSUME NEW i \in DOMAIN jobs[w], jobs[w][i] = d PROVE \E j \in DOMAIN jobs'[w] : jobs'[w][j] = d
      <4>1. i # 1
        BY <1>11, <1>a, <3>2
      <4>2. i - 1 \in DOMAIN jobs'[w] /\ jobs'[w][i - 1] = d
        BY <1>1, <3>2, <4>1
      <4> QED BY <4>2
    <3>3. ASSUME NEW v \in Calls, NEW i \in DOMAIN jobs'[v], jobs'[v][i] = d PROVE Queued(d)
      <4>1. CASE v = w
        BY <3>1, <3>3, <4>1 DEF Queued
      <4>2. CASE v # w
        BY <1>1, <3>3, <4>2 DEF Queued
      <4> QED BY <4>1, <4>2
    <3>4. ASSUME NEW v \in Calls, NEW i \in DOMAIN jobs[v], jobs[v][i] = d PROVE Queued(d)'
      <4>1. CASE v = w
        BY <3>2, <3>4, <4>1 DEF Queued
      <4>2. CASE v # w
        <5>1. jobs'[v] = jobs[v]
          BY <1>1, <4>2
        <5> QED BY <3>4, <5>1 DEF Queued
      <4> QED BY <4>1, <4>2
    <3> QED BY <3>3, <3>4 DEF Queued
  <2>2. pc'[d] = pc[d] \/ (pc[d] = "parked" /\ pc'[d] = "wait")
    BY <1>9
  <2>3. CASE pc[d] \in {"parked", "wait"}
    <3>1. worker[d] \in Calls /\ worker'[d] = worker[d] /\ pc'[d] \in {"parked", "wait"}
      BY <1>2, <2>2, <2>3 DEF WorkerInv
    <3>2. (InHandler(worker[d]) /\ cur[worker[d]] = d)' = (InHandler(worker[d]) /\ cur[worker[d]] = d)
      <4>1. CASE worker[d] = w
        BY <1>1, <1>2, <1>11, <3>1, <4>1 DEF InHandler
      <4>2. CASE worker[d] # w
        BY <1>1, <1>2, <3>1, <4>2 DEF InHandler
      <4> QED BY <4>1, <4>2
    <3> QED BY <2>1, <2>3, <3>1, <3>2 DEF PhaseOf
  <2>4. CASE pc[d] \notin {"parked", "wait"}
    BY <2>2, <2>4 DEF PhaseOf
  <2> QED BY <2>3, <2>4
<1>12. Server!Serve(c)
  <2>1. [l \in Keys |-> LineOf(l)]' = [l \in Keys |-> LineOf(l)]
    BY <1>7
  <2>2. [d \in Calls |-> PhaseOf(d)]' = [[d \in Calls |-> PhaseOf(d)] EXCEPT ![c] = "serving"]
    BY <1>10, <1>11
  <2>3. LineOf(k) # <<>> /\ Head(LineOf(k)) = c
    BY <1>2, <1>5, <1>a DEF InHandler
  <2> QED BY <1>5, <1>8, <1>b, <2>1, <2>2, <2>3 DEF Server!Serve, Server!Move
<1> QED BY <1>1, <1>12 DEF Server!Next

\* The end of a handler is the end of its turn.
LEMMA HandlerRefines ==
  ASSUME RInv, NEW w \in Calls, NEW r \in Results, HandlerEnds(w, r)
  PROVE  Server!Next
<1> USE ConstantsAssumption DEF RInv, IInv, TypeOK
<1>1. /\ cur[w] # None /\ result[w] = None /\ jobs[w] \in Seq(Calls)
      /\ result'[w] # None /\ (\A v \in Calls : v # w => result'[v] = result[v])
      /\ UNCHANGED <<pc, sessions, worker, jobs, cur, reply>>
  BY DEF HandlerEnds, Results
<1>2. PICK c \in Calls : c = cur[w]
  BY <1>1
<1>3. worker[c] = w /\ pc[c] = "wait" /\ \A v \in Calls : v # w => cur[v] # c
  BY <1>1, <1>2 DEF WorkerInv, PlaceInv
<1>4. PICK k \in Keys : k = KeyOf[c]
  BY <1>3, LineOfWorker
<1>5. /\ k # NoKey /\ sessions[k] = w
      /\ LineOf(k) = IF InHandler(w) THEN <<cur[w]>> \o jobs[w] ELSE jobs[w]
      /\ \A l \in Keys : l # k => sessions[l] # w
  BY <1>3, <1>4, LineOfWorker
<1>6. LineOf(k)' = Tail(LineOf(k))
  <2>1. LineOf(k) = <<c>> \o jobs[w]
    BY <1>1, <1>2, <1>5 DEF InHandler
  <2>2. LineOf(k)' = jobs[w]
    BY <1>1, <1>5 DEF LineOf, InHandler
  <2>3. Tail(<<c>> \o jobs[w]) = jobs[w]
    BY <1>1
  <2> QED BY <2>1, <2>2, <2>3
<1>7. ASSUME NEW l \in Keys, l # k PROVE LineOf(l)' = LineOf(l)
  BY <1>1, <1>5, <1>7 DEF LineOf, InHandler
<1>8. ~Queued(c) /\ PhaseOf(c) = "serving"
  BY <1>1, <1>2, <1>3, PhaseOfJob
<1>9. \A d \in Calls : Queued(d)' = Queued(d)
  BY <1>1 DEF Queued
<1>10. PhaseOf(c)' = "served"
  BY <1>1, <1>3, <1>8, <1>9 DEF PhaseOf, InHandler
<1>11. ASSUME NEW d \in Calls, d # c PROVE PhaseOf(d)' = PhaseOf(d)
  <2>1. CASE pc[d] \in {"parked", "wait"}
    <3>1. worker[d] \in Calls
      BY <2>1 DEF WorkerInv
    <3>2. (InHandler(worker[d]) /\ cur[worker[d]] = d)' = (InHandler(worker[d]) /\ cur[worker[d]] = d)
      BY <1>1, <1>2, <1>11, <3>1 DEF InHandler
    <3> QED BY <1>1, <1>9, <2>1, <3>1, <3>2 DEF PhaseOf
  <2>2. CASE pc[d] \notin {"parked", "wait"}
    BY <1>1, <2>2 DEF PhaseOf
  <2> QED BY <2>1, <2>2
<1>12. Server!Finish(c)
  <2>1. [l \in Keys |-> LineOf(l)]' = [[l \in Keys |-> LineOf(l)] EXCEPT ![k] = Tail(@)]
    BY <1>6, <1>7
  <2>2. [d \in Calls |-> PhaseOf(d)]' = [[d \in Calls |-> PhaseOf(d)] EXCEPT ![c] = "served"]
    BY <1>10, <1>11
  <2> QED BY <1>4, <1>5, <1>8, <2>1, <2>2 DEF Server!Finish, Server!Move
<1> QED BY <1>12 DEF Server!Next

\* Delivering the result changes nothing the callers can tell.
LEMMA ReplyRefines ==
  ASSUME RInv, NEW w \in Calls, Reply(w)
  PROVE  UNCHANGED Server!abstractVars
<1> USE ConstantsAssumption DEF RInv, IInv, TypeOK
<1>1. /\ result[w] # None /\ cur'[w] = None /\ result'[w] = None
      /\ \A v \in Calls : v # w => cur'[v] = cur[v] /\ result'[v] = result[v]
      /\ UNCHANGED <<pc, sessions, worker, jobs>>
  BY DEF Reply
<1>2. \A v \in Calls : InHandler(v)' = InHandler(v)
  BY <1>1 DEF InHandler
<1>3. \A k \in Keys : LineOf(k)' = LineOf(k)
  BY <1>1, <1>2 DEF LineOf, InHandler
<1>4. ASSUME NEW d \in Calls PROVE PhaseOf(d)' = PhaseOf(d)
  <2>1. Queued(d)' = Queued(d)
    BY <1>1 DEF Queued
  <2>2. CASE pc[d] \in {"parked", "wait"}
    <3>1. worker[d] \in Calls
      BY <2>2 DEF WorkerInv
    <3>2. (InHandler(worker[d]) /\ cur[worker[d]] = d)' = (InHandler(worker[d]) /\ cur[worker[d]] = d)
      BY <1>1, <3>1 DEF InHandler
    <3> QED BY <1>1, <2>1, <2>2, <3>1, <3>2 DEF PhaseOf
  <2>3. CASE pc[d] \notin {"parked", "wait"}
    BY <1>1, <2>3 DEF PhaseOf
  <2> QED BY <2>2, <2>3
<1> QED BY <1>3, <1>4, Stutters

\* The queue implements the server: sessions are lines served in order, one turn at
\* a time.
THEOREM QueueImplementsServer == Spec => ImplementsServer
<1>1. Init => Server!Init
  <2> SUFFICES ASSUME Init PROVE Server!Init
    OBVIOUS
  <2>1. \A k \in Keys : LineOf(k) = <<>>
    BY DEF Init, LineOf
  <2>2. \A c \in Calls : PhaseOf(c) = "outside"
    BY DEF Init, PhaseOf
  <2> QED BY <2>1, <2>2 DEF Server!Init
<1>2. RInv /\ [Next]_vars => [Server!Next]_(Server!abstractVars)
  <2> SUFFICES ASSUME RInv, [Next]_vars PROVE Server!Next \/ UNCHANGED Server!abstractVars
    OBVIOUS
  <2>1. CASE UNCHANGED vars
    <3>1. \A k \in Keys : LineOf(k)' = LineOf(k)
      BY <2>1 DEF vars, LineOf, InHandler
    <3>2. \A c \in Calls : PhaseOf(c)' = PhaseOf(c)
      BY <2>1 DEF vars, PhaseOf, Queued, InHandler
    <3> QED BY <3>1, <3>2, Stutters
  <2>2. ASSUME NEW c \in Calls, Caller(c) PROVE Server!Next \/ UNCHANGED Server!abstractVars
    BY <2>2, CallerRefines, SendRefines
  <2>3. ASSUME NEW w \in Calls, Worker(w) PROVE Server!Next \/ UNCHANGED Server!abstractVars
    BY <2>3, ReceiveRefines, HandlerRefines, ReplyRefines DEF Worker
  <2> QED BY <2>1, <2>2, <2>3 DEF Next
<1> QED BY <1>1, <1>2, RInvHolds, PTL DEF Spec, ImplementsServer, Server!Spec
=============================================================================
