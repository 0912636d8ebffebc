--------------------------- MODULE GatewaysProofs ---------------------------
(***************************************************************************)
(* What TLAPS proves of Gateways, for every set of messages, platforms and *)
(* sessions and every number of crashes; and of TelegramFormat, for every  *)
(* text.                                                                   *)
(***************************************************************************)
EXTENDS Gateways, TelegramFormat, SequenceTheorems, WellFoundedInduction, TLAPS

\* Where a message is.
Stages == {"remote", "fetched", "handler", "reply", "over", "lost"}
Phases == {"outside", "waiting", "serving", "served", "done"}

Typed ==
  /\ at \in [Messages -> Stages] /\ phase \in [Messages -> Phases]
  /\ turns \in [Messages -> Nat] /\ crashes \in Nat
  /\ acked \subseteq Messages

Before(m, n) == m < n /\ PlatformOf[m] = PlatformOf[n]

Again(m) == IF PlatformOf[m] = "telegram" THEN crashes ELSE 0

\* A platform hands out a prefix of what it has, and Telegram only takes a message as
\* received after every older one.
FetchedInOrder ==
  /\ \A m, n \in Messages : Before(m, n) /\ PlatformOf[m] \in {"telegram", "signal"} /\ at[m] = "remote"
                              => at[n] = "remote"
  /\ \A m, n \in Messages : Before(m, n) /\ PlatformOf[m] = "telegram" /\ n \in acked => m \in acked
  /\ \A m \in Messages : m \in acked => at[m] # "remote"
  /\ \A m \in Messages : PlatformOf[m] = "telegram" /\ at[m] = "lost" => m \in acked

\* A message that has not been served since the last crash has no turn of its own yet.
TurnsCounted ==
  \A m \in Messages :
    /\ at[m] = "remote" => phase[m] = "outside"
    /\ phase[m] \in {"outside", "waiting"} => turns[m] <= Again(m)
    /\ turns[m] <= 1 + Again(m)

\* The inductive invariant.
Inv == Typed /\ FetchedInOrder /\ TurnsCounted /\ AnsweredInOrder

-----------------------------------------------------------------------------

LEMMA MessagesAreNumbers == Messages \subseteq Nat
  BY GatewaysAssumption DEF GatewaysAssumption

LEMMA InvInit == Init => Inv
  <1> SUFFICES ASSUME Init PROVE Inv OBVIOUS
  <1>1. /\ at = [m \in Messages |-> "remote"] /\ acked = {}
        /\ turns = [m \in Messages |-> 0] /\ crashes = 0
        /\ phase = [m \in Messages |-> "outside"]
    BY DEF Init, Queue!Init
  <1>2. Typed
    BY <1>1 DEF Typed, Stages, Phases
  <1>3. FetchedInOrder /\ AnsweredInOrder
    <2>1. \A m \in Messages : at[m] = "remote"
      BY <1>1
    <2>2. QED BY <1>1, <2>1 DEF FetchedInOrder, AnsweredInOrder
  <1>4. TurnsCounted
    <2> SUFFICES ASSUME NEW m \in Messages
                 PROVE  phase[m] = "outside" /\ turns[m] <= Again(m) /\ turns[m] <= 1 + Again(m)
      BY DEF TurnsCounted
    <2>1. turns[m] = 0 /\ phase[m] = "outside"
      BY <1>1
    <2>2. Again(m) = 0
      BY <1>1 DEF Again
    <2>3. QED BY <2>1, <2>2
  <1>5. QED BY <1>2, <1>3, <1>4 DEF Inv

\* What Move does to every message.
LEMMA MoveFacts ==
  ASSUME Inv, NEW ms \in SUBSET Messages, NEW from \in Stages, NEW to \in Stages, Move(ms, from, to)
  PROVE  /\ at' \in [Messages -> Stages]
         /\ \A m \in ms : at[m] = from /\ at'[m] = to
         /\ \A m \in Messages \ ms : at'[m] = at[m]
  BY DEF Move, Inv, Typed

\* Polling moves the oldest messages of one platform.
LEMMA PollKeeps ==
  ASSUME Inv, NEW p \in {"telegram", "signal"}, NEW ms \in Batch(p), NEW to \in {"fetched", "lost"},
         p = "telegram" => to = "fetched",
         Move(ms, "remote", to), UNCHANGED <<line, phase, turns, crashes>>,
         acked' = acked \/ /\ p = "telegram"
                           /\ acked' = acked \cup {m \in Messages : PlatformOf[m] = "telegram"
                                                                    /\ at[m] \notin {"remote", "lost"}}
  PROVE  Inv'
  <1>1. ms \subseteq Messages /\ (\A m \in ms : PlatformOf[m] = p /\ at[m] = "remote")
    BY DEF Batch, On
  <1>2. \A m \in ms, n \in Messages \ ms : PlatformOf[n] = p /\ at[n] = "remote" => m < n
    BY DEF Batch, On
  <1>3. /\ at' \in [Messages -> Stages] /\ (\A m \in ms : at'[m] = to)
        /\ \A m \in Messages \ ms : at'[m] = at[m]
    BY <1>1, MoveFacts DEF Stages
  <1>4. Typed'
    BY <1>3 DEF Inv, Typed
  <1>5. FetchedInOrder'
    <2>1. \A m, n \in Messages : Before(m, n) /\ PlatformOf[m] \in {"telegram", "signal"} /\ at'[m] = "remote"
                                   => at'[n] = "remote"
      <3> SUFFICES ASSUME NEW m \in Messages, NEW n \in Messages, Before(m, n),
                          PlatformOf[m] \in {"telegram", "signal"}, at'[m] = "remote"
                   PROVE  at'[n] = "remote"
        OBVIOUS
      <3>1. m \notin ms /\ at[m] = "remote"
        BY <1>3
      <3>2. at[n] = "remote"
        BY <3>1 DEF Inv, FetchedInOrder
      <3>3. n \notin ms
        <4> SUFFICES ASSUME n \in ms PROVE FALSE
          OBVIOUS
        <4>1. n < m /\ m < n
          BY <1>1, <1>2, <3>1 DEF Before
        <4>2. m \in Nat /\ n \in Nat
          BY MessagesAreNumbers
        <4>3. QED BY <4>1, <4>2
      <3>4. QED BY <1>3, <3>2, <3>3
    <2>2. \A m, n \in Messages : Before(m, n) /\ PlatformOf[m] = "telegram" /\ n \in acked' => m \in acked'
      <3> SUFFICES ASSUME NEW m \in Messages, NEW n \in Messages, Before(m, n),
                          PlatformOf[m] = "telegram", n \in acked', n \notin acked
                   PROVE  m \in acked'
        BY DEF Inv, FetchedInOrder
      <3>1. at[n] \notin {"remote", "lost"}
        OBVIOUS
      <3>2. at[m] # "remote"
        BY <3>1 DEF Inv, FetchedInOrder
      <3>3. at[m] = "lost" => m \in acked
        BY DEF Inv, FetchedInOrder
      <3>4. QED BY <3>2, <3>3
    <2>3. \A m \in Messages : m \in acked' => at'[m] # "remote"
      BY <1>1, <1>3 DEF Inv, FetchedInOrder
    <2>4. \A m \in Messages : PlatformOf[m] = "telegram" /\ at'[m] = "lost" => m \in acked'
      BY <1>1, <1>3 DEF Inv, FetchedInOrder
    <2>5. QED BY <2>1, <2>2, <2>3, <2>4 DEF FetchedInOrder, Before
  <1>6. TurnsCounted'
    BY <1>1, <1>3 DEF Inv, TurnsCounted, Again
  <1>7. AnsweredInOrder'
    BY <1>1, <1>3 DEF Inv, AnsweredInOrder
  <1>8. QED BY <1>4, <1>5, <1>6, <1>7 DEF Inv

LEMMA TelegramKeeps ==
  ASSUME Inv, TelegramPolls
  PROVE  Inv'
  <1>1. PICK ms \in Batch("telegram") : Move(ms, "remote", "fetched")
    BY DEF TelegramPolls
  <1>2. QED BY <1>1, PollKeeps DEF TelegramPolls, queue

LEMMA SignalKeeps ==
  ASSUME Inv, SignalPolls
  PROVE  Inv'
  <1>1. PICK ms \in Batch("signal"), to \in {"fetched", "lost"} : Move(ms, "remote", to)
    BY DEF SignalPolls
  <1>2. QED BY <1>1, PollKeeps DEF SignalPolls, queue

\* A step of one message to a later stage, not into the handler.
LEMMA LaterKeeps ==
  ASSUME Inv, NEW m \in Messages, NEW from \in Stages, NEW to \in {"fetched", "reply", "over"},
         Move({m}, from, to),
         to = "fetched" \/ from = "remote" => PlatformOf[m] \in {"discord", "http"},
         to = "reply" => from = "handler",
         phase' = phase \/ phase' = [phase EXCEPT ![m] = "done"],
         UNCHANGED <<acked, turns, crashes>>
  PROVE  Inv'
  <1>1. at' \in [Messages -> Stages] /\ at[m] = from /\ at'[m] = to
        /\ \A n \in Messages \ {m} : at'[n] = at[n]
    BY MoveFacts DEF Stages
  <1>2. Typed'
    BY <1>1 DEF Inv, Typed, Phases
  <1>3. FetchedInOrder'
    BY <1>1 DEF Inv, FetchedInOrder, Before
  <1>4. TurnsCounted'
    <2> SUFFICES ASSUME NEW n \in Messages
                 PROVE  /\ at'[n] = "remote" => phase'[n] = "outside"
                        /\ phase'[n] \in {"outside", "waiting"} => turns'[n] <= Again(n)'
                        /\ turns'[n] <= 1 + Again(n)'
      BY DEF TurnsCounted, Again
    <2>0. turns' = turns /\ Again(n)' = Again(n)
      BY DEF Again
    <2>1. /\ at[n] = "remote" => phase[n] = "outside"
          /\ phase[n] \in {"outside", "waiting"} => turns[n] <= Again(n)
          /\ turns[n] <= 1 + Again(n)
      BY DEF Inv, TurnsCounted
    <2>2. phase'[n] = phase[n] \/ (n = m /\ phase'[n] = "done")
      BY DEF Inv, Typed
    <2>3. at'[n] = "remote" => n # m /\ at[n] = "remote"
      BY <1>1
    <2>4. QED BY <2>0, <2>1, <2>2, <2>3
  <1>5. AnsweredInOrder'
    <2> SUFFICES ASSUME NEW k \in Messages, NEW n \in Messages, k < n, PlatformOf[k] = PlatformOf[n],
                        PlatformOf[k] \in {"telegram", "signal"}, at'[n] \in {"handler", "reply"}
                 PROVE  at'[k] \in {"over", "lost"}
      BY DEF AnsweredInOrder
    <2>1. at[n] \in {"handler", "reply"}
      BY <1>1
    <2>2. at[k] \in {"over", "lost"}
      BY <2>1 DEF Inv, AnsweredInOrder
    <2>3. QED BY <1>1, <2>2
  <1>6. QED BY <1>2, <1>3, <1>4, <1>5 DEF Inv

LEMMA CallKeeps ==
  ASSUME Inv, NEW m \in Messages, CallHandler(m)
  PROVE  Inv'
  <1>1. /\ InTurn(m) /\ Move({m}, "fetched", "handler")
        /\ phase[m] = "outside" /\ phase' = [phase EXCEPT ![m] = "waiting"]
        /\ UNCHANGED <<acked, turns, crashes>>
    BY DEF CallHandler, Queue!Join, Queue!Move
  <1>2. at' \in [Messages -> Stages] /\ at[m] = "fetched" /\ at'[m] = "handler"
        /\ \A n \in Messages \ {m} : at'[n] = at[n]
    BY <1>1, MoveFacts DEF Stages
  <1>3. Typed'
    BY <1>1, <1>2 DEF Inv, Typed, Phases
  <1>4. FetchedInOrder'
    BY <1>1, <1>2 DEF Inv, FetchedInOrder, Before
  <1>5. TurnsCounted'
    BY <1>1, <1>2 DEF Inv, Typed, TurnsCounted, Again
  <1>6. AnsweredInOrder'
    <2> SUFFICES ASSUME NEW k \in Messages, NEW n \in Messages, k < n, PlatformOf[k] = PlatformOf[n],
                        PlatformOf[k] \in {"telegram", "signal"}, at'[n] \in {"handler", "reply"}
                 PROVE  at'[k] \in {"over", "lost"}
      BY DEF AnsweredInOrder
    <2>1. k \in Nat /\ n \in Nat
      BY MessagesAreNumbers
    <2>2. CASE n # m
      <3>1. at[k] \in {"over", "lost"}
        BY <1>2, <2>2 DEF Inv, AnsweredInOrder
      <3>2. QED BY <1>2, <3>1
    <2>3. CASE n = m
      <3>1. k # m
        BY <2>1, <2>3
      <3>2. at[k] \notin {"fetched", "handler", "reply"}
        BY <1>1, <2>1, <2>3 DEF InTurn, Sequential, On
      <3>3. at[k] # "remote"
        BY <1>2, <2>3 DEF Inv, FetchedInOrder, Before
      <3>4. QED BY <1>2, <3>1, <3>2, <3>3 DEF Inv, Typed, Stages
    <2>4. QED BY <2>2, <2>3
  <1>7. QED BY <1>3, <1>4, <1>5, <1>6 DEF Inv

\* The turn itself: at most one since the last crash.
LEMMA ServeKeeps ==
  ASSUME Inv, NEW m \in Messages, Serve(m)
  PROVE  Inv'
  <1>1. /\ phase[m] = "waiting" /\ phase' = [phase EXCEPT ![m] = "serving"]
        /\ turns' = [turns EXCEPT ![m] = @ + 1] /\ UNCHANGED <<at, acked, crashes>>
    BY DEF Serve, Queue!Serve, Queue!Move
  <1>2. Typed'
    BY <1>1 DEF Inv, Typed, Phases
  <1>3. FetchedInOrder' /\ AnsweredInOrder'
    BY <1>1 DEF Inv, FetchedInOrder, AnsweredInOrder, Before
  <1>4. TurnsCounted'
    <2> SUFFICES ASSUME NEW n \in Messages
                 PROVE  /\ at[n] = "remote" => phase'[n] = "outside"
                        /\ phase'[n] \in {"outside", "waiting"} => turns'[n] <= Again(n)
                        /\ turns'[n] <= 1 + Again(n)
      BY <1>1 DEF TurnsCounted, Again
    <2>1. CASE n = m
      <3>1. turns'[m] = turns[m] + 1 /\ phase'[m] = "serving" /\ turns[m] \in Nat /\ Again(m) \in Nat
        BY <1>1 DEF Inv, Typed, Again
      <3>2. turns[m] <= Again(m) /\ at[m] # "remote"
        BY <1>1 DEF Inv, TurnsCounted
      <3>3. QED BY <2>1, <3>1, <3>2
    <2>2. CASE n # m
      BY <1>1, <2>2 DEF Inv, Typed, TurnsCounted
    <2>3. QED BY <2>1, <2>2
  <1>5. QED BY <1>2, <1>3, <1>4 DEF Inv

LEMMA FinishKeeps ==
  ASSUME Inv, NEW m \in Messages, Finish(m)
  PROVE  Inv'
  <1>1. /\ phase[m] = "serving" /\ phase' = [phase EXCEPT ![m] = "served"]
        /\ UNCHANGED <<at, acked, turns, crashes>>
    BY DEF Finish, Queue!Finish, Queue!Move
  <1>2. Typed'
    BY <1>1 DEF Inv, Typed, Phases
  <1>3. FetchedInOrder' /\ AnsweredInOrder'
    BY <1>1 DEF Inv, FetchedInOrder, AnsweredInOrder, Before
  <1>4. TurnsCounted'
    BY <1>1 DEF Inv, Typed, TurnsCounted, Again
  <1>5. QED BY <1>2, <1>3, <1>4 DEF Inv

\* A crash: Telegram delivers again what it has not been told of, all newer messages
\* included; nothing else comes back.
LEMMA CrashKeeps ==
  ASSUME Inv, Crash
  PROVE  Inv'
  <1>1. /\ crashes' = crashes + 1 /\ UNCHANGED <<acked, turns>>
        /\ at' = [m \in Messages |->
             IF PlatformOf[m] = "telegram" /\ m \notin acked THEN "remote"
             ELSE IF at[m] \in {"fetched", "handler", "reply"} THEN "lost" ELSE at[m]]
        /\ phase' = [m \in Messages |-> IF at'[m] = "remote" THEN "outside" ELSE "done"]
    BY DEF Crash
  <1>2. Typed'
    BY <1>1 DEF Inv, Typed, Phases, Stages
  <1>3. FetchedInOrder'
    BY <1>1 DEF Inv, Typed, FetchedInOrder, Before
  <1>4. TurnsCounted'
    <2> SUFFICES ASSUME NEW m \in Messages
                 PROVE  /\ at'[m] = "remote" => phase'[m] = "outside"
                        /\ phase'[m] \in {"outside", "waiting"} => turns[m] <= Again(m)'
                        /\ turns[m] <= 1 + Again(m)'
      BY <1>1 DEF TurnsCounted, Again
    <2>1. turns[m] \in Nat /\ crashes \in Nat
      BY DEF Inv, Typed
    <2>2. turns[m] <= 1 + Again(m) /\ (at[m] = "remote" => turns[m] <= Again(m))
      BY DEF Inv, TurnsCounted
    <2>3. CASE PlatformOf[m] = "telegram"
      BY <1>1, <2>1, <2>2, <2>3 DEF Again
    <2>4. CASE PlatformOf[m] # "telegram"
      <3>1. at'[m] = "remote" => at[m] = "remote"
        BY <1>1, <2>4
      <3>2. phase'[m] = "outside" => at'[m] = "remote"
        BY <1>1
      <3>3. QED BY <1>1, <2>1, <2>2, <2>4, <3>1, <3>2 DEF Again
    <2>5. QED BY <2>3, <2>4
  <1>5. AnsweredInOrder'
    <2>1. \A n \in Messages : at'[n] \notin {"handler", "reply"}
      BY <1>1 DEF Inv, Typed, Stages
    <2>2. QED BY <2>1 DEF AnsweredInOrder
  <1>6. QED BY <1>2, <1>3, <1>4, <1>5 DEF Inv

-----------------------------------------------------------------------------

\* The strengthening is an invariant.
THEOREM InvAlways == Spec => []Inv
  <1>1. Inv /\ [Next]_vars => Inv'
    <2> SUFFICES ASSUME Inv, [Next]_vars PROVE Inv'
      OBVIOUS
    <2>1. CASE TelegramPolls
      BY <2>1, TelegramKeeps
    <2>2. CASE SignalPolls
      BY <2>2, SignalKeeps
    <2>3. CASE Crash
      BY <2>3, CrashKeeps
    <2>4. ASSUME NEW m \in Messages, Pushed(m) PROVE Inv'
      BY <2>4, LaterKeeps DEF Pushed, queue, Stages
    <2>5. ASSUME NEW m \in Messages, CallHandler(m) PROVE Inv'
      BY <2>5, CallKeeps
    <2>6. ASSUME NEW m \in Messages, Serve(m) PROVE Inv'
      BY <2>6, ServeKeeps
    <2>7. ASSUME NEW m \in Messages, Skip(m) PROVE Inv'
      BY <2>7, LaterKeeps DEF Skip, queue, Stages
    <2>8. ASSUME NEW m \in Messages, HandlerReturns(m) PROVE Inv'
      BY <2>8, LaterKeeps DEF HandlerReturns, Queue!Leave, Queue!Move, Stages
    <2>9. ASSUME NEW m \in Messages, Reply(m) PROVE Inv'
      BY <2>9, LaterKeeps DEF Reply, queue, Stages
    <2>10. ASSUME NEW m \in Messages, Finish(m) PROVE Inv'
      BY <2>10, FinishKeeps
    <2>11. CASE UNCHANGED vars
      BY <2>11 DEF Inv, vars, queue, Typed, FetchedInOrder, TurnsCounted, AnsweredInOrder, Before, Again
    <2>12. QED
      BY <2>1, <2>2, <2>3, <2>4, <2>5, <2>6, <2>7, <2>8, <2>9, <2>10, <2>11 DEF Next, Turn
  <1>2. QED BY <1>1, InvInit, PTL DEF Spec

\* The messages of a polled platform are taken up in the order they were sent.
THEOREM PolledInOrder == Spec => []AnsweredInOrder
  <1>1. Inv => AnsweredInOrder
    BY DEF Inv
  <1>2. QED BY <1>1, InvAlways, PTL

\* A message is at most one turn, and one more for every crash on Telegram.
THEOREM TurnsAreFew == Spec => []OneTurnPerMessage
  <1>1. Inv => OneTurnPerMessage
    BY DEF Inv, TurnsCounted, OneTurnPerMessage, Again
  <1>2. QED BY <1>1, InvAlways, PTL

-----------------------------------------------------------------------------
(* Induction and recursion over 0..n.                                      *)

\* What holds at 0 and goes on from each place to the next holds everywhere: the naturals
\* are well-founded, so there is no first place without it.
LEMMA Climb ==
  ASSUME NEW n \in Nat, NEW C, 0 \in C, \A i \in 1..n : i - 1 \in C => i \in C
  PROVE  \A i \in 0..n : i \in C
<1> DEFINE left == (0..n) \ C
           less == {p \in Nat \X Nat : p[1] < p[2]}
<1> SUFFICES ASSUME left # {} PROVE FALSE
  OBVIOUS
<1>1. IsWellFoundedOn(less, Nat)
  BY NatLessThanWellFounded, SMT DEF OpToRel
<1>2. left \subseteq Nat
  OBVIOUS
<1>3. PICK i \in left : \A j \in left : <<j, i>> \notin less
  <2> HIDE DEF left, less
  <2> QED BY <1>1, <1>2, WFMin
<1>4. i \in 1..n /\ i - 1 \in 0..n
  OBVIOUS
<1>5. i - 1 \in left
  BY <1>4
<1>6. <<i - 1, i>> \in less
  BY <1>4
<1> QED BY <1>3, <1>5, <1>6

\* Two functions that start alike and go on alike are alike.
LEMMA SameRun ==
  ASSUME NEW n \in Nat, NEW f, NEW g, f[0] = g[0],
         \A i \in 1..n : f[i - 1] = g[i - 1] => f[i] = g[i]
  PROVE  \A i \in 0..n : f[i] = g[i]
<1> DEFINE C == {i \in 0..n : f[i] = g[i]}
<1>1. 0 \in C /\ \A i \in 1..n : i - 1 \in C => i \in C
  OBVIOUS
<1>2. \A i \in 0..n : i \in C
  <2> HIDE DEF C
  <2> QED BY <1>1, Climb
<1> QED BY <1>2

\* f repeats step, from a.
Repeats(f, n, a, step) == f[0] = a /\ \A i \in 1..n : f[i] = step[i][f[i - 1]]

\* A step repeated n times is a function, whose values stay in S.
LEMMA Recursion ==
  ASSUME NEW S, NEW n \in Nat, NEW a \in S, NEW step,
         \A i \in 1..n, x \in S : step[i][x] \in S
  PROVE  \E f \in [0..n -> S] : Repeats(f, n, a, step)
<1> DEFINE Run(k, f) == f[0] = a /\ \A i \in 1..k : f[i] = step[i][f[i - 1]]
           C == {k \in 0..n : \E f \in [0..k -> S] : Run(k, f)}
<1>1. 0 \in C
  <2> DEFINE f == [i \in 0..0 |-> a]
  <2>1. f \in [0..0 -> S] /\ Run(0, f)
    OBVIOUS
  <2>2. 0 \in 0..n
    OBVIOUS
  <2> HIDE DEF f, Run
  <2> QED BY <2>1, <2>2
<1>2. ASSUME NEW k \in 1..n, k - 1 \in C PROVE k \in C
  <2>1. PICK f \in [0..(k - 1) -> S] : Run(k - 1, f)
    BY <1>2
  <2> DEFINE g == [i \in 0..k |-> IF i < k THEN f[i] ELSE step[k][f[k - 1]]]
  <2>2. k \in Nat /\ k >= 1 /\ k - 1 \in 0..(k - 1) /\ k \in 0..n
    OBVIOUS
  <2>3. step[k][f[k - 1]] \in S
    BY <2>2
  <2>4. g \in [0..k -> S]
    BY <2>2, <2>3
  <2>5. \A i \in 0..(k - 1) : g[i] = f[i]
    BY <2>2
  <2>6. g[k] = step[k][f[k - 1]]
    BY <2>2
  <2> HIDE DEF g
  <2>7. g[0] = a
    BY <2>1, <2>2, <2>5
  <2>8. ASSUME NEW i \in 1..k PROVE g[i] = step[i][g[i - 1]]
    <3>1. CASE i = k
      BY <2>2, <2>5, <2>6, <3>1
    <3>2. CASE i # k
      <4>1. i \in 1..(k - 1) /\ i \in 0..(k - 1) /\ i - 1 \in 0..(k - 1)
        BY <2>2, <3>2
      <4>2. f[i] = step[i][f[i - 1]]
        BY <2>1, <4>1
      <4> QED BY <2>5, <4>1, <4>2
    <3> QED BY <3>1, <3>2
  <2>9. Run(k, g)
    BY <2>7, <2>8
  <2> QED BY <2>2, <2>4, <2>9
<1>3. n \in C
  <2> HIDE DEF C
  <2>1. \A i \in 0..n : i \in C
    BY <1>1, <1>2, Climb
  <2> QED BY <2>1
<1> QED BY <1>3 DEF Repeats

-----------------------------------------------------------------------------
(* FlattenSeq.                                                             *)

\* FlattenSeq joins a sequence of sequences one after the other.
LEMMA Flattens ==
  ASSUME NEW A, NEW seqs \in Seq(Seq(A))
  PROVE  \E f \in [0..Len(seqs) -> Seq(A)] :
           /\ f[0] = <<>> /\ \A i \in 1..Len(seqs) : f[i] = f[i - 1] \o seqs[i]
           /\ FlattenSeq(seqs) = f[Len(seqs)]
<1> DEFINE n == Len(seqs)
           step == [i \in 1..n |-> [x \in Seq(A) |-> x \o seqs[i]]]
<1>1. n \in Nat /\ \A i \in 1..n : seqs[i] \in Seq(A)
  OBVIOUS
<1>2. ASSUME NEW i \in 1..n, NEW x \in Seq(A) PROVE step[i][x] = x \o seqs[i] /\ x \o seqs[i] \in Seq(A)
  <2>1. x \o seqs[i] \in Seq(A)
    BY <1>1, ConcatProperties
  <2> QED BY <2>1
<1>3. \A i \in 1..n, x \in Seq(A) : step[i][x] \in Seq(A)
  <2> HIDE DEF step, n
  <2> QED BY <1>2
<1>4. PICK f \in [0..n -> Seq(A)] : f[0] = <<>> /\ \A i \in 1..n : f[i] = step[i][f[i - 1]]
  <2>1. <<>> \in Seq(A) /\ n \in Nat
    BY <1>1
  <2> HIDE DEF step, n
  <2>2. PICK f \in [0..n -> Seq(A)] : Repeats(f, n, <<>>, step)
    BY <1>3, <2>1, Recursion
  <2> QED BY <2>2 DEF Repeats
<1>5. \A i \in 1..n : i - 1 \in 0..n /\ i \in 0..n
  BY <1>1
<1>6. \A i \in 1..n : f[i] = f[i - 1] \o seqs[i]
  <2> HIDE DEF step, n
  <2> QED BY <1>2, <1>4, <1>5
<1>7. FlattenSeq(seqs) = f[n]
  <2>1. CASE n = 0
    <3>1. seqs = <<>>
      BY <2>1
    <3> QED BY <1>4, <2>1, <3>1 DEF FlattenSeq
  <2>2. CASE n # 0
    <3> DEFINE g == [i \in 1..n |-> f[i]]
               h == CHOOSE h : h = [i \in 1..n |-> IF i = 1 THEN seqs[i] ELSE h[i - 1] \o seqs[i]]
    <3>1. g = [i \in 1..n |-> IF i = 1 THEN seqs[i] ELSE g[i - 1] \o seqs[i]]
      <4>1. <<>> \o seqs[1] = seqs[1]
        BY <1>1, <2>2
      <4>2. f[1] = seqs[1]
        <5>1. 1 \in 1..n /\ 1 - 1 = 0
          BY <1>1, <2>2
        <5> HIDE DEF n
        <5> QED BY <1>4, <1>6, <4>1, <5>1
      <4>3. \A i \in 1..n : i # 1 => i - 1 \in 1..n
        BY <1>1
      <4>4. \A i \in 1..n : g[i] = f[i]
        OBVIOUS
      <4>5. \A i \in 1..n : f[i] = IF i = 1 THEN seqs[i] ELSE g[i - 1] \o seqs[i]
        <5> HIDE DEF n, g
        <5> QED BY <1>6, <4>2, <4>3, <4>4
      <4> QED BY <4>5
    <3>2. h = [i \in 1..n |-> IF i = 1 THEN seqs[i] ELSE h[i - 1] \o seqs[i]]
      <4> HIDE DEF g
      <4> QED BY <3>1
    <3>3. \A i \in 1..n : h[i] = g[i]
      <4> DEFINE C == {i \in 0..n : i = 0 \/ h[i] = g[i]}
      <4>1. 0 \in C
        BY <1>1
      <4>2. ASSUME NEW i \in 1..n, i - 1 \in C PROVE i \in C
        <5> HIDE DEF h, g
        <5>1. h[i] = IF i = 1 THEN seqs[i] ELSE h[i - 1] \o seqs[i]
          BY <3>2
        <5>2. g[i] = IF i = 1 THEN seqs[i] ELSE g[i - 1] \o seqs[i]
          BY <3>1
        <5>3. i = 1 \/ i - 1 # 0
          BY <1>1
        <5> QED BY <1>5, <4>2, <5>1, <5>2, <5>3
      <4>3. \A i \in 0..n : i \in C
        <5> HIDE DEF C, n
        <5> QED BY <1>1, <4>1, <4>2, Climb
      <4> HIDE DEF h, g
      <4> QED BY <1>1, <4>3
    <3>4. FlattenSeq(seqs) = h[n]
      BY <2>2 DEF FlattenSeq
    <3>5. n \in 1..n /\ g[n] = f[n]
      BY <1>1, <2>2
    <3> HIDE DEF h, g
    <3> QED BY <3>3, <3>4, <3>5
  <2> QED BY <2>1, <2>2
<1> QED BY <1>4, <1>6, <1>7

\* What holds of the empty sequence and of s \o t when it holds of s and t holds of
\* the concatenation of sequences of which it holds.
LEMMA FlattenIn ==
  ASSUME NEW A, NEW P \in SUBSET Seq(A), <<>> \in P, \A s, t \in P : s \o t \in P,
         NEW seqs \in Seq(P)
  PROVE  FlattenSeq(seqs) \in P
<1>1. seqs \in Seq(Seq(A)) /\ Len(seqs) \in Nat /\ \A i \in 1..Len(seqs) : seqs[i] \in P
  OBVIOUS
<1>2. PICK f \in [0..Len(seqs) -> Seq(A)] :
        /\ f[0] = <<>> /\ \A i \in 1..Len(seqs) : f[i] = f[i - 1] \o seqs[i]
        /\ FlattenSeq(seqs) = f[Len(seqs)]
  BY <1>1, Flattens
<1> DEFINE C == {i \in 0..Len(seqs) : f[i] \in P}
<1>3. 0 \in C
  BY <1>1, <1>2
<1>4. ASSUME NEW i \in 1..Len(seqs), i - 1 \in C PROVE i \in C
  <2>1. i \in 0..Len(seqs) /\ f[i - 1] \in P /\ seqs[i] \in P
    BY <1>1, <1>4
  <2>2. f[i] = f[i - 1] \o seqs[i]
    BY <1>2
  <2> QED BY <2>1, <2>2
<1>5. \A i \in 0..Len(seqs) : i \in C
  <2> HIDE DEF C
  <2> QED BY <1>1, <1>3, <1>4, Climb
<1> QED BY <1>1, <1>2, <1>5

-----------------------------------------------------------------------------
(* Reading the tags of a text.                                             *)

Stacks == Seq(Tags)

LEMMA ReadTyped ==
  ASSUME NEW open \in Stacks, NEW x
  PROVE  Read(open, x) \in Stacks
<1>1. x \in Tags => <<x>> \o open \in Stacks
  BY DEF Stacks
<1>2. open # <<>> => Tail(open) \in Stacks
  BY HeadTailProperties DEF Stacks
<1> QED BY <1>1, <1>2 DEF Read

\* f is the stack of open tags as s is read.
Follows(f, open, s) ==
  f[0] = open /\ \A i \in 1..Len(s) : f[i] = Read(f[i - 1], s[i])

\* LeftOpen reads a text one token after the other.
LEMMA Reads ==
  ASSUME NEW A, NEW s \in Seq(A), NEW open \in Stacks
  PROVE  \E f \in [0..Len(s) -> Stacks] : Follows(f, open, s) /\ LeftOpen(open, s) = f[Len(s)]
<1> DEFINE n == Len(s)
           step == [i \in 1..n |-> [x \in Stacks |-> Read(x, s[i])]]
<1>1. n \in Nat
  OBVIOUS
<1>2. ASSUME NEW i \in 1..n, NEW x \in Stacks
      PROVE  step[i][x] = Read(x, s[i]) /\ step[i][x] \in Stacks
  <2>1. Read(x, s[i]) \in Stacks
    BY ReadTyped
  <2> QED BY <2>1
<1>3. \A i \in 1..n, x \in Stacks : step[i][x] \in Stacks
  <2> HIDE DEF step, n
  <2> QED BY <1>2
<1>4. PICK f \in [0..n -> Stacks] : Repeats(f, n, open, step)
  <2> HIDE DEF step, n
  <2> QED BY <1>1, <1>3, Recursion
<1>5. \A i \in 1..n : i - 1 \in 0..n /\ i \in 0..n
  BY <1>1
<1>6. f[0] = open /\ \A i \in 1..n : f[i] = Read(f[i - 1], s[i])
  <2> HIDE DEF step, n
  <2> QED BY <1>2, <1>4, <1>5 DEF Repeats
<1> DEFINE Body(g) == [i \in 0..n |-> IF i = 0 THEN open ELSE Read(g[i - 1], s[i])]
           h == CHOOSE g : g = Body(g)
<1>7. f = Body(f)
  <2>1. \A i \in 0..n : i # 0 => i \in 1..n
    BY <1>1
  <2>2. \A i \in 0..n : f[i] = IF i = 0 THEN open ELSE Read(f[i - 1], s[i])
    <3> HIDE DEF n
    <3> QED BY <1>6, <2>1
  <2> HIDE DEF n
  <2> QED BY <2>2
<1>8. h = Body(h)
  <2> HIDE DEF Body
  <2> QED BY <1>7
<1>9. \A i \in 0..n : h[i] = f[i]
  <2>1. h[0] = open /\ \A i \in 1..n : h[i] = Read(h[i - 1], s[i])
    <3> HIDE DEF h
    <3>1. \A i \in 0..n : h[i] = IF i = 0 THEN open ELSE Read(h[i - 1], s[i])
      BY <1>8
    <3>2. 0 \in 0..n /\ \A i \in 1..n : i \in 0..n /\ i # 0
      BY <1>1
    <3> HIDE DEF n
    <3> QED BY <3>1, <3>2
  <2>2. h[0] = f[0] /\ \A i \in 1..n : h[i - 1] = f[i - 1] => h[i] = f[i]
    <3> HIDE DEF h, n
    <3> QED BY <1>6, <2>1
  <2> HIDE DEF h, n
  <2> QED BY <1>1, <2>2, SameRun
<1>10. LeftOpen(open, s) = h[n]
  BY DEF LeftOpen
<1>11. LeftOpen(open, s) = f[n]
  <2> HIDE DEF h
  <2> QED BY <1>1, <1>9, <1>10
<1> HIDE DEF h
<1> QED BY <1>6, <1>11 DEF Follows

LEMMA ReadAlong ==
  ASSUME NEW A, NEW s \in Seq(A), NEW open \in Stacks, NEW f, Follows(f, open, s)
  PROVE  LeftOpen(open, s) = f[Len(s)]
<1>1. PICK g \in [0..Len(s) -> Stacks] : Follows(g, open, s) /\ LeftOpen(open, s) = g[Len(s)]
  BY Reads
<1>2. Len(s) \in Nat /\ Len(s) \in 0..Len(s)
  OBVIOUS
<1>3. f[0] = g[0] /\ \A i \in 1..Len(s) : f[i - 1] = g[i - 1] => f[i] = g[i]
  BY <1>1 DEF Follows
<1>4. \A i \in 0..Len(s) : f[i] = g[i]
  BY <1>2, <1>3, SameRun
<1> QED BY <1>1, <1>2, <1>4

LEMMA LeftOpenTyped ==
  ASSUME NEW A, NEW s \in Seq(A), NEW open \in Stacks
  PROVE  LeftOpen(open, s) \in Stacks
<1>1. Len(s) \in 0..Len(s)
  OBVIOUS
<1> QED BY <1>1, Reads

\* What a text leaves open is what its second part leaves open after the first.
LEMMA LeftOpenConcat ==
  ASSUME NEW A, NEW s \in Seq(A), NEW t \in Seq(A), NEW open \in Stacks
  PROVE  LeftOpen(open, s \o t) = LeftOpen(LeftOpen(open, s), t)
<1> DEFINE m == Len(s)
           n == Len(t)
<1>1. m \in Nat /\ n \in Nat
  OBVIOUS
<1>2. PICK f : Follows(f, open, s) /\ LeftOpen(open, s) = f[m] /\ f[m] \in Stacks
  <2>1. LeftOpen(open, s) \in Stacks
    BY LeftOpenTyped
  <2> HIDE DEF m
  <2> QED BY <2>1, Reads DEF m
<1>3. PICK g : Follows(g, f[m], t) /\ LeftOpen(f[m], t) = g[n]
  <2> HIDE DEF m, n
  <2> QED BY <1>2, Reads DEF n
<1>4. /\ s \o t \in Seq(A) /\ Len(s \o t) = m + n
      /\ \A i \in 1..(m + n) : (s \o t)[i] = IF i <= m THEN s[i] ELSE t[i - m]
  BY ConcatProperties
<1> DEFINE h == [i \in 0..(m + n) |-> IF i <= m THEN f[i] ELSE g[i - m]]
           u == s \o t
<1>5. g[0] = f[m] /\ f[0] = open
  BY <1>2, <1>3 DEF Follows
<1>6. \A i \in 0..(m + n) : h[i] = IF i <= m THEN f[i] ELSE g[i - m]
  OBVIOUS
<1>7. ASSUME NEW i \in 1..(m + n) PROVE h[i] = Read(h[i - 1], u[i])
  <2>1. i - 1 \in 0..(m + n) /\ i \in 0..(m + n)
    BY <1>1
  <2>2. CASE i <= m
    <3>1. i \in 1..m /\ i - 1 <= m
      BY <1>1, <2>2
    <3>2. f[i] = Read(f[i - 1], s[i])
      BY <1>2, <3>1 DEF Follows
    <3>3. h[i] = f[i] /\ h[i - 1] = f[i - 1] /\ u[i] = s[i]
      <4> HIDE DEF h, m, n
      <4> QED BY <1>4, <1>6, <2>1, <2>2, <3>1
    <3> HIDE DEF h, m, n, u
    <3> QED BY <3>2, <3>3
  <2>3. CASE ~(i <= m)
    <3>1. i - m \in 1..n /\ (i - m) - 1 = (i - 1) - m
      BY <1>1, <2>3
    <3>2. g[i - m] = Read(g[(i - 1) - m], t[i - m])
      BY <1>3, <3>1 DEF Follows
    <3>3. h[i] = g[i - m] /\ u[i] = t[i - m]
      <4> HIDE DEF h, m, n
      <4> QED BY <1>4, <1>6, <2>1, <2>3
    <3>4. h[i - 1] = g[(i - 1) - m]
      <4>1. CASE i - 1 <= m
        <5>1. i - 1 = m /\ (i - 1) - m = 0
          BY <1>1, <2>3, <4>1
        <5> HIDE DEF h, m, n
        <5> QED BY <1>5, <1>6, <2>1, <4>1, <5>1
      <4>2. CASE ~(i - 1 <= m)
        <5> HIDE DEF h, m, n
        <5> QED BY <1>6, <2>1, <4>2
      <4> QED BY <4>1, <4>2
    <3> HIDE DEF h, m, n, u
    <3> QED BY <3>2, <3>3, <3>4
  <2> QED BY <2>2, <2>3
<1>8. h[0] = open /\ h[m + n] = LeftOpen(f[m], t)
  <2>1. 0 \in 0..(m + n) /\ m + n \in 0..(m + n) /\ 0 <= m /\ (m + n <= m => n = 0 /\ m + n = m) /\ (m + n) - m = n
    BY <1>1
  <2> HIDE DEF h, m, n
  <2> QED BY <1>3, <1>5, <1>6, <2>1
<1> HIDE DEF h, m, n
<1>9. Follows(h, open, u) /\ Len(u) = m + n
  BY <1>4, <1>7, <1>8 DEF Follows
<1>10. LeftOpen(open, u) = h[m + n]
  <2>1. u \in Seq(A)
    BY <1>4
  <2> HIDE DEF u
  <2> QED BY <1>9, <2>1, ReadAlong
<1> QED BY <1>2, <1>8, <1>10

LEMMA LeftOpenOne ==
  ASSUME NEW x, NEW open \in Stacks
  PROVE  LeftOpen(open, <<x>>) = Read(open, x)
<1> DEFINE f == [i \in 0..1 |-> IF i = 0 THEN open ELSE Read(open, x)]
           s == <<x>>
<1>1. s \in Seq({x}) /\ Len(s) = 1 /\ s[1] = x
  OBVIOUS
<1>2. f[0] = open /\ f[1] = Read(open, x)
  OBVIOUS
<1>3. \A i \in 1..1 : i = 1 /\ i - 1 = 0
  OBVIOUS
<1> HIDE DEF f, s
<1>4. Follows(f, open, s)
  BY <1>1, <1>2, <1>3 DEF Follows
<1>5. LeftOpen(open, s) = f[1]
  BY <1>1, <1>4, ReadAlong
<1> QED BY <1>2, <1>5 DEF s

-----------------------------------------------------------------------------
(* Texts over an alphabet and the tags that leave open what was open.      *)

\* A text that leaves open what was open.
Neutral(s) == \A open \in Stacks : LeftOpen(open, s) = open

\* The texts over A and the tags that close every tag they open, and no other.
Html(A) == {s \in Seq(A \cup Tags) : Neutral(s)}

\* A text without tags is HTML,
LEMMA PlainNests ==
  ASSUME NEW A, A \cap Tags = {}, NEW s \in Seq(A)
  PROVE  s \in Html(A)
<1>1. s \in Seq(A \cup Tags) /\ Len(s) \in Nat /\ \A i \in 1..Len(s) : s[i] \in A
  OBVIOUS
<1>2. ASSUME NEW open \in Stacks PROVE LeftOpen(open, s) = open
  <2> DEFINE f == [i \in 0..Len(s) |-> open]
  <2>1. \A i \in 0..Len(s) : f[i] = open
    OBVIOUS
  <2>2. 0 \in 0..Len(s) /\ Len(s) \in 0..Len(s) /\ \A i \in 1..Len(s) : i \in 0..Len(s) /\ i - 1 \in 0..Len(s)
    BY <1>1
  <2>3. \A i \in 1..Len(s) : Read(open, s[i]) = open
    BY <1>1 DEF Read
  <2> HIDE DEF f
  <2>4. Follows(f, open, s)
    BY <2>1, <2>2, <2>3 DEF Follows
  <2> QED BY <2>1, <2>2, <2>4, ReadAlong
<1> QED BY <1>1, <1>2 DEF Html, Neutral

\* two pieces of HTML are HTML,
LEMMA HtmlConcat ==
  ASSUME NEW A, NEW s \in Html(A), NEW t \in Html(A)
  PROVE  s \o t \in Html(A)
<1>1. s \in Seq(A \cup Tags) /\ t \in Seq(A \cup Tags) /\ Neutral(s) /\ Neutral(t)
  BY DEF Html
<1>2. s \o t \in Seq(A \cup Tags)
  BY <1>1, ConcatProperties
<1>3. ASSUME NEW open \in Stacks PROVE LeftOpen(open, s \o t) = open
  <2>1. LeftOpen(open, s \o t) = LeftOpen(LeftOpen(open, s), t)
    BY <1>1, LeftOpenConcat
  <2> QED BY <1>1, <2>1 DEF Neutral
<1> QED BY <1>2, <1>3 DEF Html, Neutral

\* HTML in a tag is HTML,
LEMMA HtmlWithin ==
  ASSUME NEW A, NEW s \in Html(A), NEW tag \in {"b", "code", "pre"}
  PROVE  Within(tag, s) \in Html(A)
<1> DEFINE x == <<tag, 1>>
           y == <<tag, 2>>
           W == A \cup Tags
<1>1. x \in Tags /\ y \in Tags /\ Closes(y, x) /\ ~(\E z \in Tags : Closes(x, z))
  BY DEF Tags, Closes
<1>2. s \in Seq(W) /\ Neutral(s) /\ <<x>> \in Seq(W) /\ <<y>> \in Seq(W)
  BY <1>1 DEF Html
<1>3. <<x>> \o s \in Seq(W) /\ (<<x>> \o s) \o <<y>> \in Seq(W)
  BY <1>2, ConcatProperties
<1>4. Within(tag, s) = (<<x>> \o s) \o <<y>>
  BY DEF Within
<1> HIDE DEF x, y, W
<1>5. ASSUME NEW open \in Stacks PROVE LeftOpen(open, (<<x>> \o s) \o <<y>>) = open
  <2> DEFINE inner == <<x>> \o open
  <2>1. Read(open, x) = inner
    <3>1. open # <<>> => Head(open) \in Tags
      BY HeadTailProperties DEF Stacks
    <3> QED BY <1>1, <3>1 DEF Read
  <2>2. inner \in Stacks /\ inner # <<>> /\ Head(inner) = x /\ Tail(inner) = open
    BY <1>1 DEF Stacks
  <2> HIDE DEF inner
  <2>3. Read(inner, y) = open
    BY <1>1, <2>2 DEF Read
  <2>4. LeftOpen(open, <<x>>) = inner
    BY <2>1, LeftOpenOne
  <2>5. LeftOpen(open, <<x>> \o s) = LeftOpen(inner, s)
    BY <1>2, <2>4, LeftOpenConcat
  <2>6. LeftOpen(inner, s) = inner
    BY <1>2, <2>2 DEF Neutral
  <2>7. LeftOpen(open, (<<x>> \o s) \o <<y>>) = LeftOpen(inner, <<y>>)
    <3> DEFINE t == <<x>> \o s
    <3>1. t \in Seq(W) /\ LeftOpen(open, t) = inner
      BY <1>3, <2>5, <2>6
    <3> HIDE DEF t
    <3>2. LeftOpen(open, t \o <<y>>) = LeftOpen(LeftOpen(open, t), <<y>>)
      BY <1>2, <3>1, LeftOpenConcat
    <3> QED BY <3>1, <3>2 DEF t
  <2> QED BY <2>2, <2>3, <2>7, LeftOpenOne
<1> QED BY <1>3, <1>4, <1>5 DEF Html, Neutral, W

LEMMA EmptyNests ==
  ASSUME NEW A
  PROVE  <<>> \in Html(A)
<1>1. <<>> \in Seq({}) /\ {} \cap Tags = {}
  OBVIOUS
<1>2. <<>> \in Html({})
  BY <1>1, PlainNests
<1> QED BY <1>2 DEF Html

\* and so are any number of them.
LEMMA HtmlFlatten ==
  ASSUME NEW A, NEW seqs \in Seq(Html(A))
  PROVE  FlattenSeq(seqs) \in Html(A)
<1>1. Html(A) \in SUBSET Seq(A \cup Tags)
  BY DEF Html
<1>2. \A s, t \in Html(A) : s \o t \in Html(A)
  BY HtmlConcat
<1> QED BY <1>1, <1>2, EmptyNests, FlattenIn

LEMMA HtmlJoin ==
  ASSUME NEW A, A \cap Tags = {}, NEW sep \in A, NEW seqs \in Seq(Html(A))
  PROVE  Join(seqs, sep) \in Html(A)
<1>1. <<sep>> \in Html(A)
  <2>1. <<sep>> \in Seq(A)
    OBVIOUS
  <2> QED BY <2>1, PlainNests
<1> DEFINE parts == [i \in DOMAIN seqs |-> IF i = 1 THEN seqs[i] ELSE <<sep>> \o seqs[i]]
<1>2. DOMAIN seqs = 1..Len(seqs) /\ Len(seqs) \in Nat /\ \A i \in DOMAIN seqs : seqs[i] \in Html(A)
  OBVIOUS
<1>3. \A i \in DOMAIN seqs : <<sep>> \o seqs[i] \in Html(A)
  BY <1>1, <1>2, HtmlConcat
<1>4. parts \in [1..Len(seqs) -> Html(A)]
  BY <1>2, <1>3
<1>5. parts \in Seq(Html(A))
  <2> HIDE DEF parts
  <2> QED BY <1>2, <1>4, SeqDef
<1> HIDE DEF parts
<1>6. Join(seqs, sep) = FlattenSeq(parts)
  BY DEF Join, parts
<1> QED BY <1>5, <1>6, HtmlFlatten

\* A placeholder, which leaves open what was open, gives way to a block that does so too.
LEMMA RestoreNests ==
  ASSUME NEW A, A \cap Tags = {}, NEW s \in Html(A), NEW kind, kind \notin {"b", "code", "pre"},
         NEW blocks \in Seq(Html(A)), \A x \in A : x[1] = kind => x[2] \in 1..Len(blocks)
  PROVE  Restore(s, kind, blocks) \in Html(A)
<1> DEFINE n == Len(s)
           W == A \cup Tags
           parts == [i \in DOMAIN s |-> IF s[i][1] = kind THEN blocks[s[i][2]] ELSE <<s[i]>>]
<1>1. s \in Seq(W) /\ Neutral(s) /\ n \in Nat /\ DOMAIN s = 1..n /\ \A i \in 1..n : s[i] \in W
  BY DEF Html
<1>2. \A x \in Tags : x[1] # kind
  BY DEF Tags
<1>3. ASSUME NEW i \in 1..n, NEW open \in Stacks
      PROVE  parts[i] \in Seq(W) /\ LeftOpen(open, parts[i]) = Read(open, s[i])
  <2>1. CASE s[i][1] = kind
    <3>1. s[i] \in A /\ s[i][2] \in 1..Len(blocks)
      BY <1>1, <1>2, <2>1
    <3>2. parts[i] = blocks[s[i][2]] /\ blocks[s[i][2]] \in Html(A)
      BY <1>1, <2>1, <3>1
    <3>3. Read(open, s[i]) = open
      BY <3>1 DEF Read
    <3> HIDE DEF parts
    <3> QED BY <3>2, <3>3 DEF Html, Neutral
  <2>2. CASE s[i][1] # kind
    <3>1. parts[i] = <<s[i]>> /\ <<s[i]>> \in Seq(W)
      BY <1>1, <2>2
    <3> HIDE DEF parts
    <3> QED BY <3>1, LeftOpenOne
  <2> QED BY <2>1, <2>2
<1>4. <<>> \in Stacks
  BY DEF Stacks
<1>5. parts \in Seq(Seq(W)) /\ Len(parts) = n
  <2>1. parts = [i \in 1..n |-> parts[i]]
    BY <1>1
  <2>2. \A i \in 1..n : parts[i] \in Seq(W)
    <3> HIDE DEF parts, n, W
    <3> QED BY <1>3, <1>4
  <2> HIDE DEF parts
  <2>3. parts \in [1..n -> Seq(W)]
    <3> HIDE DEF n, W
    <3> QED BY <2>1, <2>2
  <2> QED BY <1>1, <2>3, SeqDef
<1>6. Restore(s, kind, blocks) = FlattenSeq(parts)
  BY DEF Restore
<1> HIDE DEF parts, W
<1>7. PICK f \in [0..n -> Seq(W)] :
        f[0] = <<>> /\ (\A i \in 1..n : f[i] = f[i - 1] \o parts[i]) /\ FlattenSeq(parts) = f[n]
  <2> HIDE DEF n
  <2> QED BY <1>5, Flattens
<1>8. ASSUME NEW open \in Stacks PROVE LeftOpen(open, f[n]) = open
  <2>1. PICK g \in [0..n -> Stacks] : Follows(g, open, s) /\ LeftOpen(open, s) = g[n]
    <3> HIDE DEF n
    <3> QED BY <1>1, Reads DEF n
  <2> DEFINE C == {i \in 0..n : LeftOpen(open, f[i]) = g[i]}
  <2>2. 0 \in C
    <3>1. <<>> \in Html({})
      BY EmptyNests
    <3>2. LeftOpen(open, <<>>) = open
      BY <3>1 DEF Html, Neutral
    <3> QED BY <1>1, <1>7, <2>1, <3>2 DEF Follows
  <2>3. ASSUME NEW i \in 1..n, i - 1 \in C PROVE i \in C
    <3>1. i - 1 \in 0..n /\ i \in 0..n
      BY <1>1
    <3>2. f[i - 1] \in Seq(W) /\ g[i - 1] \in Stacks /\ LeftOpen(open, f[i - 1]) = g[i - 1]
      BY <2>3, <3>1
    <3>3. parts[i] \in Seq(W) /\ LeftOpen(g[i - 1], parts[i]) = Read(g[i - 1], s[i])
      <4> HIDE DEF n
      <4> QED BY <1>3, <3>2
    <3>4. LeftOpen(open, f[i - 1] \o parts[i]) = LeftOpen(g[i - 1], parts[i])
      BY <3>2, <3>3, LeftOpenConcat
    <3>5. f[i] = f[i - 1] \o parts[i] /\ g[i] = Read(g[i - 1], s[i])
      BY <1>7, <2>1 DEF Follows
    <3> HIDE DEF n
    <3> QED BY <3>1, <3>3, <3>4, <3>5
  <2>4. \A i \in 0..n : i \in C
    <3> HIDE DEF C, n
    <3> QED BY <1>1, <2>2, <2>3, Climb
  <2>5. n \in 0..n
    BY <1>1
  <2> HIDE DEF n
  <2> QED BY <1>1, <2>1, <2>4, <2>5 DEF Neutral
<1>9. f[n] \in Seq(W)
  BY <1>1, <1>7
<1> QED BY <1>6, <1>7, <1>8, <1>9 DEF Html, Neutral, W

-----------------------------------------------------------------------------
(* Reading the text.                                                       *)

LEMMA LeastIsMin ==
  ASSUME NEW S \in SUBSET Nat, S # {}
  PROVE  Min(S) \in S /\ \A s \in S : Min(S) <= s
<1> DEFINE less == {p \in Nat \X Nat : p[1] < p[2]}
<1>1. IsWellFoundedOn(less, Nat)
  BY NatLessThanWellFounded, SMT DEF OpToRel
<1>2. PICK m \in S : \A s \in S : <<s, m>> \notin less
  <2> HIDE DEF less
  <2> QED BY <1>1, WFMin
<1>3. \A s \in S : m <= s
  <2> SUFFICES ASSUME NEW s \in S, s < m PROVE FALSE
    OBVIOUS
  <2>1. <<s, m>> \in less
    OBVIOUS
  <2> QED BY <1>2, <2>1
<1> QED BY <1>3 DEF Min

\* Find returns 0 or the place of the token.
LEMMA FindAt ==
  ASSUME NEW A, NEW s \in Seq(A), NEW t
  PROVE  Find(s, t) \in 0..Len(s) /\ Find(s, t) \in Nat
<1> DEFINE I == {i \in 1..Len(s) : s[i] = T(t)}
<1>1. Find(s, t) = IF I # {} THEN Min(I) ELSE 0
  BY DEF Find, SelectInSeq
<1>2. I \in SUBSET Nat /\ I \subseteq 1..Len(s) /\ Len(s) \in Nat
  OBVIOUS
<1> HIDE DEF I
<1>3. I # {} => Min(I) \in 1..Len(s)
  BY <1>2, LeastIsMin
<1>4. Find(s, t) = 0 \/ Find(s, t) \in 1..Len(s)
  BY <1>1, <1>3
<1> QED BY <1>2, <1>4

LEMMA SubSeqIn ==
  ASSUME NEW A, NEW s \in Seq(A), NEW i \in 1..(Len(s) + 1), NEW j \in 0..Len(s)
  PROVE  /\ SubSeq(s, i, j) \in Seq(A)
         /\ Len(SubSeq(s, i, j)) = IF i <= j THEN j - i + 1 ELSE 0
         /\ \A k \in 1..(j - i + 1) : SubSeq(s, i, j)[k] = s[i + k - 1]
<1>1. i \in Int /\ j \in Int /\ \A k \in i..j : s[k] \in A
  OBVIOUS
<1> QED BY <1>1, SubSeqProperties

LEMMA PartsIn ==
  ASSUME NEW A, NEW s \in Seq(A), NEW i \in 0..Len(s)
  PROVE  From(s, i + 1) \in Seq(A) /\ Until(s, i) \in Seq(A)
<1>1. i + 1 \in 1..(Len(s) + 1) /\ Len(s) \in 0..Len(s) /\ 1 \in 1..(Len(s) + 1)
  OBVIOUS
<1>2. From(s, i + 1) \in Seq(A)
  BY <1>1, SubSeqIn DEF From
<1>3. CASE i = 0
  <2>1. Until(s, i) = <<>>
    BY <1>3 DEF Until
  <2> QED BY <1>2, <2>1
<1>4. CASE i # 0
  <2>1. i - 1 \in 0..Len(s)
    BY <1>4
  <2>2. Until(s, i) \in Seq(A)
    BY <1>1, <2>1, SubSeqIn DEF Until
  <2> QED BY <1>2, <2>2
<1> QED BY <1>3, <1>4

LEMMA FrontIn ==
  ASSUME NEW A, NEW s \in Seq(A), s # <<>>
  PROVE  Front(s) \in Seq(A) /\ Len(Front(s)) = Len(s) - 1
<1>1. 1 \in 1..(Len(s) + 1) /\ Len(s) - 1 \in 0..Len(s) /\ Len(s) \in Nat
  OBVIOUS
<1> DEFINE u == SubSeq(s, 1, Len(s) - 1)
<1>2. u \in Seq(A) /\ Len(u) = IF 1 <= Len(s) - 1 THEN (Len(s) - 1) - 1 + 1 ELSE 0
  <2> HIDE DEF u
  <2> QED BY <1>1, SubSeqIn DEF u
<1>3. Front(s) = u
  BY DEF Front
<1> HIDE DEF u
<1> QED BY <1>1, <1>2, <1>3

LEMMA Dropped ==
  ASSUME NEW A, NEW s \in Seq(A), NEW t
  PROVE  Drop(s, t) \in Seq(A) /\ DropLast(s, t) \in Seq(A)
<1>1. Drop(s, t) \in Seq(A)
  BY HeadTailProperties DEF Drop
<1>2. DropLast(s, t) \in Seq(A)
  BY FrontIn DEF DropLast
<1> QED BY <1>1, <1>2

LEMMA Trimmed ==
  ASSUME NEW A, NEW s \in Seq(A)
  PROVE  Trim(s) \in Seq(A)
BY Dropped DEF Trim

LEMMA PutTyped ==
  ASSUME NEW A, NEW x \in A, NEW t, NEW pieces \in Seq(Seq(A)) \ {<<>>}
  PROVE  Put(pieces, x, t) \in Seq(Seq(A)) \ {<<>>}
<1>1. <<>> \in Seq(A) /\ Len(pieces) \in 1..Len(pieces)
  OBVIOUS
<1>2. Append(pieces, <<>>) \in Seq(Seq(A)) \ {<<>>}
  BY <1>1, AppendProperties
<1>3. Append(pieces[Len(pieces)], x) \in Seq(A)
  BY <1>1, AppendProperties
<1>4. [pieces EXCEPT ![Len(pieces)] = Append(@, x)] \in Seq(Seq(A)) \ {<<>>}
  <2> DEFINE e == Append(pieces[Len(pieces)], x)
             q == [pieces EXCEPT ![Len(pieces)] = e]
  <2>1. q \in Seq(Seq(A)) /\ Len(q) = Len(pieces)
    <3> HIDE DEF e
    <3> QED BY <1>1, <1>3, ExceptSeq DEF e
  <2>2. Len(pieces) # 0
    OBVIOUS
  <2> QED BY <2>1, <2>2
<1> QED BY <1>2, <1>4 DEF Put

\* h is the pieces of s, token by token.
Splits(h, A, s, t) ==
  /\ h[0] = << <<>> >> /\ \A i \in 1..Len(s) : h[i] = Put(h[i - 1], s[i], t)
  /\ \A i \in 0..Len(s) : h[i] \in Seq(Seq(A)) \ {<<>>}
  /\ Pieces(s, t) = h[Len(s)]

\* The pieces of a text are texts over what the text is made of.
LEMMA Splitting ==
  ASSUME NEW A, NEW s \in Seq(A), NEW t
  PROVE  \E h : Splits(h, A, s, t)
<1> DEFINE n == Len(s)
           S == Seq(Seq(A)) \ {<<>>}
           step == [i \in 1..n |-> [x \in S |-> Put(x, s[i], t)]]
           Body(g) == [i \in 0..n |-> IF i = 0 THEN << <<>> >> ELSE Put(g[i - 1], s[i], t)]
           h == CHOOSE g : g = Body(g)
<1>1. n \in Nat /\ << <<>> >> \in S
  OBVIOUS
<1>2. ASSUME NEW i \in 1..n, NEW x \in S
      PROVE  step[i][x] = Put(x, s[i], t) /\ step[i][x] \in S
  <2>1. Put(x, s[i], t) \in S
    BY PutTyped
  <2> QED BY <2>1
<1>3. \A i \in 1..n, x \in S : step[i][x] \in S
  <2> HIDE DEF step, n, S
  <2> QED BY <1>2
<1>4. PICK f \in [0..n -> S] : Repeats(f, n, << <<>> >>, step)
  <2> HIDE DEF step, n, S
  <2> QED BY <1>1, <1>3, Recursion
<1>5. \A i \in 1..n : i - 1 \in 0..n /\ i \in 0..n
  BY <1>1
<1>6. f[0] = << <<>> >> /\ \A i \in 1..n : f[i] = Put(f[i - 1], s[i], t)
  <2> HIDE DEF step, n, S
  <2> QED BY <1>2, <1>4, <1>5 DEF Repeats
<1>7. f = Body(f)
  <2>1. \A i \in 0..n : i # 0 => i \in 1..n
    BY <1>1
  <2>2. \A i \in 0..n : f[i] = IF i = 0 THEN << <<>> >> ELSE Put(f[i - 1], s[i], t)
    <3> HIDE DEF n
    <3> QED BY <1>6, <2>1
  <2> HIDE DEF n, S
  <2> QED BY <2>2
<1>8. h = Body(h)
  <2> HIDE DEF Body
  <2> QED BY <1>7
<1> DEFINE C == {i \in 0..n : h[i] \in S}
<1>9. 0 \in C /\ \A i \in 1..n : i - 1 \in C => i \in C
  <2> HIDE DEF h
  <2>1. \A i \in 0..n : h[i] = IF i = 0 THEN << <<>> >> ELSE Put(h[i - 1], s[i], t)
    BY <1>8
  <2>2. \A i \in 1..n : s[i] \in A
    OBVIOUS
  <2>3. 0 \in 0..n /\ \A i \in 1..n : i # 0
    BY <1>1
  <2> HIDE DEF n
  <2>4. ASSUME NEW i \in 1..n, h[i - 1] \in S PROVE h[i] \in S
    BY <1>5, <2>1, <2>2, <2>3, <2>4, PutTyped
  <2> QED BY <1>1, <1>5, <2>1, <2>3, <2>4
<1>10. \A i \in 0..n : i \in C
  <2> HIDE DEF C, n
  <2> QED BY <1>1, <1>9, Climb
<1>11. Pieces(s, t) = h[n]
  BY DEF Pieces
<1>12. h[0] = << <<>> >> /\ \A i \in 1..n : h[i] = Put(h[i - 1], s[i], t)
  <2> HIDE DEF h
  <2>1. \A i \in 0..n : h[i] = IF i = 0 THEN << <<>> >> ELSE Put(h[i - 1], s[i], t)
    BY <1>8
  <2>2. 0 \in 0..n /\ \A i \in 1..n : i # 0
    BY <1>1
  <2> HIDE DEF n
  <2> QED BY <1>5, <2>1, <2>2
<1> HIDE DEF h
<1> QED BY <1>10, <1>11, <1>12 DEF Splits

LEMMA PiecesTyped ==
  ASSUME NEW A, NEW s \in Seq(A), NEW t
  PROVE  Pieces(s, t) \in Seq(Seq(A)) \ {<<>>}
<1>1. PICK h : Splits(h, A, s, t)
  BY Splitting
<1>2. Len(s) \in 0..Len(s)
  OBVIOUS
<1> QED BY <1>1, <1>2 DEF Splits

LEMMA UnwrapTyped ==
  ASSUME NEW A, NEW s \in Seq(A)
  PROVE  Unwrap(s) \in Seq(A)
<1>1. CASE Len(s) > 2
  <2>1. s # <<>> /\ Front(s) \in Seq(A) /\ Front(s) # <<>>
    BY <1>1, FrontIn
  <2>2. Tail(Front(s)) \in Seq(A)
    BY <2>1, HeadTailProperties
  <2> QED BY <2>2, Trimmed DEF Unwrap
<1>2. CASE ~(Len(s) > 2)
  BY <1>2 DEF Unwrap
<1> QED BY <1>1, <1>2

\* h is the cell unwrapped again and again.
Strips(h, A, cell) ==
  /\ h[0] = cell /\ \A i \in 1..Len(cell) : h[i] = Unwrap(h[i - 1])
  /\ \A i \in 0..Len(cell) : h[i] \in Seq(A)
  /\ StripBold(cell) = h[Len(cell)]

LEMMA Stripping ==
  ASSUME NEW A, NEW cell \in Seq(A)
  PROVE  \E h : Strips(h, A, cell)
<1> DEFINE n == Len(cell)
           S == Seq(A)
           step == [i \in 1..n |-> [x \in S |-> Unwrap(x)]]
           Body(g) == [i \in 0..n |-> IF i = 0 THEN cell ELSE Unwrap(g[i - 1])]
           h == CHOOSE g : g = Body(g)
<1>1. n \in Nat
  OBVIOUS
<1>2. ASSUME NEW i \in 1..n, NEW x \in S
      PROVE  step[i][x] = Unwrap(x) /\ step[i][x] \in S
  <2>1. Unwrap(x) \in S
    BY UnwrapTyped
  <2> QED BY <2>1
<1>3. \A i \in 1..n, x \in S : step[i][x] \in S
  <2> HIDE DEF step, n, S
  <2> QED BY <1>2
<1>4. PICK f \in [0..n -> S] : Repeats(f, n, cell, step)
  <2> HIDE DEF step, n
  <2> QED BY <1>1, <1>3, Recursion
<1>5. \A i \in 1..n : i - 1 \in 0..n /\ i \in 0..n
  BY <1>1
<1>6. f[0] = cell /\ \A i \in 1..n : f[i] = Unwrap(f[i - 1])
  <2> HIDE DEF step, n, S
  <2> QED BY <1>2, <1>4, <1>5 DEF Repeats
<1>7. f = Body(f)
  <2>1. \A i \in 0..n : i # 0 => i \in 1..n
    BY <1>1
  <2>2. \A i \in 0..n : f[i] = IF i = 0 THEN cell ELSE Unwrap(f[i - 1])
    <3> HIDE DEF n
    <3> QED BY <1>6, <2>1
  <2> HIDE DEF n, S
  <2> QED BY <2>2
<1>8. h = Body(h)
  <2> HIDE DEF Body
  <2> QED BY <1>7
<1> DEFINE C == {i \in 0..n : h[i] \in S}
<1>9. 0 \in C /\ \A i \in 1..n : i - 1 \in C => i \in C
  <2> HIDE DEF h
  <2>1. \A i \in 0..n : h[i] = IF i = 0 THEN cell ELSE Unwrap(h[i - 1])
    BY <1>8
  <2>2. 0 \in 0..n /\ \A i \in 1..n : i # 0
    BY <1>1
  <2> HIDE DEF n
  <2>3. ASSUME NEW i \in 1..n, h[i - 1] \in S PROVE h[i] \in S
    BY <1>5, <2>1, <2>2, <2>3, UnwrapTyped
  <2> QED BY <1>1, <1>5, <2>1, <2>2, <2>3
<1>10. \A i \in 0..n : i \in C
  <2> HIDE DEF C, n
  <2> QED BY <1>1, <1>9, Climb
<1>11. StripBold(cell) = h[n]
  BY DEF StripBold
<1>12. h[0] = cell /\ \A i \in 1..n : h[i] = Unwrap(h[i - 1])
  <2> HIDE DEF h
  <2>1. \A i \in 0..n : h[i] = IF i = 0 THEN cell ELSE Unwrap(h[i - 1])
    BY <1>8
  <2>2. 0 \in 0..n /\ \A i \in 1..n : i # 0
    BY <1>1
  <2> HIDE DEF n
  <2> QED BY <1>5, <2>1, <2>2
<1> HIDE DEF h
<1> QED BY <1>10, <1>11, <1>12 DEF Strips

\* A cell keeps its alphabet when its bold is unwrapped.
LEMMA StripBoldTyped ==
  ASSUME NEW A, NEW cell \in Seq(A)
  PROVE  StripBold(cell) \in Seq(A)
<1>1. PICK h : Strips(h, A, cell)
  BY Stripping
<1>2. Len(cell) \in 0..Len(cell)
  OBVIOUS
<1> QED BY <1>1, <1>2 DEF Strips

LEMMA CellsTyped ==
  ASSUME NEW A, NEW ln \in Seq(A)
  PROVE  Cells(ln) \in Seq(Seq(A)) \ {<<>>}
<1> DEFINE raw == Pieces(DropLast(Drop(Trim(ln), "|"), "|"), "|")
<1>1. raw \in Seq(Seq(A)) \ {<<>>}
  BY Trimmed, Dropped, PiecesTyped
<1>2. Cells(ln) = [i \in DOMAIN raw |-> StripBold(Trim(raw[i]))]
  BY DEF Cells
<1> HIDE DEF raw
<1>3. DOMAIN raw = 1..Len(raw) /\ Len(raw) \in Nat /\ Len(raw) # 0 /\ \A i \in 1..Len(raw) : raw[i] \in Seq(A)
  BY <1>1
<1>4. \A i \in 1..Len(raw) : StripBold(Trim(raw[i])) \in Seq(A)
  BY <1>3, Trimmed, StripBoldTyped
<1>5. Cells(ln) \in [1..Len(raw) -> Seq(A)]
  BY <1>2, <1>3, <1>4
<1>6. Cells(ln) \in Seq(Seq(A)) /\ Len(Cells(ln)) = Len(raw)
  BY <1>3, <1>5, SeqDef
<1> QED BY <1>3, <1>6

LEMMA NonEmptyTyped ==
  ASSUME NEW B, NEW seqs \in Seq(B)
  PROVE  NonEmpty(seqs) \in Seq(B \ {<<>>})
<1> DEFINE P == Seq(B \ {<<>>})
           parts == [i \in DOMAIN seqs |-> IF seqs[i] = <<>> THEN <<>> ELSE <<seqs[i]>>]
<1>1. DOMAIN seqs = 1..Len(seqs) /\ Len(seqs) \in Nat /\ \A i \in 1..Len(seqs) : seqs[i] \in B
  OBVIOUS
<1>2. \A i \in 1..Len(seqs) : (IF seqs[i] = <<>> THEN <<>> ELSE <<seqs[i]>>) \in P
  <2>1. \A x \in B : x # <<>> => <<x>> \in P
    OBVIOUS
  <2>2. <<>> \in P
    OBVIOUS
  <2> HIDE DEF P
  <2> QED BY <1>1, <2>1, <2>2
<1>3. parts \in [1..Len(seqs) -> P]
  <2> HIDE DEF P
  <2> QED BY <1>1, <1>2
<1>4. <<>> \in P /\ P \in SUBSET Seq(B \ {<<>>})
  OBVIOUS
<1>5. \A s, t \in P : s \o t \in P
  BY ConcatProperties
<1> HIDE DEF parts, P
<1>6. parts \in Seq(P)
  BY <1>1, <1>3, SeqDef
<1>7. FlattenSeq(parts) \in P
  BY <1>4, <1>5, <1>6, FlattenIn
<1> QED BY <1>7 DEF NonEmpty, parts, P

LEMMA FencedRowsTyped ==
  ASSUME NEW A, NEW raw \in Seq(A)
  PROVE  FencedRows(raw) \in Seq(Seq(Seq(A)) \ {<<>>})
<1> DEFINE lns == Pieces(raw, "nl")
           rows == [i \in DOMAIN lns |-> NonEmpty(Pieces(lns[i], "gap"))]
<1>1. lns \in Seq(Seq(A))
  BY PiecesTyped
<1>2. FencedRows(raw) = NonEmpty(rows)
  BY DEF FencedRows
<1>3. rows \in Seq(Seq(Seq(A)))
  <2> HIDE DEF lns
  <2>1. DOMAIN lns = 1..Len(lns) /\ Len(lns) \in Nat /\ \A i \in 1..Len(lns) : lns[i] \in Seq(A)
    BY <1>1
  <2>2. ASSUME NEW i \in 1..Len(lns) PROVE NonEmpty(Pieces(lns[i], "gap")) \in Seq(Seq(A))
    <3>1. Pieces(lns[i], "gap") \in Seq(Seq(A))
      BY <2>1, PiecesTyped
    <3>2. NonEmpty(Pieces(lns[i], "gap")) \in Seq(Seq(A) \ {<<>>})
      BY <3>1, NonEmptyTyped
    <3> QED BY <3>2
  <2>3. rows \in [1..Len(lns) -> Seq(Seq(A))]
    BY <2>1, <2>2
  <2> QED BY <2>1, <2>3, SeqDef
<1> HIDE DEF rows
<1> QED BY <1>2, <1>3, NonEmptyTyped

-----------------------------------------------------------------------------
(* Writing the HTML.  An alphabet has what the formatter writes beside the *)
(* text, and no tags; Safe leaves out what has to be escaped.              *)

\* The alphabets the formatter's functions stay within.
Alphabetic(A) ==
  /\ A \cap Tags = {}
  /\ {T("escaped"), T("dash"), T("nl"), T("**"), T("tick")} \subseteq A

\* What html.EscapeString leaves.
Safe(A) == A \ {T("lt")}

LEMMA SafeAlphabet ==
  ASSUME NEW A, Alphabetic(A)
  PROVE  /\ Safe(A) \cap Tags = {} /\ Safe(A) \subseteq A
         /\ {T("escaped"), T("dash"), T("nl"), T("**"), T("num")} \cap {T("lt")} = {}
         /\ T("escaped") \in Safe(A) /\ T("dash") \in Safe(A) /\ T("nl") \in Safe(A) /\ T("**") \in Safe(A)
BY DEF Alphabetic, Safe, T

\* An escaped text has no character that is to be escaped.
LEMMA Escapes ==
  ASSUME NEW A, Alphabetic(A), NEW s \in Seq(A)
  PROVE  Escape(s) \in Seq(Safe(A)) /\ Escape(s) \in Html(Safe(A))
<1>1. DOMAIN s = 1..Len(s) /\ Len(s) \in Nat /\ \A i \in 1..Len(s) : s[i] \in A
  OBVIOUS
<1>2. \A i \in 1..Len(s) : (IF s[i] = T("lt") THEN T("escaped") ELSE s[i]) \in Safe(A)
  BY <1>1, SafeAlphabet DEF Safe
<1>3. Escape(s) \in [1..Len(s) -> Safe(A)]
  BY <1>1, <1>2 DEF Escape
<1>4. Escape(s) \in Seq(Safe(A))
  BY <1>1, <1>3, SeqDef
<1> QED BY <1>4, SafeAlphabet, PlainNests

LEMMA CodeNests ==
  ASSUME NEW A, Alphabetic(A), NEW raw \in Seq(A)
  PROVE  Code(raw) \in Html(Safe(A)) /\ Within("pre", Escape(raw)) \in Html(Safe(A))
BY Escapes, HtmlWithin DEF Code

LEMMA HeadingNests ==
  ASSUME NEW A, Alphabetic(A), NEW row \in Seq(Seq(A)) \ {<<>>}
  PROVE  Heading(row) \in Html(Safe(A))
<1> DEFINE cells == IF row[1] = <<T("#")>> THEN Tail(row) ELSE row
           parts == [i \in DOMAIN cells |-> Within("b", Escape(cells[i]))]
<1>1. cells \in Seq(Seq(A))
  BY HeadTailProperties
<1>2. Heading(row) = Join(parts, T("dash"))
  BY DEF Heading
<1> HIDE DEF cells
<1>3. DOMAIN cells = 1..Len(cells) /\ Len(cells) \in Nat /\ \A i \in 1..Len(cells) : cells[i] \in Seq(A)
  BY <1>1
<1>4. \A i \in 1..Len(cells) : Within("b", Escape(cells[i])) \in Html(Safe(A))
  BY <1>3, Escapes, HtmlWithin
<1> DEFINE H == Html(Safe(A))
<1>5. parts \in [1..Len(cells) -> H]
  <2> HIDE DEF H
  <2> QED BY <1>3, <1>4 DEF H
<1> HIDE DEF parts
<1>6. parts \in Seq(Html(Safe(A)))
  <2>1. parts \in Seq(H)
    <3> HIDE DEF H
    <3> QED BY <1>3, <1>5, SeqDef
  <2> QED BY <2>1
<1> QED BY <1>2, <1>6, HtmlJoin, SafeAlphabet

LEMMA BodyRowNests ==
  ASSUME NEW A, Alphabetic(A), NEW row \in Seq(Seq(A)) \ {<<>>}
  PROVE  BodyRow(row) \in Html(Safe(A))
<1> DEFINE S == Safe(A)
           cells == [i \in DOMAIN row |-> Escape(row[i])]
           end == <<T("nl")>>
<1>1. DOMAIN row = 1..Len(row) /\ Len(row) \in Nat /\ Len(row) # 0 /\ \A i \in 1..Len(row) : row[i] \in Seq(A)
  OBVIOUS
<1>2. \A i \in 1..Len(row) : Escape(row[i]) \in Html(S)
  BY <1>1, Escapes
<1>3. cells \in [1..Len(row) -> Html(S)]
  <2> HIDE DEF S
  <2> QED BY <1>1, <1>2
<1>4. BodyRow(row) = (IF row[1] = <<T("num")>> THEN Within("b", row[1]) \o Join(Tail(cells), T("dash"))
                      ELSE Join(cells, T("dash"))) \o end
  BY DEF BodyRow
<1> HIDE DEF cells, S
<1>5. cells \in Seq(Html(S)) /\ cells # <<>>
  <2> DEFINE H == Html(S)
  <2>1. cells \in Seq(H) /\ Len(cells) = Len(row)
    <3> DEFINE m == Len(row)
    <3>1. cells \in [1..m -> H] /\ m \in Nat
      BY <1>1, <1>3
    <3> HIDE DEF H, m
    <3>2. cells \in Seq(H) /\ Len(cells) = m
      BY <3>1, SeqDef
    <3> QED BY <3>2 DEF m
  <2> QED BY <1>1, <2>1
<1>6. Tail(cells) \in Seq(Html(S))
  BY <1>5, HeadTailProperties
<1>7. Join(cells, T("dash")) \in Html(S) /\ Join(Tail(cells), T("dash")) \in Html(S)
  BY <1>5, <1>6, HtmlJoin, SafeAlphabet DEF S
<1>8. end \in Html(S)
  <2>1. end \in Seq(S) /\ S \cap Tags = {}
    BY SafeAlphabet DEF S
  <2> QED BY <2>1, PlainNests
<1>9. row[1] = <<T("num")>> => Within("b", row[1]) \in Html(S)
  <2> SUFFICES ASSUME row[1] = <<T("num")>> PROVE row[1] \in Html(S)
    BY HtmlWithin
  <2>1. T("num") \in S
    <3>1. row[1] \in Seq(A)
      <4>1. 1 \in 1..Len(row)
        BY <1>1
      <4> QED BY <1>1, <4>1
    <3>2. row[1][1] = T("num") /\ Len(row[1]) = 1
      OBVIOUS
    <3>3. row[1][1] \in A
      BY <3>1, <3>2
    <3> QED BY <3>2, <3>3, SafeAlphabet DEF S, Safe
  <2>2. row[1] \in Seq(S) /\ S \cap Tags = {}
    BY <2>1, SafeAlphabet DEF S
  <2> QED BY <2>2, PlainNests
<1> HIDE DEF end
<1>10. row[1] = <<T("num")>> => Within("b", row[1]) \o Join(Tail(cells), T("dash")) \in Html(S)
  BY <1>7, <1>9, HtmlConcat
<1> QED BY <1>4, <1>7, <1>8, <1>10, HtmlConcat DEF S

\* A table is rendered as HTML, whatever its cells hold.
LEMMA RenderNests ==
  ASSUME NEW A, Alphabetic(A), NEW rows \in Seq(Seq(Seq(A)) \ {<<>>}) \ {<<>>}
  PROVE  Render(rows) \in Html(Safe(A))
<1> DEFINE S == Safe(A)
           n == Len(rows) - 1
           parts == [i \in 1..n |-> IF Len(rows[i + 1]) = Len(rows[1]) THEN BodyRow(rows[i + 1]) ELSE <<>>]
<1>1. /\ Len(rows) \in Nat /\ Len(rows) # 0 /\ n \in Nat /\ \A i \in 1..n : i + 1 \in 1..Len(rows)
      /\ \A i \in 1..Len(rows) : rows[i] \in Seq(Seq(A)) \ {<<>>}
  OBVIOUS
<1>2. Heading(rows[1]) \in Html(S)
  BY <1>1, HeadingNests
<1>3. \A i \in 1..n : BodyRow(rows[i + 1]) \in Html(S) /\ <<>> \in Html(S)
  BY <1>1, BodyRowNests, EmptyNests
<1>4. parts \in [1..n -> Html(S)]
  <2> HIDE DEF S, n
  <2> QED BY <1>3
<1>5. Render(rows) = IF Len(rows) = 1 THEN Heading(rows[1]) ELSE (Heading(rows[1]) \o <<T("nl")>>) \o FlattenSeq(parts)
  BY DEF Render
<1> HIDE DEF S, n, parts
<1>6. parts \in Seq(Html(S))
  BY <1>1, <1>4, SeqDef
<1>7. FlattenSeq(parts) \in Html(S)
  BY <1>6, HtmlFlatten
<1>8. <<T("nl")>> \in Html(S)
  <2>1. <<T("nl")>> \in Seq(S) /\ S \cap Tags = {}
    BY SafeAlphabet DEF S
  <2> QED BY <2>1, PlainNests
<1>9. Heading(rows[1]) \o <<T("nl")>> \in Html(S)
  BY <1>2, <1>8, HtmlConcat
<1>10. (Heading(rows[1]) \o <<T("nl")>>) \o FlattenSeq(parts) \in Html(S)
  BY <1>7, <1>9, HtmlConcat
<1> QED BY <1>2, <1>5, <1>10 DEF S

LEMMA FencedHTMLNests ==
  ASSUME NEW A, Alphabetic(A), NEW raw \in Seq(A)
  PROVE  FencedHTML(raw) \in Html(Safe(A))
<1>1. FencedRows(raw) # <<>> => Render(FencedRows(raw)) \in Html(Safe(A))
  <2>1. FencedRows(raw) \in Seq(Seq(Seq(A)) \ {<<>>})
    BY FencedRowsTyped
  <2> QED BY <2>1, RenderNests
<1> QED BY <1>1, CodeNests DEF FencedHTML

LEMMA TableHTMLNests ==
  ASSUME NEW A, Alphabetic(A), NEW lns \in Seq(Seq(A)) \ {<<>>}
  PROVE  TableHTML(lns) \in Html(Safe(A))
<1> DEFINE R == Seq(Seq(A)) \ {<<>>}
           n == IF Len(lns) >= 2 THEN Len(lns) - 2 ELSE 0
           body == [i \in 1..(Len(lns) - 2) |-> Cells(lns[i + 2])]
           head == <<Cells(lns[1])>>
<1>1. /\ Len(lns) \in Nat /\ Len(lns) # 0 /\ n \in Nat /\ 1..(Len(lns) - 2) = 1..n
      /\ \A i \in 1..n : i + 2 \in 1..Len(lns)
      /\ \A i \in 1..Len(lns) : lns[i] \in Seq(A)
  OBVIOUS
<1>2. Cells(lns[1]) \in R /\ \A i \in 1..n : Cells(lns[i + 2]) \in R
  BY <1>1, CellsTyped
<1>3. body \in [1..n -> R]
  <2> HIDE DEF n, R
  <2> QED BY <1>1, <1>2
<1>4. TableHTML(lns) = Render(head \o body)
  BY DEF TableHTML
<1>5. head \in Seq(R) /\ Len(head) = 1
  <2> HIDE DEF R
  <2> QED BY <1>2
<1> HIDE DEF R, n, body, head
<1>6. body \in Seq(R)
  BY <1>1, <1>3, SeqDef
<1>7. head \o body \in Seq(R) /\ Len(head \o body) = Len(head) + Len(body) /\ Len(body) \in Nat
  <2>1. Len(body) \in Nat
    BY <1>6
  <2> QED BY <1>5, <1>6, <2>1, ConcatProperties
<1>8. head \o body # <<>>
  BY <1>5, <1>7
<1>9. Render(head \o body) \in Html(Safe(A))
  <2> DEFINE rows == head \o body
  <2>1. rows \in Seq(Seq(Seq(A)) \ {<<>>}) \ {<<>>}
    BY <1>7, <1>8 DEF R
  <2> HIDE DEF rows
  <2> QED BY <2>1, RenderNests DEF rows
<1> QED BY <1>4, <1>9

-----------------------------------------------------------------------------
(* The formatter.                                                          *)

\* What the formatter may meet: prose, and the placeholders of the blocks it has taken.
Alphabet ==
  Prose \cup {T("escaped"), T("dash")}
    \cup ({"C"} \X (1..Len(fenced))) \cup ({"I"} \X (1..Len(inline))) \cup ({"T"} \X (1..Len(tables)))

\* Every placeholder stands for a block; what the passes over the text write has no
\* tags, and what the pass over bold text writes closes those it opens.
FormatInv ==
  /\ fenced \in Seq(Seq(Alphabet)) /\ inline \in Seq(Seq(Alphabet))
  /\ tables \in Seq(Html(Safe(Alphabet)))
  /\ rest \in Seq(Alphabet) /\ lines \in Seq(Seq(Alphabet)) /\ index \in Nat \ {0}
  /\ pass \in {"fences", "inline", "tables"} => done \in Seq(Alphabet)
  /\ pass = "bold" => rest \in Seq(Safe(Alphabet))
  /\ pass \in {"bold", "restore", "over"} => done \in Html(Safe(Alphabet))

LEMMA AlphabetHas ==
  ASSUME fenced \in Seq(Seq(Alphabet)), inline \in Seq(Seq(Alphabet)), tables \in Seq(Html(Safe(Alphabet)))
  PROVE  /\ Alphabetic(Alphabet) /\ Prose \subseteq Alphabet
         /\ \A x \in Alphabet : /\ x[1] = "C" => x[2] \in 1..Len(fenced)
                                /\ x[1] = "I" => x[2] \in 1..Len(inline)
                                /\ x[1] = "T" => x[2] \in 1..Len(tables)
<1>1. Alphabet \cap Tags = {}
  BY DEF Alphabet, Prose, Tags, T
<1>2. {T("escaped"), T("dash"), T("nl"), T("**"), T("tick")} \subseteq Alphabet /\ Prose \subseteq Alphabet
  BY DEF Alphabet, Prose, T
<1>3. ASSUME NEW x \in Alphabet
      PROVE  /\ x[1] = "C" => x[2] \in 1..Len(fenced)
             /\ x[1] = "I" => x[2] \in 1..Len(inline)
             /\ x[1] = "T" => x[2] \in 1..Len(tables)
  <2>1. CASE x \in Prose \cup {T("escaped"), T("dash")}
    BY <2>1 DEF Prose, T
  <2>2. CASE x \in {"C"} \X (1..Len(fenced))
    BY <2>2
  <2>3. CASE x \in {"I"} \X (1..Len(inline))
    BY <2>3
  <2>4. CASE x \in {"T"} \X (1..Len(tables))
    BY <2>4
  <2> QED BY <2>1, <2>2, <2>3, <2>4 DEF Alphabet
<1> QED BY <1>1, <1>2, <1>3 DEF Alphabetic

\* What is over an alphabet is over a larger one.
LEMMA Larger ==
  ASSUME NEW A, NEW B, A \subseteq B
  PROVE  /\ Seq(A) \subseteq Seq(B) /\ Seq(Seq(A)) \subseteq Seq(Seq(B))
         /\ Html(Safe(A)) \subseteq Html(Safe(B)) /\ Seq(Html(Safe(A))) \subseteq Seq(Html(Safe(B)))
<1>1. Seq(A) \subseteq Seq(B)
  OBVIOUS
<1>2. Seq(Seq(A)) \subseteq Seq(Seq(B))
  <2> DEFINE X == Seq(A)
             Y == Seq(B)
  <2>1. X \subseteq Y
    BY <1>1
  <2> HIDE DEF X, Y
  <2>2. Seq(X) \subseteq Seq(Y)
    BY <2>1
  <2> QED BY <2>2 DEF X, Y
<1>3. Html(Safe(A)) \subseteq Html(Safe(B))
  <2>1. Safe(A) \cup Tags \subseteq Safe(B) \cup Tags
    BY DEF Safe
  <2>2. Seq(Safe(A) \cup Tags) \subseteq Seq(Safe(B) \cup Tags)
    BY <2>1
  <2> QED BY <2>2 DEF Html
<1>4. Seq(Html(Safe(A))) \subseteq Seq(Html(Safe(B)))
  <2> DEFINE X == Html(Safe(A))
             Y == Html(Safe(B))
  <2>1. X \subseteq Y
    BY <1>3
  <2> HIDE DEF X, Y
  <2>2. Seq(X) \subseteq Seq(Y)
    BY <2>1
  <2> QED BY <2>2 DEF X, Y
<1> QED BY <1>1, <1>2, <1>3, <1>4

LEMMA TicksTyped ==
  ASSUME NEW A, T("tick") \in A, NEW s \in Seq(A)
  PROVE  Ticks(s) \in Seq(A)
<1> DEFINE three == [j \in 1..3 |-> T("tick")]
           parts == [i \in DOMAIN s |-> IF s[i] = T("fence") THEN three ELSE <<s[i]>>]
           P == Seq(A)
<1>1. DOMAIN s = 1..Len(s) /\ Len(s) \in Nat /\ \A i \in 1..Len(s) : <<s[i]>> \in P
  OBVIOUS
<1>2. three \in P
  <2>1. three \in [1..3 -> A]
    OBVIOUS
  <2> QED BY <2>1, SeqDef
<1>3. <<>> \in P /\ P \in SUBSET Seq(A) /\ \A t, u \in P : t \o u \in P
  BY ConcatProperties
<1> HIDE DEF three, P
<1>4. parts \in [1..Len(s) -> P]
  BY <1>1, <1>2
<1> HIDE DEF parts
<1>5. parts \in Seq(P)
  BY <1>1, <1>4, SeqDef
<1>6. FlattenSeq(parts) \in P
  BY <1>3, <1>5, FlattenIn
<1> QED BY <1>6 DEF Ticks, parts, three, P

\* Every reply starts in the invariant,
LEMMA FormatStarts == FormatInit => FormatInv
<1> SUFFICES ASSUME FormatInit PROVE FormatInv
  OBVIOUS
<1>1. text \in Seq(Prose) /\ Prose \subseteq Alphabet
  BY TextsAssumption DEF FormatInit, Alphabet
<1>2. text \in Seq(Alphabet)
  BY <1>1
<1>3. \A S : <<>> \in Seq(S)
  OBVIOUS
<1> QED BY <1>2, <1>3 DEF FormatInit, FormatInv

\* The same blocks, the same alphabet.
LEMMA SameAlphabet ==
  ASSUME UNCHANGED <<fenced, inline, tables>>
  PROVE  Alphabet' = Alphabet
BY DEF Alphabet

\* One block more.
LEMMA MoreAlphabet ==
  ASSUME fenced \in Seq(Seq(Alphabet)), inline \in Seq(Seq(Alphabet)), tables \in Seq(Html(Safe(Alphabet))),
         NEW x,
         \/ fenced' = Append(fenced, x) /\ UNCHANGED <<inline, tables>>
         \/ inline' = Append(inline, x) /\ UNCHANGED <<fenced, tables>>
         \/ tables' = Append(tables, x) /\ UNCHANGED <<fenced, inline>>
  PROVE  /\ Alphabet \subseteq Alphabet'
         /\ fenced' # fenced => <<"C", Len(fenced) + 1>> \in Alphabet'
         /\ inline' # inline => <<"I", Len(inline) + 1>> \in Alphabet'
         /\ tables' # tables => <<"T", Len(tables) + 1>> \in Alphabet'
<1>1. Len(fenced) \in Nat /\ Len(inline) \in Nat /\ Len(tables) \in Nat
  OBVIOUS
<1>2. CASE fenced' = Append(fenced, x) /\ UNCHANGED <<inline, tables>>
  <2>1. Len(fenced') = Len(fenced) + 1
    BY <1>2
  <2>2. 1..Len(fenced) \subseteq 1..Len(fenced') /\ Len(fenced) + 1 \in 1..Len(fenced')
    BY <1>1, <2>1
  <2> QED BY <1>2, <2>2 DEF Alphabet
<1>3. CASE inline' = Append(inline, x) /\ UNCHANGED <<fenced, tables>>
  <2>1. Len(inline') = Len(inline) + 1
    BY <1>3
  <2>2. 1..Len(inline) \subseteq 1..Len(inline') /\ Len(inline) + 1 \in 1..Len(inline')
    BY <1>1, <2>1
  <2> QED BY <1>3, <2>2 DEF Alphabet
<1>4. CASE tables' = Append(tables, x) /\ UNCHANGED <<fenced, inline>>
  <2>1. Len(tables') = Len(tables) + 1
    BY <1>4
  <2>2. 1..Len(tables) \subseteq 1..Len(tables') /\ Len(tables) + 1 \in 1..Len(tables')
    BY <1>1, <2>1
  <2> QED BY <1>4, <2>2 DEF Alphabet
<1> QED BY <1>2, <1>3, <1>4

\* taking out a block of fenced code keeps it,
LEMMA TakeFenceKeeps ==
  ASSUME FormatInv, TakeFence
  PROVE  FormatInv'
<1> DEFINE open == Find(rest, "fence")
           after == From(rest, open + 1)
           nl == Find(after, "nl")
           body == From(after, nl + 1)
           close == Find(body, "fence")
           A == Alphabet
           B == Alphabet'
           block == DropLast(Until(body, close), "nl")
           mark == <<"C", Len(fenced) + 1>>
<1>1. /\ pass = "fences" /\ UNCHANGED <<text, lines, index, inline, tables>>
      /\ \/ /\ done' = done \o Until(rest, open) \o <<mark>>
            /\ rest' = Drop(From(body, close + 1), "nl") /\ fenced' = Append(fenced, block) /\ pass' = pass
         \/ pass' = "inline" /\ done' = <<>> /\ rest' = Ticks(done \o rest) /\ fenced' = fenced
  BY DEF TakeFence
<1>2. /\ fenced \in Seq(Seq(A)) /\ inline \in Seq(Seq(A)) /\ tables \in Seq(Html(Safe(A)))
      /\ rest \in Seq(A) /\ lines \in Seq(Seq(A)) /\ index \in Nat \ {0} /\ done \in Seq(A)
  BY <1>1 DEF FormatInv
<1>3. /\ after \in Seq(A) /\ Until(rest, open) \in Seq(A) /\ body \in Seq(A)
      /\ Until(body, close) \in Seq(A) /\ From(body, close + 1) \in Seq(A)
  <2>1. after \in Seq(A) /\ Until(rest, open) \in Seq(A)
    BY <1>2, FindAt, PartsIn
  <2> HIDE DEF after, open
  <2>2. body \in Seq(A)
    BY <2>1, FindAt, PartsIn
  <2> HIDE DEF body
  <2> QED BY <2>1, <2>2, FindAt, PartsIn
<1>4. block \in Seq(A) /\ Drop(From(body, close + 1), "nl") \in Seq(A)
  <2> HIDE DEF body, close
  <2> QED BY <1>3, Dropped
<1> HIDE DEF open, after, nl, body, close, block
<1>5. CASE /\ done' = done \o Until(rest, open) \o <<mark>>
           /\ rest' = Drop(From(body, close + 1), "nl") /\ fenced' = Append(fenced, block) /\ pass' = pass
  <2>1. A \subseteq B /\ mark \in B
    <3>1. fenced' # fenced
      <4>1. Len(Append(fenced, block)) = Len(fenced) + 1 /\ Len(fenced) \in Nat
        BY <1>2
      <4> QED BY <1>5, <4>1
    <3> QED BY <1>1, <1>2, <1>5, <3>1, MoreAlphabet
  <2> HIDE DEF A, B
  <2>2. /\ Seq(A) \subseteq Seq(B) /\ Seq(Seq(A)) \subseteq Seq(Seq(B))
        /\ Seq(Html(Safe(A))) \subseteq Seq(Html(Safe(B)))
    BY <2>1, Larger
  <2>3. /\ fenced \in Seq(Seq(B)) /\ inline \in Seq(Seq(B)) /\ tables \in Seq(Html(Safe(B)))
        /\ lines \in Seq(Seq(B)) /\ done \in Seq(B)
    BY <1>2, <2>2
  <2>4. rest' \in Seq(B) /\ block \in Seq(B) /\ Until(rest, open) \in Seq(B)
    BY <1>3, <1>4, <1>5, <2>2
  <2>5. fenced' \in Seq(Seq(B))
    <3> DEFINE Y == Seq(B)
    <3> HIDE DEF Y
    <3> QED BY <1>5, <2>3, <2>4 DEF Y
  <2>6. done' \in Seq(B)
    <3> DEFINE s == Until(rest, open)
    <3>1. <<mark>> \in Seq(B) /\ s \in Seq(B)
      BY <2>1, <2>4
    <3> HIDE DEF s, mark
    <3>2. done \o s \o <<mark>> \in Seq(B)
      BY <2>3, <3>1, ConcatProperties
    <3> QED BY <1>5, <3>2 DEF s
  <2> QED BY <1>1, <1>2, <1>5, <2>3, <2>4, <2>5, <2>6 DEF FormatInv, B
<1>6. CASE pass' = "inline" /\ done' = <<>> /\ rest' = Ticks(done \o rest) /\ fenced' = fenced
  <2>1. B = A
    BY <1>1, <1>6, SameAlphabet
  <2>2. done \o rest \in Seq(A) /\ T("tick") \in A
    BY <1>2, ConcatProperties, AlphabetHas DEF Alphabetic
  <2>3. rest' \in Seq(A)
    BY <1>6, <2>2, TicksTyped
  <2> HIDE DEF A
  <2> QED BY <1>1, <1>2, <1>6, <2>1, <2>3 DEF FormatInv
<1> QED BY <1>1, <1>5, <1>6

\* so does a span of inline code,
LEMMA TakeInlineKeeps ==
  ASSUME FormatInv, TakeInline
  PROVE  FormatInv'
<1> DEFINE open == Find(rest, "tick")
           after == From(rest, open + 1)
           close == Find(after, "tick")
           A == Alphabet
           B == Alphabet'
           chunk == Until(after, close)
           mark == <<"I", Len(inline) + 1>>
<1>1. /\ pass = "inline" /\ UNCHANGED <<text, index, fenced, tables>>
      /\ \/ /\ done' = done \o Until(rest, open) \o <<mark>>
            /\ rest' = From(after, close + 1) /\ inline' = Append(inline, chunk) /\ pass' = pass /\ lines' = lines
         \/ /\ pass' = "tables" /\ done' = <<>> /\ rest' = <<>>
            /\ lines' = Pieces(done \o rest, "nl") /\ inline' = inline
  BY DEF TakeInline
<1>2. /\ fenced \in Seq(Seq(A)) /\ inline \in Seq(Seq(A)) /\ tables \in Seq(Html(Safe(A)))
      /\ rest \in Seq(A) /\ lines \in Seq(Seq(A)) /\ index \in Nat \ {0} /\ done \in Seq(A)
  BY <1>1 DEF FormatInv
<1>3. after \in Seq(A) /\ Until(rest, open) \in Seq(A)
  BY <1>2, FindAt, PartsIn
<1>4. chunk \in Seq(A) /\ From(after, close + 1) \in Seq(A)
  <2> HIDE DEF after
  <2> QED BY <1>3, FindAt, PartsIn
<1> HIDE DEF open, after, close, chunk
<1>5. CASE /\ done' = done \o Until(rest, open) \o <<mark>>
           /\ rest' = From(after, close + 1) /\ inline' = Append(inline, chunk) /\ pass' = pass /\ lines' = lines
  <2>1. A \subseteq B /\ mark \in B
    <3>1. inline' # inline
      <4>1. Len(Append(inline, chunk)) = Len(inline) + 1 /\ Len(inline) \in Nat
        BY <1>2
      <4> QED BY <1>5, <4>1
    <3> QED BY <1>1, <1>2, <1>5, <3>1, MoreAlphabet
  <2> HIDE DEF A, B
  <2>2. /\ Seq(A) \subseteq Seq(B) /\ Seq(Seq(A)) \subseteq Seq(Seq(B))
        /\ Seq(Html(Safe(A))) \subseteq Seq(Html(Safe(B)))
    BY <2>1, Larger
  <2>3. /\ fenced \in Seq(Seq(B)) /\ inline \in Seq(Seq(B)) /\ tables \in Seq(Html(Safe(B)))
        /\ lines \in Seq(Seq(B)) /\ done \in Seq(B)
    BY <1>2, <2>2
  <2>4. rest' \in Seq(B) /\ chunk \in Seq(B) /\ Until(rest, open) \in Seq(B)
    BY <1>3, <1>4, <1>5, <2>2
  <2>5. inline' \in Seq(Seq(B))
    <3> DEFINE Y == Seq(B)
    <3> HIDE DEF Y
    <3> QED BY <1>5, <2>3, <2>4 DEF Y
  <2>6. done' \in Seq(B)
    <3> DEFINE s == Until(rest, open)
    <3>1. <<mark>> \in Seq(B) /\ s \in Seq(B)
      BY <2>1, <2>4
    <3> HIDE DEF s, mark
    <3>2. done \o s \o <<mark>> \in Seq(B)
      BY <2>3, <3>1, ConcatProperties
    <3> QED BY <1>5, <3>2 DEF s
  <2> QED BY <1>1, <1>2, <1>5, <2>3, <2>4, <2>5, <2>6 DEF FormatInv, B
<1>6. CASE /\ pass' = "tables" /\ done' = <<>> /\ rest' = <<>>
           /\ lines' = Pieces(done \o rest, "nl") /\ inline' = inline
  <2>1. B = A
    BY <1>1, <1>6, SameAlphabet
  <2>2. done \o rest \in Seq(A)
    BY <1>2, ConcatProperties
  <2>3. lines' \in Seq(Seq(A))
    BY <1>6, <2>2, PiecesTyped
  <2> HIDE DEF A
  <2> QED BY <1>1, <1>2, <1>6, <2>1, <2>3 DEF FormatInv
<1> QED BY <1>1, <1>5, <1>6

LEMMA WrittenTyped ==
  ASSUME NEW A, T("nl") \in A, done \in Seq(A), NEW s \in Seq(A), NEW end
  PROVE  Written(s, end) \in Seq(A)
<1> DEFINE nl == IF end > Len(lines) THEN <<>> ELSE <<T("nl")>>
<1>1. nl \in Seq(A)
  OBVIOUS
<1> HIDE DEF nl
<1>2. done \o s \o nl \in Seq(A)
  BY <1>1, ConcatProperties
<1> QED BY <1>2 DEF Written, nl

\* A table has a line at least.
LEMMA TableEnds ==
  ASSUME NEW A, NEW lns \in Seq(Seq(A)), NEW i \in 1..Len(lns), IsTableStart(lns, i)
  PROVE  /\ TableEnd(lns, i) \in Nat \ {0}
         /\ SubSeq(lns, i, TableEnd(lns, i) - 1) \in Seq(Seq(A)) \ {<<>>}
<1> DEFINE S == {j \in i..Len(lns) : ~IsRow(lns[j])} \cup {Len(lns) + 1}
           end == TableEnd(lns, i)
           Y == Seq(A)
<1>1. S \in SUBSET Nat /\ S # {} /\ S \subseteq i..(Len(lns) + 1) /\ Len(lns) \in Nat
  OBVIOUS
<1>2. end = Min(S)
  BY DEF TableEnd
<1>3. i \notin S
  BY DEF IsTableStart
<1> HIDE DEF S
<1>4. end \in S
  BY <1>1, <1>2, LeastIsMin
<1> HIDE DEF end
<1>5. end \in (i + 1)..(Len(lns) + 1)
  BY <1>1, <1>3, <1>4
<1>6. end - 1 \in 0..Len(lns) /\ i <= end - 1 /\ i \in 1..(Len(lns) + 1) /\ end \in Nat \ {0}
  BY <1>5
<1> DEFINE u == SubSeq(lns, i, end - 1)
<1>7. u \in Seq(Y) /\ Len(u) = (end - 1) - i + 1
  <2> HIDE DEF Y, u
  <2>1. lns \in Seq(Y)
    BY DEF Y
  <2> QED BY <1>6, <2>1, SubSeqIn DEF u
<1>8. Len(u) # 0
  <2> HIDE DEF u
  <2> QED BY <1>5, <1>7
<1>9. u \in Seq(Seq(A)) \ {<<>>}
  <2> HIDE DEF u
  <2> QED BY <1>7, <1>8
<1> QED BY <1>6, <1>9 DEF end

\* a table, which is HTML from then on, a line of prose or the end of them,
LEMMA TakeTableKeeps ==
  ASSUME FormatInv, TakeTable
  PROVE  FormatInv'
<1> DEFINE A == Alphabet
           B == Alphabet'
           end == TableEnd(lines, index)
           table == TableHTML(SubSeq(lines, index, end - 1))
           mark == <<"T", Len(tables) + 1>>
<1>1. /\ pass = "tables" /\ UNCHANGED <<text, lines, fenced, inline>>
      /\ \/ /\ index <= Len(lines) /\ IsTableStart(lines, index) /\ tables' = Append(tables, table)
            /\ done' = Written(<<mark>>, end) /\ index' = end /\ pass' = pass /\ rest' = rest
         \/ /\ index <= Len(lines) /\ done' = Written(lines[index], index + 1)
            /\ index' = index + 1 /\ pass' = pass /\ rest' = rest /\ tables' = tables
         \/ pass' = "bold" /\ done' = <<>> /\ rest' = Escape(done) /\ index' = index /\ tables' = tables
  BY DEF TakeTable
<1>2. /\ fenced \in Seq(Seq(A)) /\ inline \in Seq(Seq(A)) /\ tables \in Seq(Html(Safe(A)))
      /\ rest \in Seq(A) /\ lines \in Seq(Seq(A)) /\ index \in Nat \ {0} /\ done \in Seq(A)
  BY <1>1 DEF FormatInv
<1>3. Alphabetic(A) /\ T("nl") \in A
  BY <1>2, AlphabetHas DEF Alphabetic
<1>4. CASE /\ index <= Len(lines) /\ IsTableStart(lines, index) /\ tables' = Append(tables, table)
           /\ done' = Written(<<mark>>, end) /\ index' = end /\ pass' = pass /\ rest' = rest
  <2>1. index \in 1..Len(lines)
    BY <1>2, <1>4
  <2>2. end \in Nat \ {0} /\ SubSeq(lines, index, end - 1) \in Seq(Seq(A)) \ {<<>>}
    <3> HIDE DEF A
    <3> QED BY <1>2, <1>4, <2>1, TableEnds
  <2>3. table \in Html(Safe(A))
    <3> HIDE DEF end, A
    <3> QED BY <1>3, <2>2, TableHTMLNests
  <2> HIDE DEF end, table
  <2>4. A \subseteq B /\ mark \in B
    <3>1. tables' # tables
      <4> DEFINE Y == Html(Safe(A))
      <4>1. tables \in Seq(Y)
        BY <1>2
      <4> HIDE DEF Y
      <4>2. Len(Append(tables, table)) = Len(tables) + 1 /\ Len(tables) \in Nat
        BY <4>1
      <4> QED BY <1>4, <4>2
    <3> QED BY <1>1, <1>2, <1>4, <3>1, MoreAlphabet
  <2> HIDE DEF A, B
  <2>5. /\ Seq(A) \subseteq Seq(B) /\ Seq(Seq(A)) \subseteq Seq(Seq(B))
        /\ Html(Safe(A)) \subseteq Html(Safe(B)) /\ Seq(Html(Safe(A))) \subseteq Seq(Html(Safe(B)))
    BY <2>4, Larger
  <2>6. /\ fenced \in Seq(Seq(B)) /\ inline \in Seq(Seq(B)) /\ tables \in Seq(Html(Safe(B)))
        /\ lines \in Seq(Seq(B)) /\ done \in Seq(B) /\ rest \in Seq(B) /\ table \in Html(Safe(B))
    BY <1>2, <2>3, <2>5
  <2>7. tables' \in Seq(Html(Safe(B)))
    <3> DEFINE Y == Html(Safe(B))
    <3> HIDE DEF Y
    <3> QED BY <1>4, <2>6 DEF Y
  <2>8. done' \in Seq(B)
    <3>1. <<mark>> \in Seq(B) /\ T("nl") \in B
      BY <1>3, <2>4
    <3> HIDE DEF mark
    <3> QED BY <1>4, <2>6, <3>1, WrittenTyped
  <2> QED BY <1>1, <1>4, <2>2, <2>6, <2>7, <2>8 DEF FormatInv, B
<1>5. CASE /\ index <= Len(lines) /\ done' = Written(lines[index], index + 1)
           /\ index' = index + 1 /\ pass' = pass /\ rest' = rest /\ tables' = tables
  <2>1. B = A
    BY <1>1, <1>5, SameAlphabet
  <2> HIDE DEF A
  <2>2. lines[index] \in Seq(A)
    BY <1>2, <1>5
  <2>3. done' \in Seq(A)
    BY <1>2, <1>3, <1>5, <2>2, WrittenTyped
  <2>4. index' \in Nat \ {0}
    BY <1>2, <1>5
  <2> QED BY <1>1, <1>2, <1>5, <2>1, <2>3, <2>4 DEF FormatInv
<1>6. CASE pass' = "bold" /\ done' = <<>> /\ rest' = Escape(done) /\ index' = index /\ tables' = tables
  <2>1. B = A
    BY <1>1, <1>6, SameAlphabet
  <2> HIDE DEF A
  <2>2. rest' \in Seq(Safe(A)) /\ done' \in Html(Safe(A))
    BY <1>2, <1>3, <1>6, Escapes, EmptyNests
  <2>3. rest' \in Seq(A)
    BY <1>3, <2>2, SafeAlphabet
  <2> QED BY <1>1, <1>2, <1>6, <2>1, <2>2, <2>3 DEF FormatInv
<1> QED BY <1>1, <1>4, <1>5, <1>6

\* a pair of asterisks, which puts HTML around a part of the text,
LEMMA TakeBoldKeeps ==
  ASSUME FormatInv, TakeBold
  PROVE  FormatInv'
<1> DEFINE open == Find(rest, "**")
           after == From(rest, open + 1)
           close == Find(after, "**")
           A == Alphabet
           S == Safe(A)
           H == Html(S)
<1>1. /\ pass = "bold" /\ UNCHANGED <<text, lines, index, fenced, inline, tables>>
      /\ \/ /\ done' = done \o Until(rest, open) \o Within("b", Until(after, close))
            /\ rest' = From(after, close + 1) /\ pass' = pass
         \/ done' = done \o Until(rest, open) \o <<T("**")>> /\ rest' = after /\ pass' = pass
         \/ pass' = "restore" /\ done' = done \o rest /\ rest' = <<>>
  BY DEF TakeBold
<1>2. /\ fenced \in Seq(Seq(A)) /\ inline \in Seq(Seq(A)) /\ tables \in Seq(Html(S))
      /\ rest \in Seq(S) /\ lines \in Seq(Seq(A)) /\ index \in Nat \ {0} /\ done \in H
  BY <1>1 DEF FormatInv
<1>3. Alphabetic(A) /\ S \cap Tags = {} /\ S \subseteq A /\ T("**") \in S
  <2>1. Alphabetic(A)
    BY <1>2, AlphabetHas
  <2> QED BY <2>1, SafeAlphabet
<1>4. Alphabet' = A
  BY <1>1, SameAlphabet
<1> HIDE DEF A, S
<1>5. after \in Seq(S) /\ Until(rest, open) \in Seq(S)
  BY <1>2, FindAt, PartsIn
<1>6. Until(after, close) \in Seq(S) /\ From(after, close + 1) \in Seq(S)
  <2> HIDE DEF after
  <2> QED BY <1>5, FindAt, PartsIn
<1> HIDE DEF open, after, close, H
<1>7. \A s \in Seq(S) : s \in H
  BY <1>3, PlainNests DEF H
<1>8. \A s, t \in H : s \o t \in H
  BY HtmlConcat DEF H
<1>9. Within("b", Until(after, close)) \in H /\ <<T("**")>> \in H
  <2>1. <<T("**")>> \in Seq(S)
    BY <1>3
  <2> QED BY <1>6, <1>7, <2>1, HtmlWithin DEF H
<1>10. done \o Until(rest, open) \in H
  BY <1>2, <1>5, <1>7, <1>8
<1>11. done' \in H
  BY <1>1, <1>2, <1>7, <1>8, <1>9, <1>10
<1>12. rest' \in Seq(S) /\ pass' \in {"bold", "restore"}
  <2>1. <<>> \in Seq(S)
    OBVIOUS
  <2> QED BY <1>1, <1>5, <1>6, <2>1, Zenon
<1>13. rest' \in Seq(A)
  BY <1>3, <1>12
<1> QED BY <1>1, <1>2, <1>4, <1>11, <1>12, <1>13 DEF FormatInv, S, H

\* What is put back nests: the code and the tables, and what they are put into.
LEMMA BlocksBack ==
  ASSUME FormatInv, pass = "restore"
  PROVE  LET codes == [i \in DOMAIN inline |-> Code(inline[i])]
             pres == [i \in DOMAIN fenced |-> FencedHTML(fenced[i])]
             H == Html(Safe(Alphabet))
             withCode == Restore(done, "I", codes)
             withTables == Restore(withCode, "T", tables)
         IN /\ codes \in Seq(H) /\ Len(codes) = Len(inline) /\ pres \in Seq(H) /\ Len(pres) = Len(fenced)
            /\ done \in H /\ withCode \in H /\ withTables \in H /\ Restore(withTables, "C", pres) \in H
<1> DEFINE codes == [i \in DOMAIN inline |-> Code(inline[i])]
           pres == [i \in DOMAIN fenced |-> FencedHTML(fenced[i])]
           A == Alphabet
           S == Safe(A)
           H == Html(S)
           withCode == Restore(done, "I", codes)
           withTables == Restore(withCode, "T", tables)
<1>1. /\ fenced \in Seq(Seq(A)) /\ inline \in Seq(Seq(A)) /\ tables \in Seq(H)
      /\ rest \in Seq(A) /\ lines \in Seq(Seq(A)) /\ index \in Nat \ {0} /\ done \in H
  BY DEF FormatInv
<1>2. /\ Alphabetic(A)
      /\ \A x \in A : /\ x[1] = "C" => x[2] \in 1..Len(fenced)
                      /\ x[1] = "I" => x[2] \in 1..Len(inline)
                      /\ x[1] = "T" => x[2] \in 1..Len(tables)
  BY <1>1, AlphabetHas
<1> HIDE DEF A
<1>3. S \cap Tags = {} /\ S \subseteq A
  BY <1>2, SafeAlphabet
<1>4. codes \in Seq(H) /\ Len(codes) = Len(inline)
  <2> DEFINE n == Len(inline)
  <2>1. DOMAIN inline = 1..n /\ n \in Nat /\ \A i \in 1..n : inline[i] \in Seq(A)
    BY <1>1
  <2>2. \A i \in 1..n : Code(inline[i]) \in H
    <3> HIDE DEF n
    <3> QED BY <1>2, <2>1, CodeNests
  <2> HIDE DEF n, H
  <2>3. codes \in [1..n -> H]
    BY <2>1, <2>2
  <2> HIDE DEF codes
  <2> QED BY <2>1, <2>3, SeqDef DEF n
<1>5. pres \in Seq(H) /\ Len(pres) = Len(fenced)
  <2> DEFINE n == Len(fenced)
  <2>1. DOMAIN fenced = 1..n /\ n \in Nat /\ \A i \in 1..n : fenced[i] \in Seq(A)
    BY <1>1
  <2>2. \A i \in 1..n : FencedHTML(fenced[i]) \in H
    <3> HIDE DEF n
    <3> QED BY <1>2, <2>1, FencedHTMLNests
  <2> HIDE DEF n, H
  <2>3. pres \in [1..n -> H]
    BY <2>1, <2>2
  <2> HIDE DEF pres
  <2> QED BY <2>1, <2>3, SeqDef DEF n
<1> HIDE DEF codes, pres, S
<1>6. withCode \in Html(S)
  BY <1>1, <1>2, <1>3, <1>4, RestoreNests
<1>7. withTables \in Html(S)
  <2> HIDE DEF withCode
  <2> QED BY <1>1, <1>2, <1>3, <1>6, RestoreNests
<1>8. Restore(withTables, "C", pres) \in Html(S)
  <2> HIDE DEF withTables
  <2> QED BY <1>2, <1>3, <1>5, <1>7, RestoreNests
<1> QED BY <1>1, <1>4, <1>5, <1>6, <1>7, <1>8 DEF codes, pres, S, A

\* and putting HTML where the placeholders were.
LEMMA PutBackKeeps ==
  ASSUME FormatInv, PutBack
  PROVE  FormatInv'
<1>1. /\ pass = "restore" /\ pass' = "over" /\ UNCHANGED <<text, rest, lines, index, fenced, inline, tables>>
      /\ done' \in Html(Safe(Alphabet))
  BY BlocksBack DEF PutBack
<1>2. Alphabet' = Alphabet
  BY <1>1, SameAlphabet
<1> QED BY <1>1, <1>2 DEF FormatInv

\* Every step keeps the invariant.
LEMMA FormatStep == FormatInv /\ [FormatNext]_formatVars => FormatInv'
<1> SUFFICES ASSUME FormatInv, [FormatNext]_formatVars PROVE FormatInv'
  OBVIOUS
<1>1. CASE UNCHANGED formatVars
  <2>1. Alphabet' = Alphabet
    BY <1>1, SameAlphabet DEF formatVars
  <2> QED BY <1>1, <2>1 DEF FormatInv, formatVars
<1>2. CASE FormatNext
  BY <1>2, TakeFenceKeeps, TakeInlineKeeps, TakeTableKeeps, TakeBoldKeeps, PutBackKeeps DEF FormatNext
<1> QED BY <1>1, <1>2

\* It holds HtmlNests.
LEMMA FormatEnds == FormatInv => HtmlNests
<1> SUFFICES ASSUME FormatInv, pass = "over" PROVE Accepted(done)
  BY DEF HtmlNests
<1> DEFINE W == Safe(Alphabet) \cup Tags
<1>1. done \in Seq(W) /\ Neutral(done)
  BY DEF FormatInv, Html
<1>2. T("lt") \notin W
  BY DEF Safe, Tags, T
<1> HIDE DEF W
<1>3. T("lt") \notin ToSet(done)
  BY <1>1, <1>2 DEF ToSet
<1>4. <<>> \in Stacks
  BY DEF Stacks
<1> QED BY <1>1, <1>3, <1>4 DEF Accepted, Neutral

\* Telegram accepts what FormatForTelegramReply makes of any text: whatever blocks are
\* taken out of it and put back, in whatever order bold text, code and tables come,
\* every tag is closed in order and nothing is left unescaped.
THEOREM EveryReplyIsAccepted == FormatSpec => []HtmlNests
<1>1. FormatInv /\ [FormatNext]_formatVars => FormatInv'
  BY FormatStep
<1> QED BY FormatStarts, FormatEnds, <1>1, PTL DEF FormatSpec

-----------------------------------------------------------------------------
(* What a text says: m gives every token what the user reads of it.        *)

\* f and g start alike and go on alike.
Alike(n, f, g) == f[0] = g[0] /\ \A i \in 1..n : f[i - 1] = g[i - 1] => f[i] = g[i]

LEMMA AlikeRun == \A n, f, g : n \in Nat /\ Alike(n, f, g) => \A i \in 0..n : f[i] = g[i]
BY SameRun DEF Alike

Assoc(x, y, z) == (x \o y) \o z = x \o (y \o z)

LEMMA Associative == \A S : \A x, y, z \in Seq(S) : Assoc(x, y, z)
BY ConcatAssociative DEF Assoc

\* f flattens seqs.
Gathers(f, A, seqs) ==
  /\ f \in [0..Len(seqs) -> Seq(A)] /\ f[0] = <<>>
  /\ \A i \in 1..Len(seqs) : f[i] = f[i - 1] \o seqs[i]
  /\ FlattenSeq(seqs) = f[Len(seqs)]

LEMMA Gathered ==
  ASSUME NEW A, NEW seqs \in Seq(Seq(A))
  PROVE  \E f : Gathers(f, A, seqs)
BY Flattens DEF Gathers

\* FlattenSeq of two sequences one after the other.
LEMMA FlattenConcat ==
  ASSUME NEW A, NEW a, NEW b, a \in Seq(Seq(A)), b \in Seq(Seq(A))
  PROVE  FlattenSeq(a \o b) = FlattenSeq(a) \o FlattenSeq(b)
<1> DEFINE Y == Seq(A)
           n == Len(a)
           k == Len(b)
           ab == a \o b
<1>1. n \in Nat /\ k \in Nat /\ ab \in Seq(Y) /\ Len(ab) = n + k
  OBVIOUS
<1>2. (\A i \in 1..n : ab[i] = a[i]) /\ \A i \in 1..k : ab[n + i] = b[i] /\ b[i] \in Y
  <2> HIDE DEF Y
  <2>1. a \in Seq(Y) /\ b \in Seq(Y)
    BY DEF Y
  <2> QED BY <2>1
<1>3. PICK f : Gathers(f, A, a)
  BY Gathered
<1>4. PICK g : Gathers(g, A, b)
  BY Gathered
<1> HIDE DEF ab
<1>5. PICK h : Gathers(h, A, ab)
  BY <1>1, Gathered
<1>6. \A i \in 1..n : i \in 1..Len(ab) /\ i - 1 \in 0..n /\ i \in 0..n
  BY <1>1
<1>7. \A i \in 1..k : n + i \in 1..Len(ab) /\ i - 1 \in 0..k /\ i \in 0..k /\ (n + i) - 1 = n + (i - 1)
  BY <1>1
<1>a. f \in [0..n -> Y] /\ f[0] = <<>> /\ (\A i \in 1..n : f[i] = f[i - 1] \o a[i]) /\ FlattenSeq(a) = f[n]
  BY <1>3 DEF Gathers
<1>b. g \in [0..k -> Y] /\ g[0] = <<>> /\ (\A i \in 1..k : g[i] = g[i - 1] \o b[i]) /\ FlattenSeq(b) = g[k]
  BY <1>4 DEF Gathers
<1>c. h[0] = <<>> /\ (\A i \in 1..Len(ab) : h[i] = h[i - 1] \o ab[i]) /\ FlattenSeq(ab) = h[Len(ab)]
  BY <1>5 DEF Gathers
<1> HIDE DEF n, k, Y
<1>8. \A i \in 0..n : f[i] = h[i]
  <2>1. Alike(n, f, h)
    BY <1>2, <1>a, <1>c, <1>6 DEF Alike
  <2> QED BY <1>1, <2>1, AlikeRun
<1>9. h[n] = f[n]
  BY <1>1, <1>8
<1> DEFINE C == {i \in 0..k : h[n + i] = f[n] \o g[i]}
<1>10. f[n] \in Y
  BY <1>1, <1>a
<1>11. 0 \in C
  <2>1. n + 0 = n /\ 0 \in 0..k
    BY <1>1
  <2>2. f[n] \o <<>> = f[n]
    BY <1>10 DEF Y
  <2> QED BY <1>b, <1>9, <2>1, <2>2
<1>12. ASSUME NEW i \in 1..k, i - 1 \in C PROVE i \in C
  <2>1. h[n + i] = h[n + (i - 1)] \o b[i]
    BY <1>2, <1>c, <1>7
  <2>2. h[n + (i - 1)] = f[n] \o g[i - 1]
    BY <1>12
  <2>3. (f[n] \o g[i - 1]) \o b[i] = f[n] \o (g[i - 1] \o b[i])
    <3>1. g[i - 1] \in Y /\ b[i] \in Y
      BY <1>2, <1>b, <1>7
    <3>2. f[n] \in Seq(A) /\ g[i - 1] \in Seq(A) /\ b[i] \in Seq(A)
      BY <1>10, <3>1 DEF Y
    <3>3. Assoc(f[n], g[i - 1], b[i])
      BY <3>2, Associative, Zenon
    <3> QED BY <3>3 DEF Assoc
  <2>4. g[i] = g[i - 1] \o b[i]
    BY <1>b
  <2> QED BY <1>7, <2>1, <2>2, <2>3, <2>4
<1>13. \A i \in 0..k : i \in C
  <2> HIDE DEF C
  <2> QED BY <1>1, <1>11, <1>12, Climb
<1>14. h[n + k] = f[n] \o g[k]
  <2>1. k \in 0..k
    BY <1>1
  <2>2. k \in C
    BY <1>13, <2>1
  <2> QED BY <2>2
<1> QED BY <1>1, <1>a, <1>b, <1>c, <1>14 DEF ab

LEMMA FlattenOne ==
  ASSUME NEW A, NEW x \in Seq(A)
  PROVE  FlattenSeq(<<x>>) = x /\ FlattenSeq(<<>>) = <<>>
<1>1. FlattenSeq(<<>>) = <<>>
  BY DEF FlattenSeq
<1> DEFINE s == <<x>>
           Y == Seq(A)
<1>2. Len(s) = 1 /\ s[1] = x
  OBVIOUS
<1>3. s \in Seq(Seq(A))
  <2> HIDE DEF Y
  <2>1. <<x>> \in Seq(Y)
    BY DEF Y
  <2> QED BY <2>1 DEF Y
<1> HIDE DEF s
<1>4. PICK f : Gathers(f, A, s)
  BY <1>3, Gathered
<1>5. 1 \in 1..Len(s) /\ 1 - 1 = 0
  BY <1>2
<1>6. f[1] = <<>> \o x /\ FlattenSeq(s) = f[1]
  BY <1>2, <1>4, <1>5 DEF Gathers
<1>7. <<>> \o x = x
  OBVIOUS
<1> QED BY <1>1, <1>6, <1>7 DEF s

\* What h makes of a concatenation is the concatenation of what it makes of the parts.
Homomorphic(h, A) == h[<<>>] = <<>> /\ \A s, t \in Seq(A) : h[s \o t] = h[s] \o h[t]
Maps(h, a, b) == Len(a) = Len(b) /\ \A i \in 1..Len(a) : b[i] = h[a[i]]

\* What maps two texts, joined, to their images, joined, does so with any number of texts.
LEMMA FlattenAlong ==
  ASSUME NEW A, NEW B, NEW a, NEW b, a \in Seq(Seq(A)), b \in Seq(Seq(B)),
         NEW h, Homomorphic(h, A), Maps(h, a, b)
  PROVE  FlattenSeq(b) = h[FlattenSeq(a)]
<1> DEFINE n == Len(a)
           X == Seq(A)
<1>1. n \in Nat /\ n = Len(b) /\ \A i \in 1..n : a[i] \in X
  BY DEF Maps
<1>2. PICK f : Gathers(f, A, a)
  BY Gathered
<1>3. PICK g : Gathers(g, B, b)
  BY Gathered
<1> DEFINE hf == [i \in 0..n |-> h[f[i]]]
<1>4. \A i \in 1..n : i - 1 \in 0..n /\ i \in 0..n
  BY <1>1
<1>5. 0 \in 0..n /\ n \in 0..n
  BY <1>1
<1>6. h[<<>>] = <<>> /\ \A i \in 1..n : b[i] = h[a[i]]
  BY DEF Homomorphic, Maps
<1>a. f \in [0..n -> X] /\ f[0] = <<>> /\ (\A i \in 1..n : f[i] = f[i - 1] \o a[i]) /\ FlattenSeq(a) = f[n]
  BY <1>2 DEF Gathers
<1>b. g[0] = <<>> /\ (\A i \in 1..Len(b) : g[i] = g[i - 1] \o b[i]) /\ FlattenSeq(b) = g[Len(b)]
  BY <1>3 DEF Gathers
<1> HIDE DEF n, X
<1>7. \A i \in 0..n : g[i] = hf[i]
  <2>1. g[0] = hf[0]
    BY <1>a, <1>b, <1>5, <1>6
  <2>2. ASSUME NEW i \in 1..n, g[i - 1] = hf[i - 1] PROVE g[i] = hf[i]
    <3>1. g[i] = g[i - 1] \o b[i]
      BY <1>1, <1>b
    <3>2. f[i - 1] \in X /\ a[i] \in X
      BY <1>1, <1>a, <1>4
    <3>3. h[f[i - 1] \o a[i]] = h[f[i - 1]] \o h[a[i]]
      BY <3>2 DEF X, Homomorphic
    <3> QED BY <1>a, <1>4, <1>6, <2>2, <3>1, <3>3
  <2> HIDE DEF hf
  <2>3. Alike(n, g, hf)
    BY <2>1, <2>2 DEF Alike
  <2> QED BY <1>1, <2>3, AlikeRun
<1> QED BY <1>1, <1>a, <1>b, <1>5, <1>7

Kinds ==
  {"w", "num", "#", "src", "lt", "**", "tick", "fence", "|", "-", "gap", "nl",
   "dash", "escaped", "b", "code", "pre", "C", "I", "T"}
Token == Kinds \X Nat
Spoken == {"w", "num", "src"}
Meanings == [Token -> Seq(Token)]

\* Only words and placeholders say anything.
Quiet(m) == \A x \in Token : x[1] \notin Spoken \cup {"C", "I", "T"} => m[x] = <<>>

\* What a text says when each token means what m says.
Said(s, m) == FlattenSeq([i \in DOMAIN s |-> m[s[i]]])

LEMMA SaidParts ==
  ASSUME NEW s, NEW m, s \in Seq(Token), m \in Meanings
  PROVE  LET p == [i \in DOMAIN s |-> m[s[i]]]
         IN p \in Seq(Seq(Token)) /\ Len(p) = Len(s) /\ \A i \in 1..Len(s) : p[i] = m[s[i]]
<1> DEFINE p == [i \in DOMAIN s |-> m[s[i]]]
           Y == Seq(Token)
<1>1. DOMAIN s = 1..Len(s) /\ Len(s) \in Nat /\ \A i \in 1..Len(s) : s[i] \in Token
  OBVIOUS
<1>2. \A i \in 1..Len(s) : m[s[i]] \in Y
  BY <1>1 DEF Meanings
<1> HIDE DEF Y
<1>3. p \in [1..Len(s) -> Y]
  BY <1>1, <1>2
<1>4. p \in Seq(Y)
  BY <1>1, <1>3, SeqDef
<1>5. Len(p) = Len(s)
  BY <1>1, <1>3, <1>4
<1> QED BY <1>1, <1>4, <1>5 DEF Y

LEMMA FlattenTyped ==
  ASSUME NEW A, NEW seqs, seqs \in Seq(Seq(A))
  PROVE  FlattenSeq(seqs) \in Seq(A)
<1>1. PICK f : Gathers(f, A, seqs)
  BY Gathered
<1>2. Len(seqs) \in 0..Len(seqs)
  OBVIOUS
<1> QED BY <1>1, <1>2 DEF Gathers

LEMMA SaidTyped ==
  ASSUME NEW s, NEW m, s \in Seq(Token), m \in Meanings
  PROVE  Said(s, m) \in Seq(Token)
BY SaidParts, FlattenTyped DEF Said

LEMMA SaidEmpty == \A m : Said(<<>>, m) = <<>>
BY DEF Said, FlattenSeq

LEMMA SaidOne ==
  ASSUME NEW x, NEW m, x \in Token, m \in Meanings
  PROVE  Said(<<x>>, m) = m[x]
<1>1. [i \in DOMAIN <<x>> |-> m[<<x>>[i]]] = <<m[x]>>
  OBVIOUS
<1>2. m[x] \in Seq(Token)
  BY DEF Meanings
<1> HIDE DEF Token
<1>3. FlattenSeq(<<m[x]>>) = m[x]
  BY <1>2, FlattenOne
<1> QED BY <1>1, <1>3 DEF Said

\* Two texts say what the one says and then what the other says.
LEMMA SaidConcat ==
  ASSUME NEW s, NEW t, NEW m, s \in Seq(Token), t \in Seq(Token), m \in Meanings
  PROVE  Said(s \o t, m) = Said(s, m) \o Said(t, m)
<1> DEFINE p == [i \in DOMAIN s |-> m[s[i]]]
           q == [i \in DOMAIN t |-> m[t[i]]]
           st == s \o t
           pq == [i \in DOMAIN st |-> m[st[i]]]
           Y == Seq(Token)
<1>1. st \in Seq(Token) /\ Len(st) = Len(s) + Len(t) /\ Len(s) \in Nat /\ Len(t) \in Nat
  OBVIOUS
<1>2. \A i \in 1..Len(st) : st[i] = IF i <= Len(s) THEN s[i] ELSE t[i - Len(s)]
  OBVIOUS
<1>3. p \in Seq(Y) /\ Len(p) = Len(s) /\ \A i \in 1..Len(s) : p[i] = m[s[i]]
  BY SaidParts
<1>4. q \in Seq(Y) /\ Len(q) = Len(t) /\ \A i \in 1..Len(t) : q[i] = m[t[i]]
  BY SaidParts
<1> HIDE DEF st
<1>5. pq \in Seq(Y) /\ Len(pq) = Len(st) /\ \A i \in 1..Len(st) : pq[i] = m[st[i]]
  BY <1>1, SaidParts
<1>6. Said(s, m) = FlattenSeq(p) /\ Said(t, m) = FlattenSeq(q) /\ Said(st, m) = FlattenSeq(pq)
  BY DEF Said
<1> HIDE DEF p, q, pq, Y
<1>7. pq = p \o q
  <2>1. \A i \in 1..Len(t) : i + Len(s) \in 1..Len(st)
    BY <1>1
  <2>2. p \o q \in Seq(Y) /\ Len(p \o q) = Len(st)
    <3>1. p \o q \in Seq(Y) /\ Len(p \o q) = Len(p) + Len(q)
      BY <1>3, <1>4, ConcatProperties
    <3> QED BY <1>1, <1>3, <1>4, <3>1
  <2>3. \A i \in 1..Len(st) : (p \o q)[i] = IF i <= Len(s) THEN p[i] ELSE q[i - Len(s)]
    <3>1. \A i \in 1..(Len(p) + Len(q)) : (p \o q)[i] = IF i <= Len(p) THEN p[i] ELSE q[i - Len(p)]
      BY <1>3, <1>4, ConcatProperties
    <3> QED BY <1>1, <1>3, <1>4, <3>1
  <2>4. ASSUME NEW i \in 1..Len(st) PROVE pq[i] = (p \o q)[i]
    <3>1. CASE i <= Len(s)
      <4>1. i \in 1..Len(s)
        BY <1>1, <3>1
      <4> QED BY <1>2, <1>3, <1>5, <2>3, <3>1, <4>1
    <3>2. CASE ~(i <= Len(s))
      <4>1. i - Len(s) \in 1..Len(t)
        BY <1>1, <3>2
      <4>2. (p \o q)[i] = m[t[i - Len(s)]]
        BY <1>4, <2>3, <3>2, <4>1
      <4>3. pq[i] = m[t[i - Len(s)]]
        BY <1>2, <1>5, <3>2
      <4> QED BY <4>2, <4>3
    <3> QED BY <3>1, <3>2
  <2> QED BY <1>5, <2>2, <2>4, SeqEqual
<1>8. FlattenSeq(p \o q) = FlattenSeq(p) \o FlattenSeq(q)
  BY <1>3, <1>4, FlattenConcat DEF Y
<1> QED BY <1>6, <1>7, <1>8 DEF st

SaysBoth(s, t, m) == Said(s \o t, m) = Said(s, m) \o Said(t, m)

LEMMA SaidBoth == \A m \in Meanings : \A s, t \in Seq(Token) : SaysBoth(s, t, m)
BY SaidConcat DEF SaysBoth

\* Several texts say what each of them says, in their order.
LEMMA SaidFlatten ==
  ASSUME NEW seqs, NEW m, seqs \in Seq(Seq(Token)), m \in Meanings
  PROVE  Said(FlattenSeq(seqs), m) = FlattenSeq([i \in DOMAIN seqs |-> Said(seqs[i], m)])
<1> DEFINE Y == Seq(Token)
           h == [s \in Y |-> Said(s, m)]
           b == [i \in DOMAIN seqs |-> Said(seqs[i], m)]
<1>1. DOMAIN seqs = 1..Len(seqs) /\ Len(seqs) \in Nat /\ \A i \in 1..Len(seqs) : seqs[i] \in Y
  OBVIOUS
<1>2. \A s \in Y : Said(s, m) \in Y
  BY SaidTyped
<1>3. <<>> \in Y /\ \A s, t \in Y : s \o t \in Y /\ Said(s \o t, m) = Said(s, m) \o Said(t, m)
  BY SaidConcat
<1>4. FlattenSeq(seqs) \in Y
  BY FlattenTyped
<1> HIDE DEF Y
<1>5. b \in [1..Len(seqs) -> Y]
  BY <1>1, <1>2
<1>6. b \in Seq(Y) /\ Len(b) = Len(seqs) /\ \A i \in 1..Len(seqs) : b[i] = h[seqs[i]]
  <2>1. b \in Seq(Y)
    BY <1>1, <1>5, SeqDef
  <2>2. Len(b) = Len(seqs)
    BY <1>1, <1>5, <2>1
  <2>3. \A i \in 1..Len(seqs) : b[i] = h[seqs[i]]
    BY <1>1
  <2> QED BY <2>1, <2>2, <2>3
<1>7. h[<<>>] = <<>> /\ \A s, t \in Y : h[s \o t] = h[s] \o h[t]
  BY <1>3, SaidEmpty
<1>8. \A s \in Y : h[s] = Said(s, m)
  OBVIOUS
<1> HIDE DEF h, b
<1>9. FlattenSeq(b) = h[FlattenSeq(seqs)]
  <2>1. b \in Seq(Seq(Token)) /\ seqs \in Seq(Seq(Token))
    BY <1>6 DEF Y
  <2>2. Homomorphic(h, Token)
    BY <1>7 DEF Y, Homomorphic
  <2>3. Maps(h, seqs, b)
    BY <1>6 DEF Maps
  <2> QED BY <2>1, <2>2, <2>3, FlattenAlong
<1> QED BY <1>4, <1>8, <1>9 DEF b

\* Token by token the same is the same.
LEMMA SaidLike ==
  ASSUME NEW s, NEW t, NEW m, NEW k, s \in Seq(Token), t \in Seq(Token), Len(s) = Len(t),
         \A i \in 1..Len(s) : m[s[i]] = k[t[i]]
  PROVE  Said(s, m) = Said(t, k)
<1>1. DOMAIN s = 1..Len(s) /\ DOMAIN t = 1..Len(s)
  OBVIOUS
<1>2. [i \in DOMAIN s |-> m[s[i]]] = [i \in DOMAIN t |-> k[t[i]]]
  BY <1>1
<1> QED BY <1>2 DEF Said

\* Part by part the same is the same.
LEMMA SaidParted ==
  ASSUME NEW a, NEW b, NEW m, a \in Seq(Seq(Token)), b \in Seq(Seq(Token)), m \in Meanings, Len(a) = Len(b),
         \A i \in 1..Len(a) : Said(a[i], m) = Said(b[i], m)
  PROVE  Said(FlattenSeq(a), m) = Said(FlattenSeq(b), m)
<1>1. DOMAIN a = 1..Len(a) /\ DOMAIN b = 1..Len(a)
  OBVIOUS
<1>2. [i \in DOMAIN a |-> Said(a[i], m)] = [i \in DOMAIN b |-> Said(b[i], m)]
  BY <1>1
<1>3. Said(FlattenSeq(a), m) = FlattenSeq([i \in DOMAIN a |-> Said(a[i], m)])
  BY SaidFlatten
<1>4. Said(FlattenSeq(b), m) = FlattenSeq([i \in DOMAIN b |-> Said(b[i], m)])
  BY SaidFlatten
<1> QED BY <1>2, <1>3, <1>4

LEMMA FrontLast ==
  ASSUME NEW A, NEW s, s \in Seq(A), s # <<>>
  PROVE  Front(s) \in Seq(A) /\ Last(s) \in A /\ s = Front(s) \o <<Last(s)>>
<1>1. 1 \in 1..(Len(s) + 1) /\ Len(s) - 1 \in 0..Len(s) /\ Len(s) \in Nat \ {0}
  OBVIOUS
<1> DEFINE u == SubSeq(s, 1, Len(s) - 1)
           v == u \o <<Last(s)>>
<1>2. u \in Seq(A) /\ Len(u) = (IF 1 <= Len(s) - 1 THEN (Len(s) - 1) - 1 + 1 ELSE 0)
      /\ \A k \in 1..((Len(s) - 1) - 1 + 1) : u[k] = s[1 + k - 1]
  <2> HIDE DEF u
  <2> QED BY <1>1, SubSeqIn DEF u
<1>3. Front(s) = u
  BY DEF Front
<1>4. Last(s) = s[Len(s)] /\ Last(s) \in A
  BY <1>1 DEF Last
<1> HIDE DEF u
<1>5. Len(u) = Len(s) - 1 /\ \A k \in 1..(Len(s) - 1) : u[k] = s[k]
  <2> DEFINE n == Len(s)
  <2>1. n \in Nat \ {0}
    BY <1>1
  <2>2. Len(u) = (IF 1 <= n - 1 THEN (n - 1) - 1 + 1 ELSE 0)
    BY <1>2
  <2>3. \A k \in 1..((n - 1) - 1 + 1) : u[k] = s[1 + k - 1]
    BY <1>2
  <2> HIDE DEF n
  <2>4. Len(u) = n - 1 /\ (n - 1) - 1 + 1 = n - 1
    BY <2>1, <2>2
  <2>5. \A k \in 1..(n - 1) : 1 + k - 1 = k
    BY <2>1
  <2> QED BY <2>3, <2>4, <2>5 DEF n
<1>6. <<Last(s)>> \in Seq(A) /\ Len(<<Last(s)>>) = 1 /\ <<Last(s)>>[1] = s[Len(s)]
  BY <1>4
<1>7. v \in Seq(A) /\ Len(v) = Len(u) + 1
  BY <1>2, <1>6, ConcatProperties
<1>8. \A i \in 1..(Len(u) + 1) : v[i] = IF i <= Len(u) THEN u[i] ELSE <<Last(s)>>[i - Len(u)]
  BY <1>2, <1>6, ConcatProperties
<1>9. ASSUME NEW i \in 1..Len(s) PROVE s[i] = v[i]
  <2>1. CASE i = Len(s)
    BY <1>1, <1>5, <1>6, <1>8, <2>1
  <2>2. CASE i # Len(s)
    BY <1>1, <1>5, <1>8, <2>2
  <2> QED BY <2>1, <2>2
<1> HIDE DEF v
<1>10. s = v
  BY <1>1, <1>5, <1>7, <1>9, SeqEqual
<1> QED BY <1>2, <1>3, <1>4, <1>10 DEF v

LEMMA Tokens ==
  /\ Prose \subseteq Token /\ Tags \subseteq Token
  /\ {T("escaped"), T("dash"), T("#"), T("|"), T("-"), T("gap"), T("nl"), T("**"), T("tick"), T("fence"), T("lt")} \subseteq Token
BY DEF Token, Kinds, Prose, Tags, T

LEMMA Silence ==
  ASSUME NEW m, m \in Meanings, Quiet(m)
  PROVE  /\ \A x \in Tags : m[x] = <<>>
         /\ \A t \in {"escaped", "dash", "#", "|", "-", "gap", "nl", "**", "tick", "fence", "lt"} : m[T(t)] = <<>>
<1>1. ASSUME NEW x \in Tags PROVE m[x] = <<>>
  BY Tokens DEF Quiet, Tags, Spoken
<1>2. ASSUME NEW t \in {"escaped", "dash", "#", "|", "-", "gap", "nl", "**", "tick", "fence", "lt"}
      PROVE  m[T(t)] = <<>>
  <2>1. T(t) \in Token
    BY Tokens
  <2>2. T(t)[1] \notin Spoken \cup {"C", "I", "T"}
    BY DEF T, Spoken
  <2> QED BY <2>1, <2>2 DEF Quiet
<1> QED BY <1>1, <1>2

\* A token that says nothing may be left out at either end.
LEMMA SaidMute ==
  ASSUME NEW m, m \in Meanings, NEW x \in Token, m[x] = <<>>, NEW s, s \in Seq(Token)
  PROVE  /\ Said(<<x>> \o s, m) = Said(s, m)
         /\ Said(s \o <<x>>, m) = Said(s, m)
<1>1. <<x>> \in Seq(Token) /\ Said(<<x>>, m) = <<>>
  BY SaidOne
<1>2. Said(s, m) \in Seq(Token)
  BY SaidTyped
<1> DEFINE one == <<x>>
<1> HIDE DEF Token, one
<1>5. one \in Seq(Token) /\ Said(one, m) = <<>>
  BY <1>1 DEF one
<1>3. Said(one \o s, m) = Said(one, m) \o Said(s, m)
  <2>1. SaysBoth(one, s, m)
    BY <1>5, SaidBoth, Zenon
  <2> QED BY <2>1 DEF SaysBoth
<1>4. Said(s \o one, m) = Said(s, m) \o Said(one, m)
  <2>1. SaysBoth(s, one, m)
    BY <1>5, SaidBoth, Zenon
  <2> QED BY <2>1 DEF SaysBoth
<1> QED BY <1>2, <1>3, <1>4, <1>5, ConcatEmptySeq DEF one

\* html.EscapeString changes no word.
LEMMA SaidEscape ==
  ASSUME NEW m, m \in Meanings, Quiet(m), NEW s, s \in Seq(Token)
  PROVE  Escape(s) \in Seq(Token) /\ Said(Escape(s), m) = Said(s, m)
<1>1. DOMAIN s = 1..Len(s) /\ Len(s) \in Nat /\ \A i \in 1..Len(s) : s[i] \in Token
  OBVIOUS
<1>2. T("escaped") \in Token /\ m[T("escaped")] = <<>> /\ m[T("lt")] = <<>>
  BY Tokens, Silence
<1> DEFINE e == Escape(s)
<1> HIDE DEF Token
<1>3. e \in [1..Len(s) -> Token]
  BY <1>1, <1>2 DEF Escape
<1>4. e \in Seq(Token) /\ Len(e) = Len(s)
  <2>1. e \in Seq(Token)
    BY <1>1, <1>3, SeqDef
  <2> QED BY <1>1, <1>3, <2>1
<1>5. \A i \in 1..Len(e) : m[e[i]] = m[s[i]]
  <2>1. \A i \in 1..Len(s) : e[i] = IF s[i] = T("lt") THEN T("escaped") ELSE s[i]
    BY <1>1 DEF Escape
  <2> QED BY <1>2, <1>4, <2>1
<1> HIDE DEF e
<1>6. Said(e, m) = Said(s, m)
  BY <1>4, <1>5, SaidLike
<1> QED BY <1>4, <1>6 DEF e

LEMMA SaidDrop ==
  ASSUME NEW m, m \in Meanings, NEW t, T(t) \in Token, m[T(t)] = <<>>, NEW s, s \in Seq(Token)
  PROVE  /\ Drop(s, t) \in Seq(Token) /\ Said(Drop(s, t), m) = Said(s, m)
         /\ DropLast(s, t) \in Seq(Token) /\ Said(DropLast(s, t), m) = Said(s, m)
<1>1. Drop(s, t) \in Seq(Token) /\ DropLast(s, t) \in Seq(Token)
  BY Dropped
<1>2. Said(Drop(s, t), m) = Said(s, m)
  <2>1. CASE s # <<>> /\ Head(s) = T(t)
    <3>1. Tail(s) \in Seq(Token) /\ s = <<T(t)>> \o Tail(s)
      BY <2>1
    <3>2. Said(<<T(t)>> \o Tail(s), m) = Said(Tail(s), m)
      BY <3>1, SaidMute
    <3> QED BY <2>1, <3>1, <3>2 DEF Drop
  <2>2. CASE ~(s # <<>> /\ Head(s) = T(t))
    BY <2>2 DEF Drop
  <2> QED BY <2>1, <2>2
<1>3. Said(DropLast(s, t), m) = Said(s, m)
  <2>1. CASE s # <<>> /\ Last(s) = T(t)
    <3>1. Front(s) \in Seq(Token) /\ s = Front(s) \o <<T(t)>>
      BY <2>1, FrontLast
    <3>2. Said(Front(s) \o <<T(t)>>, m) = Said(Front(s), m)
      BY <3>1, SaidMute
    <3> QED BY <2>1, <3>1, <3>2 DEF DropLast
  <2>2. CASE ~(s # <<>> /\ Last(s) = T(t))
    BY <2>2 DEF DropLast
  <2> QED BY <2>1, <2>2
<1> QED BY <1>1, <1>2, <1>3

\* Neither does strings.TrimSpace,
LEMMA SaidTrim ==
  ASSUME NEW m, m \in Meanings, Quiet(m), NEW s, s \in Seq(Token)
  PROVE  Trim(s) \in Seq(Token) /\ Said(Trim(s), m) = Said(s, m)
<1>1. T("gap") \in Token /\ m[T("gap")] = <<>>
  BY Tokens, Silence
<1> DEFINE d == Drop(s, "gap")
<1>2. d \in Seq(Token) /\ Said(d, m) = Said(s, m)
  BY <1>1, SaidDrop
<1> HIDE DEF d
<1>3. DropLast(d, "gap") \in Seq(Token) /\ Said(DropLast(d, "gap"), m) = Said(d, m)
  BY <1>1, <1>2, SaidDrop
<1> QED BY <1>2, <1>3 DEF Trim, d

\* nor a tag around a text.
LEMMA SaidWithin ==
  ASSUME NEW m, m \in Meanings, Quiet(m), NEW tag \in {"b", "code", "pre"}, NEW s, s \in Seq(Token)
  PROVE  Within(tag, s) \in Seq(Token) /\ Said(Within(tag, s), m) = Said(s, m)
<1> DEFINE x == <<tag, 1>>
           y == <<tag, 2>>
           u == <<x>> \o s
<1>1. x \in Token /\ y \in Token /\ m[x] = <<>> /\ m[y] = <<>>
  BY Tokens, Silence DEF Tags
<1>2. Within(tag, s) = u \o <<y>>
  BY DEF Within
<1> HIDE DEF x, y, Token
<1>3. u \in Seq(Token)
  BY <1>1
<1>4. Said(u, m) = Said(s, m)
  BY <1>1, SaidMute
<1> HIDE DEF u
<1>5. u \o <<y>> \in Seq(Token) /\ Said(u \o <<y>>, m) = Said(u, m)
  BY <1>1, <1>3, SaidMute
<1> QED BY <1>2, <1>4, <1>5

LEMMA FlattenAppend ==
  ASSUME NEW A, NEW seqs, seqs \in Seq(Seq(A)), NEW x \in Seq(A)
  PROVE  Append(seqs, x) \in Seq(Seq(A)) /\ FlattenSeq(Append(seqs, x)) = FlattenSeq(seqs) \o x
<1> DEFINE Y == Seq(A)
<1>1. seqs \in Seq(Y) /\ x \in Y
  OBVIOUS
<1>2. FlattenSeq(<<x>>) = x
  BY FlattenOne
<1> HIDE DEF Y
<1>3. Append(seqs, x) = seqs \o <<x>> /\ <<x>> \in Seq(Y) /\ Append(seqs, x) \in Seq(Y)
  BY <1>1, AppendIsConcat, AppendProperties
<1> DEFINE one == <<x>>
<1>4. one \in Seq(Seq(A))
  BY <1>3 DEF Y
<1> HIDE DEF one
<1>5. FlattenSeq(seqs \o one) = FlattenSeq(seqs) \o FlattenSeq(one)
  BY <1>4, FlattenConcat
<1> QED BY <1>2, <1>3, <1>5 DEF one, Y

LEMMA FlattenPut ==
  ASSUME NEW A, NEW pieces, pieces \in Seq(Seq(A)) \ {<<>>}, NEW x \in A, NEW t
  PROVE  FlattenSeq(Put(pieces, x, t)) = IF x = T(t) THEN FlattenSeq(pieces) ELSE FlattenSeq(pieces) \o <<x>>
<1> DEFINE Y == Seq(A)
           front == Front(pieces)
           last == Last(pieces)
           e == Append(last, x)
<1>1. FlattenSeq(pieces) \in Y
  BY FlattenTyped
<1>2. CASE x = T(t)
  <2>1. FlattenSeq(Append(pieces, <<>>)) = FlattenSeq(pieces) \o <<>>
    <3>1. <<>> \in Seq(A)
      OBVIOUS
    <3> QED BY <3>1, FlattenAppend
  <2>2. FlattenSeq(pieces) \o <<>> = FlattenSeq(pieces)
    BY <1>1, ConcatEmptySeq
  <2> QED BY <1>2, <2>1, <2>2 DEF Put
<1>3. CASE x # T(t)
  <2> HIDE DEF Y
  <2>1. pieces \in Seq(Y) /\ pieces # <<>>
    BY DEF Y
  <2>2. front \in Seq(Y) /\ last \in Y /\ pieces = front \o <<last>> /\ Len(front) = Len(pieces) - 1
    BY <2>1, FrontLast, FrontIn
  <2>3. Len(pieces) \in Nat \ {0} /\ last = pieces[Len(pieces)]
    BY <2>1 DEF Last
  <2>4. e \in Y /\ e = last \o <<x>>
    <3>1. last \in Seq(A)
      BY <2>2 DEF Y
    <3> HIDE DEF last
    <3> QED BY <3>1, AppendProperties, AppendIsConcat DEF Y
  <2> DEFINE put == [pieces EXCEPT ![Len(pieces)] = e]
             fe == Append(front, e)
  <2>5. Put(pieces, x, t) = put
    BY <1>3, <2>3 DEF Put
  <2>6. put = fe
    <3> HIDE DEF e, front, last
    <3>1. put \in Seq(Y) /\ Len(put) = Len(pieces) /\ \A j \in 1..Len(pieces) : put[j] = IF j = Len(pieces) THEN e ELSE pieces[j]
      <4>1. Len(pieces) \in 1..Len(pieces)
        BY <2>3
      <4> QED BY <2>1, <2>4, <4>1, ExceptSeq
    <3>2. fe \in Seq(Y) /\ Len(fe) = Len(front) + 1 /\ \A j \in 1..Len(fe) : fe[j] = IF j = Len(fe) THEN e ELSE front[j]
      BY <2>2, <2>4, AppendProperties
    <3>3. \A j \in 1..(Len(pieces) - 1) : front[j] = pieces[j]
      BY <2>2, <2>3
    <3> HIDE DEF put, fe
    <3>4. Len(put) = Len(fe) /\ \A j \in 1..Len(put) : put[j] = fe[j]
      <4>1. Len(put) = Len(fe) /\ Len(fe) = Len(pieces)
        BY <2>2, <2>3, <3>1, <3>2
      <4>2. \A j \in 1..Len(put) : j # Len(fe) => j \in 1..(Len(pieces) - 1)
        BY <2>3, <4>1
      <4>3. ASSUME NEW j \in 1..Len(put) PROVE put[j] = fe[j]
        <5>1. put[j] = IF j = Len(pieces) THEN e ELSE pieces[j]
          BY <3>1, <4>1
        <5>2. fe[j] = IF j = Len(fe) THEN e ELSE front[j]
          BY <3>2, <4>1
        <5> QED BY <3>3, <4>1, <4>2, <5>1, <5>2
      <4> QED BY <4>1, <4>3
    <3> QED BY <3>1, <3>2, <3>4, SeqEqual
  <2>7. FlattenSeq(fe) = FlattenSeq(front) \o e
    <3>1. front \in Seq(Seq(A)) /\ e \in Seq(A)
      BY <2>2, <2>4 DEF Y
    <3> HIDE DEF front, e
    <3> QED BY <3>1, FlattenAppend
  <2>8. FlattenSeq(pieces) = FlattenSeq(front) \o last
    <3>1. front \in Seq(Seq(A)) /\ last \in Seq(A) /\ pieces = Append(front, last)
      <4> HIDE DEF front, last
      <4> QED BY <2>2, AppendIsConcat DEF Y
    <3> HIDE DEF front, last
    <3> QED BY <3>1, FlattenAppend
  <2>9. FlattenSeq(front) \o (last \o <<x>>) = (FlattenSeq(front) \o last) \o <<x>>
    <3> DEFINE f == FlattenSeq(front)
               one == <<x>>
    <3>1. f \in Seq(A) /\ last \in Seq(A) /\ one \in Seq(A)
      BY <2>2, FlattenTyped DEF Y
    <3> HIDE DEF f, one, last
    <3>2. Assoc(f, last, one)
      BY <3>1, Associative, Zenon
    <3> QED BY <3>2 DEF Assoc, f, one
  <2> HIDE DEF put, fe, front, last, e
  <2> QED BY <1>3, <2>4, <2>5, <2>6, <2>7, <2>8, <2>9
<1> QED BY <1>2, <1>3

\* strings.Split leaves out what it splits at.
LEMMA SaidPieces ==
  ASSUME NEW m, m \in Meanings, NEW t, m[T(t)] = <<>>, NEW s, s \in Seq(Token)
  PROVE  Said(FlattenSeq(Pieces(s, t)), m) = Said(s, m)
<1> DEFINE n == Len(s)
           p == [i \in DOMAIN s |-> m[s[i]]]
           Y == Seq(Token)
<1>1. n \in Nat /\ \A i \in 1..n : s[i] \in Token /\ m[s[i]] \in Y
  BY DEF Meanings
<1>2. p \in Seq(Y) /\ Len(p) = n /\ \A i \in 1..n : p[i] = m[s[i]]
  BY SaidParts
<1>3. PICK h : Splits(h, Token, s, t)
  BY Splitting
<1>4. PICK g : Gathers(g, Token, p)
  BY <1>2, Gathered
<1>5. /\ h[0] = << <<>> >> /\ \A i \in 1..n : h[i] = Put(h[i - 1], s[i], t)
      /\ \A i \in 0..n : h[i] \in Seq(Seq(Token)) \ {<<>>}
      /\ Pieces(s, t) = h[n]
  BY <1>3 DEF Splits
<1>6. g[0] = <<>> /\ (\A i \in 1..n : g[i] = g[i - 1] \o m[s[i]]) /\ Said(s, m) = g[n]
  <2>1. g[0] = <<>> /\ (\A i \in 1..Len(p) : g[i] = g[i - 1] \o p[i]) /\ FlattenSeq(p) = g[Len(p)]
    BY <1>4 DEF Gathers
  <2>2. Said(s, m) = FlattenSeq(p)
    BY DEF Said
  <2> HIDE DEF p
  <2> QED BY <1>2, <2>1, <2>2
<1>7. (\A i \in 1..n : i - 1 \in 0..n /\ i \in 0..n) /\ 0 \in 0..n /\ n \in 0..n
  BY <1>1
<1> DEFINE hs == [i \in 0..n |-> Said(FlattenSeq(h[i]), m)]
<1>8. hs[0] = <<>>
  <2>1. FlattenSeq(<< <<>> >>) = <<>>
    <3>1. <<>> \in Seq(Token)
      OBVIOUS
    <3> QED BY <3>1, FlattenOne
  <2> QED BY <1>5, <1>7, <2>1, SaidEmpty
<1> HIDE DEF n, p, Y
<1>9. ASSUME NEW i \in 1..n PROVE hs[i] = hs[i - 1] \o m[s[i]]
  <2> DEFINE f == FlattenSeq(h[i - 1])
             x == s[i]
             one == <<x>>
  <2>1. h[i] = Put(h[i - 1], x, t) /\ h[i - 1] \in Seq(Seq(Token)) \ {<<>>}
    BY <1>5, <1>7
  <2>2. x \in Token /\ m[x] \in Seq(Token)
    BY <1>1 DEF Y
  <2>3. f \in Seq(Token)
    BY <2>1, FlattenTyped
  <2>4. hs[i] = Said(FlattenSeq(h[i]), m) /\ hs[i - 1] = Said(f, m)
    BY <1>7
  <2> HIDE DEF x, hs
  <2>5. FlattenSeq(h[i]) = IF x = T(t) THEN f ELSE f \o one
    <3> DEFINE q == h[i - 1]
    <3>1. q \in Seq(Seq(Token)) \ {<<>>} /\ h[i] = Put(q, x, t) /\ f = FlattenSeq(q)
      BY <2>1
    <3> HIDE DEF q
    <3>2. FlattenSeq(Put(q, x, t)) = IF x = T(t) THEN FlattenSeq(q) ELSE FlattenSeq(q) \o <<x>>
      BY <2>2, <3>1, FlattenPut
    <3> QED BY <3>1, <3>2
  <2> HIDE DEF f
  <2>6. Said(f, m) \in Seq(Token)
    BY <2>3, SaidTyped
  <2>7. CASE x = T(t)
    <3>1. Said(f, m) \o <<>> = Said(f, m)
      BY <2>6, ConcatEmptySeq
    <3> QED BY <2>4, <2>5, <2>7, <3>1 DEF x
  <2>8. CASE x # T(t)
    <3>1. one \in Seq(Token) /\ Said(one, m) = m[x]
      BY <2>2, SaidOne
    <3> HIDE DEF one
    <3>2. SaysBoth(f, one, m)
      BY <2>3, <3>1, SaidBoth, Zenon
    <3> QED BY <2>4, <2>5, <2>8, <3>1, <3>2 DEF SaysBoth, x
  <2> QED BY <2>7, <2>8
<1> HIDE DEF hs
<1>10. Alike(n, hs, g)
  BY <1>6, <1>8, <1>9 DEF Alike
<1>11. hs[n] = g[n]
  BY <1>1, <1>7, <1>10, AlikeRun
<1> QED BY <1>5, <1>6, <1>7, <1>11 DEF hs

LEMMA MapIn ==
  ASSUME NEW X, NEW s, s \in Seq(X), NEW Y, NEW f, f \in [DOMAIN s -> Y]
  PROVE  f \in Seq(Y) /\ Len(f) = Len(s) /\ DOMAIN f = 1..Len(s)
<1>1. DOMAIN s = 1..Len(s) /\ Len(s) \in Nat
  OBVIOUS
<1>2. f \in Seq(Y)
  BY <1>1, SeqDef
<1> QED BY <1>1, <1>2

\* Tokens may be replaced by what says what they say.
LEMMA SaidSubst ==
  ASSUME NEW s, NEW parts, NEW m, NEW k, s \in Seq(Token), parts \in Seq(Seq(Token)), m \in Meanings,
         Len(parts) = Len(s), \A i \in 1..Len(s) : Said(parts[i], m) = k[s[i]]
  PROVE  Said(FlattenSeq(parts), m) = Said(s, k)
<1>1. DOMAIN s = 1..Len(s) /\ DOMAIN parts = 1..Len(s)
  OBVIOUS
<1>2. [i \in DOMAIN parts |-> Said(parts[i], m)] = [i \in DOMAIN s |-> k[s[i]]]
  BY <1>1
<1>3. Said(FlattenSeq(parts), m) = FlattenSeq([i \in DOMAIN parts |-> Said(parts[i], m)])
  BY SaidFlatten
<1>4. Said(s, k) = FlattenSeq([i \in DOMAIN s |-> k[s[i]]])
  BY DEF Said
<1> QED BY <1>2, <1>3, <1>4

\* strings.Join says what its parts say.
LEMMA SaidJoin ==
  ASSUME NEW m, m \in Meanings, NEW sep \in Token, m[sep] = <<>>, NEW seqs, seqs \in Seq(Seq(Token))
  PROVE  Join(seqs, sep) \in Seq(Token) /\ Said(Join(seqs, sep), m) = Said(FlattenSeq(seqs), m)
<1> DEFINE Y == Seq(Token)
           parts == [i \in DOMAIN seqs |-> IF i = 1 THEN seqs[i] ELSE <<sep>> \o seqs[i]]
<1>1. DOMAIN seqs = 1..Len(seqs) /\ Len(seqs) \in Nat /\ \A i \in 1..Len(seqs) : seqs[i] \in Y
  OBVIOUS
<1>2. \A u \in Y : <<sep>> \o u \in Y /\ Said(<<sep>> \o u, m) = Said(u, m)
  <2>1. <<sep>> \in Y
    OBVIOUS
  <2> QED BY <2>1, SaidMute, ConcatProperties
<1> HIDE DEF Y
<1>3. parts \in [DOMAIN seqs -> Y] /\ \A i \in 1..Len(seqs) : Said(parts[i], m) = Said(seqs[i], m)
  BY <1>1, <1>2
<1>4. Join(seqs, sep) = FlattenSeq(parts)
  BY DEF Join
<1> HIDE DEF parts
<1>5. parts \in Seq(Seq(Token)) /\ Len(parts) = Len(seqs)
  BY <1>3, MapIn DEF Y
<1> QED BY <1>3, <1>4, <1>5, SaidParted, FlattenTyped

LEMMA FlattenFlatten ==
  ASSUME NEW A, NEW a, a \in Seq(Seq(Seq(A)))
  PROVE  FlattenSeq(FlattenSeq(a)) = FlattenSeq([i \in DOMAIN a |-> FlattenSeq(a[i])])
<1> DEFINE X == Seq(A)
           Y == Seq(X)
           h == [u \in Y |-> FlattenSeq(u)]
           b == [i \in DOMAIN a |-> FlattenSeq(a[i])]
<1>1. DOMAIN a = 1..Len(a) /\ Len(a) \in Nat /\ \A i \in 1..Len(a) : a[i] \in Y
  OBVIOUS
<1>2. <<>> \in Y /\ FlattenSeq(<<>>) = <<>>
  BY DEF FlattenSeq
<1>3. \A u, v \in Y : FlattenSeq(u) \in X /\ u \o v \in Y /\ FlattenSeq(u \o v) = FlattenSeq(u) \o FlattenSeq(v)
  <2>1. \A u \in Y : FlattenSeq(u) \in X
    BY FlattenTyped
  <2>2. \A u, v \in Y : FlattenSeq(u \o v) = FlattenSeq(u) \o FlattenSeq(v)
    BY FlattenConcat
  <2> HIDE DEF X
  <2>3. \A u, v \in Y : u \o v \in Y
    BY ConcatProperties
  <2> QED BY <2>1, <2>2, <2>3
<1>4. a \in Seq(Y)
  OBVIOUS
<1> HIDE DEF Y
<1>5. FlattenSeq(a) \in Y
  BY <1>4, FlattenTyped DEF Y
<1>6. b \in [DOMAIN a -> X] /\ \A i \in 1..Len(a) : b[i] = h[a[i]]
  BY <1>1, <1>3
<1>7. h[<<>>] = <<>> /\ (\A u, v \in Y : h[u \o v] = h[u] \o h[v]) /\ \A u \in Y : h[u] = FlattenSeq(u)
  BY <1>2, <1>3
<1> HIDE DEF b, h
<1>8. b \in Seq(X) /\ Len(b) = Len(a)
  BY <1>4, <1>6, MapIn
<1> HIDE DEF X
<1>9. Homomorphic(h, X) /\ Maps(h, a, b)
  BY <1>6, <1>7, <1>8 DEF Homomorphic, Maps, Y
<1>10. a \in Seq(Seq(X)) /\ b \in Seq(Seq(A))
  BY <1>4, <1>8 DEF X, Y
<1>11. FlattenSeq(b) = h[FlattenSeq(a)]
  BY <1>9, <1>10, FlattenAlong
<1> QED BY <1>5, <1>7, <1>11 DEF b

LEMMA FlattenNonEmpty ==
  ASSUME NEW A, NEW seqs, seqs \in Seq(Seq(A))
  PROVE  FlattenSeq(NonEmpty(seqs)) = FlattenSeq(seqs)
<1> DEFINE X == Seq(A)
           Y == Seq(X)
           parts == [i \in DOMAIN seqs |-> IF seqs[i] = <<>> THEN <<>> ELSE <<seqs[i]>>]
<1>1. DOMAIN seqs = 1..Len(seqs) /\ Len(seqs) \in Nat /\ \A i \in 1..Len(seqs) : seqs[i] \in X
  OBVIOUS
<1>2. \A x \in X : FlattenSeq(<<x>>) = x
  BY FlattenOne
<1>3. FlattenSeq(<<>>) = <<>>
  BY DEF FlattenSeq
<1> HIDE DEF X
<1>4. <<>> \in Y /\ \A x \in X : <<x>> \in Y
  OBVIOUS
<1> HIDE DEF Y
<1>5. parts \in [DOMAIN seqs -> Y] /\ \A i \in 1..Len(seqs) : FlattenSeq(parts[i]) = seqs[i]
  <2>1. \A i \in 1..Len(seqs) : parts[i] = IF seqs[i] = <<>> THEN <<>> ELSE <<seqs[i]>>
    BY <1>1
  <2>2. parts \in [DOMAIN seqs -> Y]
    BY <1>1, <1>4
  <2> HIDE DEF parts
  <2>3. ASSUME NEW i \in 1..Len(seqs) PROVE FlattenSeq(parts[i]) = seqs[i]
    <3>1. CASE seqs[i] = <<>>
      BY <1>3, <2>1, <3>1
    <3>2. CASE seqs[i] # <<>>
      BY <1>1, <1>2, <2>1, <3>2
    <3> QED BY <3>1, <3>2
  <2> QED BY <2>2, <2>3
<1>6. NonEmpty(seqs) = FlattenSeq(parts)
  BY DEF NonEmpty
<1> HIDE DEF parts
<1>7. parts \in Seq(Seq(Seq(A))) /\ Len(parts) = Len(seqs) /\ DOMAIN parts = 1..Len(seqs)
  BY <1>5, MapIn DEF X, Y
<1>8. [i \in DOMAIN parts |-> FlattenSeq(parts[i])] = seqs
  BY <1>1, <1>5, <1>7
<1> QED BY <1>6, <1>7, <1>8, FlattenFlatten

\* A fence read as three ticks says nothing either.
LEMMA SaidTicks ==
  ASSUME NEW m, m \in Meanings, Quiet(m), NEW s, s \in Seq(Token)
  PROVE  Ticks(s) \in Seq(Token) /\ Said(Ticks(s), m) = Said(s, m)
<1> DEFINE Y == Seq(Token)
           three == [j \in 1..3 |-> T("tick")]
           parts == [i \in DOMAIN s |-> IF s[i] = T("fence") THEN three ELSE <<s[i]>>]
<1>1. DOMAIN s = 1..Len(s) /\ Len(s) \in Nat /\ \A i \in 1..Len(s) : s[i] \in Token
  OBVIOUS
<1>2. T("tick") \in Token /\ m[T("tick")] = <<>> /\ m[T("fence")] = <<>>
  BY Tokens, Silence
<1>3. three \in Y /\ Said(three, m) = <<>>
  <2> DEFINE x == T("tick")
             one == <<x>>
  <2> HIDE DEF x
  <2>1. three = <<x>> \o (<<x>> \o one)
    BY DEF x
  <2>2. one \in Y /\ Said(one, m) = <<>>
    BY <1>2, SaidOne DEF x
  <2> HIDE DEF one
  <2>3. <<x>> \o one \in Y /\ Said(<<x>> \o one, m) = <<>>
    BY <1>2, <2>2, SaidMute DEF x
  <2> DEFINE two == <<x>> \o one
  <2> HIDE DEF two
  <2>4. <<x>> \o two \in Y /\ Said(<<x>> \o two, m) = <<>>
    <3>1. two \in Seq(Token) /\ Said(two, m) = <<>> /\ x \in Token /\ m[x] = <<>>
      BY <1>2, <2>3 DEF x, two
    <3>2. Said(<<x>> \o two, m) = Said(two, m)
      BY <3>1, SaidMute
    <3> QED BY <3>1, <3>2
  <2> QED BY <2>1, <2>4 DEF two
<1> HIDE DEF three
<1>4. \A x \in Token : <<x>> \in Y /\ Said(<<x>>, m) = m[x]
  BY SaidOne
<1> HIDE DEF Y
<1>5. parts \in [DOMAIN s -> Y]
  BY <1>1, <1>3, <1>4
<1>6. \A i \in 1..Len(s) : Said(parts[i], m) = m[s[i]]
  BY <1>1, <1>2, <1>3, <1>4
<1>7. Ticks(s) = FlattenSeq(parts)
  BY DEF Ticks, three
<1> HIDE DEF parts
<1>8. parts \in Seq(Seq(Token)) /\ Len(parts) = Len(s)
  BY <1>5, MapIn DEF Y
<1>9. FlattenSeq(parts) \in Seq(Token)
  BY <1>8, FlattenTyped
<1>10. Said(FlattenSeq(parts), m) = Said(s, m)
  BY <1>6, <1>8, SaidSubst
<1> QED BY <1>7, <1>9, <1>10

LEMMA SaidUnwrap ==
  ASSUME NEW m, m \in Meanings, Quiet(m), NEW s, s \in Seq(Token)
  PROVE  Unwrap(s) \in Seq(Token) /\ Said(Unwrap(s), m) = Said(s, m)
<1> DEFINE f == Front(s)
           t == Tail(f)
<1>1. T("**") \in Token /\ m[T("**")] = <<>>
  BY Tokens, Silence
<1>2. CASE Len(s) > 2 /\ Head(s) = T("**") /\ Last(s) = T("**")
  <2>1. f \in Seq(Token) /\ Len(f) = Len(s) - 1 /\ s = f \o <<Last(s)>> /\ Len(s) \in Nat
    BY <1>2, FrontIn, FrontLast
  <2>2. f = DropLast(s, "**")
    BY <1>2 DEF DropLast
  <2>3. Said(f, m) = Said(s, m)
    BY <1>1, <2>2, SaidDrop
  <2> HIDE DEF f
  <2>4. f # <<>> /\ Head(f) = T("**")
    BY <1>2, <2>1
  <2>5. t = Drop(f, "**")
    BY <2>4 DEF Drop
  <2>6. t \in Seq(Token) /\ Said(t, m) = Said(f, m)
    BY <1>1, <2>1, <2>5, SaidDrop
  <2> HIDE DEF t
  <2>7. Trim(t) \in Seq(Token) /\ Said(Trim(t), m) = Said(t, m)
    BY <2>6, SaidTrim
  <2>8. Unwrap(s) = Trim(t)
    BY <1>2 DEF Unwrap, f, t
  <2> QED BY <2>3, <2>6, <2>7, <2>8
<1>3. CASE ~(Len(s) > 2 /\ Head(s) = T("**") /\ Last(s) = T("**"))
  BY <1>3 DEF Unwrap
<1> QED BY <1>2, <1>3

\* A cell without its asterisks says what it said.
LEMMA SaidStripBold ==
  ASSUME NEW m, m \in Meanings, Quiet(m), NEW s, s \in Seq(Token)
  PROVE  StripBold(s) \in Seq(Token) /\ Said(StripBold(s), m) = Said(s, m)
<1> DEFINE n == Len(s)
<1>1. PICK h : Strips(h, Token, s)
  BY Stripping
<1>2. /\ h[0] = s /\ \A i \in 1..n : h[i] = Unwrap(h[i - 1])
      /\ \A i \in 0..n : h[i] \in Seq(Token)
      /\ StripBold(s) = h[n]
  BY <1>1 DEF Strips
<1>3. n \in Nat /\ (\A i \in 1..n : i - 1 \in 0..n /\ i \in 0..n) /\ 0 \in 0..n /\ n \in 0..n
  OBVIOUS
<1> DEFINE C == {i \in 0..n : Said(h[i], m) = Said(s, m)}
<1> HIDE DEF n
<1>4. 0 \in C
  BY <1>2, <1>3
<1>5. ASSUME NEW i \in 1..n, i - 1 \in C PROVE i \in C
  <2>1. h[i - 1] \in Seq(Token) /\ h[i] = Unwrap(h[i - 1]) /\ i \in 0..n /\ Said(h[i - 1], m) = Said(s, m)
    BY <1>2, <1>3, <1>5
  <2>2. Said(Unwrap(h[i - 1]), m) = Said(h[i - 1], m)
    BY <2>1, SaidUnwrap
  <2> QED BY <2>1, <2>2
<1>6. n \in C
  <2> HIDE DEF C
  <2> QED BY <1>3, <1>4, <1>5, Climb
<1> QED BY <1>2, <1>3, <1>6

\* The cells of a row say what the row says.
LEMMA SaidCells ==
  ASSUME NEW m, m \in Meanings, Quiet(m), NEW ln, ln \in Seq(Token)
  PROVE  Said(FlattenSeq(Cells(ln)), m) = Said(ln, m)
<1> DEFINE Y == Seq(Token)
           bare == DropLast(Drop(Trim(ln), "|"), "|")
           raw == Pieces(bare, "|")
<1>1. T("|") \in Token /\ m[T("|")] = <<>>
  BY Tokens, Silence
<1>2. bare \in Y /\ Said(bare, m) = Said(ln, m)
  <2> DEFINE t == Trim(ln)
             d == Drop(t, "|")
  <2>1. t \in Y /\ Said(t, m) = Said(ln, m)
    BY SaidTrim
  <2> HIDE DEF t
  <2>2. d \in Y /\ Said(d, m) = Said(t, m)
    BY <1>1, <2>1, SaidDrop
  <2> HIDE DEF d
  <2>3. DropLast(d, "|") \in Y /\ Said(DropLast(d, "|"), m) = Said(d, m)
    BY <1>1, <2>2, SaidDrop
  <2> QED BY <2>1, <2>2, <2>3 DEF d, t
<1>3. Cells(ln) = [i \in DOMAIN raw |-> StripBold(Trim(raw[i]))]
  BY DEF Cells
<1> HIDE DEF bare
<1>4. raw \in Seq(Y) /\ Said(FlattenSeq(raw), m) = Said(bare, m)
  BY <1>1, <1>2, SaidPieces, PiecesTyped
<1> HIDE DEF raw
<1>5. DOMAIN raw = 1..Len(raw) /\ \A i \in 1..Len(raw) : raw[i] \in Y
  <2> HIDE DEF Y
  <2> QED BY <1>4
<1>6. \A x \in Y : StripBold(Trim(x)) \in Y /\ Said(StripBold(Trim(x)), m) = Said(x, m)
  BY SaidTrim, SaidStripBold
<1> DEFINE c == Cells(ln)
<1>7. c \in [DOMAIN raw -> Y] /\ \A i \in 1..Len(raw) : Said(c[i], m) = Said(raw[i], m)
  <2> HIDE DEF Y
  <2> QED BY <1>3, <1>5, <1>6
<1> HIDE DEF c
<1>8. c \in Seq(Y) /\ Len(c) = Len(raw)
  <2> HIDE DEF Y
  <2> QED BY <1>4, <1>7, MapIn
<1>9. Said(FlattenSeq(c), m) = Said(FlattenSeq(raw), m)
  BY <1>4, <1>7, <1>8, SaidParted
<1> QED BY <1>2, <1>4, <1>9 DEF c

LEMMA FlattenCons ==
  ASSUME NEW A, NEW seqs, seqs \in Seq(Seq(A)) \ {<<>>}
  PROVE  /\ seqs[1] \in Seq(A) /\ Tail(seqs) \in Seq(Seq(A)) /\ FlattenSeq(Tail(seqs)) \in Seq(A)
         /\ FlattenSeq(seqs) = seqs[1] \o FlattenSeq(Tail(seqs))
<1> DEFINE Y == Seq(A)
           x == seqs[1]
           one == <<x>>
           t == Tail(seqs)
<1>1. x \in Y /\ t \in Seq(Y) /\ seqs = one \o t
  <2>1. seqs \in Seq(Y) /\ seqs # <<>>
    OBVIOUS
  <2> HIDE DEF Y
  <2> QED BY <2>1
<1>2. one \in Seq(Y) /\ FlattenSeq(one) = x
  <2>1. FlattenSeq(<<x>>) = x
    BY <1>1, FlattenOne
  <2> HIDE DEF Y, x
  <2> QED BY <1>1, <2>1
<1> HIDE DEF one, t, x
<1>3. FlattenSeq(one \o t) = FlattenSeq(one) \o FlattenSeq(t)
  <2>1. one \in Seq(Seq(A)) /\ t \in Seq(Seq(A))
    BY <1>1, <1>2
  <2> HIDE DEF Y
  <2> QED BY <2>1, FlattenConcat
<1>4. FlattenSeq(t) \in Y
  BY <1>1, FlattenTyped
<1> QED BY <1>1, <1>2, <1>3, <1>4 DEF t, x

\* The first of several texts says what it says, and then come the others.
LEMMA SaidCons ==
  ASSUME NEW m, m \in Meanings, NEW seqs, seqs \in Seq(Seq(Token)) \ {<<>>}
  PROVE  Said(FlattenSeq(seqs), m) = Said(seqs[1], m) \o Said(FlattenSeq(Tail(seqs)), m)
<1> DEFINE x == seqs[1]
           y == FlattenSeq(Tail(seqs))
<1>1. x \in Seq(Token) /\ y \in Seq(Token) /\ FlattenSeq(seqs) = x \o y
  BY FlattenCons
<1> HIDE DEF x, y
<1>2. SaysBoth(x, y, m)
  BY <1>1, SaidBoth, Zenon
<1> QED BY <1>1, <1>2 DEF SaysBoth, x, y

\* The heading of a table says what its cells say, but for a number sign,
LEMMA SaidHeading ==
  ASSUME NEW m, m \in Meanings, Quiet(m), NEW row, row \in Seq(Seq(Token)) \ {<<>>}
  PROVE  Heading(row) \in Seq(Token) /\ Said(Heading(row), m) = Said(FlattenSeq(row), m)
<1> DEFINE Y == Seq(Token)
           cells == IF row[1] = <<T("#")>> THEN Tail(row) ELSE row
           parts == [i \in DOMAIN cells |-> Within("b", Escape(cells[i]))]
<1>1. T("dash") \in Token /\ m[T("dash")] = <<>> /\ T("#") \in Token /\ m[T("#")] = <<>>
  BY Tokens, Silence
<1>2. cells \in Seq(Y) /\ Said(FlattenSeq(cells), m) = Said(FlattenSeq(row), m)
  <2>1. CASE row[1] = <<T("#")>>
    <3>1. Said(row[1], m) = <<>>
      BY <1>1, <2>1, SaidOne
    <3>2. Tail(row) \in Seq(Y) /\ FlattenSeq(Tail(row)) \in Y
      BY FlattenCons
    <3>3. Said(FlattenSeq(row), m) = Said(row[1], m) \o Said(FlattenSeq(Tail(row)), m)
      BY SaidCons
    <3>4. Said(FlattenSeq(Tail(row)), m) \in Y
      BY <3>2, SaidTyped
    <3> DEFINE said == Said(FlattenSeq(Tail(row)), m)
    <3> HIDE DEF said
    <3>5. <<>> \o said = said
      BY <3>4, ConcatEmptySeq DEF said
    <3> QED BY <2>1, <3>1, <3>2, <3>3, <3>5 DEF said
  <2>2. CASE row[1] # <<T("#")>>
    BY <2>2
  <2> QED BY <2>1, <2>2
<1>3. \A x \in Y : Within("b", Escape(x)) \in Y /\ Said(Within("b", Escape(x)), m) = Said(x, m)
  BY SaidEscape, SaidWithin
<1>4. Heading(row) = Join(parts, T("dash"))
  BY DEF Heading
<1> HIDE DEF cells
<1>5. DOMAIN cells = 1..Len(cells) /\ \A i \in 1..Len(cells) : cells[i] \in Y
  <2> HIDE DEF Y
  <2> QED BY <1>2
<1>6. parts \in [DOMAIN cells -> Y] /\ \A i \in 1..Len(cells) : Said(parts[i], m) = Said(cells[i], m)
  <2> HIDE DEF Y
  <2> QED BY <1>3, <1>5
<1> HIDE DEF parts
<1>7. parts \in Seq(Y) /\ Len(parts) = Len(cells)
  <2> HIDE DEF Y
  <2> QED BY <1>2, <1>6, MapIn
<1>8. Said(FlattenSeq(parts), m) = Said(FlattenSeq(cells), m)
  BY <1>2, <1>6, <1>7, SaidParted
<1>9. Join(parts, T("dash")) \in Y /\ Said(Join(parts, T("dash")), m) = Said(FlattenSeq(parts), m)
  BY <1>1, <1>7, SaidJoin
<1> QED BY <1>2, <1>4, <1>8, <1>9

\* and so does a row.
LEMMA SaidBodyRow ==
  ASSUME NEW m, m \in Meanings, Quiet(m), NEW row, row \in Seq(Seq(Token)) \ {<<>>}
  PROVE  BodyRow(row) \in Seq(Token) /\ Said(BodyRow(row), m) = Said(FlattenSeq(row), m)
<1> DEFINE Y == Seq(Token)
           cells == [i \in DOMAIN row |-> Escape(row[i])]
           joined == Join(cells, T("dash"))
           others == Join(Tail(cells), T("dash"))
           number == Within("b", row[1])
           u == IF row[1] = <<T("num")>> THEN number \o others ELSE joined
           nl == <<T("nl")>>
<1>1. T("dash") \in Token /\ m[T("dash")] = <<>> /\ T("nl") \in Token /\ m[T("nl")] = <<>>
  BY Tokens, Silence
<1>2. row \in Seq(Y) /\ row # <<>> /\ row[1] \in Y /\ DOMAIN row = 1..Len(row)
      /\ Len(row) \in Nat \ {0} /\ \A i \in 1..Len(row) : row[i] \in Y
  OBVIOUS
<1>3. \A x \in Y : Escape(x) \in Y /\ Said(Escape(x), m) = Said(x, m)
  BY SaidEscape
<1>4. BodyRow(row) = u \o nl
  BY DEF BodyRow
<1> HIDE DEF Y
<1>5. cells \in [DOMAIN row -> Y] /\ \A i \in 1..Len(row) : Said(cells[i], m) = Said(row[i], m)
  BY <1>2, <1>3
<1> HIDE DEF cells
<1>6. cells \in Seq(Y) /\ Len(cells) = Len(row) /\ cells # <<>>
  <2>1. cells \in Seq(Y) /\ Len(cells) = Len(row)
    BY <1>2, <1>5, MapIn
  <2> QED BY <1>2, <2>1
<1>7. Said(FlattenSeq(cells), m) = Said(FlattenSeq(row), m)
  BY <1>2, <1>5, <1>6, SaidParted DEF Y
<1>8. u \in Y /\ Said(u, m) = Said(FlattenSeq(cells), m)
  <2>1. CASE row[1] = <<T("num")>>
    <3>1. Said(FlattenSeq(cells), m) = Said(cells[1], m) \o Said(FlattenSeq(Tail(cells)), m)
      BY <1>6, SaidCons DEF Y
    <3>2. Tail(cells) \in Seq(Y)
      BY <1>6
    <3>3. others \in Y /\ Said(others, m) = Said(FlattenSeq(Tail(cells)), m)
      BY <1>1, <3>2, SaidJoin DEF Y
    <3>4. number \in Y /\ Said(number, m) = Said(row[1], m)
      BY <1>2, SaidWithin DEF Y
    <3>5. Said(cells[1], m) = Said(row[1], m)
      BY <1>2, <1>5
    <3> HIDE DEF number, others
    <3>6. SaysBoth(number, others, m)
      BY <3>3, <3>4, SaidBoth, Zenon DEF Y
    <3>7. number \o others \in Y
      BY <3>3, <3>4, ConcatProperties DEF Y
    <3> QED BY <2>1, <3>1, <3>3, <3>4, <3>5, <3>6, <3>7 DEF SaysBoth
  <2>2. CASE row[1] # <<T("num")>>
    <3>1. joined \in Y /\ Said(joined, m) = Said(FlattenSeq(cells), m)
      BY <1>1, <1>6, SaidJoin DEF Y
    <3> QED BY <2>2, <3>1
  <2> QED BY <2>1, <2>2
<1> HIDE DEF u
<1>9. u \o nl \in Y /\ Said(u \o nl, m) = Said(u, m)
  <2>1. nl \in Y
    BY <1>1 DEF Y
  <2>2. Said(u \o <<T("nl")>>, m) = Said(u, m)
    BY <1>1, <1>8, SaidMute DEF Y
  <2> QED BY <1>8, <2>1, <2>2, ConcatProperties DEF Y
<1> QED BY <1>4, <1>7, <1>8, <1>9 DEF Y

LEMMA FlattenTwice ==
  ASSUME NEW A, NEW rows, rows \in Seq(Seq(Seq(A))) \ {<<>>}
  PROVE  /\ rows[1] \in Seq(Seq(A)) /\ Tail(rows) \in Seq(Seq(Seq(A)))
         /\ FlattenSeq(rows[1]) \in Seq(A) /\ FlattenSeq(FlattenSeq(Tail(rows))) \in Seq(A)
         /\ FlattenSeq(FlattenSeq(rows)) = FlattenSeq(rows[1]) \o FlattenSeq(FlattenSeq(Tail(rows)))
<1> DEFINE X == Seq(A)
           x == rows[1]
           y == FlattenSeq(Tail(rows))
<1>1. x \in Seq(X) /\ Tail(rows) \in Seq(Seq(X)) /\ y \in Seq(X) /\ FlattenSeq(rows) = x \o y
  <2> HIDE DEF X, x, y
  <2>1. rows \in Seq(Seq(X)) \ {<<>>}
    BY DEF X
  <2> QED BY <2>1, FlattenCons DEF x, y
<1> HIDE DEF x, y
<1>2. x \in Seq(Seq(A)) /\ y \in Seq(Seq(A))
  BY <1>1
<1> HIDE DEF X
<1>3. FlattenSeq(x \o y) = FlattenSeq(x) \o FlattenSeq(y)
  BY <1>2, FlattenConcat
<1>4. FlattenSeq(x) \in Seq(A) /\ FlattenSeq(y) \in Seq(A)
  BY <1>2, FlattenTyped
<1> QED BY <1>1, <1>2, <1>3, <1>4 DEF x, y, X

\* A table of which no row is left out says what its rows say.
LEMMA SaidRender ==
  ASSUME NEW m, m \in Meanings, Quiet(m), NEW rows, rows \in Seq(Seq(Seq(Token)) \ {<<>>}) \ {<<>>},
         \A i \in 1..Len(rows) : Len(rows[i]) = Len(rows[1])
  PROVE  Render(rows) \in Seq(Token) /\ Said(Render(rows), m) = Said(FlattenSeq(FlattenSeq(rows)), m)
<1> DEFINE Y == Seq(Token)
           R == Seq(Y) \ {<<>>}
           head == Heading(rows[1])
           first == FlattenSeq(rows[1])
           others == Tail(rows)
           bodies == [i \in 1..(Len(rows) - 1) |->
                        IF Len(rows[i + 1]) = Len(rows[1]) THEN BodyRow(rows[i + 1]) ELSE <<>>]
           flat == [i \in DOMAIN others |-> FlattenSeq(others[i])]
           said == FlattenSeq(FlattenSeq(others))
<1>1. /\ Len(rows) \in Nat \ {0} /\ rows[1] \in R /\ (\A i \in 1..Len(rows) : rows[i] \in R)
      /\ others \in Seq(R) /\ Len(others) = Len(rows) - 1 /\ DOMAIN others = 1..(Len(rows) - 1)
      /\ \A i \in 1..(Len(rows) - 1) : i + 1 \in 1..Len(rows) /\ others[i] = rows[i + 1]
  <2>1. rows \in Seq(R) \ {<<>>}
    OBVIOUS
  <2> HIDE DEF R
  <2> QED BY <2>1
<1>2. rows \in Seq(Seq(Y)) \ {<<>>} /\ others \in Seq(Seq(Y))
  <2>1. rows \in Seq(R) \ {<<>>}
    OBVIOUS
  <2>2. R \subseteq Seq(Y)
    OBVIOUS
  <2> DEFINE Z == Seq(Y)
  <2> HIDE DEF R, Z, others
  <2>3. rows \in Seq(Z) \ {<<>>} /\ others \in Seq(Z)
    BY <1>1, <2>1, <2>2 DEF Z
  <2> QED BY <2>3 DEF Z
<1>3. first \in Y /\ said \in Y /\ FlattenSeq(FlattenSeq(rows)) = first \o said
  BY <1>2, FlattenTwice
<1>4. T("nl") \in Token /\ m[T("nl")] = <<>>
  BY Tokens, Silence
<1>5. head \in Y /\ Said(head, m) = Said(first, m)
  BY <1>1, SaidHeading
<1>6. flat \in Seq(Y) /\ FlattenSeq(flat) = said /\ Len(flat) = Len(others)
      /\ \A i \in 1..(Len(rows) - 1) : flat[i] = FlattenSeq(rows[i + 1])
  <2> HIDE DEF others, R
  <2>1. \A u \in Seq(Y) : FlattenSeq(u) \in Y
    BY FlattenTyped
  <2>2. said = FlattenSeq(flat)
    BY <1>2, FlattenFlatten
  <2>3. flat \in [DOMAIN others -> Y]
    <3> DEFINE Z == Seq(Y)
    <3>1. others \in Seq(Z)
      BY <1>2
    <3> HIDE DEF Z
    <3>2. \A i \in DOMAIN others : others[i] \in Z
      BY <3>1
    <3> HIDE DEF Y
    <3> QED BY <2>1, <3>2 DEF Z
  <2>4. \A i \in 1..(Len(rows) - 1) : flat[i] = FlattenSeq(rows[i + 1])
    BY <1>1
  <2> HIDE DEF flat, Y
  <2> QED BY <1>1, <2>2, <2>3, <2>4, MapIn
<1>7. bodies \in Seq(Y) /\ Len(bodies) = Len(rows) - 1
      /\ \A i \in 1..(Len(rows) - 1) : Said(bodies[i], m) = Said(flat[i], m)
  <2>1. \A u \in R : BodyRow(u) \in Y /\ Said(BodyRow(u), m) = Said(FlattenSeq(u), m)
    BY SaidBodyRow
  <2>2. \A i \in 1..(Len(rows) - 1) : bodies[i] = BodyRow(rows[i + 1]) /\ rows[i + 1] \in R
    BY <1>1
  <2>3. DOMAIN bodies = 1..(Len(rows) - 1)
    OBVIOUS
  <2> HIDE DEF Y, R, flat
  <2>4. bodies \in [DOMAIN others -> Y]
    BY <1>1, <2>1, <2>2
  <2> HIDE DEF bodies
  <2>5. bodies \in Seq(Y) /\ Len(bodies) = Len(others)
    BY <1>1, <2>4, MapIn
  <2> QED BY <1>1, <1>6, <2>1, <2>2, <2>5
<1> HIDE DEF head, first, others, said, bodies, flat, R
<1>8. Said(FlattenSeq(bodies), m) = Said(said, m) /\ FlattenSeq(bodies) \in Y
  <2>1. Len(bodies) = Len(flat) /\ \A i \in 1..Len(bodies) : Said(bodies[i], m) = Said(flat[i], m)
    BY <1>1, <1>6, <1>7
  <2>2. Said(FlattenSeq(bodies), m) = Said(FlattenSeq(flat), m)
    BY <1>6, <1>7, <2>1, SaidParted
  <2> QED BY <1>6, <1>7, <2>2, FlattenTyped
<1>9. SaysBoth(first, said, m)
  BY <1>3, SaidBoth, Zenon
<1>10. CASE Len(rows) = 1
  <2>1. Render(rows) = head
    BY <1>10 DEF Render, head
  <2>2. others = <<>>
    BY <1>1, <1>10
  <2>3. said = <<>>
    BY <2>2 DEF said, FlattenSeq
  <2>4. first \o <<>> = first
    BY <1>3
  <2> QED BY <1>3, <1>5, <2>1, <2>3, <2>4
<1>11. CASE Len(rows) # 1
  <2> DEFINE hn == head \o <<T("nl")>>
             f == FlattenSeq(bodies)
  <2>1. Render(rows) = hn \o f
    BY <1>11 DEF Render, head, bodies
  <2>2. hn \in Y /\ Said(hn, m) = Said(head, m)
    <3>1. <<T("nl")>> \in Y
      BY <1>4
    <3> QED BY <1>4, <1>5, <3>1, SaidMute, ConcatProperties
  <2> HIDE DEF hn, f
  <2>3. f \in Y /\ Said(f, m) = Said(said, m)
    BY <1>8 DEF f
  <2>4. SaysBoth(hn, f, m)
    BY <2>2, <2>3, SaidBoth, Zenon
  <2>5. hn \o f \in Y
    BY <2>2, <2>3, ConcatProperties
  <2> QED BY <1>3, <1>5, <1>9, <2>1, <2>2, <2>3, <2>4, <2>5 DEF SaysBoth
<1> QED BY <1>10, <1>11

\* A span of code says what it said in the reply.
LEMMA SaidCode ==
  ASSUME NEW m, m \in Meanings, Quiet(m), NEW raw, raw \in Seq(Token)
  PROVE  Code(raw) \in Seq(Token) /\ Said(Code(raw), m) = Said(raw, m)
<1> DEFINE e == Escape(raw)
<1>1. e \in Seq(Token) /\ Said(e, m) = Said(raw, m)
  BY SaidEscape
<1> HIDE DEF e
<1>2. Within("code", e) \in Seq(Token) /\ Said(Within("code", e), m) = Said(e, m)
  BY <1>1, SaidWithin
<1> QED BY <1>1, <1>2 DEF Code, e

\* The rows of fenced text say what the text says.
LEMMA SaidFencedRows ==
  ASSUME NEW m, m \in Meanings, Quiet(m), NEW raw, raw \in Seq(Token)
  PROVE  Said(FlattenSeq(FlattenSeq(FencedRows(raw))), m) = Said(raw, m)
<1> DEFINE Y == Seq(Token)
           lns == Pieces(raw, "nl")
           rows == [i \in DOMAIN lns |-> NonEmpty(Pieces(lns[i], "gap"))]
           flat == [i \in DOMAIN rows |-> FlattenSeq(rows[i])]
<1>1. T("nl") \in Token /\ m[T("nl")] = <<>> /\ m[T("gap")] = <<>>
  BY Tokens, Silence
<1>2. lns \in Seq(Y) /\ Said(FlattenSeq(lns), m) = Said(raw, m)
  BY <1>1, PiecesTyped, SaidPieces
<1>3. FencedRows(raw) = NonEmpty(rows)
  BY DEF FencedRows
<1>4. \A u \in Y : LET w == NonEmpty(Pieces(u, "gap"))
                   IN w \in Seq(Y) /\ FlattenSeq(w) \in Y /\ Said(FlattenSeq(w), m) = Said(u, m)
  <2> SUFFICES ASSUME NEW u \in Y
               PROVE  LET w == NonEmpty(Pieces(u, "gap"))
                      IN w \in Seq(Y) /\ FlattenSeq(w) \in Y /\ Said(FlattenSeq(w), m) = Said(u, m)
    OBVIOUS
  <2> DEFINE p == Pieces(u, "gap")
  <2>1. p \in Seq(Y) /\ Said(FlattenSeq(p), m) = Said(u, m)
    BY <1>1, PiecesTyped, SaidPieces
  <2> HIDE DEF p
  <2>2. FlattenSeq(NonEmpty(p)) = FlattenSeq(p) /\ FlattenSeq(p) \in Y
    BY <2>1, FlattenNonEmpty, FlattenTyped
  <2>3. NonEmpty(p) \in Seq(Y)
    <3>1. NonEmpty(p) \in Seq(Y \ {<<>>})
      BY <2>1, NonEmptyTyped
    <3>2. Seq(Y \ {<<>>}) \subseteq Seq(Y)
      OBVIOUS
    <3> QED BY <3>1, <3>2
  <2> QED BY <2>1, <2>2, <2>3 DEF p
<1> HIDE DEF lns
<1>5. DOMAIN lns = 1..Len(lns) /\ \A i \in 1..Len(lns) : lns[i] \in Y
  <2> HIDE DEF Y
  <2> QED BY <1>2
<1>6. rows \in [DOMAIN lns -> Seq(Y)]
      /\ \A i \in 1..Len(lns) : FlattenSeq(rows[i]) \in Y /\ Said(FlattenSeq(rows[i]), m) = Said(lns[i], m)
  <2> HIDE DEF Y
  <2> QED BY <1>4, <1>5
<1> HIDE DEF rows
<1>7. rows \in Seq(Seq(Y)) /\ Len(rows) = Len(lns) /\ DOMAIN rows = 1..Len(lns)
  <2> DEFINE Z == Seq(Y)
  <2> HIDE DEF Y, Z
  <2> QED BY <1>2, <1>6, MapIn DEF Z
<1>8. flat \in [DOMAIN lns -> Y] /\ \A i \in 1..Len(lns) : Said(flat[i], m) = Said(lns[i], m)
  <2> HIDE DEF Y
  <2> QED BY <1>5, <1>6, <1>7
<1>9. FlattenSeq(FlattenSeq(rows)) = FlattenSeq(flat)
  BY <1>7, FlattenFlatten
<1> HIDE DEF flat
<1>10. flat \in Seq(Y) /\ Len(flat) = Len(lns)
  <2> HIDE DEF Y
  <2> QED BY <1>2, <1>8, MapIn
<1>11. Said(FlattenSeq(flat), m) = Said(FlattenSeq(lns), m)
  BY <1>2, <1>8, <1>10, SaidParted
<1>12. FlattenSeq(NonEmpty(rows)) = FlattenSeq(rows)
  BY <1>7, FlattenNonEmpty
<1> QED BY <1>2, <1>3, <1>9, <1>11, <1>12

\* A block of fenced code says what it said, whether it becomes a table or stays code.
LEMMA SaidFencedHTML ==
  ASSUME NEW m, m \in Meanings, Quiet(m), NEW raw, raw \in Seq(Token)
  PROVE  FencedHTML(raw) \in Seq(Token) /\ Said(FencedHTML(raw), m) = Said(raw, m)
<1> DEFINE rows == FencedRows(raw)
           e == Escape(raw)
           aligned == T("src") \notin ToSet(raw) /\ rows # <<>> /\ Len(rows[1]) >= 2
                        /\ \A i \in DOMAIN rows : Len(rows[i]) = Len(rows[1])
<1>1. CASE aligned
  <2>1. rows \in Seq(Seq(Seq(Token)) \ {<<>>}) \ {<<>>}
    BY <1>1, FencedRowsTyped
  <2>2. \A i \in 1..Len(rows) : Len(rows[i]) = Len(rows[1])
    BY <1>1, <2>1
  <2>3. FencedHTML(raw) = Render(rows)
    BY <1>1 DEF FencedHTML
  <2>4. Said(FlattenSeq(FlattenSeq(rows)), m) = Said(raw, m)
    BY SaidFencedRows
  <2> HIDE DEF rows
  <2> QED BY <2>1, <2>2, <2>3, <2>4, SaidRender
<1>2. CASE ~aligned
  <2>1. FencedHTML(raw) = Within("pre", e)
    BY <1>2 DEF FencedHTML
  <2>2. e \in Seq(Token) /\ Said(e, m) = Said(raw, m)
    BY SaidEscape
  <2> HIDE DEF e
  <2>3. Within("pre", e) \in Seq(Token) /\ Said(Within("pre", e), m) = Said(e, m)
    BY <2>2, SaidWithin
  <2> QED BY <2>1, <2>2, <2>3
<1> QED BY <1>1, <1>2

LEMMA TailCons ==
  ASSUME NEW A, NEW x \in A, NEW s \in Seq(A)
  PROVE  Tail(<<x>> \o s) = s
<1> DEFINE c == <<x>> \o s
           t == Tail(c)
<1>1. c \in Seq(A) /\ Len(c) = Len(s) + 1 /\ Len(s) \in Nat /\ \A i \in 1..Len(s) : c[i + 1] = s[i]
  OBVIOUS
<1> HIDE DEF c
<1>2. t \in Seq(A) /\ Len(t) = Len(s) /\ \A i \in 1..Len(s) : t[i] = c[i + 1]
  BY <1>1
<1> HIDE DEF t
<1>3. t = s
  BY <1>1, <1>2, SeqEqual
<1> QED BY <1>3 DEF t, c

\* Rows say what the lines say that they were read from.
LEMMA SaidNested ==
  ASSUME NEW m, m \in Meanings, NEW rows, rows \in Seq(Seq(Seq(Token))), NEW lns, lns \in Seq(Seq(Token)),
         Len(rows) = Len(lns), \A i \in 1..Len(lns) : Said(FlattenSeq(rows[i]), m) = Said(lns[i], m)
  PROVE  Said(FlattenSeq(FlattenSeq(rows)), m) = Said(FlattenSeq(lns), m)
<1> DEFINE Y == Seq(Token)
           Z == Seq(Y)
           flat == [i \in DOMAIN rows |-> FlattenSeq(rows[i])]
<1>1. rows \in Seq(Z)
  OBVIOUS
<1>2. \A u \in Z : FlattenSeq(u) \in Y
  BY FlattenTyped
<1>3. FlattenSeq(FlattenSeq(rows)) = FlattenSeq(flat)
  BY FlattenFlatten
<1> HIDE DEF Y, Z
<1>4. flat \in [DOMAIN rows -> Y] /\ \A i \in 1..Len(rows) : flat[i] = FlattenSeq(rows[i])
  BY <1>1, <1>2
<1> HIDE DEF flat
<1>5. flat \in Seq(Y) /\ Len(flat) = Len(lns)
  BY <1>1, <1>4, MapIn
<1>6. \A i \in 1..Len(flat) : Said(flat[i], m) = Said(lns[i], m)
  BY <1>4, <1>5
<1>7. Said(FlattenSeq(flat), m) = Said(FlattenSeq(lns), m)
  BY <1>5, <1>6, SaidParted DEF Y
<1> QED BY <1>3, <1>7

LEMMA RowsIn ==
  ASSUME NEW A, NEW lns \in Seq(Seq(A)) \ {<<>>}
  PROVE  LET body == [i \in 1..(Len(lns) - 2) |-> Cells(lns[i + 2])]
             later == [i \in 1..(Len(lns) - 2) |-> lns[i + 2]]
             n == IF Len(lns) >= 2 THEN Len(lns) - 2 ELSE 0
             R == Seq(Seq(A)) \ {<<>>}
         IN /\ n \in Nat /\ 1..(Len(lns) - 2) = 1..n /\ (\A i \in 1..n : i + 2 \in 1..Len(lns))
            /\ Cells(lns[1]) \in R /\ lns[1] \in Seq(A) /\ \A i \in 1..n : lns[i + 2] \in Seq(A)
            /\ body \in Seq(R) /\ Len(body) = n /\ later \in Seq(Seq(A)) /\ Len(later) = n
<1> DEFINE R == Seq(Seq(A)) \ {<<>>}
           Y == Seq(A)
           n == IF Len(lns) >= 2 THEN Len(lns) - 2 ELSE 0
           body == [i \in 1..(Len(lns) - 2) |-> Cells(lns[i + 2])]
           later == [i \in 1..(Len(lns) - 2) |-> lns[i + 2]]
<1>1. /\ Len(lns) \in Nat /\ Len(lns) # 0 /\ n \in Nat /\ 1..(Len(lns) - 2) = 1..n
      /\ \A i \in 1..n : i + 2 \in 1..Len(lns)
      /\ \A i \in 1..Len(lns) : lns[i] \in Y
  OBVIOUS
<1>2. Cells(lns[1]) \in R /\ \A i \in 1..n : Cells(lns[i + 2]) \in R
  BY <1>1, CellsTyped
<1>3. body \in [1..n -> R] /\ later \in [1..n -> Y] /\ lns[1] \in Y /\ \A i \in 1..n : lns[i + 2] \in Y
  <2> HIDE DEF n, R, Y
  <2> QED BY <1>1, <1>2
<1> HIDE DEF body, later, R, Y, n
<1>4. body \in Seq(R) /\ later \in Seq(Y)
  BY <1>1, <1>3, SeqDef
<1>5. Len(body) = n /\ Len(later) = n
  BY <1>1, <1>3, <1>4
<1> QED BY <1>1, <1>2, <1>3, <1>4, <1>5 DEF body, later, R, Y, n

\* A table of which no row is left out says what its lines say, but for the separator.
LEMMA SaidTableHTML ==
  ASSUME NEW m, m \in Meanings, Quiet(m), NEW lns, lns \in Seq(Seq(Token)) \ {<<>>},
         Len(lns) >= 2 => Said(lns[2], m) = <<>>,
         \A i \in 1..Len(lns) : Len(Cells(lns[i])) = Len(Cells(lns[1]))
  PROVE  TableHTML(lns) \in Seq(Token) /\ Said(TableHTML(lns), m) = Said(FlattenSeq(lns), m)
<1> DEFINE Y == Seq(Token)
           R == Seq(Y) \ {<<>>}
           n == IF Len(lns) >= 2 THEN Len(lns) - 2 ELSE 0
           body == [i \in 1..(Len(lns) - 2) |-> Cells(lns[i + 2])]
           later == [i \in 1..(Len(lns) - 2) |-> lns[i + 2]]
           head == <<Cells(lns[1])>>
           top == <<lns[1]>>
           rows == head \o body
           kept == top \o later
<1>1. /\ n \in Nat /\ 1..(Len(lns) - 2) = 1..n /\ \A i \in 1..n : i + 2 \in 1..Len(lns)
      /\ Cells(lns[1]) \in R /\ lns[1] \in Y /\ \A i \in 1..n : lns[i + 2] \in Y
      /\ body \in Seq(R) /\ Len(body) = n /\ later \in Seq(Y) /\ Len(later) = n
  BY RowsIn
<1>2. TableHTML(lns) = Render(rows)
  BY DEF TableHTML
<1>3. (\A i \in 1..n : body[i] = Cells(lns[i + 2]) /\ later[i] = lns[i + 2]) /\ Len(lns) \in Nat \ {0}
  <2> HIDE DEF Y, n
  <2>1. Len(lns) \in Nat \ {0}
    OBVIOUS
  <2> QED BY <1>1, <2>1
<1> HIDE DEF Y, R, n, body, later
<1>4. /\ rows \in Seq(R) /\ Len(rows) = n + 1 /\ rows[1] = Cells(lns[1])
      /\ \A i \in 1..n : rows[i + 1] = Cells(lns[i + 2])
  BY <1>1, <1>3
<1>5. /\ kept \in Seq(Y) /\ Len(kept) = n + 1 /\ kept[1] = lns[1] /\ Tail(kept) = later
      /\ \A i \in 1..n : kept[i + 1] = lns[i + 2]
  <2>1. /\ kept \in Seq(Y) /\ Len(kept) = n + 1 /\ kept[1] = lns[1]
        /\ \A i \in 1..n : kept[i + 1] = lns[i + 2]
    BY <1>1, <1>3
  <2>2. Tail(kept) = later
    BY <1>1, TailCons
  <2> QED BY <2>1, <2>2
<1> HIDE DEF rows, kept
<1>6. \A i \in 1..(n + 1) : i = 1 \/ \E j \in 1..n : i = j + 1
  BY <1>1
<1>7. \A i \in 1..(n + 1) : rows[i] = Cells(kept[i]) /\ kept[i] \in Y /\ Len(rows[i]) = Len(rows[1])
  <2>1. ASSUME NEW j \in 1..n PROVE Len(rows[j + 1]) = Len(rows[1])
    BY <1>1, <1>4
  <2>2. ASSUME NEW i \in 1..(n + 1) PROVE rows[i] = Cells(kept[i]) /\ kept[i] \in Y /\ Len(rows[i]) = Len(rows[1])
    BY <1>1, <1>4, <1>5, <1>6, <2>1
  <2> QED BY <2>2
<1>8. Render(rows) \in Y /\ Said(Render(rows), m) = Said(FlattenSeq(FlattenSeq(rows)), m)
  <2>1. rows \in Seq(R) \ {<<>>}
    BY <1>1, <1>4
  <2>2. \A i \in 1..Len(rows) : Len(rows[i]) = Len(rows[1])
    BY <1>4, <1>7
  <2> QED BY <2>1, <2>2, SaidRender DEF R, Y
<1>9. Said(FlattenSeq(FlattenSeq(rows)), m) = Said(FlattenSeq(kept), m)
  <2>1. rows \in Seq(Seq(Y))
    <3>1. R \subseteq Seq(Y)
      BY DEF R
    <3> DEFINE Z == Seq(Y)
    <3> HIDE DEF Z, R
    <3> QED BY <1>4, <3>1 DEF Z
  <2>2. \A u \in Y : Said(FlattenSeq(Cells(u)), m) = Said(u, m)
    BY SaidCells DEF Y
  <2>3. \A i \in 1..Len(kept) : Said(FlattenSeq(rows[i]), m) = Said(kept[i], m)
    BY <1>5, <1>7, <2>2
  <2>4. Len(rows) = Len(kept)
    BY <1>4, <1>5
  <2> QED BY <1>5, <2>1, <2>3, <2>4, SaidNested DEF Y
<1>10. Said(FlattenSeq(kept), m) = Said(FlattenSeq(lns), m)
  <2>1. kept # <<>>
    BY <1>1, <1>5
  <2>2. Said(FlattenSeq(kept), m) = Said(lns[1], m) \o Said(FlattenSeq(later), m)
    BY <1>5, <2>1, SaidCons DEF Y
  <2>3. Said(FlattenSeq(lns), m) = Said(lns[1], m) \o Said(FlattenSeq(Tail(lns)), m)
    BY SaidCons
  <2>4. Tail(lns) \in Seq(Y) /\ Len(Tail(lns)) = Len(lns) - 1 /\ \A i \in 1..(Len(lns) - 1) : Tail(lns)[i] = lns[i + 1]
    <3>1. lns \in Seq(Y) \ {<<>>}
      BY DEF Y
    <3> QED BY <3>1
  <2>5. CASE Len(lns) < 2
    <3>1. n = 0 /\ Len(Tail(lns)) = 0
      BY <1>3, <2>4, <2>5 DEF n
    <3> DEFINE t == Tail(lns)
    <3> HIDE DEF t
    <3>2. t \in Seq(Y) /\ Len(t) = 0
      BY <2>4, <3>1 DEF t
    <3>3. t = <<>> /\ later = <<>>
      BY <1>1, <3>1, <3>2
    <3> QED BY <2>2, <2>3, <3>3 DEF t
  <2>6. CASE Len(lns) >= 2
    <3> DEFINE t == Tail(lns)
    <3>1. t \in Seq(Y) /\ t # <<>> /\ t[1] = lns[2]
      <4>1. t \in Seq(Y) /\ Len(t) = Len(lns) - 1 /\ \A i \in 1..(Len(lns) - 1) : t[i] = lns[i + 1]
        BY <2>4
      <4>2. 1 \in 1..(Len(lns) - 1) /\ Len(lns) - 1 # 0
        BY <1>3, <2>6
      <4> HIDE DEF t
      <4>3. t # <<>>
        BY <4>1, <4>2
      <4> QED BY <4>1, <4>2, <4>3
    <3>2. Tail(t) = later
      <4>1. Tail(t) \in Seq(Y) /\ Len(Tail(t)) = n /\ \A i \in 1..n : Tail(t)[i] = lns[i + 2]
        <5>1. n = Len(lns) - 2 /\ Len(t) = n + 1 /\ \A i \in 1..(n + 1) : t[i] = lns[i + 1]
          BY <1>3, <2>4, <2>6 DEF n
        <5> HIDE DEF t
        <5>2. Tail(t) \in Seq(Y) /\ Len(Tail(t)) = n /\ \A i \in 1..n : Tail(t)[i] = t[i + 1]
          BY <1>1, <3>1, <5>1
        <5>3. \A i \in 1..n : i + 1 \in 1..(n + 1) /\ (i + 1) + 1 = i + 2
          BY <1>1
        <5> QED BY <5>1, <5>2, <5>3
      <4> HIDE DEF t
      <4> QED BY <1>1, <1>3, <4>1, SeqEqual
    <3> HIDE DEF t
    <3>3. Said(FlattenSeq(t), m) = Said(t[1], m) \o Said(FlattenSeq(later), m)
      BY <3>1, <3>2, SaidCons DEF Y
    <3>4. Said(t[1], m) = <<>>
      BY <2>6, <3>1
    <3> DEFINE said == Said(FlattenSeq(later), m)
    <3>5. said \in Seq(Token)
      BY <1>1, FlattenTyped, SaidTyped DEF Y
    <3> HIDE DEF said
    <3>6. <<>> \o said = said
      BY <3>5, ConcatEmptySeq
    <3> QED BY <2>2, <2>3, <3>3, <3>4, <3>6 DEF t, said
  <2> QED BY <1>3, <2>5, <2>6
<1> QED BY <1>2, <1>8, <1>9, <1>10 DEF Y

-----------------------------------------------------------------------------
(* What a text says while blocks are taken out of it.                      *)

\* A word says itself.
Word == [x \in Token |-> IF x[1] \in Spoken THEN <<x>> ELSE <<>>]

\* A placeholder of the kind stands for what its block says.
Standing(kind, blocks, m) ==
  [x \in Token |-> IF x[1] = kind /\ x[2] \in DOMAIN blocks THEN Said(blocks[x[2]], m) ELSE m[x]]

\* The tokens that are no placeholder of this kind.
Free(kind) == {x \in Token : x[1] # kind}

\* The words of a text are what it says when only words say something.
LEMMA WordsAreSaid ==
  /\ Word \in Meanings /\ Quiet(Word)
  /\ \A s \in Seq(Token) : Words(s) = Said(s, Word)
<1>1. \A x \in Token : (IF x[1] \in Spoken THEN <<x>> ELSE <<>>) \in Seq(Token)
  OBVIOUS
<1>2. Word \in Meanings /\ Quiet(Word)
  <2> DEFINE Y == Seq(Token)
  <2>1. Word \in [Token -> Y]
    <3> HIDE DEF Y, Token
    <3> QED BY <1>1 DEF Word, Y
  <2> QED BY <2>1 DEF Meanings, Quiet, Word
<1>3. ASSUME NEW s \in Seq(Token) PROVE Words(s) = Said(s, Word)
  <2>1. \A i \in DOMAIN s : s[i] \in Token
    OBVIOUS
  <2>2. [i \in DOMAIN s |-> IF s[i][1] \in {"w", "num", "src"} THEN <<s[i]>> ELSE <<>>] = [i \in DOMAIN s |-> Word[s[i]]]
    <3> HIDE DEF Token
    <3> QED BY <2>1 DEF Word, Spoken
  <2> QED BY <2>2 DEF Words, Said
<1> QED BY <1>2, <1>3

LEMMA StandingIs ==
  ASSUME NEW m, m \in Meanings, Quiet(m), NEW kind \in {"C", "I", "T"}, NEW blocks, blocks \in Seq(Seq(Token))
  PROVE  Standing(kind, blocks, m) \in Meanings /\ Quiet(Standing(kind, blocks, m))
<1> DEFINE Y == Seq(Token)
           k == Standing(kind, blocks, m)
<1>1. \A i \in DOMAIN blocks : Said(blocks[i], m) \in Y
  <2>1. \A u \in Y : Said(u, m) \in Y
    BY SaidTyped
  <2>2. \A i \in DOMAIN blocks : blocks[i] \in Y
    <3> HIDE DEF Y
    <3>1. blocks \in Seq(Y)
      BY DEF Y
    <3> QED BY <3>1
  <2> QED BY <2>1, <2>2
<1>2. \A x \in Token : m[x] \in Y
  BY DEF Meanings
<1>3. k \in [Token -> Y]
  <2> HIDE DEF Y, Token
  <2> QED BY <1>1, <1>2 DEF Standing
<1>4. \A x \in Token : x[1] \notin Spoken \cup {"C", "I", "T"} => k[x] = m[x]
  BY DEF Standing
<1> QED BY <1>3, <1>4 DEF Meanings, Quiet

\* A placeholder of another kind keeps its meaning.
LEMMA StandingSkips ==
  ASSUME NEW m, NEW kind, NEW blocks, NEW s, s \in Seq(Free(kind))
  PROVE  s \in Seq(Token) /\ Said(s, Standing(kind, blocks, m)) = Said(s, m)
<1>1. s \in Seq(Token) /\ \A i \in 1..Len(s) : s[i] \in Token /\ s[i][1] # kind
  BY DEF Free
<1> HIDE DEF Token
<1>2. \A i \in 1..Len(s) : Standing(kind, blocks, m)[s[i]] = m[s[i]]
  BY <1>1 DEF Standing
<1> DEFINE k == Standing(kind, blocks, m)
<1> HIDE DEF k
<1>3. \A i \in 1..Len(s) : k[s[i]] = m[s[i]]
  BY <1>2 DEF k
<1>4. Said(s, k) = Said(s, m)
  BY <1>1, <1>3, SaidLike
<1> QED BY <1>1, <1>4 DEF k

LEMMA StandingNone ==
  ASSUME NEW m, m \in Meanings, NEW kind
  PROVE  Standing(kind, <<>>, m) = m
<1>1. \A x \in Token : Standing(kind, <<>>, m)[x] = m[x]
  BY DEF Standing
<1>2. Standing(kind, <<>>, m) = [x \in Token |-> Standing(kind, <<>>, m)[x]]
  BY DEF Standing
<1>3. m = [x \in Token |-> m[x]]
  BY DEF Meanings
<1> QED BY <1>1, <1>2, <1>3

\* One block more: what stands for it says what it says.
LEMMA StandingMore ==
  ASSUME NEW m, NEW kind, NEW A, NEW blocks, blocks \in Seq(A), NEW block \in A
  PROVE  LET x == <<kind, Len(blocks) + 1>>
             k == Standing(kind, Append(blocks, block), m)
         IN /\ x \in Token => k[x] = Said(block, m)
            /\ \A y \in Token : y # x => k[y] = Standing(kind, blocks, m)[y]
<1> DEFINE x == <<kind, Len(blocks) + 1>>
           more == Append(blocks, block)
           k == Standing(kind, more, m)
<1>1. /\ Len(blocks) \in Nat /\ DOMAIN blocks = 1..Len(blocks) /\ DOMAIN more = 1..(Len(blocks) + 1)
      /\ more[Len(blocks) + 1] = block /\ \A i \in 1..Len(blocks) : more[i] = blocks[i]
  OBVIOUS
<1> HIDE DEF more
<1>2. x[1] = kind /\ x[2] = Len(blocks) + 1
  OBVIOUS
<1>3. x[2] \in DOMAIN more
  BY <1>1, <1>2
<1>4. x \in Token => k[x] = Said(more[x[2]], m)
  BY <1>2, <1>3 DEF Standing
<1>5. ASSUME NEW y \in Token, y # x PROVE k[y] = Standing(kind, blocks, m)[y]
  <2>1. y = <<y[1], y[2]>>
    BY DEF Token
  <2>2. ~(y[1] = kind /\ y[2] = Len(blocks) + 1)
    BY <1>5, <2>1
  <2> HIDE DEF x, Token
  <2>3. CASE y[1] = kind /\ y[2] \in 1..Len(blocks)
    <3>1. y[2] \in 1..(Len(blocks) + 1)
      BY <1>1, <2>3
    <3>2. k[y] = Said(more[y[2]], m)
      BY <1>1, <2>3, <3>1 DEF Standing
    <3>3. Standing(kind, blocks, m)[y] = Said(blocks[y[2]], m)
      BY <1>1, <2>3 DEF Standing
    <3> QED BY <1>1, <2>3, <3>2, <3>3
  <2>4. CASE ~(y[1] = kind /\ y[2] \in 1..Len(blocks))
    <3>1. ~(y[1] = kind /\ y[2] \in 1..(Len(blocks) + 1))
      BY <1>1, <2>2, <2>4
    <3> QED BY <1>1, <2>4, <3>1 DEF Standing
  <2> QED BY <2>3, <2>4
<1> QED BY <1>1, <1>2, <1>4, <1>5 DEF more

\* Blocks that say the same may stand for each other.
LEMMA StandingLike ==
  ASSUME NEW m, NEW kind, NEW a, NEW b, DOMAIN a = DOMAIN b, \A i \in DOMAIN a : Said(a[i], m) = Said(b[i], m)
  PROVE  Standing(kind, a, m) = Standing(kind, b, m)
BY DEF Standing

\* Putting blocks back says what the placeholders stood for.
LEMMA SaidRestore ==
  ASSUME NEW m, m \in Meanings, NEW kind, NEW blocks, blocks \in Seq(Seq(Token)), NEW s, s \in Seq(Token),
         \A i \in 1..Len(s) : s[i][1] = kind => s[i][2] \in DOMAIN blocks
  PROVE  /\ Restore(s, kind, blocks) \in Seq(Token)
         /\ Said(Restore(s, kind, blocks), m) = Said(s, Standing(kind, blocks, m))
<1> DEFINE Y == Seq(Token)
           k == Standing(kind, blocks, m)
           parts == [i \in DOMAIN s |-> IF s[i][1] = kind THEN blocks[s[i][2]] ELSE <<s[i]>>]
<1>1. DOMAIN s = 1..Len(s) /\ \A i \in 1..Len(s) : s[i] \in Token
  OBVIOUS
<1>2. \A i \in DOMAIN blocks : blocks[i] \in Y
  <2> HIDE DEF Y
  <2>1. blocks \in Seq(Y)
    BY DEF Y
  <2> QED BY <2>1
<1>3. \A x \in Token : <<x>> \in Y /\ Said(<<x>>, m) = m[x]
  BY SaidOne
<1>4. parts \in [DOMAIN s -> Y]
  <2> HIDE DEF Y, Token
  <2> QED BY <1>1, <1>2, <1>3
<1>5. ASSUME NEW i \in 1..Len(s) PROVE Said(parts[i], m) = k[s[i]]
  <2> HIDE DEF Y, Token
  <2>1. CASE s[i][1] = kind
    BY <1>1, <2>1 DEF Standing
  <2>2. CASE s[i][1] # kind
    BY <1>1, <1>3, <2>2 DEF Standing
  <2> QED BY <2>1, <2>2
<1>6. Restore(s, kind, blocks) = FlattenSeq(parts)
  BY DEF Restore
<1> HIDE DEF parts, k
<1>7. parts \in Seq(Seq(Token)) /\ Len(parts) = Len(s)
  <2> HIDE DEF Token
  <2> QED BY <1>4, MapIn
<1>8. Said(FlattenSeq(parts), m) = Said(s, k)
  <2>1. DOMAIN parts = 1..Len(s) /\ \A i \in 1..Len(s) : Said(parts[i], m) = k[s[i]]
    BY <1>5, <1>7
  <2>2. [i \in DOMAIN parts |-> Said(parts[i], m)] = [i \in DOMAIN s |-> k[s[i]]]
    BY <1>1, <2>1
  <2>3. Said(FlattenSeq(parts), m) = FlattenSeq([i \in DOMAIN parts |-> Said(parts[i], m)])
    BY <1>7, SaidFlatten
  <2> QED BY <2>2, <2>3 DEF Said
<1>9. FlattenSeq(parts) \in Seq(Token)
  BY <1>7, FlattenTyped
<1> QED BY <1>6, <1>8, <1>9 DEF k

LEMMA FoundAt ==
  ASSUME NEW A, NEW s \in Seq(A), NEW t, Find(s, t) # 0
  PROVE  Find(s, t) \in 1..Len(s) /\ s[Find(s, t)] = T(t) /\ \A j \in 1..Len(s) : s[j] = T(t) => Find(s, t) <= j
<1> DEFINE I == {i \in 1..Len(s) : s[i] = T(t)}
<1>1. Find(s, t) = IF I # {} THEN Min(I) ELSE 0
  BY DEF Find, SelectInSeq
<1>2. I \in SUBSET Nat /\ \A j \in I : j \in 1..Len(s) /\ s[j] = T(t)
  OBVIOUS
<1>3. \A j \in 1..Len(s) : s[j] = T(t) => j \in I
  OBVIOUS
<1> HIDE DEF I
<1>4. I # {} /\ Find(s, t) = Min(I)
  BY <1>1
<1>5. Find(s, t) \in I /\ \A j \in I : Find(s, t) <= j
  BY <1>2, <1>4, LeastIsMin
<1> QED BY <1>2, <1>3, <1>5

\* Find finds a token at the start of a text.
LEMMA FoundFirst ==
  ASSUME NEW A, NEW s \in Seq(A), NEW t, s # <<>>, s[1] = T(t)
  PROVE  Find(s, t) = 1
<1> DEFINE I == {i \in 1..Len(s) : s[i] = T(t)}
<1>1. Find(s, t) = IF I # {} THEN Min(I) ELSE 0
  BY DEF Find, SelectInSeq
<1>2. I \in SUBSET Nat /\ 1 \in I /\ \A j \in I : j >= 1
  OBVIOUS
<1> HIDE DEF I
<1>3. Min(I) \in I /\ Min(I) <= 1
  BY <1>2, LeastIsMin
<1>4. Min(I) = 1
  <2> DEFINE k == Min(I)
  <2> HIDE DEF k
  <2>1. k \in I /\ k <= 1
    BY <1>3 DEF k
  <2>2. k \in Nat /\ k >= 1
    BY <1>2, <2>1
  <2> QED BY <2>1, <2>2 DEF k
<1> QED BY <1>1, <1>2, <1>4

\* What is left of a text from i on is what lies before j and what is left from j on.
LEMMA FromSplit ==
  ASSUME NEW A, NEW s \in Seq(A), NEW i \in 1..(Len(s) + 1), NEW j \in i..(Len(s) + 1)
  PROVE  /\ SubSeq(s, i, j - 1) \in Seq(A) /\ From(s, j) \in Seq(A) /\ From(s, i) \in Seq(A)
         /\ From(s, i) = SubSeq(s, i, j - 1) \o From(s, j)
<1> DEFINE n == Len(s)
           u == SubSeq(s, i, j - 1)
           v == SubSeq(s, j, n)
           w == SubSeq(s, i, n)
           uv == u \o v
<1>1. n \in Nat /\ i \in Nat /\ j \in Nat /\ j \in 1..(n + 1) /\ j - 1 \in 0..n /\ n \in 0..n /\ 1 <= i /\ i <= j /\ j <= n + 1
  OBVIOUS
<1>2. u \in Seq(A) /\ Len(u) = (IF i <= j - 1 THEN (j - 1) - i + 1 ELSE 0)
      /\ \A k \in 1..((j - 1) - i + 1) : u[k] = s[i + k - 1]
  <2> HIDE DEF u
  <2> QED BY <1>1, SubSeqIn DEF u
<1>3. v \in Seq(A) /\ Len(v) = (IF j <= n THEN n - j + 1 ELSE 0) /\ \A k \in 1..(n - j + 1) : v[k] = s[j + k - 1]
  <2> HIDE DEF v
  <2> QED BY <1>1, SubSeqIn DEF v
<1>4. w \in Seq(A) /\ Len(w) = (IF i <= n THEN n - i + 1 ELSE 0) /\ \A k \in 1..(n - i + 1) : w[k] = s[i + k - 1]
  <2> HIDE DEF w
  <2> QED BY <1>1, SubSeqIn DEF w
<1> HIDE DEF u, v, w, n
<1>5. Len(u) = j - i /\ Len(v) = n + 1 - j /\ Len(w) = n + 1 - i
      /\ (j - 1) - i + 1 = j - i /\ n - j + 1 = n + 1 - j /\ n - i + 1 = n + 1 - i
  BY <1>1, <1>2, <1>3, <1>4
<1>6. uv \in Seq(A) /\ Len(uv) = Len(u) + Len(v)
      /\ \A k \in 1..(Len(u) + Len(v)) : uv[k] = IF k <= Len(u) THEN u[k] ELSE v[k - Len(u)]
  BY <1>2, <1>3, ConcatProperties
<1> HIDE DEF uv
<1>7. Len(w) = Len(uv)
  BY <1>1, <1>5, <1>6
<1>8. ASSUME NEW k \in 1..Len(w) PROVE w[k] = uv[k]
  <2>1. w[k] = s[i + k - 1] /\ k \in 1..(Len(u) + Len(v)) /\ k \in Nat
    BY <1>1, <1>4, <1>5, <1>6, <1>7
  <2>2. CASE k <= Len(u)
    <3>1. k \in 1..(j - i)
      BY <1>1, <1>5, <2>1, <2>2
    <3> QED BY <1>2, <1>5, <1>6, <2>1, <2>2, <3>1
  <2>3. CASE ~(k <= Len(u))
    <3>1. k - Len(u) \in 1..(n + 1 - j) /\ j + (k - Len(u)) - 1 = i + k - 1
      BY <1>1, <1>5, <2>1, <2>3
    <3>2. v[k - Len(u)] = s[j + (k - Len(u)) - 1]
      BY <1>3, <1>5, <3>1
    <3> QED BY <1>6, <2>1, <2>3, <3>1, <3>2
  <2> QED BY <2>2, <2>3
<1>9. w = uv
  BY <1>4, <1>6, <1>7, <1>8, SeqEqual
<1> QED BY <1>2, <1>3, <1>4, <1>9 DEF From, u, v, w, uv, n

LEMMA SubSeqOne ==
  ASSUME NEW A, NEW s \in Seq(A), NEW i \in 1..Len(s)
  PROVE  SubSeq(s, i, i) = <<s[i]>>
<1>1. i \in 1..(Len(s) + 1) /\ i \in 0..Len(s) /\ i \in Nat /\ s[i] \in A
  OBVIOUS
<1> DEFINE u == SubSeq(s, i, i)
<1>2. u \in Seq(A) /\ Len(u) = i - i + 1 /\ \A k \in 1..(i - i + 1) : u[k] = s[i + k - 1]
  <2> HIDE DEF u
  <2> QED BY <1>1, SubSeqIn DEF u
<1> HIDE DEF u
<1>3. Len(u) = 1 /\ u[1] = s[i]
  <2>1. i - i + 1 = 1 /\ i + 1 - 1 = i /\ 1 \in 1..1
    BY <1>1
  <2> QED BY <1>2, <2>1
<1>4. u = <<s[i]>>
  BY <1>2, <1>3
<1> QED BY <1>4 DEF u

LEMMA FromOne ==
  ASSUME NEW A, NEW s \in Seq(A)
  PROVE  From(s, 1) = s /\ From(s, Len(s) + 1) = <<>>
<1>1. 1 \in 1..(Len(s) + 1) /\ Len(s) \in 0..Len(s) /\ Len(s) \in Nat /\ Len(s) + 1 \in 1..(Len(s) + 1)
  OBVIOUS
<1> DEFINE u == SubSeq(s, 1, Len(s))
           v == SubSeq(s, Len(s) + 1, Len(s))
<1>2. u \in Seq(A) /\ Len(u) = (IF 1 <= Len(s) THEN Len(s) - 1 + 1 ELSE 0)
      /\ \A k \in 1..(Len(s) - 1 + 1) : u[k] = s[1 + k - 1]
  <2> HIDE DEF u
  <2> QED BY <1>1, SubSeqIn DEF u
<1>3. v \in Seq(A) /\ Len(v) = (IF Len(s) + 1 <= Len(s) THEN Len(s) - (Len(s) + 1) + 1 ELSE 0)
  <2> HIDE DEF v
  <2> QED BY <1>1, SubSeqIn DEF v
<1> DEFINE n == Len(s)
<1> HIDE DEF u, v
<1>4. Len(u) = n /\ \A k \in 1..n : u[k] = s[k]
  <2>1. n \in Nat /\ Len(u) = (IF 1 <= n THEN n - 1 + 1 ELSE 0) /\ \A k \in 1..(n - 1 + 1) : u[k] = s[1 + k - 1]
    BY <1>1, <1>2
  <2> HIDE DEF n
  <2>2. n - 1 + 1 = n /\ \A k \in 1..n : 1 + k - 1 = k
    BY <2>1
  <2> QED BY <2>1, <2>2
<1>5. Len(v) = 0
  BY <1>1, <1>3
<1>6. u = s
  BY <1>2, <1>4, SeqEqual
<1>7. v = <<>>
  BY <1>3, <1>5
<1> QED BY <1>6, <1>7 DEF From, u, v

\* What stands before a token that says nothing, and what stands after it.
LEMMA SaidCut ==
  ASSUME NEW m, m \in Meanings, NEW s, s \in Seq(Token), NEW i \in 1..Len(s), m[s[i]] = <<>>
  PROVE  /\ Until(s, i) \in Seq(Token) /\ From(s, i + 1) \in Seq(Token)
         /\ Said(s, m) = Said(Until(s, i), m) \o Said(From(s, i + 1), m)
<1> DEFINE u == Until(s, i)
           v == From(s, i + 1)
           x == <<s[i]>>
           w == From(s, i)
<1>1. i \in Nat /\ Len(s) \in Nat /\ 1 \in 1..(Len(s) + 1) /\ i \in 1..(Len(s) + 1) /\ i + 1 \in i..(Len(s) + 1) /\ (i + 1) - 1 = i
      /\ s[i] \in Token
  OBVIOUS
<1> HIDE DEF Token
<1>2. u \in Seq(Token) /\ w \in Seq(Token) /\ s = u \o w
  <2>1. From(s, 1) = s
    BY FromOne
  <2>2. SubSeq(s, 1, i - 1) \in Seq(Token) /\ From(s, i) \in Seq(Token) /\ From(s, 1) = SubSeq(s, 1, i - 1) \o From(s, i)
    BY <1>1, FromSplit
  <2> QED BY <2>1, <2>2 DEF Until
<1>3. v \in Seq(Token) /\ w = x \o v
  <2>1. SubSeq(s, i, i) = x
    BY SubSeqOne
  <2>2. From(s, i + 1) \in Seq(Token) /\ From(s, i) = SubSeq(s, i, (i + 1) - 1) \o From(s, i + 1)
    BY <1>1, FromSplit
  <2> QED BY <1>1, <2>1, <2>2
<1> HIDE DEF u, v, w
<1>4. Said(w, m) = Said(v, m)
  BY <1>1, <1>3, SaidMute
<1>5. SaysBoth(u, w, m)
  BY <1>2, SaidBoth, Zenon
<1> QED BY <1>2, <1>3, <1>4, <1>5 DEF SaysBoth, u, v

LEMMA SaidSame ==
  ASSUME NEW A, A \subseteq Token, NEW s, s \in Seq(A), NEW m, NEW k, \A x \in A : m[x] = k[x]
  PROVE  s \in Seq(Token) /\ Said(s, m) = Said(s, k)
<1>1. s \in Seq(Token) /\ \A i \in 1..Len(s) : s[i] \in A
  OBVIOUS
<1>2. \A i \in 1..Len(s) : m[s[i]] = k[s[i]]
  BY <1>1
<1> QED BY <1>1, <1>2, SaidLike

SaysMarked(a, b, x, c, m) ==
  Said((a \o b \o <<x>>) \o c, m) = Said(a, m) \o (Said(b, m) \o (m[x] \o Said(c, m)))

\* A mark between two texts says its own meaning there.
LEMMA SaidMarked == \A m \in Meanings : \A a, b, c \in Seq(Token), x \in Token : SaysMarked(a, b, x, c, m)
<1> SUFFICES ASSUME NEW m, m \in Meanings, NEW a, NEW b, NEW c, a \in Seq(Token), b \in Seq(Token), c \in Seq(Token),
                    NEW x, x \in Token
             PROVE  SaysMarked(a, b, x, c, m)
  OBVIOUS
<1> DEFINE one == <<x>>
           xc == one \o c
           bxc == b \o xc
<1>1. one \in Seq(Token) /\ Said(one, m) = m[x]
  BY SaidOne
<1> HIDE DEF one, Token
<1>2. xc \in Seq(Token) /\ bxc \in Seq(Token)
  BY <1>1, ConcatProperties
<1>3. (a \o b \o one) \o c = a \o bxc
  <2>1. a \o b \in Seq(Token)
    BY ConcatProperties
  <2>2. Assoc(a \o b, one, c) /\ Assoc(a, b, xc)
    BY <1>1, <1>2, <2>1, Associative, Zenon
  <2> QED BY <2>2 DEF Assoc
<1> HIDE DEF xc, bxc
<1>4. SaysBoth(a, bxc, m)
  BY <1>2, SaidBoth, Zenon
<1>5. SaysBoth(b, xc, m)
  BY <1>2, SaidBoth, Zenon
<1>6. SaysBoth(one, c, m)
  BY <1>1, SaidBoth, Zenon
<1> QED BY <1>1, <1>3, <1>4, <1>5, <1>6 DEF SaysBoth, SaysMarked, one, xc, bxc

LEMMA PlainFrom ==
  ASSUME NEW A, NEW s \in Seq(A), NEW i \in 0..Len(s), PlainFences(s)
  PROVE  PlainFences(From(s, i + 1))
<1> DEFINE u == From(s, i + 1)
           n == Len(s)
<1>1. i + 1 \in 1..(n + 1) /\ n \in 0..n /\ i \in Nat /\ n \in Nat /\ i <= n
  OBVIOUS
<1>2. Len(u) = (IF i + 1 <= n THEN n - (i + 1) + 1 ELSE 0) /\ \A k \in 1..(n - (i + 1) + 1) : u[k] = s[i + 1 + k - 1]
  <2> HIDE DEF n, u
  <2> QED BY <1>1, SubSeqIn DEF From, n, u
<1> HIDE DEF u, n
<1>3. Len(u) = n - i /\ n - (i + 1) + 1 = n - i
  BY <1>1, <1>2
<1>4. ASSUME NEW k \in 1..(Len(u) - 1), u[k] = T("fence") PROVE u[k + 1] = T("nl")
  <2>1. /\ k \in 1..(n - i) /\ k + 1 \in 1..(n - i) /\ i + k \in 1..(n - 1)
        /\ i + 1 + k - 1 = i + k /\ i + 1 + (k + 1) - 1 = (i + k) + 1
    BY <1>1, <1>3
  <2>2. u[k] = s[i + k] /\ u[k + 1] = s[(i + k) + 1]
    BY <1>2, <1>3, <2>1
  <2> QED BY <1>4, <2>1, <2>2 DEF PlainFences, n
<1> QED BY <1>4 DEF PlainFences, u

LEMMA PlainDrop ==
  ASSUME NEW A, NEW s \in Seq(A), NEW t, PlainFences(s)
  PROVE  PlainFences(Drop(s, t))
<1>1. CASE s # <<>> /\ Head(s) = T(t)
  <2> DEFINE u == Tail(s)
             n == Len(s)
  <2>1. Len(u) = n - 1 /\ n \in Nat /\ \A k \in 1..(n - 1) : u[k] = s[k + 1]
    BY <1>1
  <2> HIDE DEF u
  <2>2. ASSUME NEW k \in 1..(Len(u) - 1), u[k] = T("fence") PROVE u[k + 1] = T("nl")
    <3>1. k \in 1..(n - 1) /\ k + 1 \in 1..(n - 1)
      BY <2>1
    <3>2. s[k + 1] = T("fence")
      BY <2>1, <2>2, <3>1
    <3>3. s[(k + 1) + 1] = T("nl")
      BY <3>1, <3>2 DEF PlainFences
    <3> QED BY <2>1, <3>1, <3>3
  <2> QED BY <1>1, <2>2 DEF PlainFences, Drop, u
<1>2. CASE ~(s # <<>> /\ Head(s) = T(t))
  BY <1>2 DEF Drop
<1> QED BY <1>1, <1>2

-----------------------------------------------------------------------------
(* Nothing is lost.                                                        *)


\* What a token says once inline code and tables are back: the fenced code it stands for.
Mute == Standing("C", fenced, Word)
Reading == Standing("I", inline, Standing("T", tables, Mute))

\* At every pass the text says what the reply said: what is written, what is yet to be
\* read, and the blocks in place of the placeholders; placeholders do not nest.
KeptInv ==
  /\ inline \in Seq(Seq(Free("T"))) /\ lines \in Seq(Seq(Free("T")))
  /\ pass = "fences" => inline = <<>> /\ rest \in Seq(Prose) /\ (PlainFences(text) => PlainFences(rest))
  /\ pass = "inline" => rest \in Seq(Free("I"))
  /\ pass \in {"fences", "inline"} => tables = <<>> /\ index = 1
  /\ pass = "tables" => index \in 1..(Len(lines) + 1)
  /\ PlainFences(text) =>
       /\ pass \in {"fences", "inline"} => Said(done \o rest, Reading) = Words(text)
       /\ RegularTables =>
            /\ pass = "tables" => Said(done \o FlattenSeq(From(lines, index)), Reading) = Words(text)
            /\ pass = "bold" => Said(done \o rest, Reading) = Words(text)
            /\ pass = "restore" => Said(done, Reading) = Words(text)
            /\ pass = "over" => Words(done) = Words(text)

LEMMA TokensOnly ==
  ASSUME FormatInv
  PROVE  /\ Alphabet \subseteq Token /\ Prose \subseteq Token
         /\ fenced \in Seq(Seq(Token)) /\ inline \in Seq(Seq(Token)) /\ tables \in Seq(Seq(Token))
         /\ rest \in Seq(Token) /\ lines \in Seq(Seq(Token))
         /\ pass \in {"fences", "inline", "tables", "bold", "restore", "over"} => done \in Seq(Token)
<1> DEFINE A == Alphabet
           H == Html(Safe(A))
<1>1. Len(fenced) \in Nat /\ Len(inline) \in Nat /\ Len(tables) \in Nat
  BY DEF FormatInv
<1>2. A \subseteq Token /\ Prose \subseteq Token
  <2>1. 1..Len(fenced) \subseteq Nat /\ 1..Len(inline) \subseteq Nat /\ 1..Len(tables) \subseteq Nat
    BY <1>1
  <2>2. Prose \cup {T("escaped"), T("dash")} \subseteq Token
    BY Tokens
  <2>3. "C" \in Kinds /\ "I" \in Kinds /\ "T" \in Kinds
    BY DEF Kinds
  <2> QED BY <2>1, <2>2, <2>3 DEF Alphabet, Token
<1>3. fenced \in Seq(Seq(A)) /\ inline \in Seq(Seq(A)) /\ tables \in Seq(H) /\ rest \in Seq(A) /\ lines \in Seq(Seq(A))
      /\ (pass \in {"fences", "inline", "tables"} => done \in Seq(A))
      /\ (pass \in {"bold", "restore", "over"} => done \in H)
  BY DEF FormatInv
<1> HIDE DEF A
<1>4. Seq(A) \subseteq Seq(Token) /\ Seq(Seq(A)) \subseteq Seq(Seq(Token))
  BY <1>2, Larger
<1>5. H \subseteq Seq(Token)
  <2>1. Safe(A) \cup Tags \subseteq Token
    BY <1>2, Tokens DEF Safe
  <2>2. Seq(Safe(A) \cup Tags) \subseteq Seq(Token)
    BY <2>1
  <2> QED BY <2>2 DEF Html
<1>6. Seq(H) \subseteq Seq(Seq(Token))
  <2> DEFINE Y == Seq(Token)
  <2> HIDE DEF H, Y
  <2>1. H \subseteq Y
    BY <1>5 DEF Y
  <2>2. Seq(H) \subseteq Seq(Y)
    BY <2>1
  <2> QED BY <2>2 DEF Y
<1> HIDE DEF H
<1>7. pass \in {"fences", "inline", "tables", "bold", "restore", "over"} => done \in Seq(Token)
  BY <1>3, <1>4, <1>5
<1> QED BY <1>2, <1>3, <1>4, <1>6, <1>7 DEF A

\* The three meanings give every token a text, and give markup the empty one.
LEMMA ReadingIs ==
  ASSUME FormatInv
  PROVE  /\ Mute \in Meanings /\ Quiet(Mute)
         /\ Standing("T", tables, Mute) \in Meanings /\ Quiet(Standing("T", tables, Mute))
         /\ Reading \in Meanings /\ Quiet(Reading)
<1>1. fenced \in Seq(Seq(Token)) /\ inline \in Seq(Seq(Token)) /\ tables \in Seq(Seq(Token))
  BY TokensOnly
<1>2. Mute \in Meanings /\ Quiet(Mute)
  BY <1>1, WordsAreSaid, StandingIs DEF Mute
<1> DEFINE k == Standing("T", tables, Mute)
<1>3. k \in Meanings /\ Quiet(k)
  BY <1>1, <1>2, StandingIs
<1> HIDE DEF k
<1>4. Standing("I", inline, k) \in Meanings /\ Quiet(Standing("I", inline, k))
  BY <1>1, <1>3, StandingIs
<1> QED BY <1>2, <1>3, <1>4 DEF Reading, k

\* The alphabet has no placeholder of what is not there.
LEMMA NoSuchMark ==
  ASSUME FormatInv
  PROVE  /\ <<"C", Len(fenced) + 1>> \notin Alphabet /\ <<"I", Len(inline) + 1>> \notin Alphabet
         /\ <<"T", Len(tables) + 1>> \notin Alphabet
         /\ <<"C", Len(fenced) + 1>> \in Token /\ <<"I", Len(inline) + 1>> \in Token
         /\ <<"T", Len(tables) + 1>> \in Token
         /\ inline = <<>> => Alphabet \subseteq Free("I")
         /\ tables = <<>> => Alphabet \subseteq Free("T")
         /\ Prose \subseteq Free("C")
<1>1. Len(fenced) \in Nat /\ Len(inline) \in Nat /\ Len(tables) \in Nat
  BY DEF FormatInv
<1>2. \A x \in Alphabet : /\ x[1] = "C" => x[2] \in 1..Len(fenced)
                          /\ x[1] = "I" => x[2] \in 1..Len(inline)
                          /\ x[1] = "T" => x[2] \in 1..Len(tables)
  BY AlphabetHas DEF FormatInv
<1>3. \A n \in Nat : n + 1 \notin 1..n /\ n + 1 \in Nat
  OBVIOUS
<1>4. /\ <<"C", Len(fenced) + 1>> \notin Alphabet /\ <<"I", Len(inline) + 1>> \notin Alphabet
      /\ <<"T", Len(tables) + 1>> \notin Alphabet
  BY <1>1, <1>2, <1>3
<1>5. "C" \in Kinds /\ "I" \in Kinds /\ "T" \in Kinds
  BY DEF Kinds
<1>6. /\ <<"C", Len(fenced) + 1>> \in Token /\ <<"I", Len(inline) + 1>> \in Token
      /\ <<"T", Len(tables) + 1>> \in Token
  BY <1>1, <1>3, <1>5 DEF Token
<1>7. Alphabet \subseteq Token
  BY TokensOnly
<1>8. Prose \subseteq Free("C")
  BY Tokens DEF Prose, Free
<1>9. inline = <<>> => Alphabet \subseteq Free("I")
  BY <1>2, <1>7 DEF Free
<1>10. tables = <<>> => Alphabet \subseteq Free("T")
  BY <1>2, <1>7 DEF Free
<1> QED BY <1>4, <1>6, <1>8, <1>9, <1>10

\* Nothing is taken out of a reply yet,
LEMMA KeptStarts == FormatInit => KeptInv
<1> SUFFICES ASSUME FormatInit PROVE KeptInv
  OBVIOUS
<1>1. text \in Seq(Prose) /\ rest = text /\ done = <<>> /\ pass = "fences"
      /\ fenced = <<>> /\ inline = <<>> /\ tables = <<>> /\ lines = <<>> /\ index = 1
  BY TextsAssumption DEF FormatInit
<1>2. text \in Seq(Token)
  BY <1>1, Tokens
<1>3. Reading = Word
  BY <1>1, WordsAreSaid, StandingNone DEF Reading, Mute
<1>4. done \o rest = text
  BY <1>1
<1>5. Said(done \o rest, Reading) = Words(text)
  BY <1>2, <1>3, <1>4, WordsAreSaid
<1>6. \A S : <<>> \in Seq(S)
  OBVIOUS
<1> QED BY <1>1, <1>5, <1>6 DEF KeptInv

\* Where a fence is taken out its block says what stood between it and the next.
LEMMA SaidFenced ==
  ASSUME NEW m, m \in Meanings, Quiet(m), NEW s, s \in Seq(Token), PlainFences(s)
  PROVE  LET open == Find(s, "fence")
             after == From(s, open + 1)
             nl == Find(after, "nl")
             body == From(after, nl + 1)
             close == Find(body, "fence")
         IN open # 0 /\ nl # 0 /\ close # 0 =>
              Said(s, m) = Said(Until(s, open), m)
                             \o (Said(DropLast(Until(body, close), "nl"), m)
                                   \o Said(Drop(From(body, close + 1), "nl"), m))
<1> DEFINE open == Find(s, "fence")
           after == From(s, open + 1)
           nl == Find(after, "nl")
           body == From(after, nl + 1)
           close == Find(body, "fence")
<1> SUFFICES ASSUME open # 0, nl # 0, close # 0
             PROVE  Said(s, m) = Said(Until(s, open), m)
                                   \o (Said(DropLast(Until(body, close), "nl"), m)
                                         \o Said(Drop(From(body, close + 1), "nl"), m))
  OBVIOUS
<1>1. T("fence") \in Token /\ T("nl") \in Token /\ m[T("fence")] = <<>> /\ m[T("nl")] = <<>>
  BY Tokens, Silence
<1>2. open \in 1..Len(s) /\ s[open] = T("fence")
  BY FoundAt
<1>3. Until(s, open) \in Seq(Token) /\ after \in Seq(Token) /\ Said(s, m) = Said(Until(s, open), m) \o Said(after, m)
  <2> HIDE DEF open
  <2> QED BY <1>1, <1>2, SaidCut
<1>4. nl = 1
  <2>1. Find(after, "nl") \in 1..Len(after)
    <3> HIDE DEF after
    <3> QED BY <1>3, FoundAt
  <2>2. after # <<>> /\ 1 \in 1..Len(after)
    <3> HIDE DEF after
    <3> QED BY <1>3, <2>1
  <2>3. after[1] = s[open + 1] /\ open + 1 \in 1..Len(s)
    <3> HIDE DEF open
    <3>1. open + 1 \in 1..(Len(s) + 1) /\ Len(s) \in 0..Len(s)
      BY <1>2
    <3>2. Len(after) = (IF open + 1 <= Len(s) THEN Len(s) - (open + 1) + 1 ELSE 0)
          /\ \A k \in 1..(Len(s) - (open + 1) + 1) : after[k] = s[open + 1 + k - 1]
      BY <3>1, SubSeqIn DEF From
    <3> HIDE DEF after
    <3>3. open + 1 <= Len(s)
      BY <1>2, <2>2, <3>2
    <3>4. 1 \in 1..(Len(s) - (open + 1) + 1) /\ open + 1 + 1 - 1 = open + 1
      BY <1>2, <3>3
    <3> QED BY <3>1, <3>2, <3>3, <3>4
  <2>4. after[1] = T("nl")
    <3> HIDE DEF open, after
    <3>1. open \in 1..(Len(s) - 1)
      BY <1>2, <2>3
    <3> QED BY <1>2, <2>3, <3>1 DEF PlainFences
  <2> HIDE DEF after
  <2> QED BY <1>3, <2>2, <2>4, FoundFirst
<1> HIDE DEF after, open
<1>5. body \in Seq(Token) /\ Said(after, m) = Said(body, m)
  <2>1. 1 \in 1..Len(after) /\ after[1] = T("nl")
    BY <1>3, <1>4, FoundAt
  <2>2. From(after, 1 + 1) \in Seq(Token) /\ Said(after, m) = Said(Until(after, 1), m) \o Said(From(after, 1 + 1), m)
    BY <1>1, <1>3, <2>1, SaidCut
  <2>3. Until(after, 1) = <<>>
    BY DEF Until
  <2>4. body = From(after, 1 + 1)
    BY <1>4
  <2> HIDE DEF body
  <2>5. Said(body, m) \in Seq(Token)
    BY <2>2, <2>4, SaidTyped
  <2> DEFINE said == Said(body, m)
  <2> HIDE DEF said
  <2>6. <<>> \o said = said
    BY <2>5, ConcatEmptySeq DEF said
  <2> QED BY <2>2, <2>3, <2>4, <2>6, SaidEmpty DEF said
<1> HIDE DEF body, nl
<1>6. close \in 1..Len(body) /\ body[close] = T("fence")
  BY <1>5, FoundAt
<1> HIDE DEF close
<1>7. Until(body, close) \in Seq(Token) /\ From(body, close + 1) \in Seq(Token)
      /\ Said(body, m) = Said(Until(body, close), m) \o Said(From(body, close + 1), m)
  BY <1>1, <1>5, <1>6, SaidCut
<1>8. Said(DropLast(Until(body, close), "nl"), m) = Said(Until(body, close), m)
      /\ Said(Drop(From(body, close + 1), "nl"), m) = Said(From(body, close + 1), m)
  BY <1>1, <1>7, SaidDrop
<1> QED BY <1>3, <1>5, <1>7, <1>8

\* a block of fenced code is said by its placeholder,
LEMMA TakeFenceTells ==
  ASSUME FormatInv, KeptInv, TakeFence
  PROVE  KeptInv'
<1> DEFINE open == Find(rest, "fence")
           after == From(rest, open + 1)
           nl == Find(after, "nl")
           body == From(after, nl + 1)
           close == Find(body, "fence")
           block == DropLast(Until(body, close), "nl")
           later == Drop(From(body, close + 1), "nl")
           upTo == Until(rest, open)
           mark == <<"C", Len(fenced) + 1>>
<1>1. /\ pass = "fences" /\ UNCHANGED <<text, lines, index, inline, tables>>
      /\ \/ /\ open # 0 /\ nl # 0 /\ close # 0
            /\ done' = done \o upTo \o <<mark>>
            /\ rest' = later /\ fenced' = Append(fenced, block) /\ pass' = pass
         \/ pass' = "inline" /\ done' = <<>> /\ rest' = Ticks(done \o rest) /\ fenced' = fenced
  BY DEF TakeFence
<1>2. /\ inline = <<>> /\ tables = <<>> /\ rest \in Seq(Prose) /\ lines \in Seq(Seq(Free("T"))) /\ index = 1
      /\ inline \in Seq(Seq(Free("T")))
      /\ PlainFences(text) => PlainFences(rest) /\ Said(done \o rest, Reading) = Words(text)
  BY <1>1 DEF KeptInv
<1>3. done \in Seq(Alphabet) /\ done \in Seq(Token) /\ rest \in Seq(Token) /\ fenced \in Seq(Seq(Token)) /\ Alphabet \subseteq Token
  BY <1>1, TokensOnly DEF FormatInv
<1>4. block \in Seq(Prose) /\ later \in Seq(Prose) /\ upTo \in Seq(Prose) /\ after \in Seq(Prose)
      /\ body \in Seq(Prose) /\ From(body, close + 1) \in Seq(Prose)
      /\ open \in 0..Len(rest) /\ nl \in 0..Len(after) /\ close \in 0..Len(body)
  <2>1. after \in Seq(Prose) /\ upTo \in Seq(Prose) /\ open \in 0..Len(rest)
    BY <1>2, FindAt, PartsIn
  <2>2. body \in Seq(Prose) /\ nl \in 0..Len(after)
    <3> HIDE DEF after
    <3> QED BY <2>1, FindAt, PartsIn
  <2>3. Until(body, close) \in Seq(Prose) /\ From(body, close + 1) \in Seq(Prose) /\ close \in 0..Len(body)
    <3> HIDE DEF body
    <3> QED BY <2>2, FindAt, PartsIn
  <2>4. block \in Seq(Prose) /\ later \in Seq(Prose)
    <3> HIDE DEF body, close
    <3> QED BY <2>3, Dropped
  <2> QED BY <2>1, <2>2, <2>3, <2>4
<1>5. /\ mark \notin Alphabet /\ mark \in Token /\ Alphabet \subseteq Free("I") /\ Alphabet \subseteq Free("T")
      /\ Prose \subseteq Free("C") /\ Prose \subseteq Token
  BY <1>2, NoSuchMark, Tokens
<1>6. Mute \in Meanings /\ Quiet(Mute) /\ Reading \in Meanings /\ Quiet(Reading) /\ Mute' \in Meanings
  <2> DEFINE Y == Seq(Token)
  <2>1. block \in Y /\ fenced \in Seq(Y)
    BY <1>3, <1>4, <1>5
  <2> HIDE DEF Y, block
  <2>2. fenced' \in Seq(Y)
    <3>1. fenced' = Append(fenced, block) \/ fenced' = fenced
      BY <1>1
    <3> QED BY <2>1, <3>1
  <2>3. Standing("C", fenced', Word) \in Meanings
    BY <2>2, WordsAreSaid, StandingIs DEF Y
  <2>4. Mute' \in Meanings
    BY <2>3 DEF Mute
  <2> QED BY <2>4, ReadingIs
<1>7. Reading = Mute /\ Reading' = Mute'
  BY <1>1, <1>2, <1>6, StandingNone DEF Reading
<1>8. CASE /\ open # 0 /\ nl # 0 /\ close # 0
           /\ done' = done \o upTo \o <<mark>>
           /\ rest' = later /\ fenced' = Append(fenced, block) /\ pass' = pass
  <2>5. ASSUME PlainFences(text)
        PROVE  PlainFences(later) /\ Said(rest, Word) = Said(upTo, Word) \o (Said(block, Word) \o Said(later, Word))
    <3>1. PlainFences(rest)
      BY <1>2, <2>5
    <3>2. Said(rest, Word) = Said(upTo, Word) \o (Said(block, Word) \o Said(later, Word))
      BY <1>3, <1>8, <3>1, SaidFenced, WordsAreSaid
    <3> HIDE DEF open
    <3>3. PlainFences(after)
      BY <1>2, <1>4, <3>1, PlainFrom
    <3> HIDE DEF after, nl
    <3>4. PlainFences(body)
      BY <1>4, <3>3, PlainFrom
    <3> HIDE DEF body, close
    <3>5. PlainFences(From(body, close + 1))
      BY <1>4, <3>4, PlainFrom
    <3>6. PlainFences(later)
      BY <1>4, <3>5, PlainDrop
    <3> QED BY <3>2, <3>6
  <2> HIDE DEF upTo, block, later, open, after, nl, body, close
  <2>6. /\ Mute'[mark] = Said(block, Word)
        /\ \A y \in Token : y # mark => Mute'[y] = Mute[y]
    <3>1. Mute' = Standing("C", Append(fenced, block), Word)
      BY <1>8 DEF Mute
    <3>2. block \in Seq(Token)
      BY <1>4, <1>5
    <3> DEFINE Y == Seq(Token)
    <3>3. fenced \in Seq(Y) /\ block \in Y
      BY <1>3, <3>2
    <3> HIDE DEF Y
    <3> QED BY <1>5, <3>1, <3>3, StandingMore DEF Mute
  <2>7. \A s \in Seq(Prose) : /\ s \in Seq(Token) /\ Said(s, Mute) = Said(s, Word)
                              /\ s \in Seq(Alphabet) /\ Said(s, Mute') = Said(s, Word)
    <3>1. Prose \subseteq Alphabet
      BY DEF Alphabet
    <3>2. ASSUME NEW s \in Seq(Prose)
          PROVE  /\ s \in Seq(Token) /\ Said(s, Mute) = Said(s, Word)
                 /\ s \in Seq(Alphabet) /\ Said(s, Mute') = Said(s, Word)
      <4>1. s \in Seq(Free("C")) /\ s \in Seq(Token) /\ s \in Seq(Alphabet)
        BY <1>5, <3>1
      <4>2. Said(s, Mute) = Said(s, Word) /\ Said(s, Standing("C", fenced', Word)) = Said(s, Word)
        BY <4>1, StandingSkips DEF Mute
      <4> QED BY <4>1, <4>2 DEF Mute
    <3> QED BY <3>2
  <2>8. Said(done, Mute') = Said(done, Mute)
    <3>1. \A x \in Alphabet : Mute[x] = Mute'[x]
      BY <1>3, <1>5, <2>6
    <3> QED BY <1>3, <3>1, SaidSame
  <2>9. ASSUME PlainFences(text)
        PROVE  Said(done' \o rest', Reading') = Words(text)
    <3>1. Said((done \o upTo \o <<mark>>) \o later, Mute')
            = Said(done, Mute') \o (Said(upTo, Mute') \o (Mute'[mark] \o Said(later, Mute')))
      <4>1. upTo \in Seq(Token) /\ later \in Seq(Token)
        BY <1>4, <2>7
      <4>2. SaysMarked(done, upTo, mark, later, Mute')
        BY <1>3, <1>5, <1>6, <4>1, SaidMarked, Zenon
      <4> QED BY <4>2 DEF SaysMarked
    <3>2. SaysBoth(done, rest, Mute)
      BY <1>3, <1>6, SaidBoth, Zenon
    <3>3. Said(done \o rest, Mute) = Said(done, Mute) \o Said(rest, Word)
      BY <1>2, <2>7, <3>2 DEF SaysBoth
    <3>4. Said(upTo, Mute') = Said(upTo, Word) /\ Said(later, Mute') = Said(later, Word)
      BY <1>4, <2>7
    <3>5. Said(done \o rest, Mute) = Words(text)
      BY <1>2, <1>7, <2>9
    <3>6. Said(rest, Word) = Said(upTo, Word) \o (Said(block, Word) \o Said(later, Word))
      BY <2>5, <2>9
    <3> HIDE DEF mark
    <3> QED BY <1>7, <1>8, <2>6, <2>8, <3>1, <3>3, <3>4, <3>5, <3>6
  <2>10. rest' \in Seq(Prose) /\ (PlainFences(text) => PlainFences(rest'))
    BY <1>4, <1>8, <2>5
  <2> QED BY <1>1, <1>2, <1>8, <2>9, <2>10 DEF KeptInv
<1>9. CASE pass' = "inline" /\ done' = <<>> /\ rest' = Ticks(done \o rest) /\ fenced' = fenced
  <2> DEFINE s == done \o rest
  <2>1. s \in Seq(Token) /\ s \in Seq(Free("I"))
    <3>1. done \in Seq(Free("I")) /\ rest \in Seq(Free("I"))
      <4>1. rest \in Seq(Alphabet)
        BY DEF FormatInv
      <4> QED BY <1>3, <1>5, <4>1
    <3> QED BY <1>3, <3>1, ConcatProperties
  <2> HIDE DEF s
  <2>2. Ticks(s) \in Seq(Token) /\ Said(Ticks(s), Mute) = Said(s, Mute)
    BY <1>6, <2>1, SaidTicks
  <2>3. Ticks(s) \in Seq(Free("I"))
    <3>1. T("tick") \in Free("I")
      BY Tokens DEF Free, T
    <3> QED BY <2>1, <3>1, TicksTyped
  <2>4. Mute' = Mute
    BY <1>9 DEF Mute
  <2>5. <<>> \o Ticks(s) = Ticks(s)
    BY <2>2, ConcatEmptySeq
  <2>6. PlainFences(text) => Said(done' \o rest', Reading') = Words(text)
    BY <1>2, <1>7, <1>9, <2>2, <2>4, <2>5 DEF s
  <2> QED BY <1>1, <1>2, <1>9, <2>3, <2>6 DEF KeptInv, s
<1> QED BY <1>1, <1>8, <1>9

\* so is a span of inline code,
LEMMA TakeInlineTells ==
  ASSUME FormatInv, KeptInv, TakeInline
  PROVE  KeptInv'
<1> DEFINE open == Find(rest, "tick")
           after == From(rest, open + 1)
           close == Find(after, "tick")
           chunk == Until(after, close)
           later == From(after, close + 1)
           upTo == Until(rest, open)
           mark == <<"I", Len(inline) + 1>>
           F == Free("I")
<1>1. /\ pass = "inline" /\ UNCHANGED <<text, index, fenced, tables>>
      /\ \/ /\ open # 0 /\ close # 0
            /\ done' = done \o upTo \o <<mark>>
            /\ rest' = later /\ inline' = Append(inline, chunk) /\ pass' = pass /\ lines' = lines
         \/ /\ pass' = "tables" /\ done' = <<>> /\ rest' = <<>>
            /\ lines' = Pieces(done \o rest, "nl") /\ inline' = inline
  BY DEF TakeInline
<1>2. /\ tables = <<>> /\ rest \in Seq(F) /\ lines \in Seq(Seq(Free("T"))) /\ index = 1
      /\ inline \in Seq(Seq(Free("T")))
      /\ PlainFences(text) => Said(done \o rest, Reading) = Words(text)
  BY <1>1 DEF KeptInv
<1>3. done \in Seq(Alphabet) /\ done \in Seq(Token) /\ rest \in Seq(Token) /\ rest \in Seq(Alphabet)
      /\ inline \in Seq(Seq(Token)) /\ Alphabet \subseteq Token
  BY <1>1, TokensOnly DEF FormatInv
<1>4. mark \notin Alphabet /\ mark \in Token /\ Alphabet \subseteq Free("T")
  BY <1>2, NoSuchMark
<1>5. F \subseteq Token
  BY DEF Free
<1> HIDE DEF F
<1>6. upTo \in Seq(F) /\ after \in Seq(F) /\ after \in Seq(Alphabet)
  BY <1>2, <1>3, FindAt, PartsIn
<1>7. chunk \in Seq(F) /\ later \in Seq(F) /\ chunk \in Seq(Alphabet)
  <2> HIDE DEF after
  <2> QED BY <1>6, FindAt, PartsIn
<1>8. chunk \in Seq(Token) /\ chunk \in Seq(Free("T")) /\ later \in Seq(Token) /\ upTo \in Seq(Token) /\ after \in Seq(Token)
  <2> HIDE DEF chunk, later, upTo, after
  <2> QED BY <1>3, <1>4, <1>5, <1>6, <1>7
<1>9. Mute \in Meanings /\ Quiet(Mute) /\ Reading = Standing("I", inline, Mute) /\ Mute' = Mute
      /\ Reading' = Standing("I", inline', Mute) /\ Reading \in Meanings /\ Quiet(Reading)
  <2>1. Mute \in Meanings /\ Quiet(Mute) /\ Reading \in Meanings /\ Quiet(Reading)
    BY ReadingIs
  <2>2. Mute' = Mute
    BY <1>1 DEF Mute
  <2>3. Standing("T", tables, Mute) = Mute
    BY <1>2, <2>1, StandingNone
  <2>4. Standing("T", tables', Mute') = Mute
    BY <1>1, <2>2, <2>3
  <2> QED BY <2>1, <2>2, <2>3, <2>4 DEF Reading
<1>10. CASE /\ open # 0 /\ close # 0
            /\ done' = done \o upTo \o <<mark>>
            /\ rest' = later /\ inline' = Append(inline, chunk) /\ pass' = pass /\ lines' = lines
  <2>1. Said(rest, Mute) = Said(upTo, Mute) \o (Said(chunk, Mute) \o Said(later, Mute))
    <3>1. Mute[T("tick")] = <<>>
      BY <1>9, Silence
    <3>2. open \in 1..Len(rest) /\ rest[open] = T("tick")
      BY <1>3, <1>10, FoundAt
    <3> HIDE DEF open
    <3>3. Said(rest, Mute) = Said(upTo, Mute) \o Said(after, Mute)
      BY <1>3, <1>9, <3>1, <3>2, SaidCut
    <3> HIDE DEF after
    <3>4. close \in 1..Len(after) /\ after[close] = T("tick")
      BY <1>8, <1>10, FoundAt
    <3> HIDE DEF close
    <3>5. Said(after, Mute) = Said(chunk, Mute) \o Said(later, Mute)
      BY <1>8, <1>9, <3>1, <3>4, SaidCut
    <3> QED BY <3>3, <3>5
  <2> HIDE DEF upTo, chunk, later, open, after, close
  <2>2. /\ Reading'[mark] = Said(chunk, Mute)
        /\ \A y \in Token : y # mark => Reading'[y] = Reading[y]
    <3>1. Reading' = Standing("I", Append(inline, chunk), Mute)
      BY <1>9, <1>10
    <3> DEFINE Y == Seq(Token)
    <3>2. inline \in Seq(Y) /\ chunk \in Y
      BY <1>3, <1>8
    <3> HIDE DEF Y
    <3> QED BY <1>4, <1>9, <3>1, <3>2, StandingMore
  <2>3. Reading' \in Meanings
    <3> DEFINE Y == Seq(Token)
    <3>1. inline \in Seq(Y) /\ chunk \in Y
      BY <1>3, <1>8
    <3> HIDE DEF Y
    <3>2. inline' \in Seq(Y)
      BY <1>10, <3>1
    <3> QED BY <1>9, <3>2, StandingIs DEF Y
  <2>4. \A s \in Seq(F) : Said(s, Reading) = Said(s, Mute) /\ Said(s, Reading') = Said(s, Mute)
    BY <1>9, StandingSkips DEF F
  <2>5. Said(done, Reading') = Said(done, Reading)
    <3>1. \A x \in Alphabet : Reading[x] = Reading'[x]
      BY <1>3, <1>4, <2>2
    <3> QED BY <1>3, <3>1, SaidSame
  <2>6. ASSUME PlainFences(text)
        PROVE  Said(done' \o rest', Reading') = Words(text)
    <3>1. SaysMarked(done, upTo, mark, later, Reading')
      BY <1>3, <1>4, <1>8, <2>3, SaidMarked, Zenon
    <3>2. SaysBoth(done, rest, Reading)
      BY <1>3, <1>9, SaidBoth, Zenon
    <3>3. Said(done \o rest, Reading) = Said(done, Reading) \o Said(rest, Mute)
      BY <1>2, <2>4, <3>2 DEF SaysBoth
    <3>4. Said(upTo, Reading') = Said(upTo, Mute) /\ Said(later, Reading') = Said(later, Mute)
      BY <1>6, <1>7, <2>4
    <3>5. Said(done \o rest, Reading) = Words(text)
      BY <1>2, <2>6
    <3> HIDE DEF mark
    <3> QED BY <1>10, <2>1, <2>2, <2>5, <3>1, <3>3, <3>4, <3>5 DEF SaysMarked
  <2>7. inline' \in Seq(Seq(Free("T")))
    <3> DEFINE Y == Seq(Free("T"))
    <3>1. inline \in Seq(Y) /\ chunk \in Y
      BY <1>2, <1>8
    <3> HIDE DEF Y
    <3>2. inline' \in Seq(Y)
      BY <1>10, <3>1
    <3> QED BY <3>2 DEF Y
  <2>8. rest' \in Seq(Free("I"))
    BY <1>7, <1>10 DEF F
  <2> QED BY <1>1, <1>2, <1>10, <2>6, <2>7, <2>8 DEF KeptInv
<1>11. CASE /\ pass' = "tables" /\ done' = <<>> /\ rest' = <<>>
            /\ lines' = Pieces(done \o rest, "nl") /\ inline' = inline
  <2> DEFINE s == done \o rest
             p == Pieces(s, "nl")
  <2>1. s \in Seq(Token) /\ s \in Seq(Free("T"))
    <3>1. done \in Seq(Free("T")) /\ rest \in Seq(Free("T"))
      BY <1>3, <1>4
    <3> QED BY <1>3, <3>1, ConcatProperties
  <2>2. Reading' = Reading
    BY <1>9, <1>11
  <2> HIDE DEF s
  <2>3. p \in Seq(Seq(Free("T"))) /\ p \in Seq(Seq(Token)) /\ p # <<>>
    BY <2>1, PiecesTyped
  <2>4. Said(FlattenSeq(p), Reading) = Said(s, Reading)
    <3>1. Reading[T("nl")] = <<>>
      BY <1>9, Silence
    <3> QED BY <1>9, <2>1, <3>1, SaidPieces
  <2> HIDE DEF p
  <2>5. From(p, 1) = p
    <3> DEFINE Y == Seq(Token)
    <3> HIDE DEF Y
    <3>1. p \in Seq(Y)
      BY <2>3 DEF Y
    <3> QED BY <3>1, FromOne
  <2>6. <<>> \o FlattenSeq(p) = FlattenSeq(p)
    BY <2>3, FlattenTyped, ConcatEmptySeq
  <2>7. PlainFences(text) => Said(done' \o FlattenSeq(From(lines', index')), Reading') = Words(text)
    BY <1>1, <1>2, <1>11, <2>2, <2>4, <2>5, <2>6 DEF s, p
  <2>8. index' \in 1..(Len(lines') + 1)
    <3> DEFINE Y == Seq(Token)
    <3> HIDE DEF Y
    <3>1. p \in Seq(Y)
      BY <2>3 DEF Y
    <3>2. 1 \in 1..(Len(p) + 1)
      BY <3>1
    <3> QED BY <1>1, <1>2, <1>11, <3>2 DEF p, s
  <2>9. lines' \in Seq(Seq(Free("T"))) /\ inline' \in Seq(Seq(Free("T")))
    BY <1>2, <1>11, <2>3 DEF p, s
  <2> QED BY <1>1, <1>11, <2>7, <2>8, <2>9 DEF KeptInv
<1> QED BY <1>1, <1>10, <1>11

\* The lines of a table: rows, as far as the next line that is none.
LEMMA TableLines ==
  ASSUME NEW A, NEW lns \in Seq(Seq(A)), NEW i \in 1..Len(lns), IsTableStart(lns, i)
  PROVE  /\ TableEnd(lns, i) \in (i + 1)..(Len(lns) + 1)
         /\ \A j \in i..(TableEnd(lns, i) - 1) : IsRow(lns[j])
<1> DEFINE S == {j \in i..Len(lns) : ~IsRow(lns[j])} \cup {Len(lns) + 1}
           end == TableEnd(lns, i)
<1>1. S \in SUBSET Nat /\ S # {} /\ S \subseteq i..(Len(lns) + 1) /\ Len(lns) \in Nat
  OBVIOUS
<1>2. end = Min(S)
  BY DEF TableEnd
<1>3. i \notin S /\ \A j \in i..Len(lns) : j \notin S => IsRow(lns[j])
  BY DEF IsTableStart
<1> HIDE DEF S
<1>4. end \in S /\ \A j \in S : end <= j
  BY <1>1, <1>2, LeastIsMin
<1> HIDE DEF end
<1>5. end \in (i + 1)..(Len(lns) + 1)
  BY <1>1, <1>3, <1>4
<1>6. ASSUME NEW j \in i..(end - 1) PROVE IsRow(lns[j])
  <2>1. j \in i..Len(lns) /\ ~(end <= j)
    BY <1>5
  <2>2. j \notin S
    BY <1>4, <2>1
  <2> QED BY <1>3, <2>1, <2>2
<1> QED BY <1>5, <1>6 DEF end

\* A separator says nothing.
LEMMA SaidSeparator ==
  ASSUME NEW m, m \in Meanings, Quiet(m), NEW ln, ln \in Seq(Token), IsSeparator(ln)
  PROVE  Said(ln, m) = <<>>
<1> DEFINE S == {T("|"), T("-"), T("gap")}
           silent == [x \in Token |-> <<>>]
           none == [i \in DOMAIN ln |-> m[ln[i]]]
<1>1. \A i \in 1..Len(ln) : ln[i] \in S
  BY DEF IsSeparator, ToSet
<1>2. \A x \in S : m[x] = <<>>
  BY Silence
<1>3. none \in Seq(Seq({})) /\ FlattenSeq(none) \in Seq({})
  <2>1. DOMAIN ln = 1..Len(ln) /\ Len(ln) \in Nat
    OBVIOUS
  <2> DEFINE Y == Seq({})
  <2>2. <<>> \in Y
    OBVIOUS
  <2> HIDE DEF S, Y
  <2>3. none \in [DOMAIN ln -> Y]
    BY <1>1, <1>2, <2>1, <2>2
  <2> HIDE DEF none
  <2>4. none \in Seq(Y)
    BY <2>3, MapIn
  <2> QED BY <2>4, FlattenTyped DEF Y
<1>4. \A s \in Seq({}) : s = <<>>
  OBVIOUS
<1> QED BY <1>3, <1>4 DEF Said

\* Under RegularTables a table says what its lines say.
LEMMA SaidRegular ==
  ASSUME RegularTables, lines \in Seq(Seq(Free("T"))), NEW i \in 1..Len(lines), IsTableStart(lines, i),
         NEW m, m \in Meanings, Quiet(m)
  PROVE  LET lns == SubSeq(lines, i, TableEnd(lines, i) - 1)
         IN /\ lns \in Seq(Seq(Free("T"))) /\ lns \in Seq(Seq(Free("I"))) /\ TableHTML(lns) \in Seq(Token)
            /\ Said(TableHTML(lns), m) = Said(FlattenSeq(lns), m)
<1> DEFINE end == TableEnd(lines, i)
           lns == SubSeq(lines, i, end - 1)
           Y == Seq(Free("T"))
           n == Len(lines)
<1>1. end \in (i + 1)..(n + 1) /\ \A j \in i..(end - 1) : IsRow(lines[j])
  BY TableLines
<1>2. n \in Nat /\ i \in 1..n /\ \A j \in 1..n : lines[j] \in Y
  <2> HIDE DEF Y
  <2> QED BY DEF Y
<1>3. Y \subseteq Seq(Token)
  BY DEF Free
<1> HIDE DEF end
<1>4. end - 1 \in 0..n /\ i \in 1..(n + 1) /\ i <= end - 1 /\ (end - 1) - i + 1 = end - i /\ end \in Int
  BY <1>1, <1>2
<1>5. lns \in Seq(Y) /\ Len(lns) = end - i /\ \A k \in 1..(end - i) : lns[k] = lines[i + k - 1]
  <2> HIDE DEF Y, lns
  <2>1. lines \in Seq(Y)
    BY DEF Y
  <2>2. lns \in Seq(Y) /\ Len(lns) = (IF i <= end - 1 THEN (end - 1) - i + 1 ELSE 0)
        /\ \A k \in 1..((end - 1) - i + 1) : lns[k] = lines[i + k - 1]
    BY <1>4, <2>1, SubSeqIn DEF lns
  <2> QED BY <1>4, <2>2
<1> HIDE DEF lns
<1>6. ASSUME NEW k \in 1..(end - i)
      PROVE  /\ i + k - 1 \in i..(end - 1) /\ i + k - 1 \in i..n /\ lns[k] = lines[i + k - 1]
             /\ Len(Cells(lns[k])) = Len(Cells(lines[i])) /\ lns[k] \in Seq(Free("I")) /\ lns[k] \in Y
  <2> DEFINE j == i + k - 1
  <2>1. j \in i..(end - 1) /\ j \in i..n /\ j \in 1..n
    BY <1>1, <1>2
  <2>2. \A l \in i..j : l \in i..(end - 1)
    BY <1>1, <1>2, <2>1
  <2>3. \A l \in i..j : IsRow(lines[l])
    BY <1>1, <2>2
  <2>4. i \in DOMAIN lines
    BY <1>2
  <2> HIDE DEF j, Y, n
  <2>5. Len(Cells(lines[j])) = Len(Cells(lines[i])) /\ \A x \in DOMAIN lines[j] : lines[j][x][1] # "I"
    BY <2>1, <2>3, <2>4 DEF RegularTables, n
  <2>6. lines[j] \in Y
    BY <1>2, <2>1
  <2>7. lines[j] \in Seq(Free("I"))
    <3> DEFINE ln == lines[j]
    <3> HIDE DEF ln
    <3>1. ln \in Seq(Free("T")) /\ \A x \in DOMAIN ln : ln[x][1] # "I"
      BY <2>5, <2>6 DEF Y, ln
    <3>2. ln \in [1..Len(ln) -> Free("I")] /\ Len(ln) \in Nat
      BY <3>1 DEF Free
    <3>3. ln \in Seq(Free("I"))
      BY <3>2, SeqDef
    <3> QED BY <3>3 DEF ln
  <2> QED BY <1>5, <2>1, <2>5, <2>6, <2>7 DEF j, n
<1>7. lns \in Seq(Seq(Free("I")))
  <2> DEFINE Z == Seq(Free("I"))
  <2>1. \A k \in 1..(end - i) : lns[k] \in Z
    BY <1>6
  <2> HIDE DEF Z, Y
  <2>2. Len(lns) \in Nat /\ lns \in [1..Len(lns) -> Z]
    BY <1>5, <2>1
  <2> QED BY <2>2, SeqDef DEF Z
<1>8. 1 \in 1..(end - i) /\ end - i \in Nat
  BY <1>1, <1>2
<1>9. \A k \in 1..Len(lns) : Len(Cells(lns[k])) = Len(Cells(lns[1]))
  BY <1>5, <1>6, <1>8
<1>10. lns \in Seq(Seq(Token)) \ {<<>>}
  <2> DEFINE X == Seq(Token)
  <2> HIDE DEF X, Y
  <2>1. lns \in Seq(X)
    BY <1>3, <1>5 DEF X
  <2>2. lns # <<>>
    BY <1>5, <1>8
  <2> QED BY <2>1, <2>2 DEF X
<1>11. Len(lns) >= 2 => Said(lns[2], m) = <<>>
  <2> SUFFICES ASSUME Len(lns) >= 2 PROVE Said(lns[2], m) = <<>>
    OBVIOUS
  <2>1. 2 \in 1..(end - i) /\ i + 2 - 1 = i + 1
    BY <1>2, <1>5, <1>8
  <2>2. lns[2] = lines[i + 1] /\ lns[2] \in Seq(Token)
    BY <1>3, <1>6, <2>1
  <2>3. IsSeparator(lns[2])
    BY <2>2 DEF IsTableStart
  <2> QED BY <2>2, <2>3, SaidSeparator
<1>12. TableHTML(lns) \in Seq(Token) /\ Said(TableHTML(lns), m) = Said(FlattenSeq(lns), m)
  BY <1>9, <1>10, <1>11, SaidTableHTML
<1> QED BY <1>5, <1>7, <1>12 DEF lns, end, Y

\* What is left to read from line i: lines i to j - 1, and the others.
LEMMA SaidOn ==
  ASSUME NEW A, NEW lns \in Seq(Seq(A)), NEW i \in 1..(Len(lns) + 1), NEW j \in i..(Len(lns) + 1)
  PROVE  LET u == FlattenSeq(SubSeq(lns, i, j - 1))
             v == FlattenSeq(From(lns, j))
         IN u \in Seq(A) /\ v \in Seq(A) /\ FlattenSeq(From(lns, i)) = u \o v
<1> DEFINE Y == Seq(A)
           a == SubSeq(lns, i, j - 1)
           b == From(lns, j)
<1>1. a \in Seq(Y) /\ b \in Seq(Y) /\ From(lns, i) = a \o b
  <2> HIDE DEF Y
  <2>1. lns \in Seq(Y)
    BY DEF Y
  <2> QED BY <2>1, FromSplit
<1> HIDE DEF a, b
<1>2. a \in Seq(Seq(A)) /\ b \in Seq(Seq(A))
  BY <1>1
<1> HIDE DEF Y
<1>3. FlattenSeq(a \o b) = FlattenSeq(a) \o FlattenSeq(b) /\ FlattenSeq(a) \in Seq(A) /\ FlattenSeq(b) \in Seq(A)
  BY <1>2, FlattenConcat, FlattenTyped
<1> QED BY <1>1, <1>3 DEF a, b

\* A line break changes nothing.
LEMMA SaidWritten ==
  ASSUME NEW m, m \in Meanings, Quiet(m), done \in Seq(Token), NEW s, s \in Seq(Token), NEW v, v \in Seq(Token), NEW end
  PROVE  Said(Written(s, end) \o v, m) = Said(done, m) \o (Said(s, m) \o Said(v, m))
<1> DEFINE nl == IF end > Len(lines) THEN <<>> ELSE <<T("nl")>>
           ds == done \o s
           w == Written(s, end)
           sv == s \o v
<1>1. T("nl") \in Token /\ m[T("nl")] = <<>>
  BY Tokens, Silence
<1>2. ds \in Seq(Token) /\ sv \in Seq(Token)
  BY ConcatProperties
<1>3. w = ds \o nl
  BY DEF Written
<1> HIDE DEF w
<1>4. w \in Seq(Token) /\ Said(w, m) = Said(ds, m)
  <2> HIDE DEF ds, Token
  <2>1. CASE end > Len(lines)
    <3>1. ds \o <<>> = ds
      BY <1>2, ConcatEmptySeq
    <3> QED BY <1>2, <1>3, <2>1, <3>1
  <2>2. CASE ~(end > Len(lines))
    <3>1. w = ds \o <<T("nl")>>
      BY <1>3, <2>2
    <3>2. <<T("nl")>> \in Seq(Token)
      BY <1>1
    <3> QED BY <1>1, <1>2, <3>1, <3>2, SaidMute, ConcatProperties
  <2> QED BY <2>1, <2>2
<1>5. SaysBoth(w, v, m) /\ SaysBoth(done, s, m)
  BY <1>4, SaidBoth, Zenon
<1> DEFINE d == Said(done, m)
           a == Said(s, m)
           b == Said(v, m)
<1>6. d \in Seq(Token) /\ a \in Seq(Token) /\ b \in Seq(Token)
  BY SaidTyped
<1> HIDE DEF d, a, b
<1>7. Assoc(d, a, b)
  BY <1>6, Associative, Zenon
<1> QED BY <1>4, <1>5, <1>7 DEF SaysBoth, Assoc, w, d, a, b, ds

\* so are the rows of a table, if it is regular,
LEMMA TakeTableTells ==
  ASSUME FormatInv, KeptInv, TakeTable
  PROVE  KeptInv'
<1> DEFINE end == TableEnd(lines, index)
           lns == SubSeq(lines, index, end - 1)
           table == TableHTML(lns)
           mark == <<"T", Len(tables) + 1>>
           Mt == Standing("T", tables, Mute)
           F == Free("T")
           n == Len(lines)
           toRead == FlattenSeq(From(lines, index))
<1>1. /\ pass = "tables" /\ UNCHANGED <<text, lines, fenced, inline>>
      /\ \/ /\ index <= n /\ IsTableStart(lines, index) /\ tables' = Append(tables, table)
            /\ done' = Written(<<mark>>, end) /\ index' = end /\ pass' = pass /\ rest' = rest
         \/ /\ index <= n /\ done' = Written(lines[index], index + 1)
            /\ index' = index + 1 /\ pass' = pass /\ rest' = rest /\ tables' = tables
         \/ /\ index > n /\ pass' = "bold" /\ done' = <<>> /\ rest' = Escape(done) /\ index' = index /\ tables' = tables
  BY DEF TakeTable
<1>2. /\ lines \in Seq(Seq(F)) /\ inline \in Seq(Seq(F)) /\ index \in 1..(n + 1)
      /\ PlainFences(text) /\ RegularTables => Said(done \o toRead, Reading) = Words(text)
  BY <1>1 DEF KeptInv
<1>3. done \in Seq(Alphabet) /\ done \in Seq(Token) /\ Alphabet \subseteq Token /\ lines \in Seq(Seq(Alphabet))
      /\ tables \in Seq(Seq(Token)) /\ lines \in Seq(Seq(Token)) /\ inline \in Seq(Seq(Token))
  BY <1>1, TokensOnly DEF FormatInv
<1>a. done \in Seq(Alphabet) /\ Alphabet \subseteq Token
  BY <1>3
<1>4. mark \notin Alphabet /\ mark \in Token
  BY NoSuchMark
<1>5. Mute \in Meanings /\ Quiet(Mute) /\ Mt \in Meanings /\ Quiet(Mt) /\ Reading \in Meanings /\ Quiet(Reading)
  BY ReadingIs
<1>6. Mute' = Mute /\ Reading = Standing("I", inline, Mt) /\ Reading' = Standing("I", inline, Standing("T", tables', Mute))
  BY <1>1 DEF Mute, Reading
<1>7. n \in Nat /\ RegularTables' = RegularTables
  <2>1. RegularTables' = RegularTables
    BY <1>1 DEF RegularTables
  <2>2. n \in Nat
    BY <1>3
  <2> QED BY <2>1, <2>2
<1>8. F \subseteq Token
  BY DEF Free
<1> HIDE DEF F, end, lns, table, n, Mt
<1>9. CASE /\ index <= n /\ IsTableStart(lines, index) /\ tables' = Append(tables, table)
           /\ done' = Written(<<mark>>, end) /\ index' = end /\ pass' = pass /\ rest' = rest
  <2>1. index \in 1..n /\ index \in Nat
    BY <1>2, <1>7, <1>9
  <2>2. end \in (index + 1)..(n + 1)
    BY <1>3, <1>9, <2>1, TableLines DEF end, n
  <2>3. end \in index..(n + 1) /\ end \in 1..(n + 1)
    BY <1>7, <2>1, <2>2
  <2> DEFINE here == FlattenSeq(SubSeq(lines, index, end - 1))
             later == FlattenSeq(From(lines, end))
  <2>4. here \in Seq(Alphabet) /\ later \in Seq(Alphabet) /\ here \in Seq(Token) /\ later \in Seq(Token) /\ toRead = here \o later
    <3>1. here \in Seq(Alphabet) /\ later \in Seq(Alphabet) /\ toRead = here \o later
      BY <1>2, <1>3, <2>3, SaidOn DEF n
    <3> QED BY <1>3, <3>1
  <2> HIDE DEF here, later, toRead
  <2>5. ASSUME RegularTables
        PROVE  here \in Seq(F) /\ here \in Seq(Free("I")) /\ table \in Seq(Token) /\ Said(table, Mute) = Said(here, Mute)
    <3>1. /\ lns \in Seq(Seq(Free("T"))) /\ lns \in Seq(Seq(Free("I"))) /\ TableHTML(lns) \in Seq(Token)
          /\ Said(TableHTML(lns), Mute) = Said(FlattenSeq(lns), Mute)
      BY <1>2, <1>5, <1>9, <2>1, <2>5, SaidRegular DEF lns, end, n, F
    <3>2. FlattenSeq(lns) \in Seq(Free("T")) /\ FlattenSeq(lns) \in Seq(Free("I"))
      BY <3>1, FlattenTyped
    <3> QED BY <3>1, <3>2 DEF table, here, lns, F
  <2>6. ASSUME RegularTables
        PROVE  /\ Reading'[mark] = Said(here, Reading)
               /\ \A y \in Token : y # mark => Reading'[y] = Reading[y]
    <3> DEFINE Y == Seq(Token)
               k == Standing("T", tables', Mute)
    <3>1. tables \in Seq(Y) /\ table \in Y
      BY <1>3, <2>5, <2>6
    <3> HIDE DEF Y
    <3>2. k[mark] = Said(table, Mute) /\ \A y \in Token : y # mark => k[y] = Mt[y]
      BY <1>4, <1>9, <3>1, StandingMore DEF Mt
    <3>3. \A s \in Seq(F) : Said(s, k) = Said(s, Mt) /\ Said(s, Mt) = Said(s, Mute)
      BY StandingSkips DEF F, Mt
    <3>4. \A i \in DOMAIN inline : inline[i] \in Seq(F)
      <4> DEFINE Z == Seq(F)
      <4>1. inline \in Seq(Z)
        BY <1>2
      <4> HIDE DEF Z
      <4> QED BY <4>1 DEF Z
    <3>5. Said(here, Reading) = Said(here, Mute)
      <4>1. Said(here, Standing("I", inline, Mt)) = Said(here, Mt)
        BY <2>5, <2>6, StandingSkips
      <4> QED BY <1>6, <2>5, <2>6, <3>3, <4>1
    <3>6. Reading' = Standing("I", inline, k)
      BY <1>6
    <3> HIDE DEF k, Token
    <3>7. Standing("I", inline, k)[mark] = k[mark]
      BY <1>4 DEF Standing
    <3>8. \A y \in Token : y # mark => Standing("I", inline, k)[y] = Standing("I", inline, Mt)[y]
      <4> HIDE DEF mark
      <4>1. ASSUME NEW y \in Token, y # mark PROVE Standing("I", inline, k)[y] = Standing("I", inline, Mt)[y]
        <5>1. Standing("I", inline, k)[y] = IF y[1] = "I" /\ y[2] \in DOMAIN inline THEN Said(inline[y[2]], k) ELSE k[y]
          BY DEF Standing
        <5>2. Standing("I", inline, Mt)[y] = IF y[1] = "I" /\ y[2] \in DOMAIN inline THEN Said(inline[y[2]], Mt) ELSE Mt[y]
          BY DEF Standing
        <5> QED BY <3>2, <3>3, <3>4, <4>1, <5>1, <5>2
      <4> QED BY <4>1
    <3> QED BY <1>6, <2>5, <2>6, <3>2, <3>5, <3>6, <3>7, <3>8
  <2>7. ASSUME PlainFences(text), RegularTables
        PROVE  Said(done' \o later, Reading') = Words(text)
    <3> DEFINE k == Reading'
    <3>1. Reading' \in Meanings /\ Quiet(Reading')
      <4> DEFINE Y == Seq(Token)
      <4>1. tables \in Seq(Y) /\ table \in Y
        BY <1>3, <2>5, <2>7
      <4> HIDE DEF Y
      <4>2. tables' \in Seq(Y)
        BY <1>9, <4>1
      <4> DEFINE u == Standing("T", tables', Mute)
      <4>3. u \in Meanings /\ Quiet(u)
        BY <1>5, <4>2, StandingIs DEF Y
      <4> HIDE DEF u
      <4>4. Standing("I", inline, u) \in Meanings /\ Quiet(Standing("I", inline, u))
        BY <1>3, <4>3, StandingIs
      <4> QED BY <1>6, <4>4 DEF u
    <3>2. \A x \in Alphabet : Reading[x] = Reading'[x]
      BY <1>3, <1>4, <2>6, <2>7
    <3> HIDE DEF mark, k
    <3>3. Said(done, k) = Said(done, Reading) /\ Said(later, k) = Said(later, Reading)
      <4>1. Said(done, Reading) = Said(done, Reading')
        BY <1>a, <3>2, SaidSame
      <4>2. Said(later, Reading) = Said(later, Reading')
        BY <1>a, <2>4, <3>2, SaidSame
      <4> QED BY <4>1, <4>2 DEF k
    <3>4. <<mark>> \in Seq(Token) /\ Said(<<mark>>, k) = Said(here, Reading)
      <4>1. Said(<<mark>>, k) = k[mark]
        BY <1>4, <3>1, SaidOne DEF k
      <4>2. <<mark>> \in Seq(Token)
        BY <1>4
      <4> QED BY <2>6, <2>7, <4>1, <4>2 DEF k
    <3>5. Said(done' \o later, k) = Said(done, k) \o (Said(<<mark>>, k) \o Said(later, k))
      BY <1>3, <1>9, <2>4, <3>1, <3>4, SaidWritten DEF k
    <3>6. SaysBoth(here, later, Reading)
      BY <1>5, <2>4, SaidBoth, Zenon
    <3>7. toRead \in Seq(Token)
      BY <2>4, ConcatProperties
    <3>8. SaysBoth(done, toRead, Reading)
      BY <1>3, <1>5, <3>7, SaidBoth, Zenon
    <3>9. Said(done \o toRead, Reading) = Words(text)
      BY <1>2, <2>7 DEF toRead
    <3> QED BY <2>4, <3>3, <3>4, <3>5, <3>6, <3>8, <3>9 DEF SaysBoth, k
  <2> QED BY <1>1, <1>2, <1>7, <1>9, <2>3, <2>7 DEF KeptInv, later, n, F
<1>10. CASE /\ index <= n /\ done' = Written(lines[index], index + 1)
            /\ index' = index + 1 /\ pass' = pass /\ rest' = rest /\ tables' = tables
  <2> DEFINE j == index + 1
             ln == lines[index]
             later == FlattenSeq(From(lines, j))
  <2>1. index \in 1..n /\ j \in index..(n + 1) /\ j \in 1..(n + 1) /\ j - 1 = index
    BY <1>2, <1>7, <1>10
  <2>2. ln \in Seq(Token) /\ later \in Seq(Token) /\ toRead = ln \o later
    <3> DEFINE Y == Seq(Token)
    <3>1. FlattenSeq(SubSeq(lines, index, j - 1)) \in Seq(Token) /\ later \in Seq(Token)
          /\ toRead = FlattenSeq(SubSeq(lines, index, j - 1)) \o later
      <4> HIDE DEF j, ln
      <4>1. lines \in Seq(Seq(Token)) /\ index \in 1..(Len(lines) + 1) /\ j \in index..(Len(lines) + 1)
        BY <1>2, <1>3, <2>1 DEF n
      <4> HIDE DEF Token
      <4> QED BY <4>1, SaidOn
    <3> HIDE DEF j, later, toRead
    <3>2. lines \in Seq(Y) /\ index \in 1..Len(lines)
      BY <1>3, <2>1 DEF n
    <3> HIDE DEF Y
    <3>3. SubSeq(lines, index, index) = <<ln>> /\ ln \in Y
      BY <3>2, SubSeqOne
    <3> HIDE DEF ln
    <3>4. FlattenSeq(<<ln>>) = ln
      BY <3>3, FlattenOne DEF Y
    <3> QED BY <2>1, <3>1, <3>3, <3>4 DEF Y
  <2>3. Reading' = Reading
    BY <1>6, <1>10 DEF Mt
  <2> HIDE DEF ln, later, toRead
  <2>4. Said(done' \o later, Reading) = Said(done, Reading) \o (Said(ln, Reading) \o Said(later, Reading))
    BY <1>3, <1>5, <1>10, <2>2, SaidWritten DEF ln
  <2>5. SaysBoth(ln, later, Reading)
    BY <1>5, <2>2, SaidBoth, Zenon
  <2>6. toRead \in Seq(Token)
    BY <2>2, ConcatProperties
  <2>7. SaysBoth(done, toRead, Reading)
    BY <1>3, <1>5, <2>6, SaidBoth, Zenon
  <2>8. PlainFences(text) /\ RegularTables => Said(done' \o later, Reading') = Words(text)
    BY <1>2, <2>2, <2>3, <2>4, <2>5, <2>7 DEF SaysBoth, toRead
  <2> QED BY <1>1, <1>2, <1>7, <1>10, <2>1, <2>8 DEF KeptInv, later, n, F
<1>11. CASE /\ index > n /\ pass' = "bold" /\ done' = <<>> /\ rest' = Escape(done) /\ index' = index /\ tables' = tables
  <2>1. index = n + 1
    BY <1>2, <1>7, <1>11
  <2>2. toRead = <<>>
    <3> DEFINE Y == Seq(Token)
    <3> HIDE DEF Y
    <3>1. lines \in Seq(Y)
      BY <1>3 DEF Y
    <3>2. From(lines, Len(lines) + 1) = <<>>
      BY <3>1, FromOne
    <3> QED BY <2>1, <3>2 DEF n, FlattenSeq
  <2> HIDE DEF toRead
  <2>3. done \o toRead = done
    BY <1>3, <2>2
  <2>4. Escape(done) \in Seq(Token) /\ Said(Escape(done), Reading) = Said(done, Reading)
    BY <1>3, <1>5, SaidEscape
  <2>5. Reading' = Reading
    BY <1>6, <1>11 DEF Mt
  <2>6. <<>> \o Escape(done) = Escape(done)
    BY <2>4, ConcatEmptySeq
  <2>7. PlainFences(text) /\ RegularTables => Said(done' \o rest', Reading') = Words(text)
    BY <1>2, <1>11, <2>3, <2>4, <2>5, <2>6 DEF toRead
  <2> QED BY <1>1, <1>2, <1>7, <1>11, <2>7 DEF KeptInv, F
<1> QED BY <1>1, <1>9, <1>10, <1>11

\* the asterisks that become a tag said nothing,
LEMMA TakeBoldTells ==
  ASSUME FormatInv, KeptInv, TakeBold
  PROVE  KeptInv'
<1> DEFINE open == Find(rest, "**")
           after == From(rest, open + 1)
           close == Find(after, "**")
           upTo == Until(rest, open)
           bold == Until(after, close)
           later == From(after, close + 1)
           mark == T("**")
<1>1. /\ pass = "bold" /\ UNCHANGED <<text, lines, index, fenced, inline, tables>>
      /\ \/ /\ open # 0 /\ close > 1 /\ done' = done \o upTo \o Within("b", bold) /\ rest' = later /\ pass' = pass
         \/ open # 0 /\ done' = done \o upTo \o <<mark>> /\ rest' = after /\ pass' = pass
         \/ pass' = "restore" /\ done' = done \o rest /\ rest' = <<>>
  BY DEF TakeBold
<1>2. /\ lines \in Seq(Seq(Free("T"))) /\ inline \in Seq(Seq(Free("T")))
      /\ PlainFences(text) /\ RegularTables => Said(done \o rest, Reading) = Words(text)
  BY <1>1 DEF KeptInv
<1>3. done \in Seq(Token) /\ rest \in Seq(Token)
  BY <1>1, TokensOnly
<1>4. Reading \in Meanings /\ Quiet(Reading) /\ Reading' = Reading /\ RegularTables' = RegularTables
  <2>1. Reading' = Reading
    BY <1>1 DEF Reading, Mute
  <2>2. RegularTables' = RegularTables
    BY <1>1 DEF RegularTables
  <2> QED BY <2>1, <2>2, ReadingIs
<1>5. mark \in Token /\ Reading[mark] = <<>>
  BY <1>4, Tokens, Silence
<1>6. SaysBoth(done, rest, Reading)
  BY <1>3, <1>4, SaidBoth, Zenon
<1>7. ASSUME open # 0
      PROVE  /\ upTo \in Seq(Token) /\ after \in Seq(Token)
             /\ Said(rest, Reading) = Said(upTo, Reading) \o Said(after, Reading)
  <2>1. open \in 1..Len(rest) /\ rest[open] = mark
    BY <1>3, <1>7, FoundAt
  <2> HIDE DEF open
  <2> QED BY <1>3, <1>4, <1>5, <2>1, SaidCut
<1>8. CASE open # 0 /\ close > 1 /\ done' = done \o upTo \o Within("b", bold) /\ rest' = later /\ pass' = pass
  <2>1. upTo \in Seq(Token) /\ after \in Seq(Token)
        /\ Said(rest, Reading) = Said(upTo, Reading) \o Said(after, Reading)
    BY <1>7, <1>8
  <2> HIDE DEF upTo, after
  <2>2. close \in 1..Len(after) /\ after[close] = mark
    BY <1>8, <2>1, FoundAt
  <2> HIDE DEF close
  <2>3. /\ bold \in Seq(Token) /\ later \in Seq(Token)
        /\ Said(after, Reading) = Said(bold, Reading) \o Said(later, Reading)
    <3>1. Reading[after[close]] = <<>>
      BY <1>5, <2>2
    <3> HIDE DEF mark, Token
    <3> QED BY <1>4, <2>1, <2>2, <3>1, SaidCut
  <2> HIDE DEF bold, later
  <2> DEFINE w == Within("b", bold)
             du == done \o upTo
             duw == du \o w
  <2>4. w \in Seq(Token) /\ Said(w, Reading) = Said(bold, Reading)
    BY <1>4, <2>3, SaidWithin
  <2> HIDE DEF w
  <2>5. du \in Seq(Token)
    BY <1>3, <2>1, ConcatProperties
  <2>6. duw \in Seq(Token)
    <3> HIDE DEF du
    <3> QED BY <2>4, <2>5, ConcatProperties
  <2>7. SaysBoth(du, w, Reading) /\ SaysBoth(done, upTo, Reading) /\ SaysBoth(duw, later, Reading)
    <3> HIDE DEF du, duw
    <3> QED BY <1>3, <1>4, <2>1, <2>3, <2>4, <2>5, <2>6, SaidBoth, Zenon
  <2> DEFINE d == Said(done, Reading)
             a == Said(upTo, Reading)
             b == Said(bold, Reading)
             c == Said(later, Reading)
  <2>8. d \in Seq(Token) /\ a \in Seq(Token) /\ b \in Seq(Token) /\ c \in Seq(Token)
    BY <1>3, <1>4, <2>1, <2>3, SaidTyped
  <2>9. ((d \o a) \o b) \o c = d \o (a \o (b \o c))
    <3> HIDE DEF a, b, c, d
    <3>1. b \o c \in Seq(Token) /\ d \o a \in Seq(Token)
      BY <2>8, ConcatProperties
    <3>2. Assoc(d \o a, b, c) /\ Assoc(d, a, b \o c)
      BY <2>8, <3>1, Associative, Zenon
    <3> QED BY <3>2 DEF Assoc
  <2>10. Said(duw \o later, Reading) = ((d \o a) \o b) \o c
    BY <2>4, <2>7 DEF SaysBoth
  <2>11. Said(done \o rest, Reading) = d \o (a \o (b \o c))
    BY <1>6, <2>1, <2>3 DEF SaysBoth
  <2>12. done' \o rest' = duw \o later
    BY <1>8 DEF w
  <2>13. Said(done' \o rest', Reading') = Said(done \o rest, Reading)
    BY <1>4, <2>9, <2>10, <2>11, <2>12
  <2> QED BY <1>1, <1>2, <1>4, <1>8, <2>13 DEF KeptInv
<1>9. CASE open # 0 /\ done' = done \o upTo \o <<mark>> /\ rest' = after /\ pass' = pass
  <2>1. upTo \in Seq(Token) /\ after \in Seq(Token)
        /\ Said(rest, Reading) = Said(upTo, Reading) \o Said(after, Reading)
    BY <1>7, <1>9
  <2> HIDE DEF upTo, after, mark
  <2>2. SaysMarked(done, upTo, mark, after, Reading)
    BY <1>3, <1>4, <1>5, <2>1, SaidMarked, Zenon
  <2>3. <<>> \o Said(after, Reading) = Said(after, Reading)
    <3>1. Said(after, Reading) \in Seq(Token)
      BY <1>4, <2>1, SaidTyped
    <3> DEFINE c == Said(after, Reading)
    <3> HIDE DEF c
    <3>2. <<>> \o c = c
      BY <3>1, ConcatEmptySeq DEF c
    <3> QED BY <3>2 DEF c
  <2>4. Said(done' \o rest', Reading') = Said(done \o rest, Reading)
    BY <1>4, <1>5, <1>6, <1>9, <2>1, <2>2, <2>3 DEF SaysMarked, SaysBoth
  <2> QED BY <1>1, <1>2, <1>4, <1>9, <2>4 DEF KeptInv
<1>10. CASE pass' = "restore" /\ done' = done \o rest /\ rest' = <<>>
  BY <1>1, <1>2, <1>4, <1>10 DEF KeptInv
<1> QED BY <1>1, <1>8, <1>9, <1>10

\* and the blocks say what their placeholders said.
LEMMA PutBackTells ==
  ASSUME FormatInv, KeptInv, PutBack
  PROVE  KeptInv'
<1> DEFINE codes == [i \in DOMAIN inline |-> Code(inline[i])]
           pres == [i \in DOMAIN fenced |-> FencedHTML(fenced[i])]
           A == Alphabet
           H == Html(Safe(A))
           withCode == Restore(done, "I", codes)
           withTables == Restore(withCode, "T", tables)
           Mt == Standing("T", tables, Mute)
<1>1. /\ pass = "restore" /\ pass' = "over" /\ UNCHANGED <<text, rest, lines, index, fenced, inline, tables>>
      /\ done' = Restore(withTables, "C", pres)
  BY DEF PutBack
<1>2. /\ codes \in Seq(H) /\ Len(codes) = Len(inline) /\ pres \in Seq(H) /\ Len(pres) = Len(fenced)
      /\ done \in H /\ withCode \in H /\ withTables \in H
  BY <1>1, BlocksBack
<1>3. /\ \A x \in A : /\ x[1] = "C" => x[2] \in 1..Len(fenced)
                      /\ x[1] = "I" => x[2] \in 1..Len(inline)
                      /\ x[1] = "T" => x[2] \in 1..Len(tables)
  BY AlphabetHas DEF FormatInv
<1>4. /\ lines \in Seq(Seq(Free("T"))) /\ inline \in Seq(Seq(Free("T")))
      /\ PlainFences(text) /\ RegularTables => Said(done, Reading) = Words(text)
  BY <1>1 DEF KeptInv
<1>5. /\ fenced \in Seq(Seq(Token)) /\ inline \in Seq(Seq(Token)) /\ tables \in Seq(Seq(Token)) /\ A \subseteq Token
  BY TokensOnly
<1>6. /\ Word \in Meanings /\ Quiet(Word) /\ Mute \in Meanings /\ Quiet(Mute) /\ Mt \in Meanings /\ Quiet(Mt)
      /\ Mute = Standing("C", fenced, Word) /\ Reading = Standing("I", inline, Mt)
  BY ReadingIs, WordsAreSaid DEF Mute, Reading
<1> HIDE DEF A, Mt
<1>7. H \subseteq Seq(Token) /\ \A s \in H : \A i \in 1..Len(s) : s[i] \in A \/ s[i] \in Tags
  <2>1. Safe(A) \cup Tags \subseteq Token /\ Safe(A) \subseteq A
    BY <1>5, Tokens DEF Safe
  <2>2. \A s \in H : s \in Seq(Safe(A) \cup Tags)
    BY DEF Html
  <2> HIDE DEF H, Token
  <2>3. \A s \in H : s \in Seq(Token) /\ \A i \in 1..Len(s) : s[i] \in Safe(A) \cup Tags
    BY <2>1, <2>2
  <2> QED BY <2>1, <2>3
<1> HIDE DEF H
<1>8. \A s \in H : \A i \in 1..Len(s) :
          /\ s[i][1] = "C" => s[i][2] \in 1..Len(fenced)
          /\ s[i][1] = "I" => s[i][2] \in 1..Len(inline)
          /\ s[i][1] = "T" => s[i][2] \in 1..Len(tables)
  <2>1. \A x \in Tags : x[1] # "C" /\ x[1] # "I" /\ x[1] # "T"
    BY DEF Tags
  <2> QED BY <1>3, <1>7, <2>1
<1>9. /\ codes \in Seq(Seq(Token)) /\ DOMAIN codes = 1..Len(inline) /\ DOMAIN inline = 1..Len(inline)
      /\ pres \in Seq(Seq(Token)) /\ DOMAIN pres = 1..Len(fenced) /\ DOMAIN fenced = 1..Len(fenced)
      /\ DOMAIN tables = 1..Len(tables)
  <2> DEFINE Y == Seq(Token)
  <2>1. codes \in Seq(H) /\ pres \in Seq(H) /\ inline \in Seq(Y) /\ fenced \in Seq(Y) /\ tables \in Seq(Y) /\ H \subseteq Y
    BY <1>2, <1>5, <1>7
  <2> HIDE DEF Y, codes, pres
  <2>2. codes \in Seq(Y) /\ pres \in Seq(Y) /\ DOMAIN codes = 1..Len(codes) /\ DOMAIN pres = 1..Len(pres)
        /\ DOMAIN inline = 1..Len(inline) /\ DOMAIN fenced = 1..Len(fenced) /\ DOMAIN tables = 1..Len(tables)
    BY <2>1
  <2> QED BY <1>2, <2>2 DEF Y
<1>10. Reading = Standing("I", codes, Mt)
  <2>1. \A i \in 1..Len(inline) : inline[i] \in Seq(Token)
    <3> DEFINE Y == Seq(Token)
    <3>1. inline \in Seq(Y)
      BY <1>5
    <3> HIDE DEF Y
    <3> QED BY <3>1 DEF Y
  <2>2. \A i \in 1..Len(inline) : codes[i] = Code(inline[i])
    BY <1>9
  <2>3. \A i \in DOMAIN inline : Said(inline[i], Mt) = Said(codes[i], Mt)
    BY <1>6, <1>9, <2>1, <2>2, SaidCode
  <2> HIDE DEF codes
  <2> QED BY <1>6, <1>9, <2>3, StandingLike
<1>11. Mute = Standing("C", pres, Word)
  <2>1. \A i \in 1..Len(fenced) : fenced[i] \in Seq(Token)
    <3> DEFINE Y == Seq(Token)
    <3>1. fenced \in Seq(Y)
      BY <1>5
    <3> HIDE DEF Y
    <3> QED BY <3>1 DEF Y
  <2>2. \A i \in 1..Len(fenced) : pres[i] = FencedHTML(fenced[i])
    BY <1>9
  <2>3. \A i \in DOMAIN fenced : Said(fenced[i], Word) = Said(pres[i], Word)
    BY <1>6, <1>9, <2>1, <2>2, SaidFencedHTML
  <2> HIDE DEF pres
  <2> QED BY <1>6, <1>9, <2>3, StandingLike
<1> HIDE DEF codes, pres
<1>12. Said(withCode, Mt) = Said(done, Reading)
  <2>1. \A i \in 1..Len(done) : done[i][1] = "I" => done[i][2] \in DOMAIN codes
    BY <1>2, <1>8, <1>9
  <2>2. done \in Seq(Token)
    BY <1>2, <1>7
  <2> QED BY <1>6, <1>9, <1>10, <2>1, <2>2, SaidRestore
<1>13. Said(withTables, Mute) = Said(withCode, Mt)
  <2> HIDE DEF withCode
  <2>1. \A i \in 1..Len(withCode) : withCode[i][1] = "T" => withCode[i][2] \in DOMAIN tables
    BY <1>2, <1>8, <1>9
  <2>2. withCode \in Seq(Token)
    BY <1>2, <1>7
  <2> QED BY <1>5, <1>6, <2>1, <2>2, SaidRestore DEF Mt
<1>14. done' \in Seq(Token) /\ Said(done', Word) = Said(withTables, Mute)
  <2> HIDE DEF withTables
  <2>1. \A i \in 1..Len(withTables) : withTables[i][1] = "C" => withTables[i][2] \in DOMAIN pres
    BY <1>2, <1>8, <1>9
  <2>2. withTables \in Seq(Token)
    BY <1>2, <1>7
  <2> QED BY <1>1, <1>6, <1>9, <1>11, <2>1, <2>2, SaidRestore
<1>15. PlainFences(text) /\ RegularTables => Words(done') = Words(text)
  BY <1>4, <1>12, <1>13, <1>14, WordsAreSaid
<1>16. RegularTables' = RegularTables
  BY <1>1 DEF RegularTables
<1> QED BY <1>1, <1>4, <1>15, <1>16 DEF KeptInv

\* Every step keeps what the reply says.
LEMMA KeptStep == FormatInv /\ KeptInv /\ [FormatNext]_formatVars => KeptInv'
<1> SUFFICES ASSUME FormatInv, KeptInv, [FormatNext]_formatVars PROVE KeptInv'
  OBVIOUS
<1>1. CASE UNCHANGED formatVars
  <2>1. Reading' = Reading /\ RegularTables' = RegularTables
    BY <1>1 DEF formatVars, Reading, Mute, RegularTables
  <2> QED BY <1>1, <2>1 DEF KeptInv, formatVars
<1>2. CASE FormatNext
  BY <1>2, TakeFenceTells, TakeInlineTells, TakeTableTells, TakeBoldTells, PutBackTells DEF FormatNext
<1> QED BY <1>1, <1>2

\* Every word of a reply reaches the user, in the order of the reply, whatever code and
\* tables FormatForTelegramReply takes out of it and puts back; but for the rows and the
\* code spans of a table that is not regular, and for what follows a fence on its line.
THEOREM EveryWordIsKept == FormatSpec => []TextKept
<1>1. FormatInv /\ KeptInv => TextKept
  BY DEF KeptInv, TextKept
<1>2. FormatInit => FormatInv /\ KeptInv
  BY FormatStarts, KeptStarts
<1>3. FormatInv /\ KeptInv /\ [FormatNext]_formatVars => FormatInv' /\ KeptInv'
  BY FormatStep, KeptStep
<1> QED BY <1>1, <1>2, <1>3, PTL DEF FormatSpec
=============================================================================
