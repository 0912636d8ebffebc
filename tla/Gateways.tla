------------------------------ MODULE Gateways ------------------------------
(***************************************************************************)
(* gateway/*.go and the end of main.go: how messages come from the         *)
(* platforms into the session queue and how their replies go back.         *)
(*                                                                         *)
(* Telegram and Signal are polled; the poll loop itself calls the handler, *)
(* so that a gateway has one turn at a time whoever its users are.         *)
(* Discord and HTTP call the handler in a goroutine per message.           *)
(* The queue is what SessionQueue is shown to implement: SessionServer.    *)
(***************************************************************************)
EXTENDS Naturals, Sequences

CONSTANTS
  Messages,     \* numbers; a platform's messages were sent in their order
  PlatformOf,   \* message -> "telegram", "signal", "discord", "http"
  Keys,         \* sessions
  KeyOf,        \* message -> its session
  Skipped,      \* messages without a text, a sender or user data
  Terminating,  \* sessions whose turns are assumed to end (liveness only)
  Reachable,    \* sessions to which sending is assumed to end, or fail (liveness only)
  MaxCrashes    \* bound on crashes

ASSUME GatewaysAssumption ==
  /\ Messages \subseteq Nat /\ Skipped \subseteq Messages
  /\ PlatformOf \in [Messages -> {"telegram", "signal", "discord", "http"}]
  /\ KeyOf \in [Messages -> Keys] /\ Terminating \subseteq Keys /\ Reachable \subseteq Keys
  /\ \A m, n \in Messages : KeyOf[m] = KeyOf[n] => PlatformOf[m] = PlatformOf[n]
  /\ MaxCrashes \in Nat

VARIABLES
  line, phase,  \* the queue (see SessionServer)
  at,           \* message -> "remote", "fetched", "handler", "reply", "over", "lost"
  acked,        \* Telegram's messages below the offset of the last getUpdates
  turns,        \* message -> how many turns were run for it
  crashes

queue == <<line, phase>>
vars == <<line, phase, at, acked, turns, crashes>>

\* Gateways never call the handler without a platform, so no call bypasses the queue.
Queue == INSTANCE SessionServer WITH Calls <- Messages, NoKey <- ""

Init ==
  /\ Queue!Init
  /\ at = [m \in Messages |-> "remote"]
  /\ acked = {} /\ turns = [m \in Messages |-> 0] /\ crashes = 0

On(p, stage) == {m \in Messages : PlatformOf[m] = p /\ at[m] = stage}

SequentialAll == {"telegram", "signal", "discord"}

Sequential == {"telegram", "signal"}

Move(ms, from, to) ==
  /\ \A m \in ms : at[m] = from
  /\ at' = [m \in Messages |-> IF m \in ms THEN to ELSE at[m]]

\* The oldest messages at the platform, as many as there are.
Batch(p) == {ms \in SUBSET On(p, "remote") : \A m \in ms, n \in On(p, "remote") \ ms : m < n}

-----------------------------------------------------------------------------
\* Telegram's updates are fetched beside the loop, into a channel; the next
\* getUpdates tells the server that they have come.
TelegramPolls ==
  /\ \E ms \in Batch("telegram") : Move(ms, "remote", "fetched")
  /\ acked' = acked \cup {m \in Messages : PlatformOf[m] = "telegram" /\ at[m] \notin {"remote", "lost"}}
  /\ UNCHANGED <<queue, turns, crashes>>

\* Signal's receive removes the messages from the server.  When its answer does
\* not decode they are gone.
SignalPolls ==
  /\ \A stage \in {"fetched", "handler", "reply"} : On("signal", stage) = {}
  /\ \E ms \in Batch("signal"), to \in {"fetched", "lost"} : ms # {} /\ Move(ms, "remote", to)
  /\ UNCHANGED <<queue, acked, turns, crashes>>

\* A Discord event or an HTTP request starts a goroutine.
Pushed(m) ==
  /\ PlatformOf[m] \in {"discord", "http"}
  /\ Move({m}, "remote", "fetched")
  /\ UNCHANGED <<queue, acked, turns, crashes>>

Skip(m) ==
  /\ m \in Skipped
  /\ Move({m}, "fetched", "over")
  /\ UNCHANGED <<queue, acked, turns, crashes>>

InTurnAnyhow(m) == TRUE

\* A poll loop takes its messages in order, each after the reply to the one before.
InTurn(m) ==
  LET p == PlatformOf[m] IN
  p \in Sequential => /\ \A n \in On(p, "fetched") : m <= n
                      /\ On(p, "handler") \cup On(p, "reply") = {}

\* reply := handler(incoming): the call joins the queue, on Telegram once the typing
\* indicator is sent ...
CallHandler(m) ==
  /\ m \notin Skipped /\ InTurn(m)
  /\ Move({m}, "fetched", "handler")
  /\ Queue!Join(m)
  /\ UNCHANGED <<acked, turns, crashes>>

\* ... which runs the turn when the session's earlier turns are over ...
Serve(m) ==
  /\ Queue!Serve(m)
  /\ turns' = [turns EXCEPT ![m] = @ + 1]
  /\ UNCHANGED <<at, acked, crashes>>

Finish(m) ==
  /\ Queue!Finish(m)
  /\ UNCHANGED <<at, acked, turns, crashes>>

\* ... and returns the answer.
HandlerReturns(m) ==
  /\ Queue!Leave(m)
  /\ Move({m}, "handler", "reply")
  /\ UNCHANGED <<acked, turns, crashes>>

ReplyRetried(m) ==
  /\ at' = [at EXCEPT ![m] = "fetched"] /\ at[m] = "reply"
  /\ phase' = [phase EXCEPT ![m] = "outside"]
  /\ UNCHANGED <<line, acked, turns, crashes>>

\* The reply is sent (Discord: as a reply, then plainly); a failure is logged.  No send
\* has a timeout, so it may as well never end, in the poll loop where there is one.
Reply(m) ==
  /\ Move({m}, "reply", "over")
  /\ UNCHANGED <<queue, acked, turns, crashes>>

\* A crash, or a signal: main returns without waiting for anyone.  What was in
\* memory is gone; Telegram delivers again what was not confirmed.
Crash ==
  /\ crashes < MaxCrashes /\ crashes' = crashes + 1
  /\ at' = [m \in Messages |->
       IF PlatformOf[m] = "telegram" /\ m \notin acked THEN "remote"
       ELSE IF at[m] \in {"fetched", "handler", "reply"} THEN "lost" ELSE at[m]]
  /\ line' = [k \in Keys |-> <<>>]
  /\ phase' = [m \in Messages |-> IF at'[m] = "remote" THEN "outside" ELSE "done"]
  /\ UNCHANGED <<acked, turns>>

Turn(m) == CallHandler(m) \/ Serve(m) \/ Skip(m) \/ HandlerReturns(m) \/ Reply(m)

Next ==
  \/ TelegramPolls \/ SignalPolls \/ Crash
  \/ \E m \in Messages : Pushed(m) \/ Turn(m) \/ Finish(m)

\* What goes on by itself: every step of a turn but a send to somebody unreachable.
Progresses(m) ==
  \/ Serve(m) \/ Skip(m) \/ HandlerReturns(m)
  \/ KeyOf[m] \in Reachable /\ (CallHandler(m) \/ Reply(m))

\* Some goroutine goes on while one can, and some turn of the sessions that end
\* theirs: as a message takes finitely many steps, that is all that is needed.
Spec ==
  /\ Init /\ [][Next]_vars
  /\ WF_vars(\E m \in Messages : Progresses(m))
  /\ WF_vars(\E m \in Messages : KeyOf[m] \in Terminating /\ Finish(m))

-----------------------------------------------------------------------------
\* On a polled platform a turn starts only when every older message of the platform
\* has been dealt with: the messages of a user are answered in the order they were
\* sent, across polls and crashes, also those delivered again.
AnsweredInOrder ==
  \A m, n \in Messages :
    (m < n /\ PlatformOf[m] = PlatformOf[n] /\ PlatformOf[m] \in {"telegram", "signal"}
       /\ at[n] \in {"handler", "reply"}) => at[m] \in {"over", "lost"}

\* One message is one turn, also when its reply could not be sent.  Only a crash
\* makes Telegram deliver a message twice; the other platforms never do.
OneTurnPerMessage ==
  \A m \in Messages : turns[m] <= 1 + (IF PlatformOf[m] = "telegram" THEN crashes ELSE 0)

\* Everyone with a message in the program whose session's turns end and who can be
\* sent to is answered in the end, or the message was lost in a crash; on a polled
\* platform, when that is so of all its sessions, for there one turn or one send that
\* hangs keeps every other user waiting.
Promised(m) ==
  LET behind == IF PlatformOf[m] \in {"telegram", "signal"}
                THEN {KeyOf[n] : n \in {n \in Messages : PlatformOf[n] = PlatformOf[m]}} ELSE {KeyOf[m]}
  IN behind \subseteq Terminating \cap Reachable
EveryoneAnswered ==
  []<>(\A m \in Messages : Promised(m) => at[m] \in {"remote", "over", "lost"})
=============================================================================
