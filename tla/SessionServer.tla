---------------------------- MODULE SessionServer ---------------------------
(***************************************************************************)
(* What sessionqueue.Queue promises its callers: every session is a line   *)
(* of turns served one at a time in the order they joined it, and each     *)
(* caller leaves with the outcome of its own turn.  Workers, the registry  *)
(* of workers and channel capacities do not appear.                        *)
(***************************************************************************)
EXTENDS Naturals, Sequences

CONSTANTS Calls, Keys, NoKey, KeyOf

VARIABLES
  line,    \* session -> unfinished turns, oldest first
  phase    \* call -> how far its turn has come

abstractVars == <<line, phase>>

Init ==
  /\ line = [k \in Keys |-> <<>>]
  /\ phase = [c \in Calls |-> "outside"]

Move(c, from, to) ==
  /\ phase[c] = from
  /\ phase' = [phase EXCEPT ![c] = to]

Join(c) ==
  /\ KeyOf[c] # NoKey
  /\ Move(c, "outside", "waiting")
  /\ line' = [line EXCEPT ![KeyOf[c]] = Append(@, c)]

\* Only the oldest turn of a session is ever served.
Serve(c) ==
  /\ KeyOf[c] # NoKey
  /\ line[KeyOf[c]] # <<>> /\ Head(line[KeyOf[c]]) = c
  /\ Move(c, "waiting", "serving")
  /\ UNCHANGED line

Finish(c) ==
  /\ KeyOf[c] # NoKey
  /\ Move(c, "serving", "served")
  /\ line' = [line EXCEPT ![KeyOf[c]] = Tail(@)]

Leave(c) ==
  /\ Move(c, "served", "done")
  /\ UNCHANGED line

\* A message without a session is served at once, beside every line.
Bypass(c) ==
  /\ KeyOf[c] = NoKey
  /\ \/ Move(c, "outside", "serving")
     \/ Move(c, "serving", "done")
     \/ Move(c, "serving", "panicked")
  /\ UNCHANGED line

Next == \E c \in Calls : Join(c) \/ Serve(c) \/ Finish(c) \/ Leave(c) \/ Bypass(c)

Spec == Init /\ [][Next]_abstractVars
=============================================================================
