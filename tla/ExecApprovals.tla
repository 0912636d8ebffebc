---------------------------- MODULE ExecApprovals ---------------------------
(***************************************************************************)
(* tools/approvals.go and run_command: the commands users have approved,   *)
(* kept in exec-approvals.json.  The file is shared by all sessions and    *)
(* read, changed and rewritten without a lock.  It lies in the workspace    *)
(* of the file tools, so that write_file may rewrite it as well.           *)
(*                                                                         *)
(* os.WriteFile truncates the file and then writes at offset 0 with a      *)
(* descriptor of its own: of two overlapping writes, the shorter one may   *)
(* leave the tail of the longer behind it, which is no JSON.               *)
(***************************************************************************)
EXTENDS Naturals, SequencesExt

CONSTANTS
  Sessions,       \* each runs one turn at a time
  Commands,       \* normalized commands (parsedCommand.Identity)
  Gated,          \* those of executables that need approval (go, git, make)
  Blocked,        \* those that match a blocked pattern
  Unlisted,       \* those whose executable is in no allowlist
  Lists,          \* the lists that a write_file may leave in the file
  MaxTurns,       \* bound on the turns of the whole run
  Nil

ASSUME CommandsAssumption ==
  /\ Gated \subseteq Commands /\ Blocked \subseteq Commands /\ Unlisted \subseteq Commands
  /\ Gated \cap Unlisted = {}
  /\ Lists \subseteq Seq(Commands) /\ MaxTurns \in Nat
  /\ Nil \notin Commands

VARIABLES
  pc,          \* what each session's turn is doing
  cmd,         \* the command it is about
  list,        \* what LoadApprovals returned to it
  disk,        \* the approvals file: "missing", "empty", "readable" or "torn"
  file,        \* the list in it, when readable
  turns,       \* turns started
  requested,   \* commands some user has asked to approve
  confirmed,   \* commands for which some user was told "Approved."
  written,     \* commands that a write_file has put into the file
  executed,    \* commands run
  disturbed    \* whether two approvals have overlapped, a write has failed or was hit by
               \* a crash, or a write_file has overwritten the file

vars == <<pc, cmd, list, disk, file, turns, requested, confirmed, written, executed, disturbed>>

Init ==
  /\ pc = [s \in Sessions |-> "idle"]
  /\ cmd = [s \in Sessions |-> Nil]
  /\ list = [s \in Sessions |-> <<>>]
  /\ disk = "missing"
  /\ file = <<>>
  /\ turns = 0
  /\ requested = {}
  /\ confirmed = {}
  /\ executed = {}
  /\ written = {}
  /\ disturbed = FALSE

-----------------------------------------------------------------------------
Goto(s, from, to) ==
  /\ pc[s] = from
  /\ pc' = [pc EXCEPT ![s] = to]

Begin(s, c, to) ==
  /\ turns < MaxTurns
  /\ Goto(s, "idle", to)
  /\ cmd' = [cmd EXCEPT ![s] = c]
  /\ turns' = turns + 1

\* A session between the Load and the end of the write of ApproveCommand.
Updating(s) == pc[s] \in {"check", "truncate", "write"}

Readable == disk = "readable"

\* Neither an empty file nor the remains of two lists are JSON.
Unreadable == disk \in {"empty", "torn"}

\* LoadApprovals: no file is an empty list.
Loaded == IF disk = "missing" THEN <<>> ELSE file

\* IsApproved compares identities.
IsApproved(c, approved) == c \in ToSet(approved)

-----------------------------------------------------------------------------
(* ApproveCommand, on the message "approve: <command>".                    *)

Approvable(c) == c \in Gated /\ c \notin Blocked

ApproveRefused(s, c) ==
  /\ ~Approvable(c)
  /\ Begin(s, c, "idle")
  /\ requested' = requested \cup {c}
  /\ UNCHANGED <<list, disk, file, confirmed, written, executed, disturbed>>

ApproveStarts(s, c) ==
  /\ Approvable(c)
  /\ Begin(s, c, "load")
  /\ requested' = requested \cup {c}
  /\ UNCHANGED <<list, disk, file, confirmed, written, executed, disturbed>>

ApproveLoads(s) ==
  /\ ~Unreadable
  /\ Goto(s, "load", "check")
  /\ list' = [list EXCEPT ![s] = Loaded]
  /\ disturbed' = (disturbed \/ \E u \in Sessions : Updating(u))
  /\ UNCHANGED <<cmd, disk, file, turns, requested, confirmed, written, executed>>

\* "Approval failed": the user is told.
ApproveLoadFails(s) ==
  /\ Unreadable
  /\ Goto(s, "load", "idle")
  /\ UNCHANGED <<cmd, list, disk, file, turns, requested, confirmed, written, executed, disturbed>>

AlreadyApproved(s) ==
  /\ pc[s] = "check" /\ IsApproved(cmd[s], list[s])
  /\ Goto(s, "check", "idle")
  /\ confirmed' = confirmed \cup {cmd[s]}
  /\ UNCHANGED <<cmd, list, disk, file, turns, requested, written, executed, disturbed>>

AddsUnchecked(s) ==
  /\ Goto(s, "check", "truncate")
  /\ list' = [list EXCEPT ![s] = Append(@, cmd[s])]
  /\ UNCHANGED <<cmd, disk, file, turns, requested, confirmed, written, executed, disturbed>>

AddsAlone(s) ==
  /\ pc[s] = "check" /\ ~IsApproved(cmd[s], list[s])
  /\ Goto(s, "check", "truncate")
  /\ list' = [list EXCEPT ![s] = <<cmd[s]>>]
  /\ UNCHANGED <<cmd, disk, file, turns, requested, confirmed, written, executed, disturbed>>

Adds(s) ==
  /\ pc[s] = "check" /\ ~IsApproved(cmd[s], list[s])
  /\ Goto(s, "check", "truncate")
  /\ list' = [list EXCEPT ![s] = Append(@, cmd[s])]
  /\ UNCHANGED <<cmd, disk, file, turns, requested, confirmed, written, executed, disturbed>>

\* SaveApprovals, first half: the file is opened with O_TRUNC.  When that fails it stays
\* as it is and the user is told "Approval failed".
OpenFails(s) ==
  /\ Goto(s, "truncate", "idle")
  /\ UNCHANGED <<cmd, list, disk, file, turns, requested, confirmed, written, executed, disturbed>>

Truncates(s) ==
  /\ Goto(s, "truncate", "write")
  /\ disk' = "empty"
  /\ file' = <<>>
  /\ UNCHANGED <<cmd, list, turns, requested, confirmed, written, executed, disturbed>>

\* Second half.  If another write has put something there meanwhile, the bytes of the
\* longer one may stay.
Leftover == disk # "empty"

Writes(s) ==
  /\ Goto(s, "write", "idle")
  /\ \/ disk' = "readable" /\ file' = list[s]
     \/ Leftover /\ disk' = "torn" /\ file' = <<>>
  /\ confirmed' = confirmed \cup {cmd[s]}
  /\ UNCHANGED <<cmd, list, turns, requested, written, executed, disturbed>>

\* A write that fails has written nothing or a part.  "Approval failed" again, but what
\* was in the file is gone.
WriteFails(s) ==
  /\ Goto(s, "write", "idle")
  /\ \/ UNCHANGED <<disk, file>>
     \/ disk' = "torn" /\ file' = <<>>
  /\ disturbed' = TRUE
  /\ UNCHANGED <<cmd, list, turns, requested, confirmed, written, executed>>

-----------------------------------------------------------------------------
(* run_command, requested by the LLM.                                      *)

RunRefused(s, c) ==
  /\ c \in Unlisted \cup Blocked
  /\ Begin(s, c, "idle")
  /\ UNCHANGED <<list, disk, file, requested, confirmed, written, executed, disturbed>>

RunFree(s, c) ==
  /\ c \notin Unlisted \cup Blocked \cup Gated
  /\ Begin(s, c, "idle")
  /\ executed' = executed \cup {c}
  /\ UNCHANGED <<list, disk, file, requested, confirmed, written, disturbed>>

\* LoadApprovals may fail; otherwise the command runs when it is in the list.
RunGatedAnyFile(s, c) ==
  /\ c \in Gated \ Blocked
  /\ Begin(s, c, "idle")
  /\ executed' = executed \cup {c}
  /\ UNCHANGED <<list, disk, file, requested, confirmed, written, disturbed>>

RunGated(s, c) ==
  /\ c \in Gated \ Blocked
  /\ Begin(s, c, "idle")
  /\ executed' = IF ~Unreadable /\ IsApproved(c, Loaded) THEN executed \cup {c}
                 ELSE executed
  /\ UNCHANGED <<list, disk, file, requested, confirmed, written, disturbed>>

-----------------------------------------------------------------------------
(* write_file, requested by the LLM, with the path of the approvals file.  *)

FileToolTruncates(s) ==
  /\ turns < MaxTurns /\ turns' = turns + 1
  /\ Goto(s, "idle", "tool")
  /\ disk' = "empty" /\ file' = <<>>
  /\ disturbed' = TRUE
  /\ UNCHANGED <<cmd, list, requested, confirmed, written, executed>>

\* It writes a list, alone or with what another write has left behind it, or what is none,
\* or fails.
FileToolWrites(s) ==
  /\ Goto(s, "tool", "idle")
  /\ \/ \E l \in Lists : disk' = "readable" /\ file' = l /\ written' = written \cup ToSet(l)
     \/ disk' = "torn" /\ file' = <<>> /\ UNCHANGED written
     \/ UNCHANGED <<disk, file, written>>
  /\ UNCHANGED <<cmd, list, turns, requested, confirmed, executed, disturbed>>

-----------------------------------------------------------------------------
\* The process dies and starts again; the file stays as it is.
Restart ==
  /\ pc' = [s \in Sessions |-> "idle"]
  /\ disturbed' = (disturbed \/ \E s \in Sessions : pc[s] = "write")
  /\ UNCHANGED <<cmd, list, disk, file, turns, requested, confirmed, written, executed>>

ApproveCommand(s) ==
  \/ \E c \in Commands : ApproveRefused(s, c) \/ ApproveStarts(s, c)
  \/ ApproveLoads(s) \/ ApproveLoadFails(s) \/ AlreadyApproved(s) \/ Adds(s)
  \/ OpenFails(s) \/ Truncates(s) \/ Writes(s) \/ WriteFails(s)

RunCommand(s) == \E c \in Commands : RunRefused(s, c) \/ RunFree(s, c) \/ RunGated(s, c)

WriteFile(s) == FileToolTruncates(s) \/ FileToolWrites(s)

Next == (\E s \in Sessions : ApproveCommand(s) \/ RunCommand(s) \/ WriteFile(s)) \/ Restart

Spec == Init /\ [][Next]_vars

-----------------------------------------------------------------------------
TypeOK ==
  /\ pc \in [Sessions -> {"idle", "load", "check", "truncate", "write", "tool"}]
  /\ cmd \in [Sessions -> Commands \cup {Nil}]
  /\ list \in [Sessions -> Seq(Commands)]
  /\ disk \in {"missing", "empty", "readable", "torn"} /\ file \in Seq(Commands)
  /\ turns \in Nat
  /\ requested \subseteq Commands /\ confirmed \subseteq Commands
  /\ written \subseteq Commands /\ executed \subseteq Commands
  /\ disturbed \in BOOLEAN

\* README.md:89: go, git and make "require prior approval".  Whatever the races on the
\* file, a gated command only runs if some user asked to approve it or a write_file has
\* listed it; a blocked or unlisted one never runs, whoever has listed it.
RunsOnlyApproved ==
  /\ executed \cap (Blocked \cup Unlisted) = {}
  /\ executed \cap Gated \subseteq requested \cup written

\* No command is listed twice, however approvals of it overlap (security_test.go,
\* "Replay with formatting differences should not create a duplicate approval"), unless
\* a write_file has listed it.
NoDuplicates ==
  \A i, j \in DOMAIN file : file[i] = file[j] /\ i # j => file[i] \in written

\* A confirmed approval is only ever lost to an overlapping approval of another session,
\* to a crash or an error in the middle of a write, or to a write_file.
LostOnlyWhenDisturbed ==
  ~disturbed /\ (\A s \in Sessions : pc[s] # "write") => \A c \in confirmed : IsApproved(c, Loaded)
=============================================================================
