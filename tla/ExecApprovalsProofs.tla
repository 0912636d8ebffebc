------------------------- MODULE ExecApprovalsProofs -------------------------
(***************************************************************************)
(* Whatever sessions, commands, failures and restarts there are, the races *)
(* on exec-approvals.json never let a command run that nobody has listed,  *)
(* never list one twice, and an approval is only lost to them, to a write  *)
(* that fails or is cut off, or to a write_file.                           *)
(***************************************************************************)
EXTENDS ExecApprovals, TLAPS

Between(s) == pc[s] \in {"load", "check", "truncate", "write"}

\* Every list a session or the file holds is made of commands users asked for or a
\* write_file has listed.
Traced ==
  /\ ToSet(file) \subseteq requested \cup written
  /\ \A s \in Sessions : ToSet(list[s]) \subseteq requested \cup written
  /\ \A s \in Sessions : Between(s) => cmd[s] \in requested

\* A list without duplicates, but for what a write_file has listed.
Single(q) == \A i, j \in DOMAIN q : q[i] = q[j] /\ i # j => q[i] \in written

Distinct ==
  /\ Single(file)
  /\ \A s \in Sessions : Single(list[s])

\* Until something disturbs it, the one in progress works on the true list.
Alone ==
  ~disturbed =>
    /\ \A s \in Sessions : pc[s] # "tool"
    /\ \A s, u \in Sessions : Updating(s) /\ Updating(u) => s = u
    /\ disk # "torn"
    /\ disk = "missing" => file = <<>>
    /\ (\A s \in Sessions : pc[s] # "write") => disk # "empty" /\ confirmed \subseteq ToSet(file)
    /\ \A s \in Sessions :
         /\ pc[s] = "check" => list[s] = file
         /\ pc[s] = "truncate" => list[s] = Append(file, cmd[s])
         /\ pc[s] = "write" => /\ disk = "empty"
                               /\ confirmed \cup {cmd[s]} \subseteq ToSet(list[s])

ApprovalsInv == TypeOK /\ Traced /\ RunsOnlyApproved /\ Distinct /\ Alone

-----------------------------------------------------------------------------
\* What a list holds after an element is added.
LEMMA AppendSet ==
  ASSUME NEW S, NEW q \in Seq(S), NEW c \in S
  PROVE  ToSet(Append(q, c)) = ToSet(q) \cup {c}
  <1>1. /\ DOMAIN Append(q, c) = 1..(Len(q) + 1) /\ DOMAIN q = 1..Len(q) /\ Len(q) \in Nat
        /\ \A i \in 1..Len(q) : Append(q, c)[i] = q[i]
        /\ Append(q, c)[Len(q) + 1] = c
    OBVIOUS
  <1>2. 1..(Len(q) + 1) = 1..Len(q) \cup {Len(q) + 1}
    BY <1>1
  <1> QED BY <1>1, <1>2 DEF ToSet

\* A new element leaves a list without duplicates.
LEMMA AddKeepsSingle ==
  ASSUME NEW q \in Seq(Commands), NEW c \in Commands, Single(q), c \notin ToSet(q)
  PROVE  Single(Append(q, c))
  <1>1. /\ DOMAIN Append(q, c) = 1..(Len(q) + 1) /\ DOMAIN q = 1..Len(q) /\ Len(q) \in Nat
        /\ \A i \in 1..Len(q) : Append(q, c)[i] = q[i]
        /\ Append(q, c)[Len(q) + 1] = c
    OBVIOUS
  <1>2. \A i \in 1..Len(q) : q[i] # c
    BY <1>1 DEF ToSet
  <1>3. \A i, j \in 1..Len(q) : q[i] = q[j] /\ i # j => q[i] \in written
    BY <1>1 DEF Single
  <1>4. SUFFICES ASSUME NEW i \in 1..(Len(q) + 1), NEW j \in 1..(Len(q) + 1), i # j,
                        Append(q, c)[i] = Append(q, c)[j]
                 PROVE  Append(q, c)[i] \in written
    BY <1>1 DEF Single
  <1>5. CASE i \in 1..Len(q) /\ j \in 1..Len(q)
    BY <1>1, <1>3, <1>4, <1>5
  <1>6. CASE i = Len(q) + 1 \/ j = Len(q) + 1
    BY <1>1, <1>2, <1>4, <1>6
  <1> QED BY <1>1, <1>5, <1>6

\* The empty list.
LEMMA EmptyList == ToSet(<<>>) = {} /\ Single(<<>>) /\ Single(<<>>)' /\ <<>> \in Seq(Commands)
  <1>1. <<>> \in Seq(Commands) /\ Len(<<>>) = 0
    OBVIOUS
  <1>2. DOMAIN <<>> = {}
    BY <1>1
  <1> QED BY <1>1, <1>2 DEF ToSet, Single

-----------------------------------------------------------------------------
\* Nothing is approved, requested or run at the start.
LEMMA InitInv == Init => ApprovalsInv
  <1> SUFFICES ASSUME Init PROVE ApprovalsInv
    OBVIOUS
  <1> USE DEF Init
  <1>1. TypeOK
    BY EmptyList DEF TypeOK
  <1>2. Traced /\ RunsOnlyApproved
    BY EmptyList DEF Traced, RunsOnlyApproved, Between
  <1>3. Distinct
    BY EmptyList DEF Distinct
  <1>4. Alone
    BY EmptyList DEF Alone, Updating
  <1> QED BY <1>1, <1>2, <1>3, <1>4 DEF ApprovalsInv

-----------------------------------------------------------------------------
(* One lemma per part of the invariant, one step per action.               *)

LEMMA TypeStep ==
  ASSUME ApprovalsInv, [Next]_vars
  PROVE  TypeOK'
  <1> USE CommandsAssumption DEF ApprovalsInv, TypeOK
  <1>1. ASSUME NEW s \in Sessions, NEW c \in Commands,
               \/ ApproveRefused(s, c) \/ ApproveStarts(s, c)
               \/ RunRefused(s, c) \/ RunFree(s, c) \/ RunGated(s, c)
        PROVE  TypeOK'
    <2>1. executed' \subseteq Commands
      BY <1>1 DEF ApproveRefused, ApproveStarts, RunRefused, RunFree, RunGated
    <2>2. requested' \subseteq Commands /\ UNCHANGED <<list, disk, file, confirmed, written, disturbed>>
      BY <1>1 DEF ApproveRefused, ApproveStarts, RunRefused, RunFree, RunGated
    <2>3. \E to \in {"idle", "load"} : pc' = [pc EXCEPT ![s] = to] /\ cmd' = [cmd EXCEPT ![s] = c] /\ turns' = turns + 1
      BY <1>1, Zenon DEF ApproveRefused, ApproveStarts, RunRefused, RunFree, RunGated, Begin, Goto
    <2>4. /\ pc' \in [Sessions -> {"idle", "load", "check", "truncate", "write", "tool"}]
          /\ cmd' \in [Sessions -> Commands \cup {Nil}]
          /\ turns' \in Nat
      BY <2>3
    <2>5. /\ list' \in [Sessions -> Seq(Commands)] /\ file' \in Seq(Commands)
          /\ disk' \in {"missing", "empty", "readable", "torn"}
          /\ confirmed' \subseteq Commands /\ written' \subseteq Commands /\ disturbed' \in BOOLEAN
      BY <2>2
    <2> QED BY <2>1, <2>2, <2>4, <2>5
  <1>2. ASSUME NEW s \in Sessions, ApproveLoads(s)
        PROVE  TypeOK'
    <2>1. Loaded \in Seq(Commands)
      BY EmptyList DEF Loaded
    <2> QED BY <1>2, <2>1 DEF ApproveLoads, Goto
  <1>3. ASSUME NEW s \in Sessions, ApproveLoadFails(s)
        PROVE  TypeOK'
    BY <1>3 DEF ApproveLoadFails, Goto
  <1>4. ASSUME NEW s \in Sessions,
               AlreadyApproved(s) \/ Adds(s) \/ OpenFails(s) \/ Truncates(s) \/ Writes(s) \/ WriteFails(s)
        PROVE  TypeOK'
    <2>1. cmd[s] \in Commands
      BY <1>4 DEF AlreadyApproved, Adds, OpenFails, Truncates, Writes, WriteFails, Goto, Traced, Between
    <2>2. CASE AlreadyApproved(s)
      BY <2>1, <2>2 DEF AlreadyApproved, Goto
    <2>3. CASE Adds(s)
      BY <2>1, <2>3 DEF Adds, Goto
    <2>4. CASE Truncates(s)
      BY <2>4, EmptyList DEF Truncates, Goto
    <2>5. CASE Writes(s)
      BY <2>1, <2>5, EmptyList DEF Writes, Goto
    <2>6. CASE OpenFails(s) \/ WriteFails(s)
      BY <2>6, EmptyList DEF OpenFails, WriteFails, Goto
    <2> QED BY <1>4, <2>2, <2>3, <2>4, <2>5, <2>6
  <1>5. CASE Restart
    BY <1>5 DEF Restart
  <1>6. ASSUME NEW s \in Sessions, FileToolTruncates(s)
        PROVE  TypeOK'
    BY <1>6, EmptyList DEF FileToolTruncates, Goto
  <1>7. ASSUME NEW s \in Sessions, FileToolWrites(s)
        PROVE  TypeOK'
    <2>1. \A l \in Lists : l \in Seq(Commands) /\ ToSet(l) \subseteq Commands
      BY DEF ToSet
    <2>2. file' \in Seq(Commands) /\ written' \subseteq Commands /\ disk' \in {"readable", "torn", disk}
      BY <1>7, <2>1, EmptyList DEF FileToolWrites
    <2> QED BY <1>7, <2>2 DEF FileToolWrites, Goto
  <1>8. CASE UNCHANGED vars
    BY <1>8 DEF vars
  <1> QED BY <1>1, <1>2, <1>3, <1>4, <1>5, <1>6, <1>7, <1>8 DEF Next, ApproveCommand, RunCommand, WriteFile

LEMMA TracedStep ==
  ASSUME ApprovalsInv, [Next]_vars
  PROVE  Traced' /\ RunsOnlyApproved'
  <1> USE CommandsAssumption DEF ApprovalsInv, TypeOK, Traced, RunsOnlyApproved, Between
  <1>1. ASSUME NEW s \in Sessions, NEW c \in Commands, ApproveRefused(s, c) \/ ApproveStarts(s, c)
        PROVE  Traced' /\ RunsOnlyApproved'
    BY <1>1 DEF ApproveRefused, ApproveStarts, Begin, Goto
  <1>2. ASSUME NEW s \in Sessions, NEW c \in Commands,
               RunRefused(s, c) \/ RunFree(s, c) \/ RunGated(s, c)
        PROVE  Traced' /\ RunsOnlyApproved'
    <2>1. ToSet(Loaded) \subseteq requested \cup written
      BY EmptyList DEF Loaded
    <2>2. Traced'
      BY <1>2 DEF RunRefused, RunFree, RunGated, Begin, Goto
    <2>3. requested' = requested /\ written' = written
      BY <1>2 DEF RunRefused, RunFree, RunGated
    <2>4. executed' = executed \/ RunFree(s, c) \/ (RunGated(s, c) /\ c \in ToSet(Loaded))
      BY <1>2 DEF RunRefused, RunGated, IsApproved
    <2>5. executed' \subseteq executed \cup {c}
      BY <1>2 DEF RunRefused, RunFree, RunGated
    <2>6. RunFree(s, c) => c \notin Unlisted \cup Blocked \cup Gated
      BY DEF RunFree
    <2>7. RunGated(s, c) => c \in Gated \ Blocked
      BY DEF RunGated
    <2> QED BY <2>1, <2>2, <2>3, <2>4, <2>5, <2>6, <2>7
  <1>3. ASSUME NEW s \in Sessions, ApproveLoads(s)
        PROVE  Traced' /\ RunsOnlyApproved'
    <2>1. ToSet(Loaded) \subseteq requested \cup written
      BY EmptyList DEF Loaded
    <2> QED BY <1>3, <2>1 DEF ApproveLoads, Goto
  <1>4. ASSUME NEW s \in Sessions, ApproveLoadFails(s) \/ AlreadyApproved(s) \/ OpenFails(s)
        PROVE  Traced' /\ RunsOnlyApproved'
    BY <1>4 DEF ApproveLoadFails, AlreadyApproved, OpenFails, Goto
  <1>5. ASSUME NEW s \in Sessions, Adds(s)
        PROVE  Traced' /\ RunsOnlyApproved'
    <2>1. cmd[s] \in requested /\ cmd[s] \in Commands
      BY <1>5 DEF Adds
    <2>2. ToSet(Append(list[s], cmd[s])) = ToSet(list[s]) \cup {cmd[s]}
      BY <2>1, AppendSet
    <2> QED BY <1>5, <2>1, <2>2 DEF Adds, Goto
  <1>6. ASSUME NEW s \in Sessions, Truncates(s)
        PROVE  Traced' /\ RunsOnlyApproved'
    BY <1>6, EmptyList DEF Truncates, Goto
  <1>7. ASSUME NEW s \in Sessions, Writes(s) \/ WriteFails(s)
        PROVE  Traced' /\ RunsOnlyApproved'
    BY <1>7, EmptyList DEF Writes, WriteFails, Goto
  <1>8. CASE Restart
    BY <1>8 DEF Restart
  <1>9. ASSUME NEW s \in Sessions, FileToolTruncates(s)
        PROVE  Traced' /\ RunsOnlyApproved'
    BY <1>9, EmptyList DEF FileToolTruncates, Goto
  <1>10. ASSUME NEW s \in Sessions, FileToolWrites(s)
         PROVE  Traced' /\ RunsOnlyApproved'
    <2>1. written \subseteq written' /\ ToSet(file') \subseteq requested \cup written'
      BY <1>10, EmptyList DEF FileToolWrites
    <2> QED BY <1>10, <2>1 DEF FileToolWrites, Goto
  <1>11. CASE UNCHANGED vars
    BY <1>11 DEF vars
  <1> QED BY <1>1, <1>2, <1>3, <1>4, <1>5, <1>6, <1>7, <1>8, <1>9, <1>10, <1>11
          DEF Next, ApproveCommand, RunCommand, WriteFile

LEMMA DistinctStep ==
  ASSUME ApprovalsInv, [Next]_vars
  PROVE  Distinct'
  <1> USE DEF ApprovalsInv, TypeOK, Distinct
  <1>1. ASSUME UNCHANGED <<list, file, written>>
        PROVE  Distinct'
    BY <1>1 DEF Single
  <1>2. ASSUME NEW s \in Sessions, ApproveLoads(s)
        PROVE  Distinct'
    <2>1. Single(Loaded)
      BY EmptyList DEF Loaded
    <2>2. \A u \in Sessions : list'[u] = Loaded \/ list'[u] = list[u]
      BY <1>2 DEF ApproveLoads
    <2>3. UNCHANGED <<file, written>>
      BY <1>2 DEF ApproveLoads
    <2> QED BY <2>1, <2>2, <2>3 DEF Single
  <1>3. ASSUME NEW s \in Sessions, Adds(s)
        PROVE  Distinct'
    <2>1. cmd[s] \in Commands /\ cmd[s] \notin ToSet(list[s])
      BY <1>3 DEF Adds, IsApproved, Traced, Between
    <2>2. Single(Append(list[s], cmd[s]))
      <3>1. list[s] \in Seq(Commands) /\ Single(list[s])
        OBVIOUS
      <3> QED BY <2>1, <3>1, AddKeepsSingle
    <2>3. \A u \in Sessions : list'[u] = Append(list[s], cmd[s]) \/ list'[u] = list[u]
      BY <1>3 DEF Adds
    <2>4. UNCHANGED <<file, written>>
      BY <1>3 DEF Adds
    <2> QED BY <2>2, <2>3, <2>4 DEF Single
  <1>4. ASSUME NEW s \in Sessions, Truncates(s) \/ Writes(s) \/ WriteFails(s) \/ FileToolTruncates(s)
        PROVE  Distinct'
    <2>1. UNCHANGED <<list, written>> /\ file' \in {<<>>, list[s], file}
      BY <1>4 DEF Truncates, Writes, WriteFails, FileToolTruncates
    <2>2. Single(file')
      BY <2>1, EmptyList
    <2> QED BY <2>1, <2>2 DEF Single
  <1>5. ASSUME NEW s \in Sessions, FileToolWrites(s)
        PROVE  Distinct'
    <2>1. written \subseteq written' /\ UNCHANGED list
      BY <1>5 DEF FileToolWrites
    <2>2. CASE UNCHANGED file
      BY <2>1, <2>2 DEF Single
    <2>3. CASE file' = <<>>
      BY <2>1, <2>3, EmptyList DEF Single
    <2>4. CASE ToSet(file') \subseteq written'
      BY <2>1, <2>4 DEF Single, ToSet
    <2> QED BY <1>5, <2>2, <2>3, <2>4 DEF FileToolWrites
  <1> QED BY <1>1, <1>2, <1>3, <1>4, <1>5
          DEF Next, ApproveCommand, RunCommand, WriteFile, ApproveRefused, ApproveStarts, ApproveLoadFails,
              AlreadyApproved, OpenFails, RunRefused, RunFree, RunGated, Restart, vars

LEMMA AloneStep ==
  ASSUME ApprovalsInv, [Next]_vars
  PROVE  Alone'
  <1> SUFFICES ASSUME ~disturbed' PROVE Alone'
    BY DEF Alone
  <1> USE DEF ApprovalsInv, TypeOK, Alone, Updating
  <1>1. ASSUME NEW s \in Sessions, NEW c \in Commands,
               \/ ApproveRefused(s, c) \/ ApproveStarts(s, c)
               \/ RunRefused(s, c) \/ RunFree(s, c) \/ RunGated(s, c)
        PROVE  Alone'
    BY <1>1, ZenonT(60) DEF ApproveRefused, ApproveStarts, RunRefused, RunFree, RunGated, Begin, Goto
  <1>2. ASSUME NEW s \in Sessions, ApproveLoads(s)
        PROVE  Alone'
    BY <1>2 DEF ApproveLoads, Goto, Loaded
  <1>3. ASSUME NEW s \in Sessions, ApproveLoadFails(s)
        PROVE  Alone'
    BY <1>3 DEF ApproveLoadFails, Goto
  <1>4. ASSUME NEW s \in Sessions, AlreadyApproved(s)
        PROVE  Alone'
    BY <1>4 DEF AlreadyApproved, Goto, IsApproved
  <1>5. ASSUME NEW s \in Sessions, Adds(s)
        PROVE  Alone'
    BY <1>5 DEF Adds, Goto
  <1>6. ASSUME NEW s \in Sessions, Truncates(s)
        PROVE  Alone'
    <2>1. cmd[s] \in Commands
      BY <1>6 DEF Truncates, Goto, Traced, Between
    <2>2. ToSet(Append(file, cmd[s])) = ToSet(file) \cup {cmd[s]}
      BY <2>1, AppendSet
    <2>3. confirmed \subseteq ToSet(file)
      BY <1>6 DEF Truncates, Goto
    <2> QED BY <1>6, <2>2, <2>3 DEF Truncates, Goto
  <1>7. ASSUME NEW s \in Sessions, Writes(s)
        PROVE  Alone'
    BY <1>7 DEF Writes, Goto, Leftover
  <1>8. CASE Restart
    BY <1>8 DEF Restart
  <1>9. CASE UNCHANGED vars
    BY <1>9 DEF vars
  <1>10. ASSUME NEW s \in Sessions, OpenFails(s)
         PROVE  Alone'
    BY <1>10 DEF OpenFails, Goto
  <1>11. ASSUME NEW s \in Sessions, WriteFails(s) \/ FileToolTruncates(s)
         PROVE  FALSE
    BY <1>11 DEF WriteFails, FileToolTruncates
  <1>12. ASSUME NEW s \in Sessions, FileToolWrites(s)
         PROVE  FALSE
    BY <1>12 DEF FileToolWrites, Goto
  <1> QED BY <1>1, <1>2, <1>3, <1>4, <1>5, <1>6, <1>7, <1>8, <1>9, <1>10, <1>11, <1>12
          DEF Next, ApproveCommand, RunCommand, WriteFile

\* The invariant is inductive.
THEOREM ApprovalsInvariant == Spec => []ApprovalsInv
  <1>1. ApprovalsInv /\ [Next]_vars => ApprovalsInv'
    BY TypeStep, TracedStep, DistinctStep, AloneStep DEF ApprovalsInv
  <1> QED BY InitInv, <1>1, PTL DEF Spec

\* Types, for every set of sessions and commands.
THEOREM TypeCorrect == Spec => []TypeOK
  <1>1. ApprovalsInv => TypeOK
    BY DEF ApprovalsInv
  <1> QED BY ApprovalsInvariant, <1>1, PTL

\* Whatever the races on the file and whatever is written into it, run_command executes
\* nothing that is blocked or unlisted, and a command that needs approval only after a
\* request to approve it or a write_file that lists it.
THEOREM OnlyApprovedCommandsRun == Spec => []RunsOnlyApproved
  <1>1. ApprovalsInv => RunsOnlyApproved
    BY DEF ApprovalsInv
  <1> QED BY ApprovalsInvariant, <1>1, PTL

\* Overlapping approvals never list a command twice that no write_file has listed.
THEOREM ListedOnce == Spec => []NoDuplicates
  <1>1. ApprovalsInv => NoDuplicates
    BY DEF ApprovalsInv, Distinct, Single, NoDuplicates
  <1> QED BY ApprovalsInvariant, <1>1, PTL

\* As long as no two approvals overlap, no write fails or is cut off and no write_file
\* overwrites the file, an approval the user was told of is in it.
THEOREM ConfirmedIsKept == Spec => []LostOnlyWhenDisturbed
  <1>1. ApprovalsInv => LostOnlyWhenDisturbed
    BY DEF ApprovalsInv, Alone, LostOnlyWhenDisturbed, IsApproved, Loaded
  <1> QED BY ApprovalsInvariant, <1>1, PTL
=============================================================================
