---------------------------- MODULE SessionStore ----------------------------
(***************************************************************************)
(* session/session.go: the transcript of each session in a JSONL file, with *)
(* the migration of Telegram's old files, under failing writes and crashes. *)
(*                                                                         *)
(* The turns of a session do not overlap (module SessionQueue); a turn     *)
(* loads the transcript, works, and appends the exchange, or clears it.    *)
(* A line is what one Encode wrote.  One that was cut off has no newline:  *)
(* it runs on into the next line, and then neither can be parsed.          *)
(***************************************************************************)
EXTENDS SequencesExt

CONSTANTS
  Users,        \* sessions
  Telegram,     \* those of platform "telegram"
  Legacy,       \* those whose old file is there at the start
  MaxTurns      \* bound on the turns of each session

\* Only Telegram's transcripts ever had the old name.
ASSUME SessionAssumption == Legacy \subseteq Telegram /\ Telegram \subseteq Users /\ MaxTurns \in Nat

VARIABLES
  pc,        \* what each session's turn is doing
  turn,      \* number of the session's turn
  disk,      \* the files: a function from the existing file names to their lines
  copy,      \* the bytes of the old file read by the migration
  seen,      \* what Load read for the turn, while it thinks; lines of role "none" it skips
  said,      \* messages appended without error since the last /new, and before the
             \* first one those of the old file
  cleared,   \* the turn of the last Clear that returned nil
  damaged,   \* whether the copy was cut off since then, by a failure or a crash
  cut,       \* the turns since then whose Append was cut off in a line
  long       \* whether the new file has a line too long for the scanner's buffer

vars == <<pc, turn, disk, copy, seen, said, cleared, damaged, cut, long>>

\* sessions/{platform}_{userID}.jsonl and Telegram's former {userID}.jsonl.
New(u) == <<u, "new">>
Old(u) == <<u, "old">>

Line(u, role, ended) == [turn |-> turn[u], role |-> role, ended |-> ended]
Message(line) == [turn |-> line.turn, role |-> line.role]
Messages(lines) == [i \in DOMAIN lines |-> Message(lines[i])]

Put(f, lines) == [g \in DOMAIN disk \cup {f} |-> IF g = f THEN lines ELSE disk[g]]
LinesOf(f) == IF f \in DOMAIN disk THEN disk[f] ELSE <<>>
Without(f) == Restrict(disk, DOMAIN disk \ {f})

CutOff(lines) == lines # <<>> /\ ~Last(lines).ended

\* What cannot be parsed has no role.
RunOn(lines, line) ==
  IF CutOff(lines)
  THEN Append([lines EXCEPT ![Len(lines)].role = "none"], [line EXCEPT !.role = "none"])
  ELSE Append(lines, line)

Extend(f, line) == Put(f, RunOn(LinesOf(f), line))

Write(u, line) ==
  /\ disk' = Extend(New(u), line)
  /\ long' \in {long, [long EXCEPT ![u] = TRUE]}

\* What a write of these lines that is cut off leaves: some of them, and of the
\* next one all but its newline, or too little to be parsed.
CutOffs(lines) ==
  {SubSeq(lines, 1, n) : n \in 0..Len(lines)} \cup
  UNION {{Append(SubSeq(lines, 1, n - 1), [lines[n] EXCEPT !.role = role, !.ended = FALSE]) :
            role \in {lines[n].role, "none"}} : n \in DOMAIN lines}

\* One exchange from before the migration, numbered 0.
OldLines ==
  <<[turn |-> 0, role |-> "user", ended |-> TRUE],
    [turn |-> 0, role |-> "assistant", ended |-> TRUE]>>

Init ==
  /\ pc = [u \in Users |-> "idle"]
  /\ turn = [u \in Users |-> 0]
  /\ disk = [f \in {Old(u) : u \in Legacy} |-> OldLines]
  /\ copy = [u \in Users |-> <<>>]
  /\ seen = [u \in Users |-> <<>>]
  /\ said = [u \in Users |-> IF u \in Legacy THEN Messages(OldLines) ELSE <<>>]
  /\ cleared = [u \in Users |-> 0]
  /\ damaged = [u \in Users |-> FALSE]
  /\ cut = [u \in Users |-> {}]
  /\ long = [u \in Users |-> FALSE]

Goto(u, from, to) ==
  /\ pc[u] = from
  /\ pc' = [pc EXCEPT ![u] = to]

-----------------------------------------------------------------------------
(* Load.                                                                   *)

\* The file Load opens: the new one, else for Telegram the old one.
Source(u) == IF New(u) \in DOMAIN disk \/ u \notin Telegram THEN New(u) ELSE Old(u)

\* A line beyond the scanner's buffer makes Load return an error and no
\* history, which the agent ignores.
Unreadable(u) == Source(u) = New(u) /\ long[u]
Loaded(u) == IF Unreadable(u) THEN <<>> ELSE LinesOf(Source(u))

Load(u) ==
  /\ turn[u] < MaxTurns
  /\ Goto(u, "idle", "thinking")
  /\ turn' = [turn EXCEPT ![u] = @ + 1]
  /\ seen' = [seen EXCEPT ![u] = Messages(Loaded(u))]
  /\ UNCHANGED <<disk, copy, said, cleared, damaged, cut, long>>

\* Turns that fail or are about an approval append nothing.
TurnEndsSilently(u) ==
  /\ Goto(u, "thinking", "idle")
  /\ seen' = [seen EXCEPT ![u] = <<>>]
  /\ UNCHANGED <<turn, disk, copy, said, cleared, damaged, cut, long>>

-----------------------------------------------------------------------------
(* Append.                                                                 *)

MustMigrate(u) == u \in Telegram /\ New(u) \notin DOMAIN disk /\ Old(u) \in DOMAIN disk

AppendUnmigrated(u) ==
  /\ Goto(u, "thinking", "user")
  /\ UNCHANGED <<turn, disk, copy, seen, said, cleared, damaged, cut, long>>

\* Stat of the new file and ReadFile of the old one.
AppendStarts(u) ==
  /\ Goto(u, "thinking", IF MustMigrate(u) THEN "create" ELSE "user")
  /\ copy' = [copy EXCEPT ![u] = LinesOf(Old(u))]
  /\ seen' = [seen EXCEPT ![u] = <<>>]
  /\ UNCHANGED <<turn, disk, said, cleared, damaged, cut, long>>

\* WriteFile creates the file and then writes it; its error is ignored.
CopyCreates(u) ==
  /\ Goto(u, "create", "copy")
  /\ disk' = Put(New(u), <<>>)
  /\ UNCHANGED <<turn, copy, seen, said, cleared, damaged, cut, long>>

CopyWrites(u) ==
  /\ Goto(u, "copy", "remove")
  /\ disk' = Put(New(u), copy[u])
  /\ UNCHANGED <<turn, copy, seen, said, cleared, damaged, cut, long>>

CopyFails(u) ==
  /\ \/ Goto(u, "create", "remove") /\ UNCHANGED disk
     \/ /\ Goto(u, "copy", "remove")
        /\ \E lines \in CutOffs(copy[u]) : disk' = Put(New(u), lines)
  /\ damaged' = [damaged EXCEPT ![u] = TRUE]
  /\ UNCHANGED <<turn, copy, seen, said, cleared, cut, long>>

\* Remove of the old file, whether or not it was copied; its error is ignored.
RemoveOld(u) ==
  /\ Goto(u, "remove", "user")
  /\ disk' = Without(Old(u)) \/ disk' = disk
  /\ UNCHANGED <<turn, copy, seen, said, cleared, damaged, cut, long>>

EncodeUserAnyway(u) ==
  /\ Goto(u, "user", "assistant")
  /\ Write(u, Line(u, "user", TRUE)) \/ UNCHANGED <<disk, long>>
  /\ UNCHANGED <<turn, copy, seen, said, cleared, damaged, cut>>

\* OpenFile and the first Encode.
EncodeUser(u) ==
  /\ Goto(u, "user", "assistant")
  /\ Write(u, Line(u, "user", TRUE))
  /\ UNCHANGED <<turn, copy, seen, said, cleared, damaged, cut>>

EncodeAssistantMisnamed(u) ==
  /\ Goto(u, "assistant", "idle")
  /\ Write(u, Line(u, "model", TRUE))
  /\ UNCHANGED <<turn, copy, seen, said, cleared, damaged, cut>>

EncodeAssistant(u) ==
  /\ Goto(u, "assistant", "idle")
  /\ Write(u, Line(u, "assistant", TRUE))
  /\ said' = [said EXCEPT ![u] = @ \o <<[turn |-> turn[u], role |-> "user"],
                                       [turn |-> turn[u], role |-> "assistant"]>>]
  /\ UNCHANGED <<turn, copy, seen, cleared, damaged, cut>>

\* Append returns the error of OpenFile or Encode, which the agent ignores; the
\* file may have been created, and may end with a piece of the line.
EncodeFails(u) ==
  /\ \E role \in {"user", "assistant"} :
       /\ Goto(u, role, "idle")
       /\ \/ /\ disk' \in {disk, Put(New(u), LinesOf(New(u)))}
             /\ UNCHANGED <<cut, long>>
          \/ /\ \E read \in {role, "none"} : Write(u, Line(u, read, FALSE))
             /\ cut' = [cut EXCEPT ![u] = @ \cup {turn[u]}]
  /\ UNCHANGED <<turn, copy, seen, said, cleared, damaged>>

-----------------------------------------------------------------------------
(* Clear, on the message "/new".                                           *)

Cleared(u) ==
  /\ cleared' = [cleared EXCEPT ![u] = turn[u] + 1]
  /\ said' = [said EXCEPT ![u] = <<>>]
  /\ damaged' = [damaged EXCEPT ![u] = FALSE]
  /\ cut' = [cut EXCEPT ![u] = {}]

ClearsNothing(u) ==
  /\ turn[u] < MaxTurns
  /\ turn' = [turn EXCEPT ![u] = @ + 1]
  /\ Goto(u, "idle", IF u \in Telegram THEN "clear" ELSE "idle")
  /\ Cleared(u)
  /\ UNCHANGED <<disk, copy, seen, long>>

\* Remove of the new file; when there is none, Clear returns nil at once.
Clear(u) ==
  /\ turn[u] < MaxTurns
  /\ turn' = [turn EXCEPT ![u] = @ + 1]
  /\ Goto(u, "idle", IF u \in Telegram /\ New(u) \in DOMAIN disk THEN "clear" ELSE "idle")
  /\ disk' = Without(New(u))
  /\ long' = [long EXCEPT ![u] = FALSE]
  /\ Cleared(u)
  /\ UNCHANGED <<copy, seen>>

\* Remove fails: the agent ignores the error, and nothing was cleared.
ClearFails(u) ==
  /\ turn[u] < MaxTurns
  /\ New(u) \in DOMAIN disk
  /\ Goto(u, "idle", "idle")
  /\ turn' = [turn EXCEPT ![u] = @ + 1]
  /\ UNCHANGED <<disk, copy, seen, said, cleared, damaged, cut, long>>

ClearOld(u) ==
  /\ Goto(u, "clear", "idle")
  /\ disk' = Without(Old(u)) \/ disk' = disk
  /\ UNCHANGED <<turn, copy, seen, said, cleared, damaged, cut, long>>

-----------------------------------------------------------------------------
\* The process dies and starts again; if it dies in the middle of a write, that write
\* is one of EncodeFails or CopyFails before.
Crash ==
  /\ pc' = [u \in Users |-> "idle"]
  /\ damaged' = [u \in Users |-> damaged[u] \/ pc[u] = "copy"]
  /\ seen' = [u \in Users |-> <<>>]
  /\ UNCHANGED <<turn, disk, copy, said, cleared, cut, long>>

AppendExchange(u) ==
  AppendStarts(u) \/ CopyCreates(u) \/ CopyWrites(u) \/ CopyFails(u) \/ RemoveOld(u)
    \/ EncodeUser(u) \/ EncodeAssistant(u) \/ EncodeFails(u)

Next ==
  \/ \E u \in Users : Load(u) \/ TurnEndsSilently(u) \/ AppendExchange(u)
                      \/ Clear(u) \/ ClearFails(u) \/ ClearOld(u)
  \/ Crash

Spec == Init /\ [][Next]_vars

-----------------------------------------------------------------------------
Entries == [turn : Nat, role : {"user", "assistant", "none"}]
Lines == [turn : Nat, role : {"user", "assistant", "none"}, ended : BOOLEAN]

TypeOK ==
  /\ pc \in [Users -> {"idle", "thinking", "create", "copy", "remove", "user", "assistant", "clear"}]
  /\ DOMAIN disk \subseteq Users \X {"new", "old"}
  /\ \A f \in DOMAIN disk : disk[f] \in Seq(Lines)
  /\ \A u \in Users : copy[u] \in Seq(Lines) /\ {seen[u], said[u]} \subseteq Seq(Entries)
  /\ turn \in [Users -> Nat] /\ cleared \in [Users -> Nat] /\ damaged \in [Users -> BOOLEAN]
  /\ cut \in [Users -> SUBSET Nat] /\ long \in [Users -> BOOLEAN]

\* A transcript never holds an answer without the question it answers right
\* before it, readable unless it ran on from a line that was cut off: then Load
\* skips it and the answer stands behind an earlier exchange.  Crashes and other
\* failed writes can only leave questions unanswered.
WholeExchanges ==
  \A f \in DOMAIN disk : \A i \in DOMAIN disk[f] :
    disk[f][i].role = "assistant" =>
      /\ i > 1 /\ disk[f][i - 1].turn = disk[f][i].turn
      /\ disk[f][i - 1].role = "user" \/ (i > 2 /\ ~disk[f][i - 2].ended)

\* What of part is in whole is there once and in the order of part.
InOrder(part, whole) ==
  \A i, j \in DOMAIN whole : i < j /\ {whole[i], whole[j]} \subseteq ToSet(part) =>
    \E p, q \in DOMAIN part : p < q /\ part[p] = whole[i] /\ part[q] = whole[j]

\* A question that may have run on from a line cut off in an earlier turn: of no
\* turn between the two is there an acknowledged exchange.
MayRunOn(u, m) ==
  /\ m.role = "user"
  /\ \E c \in cut[u] :
       c < m.turn /\ ~\E n \in ToSet(said[u]) : c < n.turn /\ n.turn < m.turn

\* Nothing that was appended since the last /new is missing from, or out of order
\* in, what the next turn loads: not after a migration, a crash or a failed write,
\* unless the copy itself was cut off or a line is too long to be read.  A line
\* that is cut off takes with it at most the next acknowledged question, and no
\* acknowledged answer.
NothingLost ==
  \A u \in Users :
    pc[u] = "thinking" /\ ~damaged[u] =>
      \/ /\ \A m \in ToSet(said[u]) : m \in ToSet(seen[u]) \/ MayRunOn(u, m)
         /\ InOrder(said[u], seen[u])
      \/ seen[u] = <<>> /\ Unreadable(u)

\* What a session appended before a successful /new never comes back.  Lines of
\* the old file may.
RecordedStaysCleared ==
  \A u \in Users : \A i \in DOMAIN seen[u] :
    pc[u] = "thinking" /\ seen[u][i].turn > 0 => seen[u][i].turn > cleared[u]

=============================================================================
