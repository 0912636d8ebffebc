----------------------------- MODULE Reminders -----------------------------
(***************************************************************************)
(* reminders/store.go, the tools that change it, reminders/cron.go and     *)
(* gateway/sender.go: reminders in a JSONL file behind an RWMutex, read    *)
(* once a minute by the cron, with a disk that may fail and a process that *)
(* may die in the middle of a rewrite.                                     *)
(*                                                                         *)
(* A reminder is named by its place among those ever added: Add takes the  *)
(* clock in nanoseconds while it holds the lock, so ids differ.  Its form  *)
(* is what the schedule and the length of the message make of it.          *)
(***************************************************************************)
EXTENDS Naturals, SequencesExt

CONSTANTS
  Users,          \* owners, each on a platform; the turns of one owner do not overlap
  Served,         \* those on a platform that registered a sender: not HTTP's
  Forms,          \* [minutes: minutes in which the schedule has an instant,
                  \*  whole: at second 0, long: line exceeds the scanner's buffer]
  MaxReminders,   \* bound on the reminders added
  MaxMinute,      \* bound on the clock
  MaxFaults,      \* bound on the writes that fail or are cut off
  Nobody

ASSUME RemindersAssumption ==
  /\ Nobody \notin Users /\ Served \subseteq Users
  /\ Forms \subseteq [minutes : SUBSET Nat, whole : BOOLEAN, long : BOOLEAN]
  /\ {MaxReminders, MaxMinute, MaxFaults} \subseteq Nat

VARIABLES
  rem,        \* the reminders ever added
  file,       \* reminders.jsonl: ids and, where a line is cut off, Torn
  writer,     \* who holds the write lock across several steps
  op,         \* what the delete of each user is doing
  target,     \* the id it was given
  kept,       \* the lines it still has to write
  deleted,    \* ids their owner was told are deleted
  promised,   \* ids whose owner was told they exist and did not delete them
  now,        \* the clock, in minutes
  fired,      \* the minute in which the cron last fired
  run,        \* what the run fired in each minute is doing
  at,         \* the minute it read from the clock
  list,       \* what is left of the list it read
  looked,     \* the list it read
  due,        \* promised when it fired
  gone,       \* deleted when it fired
  sent,       \* what the runs handed to a sender: the reminder, the minute it was
              \* due in, that of the call, the run and the place in its list
  faults      \* failed or cut off writes

user == <<op, target, kept>>
cron == <<fired, run, at, list, looked, due, gone, sent>>
vars == <<rem, file, writer, user, deleted, promised, now, cron, faults>>

Torn == 0
Runs == 1..MaxMinute
Ids == DOMAIN rem

Init ==
  /\ rem = <<>> /\ file = <<>> /\ writer = Nobody
  /\ op = [u \in Users |-> "idle"] /\ target = [u \in Users |-> 0]
  /\ kept = [u \in Users |-> <<>>]
  /\ deleted = {} /\ promised = {}
  /\ now = 0 /\ fired = 0
  /\ run = [r \in Runs |-> "none"] /\ at = [r \in Runs |-> 0]
  /\ list = [r \in Runs |-> <<>>] /\ looked = [r \in Runs |-> {}]
  /\ due = [r \in Runs |-> {}] /\ gone = [r \in Runs |-> {}]
  /\ sent = {} /\ faults = 0

-----------------------------------------------------------------------------
(* The file.                                                               *)

CutOff(lines) == lines # <<>> /\ Last(lines) = Torn

\* A line written after one that was cut off completes it to a line that is no
\* JSON, which every reader skips.
Extend(lines, l) ==
  IF ~CutOff(lines) THEN Append(lines, l)
  ELSE IF l = Torn THEN lines ELSE Front(lines)

\* The lines that are in S, in their order.
Select(lines, S) ==
  LET places == {i \in DOMAIN lines : lines[i] \in S}
      Place(n) == CHOOSE i \in places : Cardinality({j \in places : j <= i}) = n
  IN [n \in 1..Cardinality(places) |-> lines[Place(n)]]

Readable(lines) == Select(lines, ToSet(lines) \ {Torn})

\* bufio.Scanner stops with an error at a line beyond 64 KB.
Overlong(lines) == \E i \in DOMAIN lines : lines[i] # Torn /\ rem[lines[i]].form.long

Lock == writer = Nobody

FaultOccurs == faults < MaxFaults /\ faults' = faults + 1

-----------------------------------------------------------------------------
(* create_scheduled_reminder: Add.                                         *)

CreateUnlocked(u, form) ==
  /\ op[u] = "idle" /\ Len(rem) < MaxReminders
  /\ rem' = Append(rem, [user |-> u, form |-> form])
  /\ file' = Extend(file, Len(rem'))
  /\ promised' = promised \cup {Len(rem')}
  /\ UNCHANGED <<writer, user, deleted, now, cron, faults>>

Create(u, form) ==
  /\ op[u] = "idle" /\ Lock /\ Len(rem) < MaxReminders
  /\ rem' = Append(rem, [user |-> u, form |-> form])
  /\ file' = Extend(file, Len(rem'))
  /\ promised' = promised \cup {Len(rem')}
  /\ UNCHANGED <<writer, user, deleted, now, cron, faults>>

\* Encode fails halfway, or the process dies there.
CreateTorn(u) ==
  /\ op[u] = "idle" /\ Lock /\ FaultOccurs
  /\ file' = Extend(file, Torn)
  /\ UNCHANGED <<rem, writer, user, deleted, promised, now, cron>>

-----------------------------------------------------------------------------
(* delete_reminder: Delete, with the caller's platform and user filled in. *)

Goto(u, from, to) ==
  /\ op[u] = from
  /\ op' = [op EXCEPT ![u] = to]

Owns(u, id) == rem[id].user = u

DeleteStarts(u, id) ==
  /\ Goto(u, "idle", "lock")
  /\ target' = [target EXCEPT ![u] = id]
  /\ promised' = IF Owns(u, id) THEN promised \ {id} ELSE promised
  /\ UNCHANGED <<rem, file, writer, kept, deleted, now, cron, faults>>

\* "Reminder deleted." is also the answer about a reminder of somebody else.
Told(u) == deleted' = IF Owns(u, target[u]) THEN deleted \cup {target[u]} ELSE deleted

Forgets(u) == target' = [target EXCEPT ![u] = 0]

Keeps(u) == Select(file, {l \in ToSet(file) \ {Torn} : l = target[u] => ~Owns(u, l)})

DeleteReadsUnlocked(u) ==
  /\ ~Overlong(file)
  /\ target[u] \in ToSet(file)
  /\ Goto(u, "lock", "create")
  /\ writer' = u
  /\ kept' = [kept EXCEPT ![u] = Keeps(u)]
  /\ UNCHANGED <<rem, file, target, deleted, promised, now, cron, faults>>

DeleteReads(u) ==
  /\ Lock /\ ~Overlong(file)
  /\ target[u] \in ToSet(file)
  /\ Goto(u, "lock", "create")
  /\ writer' = u
  /\ kept' = [kept EXCEPT ![u] = Keeps(u)]
  /\ UNCHANGED <<rem, file, target, deleted, promised, now, cron, faults>>

DeleteFindsNothingLocked(u) ==
  /\ Lock /\ ~Overlong(file)
  /\ target[u] \notin ToSet(file)
  /\ Goto(u, "lock", "idle")
  /\ Told(u) /\ Forgets(u)
  /\ writer' = u
  /\ UNCHANGED <<rem, file, kept, promised, now, cron, faults>>

DeleteFindsNothing(u) ==
  /\ Lock /\ ~Overlong(file)
  /\ target[u] \notin ToSet(file)
  /\ Goto(u, "lock", "idle")
  /\ Told(u) /\ Forgets(u)
  /\ UNCHANGED <<rem, file, writer, kept, promised, now, cron, faults>>

\* The user is told of the error: the scanner's, or that of os.Create.
DeleteFails(u) ==
  /\ \/ Lock /\ Overlong(file) /\ Goto(u, "lock", "idle") /\ UNCHANGED <<writer, kept>>
     \/ /\ Goto(u, "create", "idle")
        /\ writer' = Nobody
        /\ kept' = [kept EXCEPT ![u] = <<>>]
  /\ Forgets(u)
  /\ UNCHANGED <<rem, file, deleted, promised, now, cron, faults>>

DeleteTruncatesNot(u) ==
  /\ Goto(u, "create", "write")
  /\ UNCHANGED <<rem, file, writer, target, kept, deleted, promised, now, cron, faults>>

\* os.Create empties the file.
DeleteTruncates(u) ==
  /\ Goto(u, "create", "write")
  /\ file' = <<>>
  /\ UNCHANGED <<rem, writer, target, kept, deleted, promised, now, cron, faults>>

DeleteWrites(u) ==
  /\ op[u] = "write" /\ kept[u] # <<>>
  /\ file' = Extend(file, Head(kept[u]))
  /\ kept' = [kept EXCEPT ![u] = Tail(@)]
  /\ UNCHANGED <<rem, writer, op, target, deleted, promised, now, cron, faults>>

\* The error of Encode is ignored.
DeleteWriteFails(u) ==
  /\ op[u] = "write" /\ kept[u] # <<>> /\ FaultOccurs
  /\ file' \in {file, Extend(file, Torn)}
  /\ kept' = [kept EXCEPT ![u] = Tail(@)]
  /\ UNCHANGED <<rem, writer, op, target, deleted, promised, now, cron>>

DeleteCloses(u) ==
  /\ kept[u] = <<>>
  /\ Goto(u, "write", "idle")
  /\ writer' = Nobody
  /\ Told(u) /\ Forgets(u)
  /\ UNCHANGED <<rem, file, kept, promised, now, cron, faults>>

-----------------------------------------------------------------------------
(* The cron.                                                               *)

Tick ==
  /\ now < MaxMinute
  /\ now' = now + 1
  /\ UNCHANGED <<rem, file, writer, user, deleted, promised, cron, faults>>

\* "@every 1m": a goroutine at most once a minute; a late timer skips minutes.
Fire ==
  /\ fired < now
  /\ fired' = now
  /\ run' = [run EXCEPT ![now] = "list"]
  /\ due' = [due EXCEPT ![now] = promised]
  /\ gone' = [gone EXCEPT ![now] = deleted]
  /\ UNCHANGED <<rem, file, writer, user, deleted, promised, now, at, list, looked, sent, faults>>

Step(r, from, to) ==
  /\ run[r] = from
  /\ run' = [run EXCEPT ![r] = to]

RunListsUnlocked(r) ==
  /\ ~Overlong(file)
  /\ Step(r, "list", "clock")
  /\ list' = [list EXCEPT ![r] = Readable(file)]
  /\ looked' = [looked EXCEPT ![r] = ToSet(Readable(file))]
  /\ UNCHANGED <<rem, file, writer, user, deleted, promised, now, fired, at, due, gone, sent, faults>>

\* List, under the read lock.
RunLists(r) ==
  /\ Lock /\ ~Overlong(file)
  /\ Step(r, "list", "clock")
  /\ list' = [list EXCEPT ![r] = Readable(file)]
  /\ looked' = [looked EXCEPT ![r] = ToSet(Readable(file))]
  /\ UNCHANGED <<rem, file, writer, user, deleted, promised, now, fired, at, due, gone, sent, faults>>

RunListFails(r) ==
  /\ Lock /\ Overlong(file)
  /\ Step(r, "list", "failed")
  /\ UNCHANGED <<rem, file, writer, user, deleted, promised, now, fired, at, list, looked, due, gone,
                 sent, faults>>

\* time.Now, truncated to the minute.
RunReadsClock(r) ==
  /\ Step(r, "clock", "send")
  /\ at' = [at EXCEPT ![r] = now]
  /\ UNCHANGED <<rem, file, writer, user, deleted, promised, now, fired, list, looked, due, gone, sent,
                 faults>>

\* The schedule's next instant after one second before the minute is the
\* minute itself.
DueAt(form, m) == m \in form.minutes /\ form.whole

\* SenderRegistry.Send returns nil at once for a platform without a sender.
ToSend(r, id) == DueAt(rem[id].form, at[r]) /\ rem[id].user \in Served

\* The next reminder: skipped, or handed to its platform's sender.
RunHandlesNext(r) ==
  /\ run[r] = "send" /\ list[r] # <<>>
  /\ list' = [list EXCEPT ![r] = Tail(@)]
  /\ \/ /\ ~ToSend(r, Head(list[r]))
        /\ UNCHANGED <<run, sent>>
     \/ /\ ToSend(r, Head(list[r]))
        /\ run' = [run EXCEPT ![r] = "sending"]
        /\ sent' = sent \cup {[id |-> Head(list[r]), for |-> at[r], minute |-> now, run |-> r,
                               place |-> Len(list[r])]}
  /\ UNCHANGED <<rem, file, writer, user, deleted, promised, now, fired, at, looked, due, gone, faults>>

\* The sender is done, or failed, which is only logged: nothing is sent again.
RunSendReturns(r) ==
  /\ Step(r, "sending", "send")
  /\ UNCHANGED <<rem, file, writer, user, deleted, promised, now, fired, at, list, looked, due, gone,
                 sent, faults>>

RunEnds(r) ==
  /\ list[r] = <<>>
  /\ Step(r, "send", "done")
  /\ UNCHANGED <<rem, file, writer, user, deleted, promised, now, fired, at, list, looked, due, gone,
                 sent, faults>>

-----------------------------------------------------------------------------
\* The process dies and starts again; the next run is due a minute later.
Crash ==
  /\ IF \E u \in Users : op[u] = "write" THEN FaultOccurs ELSE UNCHANGED faults
  /\ op' = [u \in Users |-> "idle"] /\ kept' = [u \in Users |-> <<>>]
  /\ target' = [u \in Users |-> 0] /\ writer' = Nobody
  /\ fired' = now
  /\ run' = [r \in Runs |-> IF run[r] = "none" THEN "none"
                            ELSE IF run[r] = "done" THEN "done" ELSE "failed"]
  /\ list' = [r \in Runs |-> <<>>]
  /\ UNCHANGED <<rem, file, deleted, promised, now, at, looked, due, gone, sent>>

Deleting(u) ==
  \/ \E id \in Ids : DeleteStarts(u, id)
  \/ DeleteReads(u) \/ DeleteFindsNothing(u) \/ DeleteFails(u)
  \/ DeleteTruncates(u) \/ DeleteWrites(u) \/ DeleteWriteFails(u) \/ DeleteCloses(u)

UserStep(u) == (\E form \in Forms : Create(u, form)) \/ CreateTorn(u) \/ Deleting(u)

RunStep(r) ==
  \/ RunLists(r) \/ RunListFails(r) \/ RunReadsClock(r)
  \/ RunHandlesNext(r) \/ RunSendReturns(r) \/ RunEnds(r)

Next ==
  \/ \E u \in Users : UserStep(u)
  \/ \E r \in Runs : RunStep(r)
  \/ Tick \/ Fire \/ Crash

Spec == Init /\ [][Next]_vars

\* Goroutines are scheduled and Go's mutexes starve nobody.  A sender may hang:
\* nothing is assumed of RunSendReturns.
FairSpec ==
  /\ Spec
  /\ \A u \in Users :
       /\ SF_vars(DeleteReads(u) \/ DeleteFindsNothing(u) \/ DeleteFails(u))
       /\ WF_vars(DeleteTruncates(u) \/ DeleteFails(u))
       /\ WF_vars(DeleteWrites(u) \/ DeleteWriteFails(u)) /\ WF_vars(DeleteCloses(u))
  /\ \A r \in Runs : SF_vars(RunLists(r) \/ RunListFails(r))

-----------------------------------------------------------------------------
\* Readers never see a half-written file, and a reminder only disappears with its
\* owner's delete or with a fault: the store implements the atomic book.  While a
\* delete rewrites the file, the book is what will be in it, without the line that a
\* cut-off one before it is going to swallow.
ToCome(u) ==
  IF op[u] = "write" THEN {kept[u][i] : i \in DOMAIN kept[u] \ (IF CutOff(file) THEN {1} ELSE {})}
  ELSE {}

Book == ToSet(Readable(file)) \cup IF writer = Nobody THEN {} ELSE ToCome(writer)

Atomic == INSTANCE ReminderBook WITH book <- Book
ImplementsBook == Atomic!BookSpec

\* A reminder whose creation was acknowledged, and which its owner has not begun
\* to delete, is handed to the sender of its owner's platform, if there is one, in
\* every minute in which it is due and the cron ran in time, whatever other users
\* delete meanwhile and however slow the senders of the reminders before it are.
PromisedIsSent ==
  \A r \in Runs :
    run[r] = "done" /\ at[r] = r /\ faults = 0 =>
      \A id \in due[r] \cap promised :
        DueAt(rem[id].form, r) /\ rem[id].user \in Served => \E s \in sent : s.id = id /\ s.run = r

\* Once its owner has been told that it is deleted, no later run sends a
\* reminder, even if deletes of others and failures come between.
DeletedStaysQuiet == \A s \in sent : s.id \notin gone[s.run]

\* A run never sends a reminder twice, however often the file it read had been
\* rewritten; a reminder never comes before a minute its schedule names, nor from a
\* run that fired after that minute.  It may come later, behind a slow sender, and
\* twice for one minute: from the run of that minute and from a late one before it.
SentAsScheduled ==
  \A s \in sent :
    /\ \A t \in sent : s.id = t.id /\ s.run = t.run => s = t
    /\ s.for \in rem[s.id].form.minutes
    /\ s.run <= s.for /\ s.for <= s.minute

\* No delete waits for ever, though a sender may hang and other users keep
\* deleting.
DeletesEnd == \A u \in Users : op[u] # "idle" ~> op[u] = "idle"
=============================================================================
