---------------------------- MODULE ReminderBook ----------------------------
(***************************************************************************)
(* What the reminder store promises to tools and cron: a book that is read *)
(* and changed in one step.  A reminder leaves the book when its owner     *)
(* deletes it, and otherwise only when the disk or the process fails.      *)
(***************************************************************************)
EXTENDS Naturals, Sequences

CONSTANTS Users, Forms, Runs

VARIABLES
  rem,      \* what was ever added; a reminder's id is its place here
  book,     \* ids of the reminders in the book
  looked,   \* what each run of the cron saw, or {} before it looks
  faults    \* failures of the disk or the process while the book was written

bookVars == <<rem, book, looked, faults>>

BookInit ==
  /\ rem = <<>>
  /\ book = {}
  /\ looked = [r \in Runs |-> {}]
  /\ faults = 0

\* A reminder that is added is in the book; after a fault it may be lost even so.
Enter ==
  /\ \E u \in Users, f \in Forms : rem' = Append(rem, [user |-> u, form |-> f])
  /\ \/ book' = book \cup {Len(rem')}
     \/ faults > 0 /\ book' = book
  /\ UNCHANGED <<looked, faults>>

Strike ==
  /\ \E u \in Users, id \in book : rem[id].user = u /\ book' = book \ {id}
  /\ UNCHANGED <<rem, looked, faults>>

Look ==
  /\ \E r \in Runs : looked' = [looked EXCEPT ![r] = book]
  /\ UNCHANGED <<rem, book, faults>>

Fault ==
  /\ faults' = faults + 1
  /\ book' \in SUBSET book
  /\ UNCHANGED <<rem, looked>>

BookNext == Enter \/ Strike \/ Look \/ Fault

BookSpec == BookInit /\ [][BookNext]_bookVars
=============================================================================
