---------------------------- MODULE MCReminders ----------------------------
(* A user of Telegram and one of HTTP; schedules with and without seconds, *)
(* and a message whose line exceeds 64 KB.                                 *)
EXTENDS Reminders

CONSTANTS tg, web

plain == [minutes |-> {1}, whole |-> TRUE, long |-> FALSE]
withSeconds == [minutes |-> {1}, whole |-> FALSE, long |-> FALSE]
huge == [minutes |-> {1}, whole |-> TRUE, long |-> TRUE]
later == [minutes |-> {2}, whole |-> TRUE, long |-> FALSE]
AllForms == {plain, later, withSeconds, huge}
PlainForms == {plain}
=============================================================================
