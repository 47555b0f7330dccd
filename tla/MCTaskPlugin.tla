------------------------------ MODULE MCTaskPlugin ------------------------------
(* Small instances of TaskPlugin for TLC. *)
EXTENDS TaskPlugin

\* On Mondays; at midnight of the 1st, if that is a Monday or a Sunday.
CronOf(min, mday, week) ==
  [min |-> min, hour |-> 0, mday |-> mday, mon |-> 1, week |-> week]
MCCrons == {CronOf(Every, Every, 1), CronOf(0, 1, 65)}

\* On Saturdays.
MCSaturdays == {CronOf(Every, Every, 32)}
=============================================================================
