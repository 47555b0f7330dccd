---------------------------------- MODULE Cron ----------------------------------
(***************************************************************************)
(* The times at which the inspector and inspecUrl plugins run a task       *)
(* (check_cron, utils/bdstring.cpp).  A cron has a minute, an hour, a set  *)
(* of days of the month, a month and a set of days of the week; the sets   *)
(* are numbers, whose lowest bit stands for the first day.                 *)
(***************************************************************************)
EXTENDS Integers

Every == -1    \* "*"

\* The broken-down time with the fields of struct tm: tm_mon from 0, tm_wday from 0
\* for Sunday.
Times == [tm_min : 0 .. 59, tm_hour : 0 .. 23, tm_mday : 1 .. 31, tm_mon : 0 .. 11,
          tm_wday : 0 .. 6]

Weekday(now) == IF now.tm_wday = 0 THEN 7 ELSE now.tm_wday

\* set >> n - 1 % 2 == 0: the remainder is taken of 1, so that all bits from the n-th
\* on are tested.
Shifted(set, n) == set \div 2 ^ (n - 1) # 0

check_cron(cron, now) ==
  /\ cron.week = Every \/ Shifted(cron.week, Weekday(now))
  /\ cron.mon = Every \/ cron.mon = now.tm_mon + 1
  /\ cron.mday = Every \/ Shifted(cron.mday, now.tm_mday)
  /\ cron.hour = Every \/ cron.hour = now.tm_hour
  /\ cron.min = Every \/ cron.min = now.tm_min

\* The days that a set lists.
Listed(set, n) == (set \div 2 ^ (n - 1)) % 2 = 1

OnItsDays(cron, now) ==
  /\ cron.week = Every \/ Listed(cron.week, Weekday(now))
  /\ cron.mday = Every \/ Listed(cron.mday, now.tm_mday)
=============================================================================
