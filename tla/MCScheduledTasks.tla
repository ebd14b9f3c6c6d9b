---------------------------- MODULE MCScheduledTasks ----------------------------
(* Schedules at the ends of months and years for TLC *)
EXTENDS ScheduledTasks

S(type, hour, weekday, day, month) ==
  [type |-> type, interval |-> 1, hour |-> hour, weekday |-> weekday,
   day |-> day, month |-> month]

\* Every type, in the morning or in an evening that is the next day in UTC
MCSchedule == {
  S("hourly", 0, 0, 1, 1), S("daily", 1, 0, 1, 1), S("weekly", 2, 1, 1, 1),
  S("monthly", 1, 0, 1, 1), S("monthly", 2, 0, 31, 1), S("yearly", 1, 0, 31, 12),
  S("yearly", 0, 0, 29, 2)}

\* 30 December 2023, 30 January 2024, 28 February 2024 and 29 June 2024
MCBeginning == {MonthStart(2023, 12) + 29, MonthStart(2024, 1) + 29, MonthStart(2024, 2) + 27,
                MonthStart(2024, 6) + 28}
=============================================================================
