----------------------------- MODULE ScheduledTasks -----------------------------
(***************************************************************************)
(* A scheduled task of the task scheduler: its configuration in a          *)
(* tasks.py, its row, and the CronJob that runs sync_tasks and then        *)
(* run_tasks (models/scheduled_task.py, service/scheduled_task/sync.py,    *)
(* service/task_service.py).                                               *)
(*                                                                         *)
(* Time is counted in slots of a day in the time zone of the tasks; UTC is *)
(* Offset slots ahead.  Dates are Gregorian.  Summer time is left out.     *)
(* Jobs do not overlap and are shorter than a slot.                        *)
(***************************************************************************)
EXTENDS Integers, FiniteSets

CONSTANTS
  Schedule,             \* what the task may be configured with
  Beginning,            \* days on which the model may begin
  Slots,                \* slots of a day
  Offset,               \* slots that UTC is ahead
  FirstYear, LastYear,  \* bound: the calendar
  FirstWeekday,         \* of the first day of the calendar; 0 is Monday
  MaxSlots,             \* bound: slots that pass
  MaxChanges,           \* bound: deployments that change the configuration
  MaxKills              \* bound: jobs that are killed

ScheduleType == {"hourly", "daily", "weekly", "monthly", "yearly"}

ASSUME ScheduleAssumption ==
  Schedule \subseteq [type : ScheduleType, interval : Nat, hour : 0..(Slots - 1),
                      weekday : 0..6, day : 1..31, month : 1..12]
ASSUME BoundsAssumption ==
  /\ Slots \in Nat \ {0} /\ Offset \in 0..Slots
  /\ FirstYear \in Nat /\ LastYear \in Nat /\ FirstWeekday \in 0..6
  /\ Beginning \subseteq Nat /\ Beginning # {}
  /\ MaxSlots \in Nat /\ MaxChanges \in Nat /\ MaxKills \in Nat

NotConfigured == [type |-> "none"]
Never == -1

VARIABLES
  now,
  begin,     \* the slot in which the model began
  config,    \* the task's entry in SCHEDULED_TASKS
  row,       \* its row: status, schedule, next_run_time
  job,       \* what the process-tasks job has done
  changes,
  kills,
  last       \* auxiliary: when the last run ended, unless what followed went wrong

vars == <<now, begin, config, row, job, changes, kills, last>>

Absent == [status |-> "absent", schedule |-> NotConfigured, next |-> Never]

-----------------------------------------------------------------------------
(* The calendar *)

Leap(y) == (y % 4 = 0 /\ y % 100 # 0) \/ y % 400 = 0
DaysIn(y, m) ==
  CASE m = 2 -> IF Leap(y) THEN 29 ELSE 28
    [] m \in {4, 6, 9, 11} -> 30
    [] OTHER -> 31

\* Days before a year and before a month of a year
YearStart(y) == 365 * (y - FirstYear) + Cardinality({x \in FirstYear..(y - 1) : Leap(x)})
MonthStart(y, m) ==
  YearStart(y) + <<0, 31, 59, 90, 120, 151, 181, 212, 243, 273, 304, 334, 365>>[m]
               + IF m > 2 /\ Leap(y) THEN 1 ELSE 0

\* The date of a slot
Date(t) ==
  LET n == t \div Slots
      y == CHOOSE x \in FirstYear..LastYear : YearStart(x) <= n /\ n < YearStart(x + 1)
      m == CHOOSE x \in 1..12 : MonthStart(y, x) <= n /\ n < MonthStart(y, x + 1)
  IN [year |-> y, month |-> m, day |-> n - MonthStart(y, m) + 1]

\* A slot of a date
At(y, m, d, hour) == (MonthStart(y, m) + d - 1) * Slots + hour

Today(t) == t \div Slots
Weekday(t) == (FirstWeekday + Today(t)) % 7

-----------------------------------------------------------------------------
(* The calculation of the next run; Never when it raises *)

\* Mutant: an occurrence of this very moment is still to come
Passed_Strict(s, t) == s < t

Passed(s, t) == s <= t

Daily(s, t) ==
  LET today == Today(t) * Slots + s.hour IN
  IF Passed(today, t) THEN today + Slots ELSE today

\* Mutant: always the weekday of next week
DaysAhead_NextWeek(s, t) == s.weekday - Weekday(t) + 7

DaysAhead(s, t) ==
  LET ahead == s.weekday - Weekday(t) IN IF ahead <= 0 THEN ahead + 7 ELSE ahead

Weekly(s, t) == (Today(t) + DaysAhead(s, t)) * Slots + s.hour

\* _create_fixed_time_schedule: the day is replaced in the present month, then
\* the month in the present year, then the year; each result must be a date.
Replaced(s, t, m, y) ==
  IF /\ s.day <= DaysIn(Date(t).year, Date(t).month)
     /\ s.day <= DaysIn(Date(t).year, m)
     /\ s.day <= DaysIn(y, m)
  THEN At(y, m, s.day, s.hour) ELSE Never

\* The month and year that the code calls the present ones are those of UTC.
Monthly(s, t) ==
  LET utc == Date(t + Offset)
      NextMonth(y, m) == IF m = 12 THEN <<y + 1, 1>> ELSE <<y, m + 1>>
      first == Replaced(s, t, utc.month, utc.year)
      next == NextMonth(utc.year, utc.month)
      tried == IF first # Never THEN first ELSE Replaced(s, t, next[2], next[1])
      after == NextMonth(Date(tried).year, Date(tried).month)
  IN CASE tried = Never -> Never
       [] tried # Never /\ ~Passed(tried, t) -> tried
       [] OTHER -> IF s.day <= DaysIn(after[1], after[2])
                   THEN At(after[1], after[2], s.day, s.hour) ELSE Never

Yearly(s, t) ==
  LET utc == Date(t + Offset)
      first == Replaced(s, t, s.month, utc.year)
      tried == IF first # Never THEN first ELSE Replaced(s, t, s.month, utc.year + 1)
      after == Date(tried).year + 1
  IN CASE tried = Never -> Never
       [] tried # Never /\ ~Passed(tried, t) -> tried
       [] OTHER -> IF s.day <= DaysIn(after, s.month)
                   THEN At(after, s.month, s.day, s.hour) ELSE Never

\* _calculate_fresh_time
FreshTime(s, t) ==
  CASE s.type = "hourly" -> t + s.interval
    [] s.type = "daily" -> Daily(s, t)
    [] s.type = "weekly" -> Weekly(s, t)
    [] s.type = "monthly" -> Monthly(s, t)
    [] s.type = "yearly" -> Yearly(s, t)

\* The slots that the model passes through, and what is calculated in them
\* (by the comparison TLC tabulates the function)
Slot == UNION {(d * Slots)..(d * Slots + MaxSlots) : d \in Beginning}
NextRunTime ==
  CHOOSE f \in {[x \in Schedule \X Slot |-> FreshTime(x[1], x[2])]} : f = f

\* The model ends a year before the calendar does.
ASSUME CalendarAssumption ==
  \A d \in Beginning : d * Slots + MaxSlots + Offset < YearStart(LastYear) * Slots

-----------------------------------------------------------------------------

Init ==
  /\ begin \in {d * Slots : d \in Beginning}
  /\ now = begin
  /\ config \in Schedule
  /\ row = Absent
  /\ job = "idle"
  /\ changes = 0
  /\ kills = 0
  /\ last = Never

\* A deployment
Configure(s) ==
  /\ changes < MaxChanges /\ s # config
  /\ config' = s
  /\ changes' = changes + 1
  /\ UNCHANGED <<now, begin, row, job, kills, last>>

(* sync_tasks *)

\* _create_new_task; an error is logged and the row is missing
CreateNewTask ==
  /\ job = "idle" /\ config # NotConfigured /\ row = Absent
  /\ \/ /\ NextRunTime[<<config, now>>] # Never
        /\ row' = [status |-> "pending", schedule |-> config, next |-> NextRunTime[<<config, now>>]]
     \/ /\ NextRunTime[<<config, now>>] = Never
        /\ row' = Absent
  /\ job' = "synced"
  /\ UNCHANGED <<now, begin, config, changes, kills, last>>

Activated(status) == IF status = "inactive" THEN "pending" ELSE status

\* _handle_existing_task
HandleExistingTask ==
  /\ job = "idle" /\ config # NotConfigured /\ row # Absent
  /\ \/ /\ row.schedule = config
        /\ row' = [row EXCEPT !.status = Activated(@)]
        /\ job' = "synced"
     \/ /\ row.schedule # config /\ NextRunTime[<<config, now>>] # Never
        /\ row' = [status |-> Activated(row.status), schedule |-> config,
                   next |-> NextRunTime[<<config, now>>]]
        /\ job' = "synced"
     \/ \* The error ends sync_tasks, and the shell does not start run_tasks.
        /\ row.schedule # config /\ NextRunTime[<<config, now>>] = Never
        /\ UNCHANGED <<row, job>>
  /\ UNCHANGED <<now, begin, config, changes, kills, last>>

\* _deactivate_removed_tasks
DeactivateRemovedTask ==
  /\ job = "idle" /\ config = NotConfigured
  /\ row' = IF row = Absent THEN row ELSE [row EXCEPT !.status = "inactive"]
  /\ job' = "synced"
  /\ UNCHANGED <<now, begin, config, changes, kills, last>>

(* run_tasks *)

\* Mutant: a task that failed is not due again
Due_NotFailed == row.status \in {"pending", "completed"} /\ row.next <= now

\* get_due_tasks
Due == row.status \in {"pending", "failed", "completed"} /\ row.next <= now

Start ==
  /\ job = "synced" /\ Due
  /\ row' = [row EXCEPT !.status = "running"]
  /\ job' = "running"
  /\ UNCHANGED <<now, begin, config, changes, kills, last>>

NothingDue ==
  /\ job = "synced" /\ ~Due
  /\ job' = "idle"
  /\ UNCHANGED <<now, begin, config, row, changes, kills, last>>

\* mark_attempt_success, mark_attempt_failed
Attempted(outcome) ==
  /\ job = "running"
  /\ row' = [row EXCEPT !.status = outcome]
  /\ job' = "attempted"
  /\ last' = now
  /\ UNCHANGED <<now, begin, config, changes, kills>>

\* The finally of process_task; an error leaves the old next_run_time.
Reschedule ==
  /\ job = "attempted"
  /\ \/ /\ NextRunTime[<<row.schedule, now>>] # Never
        /\ row' = [row EXCEPT !.next = NextRunTime[<<row.schedule, now>>]]
        /\ last' = last
     \/ /\ NextRunTime[<<row.schedule, now>>] = Never
        /\ row' = row
        /\ last' = Never
  /\ job' = "idle"
  /\ UNCHANGED <<now, begin, config, changes, kills>>

\* The deadline of the job, or its node goes down
Kill ==
  /\ job # "idle" /\ kills < MaxKills
  /\ job' = "idle"
  /\ kills' = kills + 1
  /\ last' = IF job = "attempted" THEN Never ELSE last
  /\ UNCHANGED <<now, begin, config, row, changes>>

Tick ==
  /\ job = "idle" /\ now < begin + MaxSlots
  /\ now' = now + 1
  /\ UNCHANGED <<begin, config, row, job, changes, kills, last>>

Job ==
  \/ CreateNewTask \/ HandleExistingTask \/ DeactivateRemovedTask
  \/ Start \/ NothingDue
  \/ \E outcome \in {"completed", "failed"} : Attempted(outcome)
  \/ Reschedule

Next ==
  \/ Job \/ Kill \/ Tick
  \/ \E s \in Schedule \cup {NotConfigured} : Configure(s)

Spec == Init /\ [][Next]_vars

\* The CronJob starts a job every five minutes.
FairSpec == Spec /\ WF_vars(Job)

-----------------------------------------------------------------------------
\* The shape of the state
TypeOK ==
  /\ begin \in {d * Slots : d \in Beginning}
  /\ now \in begin..(begin + MaxSlots)
  /\ config \in Schedule \cup {NotConfigured}
  /\ \/ row = Absent
     \/ row \in [status : {"pending", "running", "completed", "failed", "inactive"},
                 schedule : Schedule, next : Nat]
  /\ job \in {"idle", "synced", "running", "attempted"}
  /\ changes \in 0..MaxChanges /\ kills \in 0..MaxKills
  /\ last \in Nat \cup {Never}

\* The times from a to b that a schedule names, without any calculation
Occurrences(s, a, b) ==
  LET Months == {x \in (FirstYear..LastYear) \X (1..12) : s.day <= DaysIn(x[1], x[2])} IN
  CASE s.type \in {"daily", "weekly"} ->
         {t \in a..b : t % Slots = s.hour /\ (s.type = "daily" \/ Weekday(t) = s.weekday)}
    [] s.type \in {"monthly", "yearly"} ->
         {At(x[1], x[2], s.day, s.hour) :
            x \in {y \in Months : s.type = "monthly" \/ y[2] = s.month}} \cap (a..b)

\* Two things the code is known to pass over: a later hour of the day on which
\* a weekly task is scheduled, and what is left of a month or year that is over
\* in UTC.
PassedOver(s, t) ==
  /\ Today(t) = Today(now)
  /\ \/ s.type = "weekly"
     \/ s.type \in {"monthly", "yearly"} /\ Date(now + Offset).month # Date(now).month

\* A next run in the future is the first time the schedule names, over ends of
\* months and years and across UTC and local dates (_calculate_fresh_time).
NextIsNext ==
  row # Absent /\ row.next > now =>
    IF row.schedule.type = "hourly"
    THEN row.next <= now + row.schedule.interval
    ELSE /\ row.next \in Occurrences(row.schedule, now, row.next)
         /\ \A t \in Occurrences(row.schedule, now + 1, row.next - 1) : PassedOver(row.schedule, t)

\* Between two runs the schedule names a time: neither failures, changes of the
\* configuration, its removal and return, nor killed jobs repeat a run that has
\* ended and was scheduled anew (process_task, sync_tasks).
OncePerOccurrence ==
  [][Start /\ last # Never /\ row.schedule.type # "hourly" =>
       Occurrences(row.schedule, last + 1, now) # {}]_vars

\* A task that is due and configured is run by one of the next jobs, unless the
\* change of its configuration cannot be saved (get_due_tasks, process-tasks.yaml).
DueIsRun ==
  (row.status \in {"pending", "failed", "completed"} /\ row.next <= now)
    ~> \/ job = "running" \/ row.next > now \/ config = NotConfigured
       \/ config # row.schedule /\ NextRunTime[<<config, now>>] = Never

\* Not so: a comment of the monthly and yearly calculations says that a day the
\* present month lacks is looked for in the next.
EveryTaskIsCreated == [][CreateNewTask => row' # Absent]_vars

\* Not so: the documentation says that a running task is being executed.
RunningIsExecuted == row.status = "running" => job = "running"
=============================================================================
