------------------------------ MODULE RetryTasks ------------------------------
(***************************************************************************)
(* The retry queue of the task scheduler (bc_obps/task_scheduler).         *)
(*                                                                         *)
(* A function of the application is called through RetryableFunction; when *)
(* it raises, create_retry_task stores a row, and the run_tasks command    *)
(* (a CronJob, or an operator's shell) picks the due rows and runs the     *)
(* function again.  The database runs READ COMMITTED with autocommit, so   *)
(* every read and every save is a step of its own, and a process works on  *)
(* the copy of the row that it read last.                                  *)
(*                                                                         *)
(* Times are kept as what remains of them, in ticks: next_run_time is the  *)
(* time to wait (0: due), lock_acquired_at the time for which the lock     *)
(* still holds (0: free or expired), age the time a runner's job has been  *)
(* going.  error_history, last_run_time and created_at steer nothing here. *)
(***************************************************************************)
EXTENDS Naturals, FiniteSets

CONSTANTS
  Call,         \* the (function_path, kwargs, tag) keys of retryable calls
  Slot,         \* primary keys of common.retry_task
  Runner,       \* processes that execute run_tasks
  Caller,       \* application threads that execute retryable functions
  MaxRetries,   \* max_retries of the calls
  RetryDelay,   \* retry_delay_minutes, in ticks
  LockTimeout,  \* lock_timeout_minutes, in ticks
  JobDeadline,  \* activeDeadlineSeconds of the CronJob, in ticks
  MaxKills,     \* bound: how many times a job is killed before its end
  NoRow,        \* no row under this key
  Never         \* next_run_time IS NULL

ASSUME SlotAssumption == Slot \subseteq Nat /\ IsFiniteSet(Slot)
ASSUME RetriesAssumption == MaxRetries \in Nat \ {0}
ASSUME TimesAssumption == /\ RetryDelay \in Nat
                          /\ LockTimeout \in Nat \ {0}
                          /\ JobDeadline \in Nat \ {0}
ASSUME KillsAssumption == MaxKills \in Nat
ASSUME NeverAssumption == Never \notin Nat

VARIABLES
  row,     \* the table: primary key -> row
  job,     \* what each runner's process is doing
  direct,  \* what each application thread is doing
  kills,   \* jobs killed so far
  stale    \* auxiliary: keys whose row a thread saved over a newer version

vars == <<row, job, direct, kills, stale>>

TaskStatus == {"pending", "running", "completed", "failed"}

RetryTask == [call : Call, status : TaskStatus, retry_count : Nat,
              next_run_time : (0..RetryDelay) \cup {Never},
              lock : 0..LockTimeout]

ASSUME NoRowAssumption == NoRow \notin Slot \cup RetryTask

RowsOf(rows) == {s \in Slot : rows[s] # NoRow}
Rows == RowsOf(row)

\* Mutant: the limit is tested with <=
CanRetry_OffByOne(count) == count <= MaxRetries

CanRetry(count) == count < MaxRetries

\* Mutant: the delay grows with each attempt
NextRunTime_Growing(status, count) ==
  IF status = "completed" \/ ~CanRetry(count) THEN Never ELSE RetryDelay + count

\* RetryTask.calculate_next_run_time
NextRunTime(status, count) ==
  IF status = "completed" \/ ~CanRetry(count) THEN Never ELSE RetryDelay

\* Records of a runner between two tasks and of a thread before its lookup
JobAt(pc, due, age) == [pc |-> pc, due |-> due, slot |-> NoRow, status |-> "pending",
                        retry_count |-> 0, age |-> age]
CallAt(pc, c) == [pc |-> pc, call |-> c, slot |-> NoRow, retry_count |-> 0, lock |-> 0]

IdleJob == JobAt("idle", {}, 0)
IdleCall(c) == CallAt("idle", c)

RunnerSteps == {"idle", "next", "locking", "locked", "executing", "succeeded",
                "failed", "rescheduling", "releasing"}
CallerSteps == {"idle", "failed", "found", "absent"}

\* A runner's place in process_task with its copy of the row, and a thread's
\* place in create_retry_task with its copy
JobRecord == [pc : RunnerSteps, due : SUBSET Slot, slot : Slot \cup {NoRow},
              status : TaskStatus, retry_count : Nat,
              age : {n \in Nat : n < JobDeadline}]
CallRecord == [pc : CallerSteps, call : Call, slot : Slot \cup {NoRow},
               retry_count : Nat, lock : 0..LockTimeout]

Init ==
  /\ row = [s \in Slot |-> NoRow]
  /\ job = [r \in Runner |-> IdleJob]
  /\ direct \in [Caller -> {IdleCall(c) : c \in Call}]
  /\ kills = 0
  /\ stale = {}

-----------------------------------------------------------------------------
(* RetryableFunction.execute and create_retry_task, in an application thread. *)

\* The direct call raises; a call that succeeds leaves nothing behind.
DirectCallFails(a, c) ==
  /\ direct[a].pc = "idle"
  /\ direct' = [direct EXCEPT ![a] = CallAt("failed", c)]
  /\ UNCHANGED <<row, job, kills, stale>>

ExistingTasks(c) ==
  {s \in Rows : row[s].call = c /\ row[s].status \in {"pending", "running", "failed"}}

\* .first() of an unordered queryset orders by primary key
IsFirst(s, S) == s \in S /\ \A t \in S : s <= t

\* An existing task that is not a failed one with retries left is returned
\* as it is: nothing is written.
LookupBlocked(a) ==
  /\ direct[a].pc = "failed"
  /\ \E s \in ExistingTasks(direct[a].call) :
       /\ IsFirst(s, ExistingTasks(direct[a].call))
       /\ ~(row[s].status = "failed" /\ CanRetry(row[s].retry_count))
  /\ direct' = [direct EXCEPT ![a] = IdleCall(direct[a].call)]
  /\ UNCHANGED <<row, job, kills, stale>>

LookupUpdatable(a) ==
  /\ direct[a].pc = "failed"
  /\ \E s \in ExistingTasks(direct[a].call) :
       /\ IsFirst(s, ExistingTasks(direct[a].call))
       /\ row[s].status = "failed" /\ CanRetry(row[s].retry_count)
       /\ direct' = [direct EXCEPT ![a] =
                       [pc |-> "found", call |-> direct[a].call, slot |-> s,
                        retry_count |-> row[s].retry_count, lock |-> row[s].lock]]
  /\ UNCHANGED <<row, job, kills, stale>>

LookupAbsent(a) ==
  /\ direct[a].pc = "failed"
  /\ ExistingTasks(direct[a].call) = {}
  /\ direct' = [direct EXCEPT ![a].pc = "absent"]
  /\ UNCHANGED <<row, job, kills, stale>>

\* existing_task.save() writes every field of the copy that was read, its
\* status (failed) and its lock included.
Overwrites(a) == \/ row[direct[a].slot].status # "failed"
                 \/ row[direct[a].slot].retry_count # direct[a].retry_count
                 \/ row[direct[a].slot].lock # direct[a].lock

SaveExisting(a) ==
  /\ direct[a].pc = "found"
  /\ LET count == direct[a].retry_count + 1
     IN  row' = [row EXCEPT ![direct[a].slot] =
                   [call |-> direct[a].call, status |-> "failed",
                    retry_count |-> count,
                    next_run_time |-> NextRunTime("failed", count),
                    lock |-> direct[a].lock]]
  /\ stale' = IF Overwrites(a) THEN stale \cup {direct[a].slot} ELSE stale
  /\ direct' = [direct EXCEPT ![a] = IdleCall(direct[a].call)]
  /\ UNCHANGED <<job, kills>>

CreateTask(a) ==
  /\ direct[a].pc = "absent"
  /\ \E s \in Slot \ Rows :
       row' = [row EXCEPT ![s] =
                 [call |-> direct[a].call, status |-> "pending", retry_count |-> 0,
                  next_run_time |-> NextRunTime("pending", 0), lock |-> 0]]
  /\ direct' = [direct EXCEPT ![a] = IdleCall(direct[a].call)]
  /\ UNCHANGED <<job, kills, stale>>

-----------------------------------------------------------------------------
(* run_tasks: get_due_tasks, then process_task on each. *)

\* Mutant: a completed task whose time has come is due, as a scheduled one is
DueTasks_Completed ==
  {s \in Rows : /\ row[s].status \in {"pending", "failed", "completed"}
                /\ row[s].next_run_time = 0
                /\ CanRetry(row[s].retry_count)}

DueTasks ==
  {s \in Rows : /\ row[s].status \in {"pending", "failed"}
                /\ row[s].next_run_time = 0
                /\ CanRetry(row[s].retry_count)}

GetDueTasks(r) ==
  /\ job[r].pc = "idle"
  /\ DueTasks # {}
  /\ job' = [job EXCEPT ![r] = JobAt("next", DueTasks, 0)]
  /\ UNCHANGED <<row, direct, kills, stale>>

\* The job record once the runner is done with task s
Done(r, s) ==
  LET rest == job[r].due \ {s}
  IN  IF rest = {} THEN IdleJob ELSE JobAt("next", rest, job[r].age)

\* acquire_lock, first half: refresh_from_db and the test of the lock.  Only
\* the lock is tested: a row that is no longer due is taken all the same.
AcquireRefused(r, s) ==
  /\ job[r].pc = "next" /\ s \in job[r].due
  /\ row[s].lock > 0
  /\ job' = [job EXCEPT ![r] = Done(r, s)]
  /\ UNCHANGED <<row, direct, kills, stale>>

RefreshFromDb(r, s) ==
  /\ job[r].pc = "next" /\ s \in job[r].due
  /\ row[s].lock = 0
  /\ job' = [job EXCEPT ![r] =
                [@ EXCEPT !.pc = "locking", !.slot = s, !.status = row[s].status,
                          !.retry_count = row[s].retry_count]]
  /\ UNCHANGED <<row, direct, kills, stale>>

\* Mutant: the lock is taken in the copy and not saved
SaveLock_Unsaved(r) ==
  /\ job[r].pc = "locking"
  /\ job' = [job EXCEPT ![r].pc = "locked"]
  /\ UNCHANGED <<row, direct, kills, stale>>

\* acquire_lock, second half
SaveLock(r) ==
  /\ job[r].pc = "locking"
  /\ row' = [row EXCEPT ![job[r].slot].lock = LockTimeout]
  /\ job' = [job EXCEPT ![r].pc = "locked"]
  /\ UNCHANGED <<direct, kills, stale>>

MarkAttemptStarted(r) ==
  /\ job[r].pc = "locked"
  /\ row' = [row EXCEPT ![job[r].slot].status = "running"]
  /\ job' = [job EXCEPT ![r].pc = "executing", ![r].status = "running"]
  /\ UNCHANGED <<direct, kills, stale>>

\* Task.mark_attempt_success, after the function returned
MarkAttemptSuccess(r) ==
  /\ job[r].pc = "executing"
  /\ row' = [row EXCEPT ![job[r].slot] =
                          [@ EXCEPT !.status = "completed", !.lock = 0]]
  /\ job' = [job EXCEPT ![r].pc = "succeeded", ![r].status = "completed"]
  /\ UNCHANGED <<direct, kills, stale>>

\* Mutant: the failure is recorded in the history and the status is left alone
MarkAttemptFailed_KeepsStatus(r) ==
  /\ job[r].pc = "executing"
  /\ row' = [row EXCEPT ![job[r].slot].lock = 0]
  /\ job' = [job EXCEPT ![r].pc = IF CanRetry(job[r].retry_count)
                                    THEN "failed" ELSE "rescheduling",
                        ![r].status = "failed"]
  /\ UNCHANGED <<direct, kills, stale>>

\* Task.mark_attempt_failed, after the function raised
MarkAttemptFailed(r) ==
  /\ job[r].pc = "executing"
  /\ row' = [row EXCEPT ![job[r].slot] =
                          [@ EXCEPT !.status = "failed", !.lock = 0]]
  /\ job' = [job EXCEPT ![r].pc = IF CanRetry(job[r].retry_count)
                                    THEN "failed" ELSE "rescheduling",
                        ![r].status = "failed"]
  /\ UNCHANGED <<direct, kills, stale>>

\* retry_count += 1; save(update_fields=['retry_count'])
CountAttempt(r) ==
  /\ job[r].pc \in {"succeeded", "failed"}
  /\ row' = [row EXCEPT ![job[r].slot].retry_count = job[r].retry_count + 1]
  /\ job' = [job EXCEPT ![r].pc = "rescheduling",
                        ![r].retry_count = job[r].retry_count + 1]
  /\ UNCHANGED <<direct, kills, stale>>

\* the finally clause of process_task
Reschedule(r) ==
  /\ job[r].pc = "rescheduling"
  /\ row' = [row EXCEPT ![job[r].slot].next_run_time =
                          NextRunTime(job[r].status, job[r].retry_count)]
  /\ job' = [job EXCEPT ![r].pc = "releasing"]
  /\ UNCHANGED <<direct, kills, stale>>

ReleaseLock(r) ==
  /\ job[r].pc = "releasing"
  /\ row' = [row EXCEPT ![job[r].slot].lock = 0]
  /\ job' = [job EXCEPT ![r] = Done(r, job[r].slot)]
  /\ UNCHANGED <<direct, kills, stale>>

-----------------------------------------------------------------------------
(* The environment: the pod is killed, cleanup_tasks runs, time passes. *)

Kill(r) ==
  /\ job[r].pc # "idle"
  /\ kills < MaxKills
  /\ kills' = kills + 1
  /\ job' = [job EXCEPT ![r] = IdleJob]
  /\ UNCHANGED <<row, direct, stale>>

\* cleanup_old_tasks: days separate a row's last run from its removal, and no
\* process works on one copy of a row for days.
InUse(s) == \/ \E r \in Runner : s \in job[r].due
            \/ \E a \in Caller : direct[a].pc = "found" /\ direct[a].slot = s

CleanupOldTask(s) ==
  /\ s \in Rows
  /\ row[s].status = "completed"
  /\ ~InUse(s)
  /\ row' = [row EXCEPT ![s] = NoRow]
  /\ stale' = stale \ {s}
  /\ UNCHANGED <<job, direct, kills>>

Less(t) == IF t \in Nat \ {0} THEN t - 1 ELSE t

\* One tick; a job whose age would reach the deadline is killed instead.
Tick ==
  /\ \A r \in Runner : job[r].pc # "idle" => job[r].age + 1 < JobDeadline
  /\ row' = [s \in Slot |->
               IF row[s] = NoRow THEN NoRow
               ELSE [row[s] EXCEPT !.next_run_time = Less(row[s].next_run_time),
                                   !.lock = Less(row[s].lock)]]
  /\ job' = [r \in Runner |-> IF job[r].pc = "idle" THEN job[r]
                              ELSE [job[r] EXCEPT !.age = job[r].age + 1]]
  /\ direct' = [a \in Caller |-> [direct[a] EXCEPT !.lock = Less(direct[a].lock)]]
  /\ UNCHANGED <<kills, stale>>

-----------------------------------------------------------------------------
CallerNext(a) ==
  \/ \E c \in Call : DirectCallFails(a, c)
  \/ LookupBlocked(a) \/ LookupUpdatable(a) \/ LookupAbsent(a)
  \/ SaveExisting(a) \/ CreateTask(a)

RunnerNext(r) ==
  \/ GetDueTasks(r)
  \/ \E s \in Slot : AcquireRefused(r, s) \/ RefreshFromDb(r, s)
  \/ SaveLock(r) \/ MarkAttemptStarted(r)
  \/ MarkAttemptSuccess(r) \/ MarkAttemptFailed(r)
  \/ CountAttempt(r) \/ Reschedule(r) \/ ReleaseLock(r)

Next ==
  \/ \E a \in Caller : CallerNext(a)
  \/ \E r \in Runner : RunnerNext(r) \/ Kill(r)
  \/ \E s \in Slot : CleanupOldTask(s)
  \/ Tick

Spec == Init /\ [][Next]_vars

(* The cron schedule keeps starting jobs, a job that is not killed goes on, *)
(* an application thread finishes its request, and time passes.             *)
Fairness ==
  /\ \A r \in Runner : WF_vars(RunnerNext(r))
  /\ \A a \in Caller : WF_vars(LookupBlocked(a) \/ LookupUpdatable(a) \/ LookupAbsent(a)
                               \/ SaveExisting(a) \/ CreateTask(a))
  /\ WF_vars(Tick)

FairSpec == Spec /\ Fairness

-----------------------------------------------------------------------------
(* Properties *)

TypeOK ==
  /\ row \in [Slot -> RetryTask \cup {NoRow}]
  /\ job \in [Runner -> JobRecord]
  /\ direct \in [Caller -> CallRecord]
  /\ kills \in 0..MaxKills
  /\ stale \subseteq Slot

\* Whatever the application threads count in between, a row never counts more
\* than one attempt over its limit.  The one over is real: process_task does
\* not test can_retry again after get_due_tasks has, and a success adds one
\* without looking.  This is what one run_tasks job at a time guarantees.
RetryBudget == \A s \in Rows : row[s].retry_count <= MaxRetries + 1

\* A completed row is never run again and never becomes active again, except
\* by a thread of create_retry_task that read it while it was failed and saves
\* its whole copy after the runner has completed it.
CompletedIsFinal ==
  [][\A s \in Slot :
       row[s] # NoRow /\ row[s].status = "completed" =>
         \/ row'[s] = NoRow
         \/ row'[s].status = "completed"
         \/ \E a \in Caller : direct[a].pc = "found" /\ direct[a].slot = s]_vars

\* While the function runs, the stored lock keeps a second instance out: the
\* job's deadline ends the job before the lock expires, and nothing but a stale
\* save of create_retry_task clears the lock under its holder.
LockCoversExecution ==
  \A r \in Runner : job[r].pc \in {"locked", "executing"} =>
    row[job[r].slot].lock > 0 \/ job[r].slot \in stale

\* One thread at a time makes no duplicate: create_retry_task never leaves two
\* rows of one call that may still run.
OneActiveTask ==
  \A s, t \in Rows :
    /\ row[s].call = row[t].call
    /\ row[s].status # "completed" /\ row[t].status # "completed"
    => s = t

\* A row says running only while a process is running its function.
RunningIsExecuting ==
  \A s \in Rows : row[s].status = "running" =>
    \E r \in Runner : job[r].pc = "executing" /\ job[r].slot = s

Settled(s) == \/ row[s] = NoRow
              \/ row[s].status = "completed"
              \/ ~CanRetry(row[s].retry_count)

\* A recorded failure is retried until it completes or its attempts are used
\* up, unless a stale save mixed two versions of its row.
EventuallySettled ==
  \A s \in Slot : (row[s] # NoRow) ~> (Settled(s) \/ s \in stale)

\* The documentation's "FAILED: Task failed (will be retried if retry_count <
\* max_retries)".
FailedWillBeRetried ==
  \A s \in Slot :
    (row[s] # NoRow /\ row[s].status = "failed" /\ CanRetry(row[s].retry_count))
      ~> (row[s] = NoRow \/ row[s].status # "failed" \/ ~CanRetry(row[s].retry_count))

\* The documentation's "locking mechanism to prevent concurrent execution of
\* the same task" that works across process instances.
MutualExclusion ==
  \A q, r \in Runner :
    /\ job[q].pc = "executing" /\ job[r].pc = "executing"
    /\ job[q].slot = job[r].slot
    => q = r

\* The comment "Create new retry task only if none exists or existing one
\* can't be updated": a failed call whose existing row has no attempts left
\* does not end with that row alone.
FailureIsRecorded ==
  [][\A a \in Caller :
       direct[a].pc = "failed" /\ direct'[a].pc = "idle" =>
         \E s \in ExistingTasks(direct[a].call) :
           row[s].status # "failed" \/ CanRetry(row[s].retry_count)]_vars
=============================================================================
