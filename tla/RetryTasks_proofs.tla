-------------------------- MODULE RetryTasks_proofs ---------------------------
(***************************************************************************)
(* What RetryTasks guarantees for any number of calls, rows, threads,      *)
(* retries and kills, as long as run_tasks jobs do not overlap (the        *)
(* CronJob's concurrencyPolicy: Forbid) and a job's deadline does not      *)
(* exceed the lock timeout (600 s and 10 min).                             *)
(***************************************************************************)
EXTENDS RetryTasks, TLAPS

OneRunner == \A q, r \in Runner : q = r
DeadlineWithinLock == JobDeadline <= LockTimeout

Working == {"locking", "locked", "executing", "succeeded", "failed",
            "rescheduling", "releasing"}
Recorded == {"succeeded", "failed", "rescheduling", "releasing"}

\* What a process refers to exists.
References ==
  /\ \A r \in Runner : /\ \A s \in job[r].due : row[s] # NoRow
                       /\ job[r].pc \in Working => job[r].slot \in job[r].due
  /\ \A a \in Caller : direct[a].pc = "found" =>
       direct[a].slot \in Slot /\ row[direct[a].slot] # NoRow

\* Rows the job has not reached or not recorded yet are as get_due_tasks
\* found them, but for what threads counted in between.
Unrecorded ==
  \A r \in Runner : \A s \in job[r].due :
    \/ row[s].status # "completed" /\ row[s].retry_count <= MaxRetries
    \/ s = job[r].slot /\ job[r].pc \in Recorded

Counts ==
  /\ \A r \in Runner : job[r].pc \in {"locking", "locked", "executing", "succeeded", "failed"}
                         => job[r].retry_count <= MaxRetries
  /\ \A a \in Caller : direct[a].pc = "found" => direct[a].retry_count < MaxRetries

\* The lock was set when the job was no older than it is now.
Lease ==
  \A r \in Runner : job[r].pc \in {"locked", "executing"} =>
    \/ row[job[r].slot].lock + job[r].age >= LockTimeout
    \/ job[r].slot \in stale

IInv == TypeOK /\ References /\ Unrecorded /\ Counts /\ RetryBudget /\ Lease

LEMMA RowType ==
  ASSUME NEW x
  PROVE  x \in RetryTask <=>
           /\ x = [call |-> x.call, status |-> x.status, retry_count |-> x.retry_count,
                   next_run_time |-> x.next_run_time, lock |-> x.lock]
           /\ x.call \in Call /\ x.status \in TaskStatus /\ x.retry_count \in Nat
           /\ x.next_run_time \in (0..RetryDelay) \cup {Never}
           /\ x.lock \in 0..LockTimeout
BY DEF RetryTask

LEMMA InitIInv == Init => IInv
BY RetriesAssumption, TimesAssumption, KillsAssumption
   DEF Init, IInv, TypeOK, JobRecord, CallRecord, References, Unrecorded, Counts, RetryBudget, Lease, IdleJob, JobAt,
       IdleCall, CallAt, Rows, RowsOf, Working, RunnerSteps, CallerSteps, TaskStatus

LEMMA NextRunTimeType ==
  ASSUME NEW status, NEW count
  PROVE  NextRunTime(status, count) \in (0..RetryDelay) \cup {Never}
BY TimesAssumption DEF NextRunTime

-----------------------------------------------------------------------------
(* An application thread's steps *)

LEMMA DirectCallFailsStep ==
  ASSUME IInv, NEW a \in Caller, NEW c \in Call, DirectCallFails(a, c)
  PROVE  IInv'
<1> USE DEF IInv, DirectCallFails, CallAt
<1>1. TypeOK'
  BY TimesAssumption DEF TypeOK, JobRecord, CallRecord, CallerSteps
<1>2. References' /\ Unrecorded' /\ Counts' /\ RetryBudget' /\ Lease'
  BY DEF TypeOK, References, Unrecorded, Counts, RetryBudget, Lease, Rows, RowsOf
<1> QED BY <1>1, <1>2

LEMMA SaveExistingStep ==
  ASSUME IInv, NEW a \in Caller, SaveExisting(a)
  PROVE  IInv'
<1> DEFINE x == direct[a].slot
           new == [call |-> direct[a].call, status |-> "failed",
                   retry_count |-> direct[a].retry_count + 1,
                   next_run_time |-> NextRunTime("failed", direct[a].retry_count + 1),
                   lock |-> direct[a].lock]
<1>1. /\ x \in Slot /\ row[x] # NoRow
      /\ row' = [row EXCEPT ![x] = new]
      /\ direct' = [direct EXCEPT ![a] = IdleCall(direct[a].call)]
      /\ direct[a].retry_count \in Nat /\ direct[a].retry_count < MaxRetries
      /\ UNCHANGED <<job, kills>>
      /\ stale' = stale \/ stale' = stale \cup {x}
  BY DEF IInv, TypeOK, JobRecord, CallRecord, References, Counts, SaveExisting
<1>2. new \in RetryTask
  BY <1>1, NextRunTimeType DEF IInv, TypeOK, JobRecord, CallRecord, RetryTask, TaskStatus
<1>3. TypeOK'
  BY <1>1, <1>2, TimesAssumption DEF IInv, TypeOK, JobRecord, CallRecord, IdleCall, CallAt, CallerSteps
<1>4. row' \in [Slot -> RetryTask \cup {NoRow}] /\ row'[x] = new
      /\ \A s \in Slot : s # x => row'[s] = row[s]
  BY <1>1, <1>3 DEF IInv, TypeOK, JobRecord, CallRecord
<1>5. new # NoRow /\ new.status = "failed" /\ new.retry_count <= MaxRetries
  BY <1>1, <1>2, NoRowAssumption, RetriesAssumption
<1>6. References'
  BY <1>1, <1>4, <1>5 DEF IInv, TypeOK, JobRecord, CallRecord, References, IdleCall, CallAt
<1>7. Unrecorded'
  BY <1>1, <1>4, <1>5 DEF IInv, TypeOK, JobRecord, CallRecord, Unrecorded
<1>8. Counts'
  BY <1>1 DEF IInv, TypeOK, JobRecord, CallRecord, Counts, IdleCall, CallAt
<1>9. RetryBudget'
  BY <1>1, <1>4, <1>5, RetriesAssumption DEF IInv, TypeOK, JobRecord, CallRecord, RetryBudget, Rows, RowsOf
<1>10. Lease'
  <2> SUFFICES ASSUME NEW r \in Runner, job[r].pc \in {"locked", "executing"},
                      job[r].slot = x
               PROVE  row'[x].lock + job[r].age >= LockTimeout \/ x \in stale'
    BY <1>1, <1>4 DEF IInv, TypeOK, JobRecord, CallRecord, References, Lease, Working
  <2>1. CASE Overwrites(a)
    BY <2>1 DEF SaveExisting
  <2>2. CASE ~Overwrites(a)
    <3>1. row'[x].lock = row[x].lock
      BY <2>2, <1>4 DEF Overwrites
    <3> QED BY <3>1, <1>1 DEF IInv, Lease
  <2> QED BY <2>1, <2>2
<1> QED BY <1>3, <1>6, <1>7, <1>8, <1>9, <1>10 DEF IInv

\* The lookups change nothing but the thread's own record.
LEMMA LookupStep ==
  ASSUME IInv, NEW a \in Caller,
         LookupBlocked(a) \/ LookupUpdatable(a) \/ LookupAbsent(a)
  PROVE  IInv'
<1>1. UNCHANGED <<row, job, kills, stale>>
  BY DEF LookupBlocked, LookupUpdatable, LookupAbsent
<1>2. CASE direct' = [direct EXCEPT ![a] = IdleCall(direct[a].call)]
  <2>1. TypeOK'
    BY <1>1, <1>2, TimesAssumption
       DEF IInv, TypeOK, CallRecord, CallerSteps, IdleCall, CallAt
  <2>2. References' /\ Counts'
    BY <1>1, <1>2 DEF IInv, TypeOK, CallRecord, References, Counts, IdleCall, CallAt
  <2>3. Unrecorded' /\ RetryBudget' /\ Lease'
    BY <1>1 DEF IInv, Unrecorded, RetryBudget, Lease, Rows, RowsOf
  <2> QED BY <2>1, <2>2, <2>3 DEF IInv
<1>3. CASE direct' = [direct EXCEPT ![a].pc = "absent"]
  <2>1. TypeOK'
    BY <1>1, <1>3 DEF IInv, TypeOK, CallRecord, CallerSteps
  <2>2. References' /\ Counts'
    BY <1>1, <1>3 DEF IInv, TypeOK, CallRecord, References, Counts
  <2>3. Unrecorded' /\ RetryBudget' /\ Lease'
    BY <1>1 DEF IInv, Unrecorded, RetryBudget, Lease, Rows, RowsOf
  <2> QED BY <2>1, <2>2, <2>3 DEF IInv
<1>4. ASSUME NEW s \in Rows, row[s].status = "failed", CanRetry(row[s].retry_count),
             direct' = [direct EXCEPT ![a] =
                          [pc |-> "found", call |-> direct[a].call, slot |-> s,
                           retry_count |-> row[s].retry_count, lock |-> row[s].lock]]
      PROVE  IInv'
  <2>1. s \in Slot /\ row[s] # NoRow /\ row[s] \in RetryTask
    BY DEF IInv, TypeOK, JobRecord, CallRecord, Rows, RowsOf
  <2>2. row[s].retry_count \in Nat /\ row[s].lock \in 0..LockTimeout
        /\ row[s].retry_count < MaxRetries
    BY <2>1, <1>4 DEF RetryTask, CanRetry
  <2>3. TypeOK'
    BY <1>1, <1>4, <2>1, <2>2 DEF IInv, TypeOK, JobRecord, CallRecord, CallerSteps
  <2>4. References' /\ Unrecorded' /\ Counts' /\ RetryBudget' /\ Lease'
    BY <1>1, <1>4, <2>1, <2>2
       DEF IInv, TypeOK, JobRecord, CallRecord, References, Unrecorded, Counts, RetryBudget, Lease, Rows, RowsOf
  <2> QED BY <2>3, <2>4 DEF IInv
<1> QED
  BY <1>2, <1>3, <1>4 DEF LookupBlocked, LookupUpdatable, LookupAbsent, ExistingTasks, Rows, RowsOf

LEMMA CreateTaskStep ==
  ASSUME IInv, NEW a \in Caller, CreateTask(a)
  PROVE  IInv'
<1> DEFINE new == [call |-> direct[a].call, status |-> "pending", retry_count |-> 0,
                   next_run_time |-> NextRunTime("pending", 0), lock |-> 0]
<1>1. PICK x \in Slot \ Rows : row' = [row EXCEPT ![x] = new]
  BY DEF CreateTask
<1>2. /\ row[x] = NoRow
      /\ direct' = [direct EXCEPT ![a] = IdleCall(direct[a].call)]
      /\ UNCHANGED <<job, kills, stale>>
  BY DEF CreateTask, Rows, RowsOf
<1>3. new \in RetryTask
  BY NextRunTimeType, TimesAssumption DEF IInv, TypeOK, JobRecord, CallRecord, RetryTask, TaskStatus
<1>4. TypeOK'
  BY <1>1, <1>2, <1>3, TimesAssumption DEF IInv, TypeOK, JobRecord, CallRecord, IdleCall, CallAt, CallerSteps
<1>5. row'[x] = new /\ \A s \in Slot : s # x => row'[s] = row[s]
  BY <1>1, <1>4 DEF IInv, TypeOK, JobRecord, CallRecord
<1>6. new # NoRow /\ new.retry_count = 0
  BY <1>3, NoRowAssumption
<1>7. References' /\ Unrecorded' /\ Counts' /\ Lease'
  <2>1. \A r \in Runner : x \notin job[r].due
    BY <1>2 DEF IInv, References
  <2> QED BY <1>1, <1>2, <1>5, <1>6, <2>1
          DEF IInv, TypeOK, JobRecord, CallRecord, References, Unrecorded, Counts, Lease, IdleCall, CallAt, Working
<1>8. RetryBudget'
  BY <1>1, <1>2, <1>5, <1>6, RetriesAssumption
     DEF IInv, TypeOK, JobRecord, CallRecord, RetryBudget, Rows, RowsOf
<1> QED BY <1>4, <1>7, <1>8 DEF IInv

-----------------------------------------------------------------------------
(* The runner's steps.  None of them touches kills, stale or a thread. *)

LEMMA GetDueTasksStep ==
  ASSUME IInv, NEW r \in Runner, GetDueTasks(r)
  PROVE  IInv'
<1>1. DueTasks \subseteq Slot
      /\ \A s \in DueTasks : /\ row[s] # NoRow /\ row[s].status # "completed"
                             /\ row[s].retry_count <= MaxRetries
  BY RetriesAssumption DEF IInv, TypeOK, JobRecord, CallRecord, DueTasks, Rows, RowsOf, CanRetry, RetryTask
<1>2. TypeOK'
  BY <1>1, TimesAssumption DEF IInv, TypeOK, JobRecord, CallRecord, GetDueTasks, JobAt, RunnerSteps, TaskStatus
<1>3. References' /\ Unrecorded' /\ Counts' /\ RetryBudget' /\ Lease'
  BY <1>1 DEF IInv, TypeOK, JobRecord, CallRecord, References, Unrecorded, Counts, RetryBudget, Lease, Rows, RowsOf,
              GetDueTasks, JobAt, Working
<1> QED BY <1>2, <1>3 DEF IInv

\* A job that is done with a task keeps the rest of its list.
LEMMA DoneStep ==
  ASSUME IInv, NEW r \in Runner, NEW s \in Slot,
         job' = [job EXCEPT ![r] = Done(r, s)],
         UNCHANGED <<direct, kills, stale>>,
         \/ UNCHANGED row /\ job[r].pc = "next"
         \/ /\ OneRunner /\ s = job[r].slot /\ job[r].pc = "releasing"
            /\ row' = [row EXCEPT ![s].lock = 0]
  PROVE  IInv'
<1>1. job[r].due \in SUBSET Slot /\ job[r].age \in {n \in Nat : n < JobDeadline}
  BY DEF IInv, TypeOK, JobRecord, CallRecord
<1>2. \E pc \in {"idle", "next"}, due \in SUBSET (job[r].due \ {s}),
        age \in {n \in Nat : n < JobDeadline} : job' = [job EXCEPT ![r] = JobAt(pc, due, age)]
  <2>1. CASE job[r].due \ {s} = {}
    <3>1. job' = [job EXCEPT ![r] = JobAt("idle", {}, 0)]
      BY <2>1 DEF Done, IdleJob
    <3>2. 0 \in {n \in Nat : n < JobDeadline}
      BY TimesAssumption
    <3> QED BY <3>1, <3>2
  <2>2. CASE job[r].due \ {s} # {}
    <3>1. job' = [job EXCEPT ![r] = JobAt("next", job[r].due \ {s}, job[r].age)]
      BY <2>2 DEF Done
    <3> QED BY <3>1, <1>1
  <2> QED BY <2>1, <2>2
<1>3. PICK pc \in {"idle", "next"}, due \in SUBSET (job[r].due \ {s}),
        age \in {n \in Nat : n < JobDeadline} : job' = [job EXCEPT ![r] = JobAt(pc, due, age)]
  BY <1>2
<1>4. /\ row' \in [Slot -> RetryTask \cup {NoRow}]
      /\ \A t \in Slot : /\ row'[t] = NoRow <=> row[t] = NoRow
                         /\ row'[t].status = row[t].status
                         /\ row'[t].retry_count = row[t].retry_count
                         /\ t # s => row'[t] = row[t]
  <2>1. CASE UNCHANGED row
    BY <2>1 DEF IInv, TypeOK, JobRecord, CallRecord
  <2>2. CASE s = job[r].slot /\ job[r].pc = "releasing" /\ row' = [row EXCEPT ![s].lock = 0]
    <3>1. row[s] \in RetryTask
      BY <2>2 DEF IInv, TypeOK, JobRecord, CallRecord, References, Working
    <3>2. [row[s] EXCEPT !.lock = 0] \in RetryTask
      BY <3>1, TimesAssumption DEF RetryTask
    <3>3. row' = [row EXCEPT ![s] = [row[s] EXCEPT !.lock = 0]]
      BY <2>2
    <3>4. [row[s] EXCEPT !.lock = 0].status = row[s].status
          /\ [row[s] EXCEPT !.lock = 0].retry_count = row[s].retry_count
      BY <3>1 DEF RetryTask
    <3> QED BY <3>1, <3>2, <3>3, <3>4, NoRowAssumption DEF IInv, TypeOK, JobRecord, CallRecord
  <2> QED BY <2>1, <2>2
<1>5. TypeOK'
  BY <1>1, <1>3, <1>4 DEF IInv, TypeOK, JobRecord, CallRecord, JobAt, RunnerSteps, TaskStatus
<1>6. References'
  BY <1>1, <1>3, <1>4 DEF IInv, TypeOK, JobRecord, CallRecord, References, JobAt, Working
<1>7. Unrecorded'
  BY <1>1, <1>3, <1>4 DEF IInv, TypeOK, JobRecord, CallRecord, References, Unrecorded, JobAt, Recorded
<1>8. Counts' /\ RetryBudget'
  BY <1>1, <1>3, <1>4 DEF IInv, TypeOK, JobRecord, CallRecord, Counts, RetryBudget, Rows, RowsOf, JobAt
<1>9. Lease'
  BY <1>1, <1>3, <1>4 DEF IInv, TypeOK, JobRecord, CallRecord, Lease, JobAt, OneRunner
<1> QED BY <1>5, <1>6, <1>7, <1>8, <1>9 DEF IInv
\* One step of process_task, on row x and on the copy in the job.
LEMMA ProcessStep ==
  ASSUME IInv, OneRunner, NEW r \in Runner, NEW x \in Slot, NEW y \in RetryTask,
         x \in job[r].due, job[r].pc \in Working => x = job[r].slot,
         row' = [row EXCEPT ![x] = y],
         y.retry_count <= MaxRetries + 1,
         NEW pc \in Working,
         job' \in [Runner -> JobRecord],
         job'[r].pc = pc, job'[r].due = job[r].due, job'[r].slot = x, job'[r].age = job[r].age,
         UNCHANGED <<direct, kills, stale>>,
         pc \in Recorded \/ (y.status # "completed" /\ y.retry_count <= MaxRetries),
         pc \in {"locking", "locked", "executing", "succeeded", "failed"} =>
           job'[r].retry_count <= MaxRetries,
         pc \in {"locked", "executing"} =>
           y.lock + job[r].age >= LockTimeout \/ x \in stale
  PROVE  IInv'
<1>1. TypeOK'
  BY DEF IInv, TypeOK, JobRecord, CallRecord
<1>2. /\ \A q \in Runner : q = r
      /\ \A s \in Slot : s # x => row'[s] = row[s]
      /\ row'[x] = y /\ y # NoRow
  BY NoRowAssumption DEF IInv, TypeOK, JobRecord, CallRecord, OneRunner
<1>3. References'
  BY <1>2 DEF IInv, TypeOK, JobRecord, CallRecord, References
<1>4. Unrecorded'
  BY <1>2 DEF IInv, TypeOK, JobRecord, CallRecord, Unrecorded, Recorded, Working
<1>5. Counts'
  BY <1>2 DEF IInv, TypeOK, JobRecord, CallRecord, Counts
<1>6. RetryBudget'
  BY <1>2 DEF IInv, TypeOK, JobRecord, CallRecord, RetryBudget, Rows, RowsOf
<1>7. Lease'
  BY <1>2 DEF IInv, TypeOK, JobRecord, CallRecord, Lease
<1> QED BY <1>1, <1>3, <1>4, <1>5, <1>6, <1>7 DEF IInv

\* What every step of process_task starts from.
LEMMA InHand ==
  ASSUME IInv, NEW r \in Runner, job[r].pc \in Working
  PROVE  /\ job[r].slot \in Slot /\ job[r].slot \in job[r].due
         /\ row[job[r].slot] \in RetryTask
         /\ row[job[r].slot].retry_count <= MaxRetries + 1
         /\ job[r].pc \notin Recorded =>
              /\ row[job[r].slot].status # "completed"
              /\ row[job[r].slot].retry_count <= MaxRetries
<1>1. job[r].slot \in job[r].due /\ job[r].due \subseteq Slot
  BY DEF IInv, TypeOK, JobRecord, CallRecord, References
<1>2. row[job[r].slot] # NoRow /\ row[job[r].slot] \in RetryTask
  BY <1>1 DEF IInv, TypeOK, JobRecord, CallRecord, References
<1> QED BY <1>1, <1>2 DEF IInv, Unrecorded, RetryBudget, Rows, RowsOf

LEMMA SaveLockStep ==
  ASSUME IInv, OneRunner, NEW r \in Runner, SaveLock(r)
  PROVE  IInv'
<1> DEFINE x == job[r].slot
           y == [row[x] EXCEPT !.lock = LockTimeout]
           pc == "locked"
<1>1. job[r].pc \in Working /\ pc \in Working
  BY DEF SaveLock, Working
<1>2. /\ x \in Slot /\ x \in job[r].due /\ row[x] \in RetryTask
      /\ row[x].retry_count <= MaxRetries + 1
      /\ job[r].pc \notin Recorded => /\ row[x].status # "completed"
                                     /\ row[x].retry_count <= MaxRetries
  BY <1>1, InHand
<1>3. y \in RetryTask
  BY <1>2, TimesAssumption DEF RetryTask, TaskStatus, IInv, TypeOK, JobRecord
<1>4. row' = [row EXCEPT ![x] = y] /\ UNCHANGED <<direct, kills, stale>>
  BY DEF SaveLock
<1>5. /\ job' \in [Runner -> JobRecord]
      /\ job'[r].pc = pc /\ job'[r].due = job[r].due /\ job'[r].slot = x
      /\ job'[r].age = job[r].age /\ job'[r].retry_count = job[r].retry_count
  BY DEF SaveLock, IInv, TypeOK, JobRecord, RunnerSteps, TaskStatus
<1>6. /\ y.retry_count <= MaxRetries + 1
      /\ pc \in Recorded \/ (y.status # "completed" /\ y.retry_count <= MaxRetries)
      /\ pc \in {"locking", "locked", "executing", "succeeded", "failed"} =>
           job'[r].retry_count <= MaxRetries
      /\ pc \in {"locked", "executing"} =>
           y.lock + job[r].age >= LockTimeout \/ x \in stale
  BY <1>2, <1>5, TimesAssumption, RetriesAssumption
     DEF SaveLock, IInv, TypeOK, JobRecord, Counts, Lease, Recorded, CanRetry, RetryTask
<1> HIDE DEF y, pc
<1> QED BY <1>1, <1>2, <1>3, <1>4, <1>5, <1>6, ProcessStep

LEMMA MarkAttemptStartedStep ==
  ASSUME IInv, OneRunner, NEW r \in Runner, MarkAttemptStarted(r)
  PROVE  IInv'
<1> DEFINE x == job[r].slot
           y == [row[x] EXCEPT !.status = "running"]
           pc == "executing"
<1>1. job[r].pc \in Working /\ pc \in Working
  BY DEF MarkAttemptStarted, Working
<1>2. /\ x \in Slot /\ x \in job[r].due /\ row[x] \in RetryTask
      /\ row[x].retry_count <= MaxRetries + 1
      /\ job[r].pc \notin Recorded => /\ row[x].status # "completed"
                                     /\ row[x].retry_count <= MaxRetries
  BY <1>1, InHand
<1>3. y \in RetryTask
  BY <1>2 DEF RetryTask, TaskStatus, IInv, TypeOK, JobRecord
<1>4. row' = [row EXCEPT ![x] = y] /\ UNCHANGED <<direct, kills, stale>>
  BY DEF MarkAttemptStarted
<1>5. /\ job' \in [Runner -> JobRecord]
      /\ job'[r].pc = pc /\ job'[r].due = job[r].due /\ job'[r].slot = x
      /\ job'[r].age = job[r].age /\ job'[r].retry_count = job[r].retry_count
  <2>1. job' = [job EXCEPT ![r].pc = pc, ![r].status = "running"]
    BY DEF MarkAttemptStarted
  <2>2. pc \in RunnerSteps /\ "running" \in TaskStatus
    BY DEF RunnerSteps, TaskStatus
  <2> HIDE DEF pc
  <2> QED BY <2>1, <2>2 DEF IInv, TypeOK, JobRecord
<1>6. /\ y.retry_count <= MaxRetries + 1
      /\ pc \in Recorded \/ (y.status # "completed" /\ y.retry_count <= MaxRetries)
      /\ pc \in {"locking", "locked", "executing", "succeeded", "failed"} =>
           job'[r].retry_count <= MaxRetries
      /\ pc \in {"locked", "executing"} =>
           y.lock + job[r].age >= LockTimeout \/ x \in stale
  BY <1>2, <1>5, TimesAssumption, RetriesAssumption
     DEF MarkAttemptStarted, IInv, TypeOK, Counts, Lease, Recorded, CanRetry, RetryTask
<1> HIDE DEF y, pc
<1> QED BY <1>1, <1>2, <1>3, <1>4, <1>5, <1>6, ProcessStep

LEMMA MarkAttemptSuccessStep ==
  ASSUME IInv, OneRunner, NEW r \in Runner, MarkAttemptSuccess(r)
  PROVE  IInv'
<1> DEFINE x == job[r].slot
           y == [row[x] EXCEPT !.status = "completed", !.lock = 0]
           pc == "succeeded"
<1>1. job[r].pc \in Working /\ pc \in Working
  BY DEF MarkAttemptSuccess, Working
<1>2. /\ x \in Slot /\ x \in job[r].due /\ row[x] \in RetryTask
      /\ row[x].retry_count <= MaxRetries + 1
      /\ job[r].pc \notin Recorded => /\ row[x].status # "completed"
                                     /\ row[x].retry_count <= MaxRetries
  BY <1>1, InHand
<1>3. y \in RetryTask
  <2>1. "completed" \in TaskStatus /\ 0 \in 0..LockTimeout
    BY TimesAssumption DEF TaskStatus
  <2> QED BY <1>2, <2>1 DEF RetryTask
<1>4. row' = [row EXCEPT ![x] = y] /\ UNCHANGED <<direct, kills, stale>>
  BY DEF MarkAttemptSuccess
<1>5. /\ job' \in [Runner -> JobRecord]
      /\ job'[r].pc = pc /\ job'[r].due = job[r].due /\ job'[r].slot = x
      /\ job'[r].age = job[r].age /\ job'[r].retry_count = job[r].retry_count
  <2>1. job' = [job EXCEPT ![r].pc = pc, ![r].status = "completed"]
    BY DEF MarkAttemptSuccess
  <2>2. pc \in RunnerSteps /\ "completed" \in TaskStatus
    BY DEF RunnerSteps, TaskStatus
  <2> HIDE DEF pc
  <2> QED BY <2>1, <2>2 DEF IInv, TypeOK, JobRecord
<1>6. /\ y.retry_count <= MaxRetries + 1
      /\ pc \in Recorded \/ (y.status # "completed" /\ y.retry_count <= MaxRetries)
      /\ pc \in {"locking", "locked", "executing", "succeeded", "failed"} =>
           job'[r].retry_count <= MaxRetries
      /\ pc \in {"locked", "executing"} =>
           y.lock + job[r].age >= LockTimeout \/ x \in stale
  BY <1>2, <1>5, TimesAssumption, RetriesAssumption
     DEF MarkAttemptSuccess, IInv, TypeOK, Counts, Lease, Recorded, CanRetry, RetryTask
<1> HIDE DEF y, pc
<1> QED BY <1>1, <1>2, <1>3, <1>4, <1>5, <1>6, ProcessStep

LEMMA MarkAttemptFailedStep ==
  ASSUME IInv, OneRunner, NEW r \in Runner, MarkAttemptFailed(r)
  PROVE  IInv'
<1> DEFINE x == job[r].slot
           y == [row[x] EXCEPT !.status = "failed", !.lock = 0]
           pc == IF CanRetry(job[r].retry_count) THEN "failed" ELSE "rescheduling"
<1>1. job[r].pc \in Working /\ pc \in Working
  BY DEF MarkAttemptFailed, Working
<1>2. /\ x \in Slot /\ x \in job[r].due /\ row[x] \in RetryTask
      /\ row[x].retry_count <= MaxRetries + 1
      /\ job[r].pc \notin Recorded => /\ row[x].status # "completed"
                                     /\ row[x].retry_count <= MaxRetries
  BY <1>1, InHand
<1>3. y \in RetryTask
  <2>1. "failed" \in TaskStatus /\ 0 \in 0..LockTimeout
    BY TimesAssumption DEF TaskStatus
  <2> QED BY <1>2, <2>1 DEF RetryTask
<1>4. row' = [row EXCEPT ![x] = y] /\ UNCHANGED <<direct, kills, stale>>
  BY DEF MarkAttemptFailed
<1>5. /\ job' \in [Runner -> JobRecord]
      /\ job'[r].pc = pc /\ job'[r].due = job[r].due /\ job'[r].slot = x
      /\ job'[r].age = job[r].age /\ job'[r].retry_count = job[r].retry_count
  <2>1. job' = [job EXCEPT ![r].pc = pc, ![r].status = "failed"]
    BY DEF MarkAttemptFailed
  <2>2. pc \in RunnerSteps /\ "failed" \in TaskStatus
    BY DEF RunnerSteps, TaskStatus
  <2> HIDE DEF pc
  <2> QED BY <2>1, <2>2 DEF IInv, TypeOK, JobRecord
<1>6. /\ y.retry_count <= MaxRetries + 1
      /\ pc \in Recorded \/ (y.status # "completed" /\ y.retry_count <= MaxRetries)
      /\ pc \in {"locking", "locked", "executing", "succeeded", "failed"} =>
           job'[r].retry_count <= MaxRetries
      /\ pc \in {"locked", "executing"} =>
           y.lock + job[r].age >= LockTimeout \/ x \in stale
  BY <1>2, <1>5, TimesAssumption, RetriesAssumption
     DEF MarkAttemptFailed, IInv, TypeOK, Counts, Lease, Recorded, CanRetry, RetryTask
<1> HIDE DEF y, pc
<1> QED BY <1>1, <1>2, <1>3, <1>4, <1>5, <1>6, ProcessStep

LEMMA CountAttemptStep ==
  ASSUME IInv, OneRunner, NEW r \in Runner, CountAttempt(r)
  PROVE  IInv'
<1> DEFINE x == job[r].slot
           y == [row[x] EXCEPT !.retry_count = job[r].retry_count + 1]
           pc == "rescheduling"
<1>1. job[r].pc \in Working /\ pc \in Working
  BY DEF CountAttempt, Working
<1>2. /\ x \in Slot /\ x \in job[r].due /\ row[x] \in RetryTask
      /\ row[x].retry_count <= MaxRetries + 1
      /\ job[r].pc \notin Recorded => /\ row[x].status # "completed"
                                     /\ row[x].retry_count <= MaxRetries
  BY <1>1, InHand
<1>3. y \in RetryTask
  BY <1>2 DEF RetryTask, TaskStatus, IInv, TypeOK, JobRecord
<1>4. row' = [row EXCEPT ![x] = y] /\ UNCHANGED <<direct, kills, stale>>
  BY DEF CountAttempt
<1>5. /\ job' \in [Runner -> JobRecord]
      /\ job'[r].pc = pc /\ job'[r].due = job[r].due /\ job'[r].slot = x
      /\ job'[r].age = job[r].age /\ job'[r].retry_count = job[r].retry_count + 1
  BY DEF CountAttempt, IInv, TypeOK, JobRecord, RunnerSteps, TaskStatus
<1>6. /\ y.retry_count <= MaxRetries + 1
      /\ pc \in Recorded \/ (y.status # "completed" /\ y.retry_count <= MaxRetries)
      /\ pc \in {"locking", "locked", "executing", "succeeded", "failed"} =>
           job'[r].retry_count <= MaxRetries
      /\ pc \in {"locked", "executing"} =>
           y.lock + job[r].age >= LockTimeout \/ x \in stale
  BY <1>2, <1>5, TimesAssumption, RetriesAssumption
     DEF CountAttempt, IInv, TypeOK, JobRecord, Counts, Lease, Recorded, CanRetry, RetryTask
<1> HIDE DEF y, pc
<1> QED BY <1>1, <1>2, <1>3, <1>4, <1>5, <1>6, ProcessStep

LEMMA RescheduleStep ==
  ASSUME IInv, OneRunner, NEW r \in Runner, Reschedule(r)
  PROVE  IInv'
<1> DEFINE x == job[r].slot
           y == [row[x] EXCEPT !.next_run_time = NextRunTime(job[r].status, job[r].retry_count)]
           pc == "releasing"
<1>1. job[r].pc \in Working /\ pc \in Working
  BY DEF Reschedule, Working
<1>2. /\ x \in Slot /\ x \in job[r].due /\ row[x] \in RetryTask
      /\ row[x].retry_count <= MaxRetries + 1
      /\ job[r].pc \notin Recorded => /\ row[x].status # "completed"
                                     /\ row[x].retry_count <= MaxRetries
  BY <1>1, InHand
<1>3. y \in RetryTask
  BY <1>2, NextRunTimeType DEF RetryTask, TaskStatus, IInv, TypeOK, JobRecord
<1>4. row' = [row EXCEPT ![x] = y] /\ UNCHANGED <<direct, kills, stale>>
  BY DEF Reschedule
<1>5. /\ job' \in [Runner -> JobRecord]
      /\ job'[r].pc = pc /\ job'[r].due = job[r].due /\ job'[r].slot = x
      /\ job'[r].age = job[r].age /\ job'[r].retry_count = job[r].retry_count
  BY DEF Reschedule, IInv, TypeOK, JobRecord, RunnerSteps, TaskStatus
<1>6. /\ y.retry_count <= MaxRetries + 1
      /\ pc \in Recorded \/ (y.status # "completed" /\ y.retry_count <= MaxRetries)
      /\ pc \in {"locking", "locked", "executing", "succeeded", "failed"} =>
           job'[r].retry_count <= MaxRetries
      /\ pc \in {"locked", "executing"} =>
           y.lock + job[r].age >= LockTimeout \/ x \in stale
  BY <1>2, <1>5, TimesAssumption, RetriesAssumption
     DEF Reschedule, IInv, TypeOK, Counts, Lease, Recorded, CanRetry, RetryTask
<1> HIDE DEF y, pc
<1> QED BY <1>1, <1>2, <1>3, <1>4, <1>5, <1>6, ProcessStep
-----------------------------------------------------------------------------
(* The tasks passed over, and the environment *)

LEMMA AcquireStep ==
  ASSUME IInv, OneRunner, NEW r \in Runner, NEW s \in Slot,
         AcquireRefused(r, s) \/ RefreshFromDb(r, s)
  PROVE  IInv'
<1>1. CASE AcquireRefused(r, s)
  BY <1>1, DoneStep DEF AcquireRefused
<1>2. CASE RefreshFromDb(r, s)
  <2>1. s \in job[r].due /\ row[s] \in RetryTask /\ job[r].pc = "next"
    BY <1>2 DEF RefreshFromDb, IInv, TypeOK, References
  <2>2. row[s].status # "completed" /\ row[s].retry_count <= MaxRetries
    BY <2>1 DEF IInv, Unrecorded, Recorded
  <2>3. row[s].status \in TaskStatus /\ row[s].retry_count \in Nat
    BY <2>1 DEF RetryTask
  <2>4. row' = [row EXCEPT ![s] = row[s]] /\ UNCHANGED <<direct, kills, stale>>
    BY <1>2 DEF RefreshFromDb, IInv, TypeOK
  <2>5. /\ job' \in [Runner -> JobRecord]
        /\ job'[r].pc = "locking" /\ job'[r].due = job[r].due /\ job'[r].slot = s
        /\ job'[r].age = job[r].age /\ job'[r].retry_count = row[s].retry_count
    <3> DEFINE j == [job[r] EXCEPT !.pc = "locking", !.slot = s, !.status = row[s].status,
                                   !.retry_count = row[s].retry_count]
    <3>1. job[r] \in JobRecord /\ job' = [job EXCEPT ![r] = j]
      BY <1>2 DEF RefreshFromDb, IInv, TypeOK
    <3>2. /\ j \in JobRecord /\ j.pc = "locking" /\ j.due = job[r].due /\ j.slot = s
          /\ j.age = job[r].age /\ j.retry_count = row[s].retry_count
      BY <2>3, <3>1 DEF JobRecord, RunnerSteps
    <3> HIDE DEF j
    <3> QED BY <3>1, <3>2 DEF IInv, TypeOK
  <2>6. "locking" \in Working /\ job[r].pc \notin Working
    BY <2>1 DEF Working
  <2>7. row[s].retry_count <= MaxRetries + 1
    BY <2>2, <2>3, RetriesAssumption
  <2> QED BY <2>1, <2>2, <2>4, <2>5, <2>6, <2>7, ProcessStep
<1> QED BY <1>1, <1>2

LEMMA ReleaseLockStep ==
  ASSUME IInv, OneRunner, NEW r \in Runner, ReleaseLock(r)
  PROVE  IInv'
<1>1. job[r].slot \in Slot
  BY InHand DEF ReleaseLock, Working
<1> QED BY <1>1, DoneStep DEF ReleaseLock

LEMMA KillStep ==
  ASSUME IInv, NEW r \in Runner, Kill(r)
  PROVE  IInv'
<1>1. TypeOK'
  BY KillsAssumption, TimesAssumption
     DEF Kill, IInv, TypeOK, JobRecord, IdleJob, JobAt, RunnerSteps, TaskStatus
<1>2. References' /\ Unrecorded' /\ Counts' /\ RetryBudget' /\ Lease'
  BY DEF Kill, IInv, TypeOK, References, Unrecorded, Counts, RetryBudget, Lease, Rows, RowsOf,
         IdleJob, JobAt, Working
<1> QED BY <1>1, <1>2 DEF IInv

LEMMA CleanupStep ==
  ASSUME IInv, NEW s \in Slot, CleanupOldTask(s)
  PROVE  IInv'
<1>1. TypeOK'
  BY DEF CleanupOldTask, IInv, TypeOK
<1>2. /\ \A t \in Slot : t # s => row'[t] = row[t] /\ (t \in stale => t \in stale')
      /\ row'[s] = NoRow
      /\ UNCHANGED <<job, direct, kills>>
      /\ \A r \in Runner : s \notin job[r].due
      /\ \A a \in Caller : direct[a].pc = "found" => direct[a].slot # s
  BY DEF CleanupOldTask, InUse, IInv, TypeOK
<1>3. References'
  BY <1>2 DEF IInv, TypeOK, JobRecord, References
<1>4. Unrecorded' /\ Counts'
  BY <1>2 DEF IInv, TypeOK, JobRecord, Unrecorded, Counts
<1>5. RetryBudget'
  BY <1>2 DEF IInv, TypeOK, RetryBudget, Rows, RowsOf
<1>6. Lease'
  BY <1>2 DEF IInv, TypeOK, JobRecord, References, Lease, Working
<1> QED BY <1>1, <1>3, <1>4, <1>5, <1>6 DEF IInv

LEMMA TickStep ==
  ASSUME IInv, Tick
  PROVE  IInv'
<1>1. \A n \in Nat : Less(n) \in Nat /\ Less(n) <= n /\ Less(n) + 1 >= n
  BY DEF Less
<1>2. Less(Never) = Never
  BY NeverAssumption DEF Less
<1>3. /\ row' \in [Slot -> RetryTask \cup {NoRow}]
      /\ \A s \in Slot : /\ row[s] = NoRow <=> row'[s] = NoRow
                         /\ row[s] # NoRow => /\ row'[s].status = row[s].status
                                              /\ row'[s].retry_count = row[s].retry_count
                                              /\ row[s].lock \in Nat
                                              /\ row'[s].lock = Less(row[s].lock)
  <2> SUFFICES ASSUME NEW s \in Slot, row[s] # NoRow
               PROVE  /\ row'[s] \in RetryTask
                      /\ row'[s].status = row[s].status
                      /\ row'[s].retry_count = row[s].retry_count
                      /\ row[s].lock \in Nat
                      /\ row'[s].lock = Less(row[s].lock)
    BY NoRowAssumption DEF Tick, IInv, TypeOK
  <2>1. row[s] \in RetryTask
    BY DEF IInv, TypeOK
  <2>2. row'[s] = [row[s] EXCEPT !.next_run_time = Less(row[s].next_run_time),
                                 !.lock = Less(row[s].lock)]
    BY DEF Tick
  <2>3. row[s].lock \in Nat /\ Less(row[s].lock) \in 0..LockTimeout
    BY <2>1, <1>1, TimesAssumption DEF RetryTask
  <2>4. Less(row[s].next_run_time) \in (0..RetryDelay) \cup {Never}
    BY <2>1, <1>1, <1>2, TimesAssumption DEF RetryTask
  <2> HIDE DEF Less
  <2> QED BY <2>1, <2>2, <2>3, <2>4 DEF RetryTask
<1>4. /\ job' \in [Runner -> JobRecord]
      /\ \A r \in Runner : /\ job'[r].pc = job[r].pc /\ job'[r].due = job[r].due
                           /\ job'[r].slot = job[r].slot
                           /\ job'[r].retry_count = job[r].retry_count
                           /\ job[r].age \in Nat
                           /\ job[r].pc # "idle" => job'[r].age = job[r].age + 1
  <2> SUFFICES ASSUME NEW r \in Runner
               PROVE  /\ job'[r] \in JobRecord
                      /\ job'[r].pc = job[r].pc /\ job'[r].due = job[r].due
                      /\ job'[r].slot = job[r].slot
                      /\ job'[r].retry_count = job[r].retry_count
                      /\ job[r].age \in Nat
                      /\ job[r].pc # "idle" => job'[r].age = job[r].age + 1
    BY DEF Tick
  <2>1. job[r] \in JobRecord
    BY DEF IInv, TypeOK
  <2>2. CASE job[r].pc = "idle"
    BY <2>1, <2>2 DEF Tick, JobRecord
  <2>3. CASE job[r].pc # "idle"
    <3>1. job'[r] = [job[r] EXCEPT !.age = job[r].age + 1] /\ job[r].age + 1 < JobDeadline
      BY <2>3 DEF Tick
    <3> QED BY <2>1, <2>3, <3>1 DEF JobRecord
  <2> QED BY <2>2, <2>3
<1>5. /\ direct' \in [Caller -> CallRecord]
      /\ \A a \in Caller : /\ direct'[a].pc = direct[a].pc
                           /\ direct'[a].slot = direct[a].slot
                           /\ direct'[a].retry_count = direct[a].retry_count
  <2> SUFFICES ASSUME NEW a \in Caller
               PROVE  /\ direct'[a] \in CallRecord
                      /\ direct'[a].pc = direct[a].pc
                      /\ direct'[a].slot = direct[a].slot
                      /\ direct'[a].retry_count = direct[a].retry_count
    BY DEF Tick
  <2>1. direct[a] \in CallRecord
    BY DEF IInv, TypeOK
  <2>2. direct'[a] = [direct[a] EXCEPT !.lock = Less(direct[a].lock)]
    BY DEF Tick
  <2>3. Less(direct[a].lock) \in 0..LockTimeout
    BY <2>1, <1>1, TimesAssumption DEF CallRecord
  <2> HIDE DEF Less
  <2> QED BY <2>1, <2>2, <2>3 DEF CallRecord
<1>6. UNCHANGED <<kills, stale>>
  BY DEF Tick
<1>7. TypeOK'
  BY <1>3, <1>4, <1>5, <1>6 DEF IInv, TypeOK
<1>8. References' /\ Counts'
  BY <1>3, <1>4, <1>5 DEF IInv, TypeOK, JobRecord, References, Counts
<1>9. Unrecorded' /\ RetryBudget'
  BY <1>3, <1>4 DEF IInv, TypeOK, JobRecord, References, Unrecorded, RetryBudget, Rows, RowsOf
<1>10. Lease'
  <2> SUFFICES ASSUME NEW r \in Runner, job[r].pc \in {"locked", "executing"},
                      job[r].slot \notin stale
               PROVE  row'[job[r].slot].lock + job'[r].age >= LockTimeout
    BY <1>4, <1>6 DEF Lease
  <2>1. row[job[r].slot].lock + job[r].age >= LockTimeout
    BY DEF IInv, Lease
  <2>2. job[r].slot \in Slot /\ row[job[r].slot] # NoRow
    BY DEF IInv, TypeOK, JobRecord, References, Working
  <2> QED BY <2>1, <2>2, <1>1, <1>3, <1>4, TimesAssumption
<1> QED BY <1>7, <1>8, <1>9, <1>10 DEF IInv
-----------------------------------------------------------------------------

LEMMA StepIInv ==
  ASSUME IInv, OneRunner, [Next]_vars
  PROVE  IInv'
<1>1. CASE UNCHANGED vars
  BY <1>1 DEF vars, IInv, TypeOK, References, Unrecorded, Counts, RetryBudget, Lease,
              Rows, RowsOf
<1>2. ASSUME NEW a \in Caller, CallerNext(a)
      PROVE  IInv'
  BY <1>2, DirectCallFailsStep, LookupStep, SaveExistingStep, CreateTaskStep DEF CallerNext
<1>3. ASSUME NEW r \in Runner, RunnerNext(r)
      PROVE  IInv'
  BY <1>3, GetDueTasksStep, AcquireStep, SaveLockStep, MarkAttemptStartedStep,
     MarkAttemptSuccessStep, MarkAttemptFailedStep, CountAttemptStep, RescheduleStep,
     ReleaseLockStep DEF RunnerNext
<1> QED
  BY <1>1, <1>2, <1>3, KillStep, CleanupStep, TickStep DEF Next

THEOREM Invariance == OneRunner => (Spec => []IInv)
<1> SUFFICES ASSUME OneRunner PROVE Spec => []IInv
  OBVIOUS
<1>1. Init => IInv
  BY InitIInv
<1>2. IInv /\ [Next]_vars => IInv'
  BY StepIInv
<1> QED BY <1>1, <1>2, PTL DEF Spec

\* Every variable keeps its type, for any number of calls, rows and threads.
THEOREM TypeCorrectness == OneRunner => (Spec => []TypeOK)
<1>1. IInv => TypeOK
  BY DEF IInv
<1> QED BY <1>1, Invariance, PTL

\* With one run_tasks job at a time no row counts more than one attempt over
\* max_retries, whatever application threads and kills do in between.
THEOREM RetryBudgetHolds == OneRunner => (Spec => []RetryBudget)
<1>1. IInv => RetryBudget
  BY DEF IInv
<1> QED BY <1>1, Invariance, PTL

\* With one job at a time and a deadline within the lock timeout, the stored
\* lock holds for as long as the task runs, but for a stale save.
THEOREM LockCoversExecutionHolds ==
  OneRunner /\ DeadlineWithinLock => (Spec => []LockCoversExecution)
<1> SUFFICES ASSUME OneRunner, DeadlineWithinLock PROVE Spec => []LockCoversExecution
  OBVIOUS
<1>1. IInv => LockCoversExecution
  <2> SUFFICES ASSUME IInv, NEW r \in Runner, job[r].pc \in {"locked", "executing"},
                      job[r].slot \notin stale
               PROVE  row[job[r].slot].lock > 0
    BY DEF LockCoversExecution
  <2>1. row[job[r].slot].lock + job[r].age >= LockTimeout
    BY DEF IInv, Lease
  <2>2. row[job[r].slot] \in RetryTask
    BY InHand DEF Working
  <2>3. row[job[r].slot].lock \in Nat /\ job[r].age \in Nat /\ job[r].age < JobDeadline
    BY <2>2, TimesAssumption DEF IInv, TypeOK, JobRecord, RetryTask
  <2> QED BY <2>1, <2>3, TimesAssumption DEF DeadlineWithinLock
<1> QED BY <1>1, Invariance, PTL
CompletedStays(s) ==
  row[s] # NoRow /\ row[s].status = "completed" =>
    \/ row'[s] = NoRow
    \/ row'[s].status = "completed"
    \/ \E a \in Caller : direct[a].pc = "found" /\ direct[a].slot = s

LEMMA CompletedStep ==
  ASSUME IInv, [Next]_vars, NEW s \in Slot
  PROVE  CompletedStays(s)
<1> SUFFICES ASSUME row[s] # NoRow, row[s].status = "completed",
                    \A a \in Caller : ~(direct[a].pc = "found" /\ direct[a].slot = s)
             PROVE  row'[s] = NoRow \/ row'[s].status = "completed"
  BY DEF CompletedStays
<1> USE DEF IInv, TypeOK
<1>1. row[s] \in RetryTask
  OBVIOUS
<1>2. CASE UNCHANGED row
  BY <1>2
<1>3. ASSUME NEW a \in Caller, SaveExisting(a) \/ CreateTask(a)
      PROVE  row'[s] = row[s]
  BY <1>3 DEF SaveExisting, CreateTask, Rows, RowsOf
<1>4. ASSUME NEW r \in Runner,
             SaveLock(r) \/ MarkAttemptStarted(r) \/ MarkAttemptSuccess(r)
               \/ MarkAttemptFailed(r)
      PROVE  row'[s] = row[s]
  <2>1. job[r].pc \in Working /\ job[r].pc \notin Recorded
    BY <1>4 DEF SaveLock, MarkAttemptStarted, MarkAttemptSuccess, MarkAttemptFailed,
                Working, Recorded
  <2>2. job[r].slot # s
    BY <2>1, InHand
  <2> QED
    BY <1>4, <2>2 DEF SaveLock, MarkAttemptStarted, MarkAttemptSuccess, MarkAttemptFailed
\* What follows the record of an attempt leaves the status alone.
<1>5. ASSUME NEW r \in Runner, NEW y \in {[row[s] EXCEPT !.retry_count = job[r].retry_count + 1],
             [row[s] EXCEPT !.next_run_time = NextRunTime(job[r].status, job[r].retry_count)],
             [row[s] EXCEPT !.lock = 0]}
      PROVE  y.status = "completed"
  BY <1>1, <1>5 DEF RetryTask
<1>6. ASSUME NEW r \in Runner, CountAttempt(r) \/ Reschedule(r) \/ ReleaseLock(r)
      PROVE  row'[s].status = "completed"
  <2>1. CASE job[r].slot # s
    BY <1>6, <2>1 DEF CountAttempt, Reschedule, ReleaseLock
  <2>2. CASE job[r].slot = s
    BY <1>5, <1>6, <2>2 DEF CountAttempt, Reschedule, ReleaseLock
  <2> QED BY <2>1, <2>2
<1>7. ASSUME NEW t \in Slot, CleanupOldTask(t)
      PROVE  row'[s] = NoRow \/ row'[s] = row[s]
  BY <1>7 DEF CleanupOldTask
<1>8. CASE Tick
  <2>1. row'[s] = [row[s] EXCEPT !.next_run_time = Less(row[s].next_run_time),
                                 !.lock = Less(row[s].lock)]
    BY <1>8 DEF Tick
  <2> QED BY <1>1, <2>1 DEF RetryTask
<1> QED
  BY <1>2, <1>3, <1>4, <1>6, <1>7, <1>8
     DEF Next, vars, CallerNext, RunnerNext, DirectCallFails, LookupBlocked, LookupUpdatable,
         LookupAbsent, GetDueTasks, AcquireRefused, RefreshFromDb, Kill

\* With one job at a time a completed task stays completed, unless a thread
\* holds the copy it read while the task was failed.
THEOREM CompletedIsFinalHolds == OneRunner => (Spec => CompletedIsFinal)
<1> SUFFICES ASSUME OneRunner PROVE Spec => CompletedIsFinal
  OBVIOUS
<1>1. IInv /\ [Next]_vars => [\A s \in Slot : CompletedStays(s)]_vars
  BY CompletedStep
<1> QED BY <1>1, Invariance, PTL DEF CompletedIsFinal, CompletedStays, Spec
=============================================================================
