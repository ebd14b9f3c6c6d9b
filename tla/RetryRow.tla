------------------------------- MODULE RetryRow -------------------------------
(***************************************************************************)
(* One call in the retry queue, as the modules see it that put calls into  *)
(* it: the row of common.retry_task that may still be run.  RetryTasks has *)
(* the table itself, with the races on a row; here one writer works on it  *)
(* at a time and a completed row is no row, since create_retry_task and    *)
(* get_due_tasks pass it over.                                             *)
(***************************************************************************)
EXTENDS Naturals

CONSTANT MaxRetries  \* max_retries of the call

ASSUME MaxRetriesAssumption == MaxRetries \in Nat

TaskState == [status : {"none", "pending", "failed", "running"}, count : 0..MaxRetries]

NoTask == [status |-> "none", count |-> 0]

\* Mutant: the limit is tested with <=
CanRetry_OffByOne(t) == t.count <= MaxRetries

\* RetryTask.can_retry
CanRetry(t) == t.count < MaxRetries

\* Mutant: nothing is recorded
Recorded_Never(t) == t

\* create_retry_task, after a direct call raised: a failed row with attempts
\* left counts the failure, every other row is left as it is
Recorded(t) ==
  CASE t.status = "none"                  -> [status |-> "pending", count |-> 0]
    [] t.status = "failed" /\ CanRetry(t) -> [t EXCEPT !.count = t.count + 1]
    [] OTHER                              -> t

\* get_due_tasks
Due(t) == t.status \in {"pending", "failed"} /\ CanRetry(t)

\* A row whose attempts are used up: never due, never recorded again
Spent(t) == t.status = "failed" /\ ~CanRetry(t)

\* mark_attempt_started
Started(t) == [t EXCEPT !.status = "running"]

\* mark_attempt_failed
AttemptFailed(t) ==
  [status |-> "failed", count |-> IF CanRetry(t) THEN t.count + 1 ELSE t.count]
=============================================================================
