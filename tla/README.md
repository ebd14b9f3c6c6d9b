# Verification of the BCIERS backend

TLA+ models of the Django backend in `src/bc_obps`, the TLC runs that check them
and the TLAPS proofs about them. They concentrate on the part of the system that
moves money and credits: what a submitted report does to obligations, invoices and
earned credits, how obligations are billed and paid in eLicensing or with units of the
BC Carbon Registry, and the scheduler and retry queue that everything asynchronous rests
on; and on the transfers that decide who reports for an operation.

| Module | Models |
|---|---|
| `RetryTasks` | the retry queue of the task scheduler |
| `SupplementaryVersions` | report versions, their obligations, invoices and credits |
| `MCSupplementaryVersions` | its balances for TLC, and promises it does not keep |
| `EarnedCredits` | the approval of one earned-credit record by concurrent requests |
| `Penalties` | the nightly compliance sync, penalties and their retries |
| `ObligationInvoicing` | billing of obligations by threads, generation job and retries |
| `Billing` | what billing promises, refined by `ObligationInvoicing` |
| `ApplyComplianceUnits` | compliance units applied to an invoice, and the cap |
| `UnitsLedger` | what applying units promises, refined by `ApplyComplianceUnits` |
| `RetryRow` | one call in the retry queue, for the two modules that put calls there |
| `TransferEvents`, `MCTransferEvents` | transfers, timelines, the hourly job |
| `ScheduledTasks`, `MCScheduledTasks` | configuration, sync and next run of a scheduled task |
| `RetryTasks_proofs`, `SupplementaryVersions_proofs`, `EarnedCredits_proofs`, `ObligationInvoicing_proofs`, `Penalties_proofs`, `TransferEvents_proofs`, `ScheduledTasks_proofs`, `ApplyComplianceUnits_proofs` | theorems |

To run one: `tlc -config Penalties_nightly.cfg Penalties`; to prove:
`tlapm EarnedCredits_proofs.tla`. `PROJECT.json` maps every definition to its lines.

## Inventory

### The components that are modelled

**Retry queue** (`task_scheduler`). State: rows of `common.retry_task` (call, status,
retry_count, next_run_time, locked_at). `RetryableFunction.execute` runs a function
and records its failure (`create_retry_task`); a `run_tasks` job, started by a CronJob
every five minutes, reads the due rows, locks each, runs it and saves the outcome;
`cleanup_old_tasks` deletes completed rows. Hard: rows are read into Python objects,
changed and saved whole, by several threads and jobs; the lock is a timestamp; jobs
are killed at a deadline. Correct when a recorded failure is retried until it
succeeds or its attempts are used up, is not run at the same time twice, not
beyond its attempts and not after it completed.

**Supplementary versions** (`compliance/service/supplementary_version_service`,
`compliance_report_version_service`). State: compliance report versions (CRVs),
obligations, earned-credit records, manual-handling flags. A submission creates the
CRV of its report version, and the first of eight handlers that accepts it
supercedes, increases, decreases or keeps what earlier versions led to. Adjustments
of invoices run after the commit. Hard: any sequence of versions, payments, billing
and decisions may come before a submission; the on_commit work interleaves with the
next submission and with billing; eLicensing fails half-way. Correct when the
obligations of a report bill what its last version owes, credits are granted for what
it earned, superceded CRVs carry nothing, and what was approved or flagged stays so.

**Earned credits** (`earned_credits_service`, `bc_carbon_registry`). State: a record
with status, suggestion, holding account, project and issuance ids. Industry asks for
the issuance, analysts review, directors decide; an approval creates a project and
issues credits in the registry; a submission may change or delete the record. Hard: every
request reads, calls and saves the whole row; registry calls succeed without an
answer; roles and submissions race. Correct when approved means issued, once, with the
recorded amount, to the account that was reviewed.

**Nightly compliance sync and penalties** (`compliance/service/automated_process`,
`penalty_calculation_service`). State: status of CRVs, penalty status of obligations,
penalty rows, their invoices, the local copies of invoices. Every night each invoice
is refreshed and shown to four handlers. Hard: dates (deadline, grace period, date of receipt
against date of entry, UTC against Vancouver), a failure in the middle, a killed job,
payments and supplementary reports during the night, retries with stored arguments.
Correct when penalties exist for exactly what is late, once, and what is paid is noticed.

**Obligation invoicing** (`elicensing_obligation_service`, `elicensing_operator_service`).
State: invoice number and link of each obligation, status of its version, clients, fees and
invoices in eLicensing. A submission bills at once after the generation date, the task of
that one date bills what waits, the retry queue what failed. Hard: five steps with calls
whose answers may be lost; three actors; one day. Correct when an obligation that was
submitted is invoiced in the end, once, and status and invoice agree.

**Compliance units** (`apply_compliance_units_service`, `compliance_adjustment_service`,
`elicensing_data_refresh_service`). State: the adjustments of a fee in eLicensing, their local
copy and its age, the units transferred, queued adjustments. Hard: a request validates on a copy,
transfers in one system and adjusts in another; a report lowers obligation and cap meanwhile.
Correct when credits follow transfers one to one and the cap holds.

**Transfers and timelines** (`transfer_event_service`, the two timeline services). State:
transfer events, present holders, timeline rows, facility snapshots. Analysts create, edit
and delete events; due ones are processed at once or by an hourly job. Hard: requests validate
and write at different times, the job works on a list it read once, under the role of the
user who created the event. Correct when timelines have no gap, overlap or second holder,
events say what happened, one operator reports for a year, and due events are processed.

**Scheduled tasks** (`scheduled_task`, `sync`, `task_service`). State: the configuration in
`tasks.py`, the row with status and next run. Every five minutes `sync_tasks` compares the two,
then `run_tasks` runs what is due. Hard: months of different lengths, UTC against local
dates, a changed or removed configuration, a job killed between two saves. Correct when each
occurrence leads to one run.

### The components that are partly modelled, or not

- *Fee adjustments*, *invoice refresh*, *manual handling*, *report submission*, *carbon
  registry client*, *e-mail*: as far as the eight models need them; the notes in
  `PROJECT.json` say what is left out.
- *Interest rates*: scale amounts, which the models abstract.
- *Operations and registration, operators and users*: forms and single decisions; see plan.
- *Report sections, report validation*: one form per transaction, pure checks of it.
- *Compliance pages and documents*: read-only.
- *Documents and scanning, row-level security, front ends, deployment*: I/O, generated
  policies, stateless pages, configuration. The CronJobs' schedules, deadlines and
  `concurrencyPolicy` are used by the models of the jobs.

### How they interact

A report submission sends a signal; the handler of `compliance/signals` creates the
CRV in the same transaction (`SupplementaryVersions`). An obligation is billed in
eLicensing through the retry queue once the generation date is reached; operators pay
there, and the application sees it when it refreshes its copy (`Penalties`). The
nightly sync and `DecreasedObligationHandler` both set the status of a CRV. Failing
calls of either go to the retry queue (`RetryTasks`), which stores their arguments as
JSON. Records of earned credits are created and changed by submissions and decided by
requests (`EarnedCredits` takes `SupplementaryVersions`' steps on the record as
read-and-save steps; `SupplementaryVersions` takes a decision as one step). `RetryRow` is the
interface of the retry queue to `ObligationInvoicing` and `ApplyComplianceUnits`: one writer
at a time, as the races on a row are `RetryTasks`' subject.

## Correspondence of models and code

**RetryTasks.** `row` is the table; `job[r]` a `run_tasks` process with its program
counter, the list it read and its in-memory copy; `direct[a]` an application thread.
One action per database statement: `GetDueTasks`, `RefreshFromDb`, `SaveLock`, `MarkAttemptStarted`,
the outcome, `CountAttempt`, `Reschedule`, `ReleaseLock`; `LookupBlocked` /
`LookupUpdatable` / `LookupAbsent`, `SaveExisting` and `CreateTask` are the branches of
`create_retry_task`. Time is `Tick`, which ages locks, due times and jobs. `stale` (a
history variable) holds the rows on which an old whole copy was saved over a newer row.

**SupplementaryVersions.** One report; versions are numbered. `net[v]` is the
compliance balance, `status`, `obligation` (fee, adjustments, payments, units, state of
its invoice), `credit`, `manual`, `deferred` (on_commit work of `DecreasedObligationHandler`),
`queued` (adjustments in the retry queue), `billing`, `invoiced` (what eLicensing has).
One action per handler, each with its `can_handle` and the negation of those before it
in the list; `NoHandler` is the submission that none accepts. `AdjustInvoice`, `QueueAdjustment`,
`FinishAdjustment` and `StartBilling` to `BillingFails` run after the commit; `Pay`,
`ApplyUnits`, `Request` to `Decline` between submissions. `Interleaved` chooses whether
a submission or payment may arrive while on_commit work runs. `early` (a history variable) notes
that a decrease was planned before all obligations had their invoice and all adjustments were made.

**EarnedCredits.** `row` is the record, `request[u]` a request with the copy it read,
`issued` the issuances in the registry, `reviewed` the account the analyst found ready.
One action per read, registry call and save; `Crashes` lets a process die or an answer
be lost between any two. `excused` notes the three events a property may depend on: a save over a newer
row ("stale"), an issuance whose id was lost ("lost"), an approval that ended
between issuance and decision ("undecided").

**Penalties.** `obligation` holds the row with the status of its CRV, `bill` what
eLicensing has, `copy` what the application has, `penalty` and `fined` the penalties
and their invoices in eLicensing, `queue` the retries, `sync` the scheduled task,
`job` the process. `RefreshInvoice`, then `PenaltyPaid`, or `PenaltyAccruing`,
`ObligationPaid` or `ObligationNotPaid`, `PlanPenalties`, penalty creation and
`InterestPaid`, are the handlers in their order; `GetOrCreateRow`
to `PenaltyCreated` the statements of `create_penalty`. `PostDecrease` and `MarkMet`
are what a supplementary report does meanwhile. The day does not change during a
job: a job starts at two in the morning and lives for ten minutes.

**ObligationInvoicing.** `row` is the obligation's number and link, `invoices` what
eLicensing issued, `task` its call in the retry queue, `proc[p]` the thread of an obligation or
the worker with its step and the copy it read. One action per call or save of
`process_obligation_integration`: client, fee and invoice (one step: a fee without an invoice bills
nobody), number, link, status. `day` is before, on or after the generation date; `Outage` is a
worker that does not run on it. `waived` holds obligations with two writers or a lost answer.

**ApplyComplianceUnits.** `bill` are adjustments and payments in eLicensing, `copy` the local
copy and `fresh` its 15 minutes, `transferred` the units, `task` the queued adjustments by
their arguments, `proc[p]` requests, the report and the worker. `dropped`, `merged`, `unheard` and
`blind` note the four ways in which a step is taken without knowledge of another.

**TransferEvents.** `holder` is the operator of an operation or operation of a facility,
`timeline[a]` its rows, `event` the table, `request[u]` a validated request with the copy it read,
`list` what the job has read. `ValidateX` and `CommitX` are the two halves of a request; the
writes of a transaction are one step (`Process`), rolled back when `CanProcess` fails. `raced`,
`stale` and `backdated` note what the code does not prevent. That an event moves assets from who
holds them (`Offered`) is what the form offers; the service does not check it at creation.

**ScheduledTasks.** `config` is the entry in `tasks.py`, `row` the table row, `job` what the
process-tasks job has done. The three branches of `sync_tasks`, `Start`, the outcome and
`Reschedule` are actions. The calculations (`Daily` to `Yearly`) are operators over slots of a
day, a Gregorian calendar and an offset to UTC; `Occurrences` is the reference they are checked
against. Summer time is left out: `make_aware` maps the clock time of the schedule.

## Runs

| Run | Bounds | Shows |
|---|---|---|
| `retry_cron` | 1 call, 2 rows, 1 job, 2 threads, 2 retries, 1 kill | `RetryBudget`, `LockCoversExecution`, `CompletedIsFinal` |
| `retry_sequential` | 2 calls, 2 rows, 1 job, 1 thread, no kill | `EventuallySettled` |
| `supplementary_obligations` | 4 versions, balances 0..3, eLicensing fails | `NeverUnderBilled`, `ManualIsSticky`, `EveryVersionHasItsCRV` |
| `supplementary_credits` | 4 versions, balances -3..0 | `OpenIsEarned` |
| `supplementary_failures` | 4 versions, -2..2, eLicensing fails | `SupercededIsEmpty`, `ApprovedIsFinal` |
| `credits_requests` | 1 request per role, 1 submission, 2 accounts, crashes | `ApprovedIsIssued`, `IssuedAsRecorded`, `RetriedOnce`, `ApprovedIsReviewed`, `FinalStays` |
| `penalties_nightly` | 1 obligation of 2 payments, 3 nights, 1 failure, 1 kill | `BilledOnce`, `PenaltyIsDeserved`, `LateIsPenalised`, `PaidIsFinal`, `PaymentIsNoticed` |
| `penalties_retry` | 1 payment, 3 nights, 1 failure | **violated**: `LateIsEventuallyPenalised` |
| `invoicing` | 2 obligations, 1 retry, 2 failures, 1 crash | `StatusAgrees`, `BilledAsPromised` (refinement), `SubmittedIsBilled` |
| `units` | 2 requests, 1 report, 1 retry, 2 failures, 1 crash | `WithinCap`, `CreditedAsTransferred` (refinement), `TransferIsCredited` |
| `transfers` | 2 operators, 2 operations, 1 facility, 2 analysts, 3 requests, 2 events, 1 kill | `OneHolder`, `TransferredAsRecorded`, `OneReporter`, `DueIsTransferred` |
| `schedule` | 7 schedules, 4 ends of months, 8 slots, 2 deployments, 1 kill | `NextIsNext`, `OncePerOccurrence`, `DueIsRun` |

The first passing run of each module but `ScheduledTasks`, whose `TypeOK` is proved, checks its
`TypeOK` too. Deadlock checking is
off where the system may rest: a report has a last version, a queue runs empty.

**Why the bounds are enough to be interesting.** Two retries let a row fail, be rescheduled
and run out; two threads with one job and two rows let every save meet another writer and a
duplicate row be made; ticks of one delay, two per lock and per job deadline let a lock
outlive or end with its job. Four versions are the shortest chains in which a handler has to
look back over a version that is not the previous one and then is looked back over itself;
three sizes of excess allow increase, decrease and return. `NeverUnderBilled` is
conditional: it speaks of reports none of whose decreases was planned while an obligation had no
invoice yet or an adjustment was queued (the history variable `early`). Its condition is no matter of
bounds, since the theorem has it for every number of versions; without it (`BilledInFull`) the run
itself finds a violation, given below. One obligation suffices
for the nightly job because its handlers touch one obligation only: what
obligations share, the abort of the night, is there because the obligation has up to three
invoices, picked in any order. Three days put a payment and a report
before the deadline, at it, in the grace period and after it. Amounts are
small integers: no property depends on cents. Two obligations are what a second client or a
list read once needs; two failures are a failed call and a failed retry. Two requests of
one value make the equal arguments of a retry; the report's decrease is large enough
that the units exceed the new cap. Two transfers of one operation (there and back), a facility that
moves with its operation or alone, and three requests let a create, an edit and a delete meet the
job. The scheduled task begins on 30 December 2023, 30 January, 28 February and 29 June 2024:
around the end of a year, of a month before a shorter one, a leap day, and a month of 30 days; three
slots a day put an occurrence before and after midnight in UTC.

**Fairness.** `RetryTasks!FairSpec`: every job takes its steps (the CronJob starts it
again and it is not stopped for ever), a thread that has begun to record a failure finishes,
and time passes; nothing forces a call to be made, to fail or to be killed.
`Penalties!FairSpec`: the job takes its steps, each queued retry that is due again and again
is run (strong fairness: `run_tasks` loops over all due rows in every run), and nights pass. That is what the CronJob's
schedule gives. `ObligationInvoicing` and `ApplyComplianceUnits` have the same: threads and
worker go on, days pass; `TransferEvents` and `ScheduledTasks` only that their job runs again
(hourly, every five minutes). Payments, refreshes, requests and reports are never forced. Liveness is stated
with `kills > 0` as an escape, since a killed task stays RUNNING (see below).

## What the violated run shows

- `penalties_retry`: a failed `create_penalty` is stored with its deadline as a JSON
  string, and every retry raises when it adds a day to it. The CRV was already saved
  as met, so no later night creates the penalty.

### Divergences without a run of their own

Each is stated in its module and takes one line in a cfg to reproduce. For
`RetryTasks` use one call, row, job and thread, `MaxRetries = 2`, `RetryDelay = 1`,
`LockTimeout = JobDeadline = 2`, `MaxKills = 0`, except as said.

- `INVARIANT MutualExclusion`, two jobs: both read a free lock and save it
  (docs/backend/task-scheduler.md promises exclusion across instances). The CronJob forbids two jobs;
  one started by hand is enough.
- `PROPERTY FailedWillBeRetried` (with `FairSpec`): a thread saves its old copy between
  `CountAttempt` and `Reschedule`; the row ends failed, with attempts left and no time to run at.
- `PROPERTY FailureIsRecorded`: a row without attempts left stays failed for ever, is not
  cleaned up, and swallows every later failure of the same call.
- `INVARIANT RunningIsExecuting` with `MaxKills = 1`: the row stays running.
- `INVARIANT OneActiveTask` with two threads and two rows: both find no row, both create one.
  A row left running by a kill is never due again either.

For `MCSupplementaryVersions` start from `Supplementary_obligations.cfg`
(`NeverOverBilled` to `SupercededIsEmpty`) or `Supplementary_credits.cfg` (the others).

- `INVARIANT NeverOverBilled`: balances 0, 1, 0. The decrease to zero leaves the
  obligation of version 2 as it was.
- `INVARIANT OverpaymentIsFlagged`: the same, and the operator pays it; nothing is flagged.
- `INVARIANT MetIsSettled` with `MaxVersions = 3`, `AdjustmentsFail = TRUE`: an adjustment that
  fails is queued, but the CRV is marked as met at once, while its invoice is open
  (decreased_obligation_handler.py:659 says the adjustment "has already posted").
- `INVARIANT SupercededIsEmpty` with `MaxVersions = 2`, `Interleaved = TRUE`: a submission
  supercedes an obligation that is being billed; the later save (elicensing_obligation_service.py:134)
  inserts the deleted row again and resets the status of a superceded CRV.
- `INVARIANT EveryVersionHasItsCRV`: credits, a version without change, fewer credits: no handler
  accepts the third version (service.py:95); it has no CRV, and the next submission fails.
  docs/compliance/supplementary_report_handlers.md:60 gives the decreased credit handler every
  version that lowers the credits.
- `INVARIANT NoDoubleCredits`: balances -2 (approved), -3, -2 with the delta requested in
  between: the replaced record grants the whole amount again.
- `INVARIANT ApprovedIsCovered`: -2 (approved), -3, -1: more is issued than earned, unflagged.
- `INVARIANT WholeCredits`: -3 (requested), 0: a record of no credits is opened.
- `INVARIANT OpenIsEarned` in `Supplementary_failures.cfg`: -2 (requested), 1: a version that turns
  credits into an obligation leaves the earlier request open.
- `INVARIANT OpenIsEarned` with `Scale = 2`: a delta in half tonnes is truncated on its own, so the
  amended record and the last version drift apart by a credit.
- `INVARIANT BilledInFull` (`NeverUnderBilled` without its condition): balances 2, 1, 0. The
  adjustment of the first decrease fails and is queued; the next decrease does not see it
  (decreased_obligation_handler.py:584) and takes the whole fee off the invoice; when the queue is
  repeated, 3 is taken off a fee of 2.
  With `AdjustmentsFail = FALSE`, `MaxVersions = 5`, `Balance = {2, 4, 5, 6}`, `WithUnits = FALSE`: balances
  4, 5, 6, 4, 2. The billing of the third version fails and is repeated only after the first decrease
  was planned, which therefore settles the second version. The last decrease is measured from the
  third version's invoice and counts only adjustments of invoices still unpaid
  (decreased_obligation_handler.py:585), not the one of the second version: 1 is billed where 2 is owed.
  It also happens when no call fails, with `MaxVersions = 6`, balances 0, 4, 5, 6, 4, 2 and the first
  decrease submitted after the date, between the billing of the third and of the fourth version.
- `INVARIANT ManualIsSticky` with `Interleaved = TRUE`: a version is submitted before the on_commit work
  of the one before has flagged that one, and is not flagged itself.

For `EarnedCredits`: `INVARIANT IssuedOnce` with two directors in `EarnedCredits_requests.cfg`. Both
read a record without an issuance id, and both issue (earned_credits_service.py:207; line 205
says "ensuring idempotency"). `FinalStays` and `IssuedAsRecorded` without their excuse `"stale"` are
violated too: a save of an older copy, by an analyst or a submission, reopens an approved record, or
changes what it says of its issuance.

For `Penalties` start from `Penalties_nightly.cfg`.

- `INVARIANT PenaltyIsDeserved` with `Evening = {TRUE, FALSE}`: `created_at.date()` is in
  UTC, so a supplementary report of the evening of the deadline counts as late.
- `PROPERTY FullyMetIsFinal`: the handler saves the status it computed from an older
  balance over the one `MarkMet` set; the next night repairs it.

The model of `Penalties` also shows, without a formula: an obligation that is settled by a
decrease, or paid on paper before the deadline, keeps the penalty status Accruing for ever;
a supplementary obligation accrues before its own due date; whether a late obligation
that a decrease settles gets a penalty depends on whether the sync or `MarkMet` is first;
and a sync whose job was killed stays RUNNING and never runs again.

For `MCScheduledTasks` start from `ScheduledTasks.cfg`.

- `PROPERTY EveryTaskIsCreated`: a yearly task of 29 February or a monthly one of the 31st is
  not created in a month or year that lacks the day. The except branch "Day doesn't exist in this
  month, try next month" (scheduled_task.py:244, and 281) raises again, since the day is replaced
  in the present month first. An existing task of that kind keeps its old next run time
  and runs at every job; a changed one stops `sync_tasks`, and with it all tasks.
- `INVARIANT RunningIsExecuted`: docs/backend/task-scheduler.md calls RUNNING "currently being
  executed"; after a kill the row says so until its configuration is removed and returns.
- `PassedOver` lists what the calculation skips by design or oversight: the later hour of a weekly
  task's own day, and the last evening of a month or year that is over in UTC.

The escapes of the other new properties name what their code allows. `ObligationInvoicing`: a
lost answer, or a thread and the job at one obligation, bill it twice; a generation date without a
job leaves obligations pending for ever; two clients end the billing of an operator.
`ApplyComplianceUnits`: two requests, or a request and a report, pass the cap together, also
when the second validates a copy from before the first; a crash between transfer and adjustment
leaves units that nobody credits; two failed adjustments of one value are retried as one.
`TransferEvents`: `update_transfer_event` processes the copy it read before its own edit (the old
operation and date, lines 364 to 371); the job processes events that were edited,
deleted or processed since it read them; a transfer dated before an earlier one makes two operators
answer for a year; the event of a user who lost the role, or of a raced creation, is due for ever.

## Proofs

All theorems hold for every value of the constants that satisfies the named
assumptions of the module.

**RetryTasks_proofs** (`OneRunner`: jobs do not overlap, as `concurrencyPolicy: Forbid`
has it). `TypeOK`, `RetryBudget`, `LockCoversExecution` (also needs `JobDeadline <=
LockTimeout`, 600 seconds against ten minutes) and `CompletedIsFinal`. `RetryBudget` is not
inductive: that a row is run at most once beyond its limit needs to know that the rows
a job has read and not reached were within it (`Unrecorded`, `Counts`), and the lock needs to
know its age (`Lease`: what is left of it and the age of its job add up). `IInv` is
their conjunction. Each action has a lemma.

**SupplementaryVersions_proofs**. The ten kinds of submissions are shown to do what
`Submits` says (append one version, touch only the rows of the previous one), and all
other steps what `Continues` says (create no version, keep approved records and
CRVs). `Chain` (the CRVs form one chain, obligations are for excess, credits for the lack
of it, rows and pending work only for submitted versions) follows for every step, also
when submissions interleave. From it: `ApprovedIsFinal` with no assumption;
`EveryVersionHasItsCRV` when no balance is negative (the
counterexample above has credits). `Serial` adds what holds when a
submission waits for the on_commit work of the one before (`~Interleaved`), and gives
`ManualIsSticky` and `SupercededIsEmpty`; the revived obligation above shows that it is needed.
`TypeOK` says that no amount is negative: the pool of a decrease, what is taken from each
invoice, an amended credit. The pool is a recursive function over the chain, and what was already
applied is a sum; induction is replaced by least counterexamples (`Least`, `Smallest`), for which
the library's well-foundedness of `Nat` is enough: `Total` is a sum with the laws of one, and
`SuppsSum`, `AmountsSum` and `Leaves` say that the model's sums and recursion are such.
`OpenIsEarned` holds for a report that never exceeds its limit, in whole tonnes
(`WholeCreditsOnly`; above, both half tonnes and a mixed report break it), also when submissions
interleave. `CreditsFollow` says where the open credits are: at most one open record is for any
credits at all, for no more than the last version earned, and if the last version has a
record, no other is.
`NeverUnderBilled` holds when submissions wait; its condition `~early` (each decrease was planned
with every obligation invoiced and no adjustment queued) is part of the property, and the behaviours
above show that it is needed. Billing and adjustments may fail and be repeated. A decrease is measured
from the newest invoice still unpaid, which may be any, so the balance must have been covered at
each of them: `LiveOK` keeps, for each invoice that may yet be chosen, that it and what older ones bill
cover the balance it was made for, `NetOK` that the total less the plan still to be carried out
covers the last version, `PlansOK` that a plan reaches an invoice only when all newer ones are to be
met, and `RowsOK` that an adjustment bears the number of a later version, so that what the
anchor was adjusted by is subtracted from its pool (`AnchorApplied`). What an obligation bills is
counted less what the queue has yet to take off it (`Owed`), so that a failed adjustment and its retry
change nothing; `QueueOK` says that at most one waits for each invoice, within what is left of its
fee. `BillsOK` is their conjunction, inductive as long as no decrease is early, which is for good
(`EarlyStays`). `BilledInFullPastDate` draws `~early` from the constants, for submissions past the date
and calls that do not fail (`PastDate`, `Prompt`).

**EarnedCredits_proofs**. `CopyOK` says what the copy of a request still shows
at each of its steps, `RowOK` what the row shows of the registry; with `TypeOK`
they are inductive. `ApprovedIsIssued` holds for any number of requests,
directors and crashes; `FinalStays` is an action property from the same invariant.
`ApprovedIsReviewed` adds `ReviewOK`, on what a director's copy shows of the review, and needs no
further assumption. `RetriedOnce` and `IssuedAsRecorded` hold for one director (`OneDirector`, as
in the run): two approvals at once issue twice, without any save that meets a newer row. `RetryOK`
counts the issuances against the id in the row and in the director's copy; `RecordedOK` says
which issuance that id points at, also between the two saves of an approval.

**ObligationInvoicing_proofs**. `TypeOK`, and that `ObligationInvoicing` implements `Billing`
under the mapping of `Bill`, for any number of obligations, failures and crashes. The invariant
is `TypeOK /\ Submitted /\ Agreed`: `Agreed` says that for an obligation without two writers or a lost
answer its row, the copies of whoever works on it and what eLicensing has agree as
far as the step they are at; each action then maps to `Issue`, `Record`, `Link` or nothing. On the same invariant rests
`StatusAgrees`, with what the status is at each step of the obligation's only writer (`StatusInv`).

**Penalties_proofs**. `TypeOK` and `BilledOnce`. Two invariants carry it: `Owned` and `JobOwned`
(invoices, penalties, recorded calls and what the job has in hand belong to obligations that
exist), and `BilledWhenMet` (something is billed only for an obligation that is met, which it
stays, so that no later night plans it again, and nothing is billed yet for what is planned).
A retry gets no further than to its deadline, which comes back as text: `BilledOnce` rests on
the defect of the finding, and would need the lookup of an earlier invoice once that is repaired
(the mutant `StoredDeadline_Decoded` bills twice). `NoneAssumption` tells an absent row from a row.
For the other three, effect lemmas first say once what a step may do to an obligation, its
invoice, the job and a penalty. `PaidInv` (a paid obligation has nothing more to pay, and the
copy the handlers read does not say otherwise) gives `PaidIsFinal`. On top of it, `LateIsPenalised`
follows from what the job still has in hand of the penalties it planned, for any number of
nights and failing calls, and `PenaltyIsDeserved` from the dates: the sync plans with the dates
that `Deserved` means, except that a report of the evening of the deadline day has tomorrow's date in
UTC, so that theorem assumes `NoEvening`, as the run does; the divergence is described above.

**TransferEvents_proofs**. `OneHolder`, with any number of assets, holders, analysts and events.
`Shape` says that requests and the job carry copies of events, however old. The index on open rows
does the rest: in the only case in which a timeline changes, one open row after the move means
that the last one was closed, so that its holder was who the event moves from (`OneOpenRow`).
`OneReporter` needs that the rows of an operation whose transfers came in order have
ascending dates and that for each year one row answers (`AnswersInv`): a move closes the row that
answers for the years from its date, and opens one that answers for them (`AnswerPasses`).
`TypeOK` and `TransferredAsRecorded` need to know what a copy is worth: the copy an analyst or
the job carries is the event as it is, or the event is `stale` from the moment it is acted
on (`CarriedInv`); `EventsStep` says what any step does to the events. Both are then
what `MovedAsset` says of one processed event, kept by all later moves, which only append.

**ScheduledTasks_proofs**. `TypeOK`: a row always has a status and a time, whichever calculation
raises and wherever a job is killed (a job that runs the task has a row, `RunHasRow`). `FreshIsFirst`
is about the calculations alone: what they find is the first time that the schedule names, but for
what `PassedOver` lists, for every schedule, time of day and offset to UTC. It rests on the
arithmetic of the calendar: slots and days (`DayOfSlot`, `DaysInOrder`), months that follow each other
without a gap (`MonthStep`, `MonthsInOrder`, `OneMonth`), a year and month for every day
(`YearExists`, `MonthExists`, by a least counterexample), and that UTC is in the local month or at
the start of the next one (`LocalAndUtc`). The odd branches are shown harmless on the way: the
second attempt of a monthly task succeeds only on the last evening of a month, when the UTC
month lacks the day; that of a yearly one never succeeds, since two years after a leap year is none. `NextIsNext` is then what
remains true as time passes (`NextLater`), and `OncePerOccurrence` follows from `OnceInv`: after a run
that was scheduled anew the row waits for a later time than the run's end. `CreatedIfDayExists`
delimits the divergence above: with days up to the 28th no calculation raises.
`CalendarAssumption` says that the model ends a year before its calendar; TLC evaluates it.

**ApplyComplianceUnits_proofs**. `TypeOK` and `WithinCap`, for any number of requests, any amounts,
failures and crashes. The cap is not inductive: between a decision and its effect stand the
transfer, the posting, the retry queue and the refresh. `CapInv` says for each of these what is
already decided (`Covered`, `TransferFits`, `PlanFits`, `QueueFits`, and `NoReportYet` before the report),
as long as nobody has decided without seeing what was decided before, nothing was
dropped from the queue and no answer was lost (`Clean`). The argument: a validation that sees
everything finds nobody else between decision and effect (`Alone`), so that at most one decision is
ever pending, and it was checked against balances that cannot change under it. Requests, report and
worker each have a lemma for what their steps keep. `Refinement` is that the module implements
`UnitsLedger`: what is credited never overtakes what was transferred. A dollar that is still owed
to a transfer is a member of a set (`RequestsOwe` for the request that has yet to post it,
`CallsOwe` for the recorded call and the worker), so that the sum over processes and rows is the
cardinality of a set and needs no induction; `CreditInv` says that the credited and the owed
together are within the transferred, and each action moves the dollars of one request and one call.

**Only model-checked.** Liveness (`EventuallySettled`, `PaymentIsNoticed`, `SubmittedIsBilled`,
`TransferIsCredited`, `DueIsTransferred`, `DueIsRun`) and what needs `ENABLED` are out of the
prover's reach. Every invariant and action property of the passing runs, and both refinements, are
theorems, some with assumptions on the constants that their runs meet (such as `Interleaved = FALSE`,
`OneDirector`, `NoEvening`).

## Plan

Done, in the order of importance: the retry queue, the supplementary versions, the earned
credits, the nightly sync, invoicing and units with the abstract specifications they
implement, transfers, scheduled tasks. Next would be:

1. `ReportVersions`: drafts, the change of a report's type while another user submits it.
2. `OperationRegistration` and `OperatorAccess`: the status of an operation with its BORO id,
   requests for access and their review.
3. A queue that promises "each recorded call is settled", refined by `RetryTasks` with one writer;
   "issued once, then approved", refined by `EarnedCredits`.

Bounds stay at the smallest instance in which two actors meet; runs that show a divergence gave
way to runs of new modules, their formulas staying above to be reproduced.

## Not modelled

Nine tenths of the source are migrations, forms, schemas, serializers and their routes: data
without behaviour of its own. Beyond them, not modelled are the components listed as such above, for
the reasons given, and these hazards, which no property covers: the process dies between the commit
of a submission and its on_commit work (nothing looks for it afterwards); a failed penalty whose
attempts are used up; the decrease that is checked before it is posted
(decreased_obligation_handler.py:705); `created_at.date()` in UTC against a due date in
Vancouver (penalty_calculation_service.py:92); two overlapping `run_tasks` jobs; `sync_tasks` for
one app deactivating all others; `cleanup_tasks` by hand, which deletes completed yearly tasks;
a draft whose type changes while another user submits it.
