------------------------------ MODULE Penalties ------------------------------
(***************************************************************************)
(* The nightly compliance sync of                                          *)
(* compliance/service/automated_process: every invoice is refreshed from   *)
(* eLicensing and shown to four handlers, which mark obligations as met,   *)
(* create penalties with an invoice of their own, and mark those as paid.  *)
(* A penalty that cannot be created goes to the retry queue.               *)
(*                                                                         *)
(* One run_tasks job at a time executes the sync and the retries, one      *)
(* database statement or eLicensing call per step.  Around it operators    *)
(* pay, with payments received earlier than they are entered, pages        *)
(* refresh the local copy of an invoice, and the on_commit work of a       *)
(* supplementary report settles an obligation.                             *)
(*                                                                         *)
(* Days are counted; the day does not change during a job, which lives for *)
(* 600 seconds at most.  Amounts are abstracted to the number of payments  *)
(* an obligation still needs, and to whether interest is owed.  A penalty  *)
(* invoice needs one payment and bears no interest.  Void invoices, the    *)
(* amount of a penalty, its accrual records and e-mails are left out.      *)
(***************************************************************************)
EXTENDS Integers, FiniteSets

CONSTANTS
  Obligation,    \* the obligations that reports may lead to
  Payments,      \* the payments each of them needs
  Deadline,      \* the day of the compliance deadline
  Grace,         \* the days (30 in the code) to pay a late supplementary obligation
  MaxDay,        \* bound: the last day that is told from the ones before
  Evening,       \* whether reports are submitted when it is already tomorrow in UTC
  MaxRetries,    \* max_retries of retryable_create_penalty (5 in the code)
  MaxFailures,   \* bound on the eLicensing calls that fail
  MaxKills,      \* bound on the jobs that are killed
  None

ASSUME DaysAssumption ==
  /\ {Deadline, Grace, MaxDay} \subseteq Nat
  /\ Deadline <= MaxDay
ASSUME BoundsAssumption ==
  /\ Payments \in Nat \ {0}
  /\ {MaxRetries, MaxFailures, MaxKills} \subseteq Nat
ASSUME EveningAssumption == Evening \subseteq BOOLEAN

VARIABLES
  today,       \* the date
  obligation,  \* rows of compliance_obligation, with the status of their version
  bill,        \* the invoices as eLicensing has them
  copy,        \* the rows of elicensing_invoice and of their payments
  penalty,     \* rows of compliance_penalty
  fined,       \* how many invoices eLicensing holds for a penalty
  queue,       \* the retry_task rows of the calls of create_penalty
  sync,        \* the scheduled task run_scheduled_compliance_sync
  job,         \* the run_tasks process
  decrease,    \* the on_commit work of a supplementary report that owes less
  failures, kills

vars == <<today, obligation, bill, copy, penalty, fined, queue, sync, job, decrease, failures, kills>>

Day == 0..MaxDay
PenaltyType == {"late", "overdue"}
Penalty == Obligation \X PenaltyType

\* The invoice of an obligation, and the ones of its penalties.
Invoice == Obligation \X ({"obligation"} \union PenaltyType)
Own(o) == <<o, "obligation">>
Ob(i) == i[1]
Kind(i) == i[2]

ComplianceStatus == {"not met", "met interest unpaid", "fully met"}
PenaltyStatus == {"none", "accruing", "not paid", "paid"}

ObligationRow == [supplementary: BOOLEAN, created: Day, evening: Evening,
                  status: ComplianceStatus, penalty_status: PenaltyStatus]
RetryRow == [status: {"failed", "running", "completed"}, count: 0..MaxRetries]
PenaltyRow == [status: {"not paid", "paid"}, number: BOOLEAN, linked: BOOLEAN]

\* fee and interest owed, and the last date a payment was received on
Balance == [fee: 0..Payments, interest: BOOLEAN, last: Day \union {None}]
Settled(b) == b.fee = 0 /\ ~b.interest

ASSUME NoneAssumption ==
  None \notin ObligationRow \cup RetryRow \cup PenaltyRow \cup Balance \cup Day

(***************************************************************************)
(* The dates a penalty depends on.  created_at is stored in UTC: a report  *)
(* of the evening is created on the next day there, while the invoice's    *)
(* due date is computed from the date in Vancouver.                        *)
(***************************************************************************)
UtcDate(r) == IF r.evening THEN r.created + 1 ELSE r.created

\* The due date that process_obligation_integration gives to the invoice.
DueDate(r) == IF r.created > Deadline THEN r.created + Grace ELSE Deadline

\* Mutant: only the deadline of the period counts.
EffectiveDeadline_NoGrace(r) == Deadline

HasLateSubmission(r) == UtcDate(r) > Deadline

EffectiveDeadline(r) ==
  IF r.supplementary /\ HasLateSubmission(r) THEN DueDate(r) ELSE Deadline

Later(d, e) == IF d = None \/ e > d THEN e ELSE d

(***************************************************************************)
(* The world around the job.                                               *)
(***************************************************************************)
Idle == [pc |-> "idle", mode |-> None, todo |-> {}, invoice |-> None, owed |-> None,
         status |-> None, plan |-> {}, type |-> None, deadline |-> "date"]

Init ==
  /\ today = 0
  /\ obligation = [o \in Obligation |-> None]
  /\ bill = [i \in Invoice |-> None]
  /\ copy = [i \in Invoice |-> None]
  /\ penalty = [p \in Penalty |-> None]
  /\ fined = [p \in Penalty |-> 0]
  /\ queue = [p \in Penalty |-> None]
  /\ sync = "waiting"
  /\ job = Idle
  /\ decrease = [o \in Obligation |-> "none"]
  /\ failures = 0
  /\ kills = 0

\* A day passes between two nights; the sync is due again unless it never ended.
NextDay ==
  /\ job.pc = "idle"
  /\ today' = IF today < MaxDay THEN today + 1 ELSE today
  /\ sync' = IF sync = "waiting" THEN "due" ELSE sync
  /\ today' # today \/ sync' # sync
  /\ UNCHANGED <<obligation, bill, copy, penalty, fined, queue, job, decrease, failures, kills>>

\* A report exceeds its limit, and its obligation is billed and linked in one transaction.
BillObligation(o, supplementary, evening) ==
  LET owed == [fee |-> Payments, interest |-> FALSE, last |-> None] IN
  /\ obligation[o] = None
  /\ obligation' = [obligation EXCEPT ![o] =
       [supplementary |-> supplementary, created |-> today, evening |-> evening,
        status |-> "not met", penalty_status |-> "none"]]
  /\ bill' = [bill EXCEPT ![Own(o)] = owed]
  /\ copy' = [copy EXCEPT ![Own(o)] = owed]
  /\ UNCHANGED <<today, penalty, fined, queue, sync, job, decrease, failures, kills>>

\* A payment of an obligation is entered in eLicensing that was received on day d.
PayFee(o, d) ==
  /\ bill[Own(o)] # None
  /\ bill[Own(o)].fee > 0
  /\ obligation[o].created <= d /\ d <= today
  /\ bill' = [bill EXCEPT ![Own(o)].fee = @ - 1, ![Own(o)].last = Later(@, d)]
  /\ UNCHANGED <<today, obligation, copy, penalty, fined, queue, sync, job, decrease, failures, kills>>

\* A penalty is paid.
PayPenalty(p) ==
  /\ bill[p] # None
  /\ bill[p].fee > 0
  /\ bill' = [bill EXCEPT ![p].fee = 0]
  /\ UNCHANGED <<today, obligation, copy, penalty, fined, queue, sync, job, decrease, failures, kills>>

\* FAA interest is added to an obligation that is owed after its due date, and is paid.
AddInterest(o) ==
  /\ bill[Own(o)] # None
  /\ bill[Own(o)].fee > 0 /\ ~bill[Own(o)].interest
  /\ DueDate(obligation[o]) < today
  /\ bill' = [bill EXCEPT ![Own(o)].interest = TRUE]
  /\ UNCHANGED <<today, obligation, copy, penalty, fined, queue, sync, job, decrease, failures, kills>>

PayInterest(o) ==
  /\ bill[Own(o)] # None
  /\ bill[Own(o)].interest
  /\ bill' = [bill EXCEPT ![Own(o)].interest = FALSE]
  /\ UNCHANGED <<today, obligation, copy, penalty, fined, queue, sync, job, decrease, failures, kills>>

\* A page that shows the invoice refreshes it.
RefreshPage(i) ==
  /\ copy[i] # None
  /\ copy[i] # bill[i]
  /\ copy' = [copy EXCEPT ![i] = bill[i]]
  /\ UNCHANGED <<today, obligation, bill, penalty, fined, queue, sync, job, decrease, failures, kills>>

\* DecreasedObligationHandler adjusts what is owed to nothing, dated to the fee's date, ...
PostDecrease(o) ==
  LET i == Own(o) IN
  /\ bill[i] # None
  /\ bill[i].fee > 0
  /\ decrease[o] = "none"
  /\ obligation[o].status = "not met"
  /\ bill' = [bill EXCEPT ![i].fee = 0, ![i].last = Later(@, obligation[o].created)]
  /\ copy' = [copy EXCEPT ![i] = bill'[i]]
  /\ decrease' = [decrease EXCEPT ![o] = "posted"]
  /\ UNCHANGED <<today, obligation, penalty, fined, queue, sync, job, failures, kills>>

\* ... and marks the version as met, so that the nightly sync does not.
MarkMet(o) ==
  /\ decrease[o] = "posted"
  /\ obligation' = [obligation EXCEPT ![o].status =
       IF copy[Own(o)].interest THEN "met interest unpaid" ELSE "fully met"]
  /\ decrease' = [decrease EXCEPT ![o] = "settled"]
  /\ UNCHANGED <<today, bill, copy, penalty, fined, queue, sync, job, failures, kills>>

World ==
  \/ NextDay
  \/ \E o \in Obligation, s \in BOOLEAN, e \in Evening: BillObligation(o, s, e)
  \/ \E o \in Obligation, d \in Day: PayFee(o, d)
  \/ \E p \in Penalty: PayPenalty(p)
  \/ \E o \in Obligation: AddInterest(o)
  \/ \E o \in Obligation: PayInterest(o)
  \/ \E i \in Invoice: RefreshPage(i)
  \/ \E o \in Obligation: PostDecrease(o)
  \/ \E o \in Obligation: MarkMet(o)

(***************************************************************************)
(* The sync.  The set of invoices is read once, and each is refreshed and  *)
(* then shown to the handlers in their order.                              *)
(***************************************************************************)
SyncStarts ==
  /\ job.pc = "idle"
  /\ sync = "due"
  /\ sync' = "running"
  /\ job' = [Idle EXCEPT !.pc = "pick", !.mode = "sync", !.todo = {i \in Invoice : copy[i] # None}]
  /\ UNCHANGED <<today, obligation, bill, copy, penalty, fined, queue, decrease, failures, kills>>

RefreshInvoice(i) ==
  /\ job.pc = "pick"
  /\ i \in job.todo
  /\ copy' = [copy EXCEPT ![i] = bill[i]]
  /\ job' = [job EXCEPT !.pc = IF Kind(i) = "obligation" THEN "accruing" ELSE "penalty",
                        !.todo = @ \ {i}, !.invoice = i, !.owed = bill[i]]
  /\ UNCHANGED <<today, obligation, bill, penalty, fined, queue, sync, decrease, failures, kills>>

\* Mutant: the task of an aborted sync is left as it is.
SyncAborts_StillRunning ==
  /\ job.pc = "pick"
  /\ job.todo # {}
  /\ failures < MaxFailures
  /\ failures' = failures + 1
  /\ job' = Idle
  /\ UNCHANGED <<today, obligation, bill, copy, penalty, fined, queue, sync, decrease, kills>>

\* A refresh raises: the other invoices have to wait for the next night.
SyncAborts ==
  /\ job.pc = "pick"
  /\ job.todo # {}
  /\ failures < MaxFailures
  /\ failures' = failures + 1
  /\ sync' = "waiting"
  /\ job' = Idle
  /\ UNCHANGED <<today, obligation, bill, copy, penalty, fined, queue, decrease, kills>>

SyncCompletes ==
  /\ job.pc = "pick"
  /\ job.todo = {}
  /\ sync' = "waiting"
  /\ job' = Idle
  /\ UNCHANGED <<today, obligation, bill, copy, penalty, fined, queue, decrease, failures, kills>>

AllPenaltiesPaid(o) ==
  \A p \in Penalty : Ob(p) = o /\ penalty[p] # None => penalty[p].linked /\ Settled(copy[p])

PenaltyPaid ==
  LET p == job.invoice  paid == penalty[p].status = "not paid" /\ Settled(job.owed) IN
  /\ job.pc = "penalty"
  /\ penalty' = IF paid THEN [penalty EXCEPT ![p].status = "paid"] ELSE penalty
  /\ obligation' = IF paid /\ AllPenaltiesPaid(Ob(p))
                   THEN [obligation EXCEPT ![Ob(p)].penalty_status = "paid"]
                   ELSE obligation
  /\ job' = [job EXCEPT !.pc = "pick", !.invoice = None, !.owed = None]
  /\ UNCHANGED <<today, bill, copy, fined, queue, sync, decrease, failures, kills>>

\* Mutant: the status of the version is not looked at.
StartsAccruing_Always(r, owed) == ~Settled(owed) /\ Deadline < today

StartsAccruing(r, owed) == r.status = "not met" /\ ~Settled(owed) /\ Deadline < today

\* The handlers after this one use the version as it is read here.
PenaltyAccruing ==
  LET o == Ob(job.invoice) IN
  /\ job.pc = "accruing"
  /\ obligation' = IF StartsAccruing(obligation[o], job.owed)
                   THEN [obligation EXCEPT ![o].penalty_status = "accruing"]
                   ELSE obligation
  /\ job' = [job EXCEPT !.pc = "met", !.status = obligation[o].status]
  /\ UNCHANGED <<today, bill, copy, penalty, fined, queue, sync, decrease, failures, kills>>

ObligationPaid ==
  LET o == Ob(job.invoice)
      status == IF job.owed.interest THEN "met interest unpaid" ELSE "fully met" IN
  /\ job.pc = "met"
  /\ job.status = "not met" /\ job.owed.fee = 0
  /\ obligation' = [obligation EXCEPT ![o].status = status]
  /\ job' = [job EXCEPT !.pc = "plan", !.status = status]
  /\ UNCHANGED <<today, bill, copy, penalty, fined, queue, sync, decrease, failures, kills>>

ObligationNotPaid ==
  /\ job.pc = "met"
  /\ ~(job.status = "not met" /\ job.owed.fee = 0)
  /\ job' = [job EXCEPT !.pc = "interest"]
  /\ UNCHANGED <<today, obligation, bill, copy, penalty, fined, queue, sync, decrease, failures, kills>>

\* Mutant: an obligation that was submitted late is not overdue as well.
PenaltiesDue_OnlyOne(r, paid) ==
  IF r.supplementary /\ HasLateSubmission(r) THEN {"late"}
  ELSE IF EffectiveDeadline(r) < today /\ paid > EffectiveDeadline(r) THEN {"overdue"} ELSE {}

\* What is late about an obligation whose last payment was received on day paid.
PenaltiesDue(r, paid) ==
  {t \in PenaltyType :
     \/ t = "late" /\ r.supplementary /\ HasLateSubmission(r)
     \/ t = "overdue" /\ EffectiveDeadline(r) < today /\ paid > EffectiveDeadline(r)}

PlanPenalties ==
  LET o == Ob(job.invoice) IN
  /\ job.pc = "plan"
  /\ job' = [job EXCEPT !.pc = "create", !.plan = PenaltiesDue(obligation[o], copy[Own(o)].last)]
  /\ UNCHANGED <<today, obligation, bill, copy, penalty, fined, queue, sync, decrease, failures, kills>>

InterestPaid ==
  LET o == Ob(job.invoice) IN
  /\ job.pc = "interest"
  /\ obligation' = IF job.status = "met interest unpaid" /\ ~job.owed.interest
                   THEN [obligation EXCEPT ![o].status = "fully met"]
                   ELSE obligation
  /\ job' = [job EXCEPT !.pc = "pick", !.invoice = None, !.owed = None, !.status = None]
  /\ UNCHANGED <<today, bill, copy, penalty, fined, queue, sync, decrease, failures, kills>>

(***************************************************************************)
(* create_penalty, called by ObligationPaidHandler or by a retry.          *)
(***************************************************************************)
Current == <<Ob(job.invoice), job.type>>

\* The late penalty comes first.
StartPenalty ==
  /\ job.pc = "create"
  /\ job.plan # {}
  /\ job' = [job EXCEPT !.pc = "start", !.type = IF "late" \in job.plan THEN "late" ELSE "overdue"]
  /\ UNCHANGED <<today, obligation, bill, copy, penalty, fined, queue, sync, decrease, failures, kills>>

\* An attempt raises: execute records it, or process_task counts it.
AttemptFailed ==
  /\ queue' = [queue EXCEPT ![Current] =
       [status |-> "failed", count |-> IF job.mode = "sync" THEN 0 ELSE @.count + 1]]
  /\ job' = IF job.mode = "sync"
            THEN [job EXCEPT !.pc = "create", !.plan = @ \ {job.type}, !.type = None]
            ELSE Idle

\* effective_deadline + timedelta(days=1) is a TypeError when it is a string.
DeadlineIsText ==
  /\ job.pc = "start"
  /\ job.deadline = "text"
  /\ AttemptFailed
  /\ UNCHANGED <<today, obligation, bill, copy, penalty, fined, sync, decrease, failures, kills>>

GetOrCreateRow ==
  /\ job.pc = "start"
  /\ job.deadline = "date"
  /\ penalty' = IF penalty[Current] # None THEN penalty
                ELSE [penalty EXCEPT ![Current] = [status |-> "not paid", number |-> FALSE, linked |-> FALSE]]
  /\ job' = [job EXCEPT !.pc = IF penalty'[Current].number THEN "refresh" ELSE "invoice"]
  /\ UNCHANGED <<today, obligation, bill, copy, fined, queue, sync, decrease, failures, kills>>

\* A call of eLicensing that does nothing.
CallFails ==
  /\ job.pc \in {"invoice", "refresh"}
  /\ failures < MaxFailures
  /\ failures' = failures + 1
  /\ AttemptFailed
  /\ UNCHANGED <<today, obligation, bill, copy, penalty, fined, sync, decrease, kills>>

\* eLicensing has a new invoice for the penalty.
NewInvoice ==
  /\ bill' = [bill EXCEPT ![Current] = [fee |-> 1, interest |-> FALSE, last |-> None]]
  /\ fined' = [fined EXCEPT ![Current] = IF @ < 2 THEN @ + 1 ELSE @]

CreateInvoice ==
  /\ job.pc = "invoice"
  /\ NewInvoice
  /\ job' = [job EXCEPT !.pc = "number"]
  /\ UNCHANGED <<today, obligation, copy, penalty, queue, sync, decrease, failures, kills>>

\* The invoice is created, but the answer is lost.
AnswerLost ==
  /\ job.pc = "invoice"
  /\ failures < MaxFailures
  /\ failures' = failures + 1
  /\ NewInvoice
  /\ AttemptFailed
  /\ UNCHANGED <<today, obligation, copy, penalty, sync, decrease, kills>>

SaveInvoiceNumber ==
  /\ job.pc = "number"
  /\ penalty' = [penalty EXCEPT ![Current].number = TRUE]
  /\ job' = [job EXCEPT !.pc = "refresh"]
  /\ UNCHANGED <<today, obligation, bill, copy, fined, queue, sync, decrease, failures, kills>>

IngestInvoice ==
  /\ job.pc = "refresh"
  /\ copy' = [copy EXCEPT ![Current] = bill[Current]]
  /\ job' = [job EXCEPT !.pc = "link"]
  /\ UNCHANGED <<today, obligation, bill, penalty, fined, queue, sync, decrease, failures, kills>>

LinkInvoice ==
  /\ job.pc = "link"
  /\ penalty' = [penalty EXCEPT ![Current].linked = TRUE]
  /\ job' = [job EXCEPT !.pc = "status"]
  /\ UNCHANGED <<today, obligation, bill, copy, fined, queue, sync, decrease, failures, kills>>

PenaltyCreated ==
  /\ job.pc = "status"
  /\ obligation' = [obligation EXCEPT ![Ob(job.invoice)].penalty_status = "not paid"]
  /\ queue' = IF job.mode = "retry" THEN [queue EXCEPT ![Current].status = "completed"] ELSE queue
  /\ job' = IF job.mode = "retry" THEN Idle
            ELSE [job EXCEPT !.pc = "create", !.plan = @ \ {job.type}, !.type = None]
  /\ UNCHANGED <<today, bill, copy, penalty, fined, sync, decrease, failures, kills>>

PenaltiesCreated ==
  /\ job.pc = "create"
  /\ job.plan = {}
  /\ job' = [job EXCEPT !.pc = "interest"]
  /\ UNCHANGED <<today, obligation, bill, copy, penalty, fined, queue, sync, decrease, failures, kills>>

\* Mutant: the retried call gets its deadline back as a date.
StoredDeadline_Decoded == "date"

\* Task.kwargs is JSON: a date is stored as a string and is not decoded.
StoredDeadline == "text"

\* Mutant: attempts are not counted.
CanRetry_Always(row) == row.status = "failed"

CanRetry(row) == row.status = "failed" /\ row.count < MaxRetries

RetryStarts(p) ==
  /\ job.pc = "idle"
  /\ queue[p] # None
  /\ CanRetry(queue[p])
  /\ queue' = [queue EXCEPT ![p].status = "running"]
  /\ job' = [Idle EXCEPT !.pc = "start", !.mode = "retry", !.invoice = Own(Ob(p)),
                         !.type = Kind(p), !.deadline = StoredDeadline]
  /\ UNCHANGED <<today, obligation, bill, copy, penalty, fined, sync, decrease, failures, kills>>

\* The job is killed, and what it executed stays RUNNING: get_due_tasks never returns it.
Kill ==
  /\ job.pc # "idle"
  /\ kills < MaxKills
  /\ kills' = kills + 1
  /\ job' = Idle
  /\ UNCHANGED <<today, obligation, bill, copy, penalty, fined, queue, sync, decrease, failures>>

JobStep ==
  \/ SyncStarts \/ SyncAborts \/ SyncCompletes
  \/ \E i \in Invoice: RefreshInvoice(i)
  \/ PenaltyPaid \/ PenaltyAccruing
  \/ ObligationPaid \/ ObligationNotPaid \/ PlanPenalties \/ InterestPaid
  \/ StartPenalty \/ DeadlineIsText \/ GetOrCreateRow
  \/ CallFails \/ CreateInvoice \/ AnswerLost \/ SaveInvoiceNumber
  \/ IngestInvoice \/ LinkInvoice \/ PenaltyCreated \/ PenaltiesCreated
  \/ \E p \in Penalty: RetryStarts(p)

Next == World \/ JobStep \/ Kill

Spec == Init /\ [][Next]_vars

\* A CronJob starts run_tasks every five minutes, each executes what is due, and the nights pass.
FairSpec ==
  /\ Spec
  /\ WF_vars(JobStep)
  /\ \A p \in Penalty : SF_vars(RetryStarts(p))
  /\ WF_vars(NextDay)

(***************************************************************************)
(* Properties.                                                             *)
(***************************************************************************)

\* Every variable has its type.
TypeOK ==
  /\ today \in Day
  /\ obligation \in [Obligation -> ObligationRow \union {None}]
  /\ bill \in [Invoice -> Balance \union {None}]
  /\ copy \in [Invoice -> Balance \union {None}]
  /\ penalty \in [Penalty -> PenaltyRow \union {None}]
  /\ fined \in [Penalty -> 0..2]
  /\ queue \in [Penalty -> RetryRow \union {None}]
  /\ sync \in {"waiting", "due", "running"}
  /\ decrease \in [Obligation -> {"none", "posted", "settled"}]
  /\ failures \in 0..MaxFailures
  /\ kills \in 0..MaxKills
  /\ job.todo \subseteq Invoice
  /\ job.plan \subseteq PenaltyType

\* No penalty is billed twice in eLicensing, whatever fails or is killed.  The
\* code does not look for an invoice whose number was lost; what it rests on is
\* that every retry raises at its stored deadline, before it reaches eLicensing
\* (the defect that LateIsEventuallyPenalised shows), and that the version is
\* saved as met, so that no later night plans the penalty again.
BilledOnce == \A p \in Penalty : fined[p] <= 1

\* What docs/compliance/penalties.md calls late: a supplementary obligation submitted after
\* the compliance deadline, and an obligation paid after its due date, which is the
\* deadline, or for such a supplementary one the end of the days of grace.
Deserved(o) ==
  LET r == obligation[o]
      late == r.supplementary /\ r.created > Deadline
      due == IF late THEN r.created + Grace ELSE Deadline
  IN {t \in PenaltyType : IF t = "late" THEN late ELSE bill[Own(o)].last > due}

\* A penalty exists only for an obligation that is paid, and was submitted or paid late
\* (get_penalty_accrual_context, ObligationPaidHandler).
PenaltyIsDeserved ==
  \A p \in Penalty : penalty[p] # None =>
    bill[Own(Ob(p))].fee = 0 /\ Kind(p) \in Deserved(Ob(p))

Met(o) == obligation[o] # None /\ obligation[o].status # "not met"
Linked(p) == penalty[p] # None /\ penalty[p].linked

\* Once the sync has marked an obligation as met, each of its penalties is billed and linked,
\* unless the attempt failed or was killed, or a supplementary report settled the obligation.
Working(o) == job.pc # "idle" /\ job.invoice = Own(o)
LateIsPenalised ==
  \A o \in Obligation :
    Met(o) /\ decrease[o] = "none" /\ ~Working(o) /\ kills = 0 =>
      \A t \in Deserved(o) :
        Linked(<<o, t>>) \/ queue[<<o, t>>] # None

\* docs/compliance/statuses.md: Paid does not move to any other state, however late the
\* handlers see the invoices of the obligation.
PaidIsFinal ==
  [][\A o \in Obligation : obligation[o] # None /\ obligation[o].penalty_status = "paid" =>
       obligation'[o].penalty_status = "paid"]_vars

\* A version that is fully met stays so, whoever marked it.
FullyMetIsFinal ==
  [][\A o \in Obligation : obligation[o] # None /\ obligation[o].status = "fully met" =>
       obligation'[o].status = "fully met"]_vars

\* A night comes that marks what is paid as met or paid, even if eLicensing fails,
\* as long as the job is not killed.
PaymentIsNoticed ==
  /\ \A o \in Obligation :
       (bill[Own(o)] # None /\ bill[Own(o)].fee = 0) ~> (Met(o) \/ kills > 0)
  /\ \A p \in Penalty :
       (Linked(p) /\ Settled(bill[p])) ~> ((Linked(p) /\ penalty[p].status = "paid") \/ kills > 0)

\* docs/compliance/statuses.md, Accruing: moves to Not Paid once the obligation has been paid.
\* With eLicensing failing now and then, what is late is penalised in the end.
LateIsEventuallyPenalised ==
  \A o \in Obligation :
    (Met(o) /\ decrease[o] = "none")
      ~> (Met(o) /\ \A t \in Deserved(o) : Linked(<<o, t>>))

=============================================================================
