-------------------------- MODULE ObligationInvoicing --------------------------
(***************************************************************************)
(* Invoices for the obligations of one operator                            *)
(* (compliance/service/elicensing/elicensing_obligation_service.py).       *)
(*                                                                         *)
(* An obligation is billed by the thread that submitted its report, by the *)
(* scheduled task of the one invoice generation date, and, after either    *)
(* failed, by the retry queue.  The last two run in the same run_tasks     *)
(* process, the worker.  Fee and invoice, the save of the invoice number   *)
(* and the link to the invoice are steps, since a call may fail, its       *)
(* answer may be lost and a process may die at each of them.  Reports that *)
(* supersede an obligation are in SupplementaryVersions.                   *)
(***************************************************************************)
EXTENDS Naturals, FiniteSets, RetryRow

CONSTANTS
  Obligation,   \* the obligations of the operator
  Worker,       \* the run_tasks process
  None,         \* no obligation: what an idle worker works on
  MaxFailures,  \* bound: calls to eLicensing that fail
  MaxCrashes    \* bound: processes that die, and days without a job

ASSUME WorkerAssumption == Worker \notin Obligation
ASSUME NoneAssumption == None \notin Obligation
ASSUME BoundsAssumption == MaxFailures \in Nat /\ MaxCrashes \in Nat

Process == Obligation \cup {Worker}  \* the thread of each obligation, the worker

VARIABLES
  row,         \* invoice_number and elicensing_invoice of each obligation
  crv,         \* status of its compliance report version
  task,        \* its row in the retry queue
  clients,     \* ElicensingClientOperator rows of the operator
  invoices,    \* external: the invoices eLicensing has for each obligation
  proc,        \* what each process is doing, with its copy of the row
  list,        \* obligations the scheduled task has read and not reached
  day,         \* before, on or after the invoice generation date
  generation,  \* the scheduled task of that day
  failures,    \* calls that failed so far
  crashes,     \* crashes so far
  waived,      \* auxiliary: obligations with two writers, or an invoice unknown
  dropped      \* auxiliary: obligations whose process died

vars == <<row, crv, task, clients, invoices, proc, list, day, generation,
          failures, crashes, waived, dropped>>

NoInvoice == [number |-> 0, linked |-> 0]

Step == {"idle", "starting", "client", "billing", "saving", "linking"}

At(pc, o, retry) == [pc |-> pc, ob |-> o, copy |-> NoInvoice, retry |-> retry]

IdleProcess(p) == At("idle", IF p = Worker THEN None ELSE p, FALSE)
StartOf(o, retry) == At("starting", o, retry)

Init ==
  /\ row = [o \in Obligation |-> NoInvoice]
  /\ crv = [o \in Obligation |-> "absent"]
  /\ task = [o \in Obligation |-> NoTask]
  /\ clients = 0
  /\ invoices = [o \in Obligation |-> 0]
  /\ proc = [p \in Process |-> IdleProcess(p)]
  /\ list = {}
  /\ day = "before"
  /\ generation = "waiting"
  /\ failures = 0
  /\ crashes = 0
  /\ waived = {}
  /\ dropped = {}

Idle(p) == proc[p].pc = "idle"

\* Is a process working on o?
Active(o) == \E p \in Process : ~Idle(p) /\ proc[p].ob = o

-----------------------------------------------------------------------------
(* handle_obligation_integration: a submitted report with an obligation *)

SubmitEarly(o) ==
  /\ crv[o] = "absent" /\ day = "before"
  /\ crv' = [crv EXCEPT ![o] = "pending_invoice"]
  /\ UNCHANGED <<row, task, clients, invoices, proc, list, day, generation,
                 failures, crashes, waived, dropped>>

\* on_commit: the thread goes on with the integration
SubmitDue(o) ==
  /\ crv[o] = "absent" /\ day # "before"
  /\ crv' = [crv EXCEPT ![o] = "not_met"]
  /\ proc' = [proc EXCEPT ![o] = StartOf(o, FALSE)]
  /\ UNCHANGED <<row, task, clients, invoices, list, day, generation,
                 failures, crashes, waived, dropped>>

-----------------------------------------------------------------------------
(* process_obligation_integration, in the thread or in the worker *)

\* Mutant: the invoice is not looked for after a failure
AfterClient_Always(copy) == "billing"

\* Only an obligation without a number is billed
AfterClient(copy) == IF copy.number = 0 THEN "billing" ELSE "linking"

\* The obligation is read, then the client is looked up; with two rows of the
\* client MultipleObjectsReturned is raised (Raises).
Starts(p) ==
  /\ proc[p].pc = "starting" /\ clients <= 1
  /\ LET copy == row[proc[p].ob] IN
     proc' = [proc EXCEPT ![p].copy = copy,
                          ![p].pc = IF clients = 0 THEN "client" ELSE AfterClient(copy)]
  /\ UNCHANGED <<row, crv, task, clients, invoices, list, day, generation,
                 failures, crashes, waived, dropped>>

\* Nothing keeps a second thread from having created the client meanwhile
CreateClient(p) ==
  /\ proc[p].pc = "client"
  /\ clients' = clients + 1
  /\ proc' = [proc EXCEPT ![p].pc = AfterClient(proc[p].copy)]
  /\ UNCHANGED <<row, crv, task, invoices, list, day, generation,
                 failures, crashes, waived, dropped>>

\* Fee and invoice; a fee without an invoice is nothing anybody pays
CreateInvoice(p) ==
  LET o == proc[p].ob IN
  /\ proc[p].pc = "billing"
  /\ invoices' = [invoices EXCEPT ![o] = invoices[o] + 1]
  /\ proc' = [proc EXCEPT ![p].pc = "saving",
                          ![p].copy = [number |-> invoices[o] + 1,
                                       linked |-> proc[p].copy.linked]]
  /\ UNCHANGED <<row, crv, task, clients, list, day, generation,
                 failures, crashes, waived, dropped>>

\* obligation.save() writes the whole copy
SaveNumber(p) ==
  /\ proc[p].pc = "saving"
  /\ row' = [row EXCEPT ![proc[p].ob] = proc[p].copy]
  /\ proc' = [proc EXCEPT ![p].pc = "linking"]
  /\ UNCHANGED <<crv, task, clients, invoices, list, day, generation,
                 failures, crashes, waived, dropped>>

Done(p) == proc' = [proc EXCEPT ![p] = IdleProcess(p)]

\* Mutant: the status is only set where the invoice was created
StatusOfLinked_Kept(o) == crv[o]

\* update_compliance_status of a version with an excess
StatusOfLinked(o) == "not_met"

\* The second try block: one transaction
Link(p) ==
  LET o == proc[p].ob
      number == proc[p].copy.number
  IN
  /\ proc[p].pc = "linking"
  /\ row' = [row EXCEPT ![o] = [number |-> number, linked |-> number]]
  /\ crv' = [crv EXCEPT ![o] = StatusOfLinked(o)]
  /\ task' = IF proc[p].retry THEN [task EXCEPT ![o] = NoTask] ELSE task
  /\ Done(p)
  /\ UNCHANGED <<clients, invoices, list, day, generation,
                 failures, crashes, waived, dropped>>

\* Either except clause sets the status and raises; a direct call is then
\* recorded in the retry queue, the attempt of a row is counted.
Raises(p) ==
  LET o == proc[p].ob IN
  /\ crv' = [crv EXCEPT ![o] = "pending_invoice"]
  /\ task' = [task EXCEPT ![o] = IF proc[p].retry THEN AttemptFailed(task[o])
                                                  ELSE Recorded(task[o])]
  /\ Done(p)

TwoClients(p) ==
  /\ proc[p].pc = "starting" /\ clients > 1
  /\ Raises(p)
  /\ UNCHANGED <<row, clients, invoices, list, day, generation,
                 failures, crashes, waived, dropped>>

CallFails(p) ==
  /\ proc[p].pc \in {"client", "billing", "linking"}
  /\ failures < MaxFailures
  /\ failures' = failures + 1
  /\ Raises(p)
  /\ UNCHANGED <<row, clients, invoices, list, day, generation,
                 crashes, waived, dropped>>

\* eLicensing has the invoice and the application never hears of it
AnswerLost(p) ==
  LET o == proc[p].ob IN
  /\ proc[p].pc = "billing"
  /\ failures < MaxFailures
  /\ failures' = failures + 1
  /\ invoices' = [invoices EXCEPT ![o] = invoices[o] + 1]
  /\ waived' = waived \cup {o}
  /\ Raises(p)
  /\ UNCHANGED <<row, clients, list, day, generation, crashes, dropped>>

\* The row of a retry stays running; a scheduled task as well, with what was
\* left of its list.
Crash(p) ==
  LET o == proc[p].ob IN
  /\ ~Idle(p)
  /\ crashes < MaxCrashes
  /\ crashes' = crashes + 1
  /\ dropped' = dropped \cup {o}
  /\ waived' = IF proc[p].pc = "saving" THEN waived \cup {o} ELSE waived
  /\ Done(p)
  /\ IF p = Worker /\ generation = "running"
       THEN generation' = "lost" /\ list' = {}
       ELSE UNCHANGED <<generation, list>>
  /\ UNCHANGED <<row, crv, task, clients, invoices, day, failures>>

-----------------------------------------------------------------------------
(* The worker: the scheduled task of the day, and the retries that are due *)

\* Mutant: versions that wait for their invoice are excluded
Uninvoiced_NotPending == {o \in Obligation : crv[o] = "not_met" /\ row[o].linked = 0}

\* _get_obligations_for_invoice_generation
Uninvoiced == {o \in Obligation : crv[o] # "absent" /\ row[o].linked = 0}

\* generate_invoices_for_current_period reads its list once
StartGeneration ==
  /\ day = "generation" /\ generation = "waiting" /\ Idle(Worker)
  /\ generation' = "running"
  /\ list' = Uninvoiced
  /\ UNCHANGED <<row, crv, task, clients, invoices, proc, day,
                 failures, crashes, waived, dropped>>

\* Nobody asks whether a thread is billing the obligation at this moment
NextObligation ==
  /\ generation = "running" /\ Idle(Worker)
  /\ \E o \in list :
       /\ proc' = [proc EXCEPT ![Worker] = StartOf(o, FALSE)]
       /\ list' = list \ {o}
       /\ waived' = IF Active(o) THEN waived \cup {o} ELSE waived
  /\ UNCHANGED <<row, crv, task, clients, invoices, day, generation,
                 failures, crashes, dropped>>

EndGeneration ==
  /\ generation = "running" /\ Idle(Worker) /\ list = {}
  /\ generation' = "finished"
  /\ UNCHANGED <<row, crv, task, clients, invoices, proc, list, day,
                 failures, crashes, waived, dropped>>

StartRetry(o) ==
  /\ generation # "running" /\ Idle(Worker)
  /\ Due(task[o])
  /\ task' = [task EXCEPT ![o] = Started(task[o])]
  /\ proc' = [proc EXCEPT ![Worker] = StartOf(o, TRUE)]
  /\ waived' = IF Active(o) THEN waived \cup {o} ELSE waived
  /\ UNCHANGED <<row, crv, clients, invoices, list, day, generation,
                 failures, crashes, dropped>>

\* The job does not run on the day; the next day is not the day any more
Outage ==
  /\ day = "generation" /\ generation = "waiting" /\ Idle(Worker)
  /\ crashes < MaxCrashes
  /\ crashes' = crashes + 1
  /\ generation' = "lost"
  /\ UNCHANGED <<row, crv, task, clients, invoices, proc, list, day,
                 failures, waived, dropped>>

\* A call takes seconds
Tick ==
  /\ \A p \in Process : Idle(p)
  /\ \/ day = "before" /\ day' = "generation"
     \/ day = "generation" /\ generation \in {"finished", "lost"} /\ day' = "after"
  /\ UNCHANGED <<row, crv, task, clients, invoices, proc, list, generation,
                 failures, crashes, waived, dropped>>

-----------------------------------------------------------------------------
Advance(p) ==
  \/ Starts(p) \/ CreateClient(p) \/ CreateInvoice(p) \/ SaveNumber(p)
  \/ Link(p) \/ TwoClients(p) \/ CallFails(p) \/ AnswerLost(p)

Work ==
  \/ Advance(Worker)
  \/ StartGeneration \/ NextObligation \/ EndGeneration
  \/ \E o \in Obligation : StartRetry(o)

Next ==
  \/ \E o \in Obligation : SubmitEarly(o) \/ SubmitDue(o) \/ Advance(o)
  \/ Work
  \/ \E p \in Process : Crash(p)
  \/ Outage
  \/ Tick

Spec == Init /\ [][Next]_vars

\* A thread that has begun goes on, the CronJob starts the worker again and
\* again, and days pass; nothing forces a submission, a failure or a crash.
Fairness ==
  /\ \A o \in Obligation : WF_vars(Advance(o))
  /\ WF_vars(Work)
  /\ WF_vars(Tick)

FairSpec == Spec /\ Fairness

-----------------------------------------------------------------------------
InvoiceFields == [number : Nat, linked : Nat]

\* The shape of the state
TypeOK ==
  /\ row \in [Obligation -> InvoiceFields]
  /\ crv \in [Obligation -> {"absent", "pending_invoice", "not_met"}]
  /\ task \in [Obligation -> TaskState]
  /\ clients \in Nat
  /\ invoices \in [Obligation -> Nat]
  /\ proc \in [Process -> [pc : Step, ob : Obligation \cup {None}, copy : InvoiceFields,
                           retry : BOOLEAN]]
  /\ \A p \in Process : Idle(p) \/ proc[p].ob \in Obligation
  /\ \A o \in Obligation : proc[o].ob = o
  /\ list \subseteq Obligation
  /\ day \in {"before", "generation", "after"}
  /\ generation \in {"waiting", "running", "finished", "lost"}
  /\ failures \in 0..MaxFailures
  /\ crashes \in 0..MaxCrashes
  /\ waived \subseteq Obligation
  /\ dropped \subseteq Obligation

\* The status of a version says whether its obligation has an invoice, as soon
\* as nobody works on the obligation: an obligation without one is pending, and
\* with one it is so only while a failed second attempt waits or was given up
\* (process_obligation_integration from thread, job and retries).
StatusAgrees ==
  \A o \in Obligation \ (waived \cup dropped) :
    (crv[o] # "absent" /\ ~Active(o)) =>
      /\ row[o].linked = 0 => crv[o] = "pending_invoice"
      /\ (row[o].linked # 0 /\ task[o].status = "none") => crv[o] = "not_met"

\* What billing promises
Bill == INSTANCE Billing WITH
  issued <- invoices,
  number <- [o \in Obligation |-> row[o].number],
  linked <- [o \in Obligation |-> row[o].linked # 0],
  waived <- waived

\* Threads, job and retries together bill as Billing promises: one invoice per
\* obligation, the number kept is the number of that invoice, a link is for
\* good, unless an obligation had two writers or eLicensing's answer was lost.
BilledAsPromised == Bill!Spec

\* Every obligation that was submitted gets its invoice, whichever day it was
\* submitted and whatever failed, unless its attempts are used up, its process
\* died, or the task of the one generation date did not do its work.
SubmittedIsBilled ==
  \A o \in Obligation :
    crv[o] # "absent" ~>
      (row[o].linked # 0 \/ Spent(task[o]) \/ o \in dropped \/ generation = "lost")
=============================================================================
