----------------------- MODULE ObligationInvoicing_proofs -----------------------
(***************************************************************************)
(* ObligationInvoicing implements Billing, for any number of obligations,  *)
(* retries, failing calls and crashes.  Agreed is the heart of the         *)
(* invariant: an obligation that is not waived has one process at a time,  *)
(* and the copy of that process tells how many invoices eLicensing has.    *)
(***************************************************************************)
EXTENDS ObligationInvoicing, TLAPS

\* An obligation that was not submitted is known to nobody
Submitted ==
  \A o \in Obligation :
    crv[o] = "absent" => ~Active(o) /\ o \notin list /\ task[o].status = "none"

WorksOn(p, o) == ~Idle(p) /\ proc[p].ob = o

Sole(o) == \A p, q \in Process : WorksOn(p, o) /\ WorksOn(q, o) => p = q

\* What the copy of the process at work on o says
CopyAgrees(p, o) ==
  /\ proc[p].pc = "client" => proc[p].copy = row[o]
  /\ proc[p].pc = "billing" => proc[p].copy = row[o] /\ row[o].number = 0
  /\ proc[p].pc = "saving" =>
       /\ row[o].number = 0 /\ invoices[o] = 1
       /\ proc[p].copy = [number |-> 1, linked |-> row[o].linked]
  /\ proc[p].pc = "linking" => row[o].number = 1 /\ proc[p].copy.number = 1

Agrees(o) ==
  /\ row[o].number \in {0, 1}
  /\ row[o].linked # 0 => row[o].number = 1
  /\ (\A p \in Process : ~(proc[p].pc = "saving" /\ proc[p].ob = o)) =>
       invoices[o] = row[o].number
  /\ Sole(o)
  /\ \A p \in Process : WorksOn(p, o) => CopyAgrees(p, o)

Agreed == \A o \in Obligation \ waived : Agrees(o)

IInv == TypeOK /\ Submitted /\ Agreed

\* One step of Billing, or none, for every obligation that is not waived
BillStep == Bill!Next \/ UNCHANGED Bill!vars

-----------------------------------------------------------------------------
(* The rows of the retry queue *)

LEMMA TaskTypes ==
  ASSUME NEW t \in TaskState
  PROVE  /\ NoTask \in TaskState
         /\ Recorded(t) \in TaskState
         /\ Started(t) \in TaskState
         /\ AttemptFailed(t) \in TaskState
  BY MaxRetriesAssumption DEF TaskState, NoTask, Recorded, Started, AttemptFailed, CanRetry

LEMMA TaskStates ==
  ASSUME NEW t \in TaskState
  PROVE  /\ Recorded(t).status # "none"
         /\ AttemptFailed(t).status # "none"
         /\ Started(t).status # "none"
         /\ Due(t) => t.status # "none"
  BY MaxRetriesAssumption
  DEF TaskState, NoTask, Recorded, Started, AttemptFailed, CanRetry, Due

LEMMA ProcessFacts ==
  /\ \A o \in Obligation : o \in Process /\ o # Worker
  /\ Worker \in Process
  /\ \A p \in Process : p = Worker \/ p \in Obligation
  BY WorkerAssumption DEF Process

-----------------------------------------------------------------------------
(* Types *)

Records == [pc : Step, ob : Obligation \cup {None}, copy : InvoiceFields, retry : BOOLEAN]

LEMMA RecordTypes ==
  /\ \A p \in Process : IdleProcess(p) \in Records
  /\ \A o \in Obligation, b \in BOOLEAN : StartOf(o, b) \in Records
  /\ \A o \in Obligation, b \in BOOLEAN : StartOf(o, b).ob = o
  /\ \A p \in Process : IdleProcess(p).pc = "idle"
  /\ \A o \in Obligation : IdleProcess(o).ob = o
  BY ProcessFacts
  DEF Records, IdleProcess, StartOf, At, NoInvoice, InvoiceFields, Step

LEMMA InitType == Init => TypeOK
  BY MaxRetriesAssumption, BoundsAssumption, ProcessFacts, RecordTypes
  DEF Init, TypeOK, NoInvoice, InvoiceFields, TaskState, NoTask, Records, Idle

ProcType ==
  /\ proc \in [Process -> Records]
  /\ \A p \in Process : Idle(p) \/ proc[p].ob \in Obligation
  /\ \A o \in Obligation : proc[o].ob = o

LEMMA MoveType ==
  ASSUME TypeOK, NEW p \in Process, NEW q \in Records,
         proc' = [proc EXCEPT ![p] = q],
         q.pc = "idle" \/ q.ob \in Obligation,
         p \in Obligation => q.ob = p
  PROVE  ProcType'
  BY ProcessFacts DEF TypeOK, Idle, Records, ProcType

LEMMA DoneType ==
  ASSUME TypeOK, NEW p \in Process, Done(p)
  PROVE  ProcType'
  BY ProcessFacts, RecordTypes, MoveType DEF Done

LEMMA RaisesType ==
  ASSUME TypeOK, NEW p \in Process, ~Idle(p), Raises(p)
  PROVE  /\ crv' \in [Obligation -> {"absent", "pending_invoice", "not_met"}]
         /\ task' \in [Obligation -> TaskState]
         /\ ProcType'
<1>1. proc[p].ob \in Obligation
  BY DEF TypeOK
<1>2. task' \in [Obligation -> TaskState]
  BY <1>1, TaskTypes DEF TypeOK, Raises
<1> QED
  BY <1>1, <1>2, DoneType DEF TypeOK, Raises

LEMMA NextType == TypeOK /\ [Next]_vars => TypeOK'
<1> SUFFICES ASSUME TypeOK, [Next]_vars PROVE TypeOK'
  OBVIOUS
<1> USE ProcessFacts DEF Records, ProcType
<1>1. ASSUME NEW o \in Obligation, SubmitEarly(o) PROVE TypeOK'
  BY <1>1 DEF SubmitEarly, TypeOK, Idle
<1>2. ASSUME NEW o \in Obligation, SubmitDue(o) PROVE TypeOK'
  <2>1. ProcType'
    BY <1>2, RecordTypes, MoveType DEF SubmitDue
  <2> QED
    BY <1>2, <2>1 DEF SubmitDue, TypeOK
<1>3. ASSUME NEW p \in Process, Starts(p) PROVE TypeOK'
  BY <1>3 DEF Starts, TypeOK, Idle, Step, AfterClient
<1>4. ASSUME NEW p \in Process, CreateClient(p) PROVE TypeOK'
  BY <1>4 DEF CreateClient, TypeOK, Idle, Step, AfterClient
<1>5. ASSUME NEW p \in Process, CreateInvoice(p) PROVE TypeOK'
  <2>1. proc[p].ob \in Obligation
    BY <1>5 DEF CreateInvoice, TypeOK, Idle
  <2> DEFINE c == [number |-> invoices[proc[p].ob] + 1, linked |-> proc[p].copy.linked]
             q == [proc[p] EXCEPT !.pc = "saving", !.copy = c]
  <2>2. q \in Records /\ q.ob = proc[p].ob
    <3>1. proc[p] \in Records /\ invoices[proc[p].ob] \in Nat
      BY <2>1 DEF TypeOK
    <3>2. proc[p].copy \in InvoiceFields
      BY <3>1
    <3>3. c \in InvoiceFields
      BY <3>1, <3>2 DEF InvoiceFields
    <3> HIDE DEF c
    <3> QED
      BY <3>1, <3>3 DEF Step
  <2>3. proc' = [proc EXCEPT ![p] = q]
    BY <1>5 DEF CreateInvoice, TypeOK
  <2> HIDE DEF q
  <2>4. ProcType'
    BY <2>1, <2>2, <2>3, MoveType DEF TypeOK
  <2> QED
    BY <1>5, <2>1, <2>4 DEF CreateInvoice, TypeOK
<1>6. ASSUME NEW p \in Process, SaveNumber(p) PROVE TypeOK'
  BY <1>6 DEF SaveNumber, TypeOK, Idle, Step
<1>7. ASSUME NEW p \in Process, Link(p) PROVE TypeOK'
  <2>1. proc[p].ob \in Obligation
    BY <1>7 DEF Link, TypeOK, Idle
  <2>2. task' \in [Obligation -> TaskState]
    BY <1>7, <2>1, TaskTypes DEF Link, TypeOK
  <2>3. row' \in [Obligation -> InvoiceFields]
    BY <1>7 DEF Link, TypeOK, InvoiceFields
  <2> QED
    BY <1>7, <2>2, <2>3, DoneType DEF Link, StatusOfLinked, TypeOK
<1>8. ASSUME NEW p \in Process, TwoClients(p) PROVE TypeOK'
  BY <1>8, RaisesType DEF TwoClients, TypeOK, Idle
<1>9. ASSUME NEW p \in Process, CallFails(p) PROVE TypeOK'
  BY <1>9, RaisesType, BoundsAssumption DEF CallFails, TypeOK, Idle
<1>10. ASSUME NEW p \in Process, AnswerLost(p) PROVE TypeOK'
  <2>1. ~Idle(p) /\ proc[p].ob \in Obligation
    BY <1>10 DEF AnswerLost, TypeOK, Idle
  <2> QED
    BY <1>10, <2>1, RaisesType, BoundsAssumption DEF AnswerLost, TypeOK
<1>11. ASSUME NEW p \in Process, Crash(p) PROVE TypeOK'
  <2>1. proc[p].ob \in Obligation
    BY <1>11 DEF Crash, TypeOK
  <2> QED
    BY <1>11, <2>1, DoneType, BoundsAssumption DEF Crash, TypeOK
<1>12. ASSUME StartGeneration PROVE TypeOK'
  BY <1>12 DEF StartGeneration, Uninvoiced, TypeOK, Idle
<1>13. ASSUME NextObligation PROVE TypeOK'
  <2>1. PICK o \in list : /\ proc' = [proc EXCEPT ![Worker] = StartOf(o, FALSE)]
                          /\ list' = list \ {o}
                          /\ waived' = IF Active(o) THEN waived \cup {o} ELSE waived
    BY <1>13 DEF NextObligation
  <2>2. o \in Obligation
    BY DEF TypeOK
  <2>3. ProcType'
    BY <2>1, <2>2, RecordTypes, MoveType, WorkerAssumption
  <2> QED
    BY <1>13, <2>1, <2>2, <2>3 DEF NextObligation, TypeOK
<1>14. ASSUME EndGeneration PROVE TypeOK'
  BY <1>14 DEF EndGeneration, TypeOK, Idle
<1>15. ASSUME NEW o \in Obligation, StartRetry(o) PROVE TypeOK'
  <2>1. ProcType'
    BY <1>15, RecordTypes, MoveType, WorkerAssumption DEF StartRetry
  <2>2. task' \in [Obligation -> TaskState]
    BY <1>15, TaskTypes DEF StartRetry, TypeOK
  <2> QED
    BY <1>15, <2>1, <2>2 DEF StartRetry, TypeOK
<1>16. ASSUME Outage PROVE TypeOK'
  BY <1>16, BoundsAssumption DEF Outage, TypeOK, Idle
<1>17. ASSUME Tick PROVE TypeOK'
  BY <1>17 DEF Tick, TypeOK, Idle
<1>18. ASSUME UNCHANGED vars PROVE TypeOK'
  BY <1>18 DEF vars, TypeOK, Idle
<1> QED
  BY <1>1, <1>2, <1>3, <1>4, <1>5, <1>6, <1>7, <1>8, <1>9, <1>10, <1>11, <1>12,
     <1>13, <1>14, <1>15, <1>16, <1>17, <1>18
  DEF Next, Work, Advance
-----------------------------------------------------------------------------
(* The process at work on an obligation *)

\* A step of p that concerns o leaves every other obligation as it was
LEMMA OthersAgree ==
  ASSUME TypeOK, NEW p \in Process, NEW o \in Obligation, NEW other \in Obligation,
         NEW q \in Records, proc' = [proc EXCEPT ![p] = q],
         Idle(p) \/ proc[p].ob = o,
         q.pc = "idle" \/ q.ob = o,
         other # o,
         row'[other] = row[other], invoices'[other] = invoices[other],
         Agrees(other)
  PROVE  Agrees(other)'
<1>1. \A r \in Process : r # p => proc'[r] = proc[r]
  BY DEF TypeOK
<1>2. proc'[p] = q
  BY DEF TypeOK
<1>3. \A r \in Process : WorksOn(r, other)' => r # p /\ WorksOn(r, other)
  BY <1>1, <1>2 DEF WorksOn, Idle
<1>4. \A r \in Process : WorksOn(r, other) => r # p /\ proc'[r] = proc[r]
  BY <1>1 DEF WorksOn, Idle
<1>5. Sole(other)'
  BY <1>3 DEF Agrees, Sole
<1>6. \A r \in Process : WorksOn(r, other)' => CopyAgrees(r, other)'
  BY <1>1, <1>3 DEF Agrees, CopyAgrees
<1>7. (\A r \in Process : ~(proc'[r].pc = "saving" /\ proc'[r].ob = other))
        => (\A r \in Process : ~(proc[r].pc = "saving" /\ proc[r].ob = other))
  BY <1>4 DEF WorksOn, Idle
<1> QED
  BY <1>5, <1>6, <1>7 DEF Agrees

\* The process that works on o alone: what it may leave behind
LEMMA OwnAgrees ==
  ASSUME TypeOK, NEW p \in Process, NEW o \in Obligation,
         NEW q \in Records, proc' = [proc EXCEPT ![p] = q],
         \A r \in Process : WorksOn(r, o) => r = p,
         q.pc = "idle" \/ q.ob = o,
         row'[o].number \in {0, 1},
         row'[o].linked # 0 => row'[o].number = 1,
         q.pc # "saving" => invoices'[o] = row'[o].number,
         q.pc # "idle" => CopyAgrees(p, o)'
  PROVE  Agrees(o)'
<1>1. \A r \in Process : r # p => proc'[r] = proc[r]
  BY DEF TypeOK
<1>2. proc'[p] = q
  BY DEF TypeOK
<1>3. \A r \in Process : WorksOn(r, o)' => r = p
  BY <1>1 DEF WorksOn, Idle
<1>4. Sole(o)'
  BY <1>3 DEF Sole
<1>5. q.pc = "saving" => q.ob = o
  OBVIOUS
<1> QED
  BY <1>2, <1>3, <1>4, <1>5 DEF Agrees, WorksOn, Idle

-----------------------------------------------------------------------------
(* What each action does to the process that takes it *)

LEMMA SubmitDueEffect ==
  ASSUME IInv, NEW o \in Obligation, SubmitDue(o)
  PROVE  /\ Submitted' /\ Agreed' /\ BillStep
<1>1. o \in Process /\ StartOf(o, FALSE) \in Records /\ StartOf(o, FALSE).ob = o
  BY ProcessFacts, RecordTypes
<1>2. proc' = [proc EXCEPT ![o] = StartOf(o, FALSE)]
  BY DEF SubmitDue
<1>3. ~Active(o)
  BY DEF IInv, Submitted, SubmitDue
<1>4. Idle(o)
  BY <1>1, <1>3 DEF Active, IInv, TypeOK
<1>5. ASSUME NEW other \in Obligation \ waived PROVE Agrees(other)'
  <2>1. Agrees(other)
    BY DEF IInv, Agreed
  <2>2. CASE other # o
    BY <1>1, <1>2, <1>4, <2>1, <2>2, OthersAgree DEF IInv, SubmitDue
  <2>3. CASE other = o
    <3>1. StartOf(o, FALSE).pc = "starting"
      BY DEF StartOf, At
    <3>2. \A r \in Process : ~WorksOn(r, o)
      BY <1>3 DEF Active, WorksOn
    <3>3. CopyAgrees(o, o)'
      BY <1>1, <1>2, <3>1 DEF CopyAgrees, IInv, TypeOK
    <3>4. invoices[o] = row[o].number
      BY <2>1, <2>3, <3>2 DEF Agrees, WorksOn, Idle
    <3> QED
      BY <1>1, <1>2, <2>1, <2>3, <3>1, <3>2, <3>3, <3>4, OwnAgrees
      DEF IInv, SubmitDue, Agrees
  <2> QED
    BY <2>2, <2>3
<1>6. Submitted'
  <2> SUFFICES ASSUME NEW other \in Obligation, crv'[other] = "absent"
               PROVE  ~Active(other)' /\ other \notin list' /\ task'[other].status = "none"
    BY DEF Submitted
  <2>1. other # o /\ crv[other] = "absent"
    BY DEF SubmitDue, IInv, TypeOK
  <2>2. ~Active(other) /\ other \notin list' /\ task'[other].status = "none"
    BY <2>1 DEF SubmitDue, IInv, Submitted
  <2> QED
    BY <1>1, <1>2, <2>1, <2>2 DEF Active, Idle, IInv, TypeOK
<1> QED
  BY <1>5, <1>6 DEF SubmitDue, Agreed, BillStep, Bill!vars

\* A process that is at work: what its step must show, as q for its new state
LEMMA WorkSubmitted ==
  ASSUME IInv, NEW p \in Process, ~Idle(p), NEW q \in Records,
         proc' = [proc EXCEPT ![p] = q],
         q.pc = "idle" \/ q.ob = proc[p].ob,
         list' \subseteq list,
         \A x \in Obligation : crv'[x] = "absent" => crv[x] = "absent",
         \A x \in Obligation : x = proc[p].ob \/ task'[x] = task[x]
  PROVE  Submitted'
<1>1. proc[p].ob \in Obligation /\ crv[proc[p].ob] # "absent"
  BY DEF IInv, TypeOK, Submitted, Active
<1> SUFFICES ASSUME NEW x \in Obligation, crv'[x] = "absent"
             PROVE  ~Active(x)' /\ x \notin list' /\ task'[x].status = "none"
  BY DEF Submitted
<1>2. crv[x] = "absent" /\ x # proc[p].ob
  BY <1>1
<1>3. ~Active(x) /\ x \notin list /\ task'[x].status = "none"
  BY <1>2 DEF IInv, Submitted
<1> QED
  BY <1>2, <1>3 DEF Active, Idle, IInv, TypeOK

LEMMA WorkAgreed ==
  ASSUME IInv, NEW p \in Process, ~Idle(p), NEW q \in Records, NEW o \in Obligation,
         o = proc[p].ob,
         proc' = [proc EXCEPT ![p] = q],
         q.pc = "idle" \/ q.ob = o,
         \A x \in Obligation : x # o => row'[x] = row[x] /\ invoices'[x] = invoices[x],
         waived \subseteq waived',
         (o \notin waived' /\ Agrees(o) /\ CopyAgrees(p, o)) =>
           /\ row'[o].number \in {0, 1}
           /\ row'[o].linked # 0 => row'[o].number = 1
           /\ q.pc # "saving" => invoices'[o] = row'[o].number
           /\ q.pc # "idle" => CopyAgrees(p, o)'
  PROVE  Agreed'
<1> SUFFICES ASSUME NEW x \in Obligation \ waived' PROVE Agrees(x)'
  BY DEF Agreed
<1>1. Agrees(x)
  BY DEF IInv, Agreed
<1>2. CASE x # o
  BY <1>1, <1>2, OthersAgree DEF IInv
<1>3. CASE x = o
  <2>1. CopyAgrees(p, o) /\ \A r \in Process : WorksOn(r, o) => r = p
    BY <1>1, <1>3 DEF Agrees, WorksOn, Sole
  <2> QED
    BY <1>1, <1>3, <2>1, OwnAgrees DEF IInv
<1> QED
  BY <1>2, <1>3

\* If a process works on o and does not save, eLicensing has what o shows
LEMMA Counted ==
  ASSUME IInv, NEW p \in Process, ~Idle(p), proc[p].pc # "saving",
         Agrees(proc[p].ob), proc[p].ob \in Obligation
  PROVE  invoices[proc[p].ob] = row[proc[p].ob].number
<1>1. \A r \in Process : proc[r].ob = proc[p].ob /\ ~Idle(r) => r = p
  BY DEF Agrees, Sole, WorksOn
<1> QED
  BY <1>1 DEF Agrees, Idle

LEMMA StartsEffect ==
  ASSUME IInv, NEW p \in Process, Starts(p)
  PROVE  /\ Submitted' /\ Agreed' /\ BillStep
<1>1. PICK o \in Obligation : o = proc[p].ob /\ ~Idle(p)
  BY DEF Starts, Idle, IInv, TypeOK
<1> DEFINE step == IF clients = 0 THEN "client" ELSE AfterClient(row[o])
           q == [proc[p] EXCEPT !.copy = row[o], !.pc = step]
<1>2. /\ q \in Records /\ q.ob = o /\ q.pc = step /\ q.copy = row[o]
      /\ proc' = [proc EXCEPT ![p] = q]
  BY <1>1 DEF Starts, IInv, TypeOK, Records, Step, AfterClient
<1>3. step \in {"client", "billing", "linking"}
  BY DEF AfterClient
<1>4. (o \notin waived' /\ Agrees(o) /\ CopyAgrees(p, o)) =>
         /\ row'[o].number \in {0, 1}
         /\ row'[o].linked # 0 => row'[o].number = 1
         /\ q.pc # "saving" => invoices'[o] = row'[o].number
         /\ q.pc # "idle" => CopyAgrees(p, o)'
  <2> HAVE o \notin waived' /\ Agrees(o) /\ CopyAgrees(p, o)
  <2>1. row' = row /\ invoices' = invoices /\ proc'[p] = q
    BY <1>2 DEF Starts, IInv, TypeOK
  <2>2. invoices[o] = row[o].number
    BY <1>1, Counted DEF Starts
  <2>3. CopyAgrees(p, o)'
    BY <1>2, <1>3, <2>1 DEF CopyAgrees, AfterClient, Agrees
  <2> QED
    BY <2>1, <2>2, <2>3 DEF Agrees
<1> HIDE DEF q, step
<1>5. Submitted'
  BY <1>1, <1>2, WorkSubmitted DEF Starts
<1>6. Agreed'
  <2>1. waived' = waived /\ row' = row /\ invoices' = invoices
    BY DEF Starts
  <2> QED
    BY <1>1, <1>2, <1>4, <2>1, WorkAgreed
<1> QED
  BY <1>5, <1>6 DEF Starts, BillStep, Bill!vars

LEMMA CreateClientEffect ==
  ASSUME IInv, NEW p \in Process, CreateClient(p)
  PROVE  /\ Submitted' /\ Agreed' /\ BillStep
<1>1. PICK o \in Obligation : o = proc[p].ob /\ ~Idle(p)
  BY DEF CreateClient, Idle, IInv, TypeOK
<1> DEFINE q == [proc[p] EXCEPT !.pc = AfterClient(proc[p].copy)]
<1>2. /\ q \in Records /\ q.ob = o /\ q.pc = AfterClient(q.copy) /\ q.copy = proc[p].copy
      /\ proc' = [proc EXCEPT ![p] = q]
  BY <1>1 DEF CreateClient, IInv, TypeOK, Records, Step, AfterClient
<1>3. (o \notin waived' /\ Agrees(o) /\ CopyAgrees(p, o)) =>
         /\ row'[o].number \in {0, 1}
         /\ row'[o].linked # 0 => row'[o].number = 1
         /\ q.pc # "saving" => invoices'[o] = row'[o].number
         /\ q.pc # "idle" => CopyAgrees(p, o)'
  <2> HAVE o \notin waived' /\ Agrees(o) /\ CopyAgrees(p, o)
  <2>1. row' = row /\ invoices' = invoices /\ proc'[p] = q
    BY <1>2 DEF CreateClient, IInv, TypeOK
  <2>2. invoices[o] = row[o].number
    BY <1>1, Counted DEF CreateClient
  <2>3. CopyAgrees(p, o)'
    BY <1>2, <2>1 DEF CopyAgrees, AfterClient, Agrees, CreateClient
  <2> QED
    BY <2>1, <2>2, <2>3 DEF Agrees
<1> HIDE DEF q
<1>4. Submitted'
  BY <1>1, <1>2, WorkSubmitted DEF CreateClient
<1>5. Agreed'
  <2>1. waived' = waived /\ row' = row /\ invoices' = invoices
    BY DEF CreateClient
  <2> QED
    BY <1>1, <1>2, <1>3, <2>1, WorkAgreed
<1> QED
  BY <1>4, <1>5 DEF CreateClient, BillStep, Bill!vars

LEMMA CreateInvoiceEffect ==
  ASSUME IInv, NEW p \in Process, CreateInvoice(p)
  PROVE  /\ Submitted' /\ Agreed' /\ BillStep
<1>1. PICK o \in Obligation : o = proc[p].ob /\ ~Idle(p)
  BY DEF CreateInvoice, Idle, IInv, TypeOK
<1>2. PICK c \in InvoiceFields : c = [number |-> invoices[o] + 1, linked |-> proc[p].copy.linked]
  <2>1. proc[p] \in Records /\ invoices[o] \in Nat
    BY DEF IInv, TypeOK, Records
  <2>2. proc[p].copy \in InvoiceFields
    BY <2>1 DEF Records
  <2>3. [number |-> invoices[o] + 1, linked |-> proc[p].copy.linked] \in InvoiceFields
    BY <2>1, <2>2 DEF InvoiceFields
  <2> QED
    BY <2>3
<1>3. c = [number |-> invoices[o] + 1, linked |-> proc[p].copy.linked]
  BY <1>2
<1> DEFINE q == [proc[p] EXCEPT !.pc = "saving", !.copy = c]
<1>4. /\ q \in Records /\ q.ob = o /\ q.pc = "saving" /\ q.copy = c
      /\ proc' = [proc EXCEPT ![p] = q]
  <2>1. proc[p] \in Records
    BY DEF IInv, TypeOK, Records
  <2>2. q \in Records /\ q.ob = o /\ q.pc = "saving" /\ q.copy = c
    BY <1>1, <1>2, <2>1 DEF Records, Step
  <2>3. proc' = [proc EXCEPT ![p] = q]
    BY <1>1, <1>3 DEF CreateInvoice, IInv, TypeOK
  <2> QED
    BY <2>2, <2>3
<1>5. /\ invoices' = [invoices EXCEPT ![o] = invoices[o] + 1]
      /\ row' = row /\ waived' = waived /\ proc'[p] = q
  BY <1>1, <1>4 DEF CreateInvoice, IInv, TypeOK
<1>6. (Agrees(o) /\ CopyAgrees(p, o)) => invoices[o] = 0 /\ row[o].number = 0
  BY <1>1, Counted DEF CreateInvoice, CopyAgrees
<1>7. (o \notin waived' /\ Agrees(o) /\ CopyAgrees(p, o)) =>
         /\ row'[o].number \in {0, 1}
         /\ row'[o].linked # 0 => row'[o].number = 1
         /\ q.pc # "saving" => invoices'[o] = row'[o].number
         /\ q.pc # "idle" => CopyAgrees(p, o)'
  <2> HAVE o \notin waived' /\ Agrees(o) /\ CopyAgrees(p, o)
  <2>1. proc[p].copy = row[o] /\ c = [number |-> 1, linked |-> row[o].linked]
    BY <1>2, <1>6 DEF CreateInvoice, CopyAgrees
  <2>2. invoices'[o] = 1
    BY <1>5, <1>6 DEF IInv, TypeOK
  <2>3. CopyAgrees(p, o)'
    BY <1>4, <1>5, <1>6, <2>1, <2>2 DEF CopyAgrees
  <2> QED
    BY <1>4, <1>5, <2>3 DEF Agrees
<1> HIDE DEF q
<1>8. Submitted'
  BY <1>1, <1>4, WorkSubmitted DEF CreateInvoice
<1>9. Agreed'
  <2>1. \A x \in Obligation : x # o => row'[x] = row[x] /\ invoices'[x] = invoices[x]
    BY <1>5 DEF IInv, TypeOK
  <2> QED
    BY <1>1, <1>4, <1>5, <1>7, <2>1, WorkAgreed
<1>10. Bill!Next
  <2> SUFFICES ASSUME NEW x \in Obligation \ waived' PROVE Bill!Issue(x) \/ Bill!Kept(x)
    BY <1>5 DEF Bill!Next
  <2>1. CASE x # o
    BY <1>5, <2>1 DEF Bill!Kept, IInv, TypeOK
  <2>2. CASE x = o
    <3>1. Agrees(o) /\ CopyAgrees(p, o)
      BY <1>1, <1>5, <2>2 DEF IInv, Agreed, Agrees, WorksOn
    <3> QED
      BY <1>5, <1>6, <2>2, <3>1 DEF Bill!Issue, IInv, TypeOK
  <2> QED
    BY <2>1, <2>2
<1> QED
  BY <1>8, <1>9, <1>10 DEF BillStep

LEMMA SaveNumberEffect ==
  ASSUME IInv, NEW p \in Process, SaveNumber(p)
  PROVE  /\ Submitted' /\ Agreed' /\ BillStep
<1>1. PICK o \in Obligation : o = proc[p].ob /\ ~Idle(p)
  BY DEF SaveNumber, Idle, IInv, TypeOK
<1> DEFINE q == [proc[p] EXCEPT !.pc = "linking"]
<1>2. /\ q \in Records /\ q.ob = o /\ q.pc = "linking" /\ q.copy = proc[p].copy
      /\ proc' = [proc EXCEPT ![p] = q]
  BY <1>1 DEF SaveNumber, IInv, TypeOK, Records, Step
<1>3. /\ row' = [row EXCEPT ![o] = proc[p].copy]
      /\ invoices' = invoices /\ waived' = waived /\ proc'[p] = q
  BY <1>1, <1>2 DEF SaveNumber, IInv, TypeOK
<1>4. (Agrees(o) /\ CopyAgrees(p, o)) =>
         /\ row[o].number = 0 /\ row[o].linked = 0 /\ invoices[o] = 1
         /\ row'[o] = [number |-> 1, linked |-> 0]
         /\ proc[p].copy.number = 1
  BY <1>1, <1>3 DEF SaveNumber, CopyAgrees, Agrees, IInv, TypeOK
<1>5. (o \notin waived' /\ Agrees(o) /\ CopyAgrees(p, o)) =>
         /\ row'[o].number \in {0, 1}
         /\ row'[o].linked # 0 => row'[o].number = 1
         /\ q.pc # "saving" => invoices'[o] = row'[o].number
         /\ q.pc # "idle" => CopyAgrees(p, o)'
  <2> HAVE o \notin waived' /\ Agrees(o) /\ CopyAgrees(p, o)
  <2> HIDE DEF q
  <2>1. CopyAgrees(p, o)'
    BY <1>2, <1>3, <1>4 DEF CopyAgrees
  <2> QED
    BY <1>2, <1>3, <1>4, <2>1
<1> HIDE DEF q
<1>6. Submitted'
  BY <1>1, <1>2, WorkSubmitted DEF SaveNumber
<1>7. \A x \in Obligation : x # o => row'[x] = row[x] /\ invoices'[x] = invoices[x]
  BY <1>3 DEF IInv, TypeOK
<1>8. Agreed'
  BY <1>1, <1>2, <1>3, <1>5, <1>7, WorkAgreed
<1>9. Bill!Next
  <2> SUFFICES ASSUME NEW x \in Obligation \ waived' PROVE Bill!Record(x) \/ Bill!Kept(x)
    BY <1>3 DEF Bill!Next
  <2>1. CASE x # o
    BY <1>7, <2>1 DEF Bill!Kept
  <2>2. CASE x = o
    <3>1. Agrees(o) /\ CopyAgrees(p, o)
      BY <1>1, <1>3, <2>2 DEF IInv, Agreed, Agrees, WorksOn
    <3> QED
      BY <1>3, <1>4, <2>2, <3>1 DEF Bill!Record
  <2> QED
    BY <2>1, <2>2
<1> QED
  BY <1>6, <1>8, <1>9 DEF BillStep

\* A process that ends its work on o
LEMMA DoneEffect ==
  ASSUME IInv, NEW p \in Process, NEW o \in Obligation, o = proc[p].ob, ~Idle(p), Done(p),
         list' \subseteq list, waived \subseteq waived',
         \A x \in Obligation : crv'[x] = "absent" => crv[x] = "absent",
         \A x \in Obligation : x = o \/ task'[x] = task[x],
         \A x \in Obligation : x # o => row'[x] = row[x] /\ invoices'[x] = invoices[x],
         (o \notin waived' /\ Agrees(o) /\ CopyAgrees(p, o)) =>
           /\ row'[o].number \in {0, 1}
           /\ row'[o].linked # 0 => row'[o].number = 1
           /\ invoices'[o] = row'[o].number
  PROVE  Submitted' /\ Agreed'
<1>1. PICK q \in Records : q = IdleProcess(p) /\ q.pc = "idle"
  BY RecordTypes
<1>2. proc' = [proc EXCEPT ![p] = q]
  BY <1>1 DEF Done
<1>3. Submitted'
  BY <1>1, <1>2, WorkSubmitted
<1>4. Agreed'
  BY <1>1, <1>2, WorkAgreed
<1> QED
  BY <1>3, <1>4

LEMMA LinkEffect ==
  ASSUME IInv, NEW p \in Process, Link(p)
  PROVE  /\ Submitted' /\ Agreed' /\ BillStep
<1>1. PICK o \in Obligation : o = proc[p].ob /\ ~Idle(p)
  BY DEF Link, Idle, IInv, TypeOK
<1>2. /\ row' = [row EXCEPT ![o] = [number |-> proc[p].copy.number,
                                    linked |-> proc[p].copy.number]]
      /\ invoices' = invoices /\ waived' = waived
  BY <1>1 DEF Link
<1>3. (Agrees(o) /\ CopyAgrees(p, o)) =>
         /\ row[o].number = 1 /\ invoices[o] = 1
         /\ row'[o] = [number |-> 1, linked |-> 1]
  BY <1>1, <1>2, Counted DEF Link, CopyAgrees, IInv, TypeOK
<1>4. \A x \in Obligation : x # o => row'[x] = row[x] /\ invoices'[x] = invoices[x]
  BY <1>2 DEF IInv, TypeOK
<1>5. \A x \in Obligation : /\ crv'[x] = "absent" => crv[x] = "absent"
                            /\ x = o \/ task'[x] = task[x]
  BY <1>1 DEF Link, StatusOfLinked, IInv, TypeOK
<1>6. (o \notin waived' /\ Agrees(o) /\ CopyAgrees(p, o)) =>
           /\ row'[o].number \in {0, 1}
           /\ row'[o].linked # 0 => row'[o].number = 1
           /\ invoices'[o] = row'[o].number
  BY <1>2, <1>3
<1>7. Submitted' /\ Agreed'
  <2>1. Done(p) /\ list' = list
    BY DEF Link
  <2> QED
    BY <1>1, <1>2, <1>4, <1>5, <1>6, <2>1, DoneEffect
<1>8. Bill!Next
  <2> SUFFICES ASSUME NEW x \in Obligation \ waived' PROVE Bill!Link(x) \/ Bill!Kept(x)
    BY <1>2 DEF Bill!Next
  <2>1. CASE x # o
    BY <1>4, <2>1 DEF Bill!Kept
  <2>2. CASE x = o
    <3>1. Agrees(o) /\ CopyAgrees(p, o)
      BY <1>1, <1>2, <2>2 DEF IInv, Agreed, Agrees, WorksOn
    <3>2. /\ row[x].number = 1 /\ row'[x].number = 1 /\ row'[x].linked # 0
          /\ invoices'[x] = invoices[x]
      BY <1>2, <1>3, <2>2, <3>1
    <3> QED
      BY <3>2 DEF Bill!Link
  <2> QED
    BY <2>1, <2>2
<1> QED
  BY <1>7, <1>8 DEF BillStep

\* A failure that leaves eLicensing as it was, or one whose obligation is waived
LEMMA RaisesEffect ==
  ASSUME IInv, NEW p \in Process, ~Idle(p), Raises(p), row' = row, list' = list,
         waived \subseteq waived',
         \/ invoices' = invoices /\ proc[p].pc # "saving"
         \/ /\ proc[p].ob \in waived'
            /\ invoices' = [invoices EXCEPT ![proc[p].ob] = invoices[proc[p].ob] + 1]
  PROVE  /\ Submitted' /\ Agreed' /\ BillStep
<1>1. PICK o \in Obligation : o = proc[p].ob
  BY DEF IInv, TypeOK
<1>2. \A x \in Obligation : x # o => row'[x] = row[x] /\ invoices'[x] = invoices[x]
  BY <1>1 DEF IInv, TypeOK
<1>3. \A x \in Obligation : /\ crv'[x] = "absent" => crv[x] = "absent"
                            /\ x = o \/ task'[x] = task[x]
  BY <1>1 DEF Raises, IInv, TypeOK
<1>4. (o \notin waived' /\ Agrees(o) /\ CopyAgrees(p, o)) =>
           /\ row'[o].number \in {0, 1}
           /\ row'[o].linked # 0 => row'[o].number = 1
           /\ invoices'[o] = row'[o].number
  BY <1>1, Counted DEF Agrees
<1>5. Submitted' /\ Agreed'
  <2>1. Done(p)
    BY DEF Raises
  <2> QED
    BY <1>1, <1>2, <1>3, <1>4, <2>1, DoneEffect
<1>6. Bill!Next
  <2>1. \A x \in Obligation \ waived' : invoices'[x] = invoices[x]
    BY <1>1, <1>2
  <2> QED
    BY <2>1 DEF Bill!Next, Bill!Kept
<1> QED
  BY <1>5, <1>6 DEF BillStep

LEMMA FailuresEffect ==
  ASSUME IInv, NEW p \in Process, TwoClients(p) \/ CallFails(p) \/ AnswerLost(p)
  PROVE  /\ Submitted' /\ Agreed' /\ BillStep
<1>1. CASE TwoClients(p)
  BY <1>1, RaisesEffect DEF TwoClients, Idle
<1>2. CASE CallFails(p)
  BY <1>2, RaisesEffect DEF CallFails, Idle
<1>3. CASE AnswerLost(p)
  <2>1. ~Idle(p) /\ proc[p].ob \in waived' /\ waived \subseteq waived'
    BY <1>3 DEF AnswerLost, Idle
  <2> QED
    BY <1>3, <2>1, RaisesEffect DEF AnswerLost
<1> QED
  BY <1>1, <1>2, <1>3

LEMMA CrashEffect ==
  ASSUME IInv, NEW p \in Process, Crash(p)
  PROVE  /\ Submitted' /\ Agreed' /\ BillStep
<1>1. PICK o \in Obligation : o = proc[p].ob /\ ~Idle(p)
  BY DEF Crash, IInv, TypeOK
<1>2. /\ row' = row /\ invoices' = invoices /\ crv' = crv /\ task' = task
      /\ list' \subseteq list /\ waived \subseteq waived' /\ Done(p)
      /\ proc[p].pc = "saving" => o \in waived'
  BY <1>1 DEF Crash
<1>3. (o \notin waived' /\ Agrees(o) /\ CopyAgrees(p, o)) =>
           /\ row'[o].number \in {0, 1}
           /\ row'[o].linked # 0 => row'[o].number = 1
           /\ invoices'[o] = row'[o].number
  BY <1>1, <1>2, Counted DEF Agrees
<1>4. Submitted' /\ Agreed'
  BY <1>1, <1>2, <1>3, DoneEffect
<1> QED
  BY <1>2, <1>4 DEF BillStep, Bill!Next, Bill!Kept

-----------------------------------------------------------------------------
(* The worker's own steps *)

\* An idle worker begins on o; another process may be at it
LEMMA BeginEffect ==
  ASSUME IInv, NEW o \in Obligation, NEW b \in BOOLEAN, Idle(Worker),
         crv[o] # "absent", crv' = crv,
         proc' = [proc EXCEPT ![Worker] = StartOf(o, b)],
         waived' = IF Active(o) THEN waived \cup {o} ELSE waived,
         row' = row, invoices' = invoices, list' \subseteq list,
         \A x \in Obligation : x = o \/ task'[x] = task[x]
  PROVE  /\ Submitted' /\ Agreed' /\ BillStep
<1>1. PICK q \in Records : q = StartOf(o, b) /\ q.pc = "starting" /\ q.ob = o
  <2>1. StartOf(o, b).pc = "starting"
    BY DEF StartOf, At
  <2> QED
    BY <2>1, RecordTypes
<1>2. proc' = [proc EXCEPT ![Worker] = q] /\ Worker \in Process /\ waived \subseteq waived'
  BY <1>1, ProcessFacts
<1>3. ASSUME NEW x \in Obligation \ waived' PROVE Agrees(x)'
  <2>1. Agrees(x)
    BY <1>2 DEF IInv, Agreed
  <2>2. CASE x # o
    BY <1>1, <1>2, <2>1, <2>2, OthersAgree DEF IInv
  <2>3. CASE x = o
    <3>1. \A r \in Process : ~WorksOn(r, o)
      BY <2>3 DEF Active, WorksOn
    <3>2. invoices[o] = row[o].number
      BY <2>1, <2>3, <3>1 DEF Agrees, WorksOn, Idle
    <3>3. CopyAgrees(Worker, o)'
      BY <1>1, <1>2 DEF CopyAgrees, IInv, TypeOK
    <3>4. /\ row'[o].number \in {0, 1}
          /\ row'[o].linked # 0 => row'[o].number = 1
          /\ invoices'[o] = row'[o].number
      BY <2>1, <2>3, <3>2 DEF Agrees
    <3>5. TypeOK /\ \A r \in Process : WorksOn(r, o) => r = Worker
      BY <3>1 DEF IInv
    <3>6. Agrees(o)'
      BY <1>1, <1>2, <3>3, <3>4, <3>5, OwnAgrees
    <3> QED
      BY <2>3, <3>6
  <2> QED
    BY <2>2, <2>3
<1>4. Submitted'
  <2> SUFFICES ASSUME NEW x \in Obligation, crv'[x] = "absent"
               PROVE  ~Active(x)' /\ x \notin list' /\ task'[x].status = "none"
    BY DEF Submitted
  <2>1. x # o /\ ~Active(x) /\ x \notin list' /\ task'[x].status = "none"
    BY DEF IInv, Submitted
  <2> QED
    BY <1>1, <1>2, <2>1 DEF Active, Idle, IInv, TypeOK
<1> QED
  BY <1>2, <1>3, <1>4 DEF Agreed, BillStep, Bill!Next, Bill!Kept

LEMMA NextObligationEffect ==
  ASSUME IInv, NextObligation
  PROVE  /\ Submitted' /\ Agreed' /\ BillStep
<1>1. PICK o \in list : /\ proc' = [proc EXCEPT ![Worker] = StartOf(o, FALSE)]
                        /\ list' = list \ {o}
                        /\ waived' = IF Active(o) THEN waived \cup {o} ELSE waived
  BY DEF NextObligation
<1>2. o \in Obligation /\ crv[o] # "absent"
  BY DEF IInv, TypeOK, Submitted
<1> QED
  BY <1>1, <1>2, BeginEffect DEF NextObligation

LEMMA StartRetryEffect ==
  ASSUME IInv, NEW o \in Obligation, StartRetry(o)
  PROVE  /\ Submitted' /\ Agreed' /\ BillStep
<1>1. crv[o] # "absent"
  BY TaskStates DEF IInv, TypeOK, Submitted, StartRetry
<1>2. \A x \in Obligation : x = o \/ task'[x] = task[x]
  BY DEF StartRetry, IInv, TypeOK
<1> QED
  BY <1>1, <1>2, BeginEffect DEF StartRetry

\* The steps that no invoice, number or process depends on
LEMMA QuietEffect ==
  ASSUME IInv,
         \/ \E o \in Obligation : SubmitEarly(o)
         \/ StartGeneration \/ EndGeneration \/ Outage \/ Tick \/ UNCHANGED vars
  PROVE  /\ Submitted' /\ Agreed' /\ BillStep
<1>1. /\ row' = row /\ invoices' = invoices /\ proc' = proc /\ task' = task
      /\ waived' = waived
  BY DEF SubmitEarly, StartGeneration, EndGeneration, Outage, Tick, vars
<1>2. Agreed'
  BY <1>1 DEF IInv, Agreed, Agrees, Sole, WorksOn, CopyAgrees, Idle
<1>3. \A x \in Obligation : crv'[x] = "absent" => crv[x] = "absent" /\ (x \in list' => x \in list)
  BY DEF SubmitEarly, StartGeneration, EndGeneration, Outage, Tick, vars, Uninvoiced,
         IInv, TypeOK
<1>4. Submitted'
  BY <1>1, <1>3 DEF IInv, Submitted, Active, Idle
<1> QED
  BY <1>1, <1>2, <1>4 DEF BillStep, Bill!vars

LEMMA Invariance == IInv /\ [Next]_vars => IInv' /\ BillStep
<1> SUFFICES ASSUME IInv, [Next]_vars PROVE IInv' /\ BillStep
  OBVIOUS
<1>1. TypeOK'
  BY NextType DEF IInv
<1>2. Submitted' /\ Agreed' /\ BillStep
  <2>1. ASSUME NEW p \in Process, Advance(p) PROVE Submitted' /\ Agreed' /\ BillStep
    BY <2>1, StartsEffect, CreateClientEffect, CreateInvoiceEffect, SaveNumberEffect,
       LinkEffect, FailuresEffect DEF Advance
  <2> QED
    BY <2>1, ProcessFacts, SubmitDueEffect, CrashEffect, NextObligationEffect,
       StartRetryEffect, QuietEffect DEF Next, Work
<1> QED
  BY <1>1, <1>2 DEF IInv

LEMMA InitInv == Init => IInv /\ Bill!Init
<1> SUFFICES ASSUME Init PROVE IInv /\ Bill!Init
  OBVIOUS
<1>1. TypeOK
  BY InitType
<1>2. \A p \in Process : Idle(p) /\ proc[p].pc # "saving"
  BY RecordTypes DEF Init, Idle
<1>3. Submitted
  BY <1>2 DEF Init, Submitted, Active, NoTask
<1>4. Agreed
  BY <1>2 DEF Init, Agreed, Agrees, Sole, WorksOn, NoInvoice
<1>5. Bill!Init
  BY DEF Init, Bill!Init, NoInvoice
<1> QED
  BY <1>1, <1>3, <1>4, <1>5 DEF IInv

\* Types: every variable of ObligationInvoicing keeps its shape, and a process
\* that is not idle works on an obligation.
THEOREM TypeCorrectness == Spec => []TypeOK
<1>1. TypeOK /\ [Next]_vars => TypeOK'
  BY NextType
<1> QED
  BY <1>1, InitType, PTL DEF Spec

\* Threads, generation job and retries bill as Billing promises: one invoice
\* per obligation, its number kept, the link for good, wherever calls fail and
\* processes die, except for obligations with two writers or a lost answer.
THEOREM Refinement == Spec => BilledAsPromised
<1>1. Init => IInv /\ Bill!Init
  BY InitInv
<1>2. IInv /\ [Next]_vars => IInv' /\ [Bill!Next]_Bill!vars
  BY Invariance DEF BillStep
<1> QED
  BY <1>1, <1>2, PTL DEF Spec, BilledAsPromised, Bill!Spec

-----------------------------------------------------------------------------
(* The status of the version and the invoice of its obligation               *)

\* An obligation that was not submitted has no invoice
Unlinked == \A o \in Obligation : crv[o] = "absent" => row[o].linked = 0

\* A step of another obligation, or of none
Elsewhere(o) ==
  /\ crv'[o] = crv[o] /\ row'[o] = row[o] /\ task'[o] = task[o]
  /\ Active(o) => Active(o)'

\* A process works on o after the step
AtWork(o) == crv'[o] # "absent" /\ Active(o)'

\* The status becomes pending: by a submission or by a failure that is recorded
Pends(o) ==
  /\ crv'[o] = "pending_invoice" /\ row'[o] = row[o]
  /\ crv[o] = "absent" \/ task'[o].status # "none"

\* The obligation is linked to the number of the copy at work
Links(o) ==
  \E p \in Process :
    /\ WorksOn(p, o) /\ proc[p].pc = "linking"
    /\ crv'[o] = "not_met" /\ row'[o].linked = proc[p].copy.number

\* The process at work on o dies
Dies(o) == o \in dropped' /\ crv'[o] = crv[o] /\ row'[o] = row[o]

\* What a step may do to the status, the invoice and the retry of o
StatusStep(o) == Elsewhere(o) \/ AtWork(o) \/ Pends(o) \/ Links(o) \/ Dies(o)

\* A process that works on another obligation, or begins to, leaves o at work
LEMMA StaysActive ==
  ASSUME TypeOK, NEW p \in Process, NEW o \in Obligation, NEW q \in Records,
         proc' = [proc EXCEPT ![p] = q],
         Idle(p) \/ proc[p].ob # o \/ (q.pc # "idle" /\ q.ob = o)
  PROVE  Active(o) => Active(o)'
BY DEF TypeOK, Active, Idle

\* A process that goes on, or begins, with o
LEMMA WorkStatus ==
  ASSUME IInv, NEW p \in Process, NEW x \in Obligation, NEW q \in Records,
         proc' = [proc EXCEPT ![p] = q], q.pc # "idle", q.ob = x,
         Idle(p) \/ proc[p].ob = x,
         crv'[x] # "absent",
         \A y \in Obligation : y # x => crv'[y] = crv[y] /\ row'[y] = row[y] /\ task'[y] = task[y],
         NEW o \in Obligation
  PROVE  StatusStep(o)
<1>1. CASE o = x
  <2>1. proc'[p] = q
    BY DEF IInv, TypeOK
  <2> QED
    BY <1>1, <2>1 DEF StatusStep, AtWork, Active, Idle
<1>2. CASE o # x
  <2>1. Active(o) => Active(o)'
    BY <1>2, StaysActive DEF IInv
  <2> QED
    BY <1>2, <2>1 DEF StatusStep, Elsewhere
<1> QED
  BY <1>1, <1>2

\* A process that ends its work on x leaves the other obligations as they were
LEMMA DoneStatus ==
  ASSUME IInv, NEW p \in Process, NEW x \in Obligation, Done(p), proc[p].ob = x,
         \A y \in Obligation : y # x => crv'[y] = crv[y] /\ row'[y] = row[y] /\ task'[y] = task[y],
         Pends(x) \/ Links(x) \/ Dies(x),
         NEW o \in Obligation
  PROVE  StatusStep(o)
<1>1. CASE o = x
  BY <1>1 DEF StatusStep
<1>2. CASE o # x
  <2>1. PICK q \in Records : proc' = [proc EXCEPT ![p] = q]
    BY RecordTypes DEF Done
  <2>2. Active(o) => Active(o)'
    BY <1>2, <2>1, StaysActive DEF IInv
  <2> QED
    BY <1>2, <2>2 DEF StatusStep, Elsewhere
<1> QED
  BY <1>1, <1>2

LEMMA AdvanceStatus ==
  ASSUME IInv, NEW p \in Process, Advance(p), NEW o \in Obligation
  PROVE  StatusStep(o)
<1>1. PICK x \in Obligation : x = proc[p].ob /\ ~Idle(p)
  BY DEF Advance, Starts, CreateClient, CreateInvoice, SaveNumber, Link, TwoClients, CallFails,
         AnswerLost, Idle, IInv, TypeOK
<1>2. crv[x] # "absent" /\ proc[p] \in Records
  BY <1>1 DEF IInv, TypeOK, Submitted, Active, Records
<1>3. CASE Starts(p) \/ CreateClient(p) \/ CreateInvoice(p) \/ SaveNumber(p)
  <2>1. UNCHANGED <<crv, task>> /\ \A y \in Obligation : y # x => row'[y] = row[y]
    BY <1>1, <1>3 DEF Starts, CreateClient, CreateInvoice, SaveNumber, IInv, TypeOK
  <2>2. PICK q \in Records : /\ proc' = [proc EXCEPT ![p] = q]
                             /\ q.ob = x /\ q.pc # "idle"
    <3>1. proc' \in [Process -> Records]
      BY NextType, ProcessFacts, <1>3 DEF IInv, TypeOK, Records, Next, Work, Advance
    <3>2. PICK q : q = proc'[p]
      OBVIOUS
    <3>3. q \in Records /\ proc' = [proc EXCEPT ![p] = q]
      BY <1>3, <3>1, <3>2 DEF Starts, CreateClient, CreateInvoice, SaveNumber, IInv, TypeOK
    <3>4. q.ob = x
      BY <1>1, <1>2, <1>3, <3>2 DEF Starts, CreateClient, CreateInvoice, SaveNumber, IInv, TypeOK
    <3>5. q.pc # "idle"
      BY <1>2, <1>3, <3>2 DEF Starts, CreateClient, CreateInvoice, SaveNumber, IInv, TypeOK, AfterClient
    <3> QED
      BY <3>3, <3>4, <3>5
  <2> QED
    BY <1>1, <1>2, <2>1, <2>2, WorkStatus
<1>4. CASE Link(p)
  <2>1. /\ Done(p) /\ proc[p].pc = "linking"
        /\ crv' = [crv EXCEPT ![x] = "not_met"]
        /\ row' = [row EXCEPT ![x] = [number |-> proc[p].copy.number, linked |-> proc[p].copy.number]]
        /\ \A y \in Obligation : y # x => task'[y] = task[y]
    BY <1>1, <1>4 DEF Link, StatusOfLinked, IInv, TypeOK
  <2>2. Links(x)
    BY <1>1, <2>1 DEF Links, WorksOn, IInv, TypeOK
  <2>3. \A y \in Obligation : y # x => crv'[y] = crv[y] /\ row'[y] = row[y]
    BY <2>1 DEF IInv, TypeOK
  <2> QED
    BY <1>1, <2>1, <2>2, <2>3, DoneStatus
<1>5. CASE TwoClients(p) \/ CallFails(p) \/ AnswerLost(p)
  <2>1. /\ row' = row /\ Done(p)
        /\ crv' = [crv EXCEPT ![x] = "pending_invoice"]
        /\ task' = [task EXCEPT ![x] = IF proc[p].retry THEN AttemptFailed(task[x])
                                                         ELSE Recorded(task[x])]
    BY <1>1, <1>5 DEF TwoClients, CallFails, AnswerLost, Raises
  <2>2. task'[x].status # "none"
    BY <2>1, TaskStates DEF IInv, TypeOK
  <2>3. Pends(x) /\ \A y \in Obligation : y # x => crv'[y] = crv[y] /\ row'[y] = row[y] /\ task'[y] = task[y]
    BY <2>1, <2>2 DEF Pends, IInv, TypeOK
  <2> QED
    BY <1>1, <2>1, <2>3, DoneStatus
<1> QED
  BY <1>3, <1>4, <1>5 DEF Advance

LEMMA NextStatus ==
  ASSUME IInv, [Next]_vars, NEW o \in Obligation
  PROVE  StatusStep(o)
<1>1. ASSUME NEW x \in Obligation, SubmitEarly(x) PROVE StatusStep(o)
  BY <1>1 DEF SubmitEarly, StatusStep, Elsewhere, Pends, Active, Idle, IInv, TypeOK
<1>2. ASSUME NEW x \in Obligation, SubmitDue(x) PROVE StatusStep(o)
  <2>1. PICK q \in Records : q = StartOf(x, FALSE) /\ q.pc # "idle" /\ q.ob = x
    BY RecordTypes DEF StartOf, At
  <2>2. /\ x \in Process /\ proc' = [proc EXCEPT ![x] = q] /\ proc[x].ob = x
        /\ UNCHANGED <<row, task>> /\ crv' = [crv EXCEPT ![x] = "not_met"]
    BY <1>2, <2>1, ProcessFacts DEF SubmitDue, IInv, TypeOK
  <2>3. crv'[x] # "absent" /\ \A y \in Obligation : y # x => crv'[y] = crv[y]
    BY <2>2 DEF IInv, TypeOK
  <2> QED
    BY <2>1, <2>2, <2>3, WorkStatus
<1>3. ASSUME NEW p \in Process, Advance(p) PROVE StatusStep(o)
  BY <1>3, AdvanceStatus
<1>4. ASSUME NEW p \in Process, Crash(p) PROVE StatusStep(o)
  <2>1. PICK x \in Obligation : x = proc[p].ob
    BY <1>4 DEF Crash, IInv, TypeOK
  <2> QED
    BY <1>4, <2>1, DoneStatus DEF Crash, Dies
<1>5. ASSUME NEW x \in Obligation, NEW b \in BOOLEAN, Idle(Worker), crv[x] # "absent",
             proc' = [proc EXCEPT ![Worker] = StartOf(x, b)], UNCHANGED <<row, crv>>,
             \A y \in Obligation : y # x => task'[y] = task[y]
      PROVE  StatusStep(o)
  <2>1. PICK q \in Records : q = StartOf(x, b) /\ q.pc # "idle" /\ q.ob = x
    BY RecordTypes DEF StartOf, At
  <2> QED
    BY <1>5, <2>1, WorkStatus, ProcessFacts
<1>6. CASE NextObligation
  <2>1. PICK x \in list : proc' = [proc EXCEPT ![Worker] = StartOf(x, FALSE)]
    BY <1>6 DEF NextObligation
  <2>2. x \in Obligation /\ crv[x] # "absent"
    BY DEF IInv, TypeOK, Submitted
  <2> QED
    BY <1>5, <1>6, <2>1, <2>2 DEF NextObligation
<1>7. ASSUME NEW x \in Obligation, StartRetry(x) PROVE StatusStep(o)
  <2>1. crv[x] # "absent" /\ \A y \in Obligation : y # x => task'[y] = task[y]
    BY <1>7, TaskStates DEF IInv, TypeOK, Submitted, StartRetry
  <2> QED
    BY <1>5, <1>7, <2>1 DEF StartRetry
<1>8. CASE StartGeneration \/ EndGeneration \/ Outage \/ Tick \/ UNCHANGED vars
  <2>1. UNCHANGED <<row, crv, task, proc>>
    BY <1>8 DEF StartGeneration, EndGeneration, Outage, Tick, vars
  <2> QED
    BY <2>1 DEF StatusStep, Elsewhere, Active, Idle
<1> QED
  BY <1>1, <1>2, <1>3, <1>4, <1>6, <1>7, <1>8, ProcessFacts DEF Next, Work

\* Only a process at work changes the invoice of an obligation
LEMMA UnlinkedStep == ASSUME IInv, Unlinked, [Next]_vars PROVE Unlinked'
<1> SUFFICES ASSUME NEW o \in Obligation, crv'[o] = "absent" PROVE row'[o].linked = 0
  BY DEF Unlinked
<1>1. crv[o] = "absent" /\ row'[o] = row[o]
  BY NextStatus DEF StatusStep, Elsewhere, AtWork, Pends, Links, Dies
<1> QED
  BY <1>1 DEF Unlinked

StatusInv == IInv /\ Unlinked /\ StatusAgrees

LEMMA StatusAgreesStep ==
  ASSUME StatusInv, [Next]_vars, IInv'
  PROVE  StatusAgrees'
<1>1. waived \subseteq waived' /\ dropped \subseteq dropped'
  BY DEF Next, Work, Advance, SubmitEarly, SubmitDue, Starts, CreateClient, CreateInvoice,
         SaveNumber, Link, TwoClients, CallFails, AnswerLost, Crash, StartGeneration,
         NextObligation, EndGeneration, StartRetry, Outage, Tick, vars
<1> SUFFICES ASSUME NEW o \in Obligation, o \notin waived' \cup dropped',
                    crv'[o] # "absent", ~Active(o)'
             PROVE  /\ row'[o].linked = 0 => crv'[o] = "pending_invoice"
                    /\ (row'[o].linked # 0 /\ task'[o].status = "none") => crv'[o] = "not_met"
  BY DEF StatusAgrees
<1>2. o \notin waived \cup dropped
  BY <1>1
<1>3. CASE Elsewhere(o)
  BY <1>2, <1>3 DEF Elsewhere, StatusInv, StatusAgrees
<1>4. CASE Pends(o)
  BY <1>4 DEF Pends, StatusInv, Unlinked
<1>5. CASE Links(o)
  <2>1. Agrees(o)
    BY <1>2 DEF StatusInv, IInv, Agreed
  <2>2. row'[o].linked = 1 /\ crv'[o] = "not_met"
    BY <1>5, <2>1 DEF Links, Agrees, CopyAgrees
  <2> QED
    BY <2>2
<1> QED
  BY <1>3, <1>4, <1>5, NextStatus DEF StatusStep, AtWork, Dies, StatusInv

\* The status of a version and the invoice of its obligation agree whenever
\* nobody works on the obligation: a failure is pending and recorded, a link
\* makes it not met, and between the two the obligation is in somebody's hands
THEOREM StatusAgreesHolds == Spec => []StatusAgrees
<1>1. Init => StatusInv
  BY InitInv DEF Init, StatusInv, Unlinked, StatusAgrees, NoInvoice
<1>2. StatusInv /\ [Next]_vars => StatusInv'
  BY Invariance, UnlinkedStep, StatusAgreesStep DEF StatusInv
<1>3. StatusInv => StatusAgrees
  BY DEF StatusInv
<1> QED
  BY <1>1, <1>2, <1>3, PTL DEF Spec

=============================================================================
