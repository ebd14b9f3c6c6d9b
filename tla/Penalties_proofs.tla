---------------------------- MODULE Penalties_proofs ----------------------------
(* The safety properties of Penalties, for any number of obligations, payments,  *)
(* failures and kills.  IInv (types, owners, what is billed when) gives that no  *)
(* penalty has two invoices in eLicensing.  Effect lemmas then say once what a   *)
(* step may do to an obligation, to its invoice, to the job and to a penalty;    *)
(* from them PaidInv is inductive, and on top of it PenalisedOK (all that is     *)
(* late is penalised) and DeservedOK (nothing else is).                          *)
EXTENDS Penalties, TLAPS

\* The states in which create_penalty is at work
Creating == {"start", "invoice", "number", "refresh", "link", "status"}
Steps == {"idle", "pick", "penalty", "accruing", "met", "plan", "interest", "create"} \cup Creating

Job == [pc : Steps, mode : {None, "sync", "retry"}, todo : SUBSET Invoice,
        invoice : Invoice \cup {None}, owed : Balance \cup {None},
        status : ComplianceStatus \cup {None}, plan : SUBSET PenaltyType,
        type : PenaltyType \cup {None}, deadline : {"date", "text"}]

Typed == TypeOK /\ job \in Job

\* Is there the obligation or the penalty that the invoice is for?
HasOwner(i) == IF Kind(i) = "obligation" THEN obligation[Ob(i)] # None ELSE penalty[i] # None

\* Invoices, penalties and recorded calls are those of obligations that exist.
Owned ==
  /\ \A i \in Invoice : copy[i] # None => HasOwner(i)
  /\ \A o \in Obligation : bill[Own(o)] # None \/ decrease[o] # "none" => obligation[o] # None
  /\ \A p \in Penalty : penalty[p] # None \/ queue[p] # None => obligation[Ob(p)] # None

\* The steps at which the job has an obligation in hand
OnObligation == job.pc \in {"accruing", "met", "plan", "interest", "create"} \cup Creating

\* So are those that the job has in hand; a retry gets no further than to its
\* deadline.
JobOwned ==
  /\ \A i \in job.todo : HasOwner(i)
  /\ job.pc # "idle" => job.mode \in {"sync", "retry"}
  /\ job.pc = "penalty" => job.invoice \in Penalty /\ penalty[job.invoice] # None
  /\ OnObligation =>
       \E o \in Obligation : job.invoice = Own(o) /\ obligation[o] # None
  /\ job.pc \in Creating => job.type \in PenaltyType
  /\ job.pc \in Creating \ {"start"} => penalty[Current] # None
  /\ job.pc # "idle" /\ job.mode = "retry" =>
       /\ job.pc = "start" /\ job.deadline = "text"
       /\ queue[Current] # None /\ queue[Current].count < MaxRetries
  /\ job.pc # "idle" /\ job.mode = "sync" =>
       job.deadline = "date" /\ (job.pc \in Creating => job.type \in job.plan)
  /\ job.pc = "met" => job.status \in ComplianceStatus

\* An obligation is met, and stays so, before anything is billed for it; nothing
\* is billed yet for what the job still plans to create.
IsMet(o) == obligation[o] # None /\ obligation[o].status # "not met"
Unbilled(o, types) == \A t \in types : fined[<<o, t>>] = 0
ToCreate == IF job.pc \in {"number", "refresh", "link", "status"}
              THEN job.plan \ {job.type} ELSE job.plan

BilledWhenMet ==
  /\ \A p \in Penalty : fined[p] > 0 => IsMet(Ob(p))
  /\ (job.pc = "met" /\ job.status = "not met") \/ job.pc = "plan" =>
       Unbilled(Ob(job.invoice), PenaltyType)
  /\ job.mode = "sync" /\ job.pc \in {"plan", "create"} \cup Creating => IsMet(Ob(job.invoice))
  /\ job.mode = "sync" /\ job.pc \in {"create"} \cup Creating => Unbilled(Ob(job.invoice), ToCreate)

IInv == Typed /\ Owned /\ JobOwned /\ BilledWhenMet /\ BilledOnce

-----------------------------------------------------------------------------
(* Invoices *)

LEMMA OwnIsInvoice ==
  ASSUME NEW o \in Obligation
  PROVE  Own(o) \in Invoice /\ Kind(Own(o)) = "obligation" /\ Ob(Own(o)) = o
  BY DEF Own, Invoice, Kind, Ob

LEMMA PenaltyIsInvoice ==
  ASSUME NEW p \in Penalty
  PROVE  /\ p \in Invoice /\ Kind(p) \in PenaltyType /\ Kind(p) # "obligation"
         /\ Ob(p) \in Obligation /\ p = <<Ob(p), Kind(p)>>
  BY DEF Penalty, Invoice, PenaltyType, Kind, Ob

LEMMA InvoiceIsOwnOrPenalty ==
  ASSUME NEW i \in Invoice
  PROVE  /\ Ob(i) \in Obligation
         /\ Kind(i) = "obligation" => i = Own(Ob(i))
         /\ Kind(i) # "obligation" => i \in Penalty
  BY DEF Penalty, Invoice, PenaltyType, Kind, Ob, Own

\* Two invoices of which only one can be a penalty
LEMMA OwnIsNoPenalty ==
  ASSUME NEW o \in Obligation, NEW p \in Penalty
  PROVE  Own(o) # p
  BY OwnIsInvoice, PenaltyIsInvoice

\* The penalty that the job creates is one of the obligation it has in hand.
LEMMA CurrentIsPenalty ==
  ASSUME IInv, job.pc \in Creating
  PROVE  /\ Current \in Penalty /\ Current = <<Ob(job.invoice), job.type>>
         /\ Ob(Current) = Ob(job.invoice) /\ Ob(job.invoice) \in Obligation
         /\ obligation[Ob(job.invoice)] # None
<1>1. PICK o \in Obligation : job.invoice = Own(o) /\ obligation[o] # None
  BY DEF IInv, JobOwned, OnObligation
<1>2. job.type \in PenaltyType
  BY DEF IInv, JobOwned
<1>. QED
  BY <1>1, <1>2, OwnIsInvoice DEF Current, Penalty, Ob

LEMMA InHand ==
  ASSUME IInv, OnObligation
  PROVE  /\ Ob(job.invoice) \in Obligation /\ job.invoice = Own(Ob(job.invoice))
         /\ obligation[Ob(job.invoice)] # None
  BY OwnIsInvoice DEF IInv, JobOwned

-----------------------------------------------------------------------------
(* Steps around the job *)

\* An obligation that exists and is met stays so.
Grows ==
  \A o \in Obligation : /\ obligation[o] # None => obligation'[o] # None
                        /\ IsMet(o) => IsMet(o)'

LEMMA JobKept ==
  ASSUME IInv, UNCHANGED <<job, penalty, queue, fined>>, Grows
  PROVE  JobOwned' /\ BilledWhenMet' /\ BilledOnce'
<1>. USE DEF IInv
<1>1. \A i \in Invoice : HasOwner(i) => HasOwner(i)'
  BY InvoiceIsOwnOrPenalty DEF HasOwner, Grows
<1>2. job.todo \subseteq Invoice
  BY DEF Typed, TypeOK
<1>3. JobOwned'
  BY <1>1, <1>2 DEF JobOwned, OnObligation, Grows, Current
<1>4. \A p \in Penalty : IsMet(Ob(p)) => IsMet(Ob(p))'
  BY PenaltyIsInvoice DEF Grows
<1>5. job.pc \in {"plan", "create"} \cup Creating /\ IsMet(Ob(job.invoice)) => IsMet(Ob(job.invoice))'
  BY InHand DEF Grows, OnObligation
<1>6. BilledWhenMet'
  BY <1>4, <1>5 DEF BilledWhenMet, ToCreate, Unbilled
<1>7. BilledOnce'
  BY DEF BilledOnce
<1>. QED
  BY <1>3, <1>6, <1>7

\* Rows that are changed stay rows.
LEMMA BalanceChanges ==
  ASSUME NEW b \in Balance, NEW d \in Day
  PROVE  /\ b.fee > 0 => [b EXCEPT !.fee = b.fee - 1, !.last = Later(b.last, d)] \in Balance
         /\ [b EXCEPT !.fee = 0, !.last = Later(b.last, d)] \in Balance
         /\ [b EXCEPT !.fee = 0] \in Balance
         /\ \A x \in BOOLEAN : [b EXCEPT !.interest = x] \in Balance
<1>1. b.fee \in 0..Payments /\ b.interest \in BOOLEAN /\ b.last \in Day \cup {None}
  BY DEF Balance
<1>2. Later(b.last, d) \in Day \cup {None}
  BY <1>1 DEF Later
<1>3. 0 \in 0..Payments /\ (b.fee > 0 => b.fee - 1 \in 0..Payments)
  BY <1>1, BoundsAssumption
<1>4. \A f \in 0..Payments, l \in Day \cup {None} : [b EXCEPT !.fee = f, !.last = l] \in Balance
  BY DEF Balance
<1>5. \A f \in 0..Payments : [b EXCEPT !.fee = f] \in Balance
  BY DEF Balance
<1>6. \A x \in BOOLEAN : [b EXCEPT !.interest = x] \in Balance
  BY DEF Balance
<1>. QED
  BY <1>2, <1>3, <1>4, <1>5, <1>6

LEMMA ObligationChanges ==
  ASSUME NEW r \in ObligationRow
  PROVE  /\ \A x \in ComplianceStatus : [r EXCEPT !.status = x] \in ObligationRow
         /\ \A x \in PenaltyStatus : [r EXCEPT !.penalty_status = x] \in ObligationRow
  BY DEF ObligationRow

\* A day passes.
LEMMA NextDayKeeps ==
  ASSUME IInv, NextDay
  PROVE  IInv'
<1>. USE DEF IInv
<1>1. today' \in Day
  <2>1. MaxDay \in Nat /\ today \in 0..MaxDay
    BY DaysAssumption DEF Typed, TypeOK, Day
  <2>2. today' = today \/ (today < MaxDay /\ today' = today + 1)
    BY DEF NextDay
  <2>. QED
    BY <2>1, <2>2 DEF Day
<1>2. Typed' /\ Owned' /\ Grows
  BY <1>1 DEF NextDay, Typed, TypeOK, Owned, HasOwner, Grows, IsMet
<1>3. UNCHANGED <<job, penalty, queue, fined>>
  BY DEF NextDay
<1>. QED
  BY <1>2, <1>3, JobKept

LEMMA BillObligationKeeps ==
  ASSUME IInv, NEW o \in Obligation, NEW s \in BOOLEAN, NEW e \in Evening, BillObligation(o, s, e)
  PROVE  IInv'
<1>. USE DEF IInv
<1>1. PICK r : r = [supplementary |-> s, created |-> today, evening |-> e,
                    status |-> "not met", penalty_status |-> "none"]
  OBVIOUS
<1>2. PICK owed : owed = [fee |-> Payments, interest |-> FALSE, last |-> None]
  OBVIOUS
<1>3. r \in ObligationRow /\ owed \in Balance
  <2>1. today \in Day /\ Payments \in 0..Payments
    BY BoundsAssumption DEF Typed, TypeOK
  <2>2. r \in ObligationRow
    BY <1>1, <2>1 DEF ObligationRow, ComplianceStatus, PenaltyStatus
  <2>3. owed \in Balance
    BY <1>2, <2>1 DEF Balance
  <2>. QED
    BY <2>2, <2>3
<1>4. r # None /\ Own(o) \in Invoice
  BY <1>3, NoneAssumption, OwnIsInvoice
<1>5. /\ obligation[o] = None
      /\ obligation' = [obligation EXCEPT ![o] = r]
      /\ bill' = [bill EXCEPT ![Own(o)] = owed] /\ copy' = [copy EXCEPT ![Own(o)] = owed]
      /\ UNCHANGED <<today, penalty, fined, queue, sync, job, decrease, failures, kills>>
  BY <1>1, <1>2 DEF BillObligation
<1>6. Typed'
  BY <1>3, <1>4, <1>5 DEF Typed, TypeOK
<1>7. Grows
  BY <1>4, <1>5 DEF Grows, IsMet, Typed, TypeOK
<1>8. Owned'
  <2>1. \A i \in Invoice : copy'[i] # None => HasOwner(i)'
    <3>. SUFFICES ASSUME NEW i \in Invoice, copy'[i] # None PROVE HasOwner(i)'
      OBVIOUS
    <3>1. CASE i = Own(o)
      <4>1. Kind(i) = "obligation" /\ Ob(i) = o
        BY <3>1, OwnIsInvoice
      <4>2. obligation'[o] # None
        BY <1>4, <1>5 DEF Typed, TypeOK
      <4>. QED
        BY <4>1, <4>2 DEF HasOwner
    <3>2. CASE i # Own(o)
      <4>1. HasOwner(i)
        BY <1>5, <3>2 DEF Owned, Typed, TypeOK
      <4>. QED
        BY <4>1, <1>5, <1>7, InvoiceIsOwnOrPenalty DEF HasOwner, Grows
    <3>. QED
      BY <3>1, <3>2
  <2>2. \A q \in Obligation : bill'[Own(q)] # None \/ decrease'[q] # "none" => obligation'[q] # None
    BY <1>4, <1>5, <1>7, OwnIsInvoice DEF Owned, Grows, Typed, TypeOK
  <2>3. \A p \in Penalty : penalty'[p] # None \/ queue'[p] # None => obligation'[Ob(p)] # None
    BY <1>5, <1>7, PenaltyIsInvoice DEF Owned, Grows
  <2>. QED
    BY <2>1, <2>2, <2>3 DEF Owned
<1>. QED
  BY <1>5, <1>6, <1>7, <1>8, JobKept

\* A payment or interest changes an invoice that exists.
LEMMA BillChanges ==
  ASSUME IInv, NEW i \in Invoice, bill[i] # None, NEW b \in Balance, bill' = [bill EXCEPT ![i] = b],
         copy' = copy \/ (copy' = [copy EXCEPT ![i] = b] /\ HasOwner(i)),
         UNCHANGED <<today, obligation, penalty, fined, queue, sync, job, failures, kills>>,
         decrease' \in [Obligation -> {"none", "posted", "settled"}],
         \A o \in Obligation : decrease'[o] # "none" => obligation[o] # None
  PROVE  IInv'
<1>. USE DEF IInv
<1>1. Typed'
  BY DEF Typed, TypeOK
<1>2. Owned'
  <2>1. \A j \in Invoice : copy'[j] # None => HasOwner(j)'
    BY DEF Owned, HasOwner, Typed, TypeOK
  <2>2. \A q \in Obligation : bill'[Own(q)] # None => bill[Own(q)] # None
    BY OwnIsInvoice DEF Typed, TypeOK
  <2>. QED
    BY <2>1, <2>2 DEF Owned
<1>3. Grows
  BY DEF Grows, IsMet
<1>. QED
  BY <1>1, <1>2, <1>3, JobKept

LEMMA PaymentsKeep ==
  ASSUME IInv,
         \/ \E o \in Obligation, d \in Day : PayFee(o, d)
         \/ \E p \in Penalty : PayPenalty(p)
         \/ \E o \in Obligation : AddInterest(o)
         \/ \E o \in Obligation : PayInterest(o)
  PROVE  IInv'
<1>. USE DEF IInv
<1>0. \A i \in Invoice : bill[i] # None => bill[i] \in Balance
  BY DEF Typed, TypeOK
<1>d. /\ decrease \in [Obligation -> {"none", "posted", "settled"}]
      /\ \A o \in Obligation : decrease[o] # "none" => obligation[o] # None
  BY DEF Typed, TypeOK, Owned
<1>1. ASSUME NEW o \in Obligation, NEW d \in Day, PayFee(o, d) PROVE IInv'
  <2>. DEFINE i == Own(o)
              b == [bill[i] EXCEPT !.fee = bill[i].fee - 1, !.last = Later(bill[i].last, d)]
  <2>1. i \in Invoice /\ bill[i] # None /\ bill[i].fee > 0
    BY <1>1, OwnIsInvoice DEF PayFee
  <2>2. b \in Balance
    BY <2>1, <1>0, BalanceChanges
  <2>3. bill' = [bill EXCEPT ![i] = b]
    BY <1>1, <2>1 DEF PayFee, Typed, TypeOK
  <2>. HIDE DEF b, i
  <2>. QED
    BY <1>1, <1>d, <2>1, <2>2, <2>3, BillChanges DEF PayFee
<1>2. ASSUME NEW p \in Penalty, PayPenalty(p) PROVE IInv'
  <2>. DEFINE b == [bill[p] EXCEPT !.fee = 0]
  <2>1. p \in Invoice /\ bill[p] # None
    BY <1>2, PenaltyIsInvoice DEF PayPenalty
  <2>2. b \in Balance
    BY <2>1, <1>0, BoundsAssumption DEF Balance
  <2>3. bill' = [bill EXCEPT ![p] = b]
    BY <1>2, <2>1 DEF PayPenalty, Typed, TypeOK
  <2>. HIDE DEF b
  <2>. QED
    BY <1>2, <1>d, <2>1, <2>2, <2>3, BillChanges DEF PayPenalty
<1>3. ASSUME NEW o \in Obligation, NEW x \in BOOLEAN,
             bill[Own(o)] # None, bill' = [bill EXCEPT ![Own(o)].interest = x],
             UNCHANGED <<today, obligation, copy, penalty, fined, queue, sync, job, decrease,
                         failures, kills>>
      PROVE  IInv'
  <2>. DEFINE i == Own(o)
              b == [bill[i] EXCEPT !.interest = x]
  <2>1. i \in Invoice /\ bill[i] # None
    BY <1>3, OwnIsInvoice
  <2>2. b \in Balance
    BY <2>1, <1>0 DEF Balance
  <2>3. bill' = [bill EXCEPT ![i] = b]
    BY <1>3, <2>1 DEF Typed, TypeOK
  <2>. HIDE DEF b, i
  <2>. QED
    BY <1>3, <1>d, <2>1, <2>2, <2>3, BillChanges
<1>. QED
  BY <1>1, <1>2, <1>3 DEF AddInterest, PayInterest

LEMMA RefreshPageKeeps ==
  ASSUME IInv, NEW i \in Invoice, RefreshPage(i)
  PROVE  IInv'
<1>. USE DEF IInv
<1>1. Typed' /\ Grows
  BY DEF RefreshPage, Typed, TypeOK, Grows, IsMet
<1>2. Owned'
  BY DEF RefreshPage, Owned, HasOwner, Typed, TypeOK
<1>3. UNCHANGED <<job, penalty, queue, fined>>
  BY DEF RefreshPage
<1>. QED
  BY <1>1, <1>2, <1>3, JobKept

LEMMA PostDecreaseKeeps ==
  ASSUME IInv, NEW o \in Obligation, PostDecrease(o)
  PROVE  IInv'
<1>. USE DEF IInv
<1>. DEFINE i == Own(o)
            b == [bill[i] EXCEPT !.fee = 0, !.last = Later(bill[i].last, obligation[o].created)]
<1>1. i \in Invoice /\ bill[i] # None /\ obligation[o] # None /\ HasOwner(i)
  BY OwnIsInvoice DEF PostDecrease, Owned, HasOwner
<1>2. b \in Balance
  <2>1. bill[i] \in Balance /\ obligation[o].created \in Day
    BY <1>1 DEF Typed, TypeOK, ObligationRow
  <2>. QED
    BY <2>1, BalanceChanges
<1>3. bill' = [bill EXCEPT ![i] = b] /\ copy' = [copy EXCEPT ![i] = b]
  BY <1>1 DEF PostDecrease, Typed, TypeOK
<1>4. /\ decrease' \in [Obligation -> {"none", "posted", "settled"}]
      /\ \A q \in Obligation : decrease'[q] # "none" => obligation[q] # None
  BY <1>1 DEF PostDecrease, Typed, TypeOK, Owned
<1>5. UNCHANGED <<today, obligation, penalty, fined, queue, sync, job, failures, kills>>
  BY DEF PostDecrease
<1>. HIDE DEF b, i
<1>. QED
  BY <1>1, <1>2, <1>3, <1>4, <1>5, BillChanges

\* The status of an obligation changes; it is not unmet again.
LEMMA StatusChanges ==
  ASSUME IInv, NEW o \in Obligation, obligation[o] # None, NEW r \in ObligationRow,
         obligation' = [obligation EXCEPT ![o] = r],
         IsMet(o) => r.status # "not met"
  PROVE  /\ obligation' \in [Obligation -> ObligationRow \cup {None}]
         /\ Grows
  BY NoneAssumption DEF IInv, Typed, TypeOK, Grows, IsMet

LEMMA MarkMetKeeps ==
  ASSUME IInv, NEW o \in Obligation, MarkMet(o)
  PROVE  IInv'
<1>. USE DEF IInv
<1>1. PICK x : x = IF copy[Own(o)].interest THEN "met interest unpaid" ELSE "fully met"
  OBVIOUS
<1>2. PICK r : r = [obligation[o] EXCEPT !.status = x]
  OBVIOUS
<1>3. obligation[o] # None /\ obligation[o] \in ObligationRow
  BY DEF MarkMet, Owned, Typed, TypeOK
<1>4. x \in ComplianceStatus /\ x # "not met"
  BY <1>1 DEF ComplianceStatus
<1>5. r \in ObligationRow /\ r.status # "not met"
  BY <1>2, <1>3, <1>4 DEF ObligationRow
<1>6. obligation' = [obligation EXCEPT ![o] = r]
  BY <1>1, <1>2 DEF MarkMet, Typed, TypeOK
<1>7. obligation' \in [Obligation -> ObligationRow \cup {None}] /\ Grows
  BY <1>3, <1>5, <1>6, StatusChanges
<1>8. Typed'
  BY <1>7 DEF MarkMet, Typed, TypeOK
<1>9. Owned'
  BY <1>3, <1>7, InvoiceIsOwnOrPenalty, PenaltyIsInvoice DEF MarkMet, Owned, HasOwner, Grows, Typed, TypeOK
<1>10. UNCHANGED <<job, penalty, queue, fined>>
  BY DEF MarkMet
<1>. QED
  BY <1>7, <1>8, <1>9, <1>10, JobKept

LEMMA WorldKeeps == IInv /\ World => IInv'
  BY NextDayKeeps, BillObligationKeeps, PaymentsKeep, RefreshPageKeeps, PostDecreaseKeeps, MarkMetKeeps
     DEF World

-----------------------------------------------------------------------------
(* Steps of the job *)

LEMMA IdleIsJob == Idle \in Job /\ Idle.pc = "idle" /\ Idle.todo = {} /\ Idle.plan = {}
                     /\ Idle.mode = None /\ Idle.deadline = "date"
  BY DEF Idle, Job, Steps

\* Only the sync gets further than to the first step of create_penalty.
LEMMA OnlySyncCreates ==
  ASSUME IInv, job.pc \notin {"idle", "start"}
  PROVE  job.mode = "sync" /\ job.deadline = "date"
  BY DEF IInv, JobOwned

\* Types and owners when no row changes
LEMMA RowsKept ==
  ASSUME IInv, UNCHANGED <<obligation, bill, copy, penalty, queue, decrease>>
  PROVE  Owned' /\ (\A i \in Invoice : HasOwner(i) => HasOwner(i)')
  BY DEF IInv, Owned, HasOwner

\* A job that ends
LEMMA JobEnds ==
  ASSUME IInv, job' = Idle, Grows, fined' = fined
  PROVE  job' \in Job /\ JobOwned' /\ BilledWhenMet' /\ BilledOnce'
<1>. USE DEF IInv
<1>1. job' \in Job /\ job'.pc = "idle" /\ job'.todo = {}
  BY IdleIsJob
<1>2. JobOwned'
  BY <1>1 DEF JobOwned, OnObligation, Creating
<1>3. \A p \in Penalty : IsMet(Ob(p)) => IsMet(Ob(p))'
  BY PenaltyIsInvoice DEF Grows
<1>4. BilledWhenMet'
  BY <1>1, <1>3 DEF BilledWhenMet, Creating
<1>. QED
  BY <1>1, <1>2, <1>4 DEF BilledOnce

LEMMA SyncStartsKeeps ==
  ASSUME IInv, SyncStarts
  PROVE  IInv'
<1>. USE DEF IInv
<1>1. /\ job' \in Job /\ job'.pc = "pick" /\ job'.mode = "sync" /\ job'.deadline = "date"
      /\ job'.todo = {i \in Invoice : copy[i] # None} /\ job'.plan = {}
  BY DEF SyncStarts, Idle, Job, Steps
<1>2. UNCHANGED <<today, obligation, bill, copy, penalty, fined, queue, decrease, failures, kills>>
        /\ sync' = "running"
  BY DEF SyncStarts
<1>3. Typed'
  BY <1>1, <1>2 DEF Typed, TypeOK
<1>4. Owned'
  BY <1>2, RowsKept
<1>5. JobOwned'
  BY <1>1, <1>4, <1>2 DEF JobOwned, OnObligation, Creating, Owned
<1>6. BilledWhenMet' /\ BilledOnce'
  BY <1>1, <1>2 DEF BilledWhenMet, Creating, IsMet, BilledOnce
<1>. QED
  BY <1>3, <1>4, <1>5, <1>6

LEMMA JobEndsKeeps ==
  ASSUME IInv, SyncAborts \/ SyncCompletes \/ Kill
  PROVE  IInv'
<1>. USE DEF IInv
<1>1. job' = Idle /\ UNCHANGED <<today, obligation, bill, copy, penalty, fined, queue, decrease>>
  BY DEF SyncAborts, SyncCompletes, Kill
<1>2. failures' \in 0..MaxFailures /\ kills' \in 0..MaxKills
  BY BoundsAssumption DEF SyncAborts, SyncCompletes, Kill, Typed, TypeOK
<1>3. sync' \in {"waiting", "due", "running"}
  BY DEF SyncAborts, SyncCompletes, Kill, Typed, TypeOK
<1>4. Typed'
  BY <1>1, <1>2, <1>3, IdleIsJob DEF Typed, TypeOK
<1>5. Grows
  BY <1>1 DEF Grows, IsMet
<1>. QED
  BY <1>1, <1>4, <1>5, RowsKept, JobEnds

LEMMA RefreshInvoiceKeeps ==
  ASSUME IInv, NEW i \in Invoice, RefreshInvoice(i)
  PROVE  IInv'
<1>. USE DEF IInv
<1>1. HasOwner(i) /\ job.mode = "sync" /\ job.deadline = "date" /\ job.pc = "pick" /\ i \in job.todo
  BY OnlySyncCreates DEF RefreshInvoice, JobOwned
<1>2. /\ job' \in Job /\ job'.pc = (IF Kind(i) = "obligation" THEN "accruing" ELSE "penalty")
      /\ job'.mode = "sync" /\ job'.deadline = "date" /\ job'.todo \subseteq job.todo
      /\ job'.invoice = i
  BY <1>1 DEF RefreshInvoice, Typed, TypeOK, Job, Steps
<1>3. /\ copy' = [copy EXCEPT ![i] = bill[i]]
      /\ UNCHANGED <<today, obligation, bill, penalty, fined, queue, sync, decrease, failures, kills>>
  BY DEF RefreshInvoice
<1>4. Typed'
  BY <1>2, <1>3 DEF Typed, TypeOK, Job
<1>5. Owned'
  BY <1>1, <1>3 DEF Owned, HasOwner, Typed, TypeOK
<1>6. JobOwned'
  <2>1. \A j \in job'.todo : HasOwner(j)'
    BY <1>2, <1>3 DEF JobOwned, HasOwner
  <2>2. CASE Kind(i) = "obligation"
    BY <2>1, <2>2, <1>1, <1>2, <1>3, InvoiceIsOwnOrPenalty, OwnIsInvoice
       DEF JobOwned, OnObligation, Creating, HasOwner
  <2>3. CASE Kind(i) # "obligation"
    BY <2>1, <2>3, <1>1, <1>2, <1>3, InvoiceIsOwnOrPenalty DEF JobOwned, OnObligation, Creating, HasOwner
  <2>. QED
    BY <2>2, <2>3
<1>7. BilledWhenMet' /\ BilledOnce'
  BY <1>2, <1>3 DEF BilledWhenMet, Creating, IsMet, BilledOnce
<1>. QED
  BY <1>4, <1>5, <1>6, <1>7

\* What stays when the status of an obligation changes
LEMMA RowsGrow ==
  ASSUME IInv, Grows, UNCHANGED <<bill, copy, penalty, queue, decrease>>
  PROVE  Owned' /\ (\A i \in Invoice : HasOwner(i) => HasOwner(i)')
  BY InvoiceIsOwnOrPenalty, PenaltyIsInvoice DEF IInv, Owned, HasOwner, Grows, Typed, TypeOK

LEMMA PenaltyPaidKeeps ==
  ASSUME IInv, PenaltyPaid
  PROVE  IInv'
<1>. USE DEF IInv
<1>. DEFINE p == job.invoice
<1>1. /\ p \in Penalty /\ penalty[p] # None /\ job.mode = "sync" /\ job.deadline = "date"
      /\ obligation[Ob(p)] # None /\ Ob(p) \in Obligation
  BY OnlySyncCreates, PenaltyIsInvoice DEF PenaltyPaid, JobOwned, Owned
<1>2. /\ job' \in Job /\ job'.pc = "pick" /\ job'.mode = "sync" /\ job'.deadline = "date"
      /\ job'.todo = job.todo
  BY <1>1 DEF PenaltyPaid, Typed, TypeOK, Job, Steps
<1>3. /\ penalty' = penalty \/ penalty' = [penalty EXCEPT ![p].status = "paid"]
      /\ obligation' = obligation \/ obligation' = [obligation EXCEPT ![Ob(p)].penalty_status = "paid"]
      /\ UNCHANGED <<today, bill, copy, fined, queue, sync, decrease, failures, kills>>
  BY DEF PenaltyPaid
<1>4. obligation' \in [Obligation -> ObligationRow \cup {None}] /\ Grows
  <2>. DEFINE r == [obligation[Ob(p)] EXCEPT !.penalty_status = "paid"]
  <2>1. r \in ObligationRow /\ r.status = obligation[Ob(p)].status
    BY <1>1 DEF Typed, TypeOK, ObligationRow, PenaltyStatus
  <2>2. obligation' = obligation \/ obligation' = [obligation EXCEPT ![Ob(p)] = r]
    BY <1>1, <1>3 DEF Typed, TypeOK
  <2>. HIDE DEF r
  <2>3. CASE obligation' = obligation
    BY <2>3 DEF Grows, IsMet, Typed, TypeOK
  <2>4. CASE obligation' = [obligation EXCEPT ![Ob(p)] = r]
    BY <2>1, <2>4, <1>1, StatusChanges DEF IsMet
  <2>. QED
    BY <2>2, <2>3, <2>4
<1>5. penalty' \in [Penalty -> PenaltyRow \cup {None}] /\ \A q \in Penalty : penalty'[q] # None <=> penalty[q] # None
  <2>. DEFINE r == [penalty[p] EXCEPT !.status = "paid"]
  <2>1. r \in PenaltyRow
    BY <1>1 DEF Typed, TypeOK, PenaltyRow
  <2>2. penalty' = penalty \/ penalty' = [penalty EXCEPT ![p] = r]
    BY <1>1, <1>3 DEF Typed, TypeOK
  <2>3. r # None
    BY <2>1, NoneAssumption
  <2>. HIDE DEF r
  <2>. QED
    BY <2>1, <2>2, <2>3, <1>1 DEF Typed, TypeOK
<1>6. Typed'
  BY <1>2, <1>3, <1>4, <1>5 DEF Typed, TypeOK, Job
<1>7. \A i \in Invoice : HasOwner(i) => HasOwner(i)'
  BY <1>4, <1>5, InvoiceIsOwnOrPenalty DEF HasOwner, Grows
<1>8. Owned'
  BY <1>3, <1>4, <1>5, <1>7, PenaltyIsInvoice DEF Owned, Grows
<1>9. JobOwned'
  BY <1>2, <1>7 DEF JobOwned, OnObligation, Creating, Typed, TypeOK
<1>10. BilledWhenMet' /\ BilledOnce'
  BY <1>2, <1>3, <1>4, PenaltyIsInvoice DEF BilledWhenMet, Creating, Grows, BilledOnce
<1>. QED
  BY <1>6, <1>8, <1>9, <1>10

\* The handlers of an obligation leave it in hand, or put it down.
LEMMA KeepsInHand ==
  ASSUME IInv, Grows, OnObligation, job' \in Job, job'.todo = job.todo,
         job'.mode = "sync", job'.deadline = "date",
         UNCHANGED <<penalty, bill, copy, queue, decrease>>,
         \/ job'.pc = "pick"
         \/ /\ job'.pc \in {"met", "plan", "interest", "create"} /\ job'.invoice = job.invoice
            /\ job'.pc = "met" => job'.status \in ComplianceStatus
  PROVE  Owned' /\ JobOwned'
<1>. USE DEF IInv
<1>1. Owned' /\ \A i \in Invoice : HasOwner(i) => HasOwner(i)'
  BY RowsGrow
<1>2. \A i \in job'.todo : HasOwner(i)'
  BY <1>1 DEF JobOwned, Typed, TypeOK
<1>3. job'.pc # "pick" => \E o \in Obligation : job'.invoice = Own(o) /\ obligation'[o] # None
  BY InHand DEF Grows
<1>. QED
  BY <1>1, <1>2, <1>3 DEF JobOwned, OnObligation, Creating

\* Nothing is billed for an obligation that is not met.
LEMMA NothingBilled ==
  ASSUME IInv, NEW o \in Obligation, ~IsMet(o)
  PROVE  Unbilled(o, PenaltyType)
<1>. SUFFICES ASSUME NEW t \in PenaltyType PROVE fined[<<o, t>>] = 0
  BY DEF Unbilled
<1>1. <<o, t>> \in Penalty /\ Ob(<<o, t>>) = o
  BY DEF Penalty, Ob
<1>2. fined[<<o, t>>] \in 0..2 /\ ~(fined[<<o, t>>] > 0)
  BY <1>1 DEF IInv, BilledWhenMet, Typed, TypeOK
<1>. QED
  BY <1>2

LEMMA PenaltyAccruingKeeps ==
  ASSUME IInv, PenaltyAccruing
  PROVE  IInv'
<1>. USE DEF IInv
<1>. DEFINE o == Ob(job.invoice)
            r == [obligation[o] EXCEPT !.penalty_status = "accruing"]
<1>1. /\ OnObligation /\ o \in Obligation /\ obligation[o] # None /\ obligation[o] \in ObligationRow
      /\ job.mode = "sync" /\ job.deadline = "date"
  BY InHand, OnlySyncCreates DEF PenaltyAccruing, OnObligation, Typed, TypeOK
<1>2. obligation[o].status \in ComplianceStatus
  BY <1>1 DEF ObligationRow
<1>3. /\ job' \in Job /\ job'.pc = "met" /\ job'.mode = "sync" /\ job'.deadline = "date"
      /\ job'.todo = job.todo /\ job'.invoice = job.invoice /\ job'.status = obligation[o].status
  BY <1>1, <1>2 DEF PenaltyAccruing, Typed, TypeOK, Job, Steps
<1>4. r \in ObligationRow /\ r.status = obligation[o].status
  BY <1>1 DEF ObligationRow, PenaltyStatus
<1>5. obligation' = obligation \/ obligation' = [obligation EXCEPT ![o] = r]
  BY <1>1 DEF PenaltyAccruing, Typed, TypeOK
<1>. HIDE DEF r
<1>6. obligation' \in [Obligation -> ObligationRow \cup {None}] /\ Grows
  <2>1. CASE obligation' = obligation
    BY <2>1 DEF Grows, IsMet, Typed, TypeOK
  <2>2. CASE obligation' = [obligation EXCEPT ![o] = r]
    BY <2>2, <1>1, <1>4, StatusChanges DEF IsMet
  <2>. QED
    BY <1>5, <2>1, <2>2
<1>7. UNCHANGED <<today, bill, copy, penalty, fined, queue, sync, decrease, failures, kills>>
  BY DEF PenaltyAccruing
<1>8. Typed'
  BY <1>3, <1>6, <1>7 DEF Typed, TypeOK, Job
<1>9. Owned' /\ JobOwned'
  <2>1. job'.status \in ComplianceStatus
    BY <1>2, <1>3
  <2>. QED
    BY <2>1, <1>1, <1>3, <1>6, <1>7, KeepsInHand
<1>10. BilledWhenMet'
  <2>1. \A p \in Penalty : fined'[p] > 0 => IsMet(Ob(p))'
    BY <1>6, <1>7, PenaltyIsInvoice DEF BilledWhenMet, Grows
  <2>2. job'.status = "not met" => Unbilled(o, PenaltyType)'
    BY <1>1, <1>3, <1>7, NothingBilled DEF IsMet, Unbilled
  <2>. QED
    BY <2>1, <2>2, <1>3 DEF BilledWhenMet, Creating
<1>11. BilledOnce'
  BY <1>7 DEF BilledOnce
<1>. QED
  BY <1>8, <1>9, <1>10, <1>11

LEMMA ObligationPaidKeeps ==
  ASSUME IInv, ObligationPaid
  PROVE  IInv'
<1>. USE DEF IInv
<1>. DEFINE o == Ob(job.invoice)
<1>1. PICK x : x = IF job.owed.interest THEN "met interest unpaid" ELSE "fully met"
  OBVIOUS
<1>2. PICK r : r = [obligation[o] EXCEPT !.status = x]
  OBVIOUS
<1>3. /\ OnObligation /\ o \in Obligation /\ obligation[o] # None /\ obligation[o] \in ObligationRow
      /\ job.mode = "sync" /\ job.deadline = "date"
  BY InHand, OnlySyncCreates DEF ObligationPaid, OnObligation, Typed, TypeOK
<1>4. x \in ComplianceStatus /\ x # "not met"
  BY <1>1 DEF ComplianceStatus
<1>5. r \in ObligationRow /\ r.status # "not met" /\ r # None
  <2>1. r \in ObligationRow /\ r.status = x
    BY <1>2, <1>3, <1>4 DEF ObligationRow
  <2>. QED
    BY <2>1, <1>4, NoneAssumption
<1>6. /\ job' \in Job /\ job'.pc = "plan" /\ job'.mode = "sync" /\ job'.deadline = "date"
      /\ job'.todo = job.todo /\ job'.invoice = job.invoice
  BY <1>1, <1>3, <1>4 DEF ObligationPaid, Typed, TypeOK, Job, Steps
<1>7. obligation' = [obligation EXCEPT ![o] = r]
  BY <1>1, <1>2, <1>3 DEF ObligationPaid, Typed, TypeOK
<1>8. obligation' \in [Obligation -> ObligationRow \cup {None}] /\ Grows
  BY <1>3, <1>5, <1>7, StatusChanges
<1>9. UNCHANGED <<today, bill, copy, penalty, fined, queue, sync, decrease, failures, kills>>
  BY DEF ObligationPaid
<1>10. Typed'
  BY <1>6, <1>8, <1>9 DEF Typed, TypeOK, Job
<1>11. Owned' /\ JobOwned'
  BY <1>3, <1>6, <1>8, <1>9, KeepsInHand
<1>12. BilledWhenMet'
  <2>1. \A p \in Penalty : fined'[p] > 0 => IsMet(Ob(p))'
    BY <1>8, <1>9, PenaltyIsInvoice DEF BilledWhenMet, Grows
  <2>2. IsMet(o)'
    BY <1>3, <1>5, <1>6, <1>7 DEF IsMet, Typed, TypeOK
  <2>3. Unbilled(o, PenaltyType)'
    BY <1>6, <1>9 DEF ObligationPaid, BilledWhenMet, Unbilled
  <2>. QED
    BY <2>1, <2>2, <2>3, <1>6 DEF BilledWhenMet, Creating
<1>13. BilledOnce'
  BY <1>9 DEF BilledOnce
<1>. QED
  BY <1>10, <1>11, <1>12, <1>13

\* The steps between that only decide what comes next
LEMMA DecisionsKeep ==
  ASSUME IInv, ObligationNotPaid \/ PlanPenalties \/ PenaltiesCreated
  PROVE  IInv'
<1>. USE DEF IInv
<1>1. OnObligation /\ job.mode = "sync" /\ job.deadline = "date" /\ job.pc \in {"met", "plan", "create"}
  BY OnlySyncCreates DEF ObligationNotPaid, PlanPenalties, PenaltiesCreated, OnObligation
<1>2. UNCHANGED <<today, obligation, bill, copy, penalty, fined, queue, sync, decrease, failures, kills>>
  BY DEF ObligationNotPaid, PlanPenalties, PenaltiesCreated
<1>3. /\ job' \in Job /\ job'.mode = "sync" /\ job'.deadline = "date"
      /\ job'.todo = job.todo /\ job'.invoice = job.invoice
      /\ job'.pc = "interest" \/ (job.pc = "plan" /\ job'.pc = "create" /\ job'.plan \subseteq PenaltyType)
  <2>1. CASE ObligationNotPaid \/ PenaltiesCreated
    <3>1. job' = [job EXCEPT !.pc = "interest"]
      BY <2>1 DEF ObligationNotPaid, PenaltiesCreated
    <3>. QED
      BY <3>1, <1>1 DEF Typed, Job, Steps
  <2>2. CASE PlanPenalties
    <3>1. PICK plan : plan = PenaltiesDue(obligation[Ob(job.invoice)], copy[Own(Ob(job.invoice))].last)
      OBVIOUS
    <3>2. plan \subseteq PenaltyType
      BY <3>1 DEF PenaltiesDue
    <3>3. job.pc = "plan" /\ job' = [job EXCEPT !.pc = "create", !.plan = plan]
      BY <2>2, <3>1 DEF PlanPenalties
    <3>. QED
      BY <3>2, <3>3, <1>1 DEF Typed, Job, Steps
  <2>. QED
    BY <2>1, <2>2
<1>4. Grows
  BY <1>2 DEF Grows, IsMet
<1>5. Typed'
  BY <1>2, <1>3 DEF Typed, TypeOK, Job
<1>6. Owned' /\ JobOwned'
  BY <1>1, <1>2, <1>3, <1>4, KeepsInHand
<1>7. BilledWhenMet' /\ BilledOnce'
  BY <1>1, <1>2, <1>3 DEF BilledWhenMet, Creating, ToCreate, Unbilled, IsMet, BilledOnce
<1>. QED
  BY <1>5, <1>6, <1>7

LEMMA InterestPaidKeeps ==
  ASSUME IInv, InterestPaid
  PROVE  IInv'
<1>. USE DEF IInv
<1>. DEFINE o == Ob(job.invoice)
            r == [obligation[o] EXCEPT !.status = "fully met"]
<1>1. /\ OnObligation /\ o \in Obligation /\ obligation[o] # None /\ obligation[o] \in ObligationRow
      /\ job.mode = "sync" /\ job.deadline = "date"
  BY InHand, OnlySyncCreates DEF InterestPaid, OnObligation, Typed, TypeOK
<1>2. /\ job' \in Job /\ job'.pc = "pick" /\ job'.mode = "sync" /\ job'.deadline = "date"
      /\ job'.todo = job.todo
  BY <1>1 DEF InterestPaid, Typed, TypeOK, Job, Steps
<1>3. r \in ObligationRow /\ r.status # "not met"
  BY <1>1 DEF ObligationRow, ComplianceStatus
<1>4. obligation' = obligation \/ obligation' = [obligation EXCEPT ![o] = r]
  BY <1>1 DEF InterestPaid, Typed, TypeOK
<1>. HIDE DEF r
<1>5. obligation' \in [Obligation -> ObligationRow \cup {None}] /\ Grows
  <2>1. CASE obligation' = obligation
    BY <2>1 DEF Grows, IsMet, Typed, TypeOK
  <2>2. CASE obligation' = [obligation EXCEPT ![o] = r]
    BY <2>2, <1>1, <1>3, StatusChanges
  <2>. QED
    BY <1>4, <2>1, <2>2
<1>6. UNCHANGED <<today, bill, copy, penalty, fined, queue, sync, decrease, failures, kills>>
  BY DEF InterestPaid
<1>7. Typed'
  BY <1>2, <1>5, <1>6 DEF Typed, TypeOK, Job
<1>8. Owned' /\ JobOwned'
  BY <1>1, <1>2, <1>5, <1>6, KeepsInHand
<1>9. BilledWhenMet' /\ BilledOnce'
  BY <1>2, <1>5, <1>6, PenaltyIsInvoice DEF BilledWhenMet, Creating, Grows, BilledOnce
<1>. QED
  BY <1>7, <1>8, <1>9

-----------------------------------------------------------------------------
(* create_penalty *)

LEMMA StartPenaltyKeeps ==
  ASSUME IInv, StartPenalty
  PROVE  IInv'
<1>. USE DEF IInv
<1>1. OnObligation /\ job.mode = "sync" /\ job.deadline = "date" /\ job.pc = "create"
  BY OnlySyncCreates DEF StartPenalty, OnObligation
<1>2. job.plan \subseteq PenaltyType /\ job.plan # {}
  BY DEF StartPenalty, Typed, TypeOK
<1>3. /\ job' \in Job /\ job'.pc = "start" /\ job'.mode = "sync" /\ job'.deadline = "date"
      /\ job'.todo = job.todo /\ job'.invoice = job.invoice /\ job'.plan = job.plan
      /\ job'.type \in job.plan
  <2>1. (IF "late" \in job.plan THEN "late" ELSE "overdue") \in job.plan
    BY <1>2 DEF PenaltyType
  <2>. QED
    BY <1>1, <1>2, <2>1 DEF StartPenalty, Typed, TypeOK, Job, Steps, Creating
<1>4. UNCHANGED <<today, obligation, bill, copy, penalty, fined, queue, sync, decrease, failures, kills>>
  BY DEF StartPenalty
<1>5. Typed'
  BY <1>3, <1>4 DEF Typed, TypeOK, Job
<1>6. Owned' /\ (\A i \in Invoice : HasOwner(i) => HasOwner(i)')
  BY <1>4, RowsKept
<1>7. JobOwned'
  BY <1>1, <1>2, <1>3, <1>4, <1>6 DEF JobOwned, OnObligation, Creating, Typed, TypeOK
<1>8. BilledWhenMet' /\ BilledOnce'
  BY <1>1, <1>3, <1>4 DEF BilledWhenMet, Creating, ToCreate, Unbilled, IsMet, BilledOnce
<1>. QED
  BY <1>5, <1>6, <1>7, <1>8

\* A step of create_penalty that goes on with the same penalty, with its row.
LEMMA GoesOn ==
  ASSUME IInv, job.pc \in Creating, job.mode = "sync",
         NEW pc \in Creating \ {"start"}, job' = [job EXCEPT !.pc = pc],
         penalty'[Current] # None, \A p \in Penalty : penalty[p] # None => penalty'[p] # None,
         UNCHANGED <<obligation, queue>>
  PROVE  job' \in Job /\ JobOwned'
<1>. USE DEF IInv
<1>1. /\ job' \in Job /\ job'.pc = pc /\ job'.mode = "sync" /\ job'.deadline = job.deadline
      /\ job'.todo = job.todo /\ job'.invoice = job.invoice /\ job'.plan = job.plan
      /\ job'.type = job.type
  BY DEF Typed, Job, Steps, Creating
<1>2. job.deadline = "date" /\ job.type \in job.plan /\ job.type \in PenaltyType
  BY DEF JobOwned, Creating
<1>3. \A i \in job'.todo : HasOwner(i)'
  BY <1>1, InvoiceIsOwnOrPenalty DEF JobOwned, HasOwner, Typed, TypeOK
<1>4. \E o \in Obligation : job'.invoice = Own(o) /\ obligation'[o] # None
  BY <1>1 DEF JobOwned, OnObligation
<1>5. Current' = Current
  BY <1>1 DEF Current
<1>. QED
  BY <1>1, <1>2, <1>3, <1>4, <1>5 DEF JobOwned, OnObligation, Creating

LEMMA SyncCreates ==
  ASSUME IInv, job.pc \in Creating, job.deadline = "date"
  PROVE  job.mode = "sync" /\ job.type \in job.plan /\ IsMet(Ob(job.invoice))
           /\ Unbilled(Ob(job.invoice), ToCreate)
  BY DEF IInv, JobOwned, BilledWhenMet, Creating

LEMMA GetOrCreateRowKeeps ==
  ASSUME IInv, GetOrCreateRow
  PROVE  IInv'
<1>. USE DEF IInv
<1>1. job.pc = "start" /\ job.pc \in Creating /\ job.deadline = "date"
  BY DEF GetOrCreateRow, Creating
<1>2. job.mode = "sync" /\ IsMet(Ob(job.invoice)) /\ Unbilled(Ob(job.invoice), ToCreate)
  BY <1>1, SyncCreates
<1>3. Current \in Penalty /\ Ob(Current) = Ob(job.invoice) /\ obligation[Ob(Current)] # None
  BY <1>1, CurrentIsPenalty
<1>4. PICK pc : pc = IF penalty'[Current].number THEN "refresh" ELSE "invoice"
  OBVIOUS
<1>5. pc \in {"refresh", "invoice"} /\ job' = [job EXCEPT !.pc = pc]
  BY <1>4 DEF GetOrCreateRow
<1>6. UNCHANGED <<today, obligation, bill, copy, fined, queue, sync, decrease, failures, kills>>
  BY DEF GetOrCreateRow
<1>7. /\ penalty' \in [Penalty -> PenaltyRow \cup {None}] /\ penalty'[Current] # None
      /\ \A p \in Penalty : penalty[p] # None => penalty'[p] # None
      /\ \A p \in Penalty : penalty'[p] # None => penalty[p] # None \/ p = Current
  <2>. DEFINE r == [status |-> "not paid", number |-> FALSE, linked |-> FALSE]
  <2>1. r \in PenaltyRow /\ r # None
    <3>1. r \in PenaltyRow
      BY DEF PenaltyRow
    <3>. QED
      BY <3>1, NoneAssumption
  <2>2. (penalty[Current] # None /\ penalty' = penalty) \/ penalty' = [penalty EXCEPT ![Current] = r]
    BY DEF GetOrCreateRow
  <2>. HIDE DEF r
  <2>. QED
    BY <2>1, <2>2, <1>3 DEF Typed, TypeOK
<1>8. job' \in Job /\ JobOwned'
  BY <1>1, <1>2, <1>5, <1>6, <1>7, GoesOn DEF Creating
<1>9. Typed'
  BY <1>5, <1>6, <1>7, <1>8 DEF Typed, TypeOK, Job
<1>10. Owned'
  BY <1>3, <1>6, <1>7, InvoiceIsOwnOrPenalty DEF Owned, HasOwner
<1>11. /\ job'.pc = pc /\ job'.mode = "sync" /\ job'.plan = job.plan /\ job'.type = job.type
       /\ job'.invoice = job.invoice
  BY <1>2, <1>5 DEF Typed, Job
<1>12. Unbilled(Ob(job.invoice), ToCreate)'
  BY <1>1, <1>2, <1>5, <1>6, <1>11 DEF Unbilled, ToCreate
<1>13. BilledWhenMet' /\ BilledOnce'
  BY <1>2, <1>5, <1>6, <1>11, <1>12 DEF BilledWhenMet, Creating, IsMet, BilledOnce
<1>. QED
  BY <1>8, <1>9, <1>10, <1>13

\* eLicensing has a first invoice for what the job creates.
LEMMA FirstInvoice ==
  ASSUME IInv, job.pc = "invoice", NewInvoice
  PROVE  /\ Current \in Penalty
         /\ bill' \in [Invoice -> Balance \cup {None}]
         /\ \A o \in Obligation : bill'[Own(o)] = bill[Own(o)]
         /\ fined' \in [Penalty -> 0..2] /\ BilledOnce'
         /\ \A p \in Penalty : p # Current => fined'[p] = fined[p]
<1>. USE DEF IInv
<1>1. job.pc \in Creating /\ job.deadline = "date"
  BY OnlySyncCreates DEF Creating
<1>2. Current \in Penalty /\ Current \in Invoice /\ Current = <<Ob(job.invoice), job.type>>
  BY <1>1, CurrentIsPenalty, PenaltyIsInvoice
<1>3. fined[Current] = 0
  BY <1>1, <1>2, SyncCreates DEF Unbilled, ToCreate
<1>. DEFINE b == [fee |-> 1, interest |-> FALSE, last |-> None]
<1>4. b \in Balance
  BY BoundsAssumption DEF Balance
<1>5. bill' = [bill EXCEPT ![Current] = b]
  BY DEF NewInvoice
<1>6. fined' = [fined EXCEPT ![Current] = 1]
  BY <1>2, <1>3 DEF NewInvoice, Typed, TypeOK
<1>. HIDE DEF b
<1>7. bill' \in [Invoice -> Balance \cup {None}]
  BY <1>2, <1>4, <1>5 DEF Typed, TypeOK
<1>8. \A o \in Obligation : bill'[Own(o)] = bill[Own(o)]
  BY <1>2, <1>5, OwnIsInvoice, OwnIsNoPenalty DEF Typed, TypeOK
<1>9. fined' \in [Penalty -> 0..2] /\ \A p \in Penalty : fined'[p] = IF p = Current THEN 1 ELSE fined[p]
  BY <1>2, <1>6 DEF Typed, TypeOK
<1>10. BilledOnce'
  BY <1>9 DEF BilledOnce
<1>. QED
  BY <1>2, <1>7, <1>8, <1>9, <1>10

LEMMA CreateInvoiceKeeps ==
  ASSUME IInv, CreateInvoice
  PROVE  IInv'
<1>. USE DEF IInv
<1>1. job.pc = "invoice" /\ job.pc \in Creating /\ job.deadline = "date" /\ NewInvoice
  BY OnlySyncCreates DEF CreateInvoice, Creating
<1>2. /\ job.mode = "sync" /\ job.type \in job.plan
      /\ IsMet(Ob(job.invoice)) /\ Unbilled(Ob(job.invoice), ToCreate)
  BY <1>1, SyncCreates
<1>3. /\ Current \in Penalty /\ Current = <<Ob(job.invoice), job.type>>
      /\ Ob(Current) = Ob(job.invoice) /\ Ob(job.invoice) \in Obligation /\ penalty[Current] # None
  BY <1>1, CurrentIsPenalty DEF JobOwned
<1>4. /\ job' = [job EXCEPT !.pc = "number"]
      /\ UNCHANGED <<today, obligation, copy, penalty, queue, sync, decrease, failures, kills>>
  BY DEF CreateInvoice
<1>5. job' \in Job /\ JobOwned'
  BY <1>1, <1>2, <1>3, <1>4, GoesOn DEF Creating
<1>6. Typed'
  BY <1>1, <1>4, <1>5, FirstInvoice DEF Typed, TypeOK, Job
<1>7. Owned'
  BY <1>1, <1>4, FirstInvoice DEF Owned, HasOwner
<1>8. /\ job'.pc = "number" /\ job'.mode = "sync" /\ job'.plan = job.plan /\ job'.type = job.type
      /\ job'.invoice = job.invoice
  BY <1>2, <1>4 DEF Typed, Job
<1>9. BilledWhenMet'
  <2>1. \A p \in Penalty : fined'[p] > 0 => IsMet(Ob(p))'
    <3>1. ASSUME NEW p \in Penalty, fined'[p] > 0 PROVE IsMet(Ob(p))'
      <4>1. p = Current \/ fined[p] > 0
        BY <1>1, <3>1, FirstInvoice
      <4>2. IsMet(Ob(p))
        BY <4>1, <1>2, <1>3 DEF BilledWhenMet
      <4>. QED
        BY <4>2, <1>4 DEF IsMet
    <3>. QED
      BY <3>1
  <2>2. Unbilled(Ob(job.invoice), ToCreate)'
    <3>1. ASSUME NEW t \in job.plan \ {job.type} PROVE fined'[<<Ob(job.invoice), t>>] = 0
      <4>1. <<Ob(job.invoice), t>> \in Penalty /\ <<Ob(job.invoice), t>> # Current
        BY <3>1, <1>3 DEF Penalty, Typed, TypeOK
      <4>2. fined[<<Ob(job.invoice), t>>] = 0
        BY <3>1, <1>1, <1>2 DEF Unbilled, ToCreate
      <4>. QED
        BY <4>1, <4>2, <1>1, FirstInvoice
    <3>. QED
      BY <3>1, <1>8 DEF Unbilled, ToCreate
  <2>. QED
    BY <2>1, <2>2, <1>2, <1>4, <1>8 DEF BilledWhenMet, Creating, IsMet
<1>. QED
  BY <1>1, <1>5, <1>6, <1>7, <1>9, FirstInvoice

\* The row gets its invoice number, and the link to its invoice.
LEMMA RowSavedKeeps ==
  ASSUME IInv, SaveInvoiceNumber \/ LinkInvoice
  PROVE  IInv'
<1>. USE DEF IInv
<1>1. job.pc \in {"number", "link"} /\ job.pc \in Creating /\ job.deadline = "date"
  BY OnlySyncCreates DEF SaveInvoiceNumber, LinkInvoice, Creating
<1>2. job.mode = "sync" /\ IsMet(Ob(job.invoice)) /\ Unbilled(Ob(job.invoice), ToCreate)
  BY <1>1, SyncCreates
<1>3. Current \in Penalty /\ penalty[Current] # None /\ penalty[Current] \in PenaltyRow
  BY <1>1, CurrentIsPenalty DEF JobOwned, Typed, TypeOK
<1>4. PICK pc \in {"refresh", "status"} : job' = [job EXCEPT !.pc = pc]
  BY DEF SaveInvoiceNumber, LinkInvoice
<1>5. PICK r : r \in PenaltyRow /\ penalty' = [penalty EXCEPT ![Current] = r]
  <2>. DEFINE n == [penalty[Current] EXCEPT !.number = TRUE]
              l == [penalty[Current] EXCEPT !.linked = TRUE]
  <2>1. n \in PenaltyRow /\ l \in PenaltyRow
    BY <1>3 DEF PenaltyRow
  <2>2. penalty' = [penalty EXCEPT ![Current] = n] \/ penalty' = [penalty EXCEPT ![Current] = l]
    BY <1>3 DEF SaveInvoiceNumber, LinkInvoice, Typed, TypeOK
  <2>. HIDE DEF n, l
  <2>. QED
    BY <2>1, <2>2
<1>6. r # None
  BY <1>5, NoneAssumption
<1>7. /\ penalty' \in [Penalty -> PenaltyRow \cup {None}]
      /\ \A p \in Penalty : penalty'[p] # None <=> penalty[p] # None
  BY <1>3, <1>5, <1>6 DEF Typed, TypeOK
<1>8. UNCHANGED <<today, obligation, bill, copy, fined, queue, sync, decrease, failures, kills>>
  BY DEF SaveInvoiceNumber, LinkInvoice
<1>9. job' \in Job /\ JobOwned'
  BY <1>1, <1>2, <1>3, <1>4, <1>7, <1>8, GoesOn DEF Creating
<1>10. Typed'
  BY <1>4, <1>7, <1>8, <1>9 DEF Typed, TypeOK, Job
<1>11. Owned'
  BY <1>7, <1>8, InvoiceIsOwnOrPenalty DEF Owned, HasOwner
<1>12. /\ job'.pc = pc /\ job'.mode = "sync" /\ job'.plan = job.plan /\ job'.type = job.type
       /\ job'.invoice = job.invoice
  BY <1>2, <1>4 DEF Typed, Job
<1>13. Unbilled(Ob(job.invoice), ToCreate)'
  BY <1>1, <1>2, <1>4, <1>8, <1>12 DEF Unbilled, ToCreate
<1>14. BilledWhenMet' /\ BilledOnce'
  BY <1>2, <1>4, <1>8, <1>12, <1>13 DEF BilledWhenMet, Creating, IsMet, BilledOnce
<1>. QED
  BY <1>9, <1>10, <1>11, <1>14

LEMMA IngestInvoiceKeeps ==
  ASSUME IInv, IngestInvoice
  PROVE  IInv'
<1>. USE DEF IInv
<1>1. job.pc = "refresh" /\ job.pc \in Creating /\ job.deadline = "date"
  BY OnlySyncCreates DEF IngestInvoice, Creating
<1>2. job.mode = "sync" /\ IsMet(Ob(job.invoice)) /\ Unbilled(Ob(job.invoice), ToCreate)
  BY <1>1, SyncCreates
<1>3. Current \in Penalty /\ Current \in Invoice /\ penalty[Current] # None /\ HasOwner(Current)
  BY <1>1, CurrentIsPenalty, PenaltyIsInvoice DEF JobOwned, HasOwner
<1>4. /\ job' = [job EXCEPT !.pc = "link"] /\ copy' = [copy EXCEPT ![Current] = bill[Current]]
      /\ UNCHANGED <<today, obligation, bill, penalty, fined, queue, sync, decrease, failures, kills>>
  BY DEF IngestInvoice
<1>5. job' \in Job /\ JobOwned'
  BY <1>1, <1>2, <1>3, <1>4, GoesOn DEF Creating
<1>6. Typed'
  BY <1>3, <1>4, <1>5 DEF Typed, TypeOK, Job
<1>7. Owned'
  BY <1>3, <1>4 DEF Owned, HasOwner, Typed, TypeOK
<1>8. /\ job'.pc = "link" /\ job'.mode = "sync" /\ job'.plan = job.plan /\ job'.type = job.type
      /\ job'.invoice = job.invoice
  BY <1>2, <1>4 DEF Typed, Job
<1>9. Unbilled(Ob(job.invoice), ToCreate)'
  BY <1>1, <1>2, <1>4, <1>8 DEF Unbilled, ToCreate
<1>10. BilledWhenMet' /\ BilledOnce'
  BY <1>2, <1>4, <1>8, <1>9 DEF BilledWhenMet, Creating, IsMet, BilledOnce
<1>. QED
  BY <1>5, <1>6, <1>7, <1>10

\* The sync leaves a penalty that was created, or failed, and takes the next one.
LEMMA NextOne ==
  ASSUME IInv, job.pc \in Creating, job.mode = "sync", Grows,
         job' = [job EXCEPT !.pc = "create", !.plan = job.plan \ {job.type}, !.type = None],
         UNCHANGED penalty
  PROVE  /\ job' \in Job /\ JobOwned'
         /\ job'.pc = "create" /\ job'.mode = "sync" /\ job'.invoice = job.invoice
         /\ job'.plan = job.plan \ {job.type}
<1>. USE DEF IInv
<1>1. /\ job' \in Job /\ job'.pc = "create" /\ job'.mode = "sync" /\ job'.deadline = job.deadline
      /\ job'.todo = job.todo /\ job'.invoice = job.invoice /\ job'.plan = job.plan \ {job.type}
  BY DEF Typed, Job, Steps
<1>2. job.deadline = "date"
  BY DEF JobOwned, Creating
<1>3. \A i \in job'.todo : HasOwner(i)'
  BY <1>1, InvoiceIsOwnOrPenalty DEF JobOwned, HasOwner, Typed, TypeOK, Grows
<1>4. \E o \in Obligation : job'.invoice = Own(o) /\ obligation'[o] # None
  BY <1>1 DEF JobOwned, OnObligation, Grows
<1>5. JobOwned'
  BY <1>1, <1>2, <1>3, <1>4 DEF JobOwned, OnObligation, Creating
<1>. QED
  BY <1>1, <1>5

LEMMA PenaltyCreatedKeeps ==
  ASSUME IInv, PenaltyCreated
  PROVE  IInv'
<1>. USE DEF IInv
<1>. DEFINE o == Ob(job.invoice)
            r == [obligation[o] EXCEPT !.penalty_status = "not paid"]
<1>1. job.pc = "status" /\ job.pc \in Creating /\ job.deadline = "date"
  BY OnlySyncCreates DEF PenaltyCreated, Creating
<1>2. /\ job.mode = "sync" /\ IsMet(o) /\ Unbilled(o, job.plan \ {job.type})
  BY <1>1, SyncCreates DEF ToCreate
<1>3. o \in Obligation /\ obligation[o] # None /\ obligation[o] \in ObligationRow
  BY <1>1, CurrentIsPenalty DEF Typed, TypeOK
<1>4. r \in ObligationRow /\ r.status = obligation[o].status
  BY <1>3 DEF ObligationRow, PenaltyStatus
<1>5. /\ job' = [job EXCEPT !.pc = "create", !.plan = job.plan \ {job.type}, !.type = None]
      /\ obligation' = [obligation EXCEPT ![o] = r]
      /\ UNCHANGED <<today, bill, copy, penalty, fined, queue, sync, decrease, failures, kills>>
  BY <1>2, <1>3 DEF PenaltyCreated, Typed, TypeOK, Job
<1>. HIDE DEF r
<1>6. obligation' \in [Obligation -> ObligationRow \cup {None}] /\ Grows
  BY <1>3, <1>4, <1>5, StatusChanges DEF IsMet
<1>7. /\ job' \in Job /\ JobOwned'
      /\ job'.pc = "create" /\ job'.mode = "sync" /\ job'.invoice = job.invoice
      /\ job'.plan = job.plan \ {job.type}
  BY <1>1, <1>2, <1>5, <1>6, NextOne
<1>8. Typed'
  BY <1>5, <1>6, <1>7 DEF Typed, TypeOK, Job
<1>9. Owned'
  BY <1>5, <1>6, RowsGrow
<1>10. \A p \in Penalty : fined'[p] > 0 => IsMet(Ob(p))'
  BY <1>5, <1>6, PenaltyIsInvoice DEF BilledWhenMet, Grows
<1>11. IsMet(o)' /\ Unbilled(o, ToCreate)'
  BY <1>2, <1>3, <1>5, <1>6, <1>7 DEF Grows, Unbilled, ToCreate, IsMet
<1>12. BilledWhenMet' /\ BilledOnce'
  BY <1>5, <1>7, <1>10, <1>11 DEF BilledWhenMet, Creating, BilledOnce
<1>. QED
  BY <1>7, <1>8, <1>9, <1>12

\* An attempt that fails is recorded by the sync, and counted by a retry.
LEMMA AttemptFailedKeeps ==
  ASSUME IInv, job.pc \in Creating, AttemptFailed,
         UNCHANGED <<today, obligation, copy, penalty, sync, decrease, kills>>,
         failures' \in 0..MaxFailures,
         (NewInvoice /\ job.pc = "invoice") \/ UNCHANGED <<bill, fined>>
  PROVE  IInv'
<1>. USE DEF IInv
<1>1. /\ Current \in Penalty /\ Current = <<Ob(job.invoice), job.type>>
      /\ Ob(Current) = Ob(job.invoice) /\ Ob(job.invoice) \in Obligation
      /\ obligation[Ob(job.invoice)] # None
  BY CurrentIsPenalty
<1>2. job.mode \in {"sync", "retry"}
  BY DEF JobOwned, Creating
<1>3. queue' \in [Penalty -> RetryRow \cup {None}]
  <2>1. CASE job.mode = "sync"
    <3>1. queue' = [queue EXCEPT ![Current] = [status |-> "failed", count |-> 0]]
      BY <2>1 DEF AttemptFailed
    <3>2. [status |-> "failed", count |-> 0] \in RetryRow
      BY BoundsAssumption DEF RetryRow
    <3>. QED
      BY <1>1, <3>1, <3>2 DEF Typed, TypeOK
  <2>2. CASE job.mode # "sync"
    <3>1. job.mode = "retry"
      BY <1>2, <2>2
    <3>2. queue[Current] \in RetryRow /\ queue[Current].count < MaxRetries
      BY <3>1, <1>1 DEF JobOwned, Creating, Typed, TypeOK
    <3>3. [status |-> "failed", count |-> queue[Current].count + 1] \in RetryRow
      BY <3>2, BoundsAssumption DEF RetryRow
    <3>4. queue' = [queue EXCEPT ![Current] = [status |-> "failed", count |-> queue[Current].count + 1]]
      BY <1>1, <2>2 DEF AttemptFailed, Typed, TypeOK
    <3>. QED
      BY <1>1, <3>3, <3>4 DEF Typed, TypeOK
  <2>. QED
    BY <2>1, <2>2
<1>4. \A p \in Penalty : p # Current => queue'[p] = queue[p]
  BY DEF AttemptFailed, Typed, TypeOK
<1>5. /\ bill' \in [Invoice -> Balance \cup {None}]
      /\ \A o \in Obligation : bill'[Own(o)] = bill[Own(o)]
      /\ fined' \in [Penalty -> 0..2] /\ BilledOnce'
      /\ \A p \in Penalty : p # Current => fined'[p] = fined[p]
      /\ fined' # fined => job.pc = "invoice"
  <2>1. CASE NewInvoice /\ job.pc = "invoice"
    BY <2>1, FirstInvoice
  <2>2. CASE UNCHANGED <<bill, fined>>
    BY <2>2 DEF BilledOnce, Typed, TypeOK
  <2>. QED
    BY <2>1, <2>2
<1>6. Grows
  BY DEF Grows, IsMet
<1>7. Owned'
  BY <1>1, <1>4, <1>5 DEF Owned, HasOwner
<1>8. CASE job.mode = "retry"
  <2>1. job.pc = "start" /\ job' = Idle
    BY <1>8 DEF JobOwned, Creating, AttemptFailed
  <2>2. UNCHANGED <<bill, fined>>
    BY <2>1
  <2>3. job' \in Job /\ JobOwned' /\ BilledWhenMet'
    BY <1>6, <2>1, <2>2, JobEnds
  <2>4. Typed'
    BY <1>3, <1>5, <2>1, <2>2, <2>3, IdleIsJob DEF Typed, TypeOK
  <2>. QED
    BY <1>5, <1>7, <2>3, <2>4
<1>9. CASE job.mode = "sync"
  <2>1. job' = [job EXCEPT !.pc = "create", !.plan = job.plan \ {job.type}, !.type = None]
    BY <1>9 DEF AttemptFailed, Typed, Job
  <2>2. /\ job' \in Job /\ JobOwned'
        /\ job'.pc = "create" /\ job'.mode = "sync" /\ job'.invoice = job.invoice
        /\ job'.plan = job.plan \ {job.type}
    BY <1>6, <1>9, <2>1, NextOne
  <2>3. Typed'
    BY <1>3, <1>5, <2>2 DEF Typed, TypeOK, Job
  <2>4. IsMet(Ob(job.invoice)) /\ Unbilled(Ob(job.invoice), job.plan \ {job.type})
    BY <1>9 DEF BilledWhenMet, ToCreate, Unbilled
  <2>5. \A p \in Penalty : fined'[p] > 0 => IsMet(Ob(p))'
    <3>1. ASSUME NEW p \in Penalty, fined'[p] > 0 PROVE IsMet(Ob(p))'
      <4>1. p = Current \/ fined[p] > 0
        BY <1>5, <3>1
      <4>2. IsMet(Ob(p))
        BY <4>1, <1>1, <2>4 DEF BilledWhenMet
      <4>. QED
        BY <4>2 DEF IsMet
    <3>. QED
      BY <3>1
  <2>6. Unbilled(Ob(job.invoice), ToCreate)'
    <3>1. ASSUME NEW t \in job.plan \ {job.type} PROVE fined'[<<Ob(job.invoice), t>>] = 0
      <4>1. <<Ob(job.invoice), t>> \in Penalty /\ <<Ob(job.invoice), t>> # Current
        BY <3>1, <1>1 DEF Penalty, Typed, TypeOK
      <4>2. fined[<<Ob(job.invoice), t>>] = 0
        BY <3>1, <2>4 DEF Unbilled
      <4>. QED
        BY <4>1, <4>2, <1>5
    <3>. QED
      BY <3>1, <2>2 DEF Unbilled, ToCreate
  <2>7. BilledWhenMet'
    BY <2>2, <2>4, <2>5, <2>6 DEF BilledWhenMet, Creating, IsMet
  <2>. QED
    BY <1>5, <1>7, <2>2, <2>3, <2>7
<1>. QED
  BY <1>2, <1>8, <1>9

LEMMA FailuresKeep ==
  ASSUME IInv, DeadlineIsText \/ CallFails \/ AnswerLost
  PROVE  IInv'
<1>1. job.pc \in Creating /\ AttemptFailed
  BY DEF DeadlineIsText, CallFails, AnswerLost, Creating
<1>2. failures' \in 0..MaxFailures
  BY BoundsAssumption DEF DeadlineIsText, CallFails, AnswerLost, IInv, Typed, TypeOK
<1>3. /\ UNCHANGED <<today, obligation, copy, penalty, sync, decrease, kills>>
      /\ (NewInvoice /\ job.pc = "invoice") \/ UNCHANGED <<bill, fined>>
  BY DEF DeadlineIsText, CallFails, AnswerLost
<1>. QED
  BY <1>1, <1>2, <1>3, AttemptFailedKeeps

\* A retry starts with its deadline as text, and goes no further.
LEMMA RetryStartsKeeps ==
  ASSUME IInv, NEW p \in Penalty, RetryStarts(p)
  PROVE  IInv'
<1>. USE DEF IInv
<1>1. /\ queue[p] # None /\ queue[p] \in RetryRow /\ queue[p].count < MaxRetries
      /\ obligation[Ob(p)] # None /\ Ob(p) \in Obligation /\ Kind(p) \in PenaltyType
      /\ p = <<Ob(p), Kind(p)>>
  BY PenaltyIsInvoice DEF RetryStarts, CanRetry, Typed, TypeOK, Owned
<1>2. PICK r : r = [queue[p] EXCEPT !.status = "running"]
  OBVIOUS
<1>3. r \in RetryRow /\ r.count = queue[p].count
  BY <1>1, <1>2 DEF RetryRow
<1>4. queue' = [queue EXCEPT ![p] = r]
  BY <1>2 DEF RetryStarts, Typed, TypeOK
<1>5. r # None
  BY <1>3, NoneAssumption
<1>6. /\ job' \in Job /\ job'.pc = "start" /\ job'.mode = "retry" /\ job'.deadline = "text"
      /\ job'.todo = {} /\ job'.invoice = Own(Ob(p)) /\ job'.type = Kind(p)
  BY <1>1, OwnIsInvoice DEF RetryStarts, StoredDeadline, Idle, Job, Steps, Creating
<1>7. UNCHANGED <<today, obligation, bill, copy, penalty, fined, sync, decrease, failures, kills>>
  BY DEF RetryStarts
<1>8. queue' \in [Penalty -> RetryRow \cup {None}] /\ queue'[p] = r
        /\ \A q \in Penalty : queue'[q] # None <=> queue[q] # None
  BY <1>1, <1>3, <1>4, <1>5 DEF Typed, TypeOK
<1>9. Typed'
  BY <1>6, <1>7, <1>8 DEF Typed, TypeOK, Job
<1>10. Owned'
  BY <1>7, <1>8 DEF Owned, HasOwner
<1>11. Current' = p
  BY <1>1, <1>6, OwnIsInvoice DEF Current
<1>12. JobOwned'
  BY <1>1, <1>3, <1>5, <1>6, <1>7, <1>8, <1>11 DEF JobOwned, OnObligation, Creating
<1>13. BilledWhenMet' /\ BilledOnce'
  BY <1>6, <1>7 DEF BilledWhenMet, Creating, IsMet, BilledOnce
<1>. QED
  BY <1>9, <1>10, <1>12, <1>13

-----------------------------------------------------------------------------
(* The invariant *)

LEMMA IInvInit == Init => IInv
<1>. SUFFICES ASSUME Init PROVE IInv
  OBVIOUS
<1>1. 0 \in Day /\ 0 \in 0..MaxFailures /\ 0 \in 0..MaxKills
  BY DaysAssumption, BoundsAssumption DEF Day
<1>2. Typed
  BY <1>1, IdleIsJob DEF Init, Typed, TypeOK
<1>3. Owned
  BY OwnIsInvoice DEF Init, Owned
<1>4. JobOwned
  BY IdleIsJob DEF Init, JobOwned, OnObligation, Creating
<1>5. BilledWhenMet /\ BilledOnce
  BY IdleIsJob DEF Init, BilledWhenMet, BilledOnce, Creating
<1>. QED
  BY <1>2, <1>3, <1>4, <1>5 DEF IInv

LEMMA IInvStep == IInv /\ [Next]_vars => IInv'
<1>. SUFFICES ASSUME IInv, [Next]_vars PROVE IInv'
  OBVIOUS
<1>1. CASE World
  BY <1>1, WorldKeeps
<1>2. CASE SyncStarts \/ SyncAborts \/ SyncCompletes \/ Kill \/ \E i \in Invoice : RefreshInvoice(i)
  BY <1>2, SyncStartsKeeps, JobEndsKeeps, RefreshInvoiceKeeps
<1>3. CASE PenaltyPaid \/ PenaltyAccruing \/ ObligationPaid \/ InterestPaid
  BY <1>3, PenaltyPaidKeeps, PenaltyAccruingKeeps, ObligationPaidKeeps, InterestPaidKeeps
<1>4. CASE ObligationNotPaid \/ PlanPenalties \/ PenaltiesCreated \/ StartPenalty
  BY <1>4, DecisionsKeep, StartPenaltyKeeps
<1>5. CASE DeadlineIsText \/ CallFails \/ AnswerLost \/ \E p \in Penalty : RetryStarts(p)
  BY <1>5, FailuresKeep, RetryStartsKeeps
<1>6. CASE GetOrCreateRow \/ CreateInvoice \/ SaveInvoiceNumber \/ LinkInvoice
  BY <1>6, GetOrCreateRowKeeps, CreateInvoiceKeeps, RowSavedKeeps
<1>7. CASE IngestInvoice \/ PenaltyCreated
  BY <1>7, IngestInvoiceKeeps, PenaltyCreatedKeeps
<1>8. CASE UNCHANGED vars
  BY <1>8 DEF vars, IInv, Typed, TypeOK, Owned, HasOwner, JobOwned, OnObligation, Current,
              BilledWhenMet, IsMet, Unbilled, ToCreate, BilledOnce
<1>. QED
  BY <1>1, <1>2, <1>3, <1>4, <1>5, <1>6, <1>7, <1>8 DEF Next, JobStep

\* Every variable has its type.
THEOREM TypeCorrectness == Spec => []TypeOK
<1>1. IInv => TypeOK
  BY DEF IInv, Typed
<1>. QED
  BY IInvInit, IInvStep, <1>1, PTL DEF Spec

\* Whatever fails, is killed or is retried, eLicensing never holds two invoices
\* for a penalty: a retry raises at its stored deadline, before it bills.
THEOREM BilledOnceHolds == Spec => []BilledOnce
<1>1. IInv => BilledOnce
  BY DEF IInv
<1>. QED
  BY IInvInit, IInvStep, <1>1, PTL DEF Spec

-----------------------------------------------------------------------------
(* What a step does to an obligation *)

SameReport(r, s) ==
  s # None /\ s.supplementary = r.supplementary /\ s.created = r.created /\ s.evening = r.evening

\* It is reported, or met, or the status of its penalties changes.
Reported(o) ==
  /\ obligation[o] = None /\ obligation'[o] # None
  /\ obligation'[o].status = "not met" /\ obligation'[o].penalty_status = "none"
  /\ obligation'[o].created = today /\ bill'[Own(o)] # None
Marked(o) ==
  /\ obligation[o] # None /\ SameReport(obligation[o], obligation'[o])
  /\ obligation'[o].penalty_status = obligation[o].penalty_status
  /\ obligation'[o].status # "not met"
  /\ \/ decrease[o] = "posted" /\ decrease'[o] = "settled"
     \/ job.invoice = Own(o) /\ (ObligationPaid \/ (InterestPaid /\ job.status = "met interest unpaid"))
Restated(o) ==
  /\ obligation[o] # None /\ SameReport(obligation[o], obligation'[o])
  /\ obligation'[o].status = obligation[o].status
  /\ o = Ob(job.invoice)
  /\ \/ PenaltyPaid /\ obligation'[o].penalty_status = "paid"
     \/ PenaltyAccruing /\ obligation[o].status = "not met" /\ obligation'[o].penalty_status = "accruing"
     \/ PenaltyCreated /\ obligation'[o].penalty_status = "not paid"
ReportMoves(o) == obligation'[o] = obligation[o] \/ Reported(o) \/ Marked(o) \/ Restated(o)

\* A row in which only a status changes is one of the same report.
LEMMA StatusChanged ==
  ASSUME NEW r \in ObligationRow, NEW s \in ObligationRow,
         s.supplementary = r.supplementary, s.created = r.created, s.evening = r.evening
  PROVE  SameReport(r, s)
  BY NoneAssumption DEF SameReport

\* The job leaves the dates of a report as they are.
LEMMA JobMovesReports ==
  ASSUME IInv, JobStep \/ Kill, NEW o \in Obligation
  PROVE  ReportMoves(o)
<1>. USE DEF IInv
<1>1. CASE UNCHANGED obligation
  BY <1>1 DEF ReportMoves
<1>2. CASE PenaltyPaid
  <2>. DEFINE q == Ob(job.invoice)
  <2>1. q \in Obligation /\ obligation[q] # None /\ obligation[q] \in ObligationRow
    BY <1>2, PenaltyIsInvoice DEF PenaltyPaid, JobOwned, Owned, Typed, TypeOK
  <2>2. obligation' = obligation \/ obligation' = [obligation EXCEPT ![q].penalty_status = "paid"]
    BY <1>2 DEF PenaltyPaid
  <2>3. CASE o # q \/ obligation' = obligation
    BY <2>2, <2>3 DEF ReportMoves, Typed, TypeOK
  <2>4. CASE o = q /\ obligation' = [obligation EXCEPT ![q].penalty_status = "paid"]
    <3>0. PICK r, s : r = obligation[o] /\ s = obligation'[o]
      OBVIOUS
    <3>1. s = [r EXCEPT !.penalty_status = "paid"] /\ r \in ObligationRow
      BY <3>0, <2>1, <2>4 DEF Typed, TypeOK
    <3>2. s \in ObligationRow /\ s.supplementary = r.supplementary /\ s.created = r.created
            /\ s.evening = r.evening /\ s.status = r.status /\ s.penalty_status = "paid"
      BY <3>1 DEF ObligationRow, PenaltyStatus
    <3>3. SameReport(obligation[o], obligation'[o])
      BY <3>0, <3>1, <3>2, StatusChanged DEF SameReport
    <3>. QED
      BY <1>2, <2>1, <2>4, <3>0, <3>2, <3>3 DEF ReportMoves, Restated
  <2>. QED
    BY <2>2, <2>3, <2>4
<1>3. CASE PenaltyAccruing
  <2>. DEFINE q == Ob(job.invoice)
  <2>1. q \in Obligation /\ obligation[q] # None /\ obligation[q] \in ObligationRow
    BY <1>3, InHand DEF PenaltyAccruing, OnObligation, Typed, TypeOK
  <2>2. \/ obligation' = obligation
        \/ /\ obligation' = [obligation EXCEPT ![q].penalty_status = "accruing"]
           /\ obligation[q].status = "not met"
    BY <1>3 DEF PenaltyAccruing, StartsAccruing
  <2>3. CASE o # q \/ obligation' = obligation
    BY <2>2, <2>3 DEF ReportMoves, Typed, TypeOK
  <2>4. CASE o = q /\ obligation' = [obligation EXCEPT ![q].penalty_status = "accruing"]
               /\ obligation[q].status = "not met"
    <3>0. PICK r, s : r = obligation[o] /\ s = obligation'[o]
      OBVIOUS
    <3>1. s = [r EXCEPT !.penalty_status = "accruing"] /\ r \in ObligationRow
      BY <3>0, <2>1, <2>4 DEF Typed, TypeOK
    <3>2. s \in ObligationRow /\ s.supplementary = r.supplementary /\ s.created = r.created
            /\ s.evening = r.evening /\ s.status = r.status /\ s.penalty_status = "accruing"
      BY <3>1 DEF ObligationRow, PenaltyStatus
    <3>3. SameReport(obligation[o], obligation'[o])
      BY <3>0, <3>1, <3>2, StatusChanged DEF SameReport
    <3>. QED
      BY <1>3, <2>1, <2>4, <3>0, <3>2, <3>3 DEF ReportMoves, Restated
  <2>. QED
    BY <2>2, <2>3, <2>4
<1>4. CASE PenaltyCreated
  <2>. DEFINE q == Ob(job.invoice)
  <2>1. q \in Obligation /\ obligation[q] # None /\ obligation[q] \in ObligationRow
    BY <1>4, InHand DEF PenaltyCreated, OnObligation, Creating, Typed, TypeOK
  <2>2. obligation' = [obligation EXCEPT ![q].penalty_status = "not paid"]
    BY <1>4 DEF PenaltyCreated
  <2>3. CASE o # q
    BY <2>2, <2>3 DEF ReportMoves, Typed, TypeOK
  <2>4. CASE o = q
    <3>0. PICK r, s : r = obligation[o] /\ s = obligation'[o]
      OBVIOUS
    <3>1. s = [r EXCEPT !.penalty_status = "not paid"] /\ r \in ObligationRow
      BY <3>0, <2>1, <2>2, <2>4 DEF Typed, TypeOK
    <3>2. s \in ObligationRow /\ s.supplementary = r.supplementary /\ s.created = r.created
            /\ s.evening = r.evening /\ s.status = r.status /\ s.penalty_status = "not paid"
      BY <3>1 DEF ObligationRow, PenaltyStatus
    <3>3. SameReport(obligation[o], obligation'[o])
      BY <3>0, <3>1, <3>2, StatusChanged DEF SameReport
    <3>. QED
      BY <1>4, <2>1, <2>4, <3>0, <3>2, <3>3 DEF ReportMoves, Restated
  <2>. QED
    BY <2>3, <2>4
<1>5. CASE ObligationPaid \/ InterestPaid
  <2>. DEFINE q == Ob(job.invoice)
  <2>1. /\ q \in Obligation /\ obligation[q] # None /\ obligation[q] \in ObligationRow
        /\ job.invoice = Own(q)
    BY <1>5, InHand DEF ObligationPaid, InterestPaid, OnObligation, Typed, TypeOK
  <2>2. PICK x \in {"met interest unpaid", "fully met"} :
           \/ obligation' = obligation
           \/ /\ obligation' = [obligation EXCEPT ![q].status = x]
              /\ ObligationPaid \/ (InterestPaid /\ job.status = "met interest unpaid")
    BY <1>5 DEF ObligationPaid, InterestPaid
  <2>3. CASE o # q \/ obligation' = obligation
    BY <2>2, <2>3 DEF ReportMoves, Typed, TypeOK
  <2>4. CASE o = q /\ obligation' = [obligation EXCEPT ![q].status = x]
              /\ (ObligationPaid \/ (InterestPaid /\ job.status = "met interest unpaid"))
    <3>0. PICK r, s : r = obligation[o] /\ s = obligation'[o]
      OBVIOUS
    <3>1. s = [r EXCEPT !.status = x] /\ r \in ObligationRow
      BY <3>0, <2>1, <2>4 DEF Typed, TypeOK
    <3>2. x \in ComplianceStatus /\ x # "not met"
      BY DEF ComplianceStatus
    <3>3. s \in ObligationRow /\ s.supplementary = r.supplementary /\ s.created = r.created
            /\ s.evening = r.evening /\ s.status = x /\ s.penalty_status = r.penalty_status
      BY <3>1, <3>2 DEF ObligationRow
    <3>4. SameReport(obligation[o], obligation'[o])
      BY <3>0, <3>1, <3>3, StatusChanged DEF SameReport
    <3>. QED
      BY <2>1, <2>4, <3>0, <3>2, <3>3, <3>4 DEF ReportMoves, Marked
  <2>. QED
    BY <2>2, <2>3, <2>4
<1>. QED
  BY <1>1, <1>2, <1>3, <1>4, <1>5
     DEF JobStep, Kill, SyncStarts, SyncAborts, SyncCompletes, RefreshInvoice, ObligationNotPaid,
         PlanPenalties, StartPenalty, DeadlineIsText, GetOrCreateRow, CallFails, CreateInvoice,
         AnswerLost, SaveInvoiceNumber, IngestInvoice, LinkInvoice, PenaltiesCreated, RetryStarts

LEMMA WorldMovesReports ==
  ASSUME IInv, World, NEW o \in Obligation
  PROVE  ReportMoves(o)
<1>. USE DEF IInv
<1>1. CASE UNCHANGED obligation
  BY <1>1 DEF ReportMoves
<1>2. ASSUME NEW q \in Obligation, NEW s \in BOOLEAN, NEW e \in Evening, BillObligation(q, s, e)
      PROVE  ReportMoves(o)
  <2>1. PICK r : r = [supplementary |-> s, created |-> today, evening |-> e,
                      status |-> "not met", penalty_status |-> "none"]
    OBVIOUS
  <2>2. r.created = today /\ r.status = "not met" /\ r.penalty_status = "none" /\ r # None
    <3>1. r \in ObligationRow
      BY <2>1 DEF ObligationRow, ComplianceStatus, PenaltyStatus, Typed, TypeOK
    <3>. QED
      BY <2>1, <3>1, NoneAssumption
  <2>3. obligation[q] = None /\ obligation' = [obligation EXCEPT ![q] = r]
          /\ bill' = [bill EXCEPT ![Own(q)] = [fee |-> Payments, interest |-> FALSE, last |-> None]]
    BY <1>2, <2>1 DEF BillObligation
  <2>4. CASE o # q
    BY <2>3, <2>4 DEF ReportMoves, Typed, TypeOK
  <2>5. CASE o = q
    <3>1. obligation'[o] = r
      BY <2>3, <2>5 DEF Typed, TypeOK
    <3>2. bill'[Own(o)] # None
      <4>1. PICK b : b = [fee |-> Payments, interest |-> FALSE, last |-> None]
        OBVIOUS
      <4>2. b \in Balance
        BY <4>1, BoundsAssumption DEF Balance
      <4>3. bill'[Own(o)] = b
        BY <2>3, <2>5, <4>1, OwnIsInvoice DEF Typed, TypeOK
      <4>. QED
        BY <4>2, <4>3, NoneAssumption
    <3>. QED
      BY <2>2, <2>3, <2>5, <3>1, <3>2 DEF ReportMoves, Reported
  <2>. QED
    BY <2>4, <2>5
<1>3. ASSUME NEW q \in Obligation, MarkMet(q) PROVE ReportMoves(o)
  <2>1. obligation[q] # None /\ obligation[q] \in ObligationRow /\ decrease[q] = "posted"
    BY <1>3 DEF MarkMet, Owned, Typed, TypeOK
  <2>2. PICK x \in {"met interest unpaid", "fully met"} : obligation' = [obligation EXCEPT ![q].status = x]
    BY <1>3 DEF MarkMet
  <2>3. decrease'[q] = "settled"
    BY <1>3 DEF MarkMet, Typed, TypeOK
  <2>4. CASE o # q
    BY <2>2, <2>4 DEF ReportMoves, Typed, TypeOK
  <2>5. CASE o = q
    <3>0. PICK r, s : r = obligation[o] /\ s = obligation'[o]
      OBVIOUS
    <3>1. s = [r EXCEPT !.status = x] /\ r \in ObligationRow
      BY <3>0, <2>1, <2>2, <2>5 DEF Typed, TypeOK
    <3>2. x \in ComplianceStatus /\ x # "not met"
      BY DEF ComplianceStatus
    <3>3. s \in ObligationRow /\ s.supplementary = r.supplementary /\ s.created = r.created
            /\ s.evening = r.evening /\ s.status = x /\ s.penalty_status = r.penalty_status
      BY <3>1, <3>2 DEF ObligationRow
    <3>4. SameReport(obligation[o], obligation'[o])
      BY <3>0, <3>1, <3>3, StatusChanged DEF SameReport
    <3>. QED
      BY <2>1, <2>3, <2>5, <3>0, <3>2, <3>3, <3>4 DEF ReportMoves, Marked
  <2>. QED
    BY <2>4, <2>5
<1>. QED
  BY <1>1, <1>2, <1>3
     DEF World, NextDay, PayFee, PayPenalty, AddInterest, PayInterest, RefreshPage, PostDecrease

LEMMA ReportsMove ==
  ASSUME IInv, Next, NEW o \in Obligation
  PROVE  ReportMoves(o)
  BY JobMovesReports, WorldMovesReports DEF Next

-----------------------------------------------------------------------------
(* What a step does to the invoice of an obligation *)

PaidUp(b) == b # None /\ b.fee = 0

\* An obligation is billed when it is reported; a fee that is paid was paid on a
\* day, and from then on the invoice and its copy agree on which.  What is met,
\* or settled by a supplementary report, is paid.
FeeOK ==
  /\ \A o \in Obligation :
       /\ obligation[o] # None => bill[Own(o)] # None /\ obligation[o].created <= today
       /\ bill[Own(o)] # None => /\ bill[Own(o)].fee = 0 => bill[Own(o)].last # None
                                 /\ bill[Own(o)].last # None => bill[Own(o)].last <= today
       /\ PaidUp(copy[Own(o)]) => PaidUp(bill[Own(o)]) /\ copy[Own(o)].last = bill[Own(o)].last
       /\ IsMet(o) \/ decrease[o] # "none" => PaidUp(bill[Own(o)])
  /\ job.pc \in {"accruing", "met"} /\ job.owed.fee = 0 => PaidUp(copy[job.invoice])
  /\ job.pc = "plan" => PaidUp(copy[job.invoice])
  /\ job.mode = "sync" /\ job.pc \in {"met", "plan", "interest", "create"} \cup Creating
       /\ job.status \in {"met interest unpaid", "fully met"} => IsMet(Ob(job.invoice))

\* The invoice is new, is paid from, or keeps its fee.
Billed(o) ==
  /\ obligation[o] = None /\ bill[Own(o)] = None
  /\ bill'[Own(o)] # None /\ bill'[Own(o)].fee = Payments /\ bill'[Own(o)].last = None
PaidFrom(o) ==
  /\ bill[Own(o)] # None /\ bill[Own(o)].fee # 0
  /\ bill'[Own(o)] # None /\ bill'[Own(o)].last \in Day /\ bill'[Own(o)].last <= today
FeeKept(o) ==
  /\ bill[Own(o)] # None /\ bill'[Own(o)] # None
  /\ bill'[Own(o)].fee = bill[Own(o)].fee /\ bill'[Own(o)].last = bill[Own(o)].last
InvoiceMoves(o) ==
  /\ bill'[Own(o)] = bill[Own(o)] \/ Billed(o) \/ PaidFrom(o) \/ FeeKept(o)
  /\ copy'[Own(o)] = copy[Own(o)] \/ copy'[Own(o)] = bill'[Own(o)]
  /\ \/ decrease'[o] = decrease[o]
     \/ decrease[o] = "none" /\ PaidUp(bill'[Own(o)])
     \/ decrease[o] = "posted" /\ decrease'[o] = "settled"
  /\ today <= today'

LEMMA JobMovesInvoices ==
  ASSUME IInv, JobStep \/ Kill, NEW o \in Obligation
  PROVE  InvoiceMoves(o) /\ bill'[Own(o)] = bill[Own(o)] /\ UNCHANGED <<decrease, today>>
<1>. USE DEF IInv
<1>1. UNCHANGED <<decrease, today>>
  BY DEF JobStep, Kill, SyncStarts, SyncAborts, SyncCompletes, RefreshInvoice, PenaltyPaid,
         PenaltyAccruing, ObligationPaid, ObligationNotPaid, PlanPenalties, InterestPaid,
         StartPenalty, DeadlineIsText, GetOrCreateRow, CallFails, CreateInvoice,
         AnswerLost, SaveInvoiceNumber, IngestInvoice, LinkInvoice, PenaltyCreated,
         PenaltiesCreated, RetryStarts
<1>2. bill'[Own(o)] = bill[Own(o)]
  <2>1. CASE CreateInvoice \/ AnswerLost
    BY <2>1, FirstInvoice DEF CreateInvoice, AnswerLost
  <2>2. CASE UNCHANGED bill
    BY <2>2
  <2>. QED
    BY <2>1, <2>2
       DEF JobStep, Kill, SyncStarts, SyncAborts, SyncCompletes, RefreshInvoice, PenaltyPaid,
           PenaltyAccruing, ObligationPaid, ObligationNotPaid, PlanPenalties, InterestPaid,
           StartPenalty, DeadlineIsText, GetOrCreateRow, CallFails,
           SaveInvoiceNumber, IngestInvoice, LinkInvoice, PenaltyCreated,
           PenaltiesCreated, RetryStarts
<1>3. copy'[Own(o)] = copy[Own(o)] \/ copy'[Own(o)] = bill'[Own(o)]
  <2>1. Own(o) \in Invoice
    BY OwnIsInvoice
  <2>2. ASSUME NEW i \in Invoice, RefreshInvoice(i)
        PROVE copy'[Own(o)] = copy[Own(o)] \/ copy'[Own(o)] = bill[Own(o)]
    BY <2>1, <2>2 DEF RefreshInvoice, Typed, TypeOK
  <2>3. CASE IngestInvoice
    <3>1. Own(o) # Current => copy'[Own(o)] = copy[Own(o)]
      BY <2>1, <2>3 DEF IngestInvoice, Typed, TypeOK
    <3>2. Own(o) = Current => copy'[Own(o)] = bill[Own(o)]
      BY <2>1, <2>3 DEF IngestInvoice, Typed, TypeOK
    <3>. QED
      BY <3>1, <3>2, <1>2
  <2>4. CASE UNCHANGED copy
    BY <2>4
  <2>. QED
    BY <1>2, <2>2, <2>3, <2>4
       DEF JobStep, Kill, SyncStarts, SyncAborts, SyncCompletes, PenaltyPaid,
           PenaltyAccruing, ObligationPaid, ObligationNotPaid, PlanPenalties, InterestPaid,
           StartPenalty, DeadlineIsText, GetOrCreateRow, CallFails, CreateInvoice, AnswerLost,
           SaveInvoiceNumber, LinkInvoice, PenaltyCreated, PenaltiesCreated, RetryStarts
<1>4. today <= today'
  BY <1>1, DaysAssumption DEF Typed, TypeOK, Day
<1>. QED
  BY <1>1, <1>2, <1>3, <1>4 DEF InvoiceMoves

\* A payment is dated to a day that is past.
LEMMA PaymentDated ==
  ASSUME NEW l \in Day \cup {None}, NEW d \in Day, NEW t \in Day, d <= t, l # None => l <= t
  PROVE  Later(l, d) \in Day /\ Later(l, d) <= t
  BY DaysAssumption, NoneAssumption DEF Later, Day

LEMMA WorldMovesInvoices ==
  ASSUME IInv, FeeOK, World, NEW o \in Obligation
  PROVE  InvoiceMoves(o)
<1>. USE DEF IInv
<1>0. /\ Own(o) \in Invoice /\ today \in Day /\ today \in Nat
      /\ bill[Own(o)] # None => bill[Own(o)] \in Balance
  BY OwnIsInvoice, DaysAssumption DEF Typed, TypeOK, Day
<1>1. CASE NextDay
  <2>1. today <= today'
    BY <1>0, <1>1 DEF NextDay
  <2>. QED
    BY <1>1, <2>1 DEF NextDay, InvoiceMoves
<1>2. ASSUME NEW q \in Obligation, NEW s \in BOOLEAN, NEW e \in Evening, BillObligation(q, s, e)
      PROVE  InvoiceMoves(o)
  <2>1. PICK b : b = [fee |-> Payments, interest |-> FALSE, last |-> None]
    OBVIOUS
  <2>2. b.fee = Payments /\ b.last = None /\ b # None
    <3>1. b \in Balance
      BY <2>1, BoundsAssumption DEF Balance
    <3>. QED
      BY <2>1, <3>1, NoneAssumption
  <2>3. /\ obligation[q] = None /\ UNCHANGED <<today, decrease>>
        /\ bill' = [bill EXCEPT ![Own(q)] = b] /\ copy' = [copy EXCEPT ![Own(q)] = b]
    BY <1>2, <2>1 DEF BillObligation
  <2>4. CASE o = q
    <3>1. bill[Own(o)] = None
      BY <2>3, <2>4 DEF Owned
    <3>2. bill'[Own(o)] = b /\ copy'[Own(o)] = b
      BY <2>3, <2>4, <1>0 DEF Typed, TypeOK
    <3>. QED
      BY <1>0, <2>2, <2>3, <2>4, <3>1, <3>2 DEF InvoiceMoves, Billed
  <2>5. CASE o # q
    <3>1. Own(o) # Own(q)
      BY <2>5, OwnIsInvoice
    <3>2. bill'[Own(o)] = bill[Own(o)] /\ copy'[Own(o)] = copy[Own(o)]
      BY <2>3, <3>1, <1>0 DEF Typed, TypeOK
    <3>. QED
      BY <1>0, <2>3, <3>2 DEF InvoiceMoves
  <2>. QED
    BY <2>4, <2>5
<1>3. ASSUME NEW q \in Obligation, NEW d \in Day, PayFee(q, d) PROVE InvoiceMoves(o)
  <2>1. UNCHANGED <<today, copy, decrease>>
    BY <1>3 DEF PayFee
  <2>2. CASE o # q
    <3>1. Own(o) # Own(q)
      BY <2>2, OwnIsInvoice
    <3>2. bill'[Own(o)] = bill[Own(o)]
      BY <1>3, <3>1, <1>0 DEF PayFee, Typed, TypeOK
    <3>. QED
      BY <1>0, <2>1, <3>2 DEF InvoiceMoves
  <2>3. CASE o = q
    <3>1. PICK b, c : b = bill[Own(o)] /\ c = bill'[Own(o)]
      OBVIOUS
    <3>2. b \in Balance /\ b.fee > 0 /\ d <= today
      BY <1>0, <1>3, <2>3, <3>1 DEF PayFee
    <3>3. c = [b EXCEPT !.fee = b.fee - 1, !.last = Later(b.last, d)]
      BY <1>0, <1>3, <2>3, <3>1 DEF PayFee, Typed, TypeOK
    <3>4. c \in Balance /\ c.last = Later(b.last, d)
      <4>1. c \in Balance
        BY <3>2, <3>3, BalanceChanges
      <4>. QED
        BY <3>2, <3>3, <4>1 DEF Balance
    <3>5. Later(b.last, d) \in Day /\ Later(b.last, d) <= today
      <4>1. b.last \in Day \cup {None} /\ (b.last # None => b.last <= today)
        BY <1>3, <2>3, <3>1, <3>2 DEF PayFee, FeeOK, Balance
      <4>. QED
        BY <4>1, <1>0, <3>2, PaymentDated
    <3>6. PaidFrom(o)
      BY <3>1, <3>2, <3>4, <3>5, NoneAssumption DEF PaidFrom
    <3>. QED
      BY <1>0, <2>1, <3>6 DEF InvoiceMoves
  <2>. QED
    BY <2>2, <2>3
<1>4. ASSUME NEW p \in Penalty, PayPenalty(p) PROVE InvoiceMoves(o)
  <2>1. bill'[Own(o)] = bill[Own(o)]
    BY <1>0, <1>4, OwnIsNoPenalty DEF PayPenalty, Typed, TypeOK
  <2>. QED
    BY <1>0, <1>4, <2>1 DEF InvoiceMoves, PayPenalty
<1>5. ASSUME NEW q \in Obligation, AddInterest(q) \/ PayInterest(q) PROVE InvoiceMoves(o)
  <2>1. PICK x \in BOOLEAN : bill' = [bill EXCEPT ![Own(q)].interest = x]
    BY <1>5 DEF AddInterest, PayInterest
  <2>2. bill[Own(q)] # None /\ UNCHANGED <<today, copy, decrease>>
    BY <1>5 DEF AddInterest, PayInterest
  <2>3. CASE o # q
    <3>1. Own(o) # Own(q)
      BY <2>3, OwnIsInvoice
    <3>2. bill'[Own(o)] = bill[Own(o)]
      BY <2>1, <3>1, <1>0 DEF Typed, TypeOK
    <3>. QED
      BY <1>0, <2>2, <3>2 DEF InvoiceMoves
  <2>4. CASE o = q
    <3>1. PICK b, c : b = bill[Own(o)] /\ c = bill'[Own(o)]
      OBVIOUS
    <3>2. b \in Balance /\ c = [b EXCEPT !.interest = x]
      BY <1>0, <2>1, <2>2, <2>4, <3>1 DEF Typed, TypeOK
    <3>3. c \in Balance /\ c.fee = b.fee /\ c.last = b.last
      BY <3>2 DEF Balance
    <3>4. FeeKept(o)
      BY <2>2, <2>4, <3>1, <3>3, NoneAssumption DEF FeeKept
    <3>. QED
      BY <1>0, <2>2, <3>4 DEF InvoiceMoves
  <2>. QED
    BY <2>3, <2>4
<1>6. ASSUME NEW i \in Invoice, RefreshPage(i) PROVE InvoiceMoves(o)
  <2>1. copy'[Own(o)] = copy[Own(o)] \/ copy'[Own(o)] = bill'[Own(o)]
    BY <1>0, <1>6 DEF RefreshPage, Typed, TypeOK
  <2>. QED
    BY <1>0, <1>6, <2>1 DEF InvoiceMoves, RefreshPage
<1>7. ASSUME NEW q \in Obligation, PostDecrease(q) PROVE InvoiceMoves(o)
  <2>1. UNCHANGED today /\ bill[Own(q)] # None /\ bill[Own(q)].fee > 0 /\ decrease[q] = "none"
    BY <1>7 DEF PostDecrease
  <2>2. CASE o # q
    <3>1. Own(o) # Own(q)
      BY <2>2, OwnIsInvoice
    <3>2. bill'[Own(o)] = bill[Own(o)] /\ copy'[Own(o)] = copy[Own(o)] /\ decrease'[o] = decrease[o]
      BY <1>7, <2>2, <3>1, <1>0 DEF PostDecrease, Typed, TypeOK
    <3>. QED
      BY <1>0, <2>1, <3>2 DEF InvoiceMoves
  <2>3. CASE o = q
    <3>1. PICK b, c, d : b = bill[Own(o)] /\ c = bill'[Own(o)] /\ d = obligation[o].created
      OBVIOUS
    <3>2. b \in Balance /\ b.fee > 0 /\ d \in Day /\ d <= today
      <4>1. obligation[o] # None /\ obligation[o] \in ObligationRow
        BY <2>1, <2>3 DEF Owned, Typed, TypeOK
      <4>. QED
        BY <1>0, <2>1, <2>3, <3>1, <4>1 DEF FeeOK, ObligationRow
    <3>3. c = [b EXCEPT !.fee = 0, !.last = Later(b.last, d)]
      BY <1>0, <1>7, <2>3, <3>1 DEF PostDecrease, Typed, TypeOK
    <3>4. c \in Balance /\ c.last = Later(b.last, d) /\ c.fee = 0
      <4>1. c \in Balance
        BY <3>2, <3>3, BalanceChanges
      <4>. QED
        BY <3>2, <3>3, <4>1 DEF Balance
    <3>5. Later(b.last, d) \in Day /\ Later(b.last, d) <= today
      <4>1. b.last \in Day \cup {None} /\ (b.last # None => b.last <= today)
        BY <2>1, <2>3, <3>1, <3>2 DEF FeeOK, Balance
      <4>. QED
        BY <4>1, <1>0, <3>2, PaymentDated
    <3>6. PaidFrom(o) /\ PaidUp(bill'[Own(o)])
      BY <2>1, <2>3, <3>1, <3>2, <3>4, <3>5, NoneAssumption DEF PaidFrom, PaidUp
    <3>7. copy'[Own(o)] = bill'[Own(o)]
      BY <1>0, <1>7, <2>3 DEF PostDecrease, Typed, TypeOK
    <3>. QED
      BY <1>0, <2>1, <2>3, <3>6, <3>7 DEF InvoiceMoves
  <2>. QED
    BY <2>2, <2>3
<1>8. ASSUME NEW q \in Obligation, MarkMet(q) PROVE InvoiceMoves(o)
  <2>1. decrease'[o] = decrease[o] \/ (decrease[o] = "posted" /\ decrease'[o] = "settled")
    BY <1>8 DEF MarkMet, Typed, TypeOK
  <2>2. UNCHANGED <<today, bill, copy>>
    BY <1>8 DEF MarkMet
  <2>. QED
    BY <1>0, <2>1, <2>2 DEF InvoiceMoves
<1>. QED
  BY <1>1, <1>2, <1>3, <1>4, <1>5, <1>6, <1>7, <1>8 DEF World

LEMMA InvoicesMove ==
  ASSUME IInv, FeeOK, Next, NEW o \in Obligation
  PROVE  InvoiceMoves(o)
  BY JobMovesInvoices, WorldMovesInvoices DEF Next

-----------------------------------------------------------------------------
(* What a step does to the job *)

\* The job has nothing of an obligation in hand, takes the invoice of one, ...
Leaves ==
  /\ job'.pc \in {"idle", "pick", "penalty"}
  /\ Kill \/ job.pc \in {"idle", "pick", "penalty", "interest"} \/ job.mode = "retry"
Takes ==
  /\ job.pc = "pick" /\ job'.pc = "accruing"
  /\ \E o \in Obligation : /\ job'.invoice = Own(o) /\ obligation[o] # None
                           /\ job'.owed = bill[Own(o)] /\ copy'[Own(o)] = bill[Own(o)]

\* ... goes from handler to handler with it, ...
Holds(pc, qc) ==
  /\ job.pc = pc /\ job'.pc = qc /\ job.mode = "sync" /\ job'.mode = "sync"
  /\ job'.invoice = job.invoice /\ job'.owed = job.owed
Looks == Holds("accruing", "met") /\ job'.status = obligation[Ob(job.invoice)].status
Marks ==
  /\ Holds("met", "plan") /\ ObligationPaid /\ job'.status \in {"met interest unpaid", "fully met"}
PutsBy ==
  /\ Holds("met", "interest") \/ (Holds("create", "interest") /\ job.plan = {})
  /\ job'.status = job.status
Decides == Holds("plan", "create") /\ job'.status = job.status /\ PlanPenalties

\* ... and is creating a penalty, in the sync or in a retry.
Creates ==
  /\ job.mode = "sync" /\ job.pc \in {"create"} \cup Creating
  /\ job'.mode = "sync" /\ job'.pc \in Creating
  /\ job'.invoice = job.invoice /\ job'.status = job.status /\ job'.plan = job.plan
  /\ job'.pc = "status" => LinkInvoice /\ job'.type = job.type
Ends ==
  /\ job.mode = "sync" /\ job.pc \in Creating
  /\ job'.mode = "sync" /\ job'.pc = "create"
  /\ job'.invoice = job.invoice /\ job'.status = job.status /\ job'.plan = job.plan \ {job.type}
  /\ AttemptFailed \/ PenaltyCreated
Retries == job.pc = "idle" /\ job'.pc = "start" /\ job'.mode = "retry"

JobMoves ==
  \/ job' = job \/ Leaves \/ Takes \/ Looks \/ Marks \/ PutsBy \/ Decides
  \/ Creates \/ Ends \/ Retries

\* An attempt that fails
LEMMA FailureEnds ==
  ASSUME IInv, job.pc \in Creating, AttemptFailed
  PROVE  Leaves \/ Ends
<1>. USE DEF IInv
<1>1. job \in Job /\ job.mode \in {"sync", "retry"}
  BY DEF Typed, JobOwned, Creating
<1>2. CASE job.mode = "sync"
  <2>1. job' = [job EXCEPT !.pc = "create", !.plan = job.plan \ {job.type}, !.type = None]
    BY <1>1, <1>2 DEF AttemptFailed, Job
  <2>. QED
    BY <2>1, <1>1, <1>2 DEF Ends, Job
<1>3. CASE job.mode = "retry"
  BY <1>3, IdleIsJob DEF AttemptFailed, Leaves
<1>. QED
  BY <1>1, <1>2, <1>3

LEMMA HandlersMove ==
  ASSUME IInv,
         \/ SyncStarts \/ SyncAborts \/ SyncCompletes \/ Kill
         \/ \E i \in Invoice: RefreshInvoice(i)
         \/ PenaltyPaid \/ PenaltyAccruing
         \/ ObligationPaid \/ ObligationNotPaid \/ PlanPenalties \/ InterestPaid
  PROVE  JobMoves
<1>. USE DEF IInv
<1>0. job \in Job
  BY DEF Typed
<1>1. CASE SyncStarts \/ SyncAborts \/ SyncCompletes \/ Kill
  <2>1. job' = Idle \/ (SyncStarts /\ job'.pc = "pick")
    BY <1>1 DEF SyncStarts, SyncAborts, SyncCompletes, Kill, Idle
  <2>2. Kill \/ job.pc \in {"idle", "pick"}
    BY <1>1 DEF SyncStarts, SyncAborts, SyncCompletes
  <2>. QED
    BY <2>1, <2>2, IdleIsJob DEF JobMoves, Leaves
<1>2. ASSUME NEW i \in Invoice, RefreshInvoice(i) PROVE JobMoves
  <2>1. /\ job'.pc = (IF Kind(i) = "obligation" THEN "accruing" ELSE "penalty")
        /\ job'.invoice = i /\ job'.owed = bill[i] /\ job.pc = "pick" /\ copy'[i] = bill[i]
    BY <1>0, <1>2 DEF RefreshInvoice, Job, Typed, TypeOK
  <2>2. Kind(i) = "obligation" => Ob(i) \in Obligation /\ i = Own(Ob(i)) /\ obligation[Ob(i)] # None
    BY <1>2, InvoiceIsOwnOrPenalty DEF RefreshInvoice, JobOwned, HasOwner
  <2>3. CASE Kind(i) = "obligation"
    BY <2>1, <2>2, <2>3 DEF JobMoves, Takes
  <2>4. CASE Kind(i) # "obligation"
    BY <2>1, <2>4 DEF JobMoves, Leaves
  <2>. QED
    BY <2>3, <2>4
<1>3. CASE PenaltyPaid \/ InterestPaid
  BY <1>0, <1>3 DEF PenaltyPaid, InterestPaid, Job, JobMoves, Leaves
<1>4. CASE PenaltyAccruing
  <2>1. job.mode = "sync"
    BY <1>4, OnlySyncCreates DEF PenaltyAccruing
  <2>2. /\ job'.pc = "met" /\ job'.mode = job.mode /\ job'.invoice = job.invoice /\ job'.owed = job.owed
        /\ job'.status = obligation[Ob(job.invoice)].status /\ job.pc = "accruing"
    BY <1>0, <1>4 DEF PenaltyAccruing, Job
  <2>. QED
    BY <2>1, <2>2 DEF JobMoves, Looks, Holds
<1>5. CASE ObligationPaid
  <2>1. job.mode = "sync"
    BY <1>5, OnlySyncCreates DEF ObligationPaid
  <2>2. PICK x \in {"met interest unpaid", "fully met"} :
           job' = [job EXCEPT !.pc = "plan", !.status = x]
    BY <1>5 DEF ObligationPaid
  <2>3. /\ job'.pc = "plan" /\ job'.mode = job.mode /\ job'.invoice = job.invoice
        /\ job'.owed = job.owed /\ job'.status = x /\ job.pc = "met"
    BY <1>0, <1>5, <2>2 DEF ObligationPaid, Job
  <2>. QED
    BY <1>5, <2>1, <2>3 DEF JobMoves, Marks, Holds
<1>6. CASE ObligationNotPaid
  <2>1. job.mode = "sync"
    BY <1>6, OnlySyncCreates DEF ObligationNotPaid
  <2>2. /\ job'.pc = "interest" /\ job'.mode = job.mode /\ job'.invoice = job.invoice
        /\ job'.owed = job.owed /\ job'.status = job.status /\ job.pc = "met"
    BY <1>0, <1>6 DEF ObligationNotPaid, Job
  <2>. QED
    BY <2>1, <2>2 DEF JobMoves, PutsBy, Holds
<1>7. CASE PlanPenalties
  <2>1. job.mode = "sync"
    BY <1>7, OnlySyncCreates DEF PlanPenalties
  <2>2. /\ job'.pc = "create" /\ job'.mode = job.mode /\ job'.invoice = job.invoice
        /\ job'.owed = job.owed /\ job'.status = job.status /\ job.pc = "plan"
    BY <1>0, <1>7 DEF PlanPenalties, Job
  <2>. QED
    BY <1>7, <2>1, <2>2 DEF JobMoves, Decides, Holds
<1>. QED
  BY <1>1, <1>2, <1>3, <1>4, <1>5, <1>6, <1>7

LEMMA CreationMoves ==
  ASSUME IInv,
         \/ StartPenalty \/ DeadlineIsText \/ GetOrCreateRow
         \/ CallFails \/ CreateInvoice \/ AnswerLost \/ SaveInvoiceNumber
         \/ IngestInvoice \/ LinkInvoice \/ PenaltyCreated \/ PenaltiesCreated
         \/ \E p \in Penalty: RetryStarts(p)
  PROVE  JobMoves
<1>. USE DEF IInv
<1>0. job \in Job
  BY DEF Typed
<1>1. CASE DeadlineIsText \/ CallFails \/ AnswerLost
  <2>1. job.pc \in Creating /\ AttemptFailed
    BY <1>1 DEF DeadlineIsText, CallFails, AnswerLost, Creating
  <2>. QED
    BY <2>1, FailureEnds DEF JobMoves
<1>2. CASE StartPenalty
  <2>1. job.mode = "sync"
    BY <1>2, OnlySyncCreates DEF StartPenalty
  <2>2. /\ job'.pc = "start" /\ job'.mode = job.mode /\ job'.invoice = job.invoice
        /\ job'.plan = job.plan /\ job'.status = job.status /\ job.pc = "create"
    BY <1>0, <1>2 DEF StartPenalty, Job
  <2>. QED
    BY <2>1, <2>2 DEF JobMoves, Creates, Creating
<1>3. CASE GetOrCreateRow \/ CreateInvoice \/ SaveInvoiceNumber \/ IngestInvoice \/ LinkInvoice
  <2>1. job.pc \in Creating /\ job.mode = "sync"
    BY <1>3, OnlySyncCreates, SyncCreates
       DEF GetOrCreateRow, CreateInvoice, SaveInvoiceNumber, IngestInvoice, LinkInvoice, Creating
  <2>2. PICK pc \in Creating : job' = [job EXCEPT !.pc = pc] /\ (pc = "status" => LinkInvoice)
    BY <1>3 DEF GetOrCreateRow, CreateInvoice, SaveInvoiceNumber, IngestInvoice, LinkInvoice, Creating
  <2>3. /\ job'.pc = pc /\ job'.mode = job.mode /\ job'.invoice = job.invoice /\ job'.type = job.type
        /\ job'.plan = job.plan /\ job'.status = job.status
    BY <1>0, <2>2 DEF Job
  <2>. QED
    BY <2>1, <2>2, <2>3 DEF JobMoves, Creates
<1>4. CASE PenaltyCreated
  <2>1. job.mode = "sync" /\ job.pc \in Creating /\ "sync" # "retry"
    BY <1>4, OnlySyncCreates DEF PenaltyCreated, Creating
  <2>2. job' = [job EXCEPT !.pc = "create", !.plan = job.plan \ {job.type}, !.type = None]
    BY <1>0, <1>4, <2>1 DEF PenaltyCreated, Job
  <2>. QED
    BY <1>0, <1>4, <2>1, <2>2 DEF JobMoves, Ends, Job
<1>5. CASE PenaltiesCreated
  <2>1. job.mode = "sync"
    BY <1>5, OnlySyncCreates DEF PenaltiesCreated
  <2>2. /\ job'.pc = "interest" /\ job'.mode = job.mode /\ job'.invoice = job.invoice
        /\ job'.owed = job.owed /\ job'.status = job.status /\ job.pc = "create" /\ job.plan = {}
    BY <1>0, <1>5 DEF PenaltiesCreated, Job
  <2>. QED
    BY <2>1, <2>2 DEF JobMoves, PutsBy, Holds
<1>6. ASSUME NEW p \in Penalty, RetryStarts(p) PROVE JobMoves
  <2>1. job'.pc = "start" /\ job'.mode = "retry" /\ job.pc = "idle"
    BY <1>6 DEF RetryStarts, Idle
  <2>. QED
    BY <2>1 DEF JobMoves, Retries
<1>. QED
  BY <1>1, <1>2, <1>3, <1>4, <1>5, <1>6

LEMMA JobDoesMove ==
  ASSUME IInv, Next
  PROVE  JobMoves
<1>1. World => job' = job
  BY DEF World, NextDay, BillObligation, PayFee, PayPenalty, AddInterest, PayInterest, RefreshPage,
         PostDecrease, MarkMet
<1>. QED
  BY <1>1, HandlersMove, CreationMoves DEF Next, JobStep, JobMoves

-----------------------------------------------------------------------------
(* What a step does to penalties, and to the calls recorded for retry *)

\* Only the sync creates a penalty, for what it plans; no row or link goes.
PenaltyMoves(p) ==
  /\ penalty[p] # None => penalty'[p] # None
  /\ Linked(p) => penalty'[p].linked
  /\ queue[p] # None => queue'[p] # None
  /\ penalty'[p] # None =>
       \/ penalty[p] # None
       \/ p = Current /\ job.mode = "sync" /\ job.pc \in Creating /\ job.type \in job.plan

LEMMA QueueGrows ==
  ASSUME IInv, job.pc \in Creating, AttemptFailed
  PROVE  (\A p \in Penalty : queue[p] # None => queue'[p] # None) /\ queue'[Current] # None
<1>. USE DEF IInv
<1>1. PICK n : queue' = [queue EXCEPT ![Current] = [status |-> "failed", count |-> n]]
                 /\ (n = 0 \/ (job.mode # "sync" /\ n = queue[Current].count + 1))
  <2>1. Current \in Penalty
    BY CurrentIsPenalty
  <2>2. CASE job.mode = "sync"
    BY <2>2 DEF AttemptFailed
  <2>3. CASE job.mode # "sync"
    BY <2>1, <2>3 DEF AttemptFailed, Typed, TypeOK
  <2>. QED
    BY <2>2, <2>3
<1>2. n \in 0..MaxRetries
  <2>1. CASE n = 0
    BY <2>1, BoundsAssumption
  <2>2. CASE job.mode # "sync" /\ n = queue[Current].count + 1
    <3>1. job.mode = "retry"
      BY <2>2 DEF JobOwned, Creating
    <3>2. queue[Current] \in RetryRow /\ queue[Current].count < MaxRetries
      BY <3>1, CurrentIsPenalty DEF JobOwned, Creating, Typed, TypeOK
    <3>. QED
      BY <2>2, <3>2, BoundsAssumption DEF RetryRow
  <2>. QED
    BY <1>1, <2>1, <2>2
<1>3. PICK r : r = [status |-> "failed", count |-> n]
  OBVIOUS
<1>4. r # None
  <2>1. r \in RetryRow
    BY <1>2, <1>3 DEF RetryRow
  <2>. QED
    BY <2>1, NoneAssumption
<1>. QED
  BY <1>1, <1>3, <1>4, CurrentIsPenalty DEF Typed, TypeOK

LEMMA PenaltiesMove ==
  ASSUME IInv, Next, NEW p \in Penalty
  PROVE  PenaltyMoves(p)
<1>. USE DEF IInv
<1>1. CASE UNCHANGED <<penalty, queue>>
  BY <1>1 DEF PenaltyMoves, Linked
<1>2. CASE DeadlineIsText \/ CallFails \/ AnswerLost
  <2>1. job.pc \in Creating /\ AttemptFailed /\ UNCHANGED penalty
    BY <1>2 DEF DeadlineIsText, CallFails, AnswerLost, Creating
  <2>. QED
    BY <2>1, QueueGrows DEF PenaltyMoves, Linked
<1>3. CASE GetOrCreateRow
  <2>1. job.pc = "start" /\ job.pc \in Creating /\ job.deadline = "date" /\ UNCHANGED queue
    BY <1>3 DEF GetOrCreateRow, Creating
  <2>2. job.mode = "sync" /\ job.type \in job.plan
    BY <2>1, SyncCreates
  <2>3. CASE p # Current \/ penalty[p] # None
    <3>1. penalty'[p] = penalty[p]
      BY <1>3, <2>3 DEF GetOrCreateRow, Typed, TypeOK
    <3>. QED
      BY <2>1, <3>1 DEF PenaltyMoves, Linked
  <2>4. CASE p = Current /\ penalty[p] = None
    BY <2>1, <2>2, <2>4 DEF PenaltyMoves, Linked
  <2>. QED
    BY <2>3, <2>4
<1>4. CASE SaveInvoiceNumber \/ LinkInvoice \/ PenaltyPaid
  <2>1. PICK q, r : /\ q \in Penalty /\ penalty[q] # None /\ UNCHANGED queue
                    /\ penalty' = penalty \/ penalty' = [penalty EXCEPT ![q] = r]
                    /\ r \in PenaltyRow /\ (penalty[q].linked => r.linked)
    <3>1. CASE PenaltyPaid
      <4>1. job.invoice \in Penalty /\ penalty[job.invoice] # None /\ penalty[job.invoice] \in PenaltyRow
        BY <3>1 DEF PenaltyPaid, JobOwned, Typed, TypeOK
      <4>2. PICK r : r = [penalty[job.invoice] EXCEPT !.status = "paid"]
        OBVIOUS
      <4>3. r \in PenaltyRow /\ r.linked = penalty[job.invoice].linked
        BY <4>1, <4>2 DEF PenaltyRow
      <4>4. penalty' = penalty \/ penalty' = [penalty EXCEPT ![job.invoice] = r]
        BY <3>1, <4>1, <4>2 DEF PenaltyPaid, Typed, TypeOK
      <4>. QED
        BY <3>1, <4>1, <4>3, <4>4 DEF PenaltyPaid
    <3>2. CASE SaveInvoiceNumber \/ LinkInvoice
      <4>1. job.pc \in Creating \ {"start"}
        BY <3>2 DEF SaveInvoiceNumber, LinkInvoice, Creating
      <4>2. Current \in Penalty /\ penalty[Current] # None /\ penalty[Current] \in PenaltyRow
        BY <4>1, CurrentIsPenalty DEF JobOwned, Typed, TypeOK
      <4>3. PICK b, n, l : /\ b = penalty[Current]
                           /\ n = [b EXCEPT !.number = TRUE] /\ l = [b EXCEPT !.linked = TRUE]
        OBVIOUS
      <4>4. n \in PenaltyRow /\ n.linked = b.linked /\ l \in PenaltyRow /\ l.linked
        BY <4>2, <4>3 DEF PenaltyRow
      <4>5. penalty' = [penalty EXCEPT ![Current] = n] \/ penalty' = [penalty EXCEPT ![Current] = l]
        BY <3>2, <4>2, <4>3 DEF SaveInvoiceNumber, LinkInvoice, Typed, TypeOK
      <4>6. UNCHANGED queue
        BY <3>2 DEF SaveInvoiceNumber, LinkInvoice
      <4>. QED
        BY <4>2, <4>3, <4>4, <4>5, <4>6
    <3>. QED
      BY <1>4, <3>1, <3>2
  <2>2. r # None
    BY <2>1, NoneAssumption
  <2>3. CASE p = q /\ penalty' = [penalty EXCEPT ![q] = r]
    <3>1. penalty'[p] = r
      BY <2>3 DEF Typed, TypeOK
    <3>. QED
      BY <2>1, <2>2, <2>3, <3>1 DEF PenaltyMoves, Linked
  <2>4. CASE p # q \/ penalty' = penalty
    <3>1. penalty'[p] = penalty[p]
      BY <2>1, <2>4 DEF Typed, TypeOK
    <3>. QED
      BY <2>1, <3>1 DEF PenaltyMoves, Linked
  <2>. QED
    BY <2>1, <2>3, <2>4
<1>5. CASE PenaltyCreated
  <2>1. job.mode = "sync" /\ "sync" # "retry"
    BY <1>5, OnlySyncCreates DEF PenaltyCreated
  <2>. QED
    BY <1>5, <2>1, <1>1 DEF PenaltyCreated
<1>6. ASSUME NEW q \in Penalty, RetryStarts(q) PROVE PenaltyMoves(p)
  <2>1. PICK r : r = [queue[q] EXCEPT !.status = "running"]
    OBVIOUS
  <2>2. r # None
    <3>1. queue[q] \in RetryRow
      BY <1>6 DEF RetryStarts, Typed, TypeOK
    <3>2. r \in RetryRow
      BY <2>1, <3>1 DEF RetryRow
    <3>. QED
      BY <3>2, NoneAssumption
  <2>3. queue' = [queue EXCEPT ![q] = r] /\ UNCHANGED penalty
    BY <1>6, <2>1 DEF RetryStarts, Typed, TypeOK
  <2>. QED
    BY <2>2, <2>3 DEF PenaltyMoves, Linked, Typed, TypeOK
<1>7. World => UNCHANGED <<penalty, queue>>
  BY DEF World, NextDay, BillObligation, PayFee, PayPenalty, AddInterest, PayInterest, RefreshPage,
         PostDecrease, MarkMet
<1>. QED
  BY <1>1, <1>2, <1>3, <1>4, <1>5, <1>6, <1>7
     DEF Next, JobStep, Kill, SyncStarts, SyncAborts, SyncCompletes, RefreshInvoice,
         PenaltyAccruing, ObligationPaid, ObligationNotPaid, PlanPenalties, InterestPaid,
         StartPenalty, CreateInvoice, IngestInvoice, PenaltiesCreated

-----------------------------------------------------------------------------
(* What is paid stays paid *)

LEMMA ReportsGrow ==
  ASSUME IInv, Next
  PROVE  Grows
<1>. SUFFICES ASSUME NEW o \in Obligation
     PROVE  /\ obligation[o] # None => obligation'[o] # None
            /\ IsMet(o) => IsMet(o)'
  BY DEF Grows
<1>. QED
  BY ReportsMove DEF ReportMoves, Reported, Marked, Restated, SameReport, IsMet

LEMMA PaidUpStays ==
  ASSUME IInv, FeeOK, Next, NEW o \in Obligation
  PROVE  /\ PaidUp(bill[Own(o)]) =>
              PaidUp(bill'[Own(o)]) /\ bill'[Own(o)].last = bill[Own(o)].last
         /\ PaidUp(copy[Own(o)]) => PaidUp(copy'[Own(o)])
<1>1. InvoiceMoves(o)
  BY InvoicesMove
<1>2. PaidUp(bill[Own(o)]) =>
        PaidUp(bill'[Own(o)]) /\ bill'[Own(o)].last = bill[Own(o)].last
  BY <1>1 DEF InvoiceMoves, Billed, PaidFrom, FeeKept, PaidUp
<1>3. PaidUp(copy[Own(o)]) => PaidUp(bill[Own(o)])
  BY DEF FeeOK
<1>. QED
  BY <1>1, <1>2, <1>3 DEF InvoiceMoves, PaidUp

LEMMA FeeOKStep ==
  ASSUME IInv, FeeOK, Next
  PROVE  FeeOK'
<1>0. IInv' /\ Grows /\ JobMoves
  BY IInvStep, ReportsGrow, JobDoesMove
<1>1. ASSUME NEW o \in Obligation
      PROVE  /\ obligation'[o] # None => bill'[Own(o)] # None /\ obligation'[o].created <= today'
             /\ bill'[Own(o)] # None => /\ bill'[Own(o)].fee = 0 => bill'[Own(o)].last # None
                                        /\ bill'[Own(o)].last # None => bill'[Own(o)].last <= today'
             /\ PaidUp(copy'[Own(o)]) => PaidUp(bill'[Own(o)]) /\ copy'[Own(o)].last = bill'[Own(o)].last
             /\ IsMet(o)' \/ decrease'[o] # "none" => PaidUp(bill'[Own(o)])
  <2>0. /\ today \in Nat /\ today' \in Nat /\ Own(o) \in Invoice
        /\ obligation[o] # None => obligation[o].created \in Nat
        /\ bill[Own(o)] # None => bill[Own(o)].last \in Nat \cup {None}
    BY <1>0, OwnIsInvoice, DaysAssumption DEF IInv, Typed, TypeOK, Day, ObligationRow, Balance
  <2>1. ReportMoves(o) /\ InvoiceMoves(o) /\ today <= today'
    BY ReportsMove, InvoicesMove DEF InvoiceMoves
  <2>2. obligation'[o] # None => bill'[Own(o)] # None /\ obligation'[o].created <= today'
    <3>1. CASE obligation[o] # None
      <4>1. bill[Own(o)] # None /\ obligation[o].created <= today
        BY <3>1 DEF FeeOK
      <4>2. bill'[Own(o)] # None
        BY <2>1, <4>1 DEF InvoiceMoves, Billed, PaidFrom, FeeKept
      <4>3. obligation'[o].created = obligation[o].created
        BY <2>1, <3>1 DEF ReportMoves, Reported, Marked, Restated, SameReport
      <4>. QED
        BY <2>0, <2>1, <3>1, <4>1, <4>2, <4>3
    <3>2. CASE obligation[o] = None
      BY <2>0, <2>1, <3>2 DEF ReportMoves, Reported, Marked, Restated
    <3>. QED
      BY <3>1, <3>2
  <2>3. bill'[Own(o)] # None => /\ bill'[Own(o)].fee = 0 => bill'[Own(o)].last # None
                                /\ bill'[Own(o)].last # None => bill'[Own(o)].last <= today'
    <3>1. bill[Own(o)] # None => /\ bill[Own(o)].fee = 0 => bill[Own(o)].last # None
                                 /\ bill[Own(o)].last # None => bill[Own(o)].last <= today
      BY DEF FeeOK
    <3>2. CASE bill'[Own(o)] = bill[Own(o)] \/ FeeKept(o)
      BY <3>2, <3>1, <2>0, <2>1 DEF FeeKept
    <3>3. CASE Billed(o)
      BY <3>3, BoundsAssumption DEF Billed
    <3>4. CASE PaidFrom(o)
      <4>1. bill'[Own(o)].last \in Day /\ bill'[Own(o)].last <= today
        BY <3>4 DEF PaidFrom
      <4>. QED
        BY <4>1, <2>0, <2>1, DaysAssumption, NoneAssumption DEF Day
    <3>. QED
      BY <2>1, <3>2, <3>3, <3>4 DEF InvoiceMoves
  <2>4. PaidUp(copy'[Own(o)]) => PaidUp(bill'[Own(o)]) /\ copy'[Own(o)].last = bill'[Own(o)].last
    <3>1. CASE copy'[Own(o)] = bill'[Own(o)]
      BY <3>1 DEF PaidUp
    <3>2. CASE copy'[Own(o)] = copy[Own(o)]
      <4>1. PaidUp(copy[Own(o)]) => PaidUp(bill[Own(o)]) /\ copy[Own(o)].last = bill[Own(o)].last
        BY DEF FeeOK
      <4>. QED
        BY <3>2, <4>1, PaidUpStays DEF PaidUp
    <3>. QED
      BY <2>1, <3>1, <3>2 DEF InvoiceMoves
  <2>5. IsMet(o) \/ decrease[o] # "none" => PaidUp(bill'[Own(o)])
    BY PaidUpStays DEF FeeOK
  <2>6. decrease'[o] # "none" => PaidUp(bill'[Own(o)])
    BY <2>1, <2>5 DEF InvoiceMoves
  <2>7. IsMet(o)' => PaidUp(bill'[Own(o)])
    <3>1. CASE obligation'[o] = obligation[o] \/ Reported(o) \/ Restated(o)
      BY <3>1, <2>5 DEF Reported, Restated, IsMet
    <3>2. CASE Marked(o) /\ decrease[o] = "posted"
      BY <3>2, <2>5
    <3>3. CASE job.invoice = Own(o) /\ ObligationPaid
      <4>1. PaidUp(copy[Own(o)])
        BY <3>3 DEF ObligationPaid, FeeOK
      <4>2. PaidUp(bill[Own(o)])
        BY <4>1 DEF FeeOK
      <4>. QED
        BY <4>2, PaidUpStays
    <3>4. CASE job.invoice = Own(o) /\ InterestPaid /\ job.status = "met interest unpaid"
      <4>1. job.pc = "interest" /\ job.mode = "sync"
        BY <3>4, OnlySyncCreates DEF InterestPaid
      <4>2. IsMet(o)
        BY <3>4, <4>1, OwnIsInvoice DEF FeeOK
      <4>. QED
        BY <4>2, <2>5
    <3>. QED
      BY <2>1, <3>1, <3>2, <3>3, <3>4 DEF ReportMoves, Marked
  <2>. QED
    BY <2>2, <2>3, <2>4, <2>6, <2>7
<1>2. OnObligation /\ PaidUp(copy[job.invoice]) => PaidUp(copy'[job.invoice])
  BY InHand, PaidUpStays
<1>3. job'.pc \in {"accruing", "met"} /\ job'.owed.fee = 0 => PaidUp(copy'[job'.invoice])
  <2>1. CASE job' = job
    BY <2>1, <1>2 DEF FeeOK, OnObligation
  <2>2. CASE Takes
    <3>1. PICK o \in Obligation : /\ job'.invoice = Own(o) /\ obligation[o] # None
                                  /\ job'.owed = bill[Own(o)] /\ copy'[Own(o)] = bill[Own(o)]
      BY <2>2 DEF Takes
    <3>2. bill[Own(o)] # None
      BY <3>1 DEF FeeOK
    <3>. QED
      BY <3>1, <3>2 DEF PaidUp
  <2>3. CASE Looks
    BY <2>3, <1>2 DEF Looks, Holds, FeeOK, OnObligation, PaidUp
  <2>4. CASE Leaves \/ Marks \/ PutsBy \/ Decides \/ Creates \/ Ends \/ Retries
    BY <2>4 DEF Leaves, Marks, PutsBy, Decides, Creates, Ends, Retries, Holds, Creating
  <2>. QED
    BY <1>0, <2>1, <2>2, <2>3, <2>4 DEF JobMoves
<1>4. job'.pc = "plan" => PaidUp(copy'[job'.invoice])
  <2>1. CASE job' = job
    BY <2>1, <1>2 DEF FeeOK, OnObligation
  <2>2. CASE Marks
    <3>1. job.pc = "met" /\ job.owed.fee = 0 /\ job'.invoice = job.invoice
      BY <2>2 DEF Marks, Holds, ObligationPaid
    <3>. QED
      BY <3>1, <1>2 DEF FeeOK, OnObligation, PaidUp
  <2>3. CASE Takes \/ Looks \/ Leaves \/ PutsBy \/ Decides \/ Creates \/ Ends \/ Retries
    BY <2>3 DEF Takes, Looks, Leaves, PutsBy, Decides, Creates, Ends, Retries, Holds, Creating
  <2>. QED
    BY <1>0, <2>1, <2>2, <2>3 DEF JobMoves
<1>5. ASSUME job'.mode = "sync", job'.pc \in {"met", "plan", "interest", "create"} \cup Creating,
             job'.status \in {"met interest unpaid", "fully met"}
      PROVE  IsMet(Ob(job.invoice))'
  <2>1. CASE \/ job' = job
             \/ PutsBy \/ Decides \/ Creates \/ Ends
    <3>1. /\ job.mode = "sync" /\ job.pc \in {"met", "plan", "interest", "create"} \cup Creating
          /\ job.status \in {"met interest unpaid", "fully met"} /\ job'.invoice = job.invoice
      BY <1>5, <2>1 DEF PutsBy, Decides, Creates, Ends, Holds, Creating
    <3>2. PICK q \in Obligation : q = Ob(job.invoice)
      BY <3>1, InHand DEF OnObligation
    <3>3. IsMet(q)
      BY <3>1, <3>2 DEF FeeOK, IsMet
    <3>. QED
      BY <1>0, <3>1, <3>2, <3>3 DEF IsMet, Grows
  <2>2. CASE Looks
    <3>1. OnObligation /\ job'.invoice = job.invoice /\ job'.status = obligation[Ob(job.invoice)].status
            /\ job'.status # "not met"
      BY <1>5, <2>2 DEF Looks, Holds, OnObligation
    <3>2. PICK q \in Obligation : q = Ob(job.invoice) /\ obligation[q] # None
      BY <3>1, InHand
    <3>3. IsMet(q)
      BY <3>1, <3>2 DEF IsMet
    <3>. QED
      BY <1>0, <3>1, <3>2, <3>3 DEF IsMet, Grows
  <2>3. CASE Marks
    BY <1>0, <2>3 DEF Marks, Holds, IInv, BilledWhenMet
  <2>4. CASE Leaves \/ Takes \/ Retries
    BY <1>5, <2>4 DEF Leaves, Takes, Retries, Creating
  <2>. QED
    BY <1>0, <2>1, <2>2, <2>3, <2>4 DEF JobMoves
<1>. QED
  BY <1>1, <1>3, <1>4, <1>5 DEF FeeOK, PaidUp, IsMet

\* The job has an obligation in hand that it has marked as met.
Paying == job.mode = "sync" /\ job.pc \in {"plan", "create"} \cup Creating

\* Only an obligation that is met has penalties, so that only those of such a one
\* can be paid; and none is paid while the job still creates them.
PaidOK ==
  /\ \A p \in Penalty : penalty[p] # None => IsMet(Ob(p))
  /\ \A o \in Obligation : obligation[o] # None /\ obligation[o].penalty_status = "paid" => IsMet(o)
  /\ (job.pc = "met" /\ job.status = "not met") \/ Paying =>
       obligation[Ob(job.invoice)].penalty_status # "paid"

\* Only the handler of the penalties' own invoices marks them as paid.
LEMMA UnpaidStays ==
  ASSUME IInv, Next, NEW o \in Obligation, obligation[o] # None,
         obligation[o].penalty_status # "paid", job.pc # "penalty"
  PROVE  obligation'[o].penalty_status # "paid"
<1>1. ~PenaltyPaid
  BY DEF PenaltyPaid
<1>2. ReportMoves(o)
  BY ReportsMove
<1>. QED
  BY <1>1, <1>2 DEF ReportMoves, Reported, Marked, Restated

LEMMA PaidOKStep ==
  ASSUME IInv, PaidOK, Next
  PROVE  PaidOK'
<1>0. Grows /\ JobMoves
  BY ReportsGrow, JobDoesMove
<1>1. ASSUME NEW p \in Penalty, penalty'[p] # None PROVE IsMet(Ob(p))'
  <2>1. Ob(p) \in Obligation
    BY PenaltyIsInvoice
  <2>2. IsMet(Ob(p))
    <3>1. CASE penalty[p] # None
      BY <3>1 DEF PaidOK
    <3>2. CASE penalty[p] = None
      <4>1. p = Current /\ job.mode = "sync" /\ job.pc \in Creating
        BY <1>1, <3>2, PenaltiesMove DEF PenaltyMoves
      <4>2. Ob(p) = Ob(job.invoice)
        BY <4>1, CurrentIsPenalty
      <4>. QED
        BY <4>1, <4>2 DEF IInv, BilledWhenMet, IsMet
    <3>. QED
      BY <3>1, <3>2
  <2>. QED
    BY <1>0, <2>1, <2>2 DEF Grows
<1>2. ASSUME NEW o \in Obligation, obligation'[o] # None, obligation'[o].penalty_status = "paid"
      PROVE  IsMet(o)'
  <2>1. CASE obligation'[o] = obligation[o]
    BY <1>2, <2>1 DEF PaidOK, IsMet
  <2>2. CASE Reported(o) \/ Marked(o)
    BY <1>2, <2>2 DEF Reported, Marked, IsMet
  <2>3. CASE Restated(o)
    <3>1. job.pc = "penalty" /\ o = Ob(job.invoice)
      BY <1>2, <2>3 DEF Restated, PenaltyPaid
    <3>2. job.invoice \in Penalty /\ penalty[job.invoice] # None
      BY <3>1 DEF IInv, JobOwned
    <3>3. PICK p \in Penalty : p = job.invoice
      BY <3>2
    <3>4. IsMet(o)
      BY <3>1, <3>2, <3>3 DEF PaidOK, IsMet
    <3>. QED
      BY <1>0, <3>4 DEF Grows
  <2>. QED
    BY <2>1, <2>2, <2>3, ReportsMove DEF ReportMoves
<1>3. ASSUME (job'.pc = "met" /\ job'.status = "not met") \/ Paying'
      PROVE  obligation'[Ob(job'.invoice)].penalty_status # "paid"
  <2>1. /\ OnObligation /\ job'.invoice = job.invoice
        /\ \/ (job.pc = "met" /\ job.status = "not met") \/ Paying
           \/ Looks /\ job'.status = "not met"
    BY <1>0, <1>3 DEF JobMoves, Leaves, Takes, Looks, Marks, PutsBy, Decides, Creates, Ends, Retries,
                      Holds, Creating, Paying, OnObligation, ObligationPaid
  <2>2. PICK q \in Obligation : q = Ob(job.invoice) /\ obligation[q] # None
    BY <2>1, InHand
  <2>3. obligation[q].penalty_status # "paid"
    <3>1. CASE (job.pc = "met" /\ job.status = "not met") \/ Paying
      BY <2>2, <3>1 DEF PaidOK
    <3>2. CASE Looks /\ job'.status = "not met"
      <4>1. obligation[q].status = "not met"
        BY <2>2, <3>2 DEF Looks
      <4>. QED
        BY <2>2, <4>1 DEF PaidOK, IsMet
    <3>. QED
      BY <2>1, <3>1, <3>2
  <2>4. job.pc # "penalty"
    BY <2>1 DEF OnObligation, Creating
  <2>. QED
    BY <2>1, <2>2, <2>3, <2>4, UnpaidStays
<1>. QED
  BY <1>1, <1>2, <1>3 DEF PaidOK, Paying, IsMet

PaidInv == IInv /\ FeeOK /\ PaidOK

LEMMA PaidInvInit == Init => PaidInv
<1>. SUFFICES ASSUME Init PROVE PaidInv
  OBVIOUS
<1>1. /\ job.pc = "idle" /\ \A o \in Obligation : obligation[o] = None /\ Own(o) \in Invoice
      /\ \A p \in Penalty : penalty[p] = None
  BY IdleIsJob, OwnIsInvoice DEF Init
<1>2. PaidOK
  BY <1>1 DEF PaidOK, Paying, Creating
<1>3. FeeOK
  <2>1. \A o \in Obligation : bill[Own(o)] = None /\ copy[Own(o)] = None /\ decrease[o] = "none"
    BY <1>1 DEF Init
  <2>. QED
    BY <1>1, <2>1 DEF FeeOK, PaidUp, IsMet, Creating
<1>. QED
  BY <1>2, <1>3, IInvInit DEF PaidInv

LEMMA PaidInvStep == PaidInv /\ [Next]_vars => PaidInv'
<1>. SUFFICES ASSUME PaidInv, [Next]_vars PROVE PaidInv'
  OBVIOUS
<1>1. IInv'
  BY IInvStep DEF PaidInv
<1>2. CASE Next
  BY <1>1, <1>2, FeeOKStep, PaidOKStep DEF PaidInv
<1>3. CASE UNCHANGED vars
  BY <1>1, <1>3 DEF vars, PaidInv, FeeOK, PaidOK, Paying, IsMet
<1>. QED
  BY <1>2, <1>3

\* An obligation is billed as soon as it is reported, and what the database knows
\* to be paid is paid in eLicensing, on the same day.
THEOREM PaymentInvariance == Spec => []PaidInv
<1>. QED
  BY PaidInvInit, PaidInvStep, PTL DEF Spec

PaidStep == \A o \in Obligation : obligation[o] # None /\ obligation[o].penalty_status = "paid" =>
              obligation'[o].penalty_status = "paid"

LEMMA PaidStays == PaidInv /\ [Next]_vars => [PaidStep]_vars
<1>. SUFFICES ASSUME PaidInv, Next, NEW o \in Obligation, obligation[o] # None,
                     obligation[o].penalty_status = "paid"
     PROVE  obligation'[o].penalty_status = "paid"
  BY DEF PaidStep
<1>1. ReportMoves(o) /\ IsMet(o)
  BY ReportsMove DEF PaidInv, PaidOK
<1>2. o = Ob(job.invoice) => ~PenaltyCreated
  <2>1. PenaltyCreated => Paying
    BY OnlySyncCreates DEF PaidInv, PenaltyCreated, Paying, Creating
  <2>. QED
    BY <2>1 DEF PaidInv, PaidOK
<1>. QED
  BY <1>1, <1>2 DEF ReportMoves, Reported, Marked, Restated, IsMet

\* Penalties that are paid stay so, although PenaltyAccruingHandler and
\* create_penalty write the same column (docs/compliance/statuses.md, Paid).
THEOREM PaidIsFinalHolds == Spec => PaidIsFinal
<1>1. [PaidStep]_vars =>
        [\A o \in Obligation : obligation[o] # None /\ obligation[o].penalty_status = "paid" =>
           obligation'[o].penalty_status = "paid"]_vars
  BY DEF PaidStep
<1>. QED
  BY PaidInvInit, PaidInvStep, PaidStays, <1>1, PTL DEF Spec, PaidIsFinal

-----------------------------------------------------------------------------
(* What is late is penalised *)

Penalised(o, t) == Linked(<<o, t>>) \/ queue[<<o, t>>] # None

\* What is late about an obligation that is met is penalised or recorded for retry,
\* but for what the job has still to plan or to create.
Pending(o) ==
  /\ job.invoice = Own(o)
  /\ \/ job.pc = "plan"
     \/ /\ job.mode = "sync" /\ job.pc \in {"create"} \cup Creating
        /\ \A t \in Deserved(o) \ job.plan : Penalised(o, t)
PenalisedOK ==
  kills = 0 =>
    /\ job.pc = "status" => Linked(Current)
    /\ \A o \in Obligation : IsMet(o) /\ decrease[o] = "none" =>
         (\A t \in Deserved(o) : Penalised(o, t)) \/ Pending(o)

\* What is late about an obligation that is paid does not change any more.
LEMMA DeservedStays ==
  ASSUME PaidInv, Next, NEW o \in Obligation, IsMet(o)
  PROVE  Deserved(o)' = Deserved(o)
<1>1. bill'[Own(o)].last = bill[Own(o)].last
  BY PaidUpStays DEF PaidInv, FeeOK
<1>2. /\ obligation'[o].supplementary = obligation[o].supplementary
      /\ obligation'[o].created = obligation[o].created
  BY ReportsMove DEF PaidInv, IsMet, ReportMoves, Reported, Marked, Restated, SameReport
<1>. QED
  BY <1>1, <1>2 DEF Deserved

\* ObligationPaidHandler finds all that is late.  It finds no more than that, unless
\* a report is submitted when it is already tomorrow in UTC.
NoEvening == TRUE \notin Evening
LEMMA DeservedIsDue ==
  ASSUME PaidInv, NEW o \in Obligation, job.pc = "plan", job.invoice = Own(o)
  PROVE  /\ Deserved(o) \subseteq PenaltiesDue(obligation[o], copy[Own(o)].last)
         /\ NoEvening => PenaltiesDue(obligation[o], copy[Own(o)].last) \subseteq Deserved(o)
<1>1. PICK r, l : r = obligation[o] /\ l = copy[Own(o)].last
  OBVIOUS
<1>2. /\ PaidUp(copy[Own(o)]) /\ PaidUp(bill[Own(o)])
      /\ copy[Own(o)].last = bill[Own(o)].last
  BY DEF PaidInv, FeeOK
<1>3. bill[Own(o)].last # None /\ bill[Own(o)].last <= today
  BY <1>2 DEF PaidInv, FeeOK, PaidUp
<1>4. bill[Own(o)] \in Balance
  BY <1>2, OwnIsInvoice DEF PaidUp, PaidInv, IInv, Typed, TypeOK
<1>5. l \in Nat /\ l <= today /\ bill[Own(o)].last = l
  BY <1>1, <1>2, <1>3, <1>4, DaysAssumption DEF Balance, Day
<1>6. r \in ObligationRow
  <2>1. obligation[o] # None
    BY InHand, OwnIsInvoice DEF PaidInv, OnObligation
  <2>. QED
    BY <1>1, <2>1 DEF PaidInv, IInv, Typed, TypeOK
<1>7. r.created \in Nat /\ r.supplementary \in BOOLEAN /\ r.evening \in BOOLEAN /\ r.evening \in Evening
  BY <1>6, EveningAssumption, DaysAssumption DEF ObligationRow, Day
<1>8. today \in Nat /\ Deadline \in Nat /\ Grace \in Nat
  BY DaysAssumption DEF PaidInv, IInv, Typed, TypeOK, Day
<1>. DEFINE late == r.supplementary /\ r.created > Deadline
            due == IF late THEN r.created + Grace ELSE Deadline
<1>9. EffectiveDeadline(r) = due /\ due \in Nat
  BY <1>7, <1>8 DEF EffectiveDeadline, HasLateSubmission, UtcDate, DueDate
<1>10. /\ late => r.supplementary /\ HasLateSubmission(r)
       /\ NoEvening /\ r.supplementary /\ HasLateSubmission(r) => late
  <2>1. NoEvening => r.evening = FALSE
    BY <1>7 DEF NoEvening
  <2>2. UtcDate(r) \in Nat /\ UtcDate(r) >= r.created /\ (NoEvening => UtcDate(r) = r.created)
    BY <1>7, <2>1 DEF UtcDate
  <2>. QED
    BY <1>7, <1>8, <2>2 DEF HasLateSubmission
<1>11. Deserved(o) = {t \in PenaltyType : IF t = "late" THEN late ELSE l > due}
  BY <1>1, <1>5 DEF Deserved
<1>. HIDE DEF late, due
<1>12. ASSUME NEW t \in PenaltyType
       PROVE  /\ t \in Deserved(o) => t \in PenaltiesDue(r, l)
              /\ NoEvening /\ t \in PenaltiesDue(r, l) => t \in Deserved(o)
  <2>1. CASE t = "late"
    BY <2>1, <1>10, <1>11 DEF PenaltiesDue
  <2>2. CASE t = "overdue"
    BY <2>2, <1>5, <1>8, <1>9, <1>11 DEF PenaltiesDue
  <2>. QED
    BY <2>1, <2>2 DEF PenaltyType
<1>. QED
  BY <1>1, <1>11, <1>12 DEF PenaltiesDue

LEMMA KillsGrow ==
  ASSUME IInv, Next, kills' = 0
  PROVE  kills = 0 /\ ~Kill
<1>1. kills \in Nat
  BY BoundsAssumption DEF IInv, Typed, TypeOK
<1>2. ~Kill
  BY <1>1 DEF Kill
<1>3. UNCHANGED kills
  BY <1>2
     DEF Next, World, NextDay, BillObligation, PayFee, PayPenalty, AddInterest, PayInterest,
         RefreshPage, PostDecrease, MarkMet, JobStep, SyncStarts, SyncAborts, SyncCompletes,
         RefreshInvoice, PenaltyPaid, PenaltyAccruing, ObligationPaid, ObligationNotPaid,
         PlanPenalties, InterestPaid, StartPenalty, DeadlineIsText, GetOrCreateRow, CallFails,
         CreateInvoice, AnswerLost, SaveInvoiceNumber, IngestInvoice, LinkInvoice, PenaltyCreated,
         PenaltiesCreated, RetryStarts
<1>. QED
  BY <1>2, <1>3

LEMMA PenalisedStays ==
  ASSUME IInv, Next, NEW o \in Obligation, NEW t \in PenaltyType, Penalised(o, t)
  PROVE  Penalised(o, t)'
<1>1. <<o, t>> \in Penalty
  BY DEF Penalty
<1>. QED
  BY <1>1, PenaltiesMove DEF PenaltyMoves, Penalised, Linked

\* A penalty that an attempt ends with is linked, or recorded for retry.
LEMMA EndsPenalised ==
  ASSUME IInv, Next, Ends, job.pc = "status" => Linked(Current),
         NEW o \in Obligation, job.invoice = Own(o), NEW t, t = job.type
  PROVE  t \in PenaltyType /\ Penalised(o, t)'
<1>1. Current \in Penalty /\ Current = <<o, t>> /\ job.pc \in Creating
  BY CurrentIsPenalty, OwnIsInvoice DEF Ends
<1>2. PICK p \in Penalty : p = Current /\ (job.pc = "status" => Linked(p))
  BY <1>1
<1>3. queue'[p] # None \/ (penalty'[p] # None /\ penalty'[p].linked)
  <2>1. CASE AttemptFailed
    BY <1>1, <1>2, <2>1, QueueGrows
  <2>2. CASE PenaltyCreated
    BY <1>2, <2>2, PenaltiesMove DEF PenaltyCreated, PenaltyMoves, Linked
  <2>. QED
    BY <2>1, <2>2 DEF Ends
<1>4. t \in PenaltyType /\ p = <<o, t>>
  BY <1>1, <1>2 DEF IInv, JobOwned
<1>5. Linked(<<o, t>>)' \/ queue'[<<o, t>>] # None
  BY <1>3, <1>4 DEF Linked
<1>. QED
  BY <1>4, <1>5 DEF Penalised

\* An obligation that is marked as met, and not by a supplementary report, is the
\* one that the job has in hand.
LEMMA MarkedPending ==
  ASSUME PaidInv, Next, NEW o \in Obligation, ~IsMet(o), IsMet(o)', decrease'[o] = "none"
  PROVE  Pending(o)'
<1>1. ReportMoves(o)
  BY ReportsMove DEF PaidInv
<1>2. job.invoice = Own(o) /\ (ObligationPaid \/ (InterestPaid /\ job.status = "met interest unpaid"))
  BY <1>1 DEF ReportMoves, Reported, Marked, Restated, IsMet
<1>3. ~(InterestPaid /\ job.status = "met interest unpaid")
  <2>1. SUFFICES ASSUME InterestPaid, job.status = "met interest unpaid" PROVE FALSE
    OBVIOUS
  <2>2. job.pc = "interest" /\ job.mode = "sync"
    BY <2>1, OnlySyncCreates DEF InterestPaid, PaidInv
  <2>. QED
    BY <1>2, <2>1, <2>2, OwnIsInvoice DEF PaidInv, FeeOK
<1>4. PICK x : job' = [job EXCEPT !.pc = "plan", !.status = x]
  BY <1>2, <1>3 DEF ObligationPaid
<1>5. job'.pc = "plan" /\ job'.invoice = job.invoice
  BY <1>4 DEF PaidInv, IInv, Typed, Job
<1>. QED
  BY <1>2, <1>5 DEF Pending

LEMMA PenalisedOKStep ==
  ASSUME PaidInv, PenalisedOK, Next
  PROVE  PenalisedOK'
<1>. SUFFICES ASSUME kills' = 0
     PROVE  /\ job'.pc = "status" => Linked(Current)'
            /\ \A o \in Obligation : IsMet(o)' /\ decrease'[o] = "none" =>
                 (\A t \in Deserved(o)' : Penalised(o, t)') \/ Pending(o)'
  BY DEF PenalisedOK
<1>0. IInv /\ JobMoves /\ kills = 0 /\ ~Kill
  BY JobDoesMove, KillsGrow DEF PaidInv
<1>1. job'.pc = "status" => Linked(Current)'
  <2>1. CASE job' = job
    <3>1. job.pc = "status" => Current \in Penalty /\ Linked(Current)
      BY <1>0, CurrentIsPenalty DEF PenalisedOK, Creating
    <3>2. PICK p : p = Current
      OBVIOUS
    <3>3. job.pc = "status" => penalty'[p] # None /\ penalty'[p].linked
      BY <1>0, <3>1, <3>2, PenaltiesMove DEF PenaltyMoves, Linked
    <3>4. Current' = p
      BY <2>1, <3>2 DEF Current
    <3>. QED
      BY <2>1, <3>3, <3>4 DEF Linked
  <2>2. CASE Creates /\ job'.pc = "status"
    <3>1. LinkInvoice /\ job'.type = job.type /\ job'.invoice = job.invoice /\ job.pc \in Creating \ {"start"}
      BY <2>2 DEF Creates, LinkInvoice, Creating
    <3>2. PICK p : p = Current
      OBVIOUS
    <3>3. p \in Penalty /\ penalty[p] # None /\ penalty[p] \in PenaltyRow
      BY <1>0, <3>1, <3>2, CurrentIsPenalty DEF IInv, JobOwned, Typed, TypeOK
    <3>4. PICK r : r = [penalty[p] EXCEPT !.linked = TRUE]
      OBVIOUS
    <3>5. r \in PenaltyRow /\ r.linked
      BY <3>3, <3>4 DEF PenaltyRow
    <3>6. penalty'[p] = r
      BY <1>0, <3>1, <3>2, <3>3, <3>4 DEF LinkInvoice, IInv, Typed, TypeOK
    <3>7. Current' = p
      BY <3>1, <3>2 DEF Current
    <3>. QED
      BY <3>5, <3>6, <3>7, NoneAssumption DEF Linked
  <2>3. CASE Leaves \/ Takes \/ Looks \/ Marks \/ PutsBy \/ Decides \/ Ends \/ Retries
    BY <2>3 DEF Leaves, Takes, Looks, Marks, PutsBy, Decides, Ends, Retries, Holds
  <2>. QED
    BY <1>0, <2>1, <2>2, <2>3 DEF JobMoves
<1>2. ASSUME NEW o \in Obligation, IsMet(o)', decrease'[o] = "none"
      PROVE  (\A t \in Deserved(o)' : Penalised(o, t)') \/ Pending(o)'
  <2>1. CASE ~IsMet(o)
    BY <1>2, <2>1, MarkedPending
  <2>2. CASE IsMet(o)
    <3>1. decrease[o] = "none"
      BY <1>2, InvoicesMove DEF PaidInv, InvoiceMoves
    <3>2. (\A t \in Deserved(o) : Penalised(o, t)) \/ Pending(o)
      BY <1>0, <2>2, <3>1 DEF PenalisedOK
    <3>3. Deserved(o)' = Deserved(o) /\ Deserved(o) \subseteq PenaltyType
      BY <2>2, DeservedStays DEF Deserved
    <3>4. \A t \in PenaltyType : Penalised(o, t) => Penalised(o, t)'
      BY <1>0, PenalisedStays
    <3>5. CASE \A t \in Deserved(o) : Penalised(o, t)
      BY <3>3, <3>4, <3>5
    <3>6. CASE job.invoice = Own(o) /\ job.pc = "plan"
      <4>1. CASE job' = job
        BY <3>6, <4>1 DEF Pending
      <4>2. CASE Decides
        <5>1. job'.plan = PenaltiesDue(obligation[o], copy[Own(o)].last)
          BY <1>0, <3>6, <4>2, OwnIsInvoice DEF Decides, PlanPenalties, IInv, Typed, Job
        <5>2. Deserved(o) \subseteq job'.plan
          BY <3>6, <5>1, DeservedIsDue
        <5>3. job'.mode = "sync" /\ job'.pc = "create" /\ job'.invoice = job.invoice
          BY <4>2 DEF Decides, Holds
        <5>. QED
          BY <3>3, <3>6, <5>2, <5>3 DEF Pending
      <4>3. job.mode = "sync"
        BY <1>0, <3>6, OnlySyncCreates
      <4>. QED
        BY <1>0, <3>6, <4>1, <4>2, <4>3
           DEF JobMoves, Leaves, Takes, Looks, Marks, PutsBy, Creates, Ends, Retries, Holds, Creating
    <3>7. CASE /\ job.invoice = Own(o)
               /\ job.mode = "sync" /\ job.pc \in {"create"} \cup Creating
               /\ \A t \in Deserved(o) \ job.plan : Penalised(o, t)
      <4>1. CASE job' = job \/ Creates
        <5>1. /\ job'.invoice = Own(o) /\ job'.mode = "sync" /\ job'.pc \in {"create"} \cup Creating
              /\ job'.plan = job.plan
          BY <3>7, <4>1 DEF Creates
        <5>2. \A t \in Deserved(o)' \ job'.plan : Penalised(o, t)'
          BY <3>3, <3>4, <3>7, <5>1
        <5>. QED
          BY <5>1, <5>2 DEF Pending
      <4>2. CASE Ends
        <5>1. /\ job'.invoice = Own(o) /\ job'.mode = "sync" /\ job'.pc = "create"
              /\ job'.plan = job.plan \ {job.type}
          BY <3>7, <4>2 DEF Ends
        <5>2. PICK u : u = job.type
          OBVIOUS
        <5>3. u \in PenaltyType /\ Penalised(o, u)'
          BY <1>0, <3>7, <4>2, <5>2, EndsPenalised DEF PenalisedOK
        <5>4. \A t \in Deserved(o)' \ job'.plan : Penalised(o, t)'
          BY <3>3, <3>4, <3>7, <5>1, <5>2, <5>3
        <5>. QED
          BY <5>1, <5>4 DEF Pending
      <4>3. CASE PutsBy
        <5>1. job.plan = {}
          BY <3>7, <4>3 DEF PutsBy, Holds, Creating
        <5>. QED
          BY <3>3, <3>4, <3>7, <5>1
      <4>. QED
        BY <1>0, <3>7, <4>1, <4>2, <4>3
           DEF JobMoves, Leaves, Takes, Looks, Marks, Decides, Retries, Holds, Creating
    <3>. QED
      BY <3>2, <3>5, <3>6, <3>7 DEF Pending
  <2>. QED
    BY <2>1, <2>2
<1>. QED
  BY <1>1, <1>2

LateInv == PaidInv /\ PenalisedOK

LEMMA LateInvInit == Init => LateInv
<1>. SUFFICES ASSUME Init PROVE LateInv
  OBVIOUS
<1>1. job.pc = "idle" /\ \A o \in Obligation : obligation[o] = None
  BY IdleIsJob DEF Init
<1>2. PenalisedOK
  BY <1>1 DEF PenalisedOK, IsMet
<1>. QED
  BY <1>2, PaidInvInit DEF LateInv

LEMMA LateInvStep == LateInv /\ [Next]_vars => LateInv'
<1>. SUFFICES ASSUME LateInv, [Next]_vars PROVE LateInv'
  OBVIOUS
<1>1. PaidInv'
  BY PaidInvStep DEF LateInv
<1>2. CASE Next
  BY <1>1, <1>2, PenalisedOKStep DEF LateInv
<1>3. CASE UNCHANGED vars
  <2>1. ASSUME NEW o \in Obligation
        PROVE  Deserved(o)' = Deserved(o) /\ (IsMet(o)' <=> IsMet(o))
    BY <1>3 DEF vars, Deserved, IsMet
  <2>2. ASSUME NEW o \in Obligation, NEW t PROVE Penalised(o, t)' <=> Penalised(o, t)
    BY <1>3 DEF vars, Penalised, Linked
  <2>3. \A o \in Obligation : Pending(o)' <=> Pending(o)
    BY <1>3, <2>1, <2>2 DEF vars, Pending
  <2>4. Linked(Current)' <=> Linked(Current)
    BY <1>3 DEF vars, Linked, Current
  <2>. QED
    BY <1>1, <1>3, <2>1, <2>2, <2>3, <2>4 DEF vars, LateInv, PenalisedOK
<1>. QED
  BY <1>2, <1>3

LEMMA LateInvImplies == LateInv => LateIsPenalised
<1>. SUFFICES ASSUME LateInv, NEW o \in Obligation, Met(o), decrease[o] = "none", ~Working(o),
                     kills = 0, NEW t \in Deserved(o)
     PROVE  Linked(<<o, t>>) \/ queue[<<o, t>>] # None
  BY DEF LateIsPenalised
<1>1. ~Pending(o)
  BY DEF Pending, Working, Creating
<1>. QED
  BY <1>1 DEF LateInv, PenalisedOK, Penalised, Met, IsMet

\* Whatever eLicensing fails to do, an obligation that the sync has marked as met has
\* every penalty that is due for it, billed and linked, or recorded to be tried again.
THEOREM LateIsPenalisedHolds == Spec => []LateIsPenalised
<1>. QED
  BY LateInvInit, LateInvStep, LateInvImplies, PTL DEF Spec

-----------------------------------------------------------------------------
(* Nothing else is penalised *)

DeservedOK ==
  /\ \A p \in Penalty : penalty[p] # None => Kind(p) \in Deserved(Ob(p))
  /\ job.mode = "sync" /\ job.pc \in {"create"} \cup Creating => job.plan \subseteq Deserved(Ob(job.invoice))

LEMMA DeservedOKStep ==
  ASSUME NoEvening, PaidInv, DeservedOK, Next
  PROVE  DeservedOK'
<1>0. IInv /\ JobMoves
  BY JobDoesMove DEF PaidInv
<1>1. ASSUME NEW p \in Penalty, penalty'[p] # None PROVE Kind(p) \in Deserved(Ob(p))'
  <2>1. PICK o \in Obligation : o = Ob(p)
    BY PenaltyIsInvoice
  <2>2. Kind(p) \in Deserved(o) /\ IsMet(o)
    <3>1. CASE penalty[p] # None
      <4>1. Kind(p) \in Deserved(Ob(p)) /\ IsMet(Ob(p))
        BY <3>1 DEF DeservedOK, PaidInv, PaidOK
      <4>. QED
        BY <2>1, <4>1 DEF Deserved, IsMet
    <3>2. CASE penalty[p] = None
      <4>1. p = Current /\ job.mode = "sync" /\ job.pc \in Creating /\ job.type \in job.plan
        BY <1>0, <1>1, <3>2, PenaltiesMove DEF PenaltyMoves
      <4>2. Ob(p) = Ob(job.invoice) /\ Kind(p) = job.type
        BY <1>0, <4>1, CurrentIsPenalty DEF Current, Kind
      <4>3. job.plan \subseteq Deserved(Ob(job.invoice)) /\ IsMet(Ob(job.invoice))
        BY <1>0, <4>1 DEF DeservedOK, IInv, BilledWhenMet
      <4>. QED
        BY <2>1, <4>1, <4>2, <4>3 DEF Deserved, IsMet
    <3>. QED
      BY <3>1, <3>2
  <2>3. Kind(p) \in Deserved(o)'
    BY <2>2, DeservedStays
  <2>. QED
    BY <2>1, <2>3 DEF Deserved
<1>2. ASSUME job'.mode = "sync", job'.pc \in {"create"} \cup Creating
      PROVE  (job.plan \subseteq Deserved(Ob(job.invoice)))'
  <2>1. /\ job'.invoice = job.invoice /\ job.mode = "sync"
        /\ \/ job.pc \in {"create"} \cup Creating /\ job'.plan \subseteq job.plan
           \/ Decides
    BY <1>0, <1>2 DEF JobMoves, Leaves, Takes, Looks, Marks, PutsBy, Decides, Creates, Ends, Retries,
                      Holds, Creating
  <2>2. job.pc \in {"plan", "create"} \cup Creating
    BY <2>1 DEF Decides, Holds
  <2>3. PICK o \in Obligation : o = Ob(job.invoice) /\ job.invoice = Own(o)
    BY <1>0, <2>2, InHand DEF OnObligation
  <2>4. IsMet(o)
    BY <1>0, <2>1, <2>2, <2>3 DEF IInv, BilledWhenMet, IsMet
  <2>5. job'.plan \subseteq Deserved(o)
    <3>1. CASE Decides
      <4>1. job.pc = "plan" /\ job'.plan = PenaltiesDue(obligation[o], copy[Own(o)].last)
        BY <1>0, <2>3, <3>1 DEF Decides, PlanPenalties, Holds, IInv, Typed, Job
      <4>. QED
        BY <2>3, <4>1, DeservedIsDue
    <3>2. CASE job.pc \in {"create"} \cup Creating /\ job'.plan \subseteq job.plan
      <4>1. job.plan \subseteq Deserved(Ob(job.invoice))
        BY <2>1, <3>2 DEF DeservedOK
      <4>. QED
        BY <2>3, <3>2, <4>1 DEF Deserved
    <3>. QED
      BY <2>1, <3>1, <3>2
  <2>6. job'.plan \subseteq Deserved(o)'
    BY <2>4, <2>5, DeservedStays
  <2>. QED
    BY <2>1, <2>3, <2>6 DEF Deserved
<1>. QED
  BY <1>1, <1>2 DEF DeservedOK

DeservedInv == PaidInv /\ DeservedOK

LEMMA DeservedInvInit == Init => DeservedInv
<1>. SUFFICES ASSUME Init PROVE DeservedInv
  OBVIOUS
<1>1. job.pc = "idle" /\ \A p \in Penalty : penalty[p] = None
  BY IdleIsJob DEF Init
<1>2. DeservedOK
  BY <1>1 DEF DeservedOK, Creating
<1>. QED
  BY <1>2, PaidInvInit DEF DeservedInv

LEMMA DeservedInvStep == NoEvening /\ DeservedInv /\ [Next]_vars => DeservedInv'
<1>. SUFFICES ASSUME NoEvening, DeservedInv, [Next]_vars PROVE DeservedInv'
  OBVIOUS
<1>1. PaidInv'
  BY PaidInvStep DEF DeservedInv
<1>2. CASE Next
  BY <1>1, <1>2, DeservedOKStep DEF DeservedInv
<1>3. CASE UNCHANGED vars
  BY <1>1, <1>3 DEF vars, DeservedInv, DeservedOK, Deserved
<1>. QED
  BY <1>2, <1>3

LEMMA DeservedInvImplies == DeservedInv => PenaltyIsDeserved
<1>. SUFFICES ASSUME DeservedInv, NEW p \in Penalty, penalty[p] # None
     PROVE  bill[Own(Ob(p))].fee = 0 /\ Kind(p) \in Deserved(Ob(p))
  BY DEF PenaltyIsDeserved
<1>1. Ob(p) \in Obligation
  BY PenaltyIsInvoice
<1>2. PICK o \in Obligation : o = Ob(p)
  BY <1>1
<1>3. IsMet(o)
  BY <1>2 DEF DeservedInv, PaidInv, PaidOK, IsMet
<1>4. bill[Own(o)].fee = 0
  BY <1>3 DEF DeservedInv, PaidInv, FeeOK, PaidUp
<1>. QED
  BY <1>2, <1>4 DEF DeservedInv, DeservedOK

\* When no report is submitted at an hour that is already tomorrow in UTC, every penalty
\* is for an obligation that is paid, and that was submitted or paid late.
THEOREM PenaltyIsDeservedHolds == NoEvening => (Spec => []PenaltyIsDeserved)
<1>. SUFFICES ASSUME NoEvening PROVE Spec => []PenaltyIsDeserved
  OBVIOUS
<1>1. DeservedInv /\ [Next]_vars => DeservedInv'
  BY DeservedInvStep
<1>. QED
  BY DeservedInvInit, <1>1, DeservedInvImplies, PTL DEF Spec
=============================================================================
