------------------------ MODULE SupplementaryVersions ------------------------
(***************************************************************************)
(* What a submitted report does to its compliance report versions (CRVs),  *)
(* their obligations, invoices and earned credits: the handlers of         *)
(* bc_obps/compliance/service/supplementary_version_service, the on_commit *)
(* work they leave behind, and the billing, payments and credit decisions  *)
(* that happen between two submissions.                                    *)
(*                                                                         *)
(* One report is followed.  Its versions are numbered in order of          *)
(* submission; the CRV, obligation and earned-credit record of a version   *)
(* carry its number, and previous_version is the number before.  Only the  *)
(* sign and size of the compliance balance matter: net[v] > 0 is excess    *)
(* emissions, net[v] < 0 credited emissions, in 1/Scale of a tonne.  The   *)
(* charge rate is one dollar per unit (it is the same for every version of *)
(* a report), and invoices carry no FAA interest.  A submission runs in    *)
(* one database transaction; a submission that raises is rolled back.      *)
(***************************************************************************)
EXTENDS Integers, Sequences, FiniteSets, FiniteSetsExt

CONSTANTS
  MaxVersions,      \* bound: report versions submitted
  Balance,          \* compliance balances a version may report
  Scale,            \* units per tonne
  Interleaved,      \* may submissions and payments arrive while on_commit work runs?
  AdjustmentsFail,  \* may the eLicensing call that posts an adjustment fail?
  IntegrationFails, \* may the eLicensing calls that bill an obligation fail?
  WithUnits,        \* are compliance units applied?
  NoRow             \* the row does not exist

ASSUME BoundAssumption == MaxVersions \in Nat /\ Scale \in Nat \ {0}
ASSUME BalanceAssumption == Balance \subseteq Int
ASSUME ScenarioAssumption ==
  {Interleaved, AdjustmentsFail, IntegrationFails, WithUnits} \subseteq BOOLEAN

VARIABLES
  net,         \* the balances reported so far
  status,      \* version -> status of its CRV, NoRow if there is none
  obligation,  \* version -> obligation row with its invoice, or NoRow
  credit,      \* version -> earned-credit row, or NoRow
  manual,      \* versions with a manual-handling record
  deferred,    \* version -> on_commit work of its DecreasedObligationHandler
  queued,      \* adjustments waiting in the retry queue
  billing,     \* version -> where process_obligation_integration stands
  invoiced,    \* external: versions that have an invoice in eLicensing
  dateReached, \* is the invoice generation date past?
  early        \* history: was a decrease planned while AllBilled did not hold?

vars == <<net, status, obligation, credit, manual, deferred, queued, billing,
          invoiced, dateReached, early>>

Versions == 1..MaxVersions

ComplianceStatus ==
  {"obligation_not_met", "pending_invoice", "obligation_met", "earned_credits",
   "no_obligation_or_credits", "manual_handling", "superceded"}

IssuanceStatus == {"not_issued", "requested", "changes_required", "approved", "declined"}

Open == {"not_issued", "requested", "changes_required"}

\* invoice: none, its number is known, or its local record is linked
Obligation == [fee : Nat, invoice : {"none", "number", "linked"}, void : BOOLEAN,
               paid : Nat, units : Nat, supp : Nat, tag : 0..MaxVersions]

EarnedCredit == [amount : Nat, status : IssuanceStatus]

\* AdjustmentStrategy: what is still to adjust, the amounts, what becomes of
\* each invoice, and the single outcome for the new version
Strategy == [todo : SUBSET Versions, amount : [Versions -> Nat], met : SUBSET Versions,
             void : SUBSET Versions, manual : BOOLEAN, earned : BOOLEAN]

Adjustment == [target : Versions, amount : Nat, supp : Versions]

Job == [pc : {"idle", "bill", "sync"}, fee : Nat]

ASSUME NoRowAssumption ==
  NoRow \notin ComplianceStatus \cup Obligation \cup EarnedCredit \cup Strategy

NewObligation(fee) == [fee |-> fee, invoice |-> "none", void |-> FALSE, paid |-> 0,
                       units |-> 0, supp |-> 0, tag |-> 0]
JobAt(pc, fee) == [pc |-> pc, fee |-> fee]

-----------------------------------------------------------------------------
(* Reading the tables *)

Excess(b) == IF b > 0 THEN b ELSE 0
Credited(b) == IF b < 0 THEN -b ELSE 0

\* int() of a Decimal: truncation towards zero
Int0(x) == IF x >= 0 THEN x \div Scale ELSE -((-x) \div Scale)

Rows(table) == {v \in Versions : table[v] # NoRow}

Outstanding(v) ==
  obligation[v].fee - obligation[v].paid - obligation[v].units - obligation[v].supp

Unpaid == {v \in Rows(obligation) : /\ obligation[v].invoice = "linked"
                                    /\ ~obligation[v].void
                                    /\ Outstanding(v) > 0}

New == Len(net) + 1
Prev == Len(net)

\* amount or int(credited_emissions) in create_earned_credits_record
CreditAmount(amount, b) == IF amount # 0 THEN amount ELSE Int0(Credited(b))

NewCredit(amount, b) == [amount |-> CreditAmount(amount, b), status |-> "not_issued"]

\* handle_obligation_integration, before the date: the CRV waits for its invoice
ObligationStatus == IF dateReached THEN "obligation_not_met" ELSE "pending_invoice"

-----------------------------------------------------------------------------
(* Choosing the handler *)

OthersSuperceded ==
  \A v \in Rows(status) \ {Prev} : status[v] = "superceded"

ObligationHasNoInvoice == /\ status[Prev] = "pending_invoice"
                          /\ obligation[Prev].invoice # "linked"

\* Mutant: every credit record that is still open may be dropped
EarnedCreditsNotIssued_Open == credit[Prev].status \in Open \cup {"approved"}

EarnedCreditsNotIssued == credit[Prev].status = "not_issued"

\* Nothing binding happened to the previous version
CanSupercede == /\ OthersSuperceded
                /\ \/ net[Prev] > 0 /\ ObligationHasNoInvoice
                   \/ Credited(net[Prev]) >= Scale /\ EarnedCreditsNotIssued

CanHandle(h, b) ==
  \/ h = "manual" /\ Prev \in manual
  \/ h = "supercede" /\ CanSupercede
  \/ h = "increased_obligation" /\ Excess(net[Prev]) < Excess(b)
  \/ h = "decreased_obligation" /\ Excess(b) < Excess(net[Prev])
  \/ h = "no_change" /\ b = net[Prev]
  \/ /\ h = "increased_credit"
     /\ credit[Prev] # NoRow /\ Scale <= Credited(net[Prev])
     /\ Credited(net[Prev]) < Credited(b)
  \/ /\ h = "decreased_credit"
     /\ credit[Prev] # NoRow /\ Scale <= Credited(net[Prev])
     /\ Credited(b) < Credited(net[Prev])
  \/ /\ h = "new_earned_credits"
     /\ credit[Prev] = NoRow /\ Credited(net[Prev]) < Scale
     /\ Credited(b) >= Scale

\* Mutant: the list has no handler for a version without change
Handlers_NoChangeMissing ==
  <<"manual", "supercede", "increased_obligation", "decreased_obligation",
    "increased_credit", "decreased_credit", "new_earned_credits">>

Handlers == <<"manual", "supercede", "increased_obligation", "decreased_obligation",
              "no_change", "increased_credit", "decreased_credit", "new_earned_credits">>

\* The first handler of the list that can handle the change
Chosen(h, b) ==
  \E i \in DOMAIN Handlers : /\ Handlers[i] = h
                             /\ CanHandle(h, b)
                             /\ \A j \in 1..(i - 1) : ~CanHandle(Handlers[j], b)

\* Billed by the request that created it, once that request has committed
AwaitsBilling(v) == /\ obligation[v] # NoRow
                    /\ obligation[v].invoice = "none"
                    /\ status[v] # "pending_invoice"

\* No on_commit work is left and no billing is in progress
Quiet == \A v \in Versions :
           deferred[v] = NoRow /\ billing[v].pc = "idle" /\ ~AwaitsBilling(v)

Submit(b) == /\ Prev < MaxVersions
             /\ Interleaved \/ Quiet
             /\ net' = Append(net, b)

\* The first version of the report is in; its CRV is there to be looked up
Supplementary(h, b) == /\ Prev > 0
                       /\ status[Prev] # NoRow
                       /\ Submit(b)
                       /\ Chosen(h, b)

Unbilled == UNCHANGED <<queued, billing, invoiced, dateReached>>

-----------------------------------------------------------------------------
(* The handlers *)

\* create_compliance_report_version, when the report has no CRV yet
InitialVersion(b) ==
  /\ Prev = 0
  /\ Submit(b)
  /\ \/ /\ b > 0
        /\ status' = [status EXCEPT ![New] = ObligationStatus]
        /\ obligation' = [obligation EXCEPT ![New] = NewObligation(b)]
        /\ UNCHANGED credit
     \/ /\ Int0(Credited(b)) >= 1
        /\ status' = [status EXCEPT ![New] = "earned_credits"]
        /\ credit' = [credit EXCEPT ![New] = NewCredit(0, b)]
        /\ UNCHANGED obligation
     \/ /\ b <= 0 /\ Int0(Credited(b)) < 1
        /\ status' = [status EXCEPT ![New] = "no_obligation_or_credits"]
        /\ UNCHANGED <<obligation, credit>>
  /\ Unbilled /\ UNCHANGED <<manual, deferred, early>>

\* Mutant: the new CRV gets no manual-handling record
Manual_Unflagged(b) ==
  /\ Supplementary("manual", b)
  /\ status' = [status EXCEPT ![New] = "manual_handling"]
  /\ Unbilled /\ UNCHANGED <<obligation, credit, deferred, manual, early>>

Manual(b) ==
  /\ Supplementary("manual", b)
  /\ status' = [status EXCEPT ![New] = "manual_handling"]
  /\ manual' = manual \cup {New}
  /\ Unbilled /\ UNCHANGED <<obligation, credit, deferred, early>>

\* Mutant: the hanging rows are not deleted
Supercede_KeepsRows(b) ==
  /\ Supplementary("supercede", b)
  /\ status' = [status EXCEPT ![Prev] = "superceded", ![New] = "no_obligation_or_credits"]
  /\ Unbilled /\ UNCHANGED <<obligation, credit, manual, deferred, early>>

\* The previous CRV is superceded, its row deleted, and the new version gets
\* what an initial version would get
Supercede(b) ==
  /\ Supplementary("supercede", b)
  /\ status' = [status EXCEPT
       ![Prev] = "superceded",
       ![New] = IF b > 0 /\ ~dateReached THEN "pending_invoice"
                ELSE IF Credited(b) >= Scale THEN "earned_credits"
                ELSE "no_obligation_or_credits"]
  /\ obligation' = [obligation EXCEPT
       ![Prev] = IF net[Prev] > 0 THEN NoRow ELSE @,
       ![New] = IF b > 0 THEN NewObligation(b) ELSE NoRow]
  /\ credit' = [credit EXCEPT
       ![Prev] = IF Credited(net[Prev]) >= Scale THEN NoRow ELSE @,
       ![New] = IF Credited(b) >= Scale THEN NewCredit(0, b) ELSE NoRow]
  /\ Unbilled /\ UNCHANGED <<manual, deferred, early>>

\* Mutant: the delta is taken the wrong way round
IncreasedObligation_Reversed(b) ==
  /\ Supplementary("increased_obligation", b)
  /\ status' = [status EXCEPT ![New] = ObligationStatus]
  /\ obligation' = [obligation EXCEPT ![New] = NewObligation(Excess(net[Prev]) - b)]
  /\ Unbilled /\ UNCHANGED <<credit, manual, deferred, early>>

IncreasedObligation(b) ==
  /\ Supplementary("increased_obligation", b)
  /\ status' = [status EXCEPT ![New] = ObligationStatus]
  /\ obligation' = [obligation EXCEPT ![New] = NewObligation(b - Excess(net[Prev]))]
  /\ Unbilled /\ UNCHANGED <<credit, manual, deferred, early>>

NoChange(b) ==
  /\ Supplementary("no_change", b)
  /\ status' = [status EXCEPT ![New] = "no_obligation_or_credits"]
  /\ Unbilled /\ UNCHANGED <<obligation, credit, manual, deferred, early>>

\* Mutant: the delta is taken the wrong way round
CreditDelta_Reversed(b) == Int0(Credited(net[Prev]) - Credited(b))

CreditDelta(b) == Int0(Credited(b) - Credited(net[Prev]))

\* The delta goes to the previous record, which nobody has requested yet; a
\* negative amount is refused by the column's check and the submission fails
AmendPrevious(b) ==
  /\ credit[Prev].status = "not_issued"
  /\ credit[Prev].amount + CreditDelta(b) >= 0
  /\ status' = [status EXCEPT ![New] = "no_obligation_or_credits"]
  /\ credit' = [credit EXCEPT ![Prev].amount = @ + CreditDelta(b)]
  /\ UNCHANGED manual

\* The previous request is declined, and a new record is opened
ReplacePrevious(b) ==
  /\ status' = [status EXCEPT ![New] = "earned_credits"]
  /\ credit' = [credit EXCEPT ![New] = NewCredit(0, b),
                              ![Prev] = [@ EXCEPT !.status = "declined"]]
  /\ UNCHANGED manual

IncreasedCredit(b) ==
  /\ Supplementary("increased_credit", b)
  /\ \/ AmendPrevious(b)
     \/ /\ credit[Prev].status = "approved"
        /\ status' = [status EXCEPT ![New] = "earned_credits"]
        /\ credit' = [credit EXCEPT ![New] = NewCredit(CreditDelta(b), b)]
        /\ UNCHANGED manual
     \/ /\ credit[Prev].status \in {"declined", "requested", "changes_required"}
        /\ ReplacePrevious(b)
  /\ Unbilled /\ UNCHANGED <<obligation, deferred, early>>

DecreasedCredit(b) ==
  /\ Supplementary("decreased_credit", b)
  /\ \/ /\ credit[Prev].status = "approved"
        /\ status' = [status EXCEPT ![New] = "earned_credits"]
        /\ manual' = manual \cup {New}
        /\ UNCHANGED credit
     \/ AmendPrevious(b)
     \/ /\ credit[Prev].status \in {"declined", "requested", "changes_required"}
        /\ ReplacePrevious(b)
  /\ Unbilled /\ UNCHANGED <<obligation, deferred, early>>

NewEarnedCredits(b) ==
  /\ Supplementary("new_earned_credits", b)
  /\ status' = [status EXCEPT ![New] = "earned_credits"]
  /\ credit' = [credit EXCEPT ![New] = NewCredit(0, b)]
  /\ Unbilled /\ UNCHANGED <<obligation, manual, deferred, early>>

\* No handler: the report version is submitted, but gets no CRV
NoHandler(b) ==
  /\ Prev > 0 /\ status[Prev] # NoRow
  /\ Submit(b)
  /\ \A i \in DOMAIN Handlers : ~CanHandle(Handlers[i], b)
  /\ Unbilled /\ UNCHANGED <<status, obligation, credit, manual, deferred, early>>

-----------------------------------------------------------------------------
(* DecreasedObligationHandler: the plan, made inside the transaction *)

\* The newest unpaid CRV of the chain, and every unpaid one before it
Listed == Unpaid \cap 1..Prev
Anchor == Max(Listed)

\* Mutant: adjustments made since the anchor are given a second time
RefundPool_Repeated(b) ==
  IF Listed = {} THEN Excess(net[Prev]) - Excess(b)
  ELSE Max({0, Excess(net[Anchor]) - Excess(b)})

AlreadyApplied ==
  MapThenSumSet(LAMBDA v : obligation[v].supp, {v \in Listed : obligation[v].tag >= Anchor})

\* The decrease since the anchor, less what was already adjusted since then
RefundPool(b) ==
  IF Listed = {} THEN Excess(net[Prev]) - Excess(b)
  ELSE Max({0, Max({0, Excess(net[Anchor]) - Excess(b)}) - AlreadyApplied})

\* The pool after the invoices of versions v and newer
PoolAfter(b) ==
  LET left[v \in 1..New] ==
        IF v = New THEN RefundPool(b)
        ELSE IF v \in Listed THEN left[v + 1] - Min({left[v + 1], Outstanding(v)})
        ELSE left[v + 1]
  IN left

\* Cash on the previous CRV's invoice or, when it has none, on the nearest
\* older invoice that is not void; the walk stops at a CRV without invoice
PriorInvoice ==
  LET linked == {v \in Rows(obligation) : obligation[v].invoice = "linked"}
      walk == {v \in linked \cap 1..(Prev - 1) :
                 /\ ~obligation[v].void
                 /\ \A u \in (v + 1)..(Prev - 1) : u \in linked /\ obligation[u].void}
  IN IF Prev \in linked THEN {Prev} ELSE walk

HasCash(fully, pool, b) ==
  /\ fully /\ (pool > 0 \/ b < 0)
  /\ \E v \in IF Listed = {} THEN PriorInvoice ELSE Listed : obligation[v].paid > 0

\* The units applied exceed half of what the decrease leaves of the fee
OverCap(v, pending) ==
  2 * obligation[v].units > obligation[v].fee - obligation[v].supp - pending

\* _build_adjustment_strategy
Plan(b) ==
  LET pool == PoolAfter(b)
      applied == [v \in Versions |-> IF v \in Listed THEN pool[v + 1] - pool[v] ELSE 0]
      met == {v \in Listed : applied[v] = Outstanding(v)}
      void == {v \in met : obligation[v].paid = 0}
      cash == HasCash(met = Listed, pool[1], b)
      earned == met = Listed /\ ~cash /\ b < 0
      over == \E v \in Listed : OverCap(v, IF v \in void THEN 0 ELSE applied[v])
  IN [todo |-> {v \in Listed : applied[v] > 0}, amount |-> applied, met |-> met,
      void |-> void, earned |-> earned, manual |-> cash \/ (~earned /\ over)]

\* For early: every obligation of the report has its invoice in the local
\* tables, and no adjustment waits in the retry queue
AllBilled == /\ \A v \in Rows(obligation) : obligation[v].invoice = "linked"
             /\ queued = {}

DecreasedObligation(b) ==
  /\ Supplementary("decreased_obligation", b)
  /\ status' = [status EXCEPT ![New] = "no_obligation_or_credits"]
  /\ deferred' = [deferred EXCEPT ![New] = Plan(b)]
  /\ early' = (early \/ ~AllBilled)
  /\ Unbilled /\ UNCHANGED <<obligation, credit, manual>>

(* ... and carried out after the commit, newest invoice first *)

Target(s) == Max(deferred[s].todo)

Settle(s, v) ==
  /\ deferred' = [deferred EXCEPT ![s].todo = @ \ {v}]
  /\ status' = IF v \in deferred[s].met
               THEN [status EXCEPT ![v] = "obligation_met"] ELSE status
  /\ UNCHANGED <<net, credit, manual, billing, invoiced, dateReached, early>>

\* The refresh after an adjustment tags every adjustment of the fee
Post(o, amount, supp, void) ==
  [o EXCEPT !.supp = @ + amount, !.tag = supp, !.void = @ \/ void]

\* create_adjustment looks up the obligation and its invoice
HasInvoice(v) == obligation[v] # NoRow /\ obligation[v].invoice = "linked"

AdjustInvoice(s) ==
  /\ deferred[s] # NoRow /\ deferred[s].todo # {}
  /\ LET v == Target(s)
     IN /\ HasInvoice(v)
        /\ obligation' = [obligation EXCEPT
             ![v] = Post(@, deferred[s].amount[v], s, v \in deferred[s].void)]
        /\ Settle(s, v)
  /\ UNCHANGED queued

\* execute() swallows the error and queues the call; the version is marked
\* met and its invoice void all the same
QueueAdjustment(s) ==
  /\ AdjustmentsFail
  /\ deferred[s] # NoRow /\ deferred[s].todo # {}
  /\ LET v == Target(s)
     IN /\ HasInvoice(v)
        /\ queued' = queued \cup
             {[target |-> v, amount |-> deferred[s].amount[v], supp |-> s]}
        /\ obligation' = [obligation EXCEPT
             ![v].void = @ \/ v \in deferred[s].void]
        /\ Settle(s, v)

RetryAdjustment(a) ==
  /\ a \in queued
  /\ HasInvoice(a.target)
  /\ queued' = queued \ {a}
  /\ obligation' = [obligation EXCEPT ![a.target] = Post(@, a.amount, a.supp, FALSE)]
  /\ UNCHANGED <<net, status, credit, manual, deferred, billing, invoiced, dateReached, early>>

\* The single outcome: manual handling, earned credits, or nothing
Outcome(s) ==
  \/ /\ deferred[s].manual
     /\ manual' = manual \cup {s}
     /\ status' = [status EXCEPT ![s] = "manual_handling"]
     /\ UNCHANGED credit
  \/ /\ ~deferred[s].manual /\ deferred[s].earned
     /\ credit' = [credit EXCEPT ![s] = NewCredit(0, net[s])]
     /\ status' = [status EXCEPT ![s] = "earned_credits"]
     /\ UNCHANGED manual
  \/ /\ ~deferred[s].manual /\ ~deferred[s].earned
     /\ UNCHANGED <<credit, status, manual>>

FinishAdjustment(s) ==
  /\ deferred[s] # NoRow /\ deferred[s].todo = {}
  /\ Outcome(s)
  /\ deferred' = [deferred EXCEPT ![s] = NoRow]
  /\ UNCHANGED <<net, obligation, queued, billing, invoiced, dateReached, early>>

-----------------------------------------------------------------------------
(* Between submissions *)

ReachInvoiceDate ==
  /\ ~dateReached
  /\ dateReached' = TRUE
  /\ UNCHANGED <<net, status, obligation, credit, manual, deferred, queued, billing,
                 invoiced, early>>

\* process_obligation_integration, from on_commit, a retry or the scheduler;
\* it works on the rows it read at the start
StartBilling(v) ==
  /\ dateReached
  /\ billing[v].pc = "idle"
  /\ obligation[v] # NoRow /\ obligation[v].invoice # "linked"
  /\ billing' = [billing EXCEPT
       ![v] = JobAt(IF obligation[v].invoice = "none" THEN "bill" ELSE "sync", obligation[v].fee)]
  /\ UNCHANGED <<net, status, obligation, credit, manual, deferred, queued, invoiced,
                 dateReached, early>>

\* obligation.save(): an update or, when the row is gone, an insert
SavedObligation(v, invoice) ==
  [obligation EXCEPT ![v] = [NewObligation(billing[v].fee) EXCEPT !.invoice = invoice]]

CreateInvoice(v) ==
  /\ billing[v].pc = "bill"
  /\ invoiced' = invoiced \cup {v}
  /\ obligation' = SavedObligation(v, "number")
  /\ billing' = [billing EXCEPT ![v] = JobAt("sync", billing[v].fee)]
  /\ UNCHANGED <<net, status, credit, manual, deferred, queued, dateReached, early>>

LinkInvoice(v) ==
  /\ billing[v].pc = "sync"
  /\ obligation' = SavedObligation(v, "linked")
  /\ status' = [status EXCEPT ![v] = "obligation_not_met"]
  /\ billing' = [billing EXCEPT ![v] = JobAt("idle", 0)]
  /\ UNCHANGED <<net, credit, manual, deferred, queued, invoiced, dateReached, early>>

BillingFails(v) ==
  /\ IntegrationFails
  /\ billing[v].pc # "idle"
  /\ status' = [status EXCEPT ![v] = "pending_invoice"]
  /\ billing' = [billing EXCEPT ![v] = JobAt("idle", 0)]
  /\ UNCHANGED <<net, obligation, credit, manual, deferred, queued, invoiced, dateReached,
                 early>>

\* External: a payment on the invoice
Pay(v) ==
  /\ Interleaved \/ Quiet
  /\ v \in Unpaid
  /\ \E amount \in 1..Outstanding(v) :
       obligation' = [obligation EXCEPT ![v].paid = @ + amount]
  /\ UNCHANGED <<net, status, credit, manual, deferred, queued, billing, invoiced,
                 dateReached, early>>

\* apply_compliance_units, up to half of what is left of the fee
ApplyUnits(v) ==
  /\ WithUnits
  /\ Interleaved \/ Quiet
  /\ v \in Unpaid
  /\ \E amount \in 1..obligation[v].fee :
       /\ 2 * (obligation[v].units + amount) <= obligation[v].fee - obligation[v].supp
       /\ obligation' = [obligation EXCEPT ![v].units = @ + amount]
  /\ UNCHANGED <<net, status, credit, manual, deferred, queued, billing, invoiced,
                 dateReached, early>>

\* ComplianceEarnedCreditsService.update_earned_credit, taken as one step
Decide(v, from, to) ==
  /\ credit[v] # NoRow
  /\ credit[v].status \in from
  /\ credit' = [credit EXCEPT ![v] = [@ EXCEPT !.status = to]]
  /\ UNCHANGED <<net, status, obligation, manual, deferred, queued, billing, invoiced,
                 dateReached, early>>

Request(v) == Decide(v, {"not_issued", "changes_required"}, "requested")
Review(v) == Decide(v, {"requested"}, "changes_required")
Approve(v) == Decide(v, {"requested"}, "approved")
Decline(v) == Decide(v, {"requested", "changes_required"}, "declined")

-----------------------------------------------------------------------------
Init ==
  /\ net = <<>>
  /\ status = [v \in Versions |-> NoRow]
  /\ obligation = [v \in Versions |-> NoRow]
  /\ credit = [v \in Versions |-> NoRow]
  /\ manual = {}
  /\ deferred = [v \in Versions |-> NoRow]
  /\ queued = {}
  /\ billing = [v \in Versions |-> JobAt("idle", 0)]
  /\ invoiced = {}
  /\ dateReached \in BOOLEAN
  /\ early = FALSE

Submission(b) ==
  \/ InitialVersion(b) \/ Manual(b) \/ Supercede(b) \/ IncreasedObligation(b)
  \/ DecreasedObligation(b) \/ NoChange(b) \/ IncreasedCredit(b)
  \/ DecreasedCredit(b) \/ NewEarnedCredits(b) \/ NoHandler(b)

AfterCommit(v) ==
  \/ AdjustInvoice(v) \/ QueueAdjustment(v) \/ FinishAdjustment(v)
  \/ StartBilling(v) \/ CreateInvoice(v) \/ LinkInvoice(v) \/ BillingFails(v)

BetweenSubmissions(v) ==
  \/ Pay(v) \/ ApplyUnits(v)
  \/ Request(v) \/ Review(v) \/ Approve(v) \/ Decline(v)

Next ==
  \/ \E b \in Balance : Submission(b)
  \/ \E v \in Versions : AfterCommit(v) \/ BetweenSubmissions(v)
  \/ \E a \in queued : RetryAdjustment(a)
  \/ ReachInvoiceDate

Spec == Init /\ [][Next]_vars

-----------------------------------------------------------------------------
(* Properties *)

TypeOK ==
  /\ net \in Seq(Balance) /\ Len(net) <= MaxVersions
  /\ status \in [Versions -> ComplianceStatus \cup {NoRow}]
  /\ obligation \in [Versions -> Obligation \cup {NoRow}]
  /\ credit \in [Versions -> EarnedCredit \cup {NoRow}]
  /\ manual \in SUBSET Versions
  /\ deferred \in [Versions -> Strategy \cup {NoRow}]
  /\ queued \in SUBSET Adjustment
  /\ billing \in [Versions -> Job]
  /\ invoiced \in SUBSET Versions
  /\ dateReached \in BOOLEAN
  /\ early \in BOOLEAN

Last == net[Len(net)]

\* Nothing of the last submission is still on its way, and nobody was asked to
\* settle the report by hand
Settled == /\ net # <<>> /\ Quiet /\ queued = {} /\ manual = {}
           /\ status[Len(net)] # NoRow

Billed == MapThenSumSet(LAMBDA v : obligation[v].fee - obligation[v].supp, Rows(obligation))

CreditsIn(states) ==
  MapThenSumSet(LAMBDA v : credit[v].amount,
                {v \in Rows(credit) : credit[v].status \in states})

\* A superceded CRV is hidden from every view, so nothing may hang on it: it
\* has no obligation and no credits, and every CRV before it is superceded
SupercededIsEmpty ==
  \A v \in Versions : status[v] = "superceded" =>
    /\ obligation[v] = NoRow /\ credit[v] = NoRow
    /\ \A u \in 1..v : status[u] = "superceded"

\* The obligations of a report bill the excess emissions of its last version
BilledInFull == Settled => Billed >= Excess(Last)

\* Through increases, decreases and supercessions, with payments, units and
\* calls that fail and are repeated, a report is billed for no less than its
\* last version, provided that each decrease was planned when every obligation
\* had its invoice and no adjustment was queued.  A decrease planned earlier
\* passes over what it does not see, and may leave too little billed.
NeverUnderBilled == ~early => BilledInFull

\* Once a CRV is flagged for manual handling, every later one is
ManualIsSticky ==
  \A v \in manual : \A w \in v..Len(net) : status[w] # NoRow => w \in manual

\* Approved credits have been issued in the registry: no later submission
\* changes or deletes their record
ApprovedIsFinal ==
  [][\A v \in Rows(credit) : credit[v].status = "approved" => credit'[v] = credit[v]]_vars

\* The credits that can still be approved are no more than the last version earned
OpenIsEarned == Settled => CreditsIn(Open) <= Int0(Credited(Last))

\* A CRV marked as met by an adjustment has nothing left to pay
MetIsSettled ==
  \A v \in Rows(obligation) : status[v] = "obligation_met" => Outstanding(v) <= 0

\* The CRV of every submitted version exists, or the next submission fails
EveryVersionHasItsCRV == \A v \in 1..Len(net) : status[v] # NoRow

=============================================================================
