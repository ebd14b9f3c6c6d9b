------------------------- MODULE ApplyComplianceUnits -------------------------
(***************************************************************************)
(* Compliance units applied to one invoiced obligation                     *)
(* (compliance/service/bc_carbon_registry/apply_compliance_units_service). *)
(*                                                                         *)
(* A request validates the value of the units against the local copy of    *)
(* the invoice, transfers them in the carbon registry and then adjusts the *)
(* fee in eLicensing; a failed adjustment goes to the retry queue.  A      *)
(* supplementary report that lowers the obligation adjusts the same fee    *)
(* and lowers the cap.  The copy is refreshed by whoever finds it older    *)
(* than 15 minutes, after every adjustment, and by the nightly sync.       *)
(*                                                                         *)
(* Amounts are whole dollars.  The obligation stays with its version; the  *)
(* chains of versions are in SupplementaryVersions.                        *)
(***************************************************************************)
EXTENDS Integers, FiniteSets, RetryRow

CONSTANTS
  Request,      \* requests to apply units
  Report,       \* the submission of a supplementary report
  Worker,       \* the run_tasks process
  Value,        \* total_equivalent_value of a request
  Decrease,     \* what the report takes off the obligation
  Payment,      \* amounts paid in cash
  Fee,          \* fee_amount_dollars
  Usage,        \* max_credit_usage_percentage
  MaxFailures,  \* bound: calls that fail
  MaxCrashes    \* bound: processes that die

ASSUME AmountsAssumption ==
  Value \cup Decrease \cup Payment \subseteq Nat \ {0} /\ Fee \in Nat /\ Usage \in 0..100
ASSUME ProcessAssumption == Report \notin Request /\ Worker \notin Request \cup {Report}
ASSUME BoundsAssumption == MaxFailures \in Nat /\ MaxCrashes \in Nat

Process == Request \cup {Report, Worker}

\* The arguments of create_adjustment.  Two requests of the same value make
\* the same call: its row in the retry queue is found by its arguments.
Call == [reason : {"units"}, value : Value]
          \cup [reason : {"supplementary", "void"}, value : 1..Fee]
NoCall == [reason |-> "none", value |-> 0]

VARIABLES
  bill,         \* external: adjustments and payments eLicensing has for the fee
  copy,         \* the local copy of them
  fresh,        \* was the copy refreshed in the last 15 minutes?
  transferred,  \* external: value of the units in the compliance account
  task,         \* the row of each call in the retry queue
  proc,         \* what each process is doing
  flagged,      \* has the supplementary report a manual-handling record?
  failures,     \* calls that failed so far
  crashes,      \* processes that died so far
  unheard,      \* auxiliary: adjustments that eLicensing made without an answer
  merged,       \* auxiliary: was a failed call taken for one already recorded?
  dropped,      \* auxiliary: were units transferred whose adjustment nobody makes?
  blind         \* auxiliary: was a decision taken without seeing an earlier one?

vars == <<bill, copy, fresh, transferred, task, proc, flagged, failures, crashes,
          unheard, merged, dropped, blind>>

Amounts == [units : Nat, supplementary : Nat, void : Nat, paid : Nat]
NoAmounts == [units |-> 0, supplementary |-> 0, void |-> 0, paid |-> 0]

At(pc, c, over) == [pc |-> pc, call |-> c, over |-> over]
Idle == At("idle", NoCall, FALSE)
Finished == At("done", NoCall, FALSE)

Init ==
  /\ bill = NoAmounts
  /\ copy = NoAmounts
  /\ fresh = FALSE
  /\ transferred = 0
  /\ task = [c \in Call |-> NoTask]
  /\ proc = [p \in Process |-> Idle]
  /\ flagged = FALSE
  /\ failures = 0
  /\ crashes = 0
  /\ unheard = NoAmounts
  /\ merged = FALSE
  /\ dropped = FALSE
  /\ blind = FALSE

\* outstanding_balance of an invoice, without interest
Outstanding(b) == Fee - b.units - b.supplementary - b.void - b.paid

\* Mutant: adjustments of supplementary reports do not lower the cap
CapLimit_WholeFee(supplementary) == (Fee * Usage) \div 100

\* _calculate_apply_units_cap; an adjustment that voids the invoice is not
\* among those that lower the cap
CapLimit(supplementary) == ((Fee - supplementary) * Usage) \div 100

\* _compute_compliance_unit_caps
CapRemaining(b) ==
  IF CapLimit(b.supplementary) > b.units THEN CapLimit(b.supplementary) - b.units ELSE 0

\* can_apply_compliance_units and _validate_quantity_limits: the value is
\* compared with the cap, and not with the outstanding balance
MayApply(value) ==
  /\ CapLimit(copy.supplementary) > 0
  /\ CapRemaining(copy) > 0
  /\ Outstanding(copy) > 0
  /\ value <= CapRemaining(copy)

\* Does the copy c show p all that other processes have decided so far?
SeesAll(p, c) ==
  /\ c.units = bill.units /\ c.supplementary = bill.supplementary
  /\ bill.units = transferred + unheard.units
  /\ \A q \in Process \ {p} : proc[q].pc \in {"idle", "asking", "validating", "done"}
  /\ \A call \in Call : task[call].status = "none"

-----------------------------------------------------------------------------
(* Invoice refresh *)

Refreshed == copy' = bill /\ fresh' = TRUE

\* The nightly sync, or a page that finds the copy old
RefreshByOthers ==
  /\ Refreshed
  /\ UNCHANGED <<bill, transferred, task, proc, flagged, failures, crashes,
                 unheard, merged, dropped, blind>>

\* 15 minutes pass
Expire ==
  /\ fresh' = FALSE
  /\ UNCHANGED <<bill, copy, transferred, task, proc, flagged, failures, crashes,
                 unheard, merged, dropped, blind>>

Pay(v) ==
  /\ v <= Outstanding(bill)
  /\ bill' = [bill EXCEPT !.paid = bill.paid + v]
  /\ UNCHANGED <<copy, fresh, transferred, task, proc, flagged, failures, crashes,
                 unheard, merged, dropped, blind>>

-----------------------------------------------------------------------------
(* apply_compliance_units *)

Ask(r, v) ==
  /\ proc[r].pc = "idle"
  /\ proc' = [proc EXCEPT ![r] = At("asking", [reason |-> "units", value |-> v], FALSE)]
  /\ UNCHANGED <<bill, copy, fresh, transferred, task, flagged, failures, crashes,
                 unheard, merged, dropped, blind>>

\* A copy of the last 15 minutes is taken as it is
UseCopy(r) ==
  /\ proc[r].pc = "asking"
  /\ IF fresh THEN UNCHANGED <<copy, fresh>> ELSE Refreshed
  /\ proc' = [proc EXCEPT ![r].pc = "validating"]
  /\ UNCHANGED <<bill, transferred, task, flagged, failures, crashes,
                 unheard, merged, dropped, blind>>

\* The refresh fails, data_is_fresh is false and the request is refused
NotFresh(r) ==
  /\ proc[r].pc = "asking" /\ ~fresh
  /\ failures < MaxFailures
  /\ failures' = failures + 1
  /\ proc' = [proc EXCEPT ![r] = Finished]
  /\ UNCHANGED <<bill, copy, fresh, transferred, task, flagged, crashes,
                 unheard, merged, dropped, blind>>

Validate(r) ==
  /\ proc[r].pc = "validating" /\ MayApply(proc[r].call.value)
  /\ proc' = [proc EXCEPT ![r].pc = "transferring"]
  /\ blind' = (blind \/ ~SeesAll(r, copy))
  /\ UNCHANGED <<bill, copy, fresh, transferred, task, flagged, failures, crashes,
                 unheard, merged, dropped>>

Refuse(r) ==
  /\ proc[r].pc = "validating" /\ ~MayApply(proc[r].call.value)
  /\ proc' = [proc EXCEPT ![r] = Finished]
  /\ UNCHANGED <<bill, copy, fresh, transferred, task, flagged, failures, crashes,
                 unheard, merged, dropped, blind>>

Transfer(r) ==
  /\ proc[r].pc = "transferring"
  /\ transferred' = transferred + proc[r].call.value
  /\ proc' = [proc EXCEPT ![r].pc = "posting"]
  /\ UNCHANGED <<bill, copy, fresh, task, flagged, failures, crashes,
                 unheard, merged, dropped, blind>>

\* Mutant: response["success"] is not looked at
AfterRefusal_Unchecked(call) == At("posting", call, FALSE)

AfterRefusal(call) == Finished

\* The registry refuses, or cannot be reached
TransferFails(r) ==
  /\ proc[r].pc = "transferring"
  /\ failures < MaxFailures
  /\ failures' = failures + 1
  /\ proc' = [proc EXCEPT ![r] = AfterRefusal(proc[r].call)]
  /\ UNCHANGED <<bill, copy, fresh, transferred, task, flagged, crashes,
                 unheard, merged, dropped, blind>>

\* The units are transferred, the answer is lost: the request raises and
\* nothing remembers the adjustment.
TransferUnanswered(r) ==
  /\ proc[r].pc = "transferring"
  /\ failures < MaxFailures
  /\ failures' = failures + 1
  /\ transferred' = transferred + proc[r].call.value
  /\ dropped' = TRUE
  /\ proc' = [proc EXCEPT ![r] = Finished]
  /\ UNCHANGED <<bill, copy, fresh, task, flagged, crashes, unheard, merged, blind>>

-----------------------------------------------------------------------------
(* create_adjustment: called directly by a request or a report, or as a retry *)

\* Mutant: the sign of adjustment_total is lost
Adjusted_Charged(b, c) == [b EXCEPT ![c.reason] = b[c.reason] - c.value]

Adjusted(b, c) == [b EXCEPT ![c.reason] = b[c.reason] + c.value]

AdjustFee(p) ==
  /\ proc[p].pc = "posting"
  /\ bill' = Adjusted(bill, proc[p].call)
  /\ proc' = [proc EXCEPT ![p].pc = "refreshing"]
  /\ UNCHANGED <<copy, fresh, transferred, task, flagged, failures, crashes,
                 unheard, merged, dropped, blind>>

\* What a process does when create_adjustment is over
Return(p) ==
  proc' = [proc EXCEPT ![p] =
             CASE p \in Request -> Finished
               [] p = Report    -> [proc[p] EXCEPT !.pc = "flagging"]
               [] p = Worker    -> Idle]

\* The call raises: a direct one is recorded, an attempt is counted
Raises(p) ==
  LET c == proc[p].call IN
  /\ task' = [task EXCEPT ![c] = IF p = Worker THEN AttemptFailed(task[c])
                                               ELSE Recorded(task[c])]
  /\ merged' = (merged \/ (p # Worker /\ task[c].status # "none"))
  /\ Return(p)

AdjustFails(p) ==
  /\ proc[p].pc = "posting"
  /\ failures < MaxFailures
  /\ failures' = failures + 1
  /\ Raises(p)
  /\ UNCHANGED <<bill, copy, fresh, transferred, flagged, crashes,
                 unheard, dropped, blind>>

\* eLicensing adjusts the fee and the answer is lost: the retry adjusts again
AdjustUnanswered(p) ==
  /\ proc[p].pc = "posting"
  /\ failures < MaxFailures
  /\ failures' = failures + 1
  /\ bill' = Adjusted(bill, proc[p].call)
  /\ unheard' = Adjusted(unheard, proc[p].call)
  /\ Raises(p)
  /\ UNCHANGED <<copy, fresh, transferred, flagged, crashes, dropped, blind>>

Succeeds(p) ==
  /\ task' = IF p = Worker THEN [task EXCEPT ![proc[p].call] = NoTask] ELSE task
  /\ Return(p)

RefreshAfter(p) ==
  /\ proc[p].pc = "refreshing"
  /\ Refreshed
  /\ Succeeds(p)
  /\ UNCHANGED <<bill, transferred, flagged, failures, crashes,
                 unheard, merged, dropped, blind>>

\* The failure of the forced refresh is swallowed, and a copy that was fresh
\* before the adjustment stays fresh
RefreshAfterFails(p) ==
  /\ proc[p].pc = "refreshing"
  /\ failures < MaxFailures
  /\ failures' = failures + 1
  /\ Succeeds(p)
  /\ UNCHANGED <<bill, copy, fresh, transferred, flagged, crashes,
                 unheard, merged, dropped, blind>>

StartRetry(c) ==
  /\ proc[Worker].pc = "idle"
  /\ Due(task[c])
  /\ task' = [task EXCEPT ![c] = Started(task[c])]
  /\ proc' = [proc EXCEPT ![Worker] = At("posting", c, FALSE)]
  /\ UNCHANGED <<bill, copy, fresh, transferred, flagged, failures, crashes,
                 unheard, merged, dropped, blind>>

-----------------------------------------------------------------------------
(* DecreasedObligationHandler, for one report that lowers the obligation by d *)

\* Mutant: the decrease that is about to be posted is not counted
OverCap_Posted(b, pending) == CapLimit(b.supplementary) < b.units

\* is_credit_usage_over_cap with the decrease that is not yet posted
OverCap(b, pending) == CapLimit(b.supplementary + pending) < b.units

\* The plan of _build_adjustment_strategy for the invoice b.  The invoice is
\* voided when nothing was paid in cash and the rest of the pool covers it.
Plan(b, d) ==
  LET applied == IF d < Outstanding(b) THEN d ELSE Outstanding(b)
      met == applied = Outstanding(b)
      void == met /\ b.paid = 0
      cash == met /\ d > applied /\ b.paid > 0
  IN At("posting",
        [reason |-> IF void THEN "void" ELSE "supplementary", value |-> applied],
        cash \/ OverCap(b, IF void THEN 0 ELSE applied))

\* The invoice is an anchor if it was unpaid before and is after its refresh,
\* which is forced, and whose failure is swallowed; without an anchor only
\* cash that was paid is handled.
PlanDecrease(d) ==
  /\ proc[Report].pc = "idle"
  /\ \/ Refreshed /\ UNCHANGED failures
     \/ /\ failures < MaxFailures
        /\ failures' = failures + 1
        /\ UNCHANGED <<copy, fresh>>
  /\ proc' = [proc EXCEPT ![Report] =
                IF Outstanding(copy) > 0 /\ Outstanding(copy') > 0
                  THEN Plan(copy', d)
                  ELSE At("flagging", NoCall, copy'.paid > 0)]
  /\ blind' = (blind \/ ~SeesAll(Report, copy'))
  /\ UNCHANGED <<bill, transferred, task, flagged, crashes, unheard, merged, dropped>>

\* _record_manual_handling, after the adjustment was posted or queued
Flag ==
  /\ proc[Report].pc = "flagging"
  /\ flagged' = proc[Report].over
  /\ proc' = [proc EXCEPT ![Report] = Finished]
  /\ UNCHANGED <<bill, copy, fresh, transferred, task, failures, crashes,
                 unheard, merged, dropped, blind>>

-----------------------------------------------------------------------------
\* A process dies between transfer, adjustment and the record of either; the
\* row of a retry stays running.
Crash(p) ==
  /\ proc[p].pc \in {"posting", "refreshing", "flagging"}
  /\ crashes < MaxCrashes
  /\ crashes' = crashes + 1
  /\ dropped' = TRUE
  /\ proc' = [proc EXCEPT ![p] = IF p = Worker THEN Idle ELSE Finished]
  /\ UNCHANGED <<bill, copy, fresh, transferred, task, flagged, failures,
                 unheard, merged, blind>>

\* create_adjustment in process p
Adjustment(p) ==
  \/ AdjustFee(p) \/ AdjustFails(p) \/ AdjustUnanswered(p)
  \/ RefreshAfter(p) \/ RefreshAfterFails(p)

Advance(r) ==
  \/ UseCopy(r) \/ NotFresh(r) \/ Validate(r) \/ Refuse(r)
  \/ Transfer(r) \/ TransferFails(r) \/ TransferUnanswered(r)
  \/ Adjustment(r)

Work == Adjustment(Worker) \/ \E c \in Call : StartRetry(c)

Next ==
  \/ \E r \in Request : Advance(r) \/ \E v \in Value : Ask(r, v)
  \/ \E d \in Decrease : PlanDecrease(d)
  \/ Adjustment(Report) \/ Flag
  \/ Work
  \/ \E p \in Process : Crash(p)
  \/ RefreshByOthers \/ Expire
  \/ \E v \in Payment : Pay(v)

Spec == Init /\ [][Next]_vars

\* A request that has begun goes on, and the CronJob starts the worker again
\* and again; requests, reports, payments and refreshes are never forced.
Fairness ==
  /\ \A r \in Request : WF_vars(Advance(r))
  /\ WF_vars(Adjustment(Report) \/ Flag)
  /\ WF_vars(Work)

FairSpec == Spec /\ Fairness

-----------------------------------------------------------------------------
Steps == {"idle", "asking", "validating", "transferring", "posting", "refreshing",
          "flagging", "done"}

\* The shape of the state
TypeOK ==
  /\ bill \in Amounts
  /\ copy \in Amounts
  /\ fresh \in BOOLEAN
  /\ transferred \in Nat
  /\ task \in [Call -> TaskState]
  /\ proc \in [Process -> [pc : Steps, call : Call \cup {NoCall}, over : BOOLEAN]]
  /\ flagged \in BOOLEAN
  /\ failures \in 0..MaxFailures
  /\ crashes \in 0..MaxCrashes
  /\ unheard \in Amounts
  /\ {merged, dropped, blind} \subseteq BOOLEAN

\* The units in the compliance account stay within the share of the reduced
\* obligation that may be met with units, or the report that reduced it is
\* handled by hand, if nobody decided without seeing an earlier decision
\* (validation, cap and the check of a decrease against concurrent adjustments).
WithinCap ==
  \/ transferred * 100 <= (Fee - bill.supplementary) * Usage
  \/ flagged \/ proc[Report].pc \in {"refreshing", "flagging"}
  \/ blind \/ dropped \/ unheard # NoAmounts

\* What applying units promises
Ledger == INSTANCE UnitsLedger WITH credited <- bill.units - unheard.units

\* The invoice is credited only for units that were transferred, and once for
\* each transfer, but for adjustments eLicensing made without an answer
\* (apply_compliance_units with its retries).
CreditedAsTransferred == Ledger!Spec

\* Units that were transferred are credited in the end, unless the attempts of
\* an adjustment are used up, a failed adjustment was taken for another of the
\* same value, or nobody remembers the adjustment (retries, crashes).
TransferIsCredited ==
  (transferred > bill.units - unheard.units) ~>
    \/ transferred = bill.units - unheard.units
    \/ merged \/ dropped \/ \E c \in Call : Spent(task[c])
=============================================================================
