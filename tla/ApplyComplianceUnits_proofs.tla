---------------------- MODULE ApplyComplianceUnits_proofs ----------------------
(* The invariants of ApplyComplianceUnits, for any number of requests and any   *)
(* amounts: the units in the compliance account stay within the cap of the      *)
(* reduced obligation, or a report over the cap is handled by hand; and that it *)
(* implements UnitsLedger: no more is credited than was transferred.            *)
EXTENDS ApplyComplianceUnits, FiniteSetTheorems, TLAPS

Quiet == {"idle", "asking", "validating", "done"}

UnitsCall == {c \in Call : c.reason = "units"}
ReportCall == Call \ UnitsCall

\* TypeOK without what the processes are doing
Data ==
  /\ bill \in Amounts /\ copy \in Amounts /\ unheard \in Amounts
  /\ transferred \in Nat
  /\ task \in [Call -> TaskState]
  /\ failures \in 0..MaxFailures /\ crashes \in 0..MaxCrashes
  /\ fresh \in BOOLEAN /\ flagged \in BOOLEAN
  /\ merged \in BOOLEAN /\ dropped \in BOOLEAN /\ blind \in BOOLEAN

Stage == [pc : Steps, call : Call \cup {NoCall}, over : BOOLEAN]

\* What each process may be doing
Fits(p, x) ==
  /\ x \in Stage
  /\ p \in Request =>
       /\ x.pc \in Quiet \cup {"transferring", "posting", "refreshing"}
       /\ x.pc \notin {"idle", "done"} => x.call \in UnitsCall
  /\ p = Report =>
       /\ x.pc \in {"idle", "posting", "refreshing", "flagging", "done"}
       /\ x.pc \in {"posting", "refreshing"} => x.call \in ReportCall
  /\ p = Worker =>
       /\ x.pc \in {"idle", "posting", "refreshing"}
       /\ x.pc # "idle" => x.call \in Call

Stages == proc \in [Process -> Stage] /\ \A p \in Process : Fits(p, proc[p])

WorkerHasRow == proc[Worker].pc # "idle" => task[proc[Worker].call].status # "none"

Shape == Data /\ Stages /\ WorkerHasRow /\ (flagged => proc[Report].pc = "done")

\* An adjustment that the retry queue or the worker has still to make
Queued(c) ==
  task[c].status # "none" /\ (proc[Worker].pc = "refreshing" => proc[Worker].call # c)

\* Before the report is submitted nothing of it is anywhere.
NoReportYet ==
  proc[Report].pc = "idle" =>
    /\ ~proc[Report].over /\ bill.supplementary = 0
    /\ \A c \in ReportCall : task[c].status = "none"

\* Nobody but p is in the middle of anything.
Alone(p) ==
  /\ \A q \in Process \ {p} : proc[q].pc \in Quiet
  /\ \A c \in Call : task[c].status = "none"

Clean == ~blind /\ ~dropped /\ unheard = NoAmounts

\* The units that the rest of the obligation may be met with
Room(supplementary) == (Fee - supplementary) * Usage

\* Is, or will, the report be handled by hand?
ByHand == flagged \/ (proc[Report].over /\ proc[Report].pc # "done")

Covered ==
  \/ transferred * 100 <= Room(bill.supplementary)
  \/ ByHand /\ proc[Report].pc # "posting"

\* What a request that is about to transfer has validated
TransferFits ==
  \A r \in Request : proc[r].pc = "transferring" =>
    Alone(r) /\ (transferred + proc[r].call.value) * 100 <= Room(bill.supplementary)

\* What the report that is about to adjust has planned
PlanFits ==
  proc[Report].pc = "posting" =>
    /\ Alone(Report) /\ bill.supplementary = 0
    /\ proc[Report].call.reason = "supplementary" =>
         proc[Report].over \/ transferred * 100 <= Room(proc[Report].call.value)

\* What the adjustment of the report that is left to the worker will do
QueueFits ==
  \A c \in ReportCall : Queued(c) =>
    /\ proc[Report].pc \in {"flagging", "done"} /\ bill.supplementary = 0
    /\ c.reason = "supplementary" => ByHand \/ transferred * 100 <= Room(c.value)
    /\ \A d \in ReportCall : task[d].status # "none" => d = c

CapParts == NoReportYet /\ Covered /\ TransferFits /\ PlanFits /\ QueueFits

CapInv == Shape /\ (Clean => CapParts)

-----------------------------------------------------------------------------
(* Amounts and calls *)

LEMMA AdjustedAmounts ==
  ASSUME NEW b \in Amounts, NEW c \in Call
  PROVE  /\ Adjusted(b, c) \in Amounts
         /\ c.value \in Nat /\ c.value > 0
         /\ c.reason \in {"units", "supplementary", "void"}
         /\ Adjusted(b, c).paid = b.paid
         /\ Adjusted(b, c).units = IF c.reason = "units" THEN b.units + c.value ELSE b.units
         /\ Adjusted(b, c).supplementary =
              IF c.reason = "supplementary" THEN b.supplementary + c.value ELSE b.supplementary
         /\ Adjusted(b, c).void = IF c.reason = "void" THEN b.void + c.value ELSE b.void
<1>1. c.value \in Nat /\ c.value > 0 /\ c.reason \in {"units", "supplementary", "void"}
  BY AmountsAssumption DEF Call
<1>2. CASE c.reason = "units"
  <2>1. Adjusted(b, c) = [b EXCEPT !.units = b.units + c.value]
    BY <1>2 DEF Adjusted
  <2>. QED
    BY <1>1, <1>2, <2>1 DEF Amounts
<1>3. CASE c.reason = "supplementary"
  <2>1. Adjusted(b, c) = [b EXCEPT !.supplementary = b.supplementary + c.value]
    BY <1>3 DEF Adjusted
  <2>. QED
    BY <1>1, <1>3, <2>1 DEF Amounts
<1>4. CASE c.reason = "void"
  <2>1. Adjusted(b, c) = [b EXCEPT !.void = b.void + c.value]
    BY <1>4 DEF Adjusted
  <2>. QED
    BY <1>1, <1>4, <2>1 DEF Amounts
<1>. QED
  BY <1>1, <1>2, <1>3, <1>4

\* An adjustment without an answer leaves a trace.
LEMMA UnheardShows ==
  ASSUME NEW b \in Amounts, NEW c \in Call
  PROVE  Adjusted(b, c) # NoAmounts
<1>1. PICK a : a = Adjusted(b, c)
  OBVIOUS
<1>2. a.units + a.supplementary + a.void > 0
  BY <1>1, AdjustedAmounts DEF Amounts
<1>3. a = NoAmounts => a.units = 0 /\ a.supplementary = 0 /\ a.void = 0
  BY DEF NoAmounts
<1>. QED
  BY <1>1, <1>2, <1>3

\* A cap in whole dollars is no more than the share it is rounded down from.
LEMMA CapRoom ==
  ASSUME NEW s \in Nat, NEW u \in Nat
  PROVE  /\ CapLimit(s) \in Int
         /\ u <= CapLimit(s) => u * 100 <= Room(s)
         /\ Room(0) >= 0 /\ Room(s) \in Int
<1>1. Fee \in Nat /\ Usage \in Nat
  BY AmountsAssumption
<1>2. PICK x : x = (Fee - s) * Usage
  OBVIOUS
<1>3. x \in Int
  BY <1>1, <1>2
<1>4. x \div 100 \in Int /\ (u <= x \div 100 => u * 100 <= x)
  BY <1>3
<1>5. Fee * Usage >= 0 /\ (Fee - 0) * Usage = Fee * Usage
  BY <1>1
<1>. QED
  BY <1>2, <1>3, <1>4, <1>5 DEF CapLimit, Room

\* The rows of the retry queue
LEMMA TaskStates ==
  ASSUME NEW t \in TaskState
  PROVE  /\ NoTask \in TaskState /\ NoTask.status = "none"
         /\ Recorded(t) \in TaskState /\ Recorded(t).status # "none"
         /\ AttemptFailed(t) \in TaskState /\ AttemptFailed(t).status # "none"
         /\ Due(t) => Started(t) \in TaskState /\ Started(t).status # "none" /\ t.status # "none"
  BY MaxRetriesAssumption
  DEF TaskState, NoTask, Recorded, Started, AttemptFailed, CanRetry, Due

\* What the report plans
LEMMA PlanIsCall ==
  ASSUME NEW b \in Amounts, NEW d \in Decrease, Outstanding(b) > 0
  PROVE  /\ Plan(b, d).pc = "posting" /\ Plan(b, d).over \in BOOLEAN
         /\ Plan(b, d).call \in ReportCall
         /\ Plan(b, d).call.reason \in {"supplementary", "void"}
         /\ (~Plan(b, d).over /\ Plan(b, d).call.reason = "supplementary") =>
              b.units <= CapLimit(b.supplementary + Plan(b, d).call.value)
<1>1. d \in Nat /\ d > 0 /\ Fee \in Nat
  BY AmountsAssumption
<1>2. b.units \in Nat /\ b.supplementary \in Nat /\ b.void \in Nat /\ b.paid \in Nat
  BY DEF Amounts
<1>3. PICK o : o = Outstanding(b)
  OBVIOUS
<1>4. o \in 1..Fee
  BY <1>1, <1>2, <1>3 DEF Outstanding
<1>5. PICK applied : applied = IF d < o THEN d ELSE o
  OBVIOUS
<1>6. applied \in 1..Fee
  BY <1>1, <1>4, <1>5
<1>7. PICK void \in BOOLEAN : void <=> (applied = o /\ b.paid = 0)
  OBVIOUS
<1>8. PICK over \in BOOLEAN : over <=> (((applied = o) /\ d > applied /\ b.paid > 0)
                                          \/ OverCap(b, IF void THEN 0 ELSE applied))
  OBVIOUS
<1>9. PICK c : c = [reason |-> IF void THEN "void" ELSE "supplementary", value |-> applied]
  OBVIOUS
<1>10. c \in Call /\ c.reason # "units" /\ c.value = applied
       /\ c.reason \in {"supplementary", "void"} /\ (c.reason = "supplementary" => ~void)
  BY <1>6, <1>9 DEF Call
<1>11. c \in ReportCall
  BY <1>10 DEF ReportCall, UnitsCall
<1>12. Plan(b, d).pc = "posting" /\ Plan(b, d).call = c /\ Plan(b, d).over = over
  BY <1>3, <1>5, <1>7, <1>8, <1>9 DEF Plan, At
<1>13. (~over /\ ~void) => b.units <= CapLimit(b.supplementary + applied)
  <2>1. b.supplementary + applied \in Nat
    BY <1>2, <1>6
  <2>2. CapLimit(b.supplementary + applied) \in Int
    BY <2>1, CapRoom
  <2>. QED
    BY <1>2, <1>8, <2>2 DEF OverCap
<1>. QED
  BY <1>10, <1>11, <1>12, <1>13

-----------------------------------------------------------------------------
(* The shape of the state *)

LEMMA ThreeKinds ==
  /\ Report \in Process /\ Worker \in Process /\ Report # Worker
  /\ Report \notin Request /\ Worker \notin Request
  /\ \A p \in Process : p \in Request \/ p = Report \/ p = Worker
  BY ProcessAssumption DEF Process

\* One process goes on to x.
LEMMA Goes ==
  ASSUME Stages, NEW p \in Process, NEW x, Fits(p, x), proc' = [proc EXCEPT ![p] = x]
  PROVE  Stages' /\ proc'[p] = x /\ \A q \in Process \ {p} : proc'[q] = proc[q]
<1>1. x \in Stage
  BY DEF Fits
<1>2. proc'[p] = x /\ \A q \in Process \ {p} : proc'[q] = proc[q]
  BY DEF Stages
<1>3. proc' \in [Process -> Stage]
  BY <1>1 DEF Stages
<1>4. ASSUME NEW q \in Process PROVE Fits(q, proc[q])'
  <2>1. PICK y : y = proc'[q]
    OBVIOUS
  <2>2. Fits(q, y)
    BY <1>2, <2>1 DEF Stages
  <2>. QED
    BY <2>1, <2>2 DEF Fits
<1>5. Stages'
  BY <1>3, <1>4 DEF Stages
<1>. QED
  BY <1>2, <1>5

\* The places a process may go on to
LEMMA Places ==
  ASSUME NEW p \in Process, NEW x, Fits(p, x)
  PROVE  /\ Idle.pc = "idle" /\ Finished.pc = "done" /\ Idle.over = FALSE /\ Finished.over = FALSE
         /\ Fits(p, Idle) /\ (p # Worker => Fits(p, Finished))
<1>1. x \in Stage
  BY DEF Fits
<1>2. Idle \in Stage /\ Finished \in Stage
  BY DEF Idle, Finished, At, Stage, Steps
<1>3. Idle.pc = "idle" /\ Finished.pc = "done" /\ Idle.over = FALSE /\ Finished.over = FALSE
  BY DEF Idle, Finished, At
<1>4. Fits(p, Idle) /\ (p # Worker => Fits(p, Finished))
  BY <1>2, <1>3, ThreeKinds DEF Fits, Quiet
<1>. QED
  BY <1>3, <1>4

LEMMA PcSet ==
  ASSUME NEW x \in Stage, NEW s \in Steps, NEW y, y = [x EXCEPT !.pc = s]
  PROVE  y \in Stage /\ y.pc = s /\ y.call = x.call /\ y.over = x.over
  BY DEF Stage

LEMMA PcExcept ==
  ASSUME NEW p \in Process, NEW s, NEW y, y = [proc[p] EXCEPT !.pc = s]
  PROVE  [proc EXCEPT ![p].pc = s] = [proc EXCEPT ![p] = y]
  OBVIOUS

\* What is left of Shape when one process goes on
LEMMA ShapeFrom ==
  ASSUME Shape, NEW p \in Process, NEW x, Fits(p, x), proc' = [proc EXCEPT ![p] = x], Data',
         \A c \in Call : task'[c].status = "none" =>
           task[c].status = "none" \/ (p = Worker /\ x.pc = "idle"),
         (p = Worker /\ x.pc # "idle") => task'[x.call].status # "none",
         flagged' => IF p = Report THEN x.pc = "done" ELSE flagged
  PROVE  Shape'
<1>1. Stages' /\ proc'[p] = x /\ \A q \in Process \ {p} : proc'[q] = proc[q]
  BY Goes DEF Shape
<1>2. Report \in Process /\ Worker \in Process
  BY ThreeKinds
<1>3. flagged' => proc'[Report].pc = "done"
  BY <1>1, <1>2 DEF Shape
<1>4. WorkerHasRow'
  <2>1. CASE p = Worker
    BY <1>1, <2>1 DEF WorkerHasRow
  <2>2. CASE p # Worker
    <3>1. proc'[Worker] = proc[Worker]
      BY <1>1, <1>2, <2>2
    <3>2. proc[Worker].pc # "idle" =>
            proc[Worker].call \in Call /\ task[proc[Worker].call].status # "none"
      BY <1>2 DEF Shape, Stages, Fits, WorkerHasRow
    <3>. QED
      BY <3>1, <3>2, <2>2 DEF WorkerHasRow
  <2>. QED
    BY <2>1, <2>2
<1>. QED
  BY <1>1, <1>3, <1>4 DEF Shape

LEMMA ShapeIsTyped == Shape => TypeOK
  BY DEF Shape, Data, Stages, Stage, TypeOK

LEMMA ShapeInit == Init => Shape
<1>. SUFFICES ASSUME Init PROVE Shape
  OBVIOUS
<1>1. NoAmounts \in Amounts
  BY DEF NoAmounts, Amounts
<1>2. NoTask \in TaskState
  BY MaxRetriesAssumption DEF NoTask, TaskState
<1>3. Idle \in Stage /\ Idle.pc = "idle"
  BY DEF Idle, At, Stage, Steps
<1>4. Data
  <2>1. bill \in Amounts /\ copy \in Amounts /\ unheard \in Amounts /\ transferred \in Nat
    BY <1>1 DEF Init
  <2>2. failures \in 0..MaxFailures /\ crashes \in 0..MaxCrashes
    BY BoundsAssumption DEF Init
  <2>3. task \in [Call -> TaskState]
    BY <1>2 DEF Init
  <2>4. /\ fresh \in BOOLEAN /\ flagged \in BOOLEAN
        /\ merged \in BOOLEAN /\ dropped \in BOOLEAN /\ blind \in BOOLEAN
    BY DEF Init
  <2>. QED
    BY <2>1, <2>2, <2>3, <2>4 DEF Data
<1>5. \A p \in Process : Fits(p, Idle)
  BY <1>3 DEF Fits, Quiet
<1>6. \A p \in Process : proc[p] = Idle
  BY DEF Init
<1>7. Stages
  BY <1>3, <1>5, <1>6 DEF Init, Stages
<1>. QED
  BY <1>3, <1>4, <1>6, <1>7, ThreeKinds DEF Init, Shape, WorkerHasRow

-----------------------------------------------------------------------------
(* Every step keeps the shape *)

OthersOf(p) == \A q \in Process \ {p} : proc'[q] = proc[q]

\* The refresh of the copy
LEMMA RefreshedData ==
  ASSUME Data, Refreshed
  PROVE  copy' \in Amounts /\ fresh' \in BOOLEAN
  BY DEF Data, Refreshed

\* A request before it transfers
LEMMA AskingShape ==
  ASSUME Shape, NEW r \in Request,
         UseCopy(r) \/ NotFresh(r) \/ Refuse(r) \/ \E v \in Value : Ask(r, v)
  PROVE  /\ Shape' /\ OthersOf(r) /\ proc[r].pc \in Quiet /\ proc'[r].pc \in Quiet
         /\ UNCHANGED <<bill, transferred, task, flagged, unheard, dropped, blind>>
<1>0. r \in Process /\ r # Report /\ r # Worker
  BY ThreeKinds DEF Process
<1>1. PICK x : x = proc[r]
  OBVIOUS
<1>2. Fits(r, x)
  BY <1>0, <1>1 DEF Shape, Stages
<1>3. CASE UseCopy(r)
  <2>1. PICK y : y = [x EXCEPT !.pc = "validating"]
    OBVIOUS
  <2>2. x.pc = "asking" /\ proc' = [proc EXCEPT ![r] = y]
    <3>1. [proc EXCEPT ![r].pc = "validating"] = [proc EXCEPT ![r] = y]
      BY <1>0, <1>1, <2>1, PcExcept
    <3>. QED
      BY <1>1, <1>3, <3>1 DEF UseCopy
  <2>3. y.pc = "validating" /\ y.call = x.call /\ y \in Stage
    BY <1>2, <2>1, PcSet DEF Steps, Fits
  <2>4. Fits(r, y)
    BY <1>0, <1>2, <2>2, <2>3 DEF Fits, Quiet
  <2>5. copy' \in Amounts /\ fresh' \in BOOLEAN
    BY <1>3, RefreshedData DEF UseCopy, Shape, Data
  <2>6. /\ UNCHANGED <<bill, transferred, task, flagged, unheard, dropped, blind>>
        /\ UNCHANGED <<failures, crashes, merged>>
    BY <1>3 DEF UseCopy
  <2>7. Data'
    BY <2>5, <2>6 DEF Shape, Data
  <2>8. Shape'
    BY <1>0, <2>2, <2>4, <2>6, <2>7, ShapeFrom
  <2>9. proc'[r] = y /\ OthersOf(r)
    BY <1>0, <2>2, <2>4, Goes DEF Shape, OthersOf
  <2>. QED
    BY <1>1, <2>2, <2>3, <2>6, <2>8, <2>9 DEF Quiet
<1>4. CASE NotFresh(r) \/ Refuse(r)
  <2>1. x.pc \in Quiet /\ proc' = [proc EXCEPT ![r] = Finished]
    BY <1>1, <1>4 DEF NotFresh, Refuse, Quiet
  <2>2. Fits(r, Finished) /\ Finished.pc = "done"
    BY <1>0, <1>2, Places
  <2>3. /\ UNCHANGED <<bill, transferred, task, flagged, unheard, dropped, blind>>
        /\ UNCHANGED <<copy, fresh, crashes, merged>>
    BY <1>4 DEF NotFresh, Refuse
  <2>4. failures' \in 0..MaxFailures
    BY <1>4, BoundsAssumption DEF NotFresh, Refuse, Shape, Data
  <2>5. Data'
    BY <2>3, <2>4 DEF Shape, Data
  <2>6. Shape'
    BY <1>0, <2>1, <2>2, <2>3, <2>5, ShapeFrom
  <2>7. proc'[r] = Finished /\ OthersOf(r)
    BY <1>0, <2>1, <2>2, Goes DEF Shape, OthersOf
  <2>. QED
    BY <1>1, <2>1, <2>2, <2>3, <2>6, <2>7 DEF Quiet
<1>5. CASE \E v \in Value : Ask(r, v)
  <2>1. PICK v \in Value : Ask(r, v)
    BY <1>5
  <2>2. PICK c : c = [reason |-> "units", value |-> v]
    OBVIOUS
  <2>3. c \in UnitsCall /\ c \in Call
    BY <2>2 DEF UnitsCall, Call
  <2>4. PICK y : y = At("asking", c, FALSE)
    OBVIOUS
  <2>5. y \in Stage /\ y.pc = "asking" /\ y.call = c
    BY <2>3, <2>4 DEF At, Stage, Steps
  <2>6. Fits(r, y)
    BY <1>0, <2>3, <2>5 DEF Fits, Quiet
  <2>7. x.pc = "idle" /\ proc' = [proc EXCEPT ![r] = y]
    BY <1>1, <2>1, <2>2, <2>4 DEF Ask
  <2>8. /\ UNCHANGED <<bill, transferred, task, flagged, unheard, dropped, blind>>
        /\ UNCHANGED <<copy, fresh, failures, crashes, merged>>
    BY <2>1 DEF Ask
  <2>9. Data'
    BY <2>8 DEF Shape, Data
  <2>10. Shape'
    BY <1>0, <2>6, <2>7, <2>8, <2>9, ShapeFrom
  <2>11. proc'[r] = y /\ OthersOf(r)
    BY <1>0, <2>6, <2>7, Goes DEF Shape, OthersOf
  <2>. QED
    BY <1>1, <2>5, <2>7, <2>8, <2>10, <2>11 DEF Quiet
<1>. QED
  BY <1>3, <1>4, <1>5

\* A request validates
LEMMA ValidateShape ==
  ASSUME Shape, NEW r \in Request, Validate(r)
  PROVE  /\ Shape' /\ OthersOf(r) /\ proc'[r].pc = "transferring"
         /\ proc'[r].call = proc[r].call /\ proc[r].call \in UnitsCall
         /\ MayApply(proc[r].call.value) /\ (blind' \/ (SeesAll(r, copy) /\ ~blind))
         /\ UNCHANGED <<bill, transferred, task, flagged, unheard, dropped>>
<1>0. r \in Process /\ r # Report /\ r # Worker
  BY ThreeKinds DEF Process
<1>1. PICK x : x = proc[r]
  OBVIOUS
<1>2. Fits(r, x)
  BY <1>0, <1>1 DEF Shape, Stages
<1>3. PICK y : y = [x EXCEPT !.pc = "transferring"]
  OBVIOUS
<1>4. x.pc = "validating" /\ proc' = [proc EXCEPT ![r] = y]
  <2>1. [proc EXCEPT ![r].pc = "transferring"] = [proc EXCEPT ![r] = y]
    BY <1>0, <1>1, <1>3, PcExcept
  <2>. QED
    BY <1>1, <2>1 DEF Validate
<1>5. y.pc = "transferring" /\ y.call = x.call /\ y \in Stage /\ x.call \in UnitsCall
  BY <1>0, <1>2, <1>3, <1>4, PcSet DEF Steps, Fits
<1>6. Fits(r, y)
  BY <1>0, <1>2, <1>5 DEF Fits, Quiet
<1>7. /\ UNCHANGED <<bill, transferred, task, flagged, unheard, dropped>>
      /\ UNCHANGED <<copy, fresh, failures, crashes, merged>>
  BY DEF Validate
<1>8. PICK b \in BOOLEAN : b <=> SeesAll(r, copy)
  OBVIOUS
<1>9. blind' = (blind \/ ~b)
  BY <1>8 DEF Validate
<1>10. blind' \in BOOLEAN /\ (blind' \/ (b /\ ~blind))
  BY <1>9 DEF Shape, Data
<1>11. Data'
  BY <1>7, <1>10 DEF Shape, Data
<1>12. Shape'
  BY <1>0, <1>4, <1>6, <1>7, <1>11, ShapeFrom
<1>13. proc'[r] = y /\ OthersOf(r)
  BY <1>0, <1>4, <1>6, Goes DEF Shape, OthersOf
<1>. QED
  BY <1>1, <1>5, <1>7, <1>8, <1>10, <1>12, <1>13 DEF Validate

\* The transfer, with or without an answer, or none
LEMMA TransferShape ==
  ASSUME Shape, NEW r \in Request, Transfer(r)
  PROVE  /\ Shape' /\ OthersOf(r) /\ proc[r].pc = "transferring" /\ proc'[r].pc = "posting"
         /\ transferred' = transferred + proc[r].call.value
         /\ UNCHANGED <<bill, task, flagged, unheard, dropped, blind>>
<1>0. r \in Process /\ r # Report /\ r # Worker
  BY ThreeKinds DEF Process
<1>1. PICK x : x = proc[r]
  OBVIOUS
<1>2. Fits(r, x)
  BY <1>0, <1>1 DEF Shape, Stages
<1>3. PICK y : y = [x EXCEPT !.pc = "posting"]
  OBVIOUS
<1>4. x.pc = "transferring" /\ proc' = [proc EXCEPT ![r] = y]
  <2>1. [proc EXCEPT ![r].pc = "posting"] = [proc EXCEPT ![r] = y]
    BY <1>0, <1>1, <1>3, PcExcept
  <2>. QED
    BY <1>1, <2>1 DEF Transfer
<1>5. y.pc = "posting" /\ y.call = x.call /\ y \in Stage /\ x.call \in UnitsCall
  BY <1>0, <1>2, <1>3, <1>4, PcSet DEF Steps, Fits
<1>6. Fits(r, y)
  BY <1>0, <1>2, <1>5 DEF Fits, Quiet
<1>7. /\ UNCHANGED <<bill, task, flagged, unheard, dropped, blind>>
      /\ UNCHANGED <<copy, fresh, failures, crashes, merged>>
  BY DEF Transfer
<1>8. x.call.value \in Nat
  BY <1>5, AmountsAssumption DEF UnitsCall, Call
<1>9. transferred' \in Nat
  BY <1>1, <1>8 DEF Transfer, Shape, Data
<1>10. Data'
  BY <1>7, <1>9 DEF Shape, Data
<1>11. Shape'
  BY <1>0, <1>4, <1>6, <1>7, <1>10, ShapeFrom
<1>12. proc'[r] = y /\ OthersOf(r)
  BY <1>0, <1>4, <1>6, Goes DEF Shape, OthersOf
<1>. QED
  BY <1>1, <1>4, <1>5, <1>7, <1>11, <1>12 DEF Transfer

LEMMA TransferFailsShape ==
  ASSUME Shape, NEW r \in Request, TransferFails(r) \/ TransferUnanswered(r)
  PROVE  /\ Shape' /\ OthersOf(r) /\ proc'[r].pc = "done"
         /\ dropped' \/ UNCHANGED <<transferred, dropped>>
         /\ UNCHANGED <<bill, task, flagged, unheard, blind>>
<1>0. r \in Process /\ r # Report /\ r # Worker
  BY ThreeKinds DEF Process
<1>1. PICK x : x = proc[r]
  OBVIOUS
<1>2. Fits(r, x)
  BY <1>0, <1>1 DEF Shape, Stages
<1>3. x.pc = "transferring" /\ proc' = [proc EXCEPT ![r] = Finished]
  BY <1>1 DEF TransferFails, TransferUnanswered, AfterRefusal
<1>4. Fits(r, Finished) /\ Finished.pc = "done" /\ x.call \in UnitsCall
  BY <1>0, <1>2, <1>3, Places DEF Fits
<1>5. UNCHANGED <<bill, task, flagged, unheard, blind>> /\ UNCHANGED <<copy, fresh, crashes, merged>>
  BY DEF TransferFails, TransferUnanswered
<1>6. x.call.value \in Nat
  BY <1>4, AmountsAssumption DEF UnitsCall, Call
<1>7. transferred' \in Nat /\ failures' \in 0..MaxFailures
  BY <1>1, <1>6, BoundsAssumption DEF TransferFails, TransferUnanswered, Shape, Data
<1>8. dropped' \in BOOLEAN /\ (dropped' \/ UNCHANGED <<transferred, dropped>>)
  BY DEF TransferFails, TransferUnanswered, Shape, Data
<1>9. Data'
  BY <1>5, <1>7, <1>8 DEF Shape, Data
<1>10. Shape'
  BY <1>0, <1>3, <1>4, <1>5, <1>9, ShapeFrom
<1>11. proc'[r] = Finished /\ OthersOf(r)
  BY <1>0, <1>3, <1>4, Goes DEF Shape, OthersOf
<1>. QED
  BY <1>4, <1>5, <1>8, <1>10, <1>11

\* create_adjustment
LEMMA PostingCall ==
  ASSUME Shape, NEW p \in Process, proc[p].pc \in {"posting", "refreshing"}
  PROVE  /\ proc[p].call \in Call /\ Fits(p, proc[p]) /\ proc[p].over \in BOOLEAN
         /\ p \in Request => proc[p].call \in UnitsCall
         /\ p = Report => proc[p].call \in ReportCall /\ ~flagged
         /\ p = Worker => task[proc[p].call].status # "none"
<1>1. Fits(p, proc[p])
  BY DEF Shape, Stages
<1>2. p \in Request => proc[p].call \in UnitsCall
  BY <1>1 DEF Fits
<1>3. p = Report => proc[p].call \in ReportCall
  BY <1>1 DEF Fits
<1>4. p = Worker => proc[p].call \in Call
  BY <1>1 DEF Fits
<1>5. proc[p].call \in Call
  BY <1>2, <1>3, <1>4, ThreeKinds DEF UnitsCall, ReportCall
<1>6. proc[p].over \in BOOLEAN
  BY <1>1 DEF Fits, Stage
<1>. QED
  BY <1>1, <1>2, <1>3, <1>5, <1>6 DEF Shape, WorkerHasRow

LEMMA AdjustFeeShape ==
  ASSUME Shape, NEW p \in Process, AdjustFee(p)
  PROVE  /\ Shape' /\ OthersOf(p) /\ proc[p].pc = "posting" /\ proc'[p].pc = "refreshing"
         /\ proc'[p].call = proc[p].call /\ proc'[p].over = proc[p].over
         /\ bill' = Adjusted(bill, proc[p].call)
         /\ UNCHANGED <<transferred, task, flagged, unheard, dropped, blind>>
<1>1. PICK x : x = proc[p]
  OBVIOUS
<1>2. x.pc = "posting"
  BY <1>1 DEF AdjustFee
<1>3. /\ Fits(p, x) /\ x.call \in Call /\ (p = Worker => task[x.call].status # "none")
      /\ (p = Report => ~flagged)
  BY <1>1, <1>2, PostingCall
<1>4. PICK y : y = [x EXCEPT !.pc = "refreshing"]
  OBVIOUS
<1>5. y \in Stage /\ y.pc = "refreshing" /\ y.call = x.call /\ y.over = x.over
  BY <1>3, <1>4, PcSet DEF Steps, Fits
<1>6. Fits(p, y)
  BY <1>2, <1>3, <1>5, ThreeKinds DEF Fits, Quiet
<1>7. proc' = [proc EXCEPT ![p] = y]
  <2>1. [proc EXCEPT ![p].pc = "refreshing"] = [proc EXCEPT ![p] = y]
    BY <1>1, <1>4, PcExcept
  <2>. QED
    BY <2>1 DEF AdjustFee
<1>8. /\ UNCHANGED <<transferred, task, flagged, unheard, dropped, blind>>
      /\ UNCHANGED <<copy, fresh, failures, crashes, merged>>
      /\ bill' = Adjusted(bill, x.call)
  BY <1>1 DEF AdjustFee
<1>9. bill' \in Amounts
  BY <1>3, <1>8, AdjustedAmounts DEF Shape, Data
<1>10. Data'
  BY <1>8, <1>9 DEF Shape, Data
<1>11. p = Worker => task'[y.call].status # "none"
  BY <1>3, <1>5, <1>8
<1>12. Shape'
  BY <1>3, <1>6, <1>7, <1>8, <1>10, <1>11, ShapeFrom
<1>13. proc'[p] = y /\ OthersOf(p)
  BY <1>6, <1>7, Goes DEF Shape, OthersOf
<1>. QED
  BY <1>1, <1>2, <1>5, <1>8, <1>12, <1>13

\* Where a process goes on when create_adjustment is over
Returned(p, y) ==
  /\ proc' = [proc EXCEPT ![p] = y] /\ Fits(p, y)
  /\ p \in Request => y.pc = "done"
  /\ p = Report => y.pc = "flagging" /\ y.over = proc[p].over
  /\ p = Worker => y.pc = "idle"

LEMMA ReturnGoes ==
  ASSUME Shape, NEW p \in Process, proc[p].pc \in {"posting", "refreshing"}, Return(p)
  PROVE  \E y : Returned(p, y)
<1>1. Fits(p, proc[p])
  BY PostingCall
<1>2. CASE p \in Request
  <2>1. p # Report /\ p # Worker
    BY <1>2, ThreeKinds
  <2>2. proc' = [proc EXCEPT ![p] = Finished]
    BY <1>2, <2>1 DEF Return
  <2>3. Fits(p, Finished) /\ Finished.pc = "done"
    BY <1>1, <2>1, Places
  <2>. QED
    BY <2>1, <2>2, <2>3 DEF Returned
<1>3. CASE p = Report
  <2>1. p \notin Request /\ p # Worker
    BY <1>3, ThreeKinds
  <2>2. PICK x, y : x = proc[p] /\ y = [x EXCEPT !.pc = "flagging"]
    OBVIOUS
  <2>3. proc' = [proc EXCEPT ![p] = y]
    <3>1. proc' = [proc EXCEPT ![p] = [proc[p] EXCEPT !.pc = "flagging"]]
      BY <1>3, ThreeKinds DEF Return
    <3>. QED
      BY <2>2, <3>1
  <2>4. y \in Stage /\ y.pc = "flagging" /\ y.over = x.over
    BY <1>1, <2>2, PcSet DEF Steps, Fits
  <2>5. Fits(p, y)
    BY <2>1, <2>4 DEF Fits
  <2>. QED
    BY <2>1, <2>2, <2>3, <2>4, <2>5 DEF Returned
<1>4. CASE p = Worker
  <2>1. p \notin Request /\ p # Report
    BY <1>4, ThreeKinds
  <2>2. proc' = [proc EXCEPT ![p] = Idle]
    <3>1. Worker \notin Request /\ Worker # Report
      BY ThreeKinds
    <3>. QED
      BY <1>4, <3>1 DEF Return
  <2>3. Fits(p, Idle) /\ Idle.pc = "idle"
    BY <1>1, Places
  <2>. QED
    BY <2>1, <2>2, <2>3 DEF Returned
<1>. QED
  BY <1>2, <1>3, <1>4, ThreeKinds

\* What is left of Shape when create_adjustment is over
LEMMA ReturnShape ==
  ASSUME Shape, NEW p \in Process, proc[p].pc \in {"posting", "refreshing"}, Return(p), Data',
         \A c \in Call : task'[c].status = "none" => task[c].status = "none" \/ p = Worker,
         flagged' = flagged
  PROVE  /\ Shape' /\ OthersOf(p)
         /\ p \in Request => proc'[p].pc = "done"
         /\ p = Report => proc'[p].pc = "flagging" /\ proc'[p].over = proc[p].over
         /\ p = Worker => proc'[p].pc = "idle"
<1>1. PICK y : Returned(p, y)
  BY ReturnGoes
<1>2. proc' = [proc EXCEPT ![p] = y] /\ Fits(p, y) /\ (p = Worker => y.pc = "idle")
  BY <1>1 DEF Returned
<1>3. p = Report => ~flagged
  BY PostingCall
<1>4. Shape'
  BY <1>2, <1>3, ShapeFrom
<1>5. proc'[p] = y /\ OthersOf(p)
  BY <1>2, Goes DEF Shape, OthersOf
<1>. QED
  BY <1>1, <1>4, <1>5 DEF Returned

LEMMA AdjustFailsShape ==
  ASSUME Shape, NEW p \in Process, AdjustFails(p) \/ AdjustUnanswered(p)
  PROVE  /\ Shape' /\ OthersOf(p) /\ proc[p].pc = "posting"
         /\ p \in Request => proc'[p].pc = "done"
         /\ p = Report => proc'[p].pc = "flagging" /\ proc'[p].over = proc[p].over
         /\ p = Worker => proc'[p].pc = "idle"
         /\ task'[proc[p].call].status # "none"
         /\ \A c \in Call \ {proc[p].call} : task'[c] = task[c]
         /\ unheard' # NoAmounts \/ UNCHANGED <<bill, unheard>>
         /\ UNCHANGED <<transferred, flagged, dropped, blind>>
<1>1. PICK c : c = proc[p].call
  OBVIOUS
<1>2. proc[p].pc = "posting" /\ Return(p)
  BY DEF AdjustFails, AdjustUnanswered, Raises
<1>3. c \in Call
  BY <1>1, <1>2, PostingCall
<1>4. PICK t : t = IF p = Worker THEN AttemptFailed(task[c]) ELSE Recorded(task[c])
  OBVIOUS
<1>5. task[c] \in TaskState /\ task \in [Call -> TaskState]
  BY <1>3 DEF Shape, Data
<1>6. t \in TaskState /\ t.status # "none"
  BY <1>4, <1>5, TaskStates
<1>7. task' = [task EXCEPT ![c] = t]
  BY <1>1, <1>4 DEF AdjustFails, AdjustUnanswered, Raises
<1>8. task' \in [Call -> TaskState] /\ task'[c] = t /\ \A d \in Call \ {c} : task'[d] = task[d]
  BY <1>3, <1>5, <1>6, <1>7
<1>9. merged' \in BOOLEAN
  <2>1. PICK b \in BOOLEAN : b <=> (p # Worker /\ task[c].status # "none")
    OBVIOUS
  <2>2. merged' = (merged \/ b)
    BY <1>1, <2>1 DEF AdjustFails, AdjustUnanswered, Raises
  <2>. QED
    BY <2>2 DEF Shape, Data
<1>10. failures' \in 0..MaxFailures
  BY BoundsAssumption DEF AdjustFails, AdjustUnanswered, Shape, Data
<1>11. /\ bill' \in Amounts /\ unheard' \in Amounts
       /\ unheard' # NoAmounts \/ UNCHANGED <<bill, unheard>>
  <2>1. CASE AdjustFails(p)
    BY <2>1 DEF AdjustFails, Shape, Data
  <2>2. CASE AdjustUnanswered(p)
    <3>1. bill' = Adjusted(bill, c) /\ unheard' = Adjusted(unheard, c)
      BY <1>1, <2>2 DEF AdjustUnanswered
    <3>2. bill \in Amounts /\ unheard \in Amounts
      BY DEF Shape, Data
    <3>. QED
      BY <1>3, <3>1, <3>2, AdjustedAmounts, UnheardShows
  <2>. QED
    BY <2>1, <2>2
<1>12. UNCHANGED <<transferred, flagged, dropped, blind>> /\ UNCHANGED <<copy, fresh, crashes>>
  BY DEF AdjustFails, AdjustUnanswered
<1>13. Data'
  BY <1>8, <1>9, <1>10, <1>11, <1>12 DEF Shape, Data
<1>14. \A d \in Call : task'[d].status = "none" => task[d].status = "none" \/ p = Worker
  BY <1>6, <1>8
<1>15. /\ Shape' /\ OthersOf(p)
       /\ p \in Request => proc'[p].pc = "done"
       /\ p = Report => proc'[p].pc = "flagging" /\ proc'[p].over = proc[p].over
       /\ p = Worker => proc'[p].pc = "idle"
  BY <1>2, <1>12, <1>13, <1>14, ReturnShape
<1>. QED
  BY <1>1, <1>2, <1>6, <1>8, <1>11, <1>12, <1>15

LEMMA RefreshAfterShape ==
  ASSUME Shape, NEW p \in Process, RefreshAfter(p) \/ RefreshAfterFails(p)
  PROVE  /\ Shape' /\ OthersOf(p) /\ proc[p].pc = "refreshing"
         /\ p \in Request => proc'[p].pc = "done"
         /\ p = Report => proc'[p].pc = "flagging" /\ proc'[p].over = proc[p].over
         /\ p = Worker => proc'[p].pc = "idle" /\ task'[proc[p].call].status = "none"
         /\ \A c \in Call \ {proc[p].call} : task'[c] = task[c]
         /\ p # Worker => task' = task
         /\ UNCHANGED <<bill, unheard, transferred, flagged, dropped, blind>>
<1>1. PICK c : c = proc[p].call
  OBVIOUS
<1>2. proc[p].pc = "refreshing" /\ Return(p)
  BY DEF RefreshAfter, RefreshAfterFails, Succeeds
<1>3. c \in Call
  BY <1>1, <1>2, PostingCall
<1>4. task \in [Call -> TaskState]
  BY DEF Shape, Data
<1>5. NoTask \in TaskState /\ NoTask.status = "none"
  BY <1>3, <1>4, TaskStates
<1>6. task' = IF p = Worker THEN [task EXCEPT ![c] = NoTask] ELSE task
  BY <1>1 DEF RefreshAfter, RefreshAfterFails, Succeeds
<1>7. /\ task' \in [Call -> TaskState] /\ (p = Worker => task'[c].status = "none")
      /\ \A d \in Call \ {c} : task'[d] = task[d]
  BY <1>3, <1>4, <1>5, <1>6
<1>8. copy' \in Amounts /\ fresh' \in BOOLEAN
  BY RefreshedData DEF RefreshAfter, RefreshAfterFails, Shape, Data
<1>9. failures' \in 0..MaxFailures
  BY BoundsAssumption DEF RefreshAfter, RefreshAfterFails, Shape, Data
<1>10. /\ UNCHANGED <<bill, unheard, transferred, flagged, dropped, blind>>
       /\ UNCHANGED <<crashes, merged>>
  BY DEF RefreshAfter, RefreshAfterFails
<1>11. Data'
  BY <1>7, <1>8, <1>9, <1>10 DEF Shape, Data
<1>12. \A d \in Call : task'[d].status = "none" => task[d].status = "none" \/ p = Worker
  BY <1>6
<1>13. /\ Shape' /\ OthersOf(p)
       /\ p \in Request => proc'[p].pc = "done"
       /\ p = Report => proc'[p].pc = "flagging" /\ proc'[p].over = proc[p].over
       /\ p = Worker => proc'[p].pc = "idle"
  BY <1>2, <1>10, <1>11, <1>12, ReturnShape
<1>. QED
  BY <1>1, <1>2, <1>6, <1>7, <1>10, <1>13

\* The worker takes up a row.
LEMMA StartRetryShape ==
  ASSUME Shape, NEW c \in Call, StartRetry(c)
  PROVE  /\ Shape' /\ OthersOf(Worker) /\ proc[Worker].pc = "idle"
         /\ proc'[Worker].pc = "posting" /\ proc'[Worker].call = c
         /\ task[c].status # "none"
         /\ \A d \in Call : task'[d].status = "none" <=> task[d].status = "none"
         /\ UNCHANGED <<bill, unheard, transferred, flagged, dropped, blind>>
<1>1. Worker \in Process /\ Worker \notin Request /\ Worker # Report
  BY ThreeKinds
<1>2. PICK y : y = At("posting", c, FALSE)
  OBVIOUS
<1>3. y \in Stage /\ y.pc = "posting" /\ y.call = c
  BY <1>2 DEF At, Stage, Steps
<1>4. Fits(Worker, y)
  BY <1>1, <1>3 DEF Fits
<1>5. proc[Worker].pc = "idle" /\ proc' = [proc EXCEPT ![Worker] = y]
  BY <1>2 DEF StartRetry
<1>6. task \in [Call -> TaskState]
  BY DEF Shape, Data
<1>7. Started(task[c]) \in TaskState /\ Started(task[c]).status # "none" /\ task[c].status # "none"
  BY <1>6, TaskStates DEF StartRetry
<1>8. task' \in [Call -> TaskState]
  BY <1>6, <1>7 DEF StartRetry
<1>9. task'[c] = Started(task[c]) /\ \A d \in Call \ {c} : task'[d] = task[d]
  BY <1>6 DEF StartRetry
<1>10. \A d \in Call : task'[d].status = "none" <=> task[d].status = "none"
  BY <1>7, <1>9
<1>11. /\ UNCHANGED <<bill, unheard, transferred, flagged, dropped, blind>>
       /\ UNCHANGED <<copy, fresh, failures, crashes, merged>>
  BY DEF StartRetry
<1>12. Data'
  BY <1>8, <1>11 DEF Shape, Data
<1>13. task'[y.call].status # "none"
  BY <1>3, <1>7, <1>9
<1>14. Shape'
  BY <1>1, <1>4, <1>5, <1>10, <1>11, <1>12, <1>13, ShapeFrom
<1>15. proc'[Worker] = y /\ OthersOf(Worker)
  BY <1>1, <1>4, <1>5, Goes DEF Shape, OthersOf
<1>. QED
  BY <1>3, <1>5, <1>7, <1>10, <1>11, <1>14, <1>15

\* The report plans on the copy c1.
LEMMA PlanShape ==
  ASSUME Shape, NEW d \in Decrease, PlanDecrease(d), NEW c1, c1 = copy'
  PROVE  /\ Shape' /\ OthersOf(Report) /\ proc[Report].pc = "idle"
         /\ c1 \in Amounts
         /\ \/ proc'[Report].pc = "flagging"
            \/ Outstanding(c1) > 0 /\ proc'[Report] = Plan(c1, d)
         /\ blind' \/ (SeesAll(Report, c1) /\ ~blind)
         /\ UNCHANGED <<bill, unheard, transferred, task, flagged, dropped>>
<1>1. Report \in Process /\ Report \notin Request /\ Report # Worker
  BY ThreeKinds
<1>2. copy' \in Amounts /\ fresh' \in BOOLEAN
  BY RefreshedData DEF PlanDecrease, Shape, Data
<1>3. failures' \in 0..MaxFailures
  BY BoundsAssumption DEF PlanDecrease, Shape, Data
<1>4. PICK b \in BOOLEAN : b <=> SeesAll(Report, c1)
  OBVIOUS
<1>5. blind' = (blind \/ ~b)
  BY <1>4 DEF PlanDecrease
<1>6. blind' \in BOOLEAN /\ (blind' \/ (b /\ ~blind))
  BY <1>5 DEF Shape, Data
<1>7. /\ UNCHANGED <<bill, unheard, transferred, task, flagged, dropped>>
      /\ UNCHANGED <<crashes, merged>>
  BY DEF PlanDecrease
<1>8. Data'
  BY <1>2, <1>3, <1>6, <1>7 DEF Shape, Data
<1>9. proc[Report].pc = "idle" /\ ~flagged
  BY DEF PlanDecrease, Shape
<1>10. PICK paid : paid = (c1.paid > 0)
  OBVIOUS
<1>11. PICK still : still = At("flagging", NoCall, paid)
  OBVIOUS
<1>12. still \in Stage /\ still.pc = "flagging"
  BY <1>10, <1>11 DEF At, Stage, Steps
<1>13. Fits(Report, still)
  BY <1>1, <1>12 DEF Fits
<1>14. CASE Outstanding(c1) > 0 /\ proc' = [proc EXCEPT ![Report] = Plan(c1, d)]
  <2>1. PICK y : y = Plan(c1, d)
    OBVIOUS
  <2>2. y.pc = "posting" /\ y.over \in BOOLEAN /\ y.call \in ReportCall
    BY <1>2, <1>14, <2>1, PlanIsCall
  <2>3. y \in Stage
    <3>1. PICK c, over : y = At("posting", c, over)
      BY <2>1 DEF Plan
    <3>2. y.pc = "posting" /\ y.call = c /\ y.over = over
      BY <3>1 DEF At
    <3>3. c \in Call /\ over \in BOOLEAN
      BY <2>2, <3>2 DEF ReportCall
    <3>. QED
      BY <3>1, <3>3 DEF At, Stage, Steps
  <2>4. Fits(Report, y)
    BY <1>1, <2>2, <2>3 DEF Fits
  <2>5. proc' = [proc EXCEPT ![Report] = y]
    BY <1>14, <2>1
  <2>6. Shape'
    BY <1>1, <1>7, <1>8, <1>9, <2>4, <2>5, ShapeFrom
  <2>7. proc'[Report] = y /\ OthersOf(Report)
    BY <1>1, <2>4, <2>5, Goes DEF Shape, OthersOf
  <2>. QED
    BY <1>2, <1>4, <1>6, <1>7, <1>9, <1>14, <2>1, <2>6, <2>7
<1>15. CASE proc' = [proc EXCEPT ![Report] = still]
  <2>1. Shape'
    BY <1>1, <1>7, <1>8, <1>9, <1>13, <1>15, ShapeFrom
  <2>2. proc'[Report] = still /\ OthersOf(Report)
    BY <1>1, <1>13, <1>15, Goes DEF Shape, OthersOf
  <2>. QED
    BY <1>2, <1>4, <1>6, <1>7, <1>9, <1>12, <2>1, <2>2
<1>16. \/ proc' = [proc EXCEPT ![Report] = still]
       \/ Outstanding(c1) > 0 /\ proc' = [proc EXCEPT ![Report] = Plan(c1, d)]
  BY <1>10, <1>11 DEF PlanDecrease
<1>. QED
  BY <1>14, <1>15, <1>16

LEMMA FlagShape ==
  ASSUME Shape, Flag
  PROVE  /\ Shape' /\ OthersOf(Report) /\ proc[Report].pc = "flagging"
         /\ proc'[Report].pc = "done" /\ ~flagged /\ (flagged' <=> proc[Report].over)
         /\ UNCHANGED <<bill, unheard, transferred, task, dropped, blind>>
<1>1. Report \in Process /\ Report \notin Request /\ Report # Worker
  BY ThreeKinds
<1>2. Fits(Report, proc[Report])
  BY <1>1 DEF Shape, Stages
<1>3. Fits(Report, Finished) /\ Finished.pc = "done"
  BY <1>1, <1>2, Places
<1>4. proc[Report].pc = "flagging" /\ proc' = [proc EXCEPT ![Report] = Finished]
  BY DEF Flag
<1>5. proc[Report].over \in BOOLEAN
  BY <1>2 DEF Fits, Stage
<1>6. flagged' = proc[Report].over
  BY DEF Flag
<1>7. /\ UNCHANGED <<bill, unheard, transferred, task, dropped, blind>>
      /\ UNCHANGED <<copy, fresh, failures, crashes, merged>>
  BY DEF Flag
<1>8. Data'
  BY <1>5, <1>6, <1>7 DEF Shape, Data
<1>9. ~flagged
  BY <1>4 DEF Shape
<1>10. Shape'
  BY <1>1, <1>3, <1>4, <1>7, <1>8, ShapeFrom
<1>11. proc'[Report] = Finished /\ OthersOf(Report)
  BY <1>1, <1>3, <1>4, Goes DEF Shape, OthersOf
<1>. QED
  BY <1>3, <1>4, <1>6, <1>7, <1>9, <1>10, <1>11

LEMMA CrashShape ==
  ASSUME Shape, NEW p \in Process, Crash(p)
  PROVE  Shape' /\ dropped'
<1>1. PICK y : y = IF p = Worker THEN Idle ELSE Finished
  OBVIOUS
<1>2. Fits(p, proc[p])
  BY DEF Shape, Stages
<1>3. Fits(p, y) /\ y.pc = (IF p = Worker THEN "idle" ELSE "done")
  BY <1>1, <1>2, Places
<1>4. proc' = [proc EXCEPT ![p] = y]
  BY <1>1 DEF Crash
<1>5. dropped' = TRUE /\ UNCHANGED <<bill, copy, fresh, transferred, task, flagged, failures, unheard, merged, blind>>
  BY DEF Crash
<1>6. crashes' \in 0..MaxCrashes
  BY BoundsAssumption DEF Crash, Shape, Data
<1>7. Data'
  BY <1>5, <1>6 DEF Shape, Data
<1>8. Shape'
  BY <1>3, <1>4, <1>5, <1>7, ShapeFrom, ThreeKinds
<1>. QED
  BY <1>5, <1>8

\* Refreshes, payments and time
LEMMA OutsideShape ==
  ASSUME Shape, RefreshByOthers \/ Expire \/ (\E v \in Payment : Pay(v)) \/ UNCHANGED vars
  PROVE  /\ Shape'
         /\ bill'.supplementary = bill.supplementary
         /\ UNCHANGED <<unheard, transferred, task, proc, flagged, dropped, blind>>
<1>1. /\ UNCHANGED <<unheard, transferred, task, proc, flagged, dropped, blind>>
      /\ UNCHANGED <<failures, crashes, merged>>
  BY DEF RefreshByOthers, Expire, Pay, vars
<1>2. copy' \in Amounts /\ fresh' \in BOOLEAN
  BY RefreshedData DEF RefreshByOthers, Expire, Pay, vars, Shape, Data
<1>3. bill' \in Amounts /\ bill'.supplementary = bill.supplementary
  <2>1. CASE \E v \in Payment : Pay(v)
    <3>1. PICK v \in Payment : Pay(v)
      BY <2>1
    <3>2. v \in Nat /\ bill \in Amounts
      BY AmountsAssumption DEF Shape, Data
    <3>3. bill' = [bill EXCEPT !.paid = bill.paid + v]
      BY <3>1 DEF Pay
    <3>. QED
      BY <3>2, <3>3 DEF Amounts
  <2>2. CASE ~\E v \in Payment : Pay(v)
    BY <2>2 DEF RefreshByOthers, Expire, vars, Shape, Data
  <2>. QED
    BY <2>1, <2>2
<1>4. Data'
  BY <1>1, <1>2, <1>3 DEF Shape, Data
<1>5. Stages' /\ WorkerHasRow' /\ (flagged' => proc'[Report].pc = "done")
  BY <1>1 DEF Shape, Stages, WorkerHasRow
<1>. QED
  BY <1>1, <1>3, <1>4, <1>5 DEF Shape

LEMMA ShapeStep == Shape /\ [Next]_vars => Shape'
<1>. SUFFICES ASSUME Shape, [Next]_vars PROVE Shape'
  OBVIOUS
<1>1. \A p \in Process : Adjustment(p) => Shape'
  BY AdjustFeeShape, AdjustFailsShape, RefreshAfterShape DEF Adjustment
<1>2. \A r \in Request : Advance(r) \/ (\E v \in Value : Ask(r, v)) => Shape'
  <2>. SUFFICES ASSUME NEW r \in Request, Advance(r) \/ (\E v \in Value : Ask(r, v)) PROVE Shape'
    OBVIOUS
  <2>1. r \in Process
    BY DEF Process
  <2>. QED
    BY <1>1, <2>1, AskingShape, ValidateShape, TransferShape, TransferFailsShape DEF Advance
<1>3. (\E d \in Decrease : PlanDecrease(d)) => Shape'
  BY PlanShape
<1>4. Work => Shape'
  BY <1>1, StartRetryShape, ThreeKinds DEF Work
<1>5. \A p \in Process : Crash(p) => Shape'
  BY CrashShape
<1>. QED
  BY <1>1, <1>2, <1>3, <1>4, <1>5, FlagShape, OutsideShape, ThreeKinds DEF Next

\* The state keeps its shape: whatever is retried, every process and row holds a
\* call that one of its kind makes (create_adjustment and its callers).
THEOREM TypesHold == Spec => []TypeOK
  BY ShapeInit, ShapeStep, ShapeIsTyped, PTL DEF Spec

-----------------------------------------------------------------------------
(* The cap *)

\* While somebody is in the middle of something, or a row waits, nobody else has
\* decided and not yet acted.
LEMMA NobodyElse ==
  ASSUME Shape, CapParts, NEW p \in Process, p # Report,
         proc[p].pc \notin Quiet \/ \E c \in Call : task[c].status # "none"
  PROVE  /\ \A r \in Request \ {p} : proc[r].pc # "transferring"
         /\ proc[Report].pc # "posting"
<1>1. ASSUME NEW r \in Request \ {p}, proc[r].pc = "transferring" PROVE FALSE
  BY <1>1 DEF CapParts, TransferFits, Alone
<1>2. ASSUME proc[Report].pc = "posting" PROVE FALSE
  BY <1>2 DEF CapParts, PlanFits, Alone
<1>. QED
  BY <1>1, <1>2

\* A request that stays or becomes quiet
LEMMA RestKeeps ==
  ASSUME Shape, CapParts, NEW r \in Request, OthersOf(r), proc'[r].pc \in Quiet,
         bill'.supplementary = bill.supplementary, UNCHANGED <<transferred, task, flagged>>
  PROVE  CapParts'
<1>0. r \in Process /\ r # Report /\ r # Worker /\ Report \in Process /\ Worker \in Process
  BY ThreeKinds DEF Process
<1>1. proc'[Report] = proc[Report] /\ proc'[Worker] = proc[Worker]
  BY <1>0 DEF OthersOf
<1>2. \A q \in Process : proc'[q] = proc[q] \/ proc'[q].pc \in Quiet
  BY DEF OthersOf
<1>3. NoReportYet' /\ Covered' /\ QueueFits'
  BY <1>1 DEF CapParts, NoReportYet, Covered, ByHand, Room, QueueFits, Queued
<1>4. \A p \in Process : Alone(p) => Alone(p)'
  BY <1>2 DEF Alone
<1>5. TransferFits'
  <2>. SUFFICES ASSUME NEW q \in Request, proc'[q].pc = "transferring"
                PROVE  /\ Alone(q)'
                       /\ (transferred' + proc'[q].call.value) * 100 <= Room(bill'.supplementary)
    BY DEF TransferFits
  <2>1. q # r /\ q \in Process
    BY DEF Quiet, Process
  <2>2. proc'[q] = proc[q]
    BY <2>1 DEF OthersOf
  <2>. QED
    BY <2>1, <2>2, <1>4 DEF CapParts, TransferFits
<1>6. PlanFits'
  BY <1>0, <1>1, <1>4 DEF CapParts, PlanFits
<1>. QED
  BY <1>3, <1>5, <1>6 DEF CapParts

\* A request that credits units, or the worker when it touches no report
LEMMA BusyKeeps ==
  ASSUME Shape, CapParts, NEW p \in Process, p # Report, OthersOf(p),
         proc[p].pc \notin Quiet \/ \E c \in Call : task[c].status # "none",
         proc'[p].pc # "transferring",
         bill'.supplementary = bill.supplementary, UNCHANGED <<transferred, flagged>>,
         \A c \in ReportCall : task'[c].status # "none" => task[c].status # "none",
         p = Worker /\ proc[Worker].pc = "refreshing" =>
           task'[proc[Worker].call].status = "none"
  PROVE  CapParts'
<1>0. Report \in Process /\ Worker \in Process
  BY ThreeKinds
<1>1. proc'[Report] = proc[Report]
  BY <1>0 DEF OthersOf
<1>2. NoReportYet' /\ Covered'
  BY <1>1 DEF CapParts, NoReportYet, Covered, ByHand, Room
<1>3. TransferFits'
  <2>. SUFFICES ASSUME NEW q \in Request, proc'[q].pc = "transferring" PROVE FALSE
    BY DEF TransferFits
  <2>1. q # p /\ q \in Process
    BY DEF Process
  <2>2. proc'[q] = proc[q]
    BY <2>1 DEF OthersOf
  <2>. QED
    BY <2>1, <2>2, NobodyElse
<1>4. PlanFits'
  BY <1>1, NobodyElse DEF PlanFits
<1>5. ASSUME NEW c \in ReportCall, Queued(c)' PROVE Queued(c)
  <2>1. CASE p = Worker
    BY <1>5, <2>1 DEF Queued
  <2>2. CASE p # Worker
    <3>1. proc'[Worker] = proc[Worker]
      BY <1>0, <2>2 DEF OthersOf
    <3>. QED
      BY <1>5, <3>1 DEF Queued
  <2>. QED
    BY <2>1, <2>2
<1>6. QueueFits'
  <2>. SUFFICES ASSUME NEW c \in ReportCall, Queued(c)'
                PROVE  /\ proc'[Report].pc \in {"flagging", "done"} /\ bill'.supplementary = 0
                       /\ c.reason = "supplementary" => ByHand' \/ transferred' * 100 <= Room(c.value)
                       /\ \A d \in ReportCall : task'[d].status # "none" => d = c
    BY DEF QueueFits
  <2>1. Queued(c)
    BY <1>5
  <2>. QED
    BY <1>1, <2>1 DEF CapParts, QueueFits, ByHand
<1>. QED
  BY <1>2, <1>3, <1>4, <1>6 DEF CapParts

\* A request that has validated has seen all that was decided.
LEMMA ValidateKeeps ==
  ASSUME Shape, CapParts, unheard = NoAmounts, NEW r \in Request, OthersOf(r),
         proc'[r].pc = "transferring", proc'[r].call = proc[r].call, proc[r].call \in UnitsCall,
         MayApply(proc[r].call.value), SeesAll(r, copy),
         UNCHANGED <<bill, transferred, task, flagged>>
  PROVE  CapParts'
<1>0. r \in Process /\ r # Report /\ r # Worker /\ Report \in Process /\ Worker \in Process
  BY ThreeKinds DEF Process
<1>1. proc'[Report] = proc[Report] /\ proc'[Worker] = proc[Worker]
  BY <1>0 DEF OthersOf
<1>2. NoReportYet' /\ Covered' /\ QueueFits'
  BY <1>1 DEF CapParts, NoReportYet, Covered, ByHand, Room, QueueFits, Queued
<1>3. \A q \in Process \ {r} : proc'[q] = proc[q] /\ proc[q].pc \in Quiet
  BY DEF OthersOf, SeesAll, Quiet
<1>4. Alone(r)'
  BY <1>3 DEF Alone, SeesAll
<1>5. PICK v : v = proc[r].call.value
  OBVIOUS
<1>6. v \in Nat
  BY <1>5, AmountsAssumption DEF UnitsCall, Call
<1>7. /\ copy.supplementary = bill.supplementary /\ copy.units = transferred
      /\ transferred \in Nat /\ bill.supplementary \in Nat
  <2>1. unheard.units = 0
    BY DEF NoAmounts
  <2>2. bill.units \in Nat /\ transferred \in Nat /\ bill.supplementary \in Nat
    BY DEF Shape, Data, Amounts
  <2>. QED
    BY <2>1, <2>2 DEF SeesAll
<1>8. PICK limit : limit = CapLimit(bill.supplementary)
  OBVIOUS
<1>9. limit \in Int
  BY <1>7, <1>8, CapRoom
<1>10. v <= CapRemaining(copy) /\ CapRemaining(copy) > 0
  BY <1>5 DEF MayApply
<1>11. transferred + v <= limit
  BY <1>6, <1>7, <1>8, <1>9, <1>10 DEF CapRemaining
<1>12. PICK u : u = transferred + v
  OBVIOUS
<1>13. u \in Nat
  BY <1>6, <1>7, <1>12
<1>14. u * 100 <= Room(bill.supplementary)
  BY <1>7, <1>8, <1>11, <1>12, <1>13, CapRoom
<1>15. TransferFits'
  <2>. SUFFICES ASSUME NEW q \in Request, proc'[q].pc = "transferring"
                PROVE  /\ Alone(q)'
                       /\ (transferred' + proc'[q].call.value) * 100 <= Room(bill'.supplementary)
    BY DEF TransferFits
  <2>1. q = r
    BY <1>3 DEF Quiet, Process
  <2>. QED
    BY <2>1, <1>4, <1>5, <1>12, <1>14
<1>16. PlanFits'
  BY <1>0, <1>3 DEF PlanFits, Quiet
<1>. QED
  BY <1>2, <1>15, <1>16 DEF CapParts

\* What was validated is transferred.
LEMMA TransferKeeps ==
  ASSUME Shape, CapParts, NEW r \in Request, OthersOf(r),
         proc[r].pc = "transferring", proc'[r].pc = "posting",
         transferred' = transferred + proc[r].call.value, UNCHANGED <<bill, task, flagged>>
  PROVE  CapParts'
<1>0. r \in Process /\ r # Report /\ r # Worker /\ Report \in Process /\ Worker \in Process
  BY ThreeKinds DEF Process
<1>1. proc'[Report] = proc[Report] /\ proc'[Worker] = proc[Worker]
  BY <1>0 DEF OthersOf
<1>2. Alone(r) /\ transferred' * 100 <= Room(bill'.supplementary)
  BY DEF CapParts, TransferFits
<1>3. NoReportYet' /\ Covered'
  BY <1>1, <1>2 DEF CapParts, NoReportYet, Covered
<1>4. \A q \in Process \ {r} : proc'[q] = proc[q] /\ proc[q].pc \in Quiet
  BY <1>2 DEF OthersOf, Alone
<1>5. TransferFits' /\ PlanFits'
  BY <1>0, <1>4 DEF TransferFits, PlanFits, Quiet, Process
<1>6. QueueFits'
  BY <1>2 DEF QueueFits, Queued, Alone, ReportCall
<1>. QED
  BY <1>3, <1>5, <1>6 DEF CapParts

\* The worker adjusts the fee for the report.
LEMMA WorkerAdjustKeeps ==
  ASSUME Shape, CapParts, NEW c \in ReportCall, c = proc[Worker].call,
         proc[Worker].pc = "posting", proc'[Worker].pc = "refreshing", proc'[Worker].call = c,
         OthersOf(Worker), bill' = Adjusted(bill, c), UNCHANGED <<transferred, task, flagged>>
  PROVE  CapParts'
<1>0. Report \in Process /\ Worker \in Process /\ Worker # Report /\ c \in Call
  BY ThreeKinds DEF ReportCall
<1>1. proc'[Report] = proc[Report]
  BY <1>0 DEF OthersOf
<1>2. task[c].status # "none"
  BY <1>0, PostingCall
<1>3. Queued(c)
  BY <1>2 DEF Queued
<1>4. /\ proc[Report].pc \in {"flagging", "done"} /\ bill.supplementary = 0
      /\ c.reason = "supplementary" => ByHand \/ transferred * 100 <= Room(c.value)
      /\ \A d \in ReportCall : task[d].status # "none" => d = c
  BY <1>3 DEF CapParts, QueueFits
<1>5. /\ c.value \in Nat
      /\ bill'.supplementary = IF c.reason = "supplementary" THEN c.value ELSE 0
  BY <1>0, <1>4, AdjustedAmounts DEF Shape, Data
<1>6. Covered'
  <2>1. CASE c.reason = "supplementary"
    <3>1. bill'.supplementary = c.value
      BY <1>5, <2>1
    <3>2. ByHand => ByHand' /\ proc'[Report].pc # "posting"
      BY <1>1, <1>4 DEF ByHand
    <3>. QED
      BY <1>4, <2>1, <3>1, <3>2 DEF Covered
  <2>2. CASE c.reason # "supplementary"
    <3>1. bill'.supplementary = bill.supplementary
      BY <1>4, <1>5, <2>2
    <3>. QED
      BY <1>1, <3>1 DEF CapParts, Covered, ByHand
  <2>. QED
    BY <2>1, <2>2
<1>7. \A r \in Request : proc[r].pc # "transferring" /\ proc'[r] = proc[r]
  BY <1>0, NobodyElse, ThreeKinds DEF OthersOf, Quiet, Process
<1>8. TransferFits' /\ PlanFits' /\ NoReportYet'
  BY <1>1, <1>4, <1>7 DEF TransferFits, PlanFits, NoReportYet
<1>9. QueueFits'
  BY <1>4 DEF QueueFits, Queued
<1>. QED
  BY <1>6, <1>8, <1>9 DEF CapParts

\* The report adjusts the fee, or leaves it to the worker.
LEMMA ReportPosts ==
  ASSUME Shape, CapParts, NEW c, c = proc[Report].call, proc[Report].pc = "posting",
         OthersOf(Report), proc'[Report].over = proc[Report].over,
         UNCHANGED <<transferred, flagged>>,
         \/ proc'[Report].pc = "refreshing" /\ bill' = Adjusted(bill, c) /\ task' = task
         \/ /\ proc'[Report].pc = "flagging" /\ bill' = bill
            /\ task'[c].status # "none" /\ \A d \in Call \ {c} : task'[d] = task[d]
  PROVE  CapParts'
<1>0. Report \in Process /\ Worker \in Process /\ Worker # Report /\ c \in ReportCall /\ c \in Call
  BY ThreeKinds, PostingCall DEF ReportCall
<1>1. /\ Alone(Report) /\ bill.supplementary = 0
      /\ c.reason = "supplementary" =>
           proc[Report].over \/ transferred * 100 <= Room(c.value)
  BY DEF CapParts, PlanFits
<1>2. transferred * 100 <= Room(0)
  BY <1>1 DEF CapParts, Covered
<1>3. \A q \in Process \ {Report} : proc'[q] = proc[q] /\ proc[q].pc \in Quiet
  BY <1>1 DEF OthersOf, Alone
<1>4. TransferFits' /\ PlanFits' /\ NoReportYet'
  <2>1. \A r \in Request : proc'[r].pc # "transferring"
    BY <1>3, ThreeKinds DEF Quiet, Process
  <2>2. proc'[Report].pc \notin {"idle", "posting"}
    OBVIOUS
  <2>. QED
    BY <2>1, <2>2 DEF TransferFits, PlanFits, NoReportYet
<1>5. CASE proc'[Report].pc = "refreshing" /\ bill' = Adjusted(bill, c) /\ task' = task
  <2>1. /\ c.value \in Nat
        /\ bill'.supplementary = IF c.reason = "supplementary" THEN c.value ELSE 0
    BY <1>0, <1>1, <1>5, AdjustedAmounts DEF Shape, Data
  <2>2. Covered'
    <3>1. CASE proc[Report].over
      BY <1>5, <3>1 DEF Covered, ByHand
    <3>2. CASE ~proc[Report].over
      <4>1. transferred * 100 <= Room(bill'.supplementary)
        <5>1. CASE c.reason = "supplementary"
          <6>1. bill'.supplementary = c.value
            BY <2>1, <5>1
          <6>. QED
            BY <1>1, <3>2, <5>1, <6>1
        <5>2. CASE c.reason # "supplementary"
          <6>1. bill'.supplementary = 0
            BY <2>1, <5>2
          <6>. QED
            BY <1>2, <6>1
        <5>. QED
          BY <5>1, <5>2
      <4>. QED
        BY <4>1 DEF Covered
    <3>. QED
      BY <3>1, <3>2
  <2>3. QueueFits'
    BY <1>1, <1>5 DEF QueueFits, Queued, Alone, ReportCall
  <2>. QED
    BY <1>4, <2>2, <2>3 DEF CapParts
<1>6. CASE /\ proc'[Report].pc = "flagging" /\ bill' = bill
           /\ task'[c].status # "none" /\ \A d \in Call \ {c} : task'[d] = task[d]
  <2>1. Covered'
    BY <1>1, <1>2, <1>6 DEF Covered
  <2>2. \A d \in ReportCall : task'[d].status # "none" => d = c
    BY <1>1, <1>6 DEF Alone, ReportCall
  <2>3. proc[Report].over => ByHand'
    BY <1>6 DEF ByHand
  <2>4. QueueFits'
    <3>. SUFFICES ASSUME NEW d \in ReportCall, Queued(d)'
                  PROVE  /\ proc'[Report].pc \in {"flagging", "done"} /\ bill'.supplementary = 0
                         /\ d.reason = "supplementary" => ByHand' \/ transferred' * 100 <= Room(d.value)
                         /\ \A e \in ReportCall : task'[e].status # "none" => e = d
      BY DEF QueueFits
    <3>1. d = c
      BY <2>2 DEF Queued
    <3>. QED
      BY <1>1, <1>6, <2>2, <2>3, <3>1
  <2>. QED
    BY <1>4, <2>1, <2>4 DEF CapParts
<1>. QED
  BY <1>5, <1>6

\* The report is over with its adjustment, and then with its record.
LEMMA ReportReturns ==
  ASSUME Shape, CapParts, OthersOf(Report),
         proc[Report].pc \in {"refreshing", "flagging"}, proc'[Report].pc \in {"flagging", "done"},
         ByHand => ByHand', UNCHANGED <<bill, transferred, task>>
  PROVE  CapParts'
<1>0. Report \in Process /\ Worker \in Process /\ Worker # Report
  BY ThreeKinds
<1>1. proc'[Worker] = proc[Worker]
  BY <1>0 DEF OthersOf
<1>2. ASSUME NEW r \in Request, proc'[r].pc = "transferring" PROVE FALSE
  <2>1. r \in Process /\ r # Report
    BY ThreeKinds DEF Process
  <2>2. proc[r].pc = "transferring"
    BY <1>2, <2>1 DEF OthersOf
  <2>3. Alone(r)
    BY <2>2 DEF CapParts, TransferFits
  <2>. QED
    BY <1>0, <2>1, <2>3 DEF Alone, Quiet
<1>3. TransferFits' /\ PlanFits' /\ NoReportYet'
  BY <1>2 DEF TransferFits, PlanFits, NoReportYet
<1>4. Covered'
  BY DEF CapParts, Covered
<1>5. QueueFits'
  <2>. SUFFICES ASSUME NEW c \in ReportCall, Queued(c)'
                PROVE  /\ proc'[Report].pc \in {"flagging", "done"} /\ bill'.supplementary = 0
                       /\ c.reason = "supplementary" => ByHand' \/ transferred' * 100 <= Room(c.value)
                       /\ \A d \in ReportCall : task'[d].status # "none" => d = c
    BY DEF QueueFits
  <2>1. Queued(c)
    BY <1>1 DEF Queued
  <2>. QED
    BY <2>1 DEF CapParts, QueueFits
<1>. QED
  BY <1>3, <1>4, <1>5 DEF CapParts

\* The report plans with all that was decided before it.
LEMMA PlanKeeps ==
  ASSUME Shape, CapParts, Shape', unheard = NoAmounts, NEW d \in Decrease, NEW c1 \in Amounts,
         OthersOf(Report), proc[Report].pc = "idle", SeesAll(Report, c1),
         \/ proc'[Report].pc = "flagging"
         \/ Outstanding(c1) > 0 /\ proc'[Report] = Plan(c1, d),
         UNCHANGED <<bill, transferred, task, flagged>>
  PROVE  CapParts'
<1>0. Report \in Process /\ Worker \in Process /\ Worker # Report
  BY ThreeKinds
<1>1. /\ ~flagged /\ bill.supplementary = 0 /\ ~proc[Report].over
      /\ transferred * 100 <= Room(bill.supplementary)
  BY DEF Shape, CapParts, NoReportYet, Covered, ByHand
<1>2. \A q \in Process \ {Report} : proc'[q] = proc[q] /\ proc[q].pc \in Quiet
  BY DEF OthersOf, SeesAll, Quiet
<1>3. Alone(Report)'
  BY <1>2 DEF Alone, SeesAll
<1>4. transferred = c1.units /\ c1.supplementary = 0 /\ transferred \in Nat
  <2>1. unheard.units = 0
    BY DEF NoAmounts
  <2>2. bill.units \in Nat /\ transferred \in Nat
    BY DEF Shape, Data, Amounts
  <2>. QED
    BY <1>1, <2>1, <2>2 DEF SeesAll
<1>5. QueueFits'
  BY DEF QueueFits, Queued, SeesAll, ReportCall
<1>6. TransferFits'
  BY <1>2, ThreeKinds DEF TransferFits, Quiet, Process
<1>7. CASE proc'[Report].pc = "flagging"
  <2>1. Covered'
    BY <1>1 DEF Covered
  <2>2. PlanFits' /\ NoReportYet'
    BY <1>7 DEF PlanFits, NoReportYet
  <2>. QED
    BY <1>5, <1>6, <2>1, <2>2 DEF CapParts
<1>8. CASE Outstanding(c1) > 0 /\ proc'[Report] = Plan(c1, d)
  <2>1. PICK y : y = proc'[Report]
    OBVIOUS
  <2>2. /\ y.pc = "posting" /\ y.over \in BOOLEAN /\ y.call \in ReportCall
        /\ (~y.over /\ y.call.reason = "supplementary") =>
             c1.units <= CapLimit(c1.supplementary + y.call.value)
    BY <1>8, <2>1, PlanIsCall
  <2>3. Covered'
    BY <1>1 DEF Covered
  <2>4. PlanFits'
    <3>1. PICK v : v = y.call.value
      OBVIOUS
    <3>2. v \in Nat
      BY <2>2, <3>1, AdjustedAmounts DEF Shape, Data, ReportCall
    <3>3. (~y.over /\ y.call.reason = "supplementary") => transferred * 100 <= Room(v)
      <4>1. 0 + v = v
        BY <3>2
      <4>2. (~y.over /\ y.call.reason = "supplementary") => transferred <= CapLimit(v)
        BY <1>4, <2>2, <3>1, <4>1
      <4>. QED
        BY <1>4, <3>2, <4>2, CapRoom
    <3>. QED
      BY <1>1, <1>3, <2>1, <3>1, <3>3 DEF PlanFits
  <2>5. NoReportYet'
    BY <2>1, <2>2 DEF NoReportYet
  <2>. QED
    BY <1>5, <1>6, <2>3, <2>4, <2>5 DEF CapParts
<1>. QED
  BY <1>7, <1>8

\* create_adjustment in a request or in the worker
LEMMA AdjustmentKeeps ==
  ASSUME Shape, CapParts, Clean, Clean', NEW p \in Process, p # Report, Adjustment(p)
  PROVE  CapParts'
<1>0. Worker \in Process /\ Worker # Report
  BY ThreeKinds
<1>1. CASE AdjustFee(p)
  <2>1. PICK c : c = proc[p].call
    OBVIOUS
  <2>2. /\ OthersOf(p) /\ proc[p].pc = "posting" /\ proc'[p].pc = "refreshing"
        /\ proc'[p].call = c /\ bill' = Adjusted(bill, c) /\ UNCHANGED <<transferred, task, flagged>>
    BY <1>1, <2>1, AdjustFeeShape
  <2>3. c \in Call /\ (p # Worker => c \in UnitsCall)
    BY <2>1, <2>2, PostingCall, ThreeKinds
  <2>4. CASE c \in UnitsCall
    <3>1. bill'.supplementary = bill.supplementary
      BY <2>2, <2>3, <2>4, AdjustedAmounts DEF UnitsCall, Shape, Data
    <3>2. proc[p].pc \notin Quiet /\ proc'[p].pc # "transferring"
      BY <2>2 DEF Quiet
    <3>3. \A d \in ReportCall : task'[d].status # "none" => task[d].status # "none"
      BY <2>2
    <3>4. ~(p = Worker /\ proc[Worker].pc = "refreshing")
      BY <2>2
    <3>. QED
      BY <2>2, <3>1, <3>2, <3>3, <3>4, BusyKeeps
  <2>5. CASE c \in ReportCall
    <3>1. p = Worker
      BY <2>3, <2>5 DEF ReportCall
    <3>. QED
      BY <2>1, <2>2, <2>5, <3>1, WorkerAdjustKeeps
  <2>. QED
    BY <2>3, <2>4, <2>5 DEF ReportCall
<1>2. CASE AdjustFails(p) \/ AdjustUnanswered(p)
  <2>1. PICK c : c = proc[p].call
    OBVIOUS
  <2>2. /\ OthersOf(p) /\ proc[p].pc = "posting" /\ proc'[p].pc \in {"done", "idle"}
        /\ \A d \in Call \ {c} : task'[d] = task[d]
        /\ bill' = bill /\ UNCHANGED <<transferred, flagged>>
    BY <1>2, <2>1, AdjustFailsShape, ThreeKinds DEF Clean
  <2>3. /\ c \in Call /\ (p # Worker => c \in UnitsCall)
        /\ p = Worker => task[c].status # "none"
    BY <2>1, <2>2, PostingCall, ThreeKinds
  <2>4. \A d \in ReportCall : task'[d].status # "none" => task[d].status # "none"
    BY <2>2, <2>3 DEF ReportCall
  <2>5. proc[p].pc \notin Quiet /\ proc'[p].pc # "transferring"
    BY <2>2 DEF Quiet
  <2>6. ~(p = Worker /\ proc[Worker].pc = "refreshing")
    BY <2>2
  <2>. QED
    BY <2>2, <2>4, <2>5, <2>6, BusyKeeps
<1>3. CASE RefreshAfter(p) \/ RefreshAfterFails(p)
  <2>1. PICK c : c = proc[p].call
    OBVIOUS
  <2>2. /\ OthersOf(p) /\ proc[p].pc = "refreshing" /\ proc'[p].pc \in {"done", "idle"}
        /\ p = Worker => task'[c].status = "none"
        /\ \A d \in Call \ {c} : task'[d] = task[d]
        /\ p # Worker => task' = task
        /\ bill' = bill /\ UNCHANGED <<transferred, flagged>>
    BY <1>3, <2>1, RefreshAfterShape, ThreeKinds
  <2>3. \A d \in ReportCall : task'[d].status # "none" => task[d].status # "none"
    BY <2>2 DEF ReportCall
  <2>4. proc[p].pc \notin Quiet /\ proc'[p].pc # "transferring"
    BY <2>2 DEF Quiet
  <2>. QED
    BY <2>1, <2>2, <2>3, <2>4, BusyKeeps
<1>. QED
  BY <1>1, <1>2, <1>3 DEF Adjustment

\* create_adjustment for the report
LEMMA ReportAdjustmentKeeps ==
  ASSUME Shape, CapParts, Clean, Clean', Adjustment(Report)
  PROVE  CapParts'
<1>0. Report \in Process /\ Report \notin Request /\ Report # Worker
  BY ThreeKinds
<1>1. CASE AdjustFee(Report) \/ AdjustFails(Report) \/ AdjustUnanswered(Report)
  <2>1. PICK c : c = proc[Report].call
    OBVIOUS
  <2>2. CASE AdjustFee(Report)
    <3>1. /\ OthersOf(Report) /\ proc[Report].pc = "posting" /\ proc'[Report].pc = "refreshing"
          /\ proc'[Report].over = proc[Report].over /\ bill' = Adjusted(bill, c)
          /\ UNCHANGED <<transferred, task, flagged>>
      BY <1>0, <2>1, <2>2, AdjustFeeShape
    <3>. QED
      BY <2>1, <3>1, ReportPosts
  <2>3. CASE AdjustFails(Report) \/ AdjustUnanswered(Report)
    <3>1. /\ OthersOf(Report) /\ proc[Report].pc = "posting" /\ proc'[Report].pc = "flagging"
          /\ proc'[Report].over = proc[Report].over /\ task'[c].status # "none"
          /\ \A d \in Call \ {c} : task'[d] = task[d]
          /\ bill' = bill /\ UNCHANGED <<transferred, flagged>>
      BY <1>0, <2>1, <2>3, AdjustFailsShape DEF Clean
    <3>. QED
      BY <2>1, <3>1, ReportPosts
  <2>. QED
    BY <1>1, <2>2, <2>3
<1>2. CASE RefreshAfter(Report) \/ RefreshAfterFails(Report)
  <2>1. /\ OthersOf(Report) /\ proc[Report].pc = "refreshing" /\ proc'[Report].pc = "flagging"
        /\ proc'[Report].over = proc[Report].over /\ task' = task
        /\ UNCHANGED <<bill, transferred, flagged>>
    BY <1>0, <1>2, RefreshAfterShape
  <2>2. ByHand => ByHand'
    BY <2>1 DEF ByHand
  <2>. QED
    BY <2>1, <2>2, ReportReturns
<1>. QED
  BY <1>1, <1>2 DEF Adjustment

LEMMA StartRetryKeeps ==
  ASSUME Shape, CapParts, NEW c \in Call, StartRetry(c)
  PROVE  CapParts'
<1>0. Worker \in Process /\ Worker # Report
  BY ThreeKinds
<1>1. /\ OthersOf(Worker) /\ proc[Worker].pc = "idle" /\ proc'[Worker].pc = "posting"
      /\ task[c].status # "none" /\ bill' = bill /\ UNCHANGED <<transferred, flagged>>
      /\ \A d \in Call : task'[d].status = "none" <=> task[d].status = "none"
  BY StartRetryShape
<1>2. \A d \in ReportCall : task'[d].status # "none" => task[d].status # "none"
  BY <1>1 DEF ReportCall
<1>3. (\E d \in Call : task[d].status # "none") /\ proc'[Worker].pc # "transferring"
  BY <1>1
<1>4. ~(Worker = Worker /\ proc[Worker].pc = "refreshing")
  BY <1>1
<1>. QED
  BY <1>0, <1>1, <1>2, <1>3, <1>4, BusyKeeps

LEMMA RequestKeeps ==
  ASSUME Shape, CapParts, Clean, Clean', NEW r \in Request,
         Advance(r) \/ \E v \in Value : Ask(r, v)
  PROVE  CapParts'
<1>0. r \in Process /\ r # Report /\ r # Worker
  BY ThreeKinds DEF Process
<1>1. CASE UseCopy(r) \/ NotFresh(r) \/ Refuse(r) \/ \E v \in Value : Ask(r, v)
  <2>1. /\ OthersOf(r) /\ proc'[r].pc \in Quiet /\ bill' = bill
        /\ UNCHANGED <<transferred, task, flagged>>
    BY <1>1, AskingShape
  <2>. QED
    BY <2>1, RestKeeps
<1>2. CASE Validate(r)
  BY <1>2, ValidateShape, ValidateKeeps DEF Clean
<1>3. CASE Transfer(r)
  BY <1>3, TransferShape, TransferKeeps
<1>4. CASE TransferFails(r) \/ TransferUnanswered(r)
  <2>1. /\ OthersOf(r) /\ proc'[r].pc \in Quiet /\ bill' = bill
        /\ UNCHANGED <<transferred, task, flagged>>
    BY <1>4, TransferFailsShape DEF Clean, Quiet
  <2>. QED
    BY <2>1, RestKeeps
<1>5. CASE Adjustment(r)
  BY <1>0, <1>5, AdjustmentKeeps
<1>. QED
  BY <1>1, <1>2, <1>3, <1>4, <1>5 DEF Advance

LEMMA ReportKeeps ==
  ASSUME Shape, CapParts, Clean, Clean', Flag \/ \E d \in Decrease : PlanDecrease(d)
  PROVE  CapParts'
<1>1. CASE \E d \in Decrease : PlanDecrease(d)
  <2>1. PICK d \in Decrease : PlanDecrease(d)
    BY <1>1
  <2>2. PICK c1 : c1 = copy'
    OBVIOUS
  <2>3. /\ Shape' /\ OthersOf(Report) /\ proc[Report].pc = "idle" /\ c1 \in Amounts
        /\ \/ proc'[Report].pc = "flagging"
           \/ Outstanding(c1) > 0 /\ proc'[Report] = Plan(c1, d)
        /\ blind' \/ (SeesAll(Report, c1) /\ ~blind)
        /\ UNCHANGED <<bill, unheard, transferred, task, flagged, dropped>>
    BY <2>1, <2>2, PlanShape
  <2>4. SeesAll(Report, c1) /\ unheard = NoAmounts
    BY <2>3 DEF Clean
  <2>. QED
    BY <2>3, <2>4, PlanKeeps
<1>2. CASE Flag
  <2>1. /\ OthersOf(Report) /\ proc[Report].pc = "flagging" /\ proc'[Report].pc = "done"
        /\ ~flagged /\ (flagged' <=> proc[Report].over) /\ UNCHANGED <<bill, transferred, task>>
    BY <1>2, FlagShape
  <2>2. ByHand => ByHand'
    BY <2>1 DEF ByHand
  <2>. QED
    BY <2>1, <2>2, ReportReturns
<1>. QED
  BY <1>1, <1>2

LEMMA OutsideKeeps ==
  ASSUME Shape, CapParts, bill'.supplementary = bill.supplementary,
         UNCHANGED <<transferred, task, proc, flagged>>
  PROVE  CapParts'
<1>1. NoReportYet' /\ Covered'
  BY DEF CapParts, NoReportYet, Covered, ByHand, Room
<1>2. TransferFits' /\ PlanFits'
  BY DEF CapParts, TransferFits, PlanFits, Alone, Room
<1>3. QueueFits'
  BY DEF CapParts, QueueFits, Queued, ByHand, Room
<1>. QED
  BY <1>1, <1>2, <1>3 DEF CapParts

\* What was decided blindly, lost or not answered stays so.
LEMMA CleanBefore ==
  ASSUME Shape, [Next]_vars, Clean'
  PROVE  Clean
<1>1. ASSUME NEW p \in Process, Adjustment(p) PROVE Clean
  <2>1. CASE AdjustUnanswered(p)
    <3>1. PICK c : c = proc[p].call
      OBVIOUS
    <3>2. c \in Call
      BY <2>1, <3>1, PostingCall DEF AdjustUnanswered
    <3>3. unheard' = Adjusted(unheard, c)
      BY <2>1, <3>1 DEF AdjustUnanswered
    <3>. QED
      BY <3>2, <3>3, UnheardShows DEF Clean, Shape, Data
  <2>2. CASE AdjustFee(p) \/ AdjustFails(p) \/ RefreshAfter(p) \/ RefreshAfterFails(p)
    BY <2>2 DEF AdjustFee, AdjustFails, RefreshAfter, RefreshAfterFails, Clean
  <2>. QED
    BY <1>1, <2>1, <2>2 DEF Adjustment
<1>2. ASSUME NEW r \in Request, Advance(r) \/ \E v \in Value : Ask(r, v) PROVE Clean
  <2>1. CASE UseCopy(r) \/ NotFresh(r) \/ Refuse(r) \/ \E v \in Value : Ask(r, v)
    BY <2>1, AskingShape DEF Clean
  <2>2. CASE Validate(r)
    BY <2>2, ValidateShape DEF Clean
  <2>3. CASE Transfer(r)
    BY <2>3, TransferShape DEF Clean
  <2>4. CASE TransferFails(r) \/ TransferUnanswered(r)
    BY <2>4, TransferFailsShape DEF Clean
  <2>5. CASE Adjustment(r)
    BY <1>1, <2>5 DEF Process
  <2>. QED
    BY <1>2, <2>1, <2>2, <2>3, <2>4, <2>5 DEF Advance
<1>3. ASSUME NEW d \in Decrease, PlanDecrease(d) PROVE Clean
  <2>1. PICK c1 : c1 = copy'
    OBVIOUS
  <2>2. /\ blind' \/ (SeesAll(Report, c1) /\ ~blind)
        /\ UNCHANGED <<bill, unheard, transferred, task, flagged, dropped>>
    BY <1>3, <2>1, PlanShape
  <2>. QED
    BY <2>2 DEF Clean
<1>4. CASE Flag
  BY <1>4, FlagShape DEF Clean
<1>5. ASSUME NEW c \in Call, StartRetry(c) PROVE Clean
  BY <1>5, StartRetryShape DEF Clean
<1>6. ASSUME NEW p \in Process, Crash(p) PROVE Clean
  BY <1>6, CrashShape DEF Clean
<1>7. CASE RefreshByOthers \/ Expire \/ (\E v \in Payment : Pay(v)) \/ UNCHANGED vars
  BY <1>7, OutsideShape DEF Clean
<1>. QED
  BY <1>1, <1>2, <1>3, <1>4, <1>5, <1>6, <1>7, ThreeKinds DEF Next, Work

LEMMA CapStep == CapInv /\ [Next]_vars => CapInv'
<1>. SUFFICES ASSUME CapInv, [Next]_vars PROVE CapInv'
  OBVIOUS
<1>1. Shape /\ Shape'
  BY ShapeStep DEF CapInv
<1>. SUFFICES ASSUME Clean' PROVE CapParts'
  BY <1>1 DEF CapInv
<1>2. Clean /\ CapParts
  BY <1>1, CleanBefore DEF CapInv
<1>3. ASSUME NEW r \in Request, Advance(r) \/ \E v \in Value : Ask(r, v) PROVE CapParts'
  BY <1>1, <1>2, <1>3, RequestKeeps
<1>4. CASE Adjustment(Report)
  BY <1>1, <1>2, <1>4, ReportAdjustmentKeeps
<1>5. CASE Flag \/ \E d \in Decrease : PlanDecrease(d)
  BY <1>1, <1>2, <1>5, ReportKeeps
<1>6. CASE Work
  BY <1>1, <1>2, <1>6, AdjustmentKeeps, StartRetryKeeps, ThreeKinds DEF Work
<1>7. ASSUME NEW p \in Process, Crash(p) PROVE FALSE
  BY <1>1, <1>7, CrashShape DEF Clean
<1>8. CASE RefreshByOthers \/ Expire \/ (\E v \in Payment : Pay(v)) \/ UNCHANGED vars
  BY <1>1, <1>2, <1>8, OutsideShape, OutsideKeeps
<1>. QED
  BY <1>3, <1>4, <1>5, <1>6, <1>7, <1>8 DEF Next

LEMMA CapInit == Init => CapInv
<1>. SUFFICES ASSUME Init PROVE CapInv
  OBVIOUS
<1>1. \A p \in Process : proc[p].pc = "idle" /\ ~proc[p].over
  BY DEF Init, Idle, At
<1>2. \A c \in Call : task[c].status = "none"
  BY DEF Init, NoTask
<1>3. bill.supplementary = 0 /\ transferred = 0
  BY DEF Init, NoAmounts
<1>4. NoReportYet /\ QueueFits
  BY <1>1, <1>2, <1>3, ThreeKinds DEF NoReportYet, QueueFits, Queued, ReportCall
<1>5. TransferFits /\ PlanFits
  BY <1>1, ThreeKinds DEF TransferFits, PlanFits, Process
<1>6. Covered
  <2>1. 0 <= Room(0)
    BY CapRoom
  <2>. QED
    BY <1>3, <2>1 DEF Covered
<1>. QED
  BY <1>4, <1>5, <1>6, ShapeInit DEF CapInv, CapParts

\* The units in the compliance account stay within the share of the reduced
\* obligation that may be met with units, or the report that reduced it is
\* handled by hand, if nobody decided without seeing an earlier decision
\* (validation, cap and the check of a decrease, against concurrent adjustments).
THEOREM WithinCapHolds == Spec => []WithinCap
<1>1. CapInv => WithinCap
  <2>. SUFFICES ASSUME CapInv PROVE WithinCap
    OBVIOUS
  <2>1. CASE ~Clean
    BY <2>1 DEF Clean, WithinCap
  <2>2. CASE transferred * 100 <= Room(bill.supplementary)
    BY <2>2 DEF Room, WithinCap
  <2>3. CASE flagged
    BY <2>3 DEF WithinCap
  <2>4. CASE Clean /\ proc[Report].over /\ proc[Report].pc \notin {"posting", "done"}
    <3>1. Fits(Report, proc[Report])
      BY ThreeKinds DEF CapInv, Shape, Stages
    <3>2. proc[Report].pc # "idle"
      BY <2>4 DEF CapInv, CapParts, NoReportYet
    <3>. QED
      BY <2>4, <3>1, <3>2 DEF Fits, WithinCap
  <2>. QED
    BY <2>1, <2>2, <2>3, <2>4 DEF CapInv, CapParts, Covered, ByHand
<1>. QED
  BY CapInit, CapStep, <1>1, PTL DEF Spec

-----------------------------------------------------------------------------
(* Credits follow transfers *)

\* A sum of money as a set: each dollar of f[o], for each o in S
Dollars(f, S) == {d \in S \X (Nat \ {0}) : d[2] <= f[d[1]]}

\* What a request or the worker has still to adjust for units, by request ...
RequestOf(p) == IF p \in Request /\ proc[p].pc = "posting" THEN proc[p].call.value ELSE 0

\* ... and by call in the retry queue
Waiting(c) ==
  \/ task[c].status \in {"pending", "failed"}
  \/ proc[Worker].pc = "posting" /\ proc[Worker].call = c
CallOf(c) == IF c \in UnitsCall /\ Waiting(c) THEN c.value ELSE 0

RequestsOwe == Dollars([r \in Request |-> RequestOf(r)], Request)
CallsOwe == Dollars([c \in UnitsCall |-> CallOf(c)], UnitsCall)

Credited == bill.units - unheard.units

\* The worker makes a call only while its row is running.
Running == proc[Worker].pc = "posting" => task[proc[Worker].call].status = "running"

\* Credits and adjustments that are to be made are covered by transfers.
CreditInv ==
  /\ IsFiniteSet(RequestsOwe) /\ IsFiniteSet(CallsOwe)
  /\ Credited >= 0
  /\ Credited + Cardinality(RequestsOwe) + Cardinality(CallsOwe) <= transferred
  /\ Running

\* The sum when one of its terms changes
LEMMA DollarsChange ==
  ASSUME NEW S, NEW f \in [S -> Nat], NEW g \in [S -> Nat], NEW a \in S,
         \A o \in S \ {a} : g[o] = f[o], IsFiniteSet(Dollars(f, S))
  PROVE  /\ IsFiniteSet(Dollars(g, S))
         /\ Cardinality(Dollars(g, S)) = Cardinality(Dollars(f, S)) - f[a] + g[a]
<1>. DEFINE Block(n) == {a} \X (1..n)
            Rest == Dollars(f, S) \ Block(f[a])
<1>1. ASSUME NEW n \in Nat PROVE IsFiniteSet(Block(n)) /\ Cardinality(Block(n)) = n
  <2>1. IsFiniteSet({a}) /\ Cardinality({a}) = 1
    BY FS_Singleton
  <2>2. IsFiniteSet(1..n) /\ Cardinality(1..n) = n
    <3>1. 1 \in Int /\ n \in Int
      OBVIOUS
    <3>2. IsFiniteSet(1..n) /\ Cardinality(1..n) = IF 1 > n THEN 0 ELSE n - 1 + 1
      BY <3>1, FS_Interval
    <3>. QED
      BY <3>2
  <2>3. IsFiniteSet(Block(n)) /\ Cardinality(Block(n)) = 1 * n
    BY <2>1, <2>2, FS_Product
  <2>. QED
    BY <2>3
<1>2. f[a] \in Nat /\ g[a] \in Nat
  OBVIOUS
<1>3. Dollars(f, S) \cap Block(f[a]) = Block(f[a])
  BY <1>2 DEF Dollars
<1>4. IsFiniteSet(Rest) /\ Cardinality(Rest) = Cardinality(Dollars(f, S)) - f[a]
  <2>1. IsFiniteSet(Block(f[a])) /\ Cardinality(Block(f[a])) = f[a]
    BY <1>1, <1>2
  <2>. HIDE DEF Block
  <2>2. IsFiniteSet(Rest)
        /\ Cardinality(Rest) = Cardinality(Dollars(f, S)) - Cardinality(Dollars(f, S) \cap Block(f[a]))
    BY FS_Difference
  <2>. QED
    BY <1>3, <2>1, <2>2
<1>5. Rest \cap Block(g[a]) = {}
  BY <1>2 DEF Dollars
<1>6. Dollars(g, S) = Rest \cup Block(g[a])
  BY <1>2 DEF Dollars
<1>7. Cardinality(Dollars(f, S)) \in Nat /\ Cardinality(Rest) \in Nat
  BY <1>4, FS_CardinalityType
<1>. QED
  <2>1. IsFiniteSet(Block(g[a])) /\ Cardinality(Block(g[a])) = g[a]
    BY <1>1, <1>2
  <2>. HIDE DEF Block, Rest
  <2>2. /\ IsFiniteSet(Rest \cup Block(g[a]))
        /\ Cardinality(Rest \cup Block(g[a])) =
             Cardinality(Rest) + Cardinality(Block(g[a])) - Cardinality(Rest \cap Block(g[a]))
    BY <1>4, <2>1, FS_Union
  <2>3. Cardinality(Rest \cap Block(g[a])) = 0
    BY <1>5, FS_EmptySet
  <2>. QED
    BY <1>2, <1>4, <1>6, <1>7, <2>1, <2>2, <2>3

\* No request and no row owes anything yet.
LEMMA CreditInit == Init => CreditInv /\ Ledger!Init
<1>. SUFFICES ASSUME Init PROVE CreditInv /\ Ledger!Init
  OBVIOUS
<1>1. \A p \in Process : proc[p].pc = "idle"
  BY DEF Init, Idle, At
<1>2. \A c \in Call : ~Waiting(c)
  BY <1>1, ThreeKinds DEF Init, NoTask, Waiting
<1>3. bill.units = 0 /\ unheard.units = 0 /\ transferred = 0
  BY DEF Init, NoAmounts
<1>4. \A p \in Request : RequestOf(p) = 0
  BY <1>1 DEF RequestOf, Process
<1>5. \A c \in UnitsCall : CallOf(c) = 0
  BY <1>2 DEF CallOf, UnitsCall
<1>6. RequestsOwe = {}
  BY <1>4 DEF RequestsOwe, Dollars
<1>7. CallsOwe = {}
  BY <1>5 DEF CallsOwe, Dollars
<1>8. IsFiniteSet({}) /\ Cardinality({}) = 0
  BY FS_EmptySet
<1>9. CreditInv
  <2>1. Credited = 0
    BY <1>3 DEF Credited
  <2>. QED
    BY <1>1, <1>3, <1>6, <1>7, <1>8, <2>1, ThreeKinds DEF CreditInv, Running
<1>. QED
  BY <1>3, <1>9 DEF Ledger!Init

\* What a process or a call owes is a sum of money.
Amounted ==
  /\ \A p \in Process : RequestOf(p) \in Nat
  /\ \A c : CallOf(c) \in Nat
  /\ \A p \in Process : proc[p].pc = "posting" /\ p \in Request =>
       RequestOf(p) = proc[p].call.value /\ RequestOf(p) > 0

LEMMA OwedAmounts == Shape => Amounted
<1>. SUFFICES ASSUME Shape PROVE Amounted
  OBVIOUS
<1>1. \A p \in Process : RequestOf(p) \in Nat
        /\ (proc[p].pc = "posting" /\ p \in Request =>
              RequestOf(p) = proc[p].call.value /\ RequestOf(p) > 0)
  <2>. SUFFICES ASSUME NEW p \in Process
                PROVE  RequestOf(p) \in Nat
                       /\ (proc[p].pc = "posting" /\ p \in Request =>
                             RequestOf(p) = proc[p].call.value /\ RequestOf(p) > 0)
    OBVIOUS
  <2>1. CASE proc[p].pc = "posting" /\ p \in Request
    <3>1. PICK c : c = proc[p].call
      OBVIOUS
    <3>2. c \in Call
      BY <2>1, <3>1, PostingCall
    <3>3. c.value \in Nat /\ c.value > 0
      BY <3>2, AmountsAssumption DEF Call
    <3>. QED
      BY <2>1, <3>1, <3>3 DEF RequestOf
  <2>2. CASE ~(proc[p].pc = "posting" /\ p \in Request)
    BY <2>2 DEF RequestOf
  <2>. QED
    BY <2>1, <2>2
<1>2. \A c \in Call : c.value \in Nat
  BY AmountsAssumption DEF Call
<1>3. \A c : CallOf(c) \in Nat
  BY <1>2 DEF CallOf, UnitsCall
<1>. QED
  BY <1>1, <1>3 DEF Amounted

\* One process acts: only what it owes changes.
LEMMA RequestsOweStep ==
  ASSUME Shape, Shape', NEW p \in Process, OthersOf(p), IsFiniteSet(RequestsOwe)
  PROVE  /\ IsFiniteSet(RequestsOwe')
         /\ Cardinality(RequestsOwe') = Cardinality(RequestsOwe) - RequestOf(p) + RequestOf(p)'
<1>1. PICK f : f = [r \in Request |-> RequestOf(r)]
  OBVIOUS
<1>2. PICK g : g = [r \in Request |-> RequestOf(r)']
  OBVIOUS
<1>3. \A q \in Request : RequestOf(q) \in Nat /\ RequestOf(q)' \in Nat
  <2>1. Amounted /\ Amounted'
    BY OwedAmounts, PTL
  <2>. QED
    BY <2>1 DEF Amounted, Process
<1>4. f \in [Request -> Nat] /\ g \in [Request -> Nat]
  BY <1>1, <1>2, <1>3
<1>5. \A q \in Request \ {p} : g[q] = f[q]
  BY <1>1, <1>2 DEF RequestOf, OthersOf, Process
<1>6. RequestsOwe = Dollars(f, Request) /\ RequestsOwe' = Dollars(g, Request)
  BY <1>1, <1>2 DEF RequestsOwe, Dollars
<1>7. CASE p \in Request
  <2>1. f[p] = RequestOf(p) /\ g[p] = RequestOf(p)'
    BY <1>1, <1>2, <1>7
  <2>. QED
    BY <1>4, <1>5, <1>6, <1>7, <2>1, DollarsChange
<1>8. CASE p \notin Request
  <2>1. f = g
    BY <1>1, <1>2, <1>5, <1>8
  <2>2. RequestOf(p) = 0 /\ RequestOf(p)' = 0
    BY <1>8 DEF RequestOf
  <2>3. Cardinality(RequestsOwe) \in Nat
    BY FS_CardinalityType
  <2>. QED
    BY <1>6, <2>1, <2>2, <2>3
<1>. QED
  BY <1>7, <1>8

\* One call is made, queued or taken up: only what is owed by it changes.
LEMMA CallsOweStep ==
  ASSUME Shape, Shape', NEW c, \A d \in UnitsCall \ {c} : CallOf(d)' = CallOf(d),
         IsFiniteSet(CallsOwe)
  PROVE  /\ IsFiniteSet(CallsOwe')
         /\ Cardinality(CallsOwe') = Cardinality(CallsOwe) - CallOf(c) + CallOf(c)'
<1>1. PICK f : f = [d \in UnitsCall |-> CallOf(d)]
  OBVIOUS
<1>2. PICK g : g = [d \in UnitsCall |-> CallOf(d)']
  OBVIOUS
<1>3. \A d \in UnitsCall : CallOf(d) \in Nat /\ CallOf(d)' \in Nat
  <2>1. Amounted /\ Amounted'
    BY OwedAmounts, PTL
  <2>. QED
    BY <2>1 DEF Amounted
<1>4. f \in [UnitsCall -> Nat] /\ g \in [UnitsCall -> Nat]
  BY <1>1, <1>2, <1>3
<1>5. \A d \in UnitsCall \ {c} : g[d] = f[d]
  BY <1>1, <1>2
<1>6. CallsOwe = Dollars(f, UnitsCall) /\ CallsOwe' = Dollars(g, UnitsCall)
  BY <1>1, <1>2 DEF CallsOwe, Dollars
<1>7. CASE c \in UnitsCall
  <2>1. f[c] = CallOf(c) /\ g[c] = CallOf(c)'
    BY <1>1, <1>2, <1>7
  <2>. QED
    BY <1>4, <1>5, <1>6, <1>7, <2>1, DollarsChange
<1>8. CASE c \notin UnitsCall
  <2>1. f = g
    BY <1>1, <1>2, <1>5, <1>8
  <2>2. CallOf(c) = 0 /\ CallOf(c)' = 0
    BY <1>8 DEF CallOf
  <2>3. Cardinality(CallsOwe) \in Nat
    BY FS_CardinalityType
  <2>. QED
    BY <1>6, <2>1, <2>2, <2>3
<1>. QED
  BY <1>7, <1>8

LedgerStep == [Ledger!Next]_Ledger!vars

\* A step that credits u or transfers v, where no more is owed than before
LEMMA CreditFrom ==
  ASSUME Shape, Shape', CreditInv, NEW p \in Process, OthersOf(p),
         NEW c, \A d \in UnitsCall \ {c} : CallOf(d)' = CallOf(d),
         NEW u \in Nat, NEW v \in Nat, u = 0 \/ v = 0,
         Credited' = Credited + u, transferred' = transferred + v,
         u + RequestOf(p)' + CallOf(c)' <= v + RequestOf(p) + CallOf(c),
         Running'
  PROVE  CreditInv' /\ LedgerStep
<1>1. /\ IsFiniteSet(RequestsOwe') /\ IsFiniteSet(CallsOwe')
      /\ Cardinality(RequestsOwe') = Cardinality(RequestsOwe) - RequestOf(p) + RequestOf(p)'
      /\ Cardinality(CallsOwe') = Cardinality(CallsOwe) - CallOf(c) + CallOf(c)'
  BY RequestsOweStep, CallsOweStep DEF CreditInv
<1>2. Amounted /\ Amounted'
  BY OwedAmounts, PTL
<1>3. RequestOf(p) \in Nat /\ RequestOf(p)' \in Nat /\ CallOf(c) \in Nat /\ CallOf(c)' \in Nat
  BY <1>2 DEF Amounted
<1>4. /\ Cardinality(RequestsOwe) \in Nat /\ Cardinality(CallsOwe) \in Nat
      /\ Cardinality(RequestsOwe') \in Nat /\ Cardinality(CallsOwe') \in Nat
  BY <1>1, FS_CardinalityType DEF CreditInv
<1>5. transferred \in Nat /\ Credited \in Int
  BY DEF Shape, Data, Amounts, Credited
<1>6. /\ Credited >= 0 /\ Credited + Cardinality(RequestsOwe) + Cardinality(CallsOwe) <= transferred
  BY DEF CreditInv
<1>7. Credited' >= 0
  BY <1>5, <1>6
<1>8. Credited' + Cardinality(RequestsOwe') + Cardinality(CallsOwe') <= transferred'
  BY <1>1, <1>3, <1>4, <1>5, <1>6
<1>9. CreditInv'
  BY <1>1, <1>7, <1>8 DEF CreditInv
<1>10. LedgerStep
  <2>1. Credited' <= transferred' /\ Credited' \in Nat /\ transferred' \in Nat
    BY <1>4, <1>5, <1>7, <1>8
  <2>2. CASE v > 0
    <3>1. transferred' > transferred /\ Credited' = Credited
      BY <1>5, <2>2
    <3>. QED
      BY <2>1, <3>1 DEF LedgerStep, Ledger!Next, Ledger!Transfer, Credited
  <2>3. CASE u > 0
    <3>1. Credited' \in Credited + 1 .. transferred /\ transferred' = transferred
      BY <1>5, <2>1, <2>3
    <3>. QED
      BY <3>1 DEF LedgerStep, Ledger!Next, Ledger!Credit, Credited
  <2>4. CASE u = 0 /\ v = 0
    <3>1. transferred' = transferred /\ Credited' = Credited
      BY <1>5, <2>4
    <3>. QED
      BY <3>1 DEF LedgerStep, Ledger!vars, Credited
  <2>. QED
    BY <2>2, <2>3, <2>4
<1>. QED
  BY <1>9, <1>10

\* A request or the report moves, and the queue stays as it is.
LEMMA OutsideQueue ==
  ASSUME Shape, Shape', CreditInv, NEW p \in Process, p # Worker, OthersOf(p), task' = task,
         NEW v \in Nat, transferred' = transferred + v, RequestOf(p)' <= v + RequestOf(p),
         UNCHANGED Credited
  PROVE  CreditInv' /\ LedgerStep
<1>1. PICK c : c \notin UnitsCall
  <2>1. NoCall \notin UnitsCall
    BY DEF NoCall, UnitsCall
  <2>. QED
    BY <2>1
<1>2. proc'[Worker] = proc[Worker]
  BY ThreeKinds DEF OthersOf
<1>3. \A d : CallOf(d)' = CallOf(d)
  BY <1>2 DEF CallOf, Waiting
<1>4. CallOf(c) = 0 /\ CallOf(c)' = 0
  BY <1>1 DEF CallOf
<1>5. Running'
  BY <1>2 DEF CreditInv, Running
<1>6. Credited \in Int
  BY DEF Shape, Data, Amounts, Credited
<1>7. Amounted /\ Amounted'
  BY OwedAmounts, PTL
<1>8. RequestOf(p) \in Nat /\ RequestOf(p)' \in Nat
  BY <1>7 DEF Amounted
<1>9. /\ 0 \in Nat /\ Credited' = Credited + 0
      /\ 0 + RequestOf(p)' + CallOf(c)' <= v + RequestOf(p) + CallOf(c)
  BY <1>4, <1>6, <1>8
<1>. QED
  BY <1>3, <1>5, <1>9, CreditFrom

\* The worker moves, with the call c.
LEMMA WorkerMoves ==
  ASSUME Shape, Shape', CreditInv, OthersOf(Worker),
         NEW c, \A d \in UnitsCall \ {c} : CallOf(d)' = CallOf(d), CallOf(c)' <= CallOf(c),
         UNCHANGED <<Credited, transferred>>, Running'
  PROVE  CreditInv' /\ LedgerStep
<1>1. Worker \in Process /\ Worker \notin Request
  BY ThreeKinds
<1>2. RequestOf(Worker) = 0 /\ RequestOf(Worker)' = 0
  BY <1>1 DEF RequestOf
<1>3. Credited \in Int /\ transferred \in Nat
  BY DEF Shape, Data, Amounts, Credited
<1>4. Amounted /\ Amounted'
  BY OwedAmounts, PTL
<1>5. CallOf(c) \in Nat /\ CallOf(c)' \in Nat
  BY <1>4 DEF Amounted
<1>6. /\ 0 \in Nat /\ Credited' = Credited + 0 /\ transferred' = transferred + 0
      /\ 0 + RequestOf(Worker)' + CallOf(c)' <= 0 + RequestOf(Worker) + CallOf(c)
  BY <1>2, <1>3, <1>5
<1>. QED
  BY <1>1, <1>6, CreditFrom

\* The fee is adjusted and the answer arrives.
LEMMA AdjustFeeCredits ==
  ASSUME Shape, CreditInv, NEW p \in Process, AdjustFee(p)
  PROVE  CreditInv' /\ LedgerStep
<1>0. Worker \in Process /\ Worker \notin Request /\ Report \notin Request /\ Worker # Report
  BY ThreeKinds
<1>1. PICK c : c = proc[p].call
  OBVIOUS
<1>2. /\ Shape' /\ OthersOf(p) /\ proc[p].pc = "posting" /\ proc'[p].pc = "refreshing"
      /\ proc'[p].call = c /\ bill' = Adjusted(bill, c)
      /\ UNCHANGED <<transferred, task, unheard>>
  BY <1>1, AdjustFeeShape
<1>3. /\ c \in Call /\ (p \in Request => c \in UnitsCall) /\ (p = Report => c \notin UnitsCall)
  BY <1>1, <1>2, PostingCall DEF ReportCall
<1>4. PICK u : u = IF c \in UnitsCall THEN c.value ELSE 0
  OBVIOUS
<1>5. u \in Nat /\ Credited' = Credited + u
  <2>1. bill \in Amounts /\ unheard \in Amounts
    BY DEF Shape, Data
  <2>2. c.value \in Nat /\ bill'.units = IF c.reason = "units" THEN bill.units + c.value ELSE bill.units
    BY <1>2, <1>3, <2>1, AdjustedAmounts
  <2>3. bill.units \in Nat /\ unheard.units \in Nat
    BY <2>1 DEF Amounts
  <2>4. c \in UnitsCall <=> c.reason = "units"
    BY <1>3 DEF UnitsCall
  <2>5. u \in Nat /\ bill'.units = bill.units + u
    BY <1>4, <2>2, <2>3, <2>4
  <2>. QED
    BY <1>2, <2>3, <2>5 DEF Credited
<1>6. transferred \in Nat /\ transferred' = transferred + 0
  BY <1>2 DEF Shape, Data
<1>7. Amounted /\ Amounted'
  BY <1>2, OwedAmounts, PTL
<1>8. RequestOf(p) \in Nat /\ RequestOf(p)' = 0 /\ CallOf(c) \in Nat /\ CallOf(c)' \in Nat
  BY <1>2, <1>7 DEF Amounted, RequestOf
<1>9. CASE p # Worker
  <2>1. proc'[Worker] = proc[Worker]
    BY <1>0, <1>2, <1>9 DEF OthersOf
  <2>2. \A d : CallOf(d)' = CallOf(d)
    BY <1>2, <2>1 DEF CallOf, Waiting
  <2>3. Running'
    BY <1>2, <2>1 DEF CreditInv, Running
  <2>4. u <= RequestOf(p)
    <3>1. CASE p \in Request
      <4>1. RequestOf(p) = u
        BY <1>1, <1>2, <1>3, <1>4, <3>1 DEF RequestOf
      <4>. QED
        BY <1>5, <4>1
    <3>2. CASE p = Report
      BY <1>3, <1>4, <1>8, <3>2
    <3>. QED
      BY <1>9, <3>1, <3>2, ThreeKinds
  <2>5. u + RequestOf(p)' + CallOf(c)' <= 0 + RequestOf(p) + CallOf(c)
    BY <1>5, <1>8, <2>2, <2>4
  <2>. QED
    BY <1>2, <1>5, <1>6, <2>2, <2>3, <2>5, CreditFrom
<1>10. CASE p = Worker
  <2>1. task[c].status = "running"
    BY <1>1, <1>2, <1>10 DEF CreditInv, Running
  <2>2. CallOf(c) = u /\ CallOf(c)' = 0
    BY <1>1, <1>2, <1>4, <1>10, <2>1 DEF CallOf, Waiting
  <2>3. \A d \in UnitsCall \ {c} : CallOf(d)' = CallOf(d)
    BY <1>1, <1>2, <1>10 DEF CallOf, Waiting
  <2>4. Running'
    BY <1>2, <1>10 DEF Running
  <2>5. u + RequestOf(p)' + CallOf(c)' <= 0 + RequestOf(p) + CallOf(c)
    BY <1>5, <1>8, <2>2
  <2>. QED
    BY <1>2, <1>5, <1>6, <2>3, <2>4, <2>5, CreditFrom
<1>. QED
  BY <1>9, <1>10

\* The adjustment raises, whether eLicensing made it or not.
LEMMA AdjustFailsCredits ==
  ASSUME Shape, CreditInv, NEW p \in Process, AdjustFails(p) \/ AdjustUnanswered(p)
  PROVE  CreditInv' /\ LedgerStep
<1>0. Worker \in Process /\ Worker \notin Request /\ Report \notin Request /\ Worker # Report
  BY ThreeKinds
<1>1. PICK c : c = proc[p].call
  OBVIOUS
<1>2. /\ Shape' /\ OthersOf(p) /\ proc[p].pc = "posting" /\ proc'[p].pc # "posting"
      /\ p = Worker => proc'[p].pc = "idle"
      /\ \A d \in Call \ {c} : task'[d] = task[d]
      /\ UNCHANGED transferred
  BY <1>1, AdjustFailsShape, ThreeKinds
<1>3. /\ c \in Call /\ (p \in Request => c \in UnitsCall) /\ (p = Report => c \notin UnitsCall)
  BY <1>1, <1>2, PostingCall DEF ReportCall
<1>4. UNCHANGED Credited
  <2>1. CASE AdjustFails(p)
    BY <2>1 DEF AdjustFails, Credited
  <2>2. CASE AdjustUnanswered(p)
    <3>1. bill' = Adjusted(bill, c) /\ unheard' = Adjusted(unheard, c)
      BY <1>1, <2>2 DEF AdjustUnanswered
    <3>2. bill \in Amounts /\ unheard \in Amounts
      BY DEF Shape, Data
    <3>3. /\ bill'.units = IF c.reason = "units" THEN bill.units + c.value ELSE bill.units
          /\ unheard'.units = IF c.reason = "units" THEN unheard.units + c.value ELSE unheard.units
          /\ c.value \in Nat
      BY <1>3, <3>1, <3>2, AdjustedAmounts
    <3>4. bill.units \in Nat /\ unheard.units \in Nat
      BY <3>2 DEF Amounts
    <3>. QED
      BY <3>3, <3>4 DEF Credited
  <2>. QED
    BY <2>1, <2>2
<1>5. \A d \in UnitsCall \ {c} : CallOf(d)' = CallOf(d)
  <2>1. CASE p = Worker
    BY <1>1, <1>2, <2>1 DEF CallOf, Waiting, UnitsCall
  <2>2. CASE p # Worker
    <3>1. proc'[Worker] = proc[Worker]
      BY <1>0, <1>2, <2>2 DEF OthersOf
    <3>. QED
      BY <1>2, <3>1 DEF CallOf, Waiting, UnitsCall
  <2>. QED
    BY <2>1, <2>2
<1>6. Amounted /\ Amounted'
  BY <1>2, OwedAmounts, PTL
<1>7. RequestOf(p) \in Nat /\ RequestOf(p)' = 0 /\ CallOf(c) \in Nat /\ CallOf(c)' \in Nat
  BY <1>2, <1>6 DEF Amounted, RequestOf
<1>8. c.value \in Nat
  BY <1>3, AmountsAssumption DEF Call
<1>9. CallOf(c)' = 0 \/ CallOf(c)' = c.value
  BY DEF CallOf
<1>10. CASE p = Worker
  <2>1. c \in UnitsCall => CallOf(c) = c.value
    BY <1>1, <1>2, <1>10 DEF CallOf, Waiting
  <2>2. c \notin UnitsCall => CallOf(c)' = 0
    BY DEF CallOf
  <2>3. CallOf(c)' <= CallOf(c)
    BY <1>7, <1>8, <1>9, <2>1, <2>2
  <2>4. Running'
    BY <1>2, <1>10 DEF Running
  <2>. QED
    BY <1>2, <1>4, <1>5, <1>10, <2>3, <2>4, WorkerMoves
<1>11. CASE p # Worker
  <2>1. proc'[Worker] = proc[Worker]
    BY <1>0, <1>2, <1>11 DEF OthersOf
  <2>2. task'[c] = Recorded(task[c])
    <3>1. task' = [task EXCEPT ![c] = Recorded(task[c])]
      BY <1>1, <1>11 DEF AdjustFails, AdjustUnanswered, Raises
    <3>. QED
      BY <1>3, <3>1 DEF Shape, Data
  <2>3. Running'
    <3>. SUFFICES ASSUME proc'[Worker].pc = "posting"
                  PROVE  task'[proc'[Worker].call].status = "running"
      BY DEF Running
    <3>1. PICK d : d = proc[Worker].call
      OBVIOUS
    <3>2. task[d].status = "running" /\ d \in Call
      BY <1>0, <2>1, <3>1, PostingCall DEF CreditInv, Running
    <3>3. task'[d].status = "running"
      <4>1. CASE d = c
        <5>1. Recorded(task[d]) = task[d]
          BY <3>2 DEF Recorded
        <5>. QED
          BY <2>2, <3>2, <4>1, <5>1
      <4>2. CASE d # c
        BY <1>2, <3>2, <4>2
      <4>. QED
        BY <4>1, <4>2
    <3>. QED
      BY <2>1, <3>1, <3>3
  <2>4. CASE p \in Request
    <3>1. RequestOf(p) = c.value
      BY <1>1, <1>2, <2>4 DEF RequestOf
    <3>2. Credited \in Int /\ transferred \in Nat
      BY DEF Shape, Data, Amounts, Credited
    <3>3. /\ 0 \in Nat /\ Credited' = Credited + 0 /\ transferred' = transferred + 0
          /\ 0 + RequestOf(p)' + CallOf(c)' <= 0 + RequestOf(p) + CallOf(c)
      BY <1>2, <1>4, <1>7, <1>8, <1>9, <3>1, <3>2
    <3>. QED
      BY <1>2, <1>5, <2>3, <3>3, CreditFrom
  <2>5. CASE p = Report
    <3>1. CallOf(c) = 0 /\ CallOf(c)' = 0 /\ RequestOf(p) = 0
      BY <1>0, <1>3, <2>5 DEF CallOf, RequestOf
    <3>2. Credited \in Int /\ transferred \in Nat
      BY DEF Shape, Data, Amounts, Credited
    <3>3. /\ 0 \in Nat /\ Credited' = Credited + 0 /\ transferred' = transferred + 0
          /\ 0 + RequestOf(p)' + CallOf(c)' <= 0 + RequestOf(p) + CallOf(c)
      BY <1>2, <1>4, <1>7, <3>1, <3>2
    <3>. QED
      BY <1>2, <1>5, <2>3, <3>3, CreditFrom
  <2>. QED
    BY <1>11, <2>4, <2>5, ThreeKinds
<1>. QED
  BY <1>10, <1>11

\* The adjustment is over.
LEMMA RefreshAfterCredits ==
  ASSUME Shape, CreditInv, NEW p \in Process, RefreshAfter(p) \/ RefreshAfterFails(p)
  PROVE  CreditInv' /\ LedgerStep
<1>1. PICK c : c = proc[p].call
  OBVIOUS
<1>2. /\ Shape' /\ OthersOf(p) /\ proc[p].pc = "refreshing" /\ proc'[p].pc # "posting"
      /\ p = Worker => proc'[p].pc = "idle" /\ task'[c].status = "none"
      /\ \A d \in Call \ {c} : task'[d] = task[d]
      /\ p # Worker => task' = task
      /\ UNCHANGED <<bill, unheard, transferred>>
  BY <1>1, RefreshAfterShape, ThreeKinds
<1>3. UNCHANGED Credited /\ transferred \in Nat
  BY <1>2 DEF Credited, Shape, Data
<1>4. Amounted /\ Amounted'
  BY <1>2, OwedAmounts, PTL
<1>5. CASE p = Worker
  <2>1. \A d \in UnitsCall \ {c} : CallOf(d)' = CallOf(d)
    BY <1>2, <1>5 DEF CallOf, Waiting, UnitsCall
  <2>2. CallOf(c)' = 0
    BY <1>2, <1>5 DEF CallOf, Waiting
  <2>3. CallOf(c)' <= CallOf(c)
    <3>1. CallOf(c) \in Nat
      BY <1>4 DEF Amounted
    <3>. QED
      BY <2>2, <3>1
  <2>4. Running'
    BY <1>2, <1>5 DEF Running
  <2>. QED
    BY <1>2, <1>3, <1>5, <2>1, <2>3, <2>4, WorkerMoves
<1>6. CASE p # Worker
  <2>1. RequestOf(p)' = 0
    BY <1>2 DEF RequestOf
  <2>2. 0 \in Nat /\ transferred' = transferred + 0 /\ RequestOf(p)' <= 0 + RequestOf(p)
    <3>1. RequestOf(p) \in Nat
      BY <1>4 DEF Amounted
    <3>. QED
      BY <1>2, <1>3, <2>1, <3>1
  <2>. QED
    BY <1>2, <1>3, <1>6, <2>2, OutsideQueue
<1>. QED
  BY <1>5, <1>6

\* The worker takes up a row.
LEMMA StartRetryCredits ==
  ASSUME Shape, CreditInv, NEW c \in Call, StartRetry(c)
  PROVE  CreditInv' /\ LedgerStep
<1>1. /\ Shape' /\ OthersOf(Worker) /\ proc[Worker].pc = "idle"
      /\ proc'[Worker].pc = "posting" /\ proc'[Worker].call = c
      /\ UNCHANGED <<bill, unheard, transferred>>
  BY StartRetryShape
<1>2. task[c] \in TaskState /\ task \in [Call -> TaskState]
  BY DEF Shape, Data
<1>3. task'[c].status = "running" /\ \A d \in Call \ {c} : task'[d] = task[d]
  <2>1. task' = [task EXCEPT ![c] = Started(task[c])]
    BY DEF StartRetry
  <2>2. Started(task[c]).status = "running"
    BY <1>2 DEF Started, TaskState
  <2>. QED
    BY <1>2, <2>1, <2>2
<1>4. task[c].status \in {"pending", "failed"}
  BY DEF StartRetry, Due
<1>5. CallOf(c)' = CallOf(c)
  BY <1>1, <1>4 DEF CallOf, Waiting
<1>6. \A d \in UnitsCall \ {c} : CallOf(d)' = CallOf(d)
  BY <1>1, <1>3 DEF CallOf, Waiting, UnitsCall
<1>7. CallOf(c)' <= CallOf(c)
  <2>1. Amounted
    BY OwedAmounts
  <2>2. CallOf(c) \in Nat
    BY <2>1 DEF Amounted
  <2>. QED
    BY <1>5, <2>2
<1>8. Running'
  BY <1>1, <1>3 DEF Running
<1>9. UNCHANGED <<Credited, transferred>>
  BY <1>1 DEF Credited
<1>. QED
  BY <1>1, <1>6, <1>7, <1>8, <1>9, WorkerMoves

\* What a process that dies owed is owed no more.
LEMMA CrashCredits ==
  ASSUME Shape, CreditInv, NEW p \in Process, Crash(p)
  PROVE  CreditInv' /\ LedgerStep
<1>1. PICK y : y = IF p = Worker THEN Idle ELSE Finished
  OBVIOUS
<1>2. Fits(p, proc[p])
  BY DEF Shape, Stages
<1>3. Fits(p, y) /\ y.pc = (IF p = Worker THEN "idle" ELSE "done")
  BY <1>1, <1>2, Places
<1>4. proc' = [proc EXCEPT ![p] = y] /\ UNCHANGED <<bill, unheard, transferred, task>>
  BY <1>1 DEF Crash
<1>5. proc'[p] = y /\ OthersOf(p)
  BY <1>3, <1>4, Goes DEF Shape, OthersOf
<1>6. Shape'
  BY CrashShape
<1>7. UNCHANGED Credited /\ transferred \in Nat
  BY <1>4 DEF Credited, Shape, Data
<1>8. Amounted /\ Amounted'
  BY <1>6, OwedAmounts, PTL
<1>9. CASE p = Worker
  <2>1. PICK c : c = proc[Worker].call
    OBVIOUS
  <2>2. \A d \in UnitsCall \ {c} : CallOf(d)' = CallOf(d)
    BY <1>3, <1>4, <1>5, <1>9, <2>1 DEF CallOf, Waiting
  <2>3. CallOf(c)' <= CallOf(c)
    <3>1. CallOf(c)' = 0 \/ CallOf(c)' = CallOf(c)
      BY <1>3, <1>4, <1>5, <1>9 DEF CallOf, Waiting
    <3>2. CallOf(c) \in Nat
      BY <1>8 DEF Amounted
    <3>. QED
      BY <3>1, <3>2
  <2>4. Running'
    BY <1>3, <1>5, <1>9 DEF Running
  <2>. QED
    BY <1>4, <1>5, <1>6, <1>7, <1>9, <2>2, <2>3, <2>4, WorkerMoves
<1>10. CASE p # Worker
  <2>1. RequestOf(p)' = 0
    BY <1>3, <1>5, <1>10 DEF RequestOf
  <2>2. 0 \in Nat /\ transferred' = transferred + 0 /\ RequestOf(p)' <= 0 + RequestOf(p)
    <3>1. RequestOf(p) \in Nat
      BY <1>8 DEF Amounted
    <3>. QED
      BY <1>4, <1>7, <2>1, <3>1
  <2>. QED
    BY <1>4, <1>5, <1>6, <1>7, <1>10, <2>2, OutsideQueue
<1>. QED
  BY <1>9, <1>10

\* The registry transfers the units, with or without an answer, or refuses.
LEMMA TransferCredits ==
  ASSUME Shape, CreditInv, NEW r \in Request, Transfer(r) \/ TransferFails(r) \/ TransferUnanswered(r)
  PROVE  CreditInv' /\ LedgerStep
<1>0. r \in Process /\ r # Report /\ r # Worker
  BY ThreeKinds DEF Process
<1>1. PICK c : c = proc[r].call
  OBVIOUS
<1>2. PICK v : v = transferred' - transferred
  OBVIOUS
<1>3. /\ Shape' /\ OthersOf(r) /\ proc[r].pc = "transferring" /\ UNCHANGED <<bill, unheard, task>>
  BY TransferShape, TransferFailsShape DEF TransferFails, TransferUnanswered
<1>4. c.value \in Nat
  <2>1. c \in UnitsCall
    BY <1>0, <1>1, <1>3 DEF Shape, Stages, Fits
  <2>. QED
    BY <2>1, AmountsAssumption DEF UnitsCall, Call
<1>5. transferred \in Nat /\ transferred' \in {transferred, transferred + c.value}
  BY <1>1 DEF Transfer, TransferFails, TransferUnanswered, Shape, Data
<1>6. v \in Nat /\ transferred' = transferred + v
  <2>1. CASE transferred' = transferred
    BY <1>2, <1>5, <2>1
  <2>2. CASE transferred' = transferred + c.value
    BY <1>2, <1>4, <1>5, <2>2
  <2>. QED
    BY <1>5, <2>1, <2>2
<1>7. Amounted /\ Amounted'
  BY <1>3, OwedAmounts, PTL
<1>8. RequestOf(r) \in Nat /\ RequestOf(r)' <= v
  <2>1. CASE Transfer(r)
    <3>1. proc'[r].call = c /\ transferred' = transferred + c.value
      BY <1>0, <1>1, <2>1 DEF Transfer, Shape, Stages
    <3>2. v = c.value
      BY <1>2, <1>4, <1>5, <3>1
    <3>3. RequestOf(r)' = c.value \/ RequestOf(r)' = 0
      BY <3>1 DEF RequestOf
    <3>. QED
      BY <1>0, <1>4, <1>7, <3>2, <3>3 DEF Amounted
  <2>2. CASE TransferFails(r) \/ TransferUnanswered(r)
    <3>1. proc'[r].pc = "done"
      BY <2>2, TransferFailsShape
    <3>. QED
      BY <1>0, <1>6, <1>7, <3>1 DEF Amounted, RequestOf
  <2>. QED
    BY <2>1, <2>2
<1>9. RequestOf(r)' <= v + RequestOf(r)
  <2>1. RequestOf(r)' \in Nat
    BY <1>0, <1>7 DEF Amounted
  <2>. QED
    BY <1>6, <1>8, <2>1
<1>. QED
  BY <1>0, <1>3, <1>6, <1>9, OutsideQueue DEF Credited

\* The steps of requests and of the report that touch no amount
LEMMA QuietCredits ==
  ASSUME Shape, Shape', CreditInv, NEW p \in Process, p # Worker, OthersOf(p),
         p \in Request => proc'[p].pc # "posting",
         UNCHANGED <<Credited, transferred, task>>
  PROVE  CreditInv' /\ LedgerStep
<1>1. RequestOf(p)' = 0
  BY DEF RequestOf
<1>2. Amounted
  BY OwedAmounts
<1>3. RequestOf(p) \in Nat /\ transferred \in Nat
  BY <1>2 DEF Amounted, Shape, Data
<1>4. 0 \in Nat /\ transferred' = transferred + 0 /\ RequestOf(p)' <= 0 + RequestOf(p)
  BY <1>1, <1>3
<1>. QED
  BY <1>4, OutsideQueue

LEMMA AdjustmentCredits ==
  ASSUME Shape, CreditInv, NEW p \in Process, Adjustment(p)
  PROVE  CreditInv' /\ LedgerStep
<1>1. CASE AdjustFee(p)
  BY <1>1, AdjustFeeCredits
<1>2. CASE AdjustFails(p) \/ AdjustUnanswered(p)
  BY <1>2, AdjustFailsCredits
<1>3. CASE RefreshAfter(p) \/ RefreshAfterFails(p)
  BY <1>3, RefreshAfterCredits
<1>. QED
  BY <1>1, <1>2, <1>3 DEF Adjustment

LEMMA RequestCredits ==
  ASSUME Shape, CreditInv, NEW r \in Request, Advance(r) \/ \E v \in Value : Ask(r, v)
  PROVE  CreditInv' /\ LedgerStep
<1>0. r \in Process /\ r # Worker
  BY ThreeKinds DEF Process
<1>1. CASE UseCopy(r) \/ NotFresh(r) \/ Refuse(r) \/ \E v \in Value : Ask(r, v)
  <2>1. /\ Shape' /\ OthersOf(r) /\ proc'[r].pc \in Quiet
        /\ UNCHANGED <<bill, transferred, task, unheard>>
    BY <1>1, AskingShape
  <2>2. proc'[r].pc # "posting" /\ UNCHANGED <<Credited, transferred, task>>
    BY <2>1 DEF Quiet, Credited
  <2>. QED
    BY <1>0, <2>1, <2>2, QuietCredits
<1>2. CASE Validate(r)
  <2>1. /\ Shape' /\ OthersOf(r) /\ proc'[r].pc = "transferring"
        /\ UNCHANGED <<bill, transferred, task, unheard>>
    BY <1>2, ValidateShape
  <2>2. proc'[r].pc # "posting" /\ UNCHANGED <<Credited, transferred, task>>
    BY <2>1 DEF Credited
  <2>. QED
    BY <1>0, <2>1, <2>2, QuietCredits
<1>3. CASE Transfer(r) \/ TransferFails(r) \/ TransferUnanswered(r)
  BY <1>3, TransferCredits
<1>4. CASE Adjustment(r)
  BY <1>0, <1>4, AdjustmentCredits
<1>. QED
  BY <1>1, <1>2, <1>3, <1>4 DEF Advance

LEMMA ReportCredits ==
  ASSUME Shape, CreditInv, Flag \/ \E d \in Decrease : PlanDecrease(d)
  PROVE  CreditInv' /\ LedgerStep
<1>1. Shape' /\ OthersOf(Report) /\ UNCHANGED <<bill, unheard, transferred, task>>
  <2>1. PICK c1 : c1 = copy'
    OBVIOUS
  <2>. QED
    BY <2>1, PlanShape, FlagShape
<1>2. Report \in Process /\ Report # Worker /\ Report \notin Request
  BY ThreeKinds
<1>3. UNCHANGED <<Credited, transferred, task>>
  BY <1>1 DEF Credited
<1>. QED
  BY <1>1, <1>2, <1>3, QuietCredits

\* Refreshes, payments and time
LEMMA OutsideCredits ==
  ASSUME Shape, CreditInv,
         RefreshByOthers \/ Expire \/ (\E v \in Payment : Pay(v)) \/ UNCHANGED vars
  PROVE  CreditInv' /\ LedgerStep
<1>1. Shape' /\ UNCHANGED <<unheard, transferred, task, proc>>
  BY OutsideShape
<1>2. bill'.units = bill.units
  <2>1. CASE \E v \in Payment : Pay(v)
    <3>1. PICK v \in Payment : Pay(v)
      BY <2>1
    <3>2. bill' = [bill EXCEPT !.paid = bill.paid + v] /\ bill \in Amounts
      BY <3>1 DEF Pay, Shape, Data
    <3>. QED
      BY <3>2 DEF Amounts
  <2>2. CASE ~\E v \in Payment : Pay(v)
    BY <2>2 DEF RefreshByOthers, Expire, vars
  <2>. QED
    BY <2>1, <2>2
<1>3. UNCHANGED <<Credited, transferred>>
  BY <1>1, <1>2 DEF Credited
<1>4. RequestsOwe' = RequestsOwe
  BY <1>1 DEF RequestsOwe, RequestOf
<1>5. CallsOwe' = CallsOwe
  BY <1>1 DEF CallsOwe, CallOf, Waiting
<1>6. CreditInv'
  BY <1>1, <1>3, <1>4, <1>5 DEF CreditInv, Running
<1>7. LedgerStep
  BY <1>3 DEF LedgerStep, Ledger!vars, Credited
<1>. QED
  BY <1>6, <1>7

LEMMA CreditStep == Shape /\ CreditInv /\ [Next]_vars => CreditInv' /\ LedgerStep
<1>. SUFFICES ASSUME Shape, CreditInv, [Next]_vars PROVE CreditInv' /\ LedgerStep
  OBVIOUS
<1>1. ASSUME NEW r \in Request, Advance(r) \/ \E v \in Value : Ask(r, v)
      PROVE  CreditInv' /\ LedgerStep
  BY <1>1, RequestCredits
<1>2. CASE Adjustment(Report)
  BY <1>2, AdjustmentCredits, ThreeKinds
<1>3. CASE Flag \/ \E d \in Decrease : PlanDecrease(d)
  BY <1>3, ReportCredits
<1>4. CASE Work
  BY <1>4, AdjustmentCredits, StartRetryCredits, ThreeKinds DEF Work
<1>5. ASSUME NEW p \in Process, Crash(p) PROVE CreditInv' /\ LedgerStep
  BY <1>5, CrashCredits
<1>6. CASE RefreshByOthers \/ Expire \/ (\E v \in Payment : Pay(v)) \/ UNCHANGED vars
  BY <1>6, OutsideCredits
<1>. QED
  BY <1>1, <1>2, <1>3, <1>4, <1>5, <1>6 DEF Next

\* The invoice is credited only for units that were transferred, and once for
\* each transfer, but for adjustments eLicensing made without an answer: what was
\* credited is never more than what was transferred, in whatever order requests,
\* retries, failures and crashes come (apply_compliance_units, create_adjustment).
THEOREM Refinement == Spec => CreditedAsTransferred
<1>1. Init => Shape /\ CreditInv /\ Ledger!Init
  BY ShapeInit, CreditInit
<1>2. Shape /\ CreditInv /\ [Next]_vars => Shape' /\ CreditInv' /\ [Ledger!Next]_Ledger!vars
  BY ShapeStep, CreditStep DEF LedgerStep
<1>. QED
  BY <1>1, <1>2, PTL DEF Spec, CreditedAsTransferred, Ledger!Spec
=============================================================================
