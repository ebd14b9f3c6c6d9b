---------------------- MODULE SupplementaryVersions_proofs ----------------------
(***************************************************************************)
(* Proofs about SupplementaryVersions, for every number of versions, every *)
(* set of balances and every scale.                                        *)
(*                                                                         *)
(* Every submission only appends a version and touches the rows of the     *)
(* version before it (Submits); every other step leaves the versions and   *)
(* the existence of their CRVs alone (Continues).  Chain is what both      *)
(* preserve.  When submissions wait for the on_commit work of the one      *)
(* before (~Interleaved), Serial is inductive too, and it contains         *)
(* ManualIsSticky and SupercededIsEmpty.                                   *)
(*                                                                         *)
(* TypeOK needs the pool of a decrease, a recursive function over the      *)
(* chain and a sum over its invoices, to be made of natural numbers.  Both *)
(* are reasoned about by least counterexamples (Least, Smallest): Total is *)
(* a sum with the laws a sum has, and the sums of the model are Totals.    *)
(* OpenIsEarned, a sum as well, follows from CreditsFollow, which says     *)
(* where the open credits are.  NeverUnderBilled follows from BillsOK,     *)
(* which is inductive until a decrease is planned before all obligations   *)
(* are invoiced and all adjustments made.                                  *)
(***************************************************************************)
EXTENDS SupplementaryVersions, SequenceTheorems, FiniteSetTheorems, WellFoundedInduction, TLAPS

StrategyFields == {"todo", "amount", "met", "void", "manual", "earned"}

Tables == /\ DOMAIN status = Versions /\ DOMAIN obligation = Versions
          /\ DOMAIN credit = Versions /\ DOMAIN deferred = Versions
          /\ DOMAIN billing = Versions /\ manual \subseteq Versions

\* A version has rows only if it was submitted and has a CRV
RowsBelong ==
  \A v \in Versions :
    \/ obligation[v] # NoRow \/ credit[v] # NoRow \/ deferred[v] # NoRow
    \/ billing[v].pc # "idle" \/ v \in manual
    => v <= Len(net) /\ status[v] # NoRow

\* Only the last version may lack a CRV, and none has one before it is submitted
CRVs == \A v \in Versions : /\ v < Len(net) => status[v] # NoRow
                            /\ v > Len(net) => status[v] = NoRow

\* Obligations are for excess emissions, credits for the lack of them
Signs == \A v \in Versions :
           /\ obligation[v] # NoRow \/ billing[v].pc # "idle" => net[v] > 0
           /\ credit[v] # NoRow => net[v] <= 0

\* Work that waits for the commit of version v
WorkOK(v) == /\ credit[v] = NoRow
             /\ DOMAIN deferred[v] = StrategyFields
             /\ deferred[v].earned => net[v] < 0
             /\ \A w \in deferred[v].met : w \in 1..(v - 1)

Work == \A v \in Versions : deferred[v] # NoRow => WorkOK(v)

Chain == /\ net \in Seq(Balance) /\ Len(net) <= MaxVersions
         /\ Tables /\ RowsBelong /\ CRVs /\ Signs /\ Work

Serial == /\ ManualIsSticky
          /\ SupercededIsEmpty
          /\ \A v \in Versions :
               /\ deferred[v] # NoRow =>
                    /\ v = Len(net) /\ status[v] # "superceded"
                    /\ \A w \in deferred[v].met : status[w] # "superceded"
               /\ billing[v].pc # "idle" => status[v] # "superceded"

-----------------------------------------------------------------------------
(* The two kinds of steps *)

Same(v) == /\ status'[v] = status[v] /\ obligation'[v] = obligation[v]
           /\ credit'[v] = credit[v] /\ deferred'[v] = deferred[v]

\* What a submission does
Submits(b) ==
  /\ Submit(b)
  /\ Prev > 0 => status[Prev] # NoRow
  /\ Tables' /\ UNCHANGED billing
  /\ \A v \in Versions \ {Prev, New} : Same(v)
  /\ \/ status'[New] # NoRow
     \/ /\ obligation'[New] = NoRow /\ credit'[New] = NoRow /\ deferred'[New] = NoRow
        /\ New \notin manual'
  /\ obligation'[New] # NoRow => b > 0
  /\ credit'[New] # NoRow => b <= 0
  /\ deferred'[New] # NoRow =>
       /\ credit'[New] = NoRow
       /\ DOMAIN deferred'[New] = StrategyFields
       /\ deferred'[New].earned => b < 0
       /\ \A w \in deferred'[New].met : w \in 1..Prev /\ obligation'[w] # NoRow
  /\ status'[New] # "superceded"
  /\ Prev > 0 => /\ status'[Prev] # NoRow
                 /\ \/ status'[Prev] = status[Prev]
                    \/ /\ OthersSuperceded /\ status'[Prev] = "superceded"
                       /\ obligation'[Prev] = NoRow /\ credit'[Prev] = NoRow
                 /\ credit[Prev] # NoRow /\ credit[Prev].status = "approved"
                       => credit'[Prev] = credit[Prev]
                 /\ obligation'[Prev] \in {obligation[Prev], NoRow}
                 /\ credit'[Prev] # NoRow => credit[Prev] # NoRow
                 /\ deferred'[Prev] = deferred[Prev]
  /\ manual \subseteq manual' /\ manual' \subseteq manual \cup {New}
  /\ Prev \in manual => New \in manual'

\* What any other step does
Continues ==
  /\ UNCHANGED net
  /\ Tables'
  /\ \A v \in Versions :
       /\ status'[v] = NoRow <=> status[v] = NoRow
       /\ \/ status'[v] = status[v]
          \/ /\ status'[v] # "superceded"
             /\ \/ billing[v].pc # "idle"
                \/ \E s \in Versions : deferred[s] # NoRow /\ v \in deferred[s].met \cup {s}
       /\ obligation'[v] # NoRow => obligation[v] # NoRow \/ billing[v].pc # "idle"
       /\ billing'[v].pc # "idle" => obligation[v] # NoRow \/ billing[v].pc # "idle"
       /\ credit'[v] # NoRow =>
            \/ credit[v] # NoRow
            \/ deferred[v] # NoRow /\ deferred[v].earned /\ deferred'[v] = NoRow
       /\ credit[v] # NoRow /\ credit[v].status = "approved" => credit'[v] = credit[v]
       /\ deferred'[v] # NoRow =>
            /\ deferred[v] # NoRow
            /\ DOMAIN deferred'[v] = DOMAIN deferred[v]
            /\ deferred'[v].earned = deferred[v].earned
            /\ deferred'[v].met = deferred[v].met
       /\ v \in manual => v \in manual'
       /\ v \in manual' => v \in manual \/ deferred[v] # NoRow

LEMMA Appended ==
  ASSUME Chain, NEW b \in Balance, Submit(b)
  PROVE  /\ net' \in Seq(Balance) /\ Len(net') = Len(net) + 1
         /\ Len(net') <= MaxVersions /\ Len(net) \in Nat /\ New \in Versions
         /\ \A v \in 1..Len(net) : net'[v] = net[v]
         /\ net'[New] = b
         /\ Prev > 0 => Prev \in Versions /\ Prev < New
BY AppendProperties, BoundAssumption, LenProperties DEF Chain, Submit, Prev, New, Versions

LEMMA SubmitsChain ==
  ASSUME Chain, NEW b \in Balance, Submits(b)
  PROVE  Chain'
<1>1. /\ Submit(b) /\ Tables' /\ UNCHANGED billing /\ Prev = Len(net) /\ New = Len(net) + 1
  BY DEF Submits, Prev, New
<1>2. /\ net' \in Seq(Balance) /\ Len(net') = Len(net) + 1
      /\ Len(net') <= MaxVersions /\ Len(net) \in Nat /\ New \in Versions
      /\ \A v \in 1..Len(net) : net'[v] = net[v]
      /\ net'[New] = b
  BY <1>1, Appended
<1>3. RowsBelong'
  <2> SUFFICES ASSUME NEW v \in Versions,
                      \/ obligation'[v] # NoRow \/ credit'[v] # NoRow \/ deferred'[v] # NoRow
                      \/ billing'[v].pc # "idle" \/ v \in manual'
               PROVE  v <= Len(net') /\ status'[v] # NoRow
    BY DEF RowsBelong
  <2>1. CASE v = New
    <3>1. billing'[v].pc = "idle"
      BY <1>1, <1>2, <2>1 DEF Chain, RowsBelong, Versions
    <3> QED
      BY <3>1, <1>1, <1>2, <2>1 DEF Submits
  <2>2. CASE v = Prev
    BY <1>1, <1>2, <2>2 DEF Submits, Versions
  <2>3. CASE v # New /\ v # Prev
    <3>1. Same(v)
      BY <2>3 DEF Submits
    <3>2. v \in manual' => v \in manual
      BY <2>3 DEF Submits
    <3> QED
      BY <3>1, <3>2, <1>1, <1>2 DEF Chain, RowsBelong, Same, Versions
  <2> QED
    BY <2>1, <2>2, <2>3
<1>4. CRVs'
  <2> SUFFICES ASSUME NEW v \in Versions
               PROVE  /\ v < Len(net') => status'[v] # NoRow
                      /\ v > Len(net') => status'[v] = NoRow
    BY DEF CRVs
  <2>1. CASE v = Prev
    BY <1>1, <1>2, <2>1 DEF Submits, Versions
  <2>2. CASE v = New
    BY <1>1, <1>2, <2>2
  <2>3. CASE v # New /\ v # Prev
    <3>1. Same(v)
      BY <2>3 DEF Submits
    <3> QED
      BY <3>1, <2>3, <1>1, <1>2 DEF Chain, CRVs, Same, Versions
  <2> QED
    BY <2>1, <2>2, <2>3
<1>5. \A v \in Versions : v # New =>
        /\ obligation'[v] # NoRow => obligation[v] # NoRow
        /\ credit'[v] # NoRow => credit[v] # NoRow
        /\ deferred'[v] = deferred[v]
  BY <1>1, <1>2 DEF Submits, Same, Versions
<1>6. ASSUME NEW v \in Versions, v # New, v <= Len(net)
      PROVE  net'[v] = net[v]
  BY <1>2, <1>6 DEF Versions
<1>7. billing[New].pc = "idle"
  BY <1>1, <1>2 DEF Chain, RowsBelong
<1>8. Signs'
  <2> SUFFICES ASSUME NEW v \in Versions
               PROVE  /\ obligation'[v] # NoRow \/ billing'[v].pc # "idle" => net'[v] > 0
                      /\ credit'[v] # NoRow => net'[v] <= 0
    BY DEF Signs
  <2>1. CASE v = New
    BY <1>1, <1>2, <1>7, <2>1 DEF Submits
  <2>2. CASE v # New
    BY <1>1, <1>5, <1>6, <2>2 DEF Chain, Signs, RowsBelong
  <2> QED
    BY <2>1, <2>2
<1>9. Work'
  <2> SUFFICES ASSUME NEW v \in Versions, deferred'[v] # NoRow PROVE WorkOK(v)'
    BY DEF Work
  <2>1. CASE v = New
    BY <1>1, <1>2, <2>1 DEF Submits, WorkOK
  <2>2. CASE v # New
    BY <1>5, <1>6, <2>2 DEF Chain, Work, WorkOK, RowsBelong
  <2> QED
    BY <2>1, <2>2
<1> QED
  BY <1>1, <1>2, <1>3, <1>4, <1>8, <1>9 DEF Chain

LEMMA ContinuesChain ==
  ASSUME Chain, Continues
  PROVE  Chain'
<1>1. net' = net /\ Tables'
  BY DEF Continues
<1>2. RowsBelong'
  BY <1>1 DEF Chain, Continues, RowsBelong
<1>3. CRVs'
  BY <1>1 DEF Chain, Continues, CRVs
<1>4. Signs'
  <2> SUFFICES ASSUME NEW v \in Versions
               PROVE  /\ obligation'[v] # NoRow \/ billing'[v].pc # "idle" => net[v] > 0
                      /\ credit'[v] # NoRow => net[v] <= 0
    BY <1>1 DEF Signs
  <2>1. obligation'[v] # NoRow \/ billing'[v].pc # "idle" => net[v] > 0
    BY DEF Chain, Continues, Signs
  <2>2. ASSUME credit'[v] # NoRow, credit[v] = NoRow PROVE net[v] <= 0
    <3>1. deferred[v] # NoRow /\ deferred[v].earned
      BY <2>2 DEF Continues
    <3>2. net[v] < 0
      BY <3>1 DEF Chain, Work, WorkOK
    <3>3. net[v] \in Int
      <4>1. v \in 1..Len(net)
        BY <3>1 DEF Chain, RowsBelong, Versions
      <4>2. net[v] \in Balance
        BY <4>1, ElementOfSeq DEF Chain
      <4> QED
        BY <4>2, BalanceAssumption
    <3> QED
      BY <3>2, <3>3
  <2> QED
    BY <2>1, <2>2 DEF Chain, Signs
<1>5. Work'
  <2> SUFFICES ASSUME NEW v \in Versions, deferred'[v] # NoRow PROVE WorkOK(v)'
    BY DEF Work
  <2>1. deferred[v] # NoRow /\ WorkOK(v)
    BY DEF Chain, Continues, Work
  <2>2. credit'[v] = NoRow
    BY <2>1 DEF Continues, WorkOK
  <2> QED
    BY <1>1, <2>1, <2>2 DEF Continues, WorkOK
<1> QED
  BY <1>1, <1>2, <1>3, <1>4, <1>5 DEF Chain
-----------------------------------------------------------------------------
(* The handlers *)

LEMMA Statuses ==
  \A x \in ComplianceStatus : x # NoRow
BY NoRowAssumption

LEMMA CreditedIsSign ==
  ASSUME NEW b \in Int
  PROVE  /\ Excess(b) \in Nat /\ Credited(b) \in Nat
         /\ Excess(b) > 0 <=> b > 0
         /\ Credited(b) > 0 <=> b < 0
BY DEF Excess, Credited

\* What a submission finds
LEMMA Fresh ==
  ASSUME Chain, NEW b \in Balance, Submit(b)
  PROVE  /\ New \in Versions /\ New = Prev + 1 /\ Prev = Len(net) /\ Prev \in Nat
         /\ Prev > 0 => Prev \in Versions /\ net[Prev] \in Int
         /\ Prev \notin {New}
         /\ obligation[New] = NoRow /\ credit[New] = NoRow /\ deferred[New] = NoRow
         /\ New \notin manual /\ status[New] = NoRow
         /\ b \in Int /\ Tables
<1>1. /\ New \in Versions /\ New = Prev + 1 /\ Prev = Len(net) /\ Prev \in Nat
      /\ Prev > 0 => Prev \in Versions
  BY Appended, LenProperties DEF Prev, New
<1>2. ASSUME Prev > 0 PROVE net[Prev] \in Int
  <2>1. Prev \in 1..Len(net)
    BY <1>1, <1>2
  <2>2. net[Prev] \in Balance
    BY <2>1, ElementOfSeq DEF Chain
  <2> QED
    BY <2>2, BalanceAssumption
<1> QED
  BY <1>1, <1>2, BalanceAssumption DEF Chain, RowsBelong, CRVs

LEMMA InitialVersionSubmits ==
  ASSUME Chain, NEW b \in Balance, InitialVersion(b)
  PROVE  Submits(b)
<1>1. Submit(b) /\ Prev = 0
  BY DEF InitialVersion
<1>2. Credited(b) \in Nat /\ (b > 0 => Int0(Credited(b)) = 0) /\ 0 \notin Versions
  BY <1>1, Fresh, BoundAssumption DEF Credited, Int0, Versions
<1>3. ObligationStatus \in ComplianceStatus \ {"superceded"}
  BY DEF ObligationStatus, ComplianceStatus
<1>4. manual \subseteq Versions
  BY DEF Chain, Tables
<1> QED
  BY <1>1, <1>2, <1>3, <1>4, Fresh, Statuses
     DEF InitialVersion, Submits, Tables, Same, Unbilled, ComplianceStatus

LEMMA ManualSubmits ==
  ASSUME Chain, NEW b \in Balance, Manual(b)
  PROVE  Submits(b)
<1>1. Submit(b) /\ Prev > 0 /\ status[Prev] # NoRow
  BY DEF Manual, Supplementary
<1> QED
  BY <1>1, Fresh, Statuses DEF Manual, Submits, Tables, Same, Unbilled, ComplianceStatus

\* A version that ManualHandler did not take follows one that is not flagged
LEMMA NotFlagged ==
  ASSUME NEW b, NEW h, h # "manual", Chosen(h, b)
  PROVE  CanHandle(h, b) /\ Prev \notin manual
<1>1. PICK i \in DOMAIN Handlers : /\ Handlers[i] = h /\ CanHandle(h, b)
                                   /\ \A j \in 1..(i - 1) : ~CanHandle(Handlers[j], b)
  BY DEF Chosen
<1>2. i \in 1..8 /\ Handlers[1] = "manual"
  BY DEF Handlers
<1>3. 1 \in 1..(i - 1)
  BY <1>1, <1>2
<1>4. ~CanHandle("manual", b)
  BY <1>1, <1>2, <1>3
<1> QED
  BY <1>1, <1>4 DEF CanHandle

LEMMA SupercedeSubmits ==
  ASSUME Chain, NEW b \in Balance, Supercede(b)
  PROVE  Submits(b)
<1>1. Submit(b) /\ Prev > 0 /\ status[Prev] # NoRow /\ Chosen("supercede", b)
  BY DEF Supercede, Supplementary
<1>2. CanSupercede /\ Prev \notin manual
  BY <1>1, NotFlagged DEF CanHandle
<1>3. /\ net[Prev] > 0 \/ Credited(net[Prev]) >= Scale
      /\ net[Prev] <= 0 => obligation[Prev] = NoRow
      /\ Credited(net[Prev]) < Scale => credit[Prev] = NoRow
      /\ b > 0 => Credited(b) < Scale
      /\ Credited(net[Prev]) >= Scale => credit[Prev].status = "not_issued"
  BY <1>1, <1>2, Fresh, BoundAssumption
     DEF CanSupercede, Chain, Signs, Credited, EarnedCreditsNotIssued
<1>4. OthersSuperceded
  BY <1>2 DEF CanSupercede
<1>5. /\ status'[New] \in ComplianceStatus \ {"superceded"}
      /\ status'[Prev] = "superceded"
      /\ obligation'[Prev] = NoRow /\ credit'[Prev] = NoRow
      /\ obligation'[New] # NoRow => b > 0
      /\ credit'[New] # NoRow => b <= 0
  <2>1. /\ DOMAIN status = Versions /\ DOMAIN obligation = Versions
        /\ DOMAIN credit = Versions /\ Prev \in Versions /\ New \in Versions /\ Prev # New
    BY <1>1, Fresh DEF Tables
  <2>2. /\ status'[New] \in ComplianceStatus \ {"superceded"}
        /\ status'[Prev] = "superceded"
    BY <2>1 DEF Supercede, ComplianceStatus
  <2>3. /\ obligation'[Prev] = NoRow
        /\ obligation'[New] # NoRow => b > 0
    BY <1>1, <1>3, <2>1, Fresh DEF Supercede
  <2>4. /\ credit'[Prev] = NoRow
        /\ credit'[New] # NoRow => Credited(b) >= Scale
    <3>1. credit' = [credit EXCEPT
                       ![Prev] = IF Credited(net[Prev]) >= Scale THEN NoRow ELSE @,
                       ![New] = IF Credited(b) >= Scale THEN NewCredit(0, b) ELSE NoRow]
      BY DEF Supercede
    <3>2. /\ credit'[Prev] = IF Credited(net[Prev]) >= Scale THEN NoRow ELSE credit[Prev]
          /\ credit'[New] = IF Credited(b) >= Scale THEN NewCredit(0, b) ELSE NoRow
      BY <2>1, <3>1
    <3>3. Credited(net[Prev]) \in Int /\ Scale \in Int
      BY <1>1, Fresh, BoundAssumption DEF Credited
    <3> QED
      BY <1>3, <3>2, <3>3
  <2>5. Credited(b) >= Scale => b <= 0
    BY <1>1, Fresh, BoundAssumption DEF Credited
  <2> QED
    BY <2>2, <2>3, <2>4, <2>5
<1> QED
  BY <1>1, <1>2, <1>3, <1>4, <1>5, Fresh, Statuses
     DEF Supercede, Submits, Tables, Same, Unbilled, ComplianceStatus

LEMMA IncreasedObligationSubmits ==
  ASSUME Chain, NEW b \in Balance, IncreasedObligation(b)
  PROVE  Submits(b)
<1>1. Submit(b) /\ Prev > 0 /\ status[Prev] # NoRow /\ Chosen("increased_obligation", b)
  BY DEF IncreasedObligation, Supplementary
<1>2. Excess(net[Prev]) < Excess(b) /\ Prev \notin manual
  BY <1>1, NotFlagged DEF CanHandle
<1>3. b > 0
  BY <1>1, <1>2, Fresh DEF Excess
<1>4. ObligationStatus \in ComplianceStatus \ {"superceded"}
  BY DEF ObligationStatus, ComplianceStatus
<1> QED
  BY <1>1, <1>2, <1>3, <1>4, Fresh, Statuses
     DEF IncreasedObligation, Submits, Tables, Same, Unbilled

LEMMA NoChangeSubmits ==
  ASSUME Chain, NEW b \in Balance, NoChange(b)
  PROVE  Submits(b)
<1>1. Submit(b) /\ Prev > 0 /\ status[Prev] # NoRow /\ Chosen("no_change", b)
  BY DEF NoChange, Supplementary
<1>2. Prev \notin manual
  BY <1>1, NotFlagged
<1> QED
  BY <1>1, <1>2, Fresh, Statuses
     DEF NoChange, Submits, Tables, Same, Unbilled, ComplianceStatus

\* The rows of the two credit handlers when the previous record is amended or
\* replaced: it is not an approved one
LEMMA AmendSubmits ==
  ASSUME Chain, NEW b \in Balance, Submit(b), Prev > 0, status[Prev] # NoRow,
         Prev \notin manual, b <= 0, credit[Prev] # NoRow,
         credit[Prev].status # "approved", AmendPrevious(b) \/ ReplacePrevious(b),
         Unbilled, obligation' = obligation, deferred' = deferred
  PROVE  Submits(b)
<1>1. /\ status' = [status EXCEPT ![New] = status'[New]]
      /\ status'[New] \in ComplianceStatus \ {"superceded"}
  BY Fresh DEF AmendPrevious, ReplacePrevious, Tables, ComplianceStatus
<1>2. /\ UNCHANGED manual /\ credit[Prev].status # "approved"
      /\ DOMAIN credit' = Versions
      /\ \A v \in Versions \ {Prev, New} : credit'[v] = credit[v]
  BY Fresh DEF AmendPrevious, ReplacePrevious, Tables
<1> QED
  BY <1>1, <1>2, Fresh, Statuses DEF Submits, Tables, Same, Unbilled

LEMMA IncreasedCreditSubmits ==
  ASSUME Chain, NEW b \in Balance, IncreasedCredit(b)
  PROVE  Submits(b)
<1>1. /\ Submit(b) /\ Prev > 0 /\ status[Prev] # NoRow /\ Chosen("increased_credit", b)
      /\ Unbilled /\ obligation' = obligation /\ deferred' = deferred
  BY DEF IncreasedCredit, Supplementary
<1>2. /\ credit[Prev] # NoRow /\ Credited(net[Prev]) < Credited(b) /\ Prev \notin manual
  BY <1>1, NotFlagged DEF CanHandle
<1>3. b <= 0
  BY <1>1, <1>2, Fresh DEF Credited
<1>4. CASE credit[Prev].status = "approved"
  <2>1. /\ status' = [status EXCEPT ![New] = "earned_credits"]
        /\ credit' = [credit EXCEPT ![New] = NewCredit(CreditDelta(b), b)]
        /\ UNCHANGED manual
    BY <1>4 DEF IncreasedCredit, AmendPrevious
  <2> QED
    BY <1>1, <1>2, <1>3, <2>1, Fresh, Statuses
       DEF Submits, Tables, Same, Unbilled, ComplianceStatus
<1>5. CASE credit[Prev].status # "approved"
  <2>1. AmendPrevious(b) \/ ReplacePrevious(b)
    BY <1>5 DEF IncreasedCredit
  <2> QED
    BY <1>1, <1>2, <1>3, <1>5, <2>1, AmendSubmits
<1> QED
  BY <1>4, <1>5

LEMMA DecreasedCreditSubmits ==
  ASSUME Chain, NEW b \in Balance, DecreasedCredit(b)
  PROVE  Submits(b)
<1>1. /\ Submit(b) /\ Prev > 0 /\ status[Prev] # NoRow /\ Chosen("decreased_credit", b)
      /\ Unbilled /\ obligation' = obligation /\ deferred' = deferred
  BY DEF DecreasedCredit, Supplementary
<1>2. /\ credit[Prev] # NoRow /\ Scale <= Credited(net[Prev]) /\ Prev \notin manual
  BY <1>1, NotFlagged DEF CanHandle
<1>3. ~CanHandle("increased_obligation", b)
  <2>1. PICK i \in DOMAIN Handlers : /\ Handlers[i] = "decreased_credit"
                                     /\ \A j \in 1..(i - 1) : ~CanHandle(Handlers[j], b)
    BY <1>1 DEF Chosen
  <2>2. i = 7 /\ Handlers[3] = "increased_obligation"
    BY <2>1 DEF Handlers
  <2> QED
    BY <2>1, <2>2
<1>4. b <= 0
  <2>1. ~(Excess(net[Prev]) < Excess(b))
    BY <1>3 DEF CanHandle
  <2> QED
    BY <1>1, <1>2, <2>1, Fresh, BoundAssumption DEF Excess, Credited
<1>5. CASE credit[Prev].status = "approved"
  <2>1. /\ status' = [status EXCEPT ![New] = "earned_credits"]
        /\ manual' = manual \cup {New}
        /\ UNCHANGED credit
    BY <1>5 DEF DecreasedCredit, AmendPrevious
  <2> QED
    BY <1>1, <1>2, <2>1, Fresh, Statuses
       DEF Submits, Tables, Same, Unbilled, ComplianceStatus
<1>6. CASE credit[Prev].status # "approved"
  <2>1. AmendPrevious(b) \/ ReplacePrevious(b)
    BY <1>6 DEF DecreasedCredit
  <2> QED
    BY <1>1, <1>2, <1>4, <1>6, <2>1, AmendSubmits
<1> QED
  BY <1>5, <1>6

LEMMA NewEarnedCreditsSubmits ==
  ASSUME Chain, NEW b \in Balance, NewEarnedCredits(b)
  PROVE  Submits(b)
<1>1. Submit(b) /\ Prev > 0 /\ status[Prev] # NoRow /\ Chosen("new_earned_credits", b)
  BY DEF NewEarnedCredits, Supplementary
<1>2. Credited(b) >= Scale /\ Prev \notin manual
  BY <1>1, NotFlagged DEF CanHandle
<1>3. b <= 0
  BY <1>1, <1>2, Fresh, BoundAssumption DEF Credited
<1> QED
  BY <1>1, <1>2, <1>3, Fresh, Statuses
     DEF NewEarnedCredits, Submits, Tables, Same, Unbilled, ComplianceStatus

\* What the plan of a decrease promises
LEMMA PlanOK ==
  ASSUME NEW b
  PROVE  /\ DOMAIN Plan(b) = StrategyFields
         /\ Plan(b).earned => b < 0
         /\ \A w \in Plan(b).met : w \in 1..Prev /\ obligation[w] # NoRow
BY DEF Plan, StrategyFields, Listed, Unpaid, Rows

LEMMA DecreasedObligationSubmits ==
  ASSUME Chain, NEW b \in Balance, DecreasedObligation(b)
  PROVE  Submits(b)
<1>1. Submit(b) /\ Prev > 0 /\ status[Prev] # NoRow /\ Chosen("decreased_obligation", b)
  BY DEF DecreasedObligation, Supplementary
<1>2. Prev \notin manual
  BY <1>1, NotFlagged
<1>3. /\ status' = [status EXCEPT ![New] = "no_obligation_or_credits"]
      /\ deferred' = [deferred EXCEPT ![New] = Plan(b)]
      /\ Unbilled /\ UNCHANGED <<obligation, credit, manual>>
  BY DEF DecreasedObligation
<1>4. deferred'[New] = Plan(b)
  BY <1>1, <1>3, Fresh DEF Tables
<1> QED
  BY <1>1, <1>2, <1>3, <1>4, Fresh, PlanOK, Statuses
     DEF Submits, Tables, Same, Unbilled, ComplianceStatus

\* The CRV of the new version stays missing
LEMMA NoHandlerSubmits ==
  ASSUME Chain, NEW b \in Balance, NoHandler(b)
  PROVE  Submits(b)
<1>1. /\ Submit(b) /\ Prev > 0 /\ status[Prev] # NoRow
      /\ \A i \in DOMAIN Handlers : ~CanHandle(Handlers[i], b)
      /\ Unbilled /\ UNCHANGED <<status, obligation, credit, manual, deferred>>
  BY DEF NoHandler
<1>2. Prev \notin manual
  <2>1. 1 \in DOMAIN Handlers /\ Handlers[1] = "manual"
    BY DEF Handlers
  <2>2. ~CanHandle("manual", b)
    BY <1>1, <2>1
  <2> QED
    BY <2>2 DEF CanHandle
<1>3. NoRow # "superceded"
  BY Statuses DEF ComplianceStatus
<1> QED
  BY <1>1, <1>2, <1>3, Fresh DEF Submits, Tables, Same, Unbilled

LEMMA SubmissionSubmits ==
  ASSUME Chain, NEW b \in Balance, Submission(b)
  PROVE  Submits(b)
BY InitialVersionSubmits, ManualSubmits, SupercedeSubmits, IncreasedObligationSubmits,
   DecreasedObligationSubmits, NoChangeSubmits, IncreasedCreditSubmits,
   DecreasedCreditSubmits, NewEarnedCreditsSubmits, NoHandlerSubmits
   DEF Submission

-----------------------------------------------------------------------------
(* Everything else *)

\* One obligation that exists, or that is being billed, is changed
LEMMA ObligationContinues ==
  ASSUME Chain, NEW v \in Versions, NEW row,
         obligation' = [obligation EXCEPT ![v] = row],
         obligation[v] # NoRow \/ billing[v].pc # "idle",
         UNCHANGED <<net, status, credit, manual, deferred, billing>>
  PROVE  Continues
BY DEF Chain, Tables, Continues

LEMMA SettleContinues ==
  ASSUME Chain, NEW s \in Versions, NEW v, Settle(s, v), NEW row,
         deferred[s] # NoRow, obligation[v] # NoRow,
         obligation' = [obligation EXCEPT ![v] = row]
  PROVE  Continues
<1>1. /\ deferred' = [deferred EXCEPT ![s].todo = @ \ {v}]
      /\ status' = IF v \in deferred[s].met
                   THEN [status EXCEPT ![v] = "obligation_met"] ELSE status
      /\ UNCHANGED <<net, credit, manual, billing>>
  BY DEF Settle
<1>2. DOMAIN deferred[s] = StrategyFields
  BY DEF Chain, Work, WorkOK
<1>3. \A w \in Versions : deferred'[w] # NoRow =>
        /\ deferred[w] # NoRow
        /\ DOMAIN deferred'[w] = DOMAIN deferred[w]
        /\ deferred'[w].earned = deferred[w].earned
        /\ deferred'[w].met = deferred[w].met
  BY <1>1, <1>2 DEF Chain, Tables, StrategyFields
<1>4. Tables'
  BY <1>1 DEF Chain, Tables
<1>5. \A w \in Versions : status'[w] = status[w] \/
        (w = v /\ v \in deferred[s].met /\ status'[w] = "obligation_met")
  BY <1>1 DEF Chain, Tables
<1>6. v \in Versions => status[v] # NoRow
  BY DEF Chain, RowsBelong
<1>7. "obligation_met" # NoRow
  BY Statuses DEF ComplianceStatus
<1>8. \A w \in Versions : /\ obligation'[w] # NoRow => obligation[w] # NoRow
                          /\ status'[w] = NoRow <=> status[w] = NoRow
  BY <1>5, <1>6, <1>7 DEF Chain, Tables
<1>9. \A w \in Versions :
        \/ status'[w] = status[w]
        \/ /\ status'[w] # "superceded"
           /\ \E t \in Versions : deferred[t] # NoRow /\ w \in deferred[t].met \cup {t}
  BY <1>5
<1> QED
  BY <1>1, <1>3, <1>4, <1>8, <1>9 DEF Continues

LEMMA AdjustmentContinues ==
  ASSUME Chain, NEW s \in Versions, AdjustInvoice(s) \/ QueueAdjustment(s)
  PROVE  Continues
<1>1. CASE AdjustInvoice(s)
  BY <1>1, SettleContinues DEF AdjustInvoice, HasInvoice
<1>2. CASE QueueAdjustment(s)
  <2>1. obligation' = [obligation EXCEPT
                         ![Target(s)] = [obligation[Target(s)] EXCEPT
                            !.void = @ \/ Target(s) \in deferred[s].void]]
    BY <1>2 DEF QueueAdjustment
  <2> QED
    BY <1>2, <2>1, SettleContinues DEF QueueAdjustment, HasInvoice
<1> QED
  BY <1>1, <1>2

LEMMA FinishContinues ==
  ASSUME Chain, NEW s \in Versions, FinishAdjustment(s)
  PROVE  Continues
<1>1. /\ deferred[s] # NoRow /\ Outcome(s)
      /\ deferred' = [deferred EXCEPT ![s] = NoRow]
      /\ UNCHANGED <<net, obligation, billing>>
  BY DEF FinishAdjustment
<1>2. status[s] # NoRow /\ credit[s] = NoRow
  BY <1>1 DEF Chain, RowsBelong, Work, WorkOK
<1>3. {"manual_handling", "earned_credits"} \subseteq ComplianceStatus \ {"superceded"}
  BY DEF ComplianceStatus
<1>4. /\ \A w \in Versions \ {s} : status'[w] = status[w] /\ credit'[w] = credit[w]
      /\ status'[s] = status[s] \/ status'[s] \in {"manual_handling", "earned_credits"}
      /\ credit'[s] = credit[s] \/ deferred[s].earned
      /\ manual \subseteq manual' /\ manual' \subseteq manual \cup {s}
      /\ DOMAIN status' = Versions /\ DOMAIN credit' = Versions
  BY <1>1 DEF Outcome, Chain, Tables
<1>5. Tables'
  BY <1>1, <1>4 DEF Chain, Tables
<1>6. /\ deferred'[s] = NoRow
      /\ \A w \in Versions \ {s} : deferred'[w] = deferred[w]
  BY <1>1 DEF Chain, Tables
<1>7. \A w \in Versions :
        /\ status'[w] = NoRow <=> status[w] = NoRow
        /\ \/ status'[w] = status[w]
           \/ /\ status'[w] # "superceded"
              /\ \E t \in Versions : deferred[t] # NoRow /\ w \in deferred[t].met \cup {t}
  <2> TAKE w \in Versions
  <2>1. CASE w = s
    BY <1>1, <1>2, <1>3, <1>4, <2>1, Statuses
  <2>2. CASE w # s
    BY <1>4, <2>2
  <2> QED
    BY <2>1, <2>2
<1>8. \A w \in Versions :
        /\ credit'[w] # NoRow =>
             \/ credit[w] # NoRow
             \/ deferred[w] # NoRow /\ deferred[w].earned /\ deferred'[w] = NoRow
        /\ credit[w] # NoRow /\ credit[w].status = "approved" => credit'[w] = credit[w]
        /\ w \in manual => w \in manual'
        /\ w \in manual' => w \in manual \/ deferred[w] # NoRow
        /\ deferred'[w] # NoRow => deferred'[w] = deferred[w]
  BY <1>1, <1>2, <1>4, <1>6
<1> QED
  BY <1>1, <1>5, <1>7, <1>8 DEF Continues

LEMMA BillingContinues ==
  ASSUME Chain, NEW v \in Versions,
         StartBilling(v) \/ CreateInvoice(v) \/ LinkInvoice(v) \/ BillingFails(v)
  PROVE  Continues
<1>1. /\ UNCHANGED <<net, credit, manual, deferred>>
      /\ obligation[v] # NoRow \/ billing[v].pc # "idle"
      /\ DOMAIN billing' = Versions
      /\ \A w \in Versions \ {v} : billing'[w] = billing[w]
  BY DEF StartBilling, CreateInvoice, LinkInvoice, BillingFails, Chain, Tables
<1>2. /\ DOMAIN obligation' = Versions
      /\ \A w \in Versions \ {v} : obligation'[w] = obligation[w]
  BY DEF StartBilling, CreateInvoice, LinkInvoice, BillingFails, SavedObligation, Chain, Tables
<1>3. /\ DOMAIN status' = Versions
      /\ \A w \in Versions \ {v} : status'[w] = status[w]
      /\ \/ status'[v] = status[v]
         \/ /\ status'[v] \in {"obligation_not_met", "pending_invoice"}
            /\ billing[v].pc # "idle"
  BY DEF StartBilling, CreateInvoice, LinkInvoice, BillingFails, Chain, Tables
<1>4. status[v] # NoRow
  BY <1>1 DEF Chain, RowsBelong
<1>5. {"obligation_not_met", "pending_invoice"} \subseteq ComplianceStatus \ {"superceded"}
  BY DEF ComplianceStatus
<1>6. Tables'
  BY <1>1, <1>2, <1>3 DEF Chain, Tables
<1> QED
  BY <1>1, <1>2, <1>3, <1>4, <1>5, <1>6, Statuses DEF Continues

LEMMA DecideContinues ==
  ASSUME Chain, NEW v \in Versions, NEW from, NEW to,
         Decide(v, from, to), "approved" \notin from
  PROVE  Continues
<1>1. /\ credit[v] # NoRow /\ credit[v].status # "approved"
      /\ DOMAIN credit' = Versions
      /\ \A w \in Versions \ {v} : credit'[w] = credit[w]
      /\ UNCHANGED <<net, status, obligation, manual, deferred, billing>>
  BY DEF Decide, Chain, Tables
<1> QED
  BY <1>1 DEF Continues, Chain, Tables

LEMMA BetweenContinues ==
  ASSUME Chain, NEW v \in Versions, BetweenSubmissions(v)
  PROVE  Continues
<1>1. ASSUME NEW from, NEW to, Decide(v, from, to), "approved" \notin from
      PROVE  Continues
  BY <1>1, DecideContinues
<1>2. CASE Pay(v)
  <2>1. v \in Unpaid /\ UNCHANGED <<net, status, credit, manual, deferred, billing>>
    BY <1>2 DEF Pay
  <2>2. PICK amount \in 1..Outstanding(v) :
          obligation' = [obligation EXCEPT ![v].paid = @ + amount]
    BY <1>2 DEF Pay
  <2> QED
    BY <2>1, <2>2, ObligationContinues DEF Unpaid, Rows
<1>3. CASE ApplyUnits(v)
  <2>1. v \in Unpaid /\ UNCHANGED <<net, status, credit, manual, deferred, billing>>
    BY <1>3 DEF ApplyUnits
  <2>2. PICK amount \in 1..obligation[v].fee :
          obligation' = [obligation EXCEPT ![v].units = @ + amount]
    BY <1>3 DEF ApplyUnits
  <2> QED
    BY <2>1, <2>2, ObligationContinues DEF Unpaid, Rows
<1>4. CASE Request(v)
  BY <1>1, <1>4 DEF Request
<1>5. CASE Review(v)
  BY <1>1, <1>5 DEF Review
<1>6. CASE Approve(v)
  BY <1>1, <1>6 DEF Approve
<1>7. CASE Decline(v)
  BY <1>1, <1>7 DEF Decline
<1> QED
  BY <1>2, <1>3, <1>4, <1>5, <1>6, <1>7 DEF BetweenSubmissions

LEMMA RetryContinues ==
  ASSUME Chain, NEW a \in queued, RetryAdjustment(a)
  PROVE  Continues
<1>1. /\ obligation[a.target] # NoRow
      /\ obligation' = [obligation EXCEPT
            ![a.target] = Post(obligation[a.target], a.amount, a.supp, FALSE)]
      /\ UNCHANGED <<net, status, credit, manual, deferred, billing>>
  BY DEF RetryAdjustment, HasInvoice
<1> QED
  BY <1>1 DEF Chain, Tables, Continues

\* Every step is a submission or leaves the versions alone
LEMMA StepKinds ==
  ASSUME Chain, [Next]_vars
  PROVE  (\E b \in Balance : Submission(b)) \/ Continues
<1>1. CASE \E b \in Balance : Submission(b)
  BY <1>1
<1>2. ASSUME NEW v \in Versions, AfterCommit(v) PROVE Continues
  BY <1>2, AdjustmentContinues, FinishContinues, BillingContinues DEF AfterCommit
<1>3. ASSUME NEW v \in Versions, BetweenSubmissions(v) PROVE Continues
  BY <1>3, BetweenContinues
<1>4. CASE \E a \in queued : RetryAdjustment(a)
  BY <1>4, RetryContinues
<1>5. CASE ReachInvoiceDate \/ UNCHANGED vars
  <2>1. UNCHANGED <<net, status, obligation, credit, manual, deferred, billing>>
    BY <1>5 DEF ReachInvoiceDate, vars
  <2> QED
    BY <2>1 DEF Continues, Chain, Tables
<1> QED
  BY <1>1, <1>2, <1>3, <1>4, <1>5 DEF Next

LEMMA Steps ==
  ASSUME Chain, [Next]_vars
  PROVE  (\E b \in Balance : Submits(b)) \/ Continues
BY StepKinds, SubmissionSubmits

LEMMA InitChain == Init => Chain /\ Serial
<1> SUFFICES ASSUME Init PROVE Chain /\ Serial
  OBVIOUS
<1>1. \A v \in Versions : /\ status[v] = NoRow /\ obligation[v] = NoRow
                          /\ credit[v] = NoRow /\ deferred[v] = NoRow
                          /\ billing[v].pc = "idle" /\ v \notin manual
  BY DEF Init, JobAt
<1>2. net \in Seq(Balance) /\ Len(net) = 0 /\ Len(net) <= MaxVersions
  BY BoundAssumption, EmptySeq DEF Init
<1>3. Tables
  BY DEF Init, Tables
<1>4. Chain
  BY <1>1, <1>2, <1>3 DEF Chain, RowsBelong, CRVs, Signs, Work, Versions
<1>5. NoRow # "superceded"
  BY Statuses DEF ComplianceStatus
<1>6. manual = {}
  BY DEF Init
<1> QED
  BY <1>1, <1>4, <1>5, <1>6 DEF Serial, ManualIsSticky, SupercededIsEmpty

LEMMA ChainStep == Chain /\ [Next]_vars => Chain'
BY Steps, SubmitsChain, ContinuesChain

\* The versions of a report form one chain of CRVs: obligations exist for
\* excess emissions only, credits for their lack only, and work or rows exist
\* only for versions that were submitted
THEOREM ChainHolds == Spec => []Chain
<1>1. Init => Chain
  BY InitChain
<1> QED
  BY <1>1, ChainStep, PTL DEF Spec

\* Approved credits have been issued in the registry: whatever is submitted
\* later, and whatever on_commit work still runs, their record stays as it is
THEOREM ApprovedIsFinalHolds == Spec => ApprovedIsFinal
<1> DEFINE Kept == \A v \in Rows(credit) :
                     credit[v].status = "approved" => credit'[v] = credit[v]
<1>1. ASSUME Chain, [Next]_vars PROVE Kept
  <2>1. ASSUME NEW b \in Balance, Submits(b) PROVE Kept
    <3>1. Submit(b)
      BY <2>1 DEF Submits
    <3>2. SUFFICES ASSUME NEW v \in Versions, credit[v] # NoRow, credit[v].status = "approved"
                   PROVE  credit'[v] = credit[v]
      BY DEF Rows
    <3>3. v # New
      BY <1>1, <3>1, <3>2, Fresh
    <3>4. CASE v = Prev
      BY <2>1, <3>2, <3>4 DEF Submits, Versions
    <3>5. CASE v # Prev
      BY <2>1, <3>3, <3>5 DEF Submits, Same
    <3> QED
      BY <3>4, <3>5
  <2>2. CASE Continues
    BY <2>2 DEF Continues, Rows
  <2> QED
    BY <1>1, <2>1, <2>2, Steps
<1>2. Chain /\ [Next]_vars => [Kept]_vars
  BY <1>1
<1>3. [][Kept]_vars <=> ApprovedIsFinal
  BY PTL DEF ApprovedIsFinal
<1> QED
  BY <1>2, <1>3, ChainHolds, PTL DEF Spec

\* A report that never falls below its limit always gets its CRV: increases,
\* decreases and resubmissions without change each have a handler
THEOREM EveryVersionHasItsCRVHolds ==
  ASSUME Balance \subseteq Nat
  PROVE  Spec => []EveryVersionHasItsCRV
<1>1. Init => EveryVersionHasItsCRV
  BY EmptySeq DEF Init, EveryVersionHasItsCRV
<1>2. ASSUME Chain, EveryVersionHasItsCRV, NEW b \in Balance, Submission(b)
      PROVE  EveryVersionHasItsCRV'
  <2>1. Submits(b) /\ Submit(b)
    BY <1>2, SubmissionSubmits DEF Submits
  <2>2. ~NoHandler(b)
    <3> SUFFICES ASSUME NoHandler(b) PROVE FALSE
      OBVIOUS
    <3>1. Prev > 0 /\ \A i \in DOMAIN Handlers : ~CanHandle(Handlers[i], b)
      BY DEF NoHandler
    <3>2. /\ {3, 4, 5} \subseteq DOMAIN Handlers /\ Handlers[3] = "increased_obligation"
          /\ Handlers[4] = "decreased_obligation" /\ Handlers[5] = "no_change"
      BY DEF Handlers
    <3>3. /\ ~CanHandle("increased_obligation", b) /\ ~CanHandle("decreased_obligation", b)
          /\ ~CanHandle("no_change", b)
      BY <3>1, <3>2
    <3>4. Prev \in 1..Len(net) /\ net \in Seq(Balance)
      BY <1>2, <2>1, <3>1, Fresh DEF Chain
    <3>5. net[Prev] \in Nat /\ b \in Nat
      BY <3>4, ElementOfSeq
    <3> QED
      BY <3>3, <3>5 DEF CanHandle, Excess
  <2>3. status'[New] # NoRow
    <3>1. {"superceded", "earned_credits", "no_obligation_or_credits", "manual_handling"}
             \cup {ObligationStatus} \subseteq ComplianceStatus
      BY DEF ComplianceStatus, ObligationStatus
    <3>2. New \in DOMAIN status /\ Prev # New
      BY <1>2, <2>1, Fresh DEF Tables
    <3>3. status'[New] \in ComplianceStatus
      BY <1>2, <2>2, <3>1, <3>2
         DEF Submission, InitialVersion, Manual, Supercede, IncreasedObligation,
             DecreasedObligation, NoChange, IncreasedCredit, DecreasedCredit,
             NewEarnedCredits, AmendPrevious, ReplacePrevious, ComplianceStatus
    <3> QED
      BY <3>3, Statuses
  <2>4. Len(net') = Prev + 1 /\ New = Prev + 1 /\ Prev \in Nat /\ Prev = Len(net)
    BY <1>2, <2>1, Appended, Fresh
  <2>5. ASSUME NEW v \in 1..Prev PROVE status'[v] # NoRow
    <3>1. v \in Versions \ {New}
      BY <1>2, <2>1, <2>4, Fresh, BoundAssumption DEF Versions
    <3>2. status[v] # NoRow
      BY <1>2, <2>4 DEF EveryVersionHasItsCRV
    <3> QED
      BY <2>1, <2>4, <3>1, <3>2 DEF Submits, Same
  <2> QED
    BY <2>3, <2>4, <2>5 DEF EveryVersionHasItsCRV
<1>3. ASSUME Chain, EveryVersionHasItsCRV, Continues PROVE EveryVersionHasItsCRV'
  <2>1. net' = net /\ 1..Len(net) \subseteq Versions
    BY <1>3, LenProperties, BoundAssumption DEF Continues, Chain, Versions
  <2> QED
    BY <1>3, <2>1 DEF Continues, EveryVersionHasItsCRV
<1>4. Chain /\ EveryVersionHasItsCRV /\ [Next]_vars => EveryVersionHasItsCRV'
  BY <1>2, <1>3, StepKinds
<1> QED
  BY <1>1, <1>4, ChainHolds, PTL DEF Spec

-----------------------------------------------------------------------------
(* Submissions that wait for the on_commit work of the one before *)

LEMMA SubmitsSerial ==
  ASSUME Chain, Serial, ~Interleaved, NEW b \in Balance, Submits(b)
  PROVE  Serial'
<1>1. /\ Submit(b) /\ Quiet /\ UNCHANGED billing
      /\ Len(net') = New /\ Len(net) = Prev /\ Prev \in Nat /\ New = Prev + 1
      /\ New \in Versions /\ (Prev > 0 => Prev \in Versions)
      /\ New \notin manual
  BY Fresh, Appended DEF Submits, Submit
<1>2. \A v \in Versions \ {New} : /\ obligation'[v] # NoRow => obligation[v] # NoRow
                                  /\ credit'[v] # NoRow => credit[v] # NoRow
                                  /\ deferred'[v] = deferred[v]
  BY <1>1 DEF Submits, Same, Versions
<1>3. \A v \in 1..Prev : v \in Versions \ {New}
  BY <1>1, BoundAssumption DEF Versions
<1>4. \A v \in 1..Prev : status[v] # NoRow
  BY <1>1, <1>3 DEF Submits, Chain, CRVs
<1>5. ManualIsSticky'
  <2> SUFFICES ASSUME NEW v \in manual', NEW w \in v..Len(net')
               PROVE  w \in manual'
    BY DEF ManualIsSticky
  <2>1. CASE v = New
    BY <1>1, <2>1
  <2>2. CASE v # New
    <3>1. v \in manual /\ v \in 1..Prev
      BY <1>1, <2>2 DEF Submits, Chain, Tables, RowsBelong, Versions
    <3>2. \A u \in v..Prev : u \in manual
      BY <1>1, <1>4, <3>1 DEF Serial, ManualIsSticky
    <3>3. New \in manual'
      BY <1>1, <3>1, <3>2 DEF Submits
    <3> QED
      BY <1>1, <3>1, <3>2, <3>3 DEF Submits
  <2> QED
    BY <2>1, <2>2
<1>6. ASSUME NEW v \in Versions, status'[v] = "superceded"
      PROVE  /\ v \in 1..Prev
             /\ obligation'[v] = NoRow /\ credit'[v] = NoRow
             /\ \A u \in 1..v : status'[u] = "superceded"
  <2>1. v # New
    BY <1>6 DEF Submits
  <2>2. "superceded" # NoRow
    BY Statuses DEF ComplianceStatus
  <2>3. v \in 1..Prev
    BY <1>1, <1>6, <2>1, <2>2 DEF Submits, Same, Chain, CRVs, Versions
  <2>4. CASE status[v] = "superceded"
    <3>1. /\ obligation[v] = NoRow /\ credit[v] = NoRow
          /\ \A u \in 1..v : status[u] = "superceded"
      BY <2>4 DEF Serial, SupercededIsEmpty
    <3>2. \A u \in 1..Prev : status[u] = "superceded" => status'[u] = "superceded"
      BY <1>1, <1>3 DEF Submits, Same
    <3> QED
      BY <1>1, <1>2, <2>1, <2>3, <3>1, <3>2
  <2>5. CASE status[v] # "superceded"
    <3>1. /\ v = Prev /\ OthersSuperceded
          /\ obligation'[Prev] = NoRow /\ credit'[Prev] = NoRow
      BY <1>6, <2>1, <2>3, <2>5, <1>1 DEF Submits, Same
    <3>2. \A u \in 1..Prev : u # Prev => status'[u] = "superceded"
      BY <1>3, <1>4, <3>1 DEF OthersSuperceded, Rows, Submits, Same
    <3> QED
      BY <1>6, <2>3, <3>1, <3>2
  <2> QED
    BY <2>4, <2>5
<1>7. SupercededIsEmpty'
  BY <1>6 DEF SupercededIsEmpty
<1>8. ASSUME NEW v \in Versions, deferred'[v] # NoRow
      PROVE  /\ v = Len(net') /\ status'[v] # "superceded"
             /\ \A w \in deferred'[v].met : status'[w] # "superceded"
  <2>1. v = New
    BY <1>1, <1>2, <1>8 DEF Quiet
  <2>2. \A w \in deferred'[v].met : w \in 1..Prev /\ obligation'[w] # NoRow
    BY <1>8, <2>1 DEF Submits
  <2> QED
    BY <1>1, <1>3, <1>6, <2>1, <2>2 DEF Submits
<1>9. \A v \in Versions : billing'[v].pc # "idle" => status'[v] # "superceded"
  BY <1>1 DEF Quiet
<1> QED
  BY <1>5, <1>7, <1>8, <1>9 DEF Serial

LEMMA ContinuesSerial ==
  ASSUME Chain, Serial, Continues
  PROVE  Serial'
<1>1. /\ net' = net /\ manual \subseteq manual'
      /\ \A v \in manual' : v \in Versions /\ (v \in manual \/ deferred[v] # NoRow)
  BY DEF Continues, Chain, Tables
<1>2. \A v \in Versions : deferred[v] # NoRow => v = Len(net)
  BY DEF Serial
<1>3. Len(net) \in Nat
  BY LenProperties DEF Chain
<1>4. ManualIsSticky'
  <2> SUFFICES ASSUME NEW v \in manual', NEW w \in v..Len(net), status'[w] # NoRow
               PROVE  w \in manual'
    BY <1>1 DEF ManualIsSticky
  <2>1. CASE v \in manual
    <3>1. w \in Versions
      BY <1>3, BoundAssumption, <2>1 DEF Chain, Tables, Versions
    <3>2. status[w] # NoRow
      BY <3>1 DEF Continues
    <3> QED
      BY <1>1, <2>1, <3>2 DEF Serial, ManualIsSticky
  <2>2. CASE v \notin manual
    <3>1. v = Len(net)
      BY <1>1, <1>2, <2>2
    <3> QED
      BY <1>3, <3>1
  <2> QED
    BY <2>1, <2>2
<1>5. ASSUME NEW v \in Versions
      PROVE  status'[v] = "superceded" <=> status[v] = "superceded"
  <2>1. ASSUME status'[v] # status[v]
        PROVE  status'[v] # "superceded" /\ status[v] # "superceded"
    <3>1. /\ status'[v] # "superceded"
          /\ \/ billing[v].pc # "idle"
             \/ \E s \in Versions : deferred[s] # NoRow /\ v \in deferred[s].met \cup {s}
      BY <2>1 DEF Continues
    <3> QED
      BY <3>1 DEF Serial
  <2> QED
    BY <2>1
<1>6. ASSUME NEW v \in Versions, status'[v] = "superceded"
      PROVE  /\ obligation'[v] = NoRow /\ credit'[v] = NoRow
             /\ \A u \in 1..v : status'[u] = "superceded"
  <2>1. status[v] = "superceded"
    BY <1>5, <1>6
  <2>2. /\ obligation[v] = NoRow /\ credit[v] = NoRow
        /\ \A u \in 1..v : status[u] = "superceded"
    BY <2>1 DEF Serial, SupercededIsEmpty
  <2>3. billing[v].pc = "idle" /\ deferred[v] = NoRow
    BY <2>1 DEF Serial
  <2>4. \A u \in 1..v : u \in Versions
    BY BoundAssumption DEF Versions
  <2> QED
    BY <1>5, <2>2, <2>3, <2>4 DEF Continues
<1>7. SupercededIsEmpty'
  BY <1>6 DEF SupercededIsEmpty
<1>8. ASSUME NEW v \in Versions, deferred'[v] # NoRow
      PROVE  /\ v = Len(net') /\ status'[v] # "superceded"
             /\ \A w \in deferred'[v].met : status'[w] # "superceded"
  <2>1. deferred[v] # NoRow /\ deferred'[v].met = deferred[v].met
    BY <1>8 DEF Continues
  <2>2. \A w \in deferred[v].met : w \in Versions
    BY <2>1, BoundAssumption DEF Chain, Work, WorkOK, Versions
  <2> QED
    BY <1>1, <1>5, <2>1, <2>2 DEF Serial
<1>9. ASSUME NEW v \in Versions, billing'[v].pc # "idle"
      PROVE  status'[v] # "superceded"
  <2>1. obligation[v] # NoRow \/ billing[v].pc # "idle"
    BY <1>9 DEF Continues
  <2>2. status[v] # "superceded"
    BY <2>1 DEF Serial, SupercededIsEmpty
  <2> QED
    BY <1>5, <2>2
<1> QED
  BY <1>4, <1>7, <1>8, <1>9 DEF Serial

LEMMA SerialStep ==
  ASSUME ~Interleaved
  PROVE  Chain /\ Serial /\ [Next]_vars => Serial'
BY Steps, SubmitsSerial, ContinuesSerial

\* As long as a submission waits for the work of the one before, a CRV flagged
\* for manual handling is followed by flagged CRVs only
THEOREM ManualIsStickyHolds ==
  ASSUME ~Interleaved
  PROVE  Spec => []ManualIsSticky
<1>1. Init => Serial
  BY InitChain
<1>2. Serial => ManualIsSticky
  BY DEF Serial
<1> QED
  BY <1>1, <1>2, SerialStep, ChainHolds, PTL DEF Spec

\* ... and a superceded CRV keeps neither obligation nor credits, nor does any
\* CRV before it
THEOREM SupercededIsEmptyHolds ==
  ASSUME ~Interleaved
  PROVE  Spec => []SupercededIsEmpty
<1>1. Init => Serial
  BY InitChain
<1>2. Serial => SupercededIsEmpty
  BY DEF Serial
<1> QED
  BY <1>1, <1>2, SerialStep, ChainHolds, PTL DEF Spec
-----------------------------------------------------------------------------
(* Least elements, greatest elements and sums *)

\* Every set of numbers has a least one; this is how recursion is reasoned about below.
LEMMA Least ==
  ASSUME NEW T \in SUBSET Nat, T # {}
  PROVE  \E m \in T : \A k \in T : m <= k
<1>. DEFINE R == OpToRel(<, Nat)
<1>1. IsWellFoundedOn(R, Nat)
  BY NatLessThanWellFounded
<1>2. PICK m \in T : \A k \in T : ~ (<<k, m>> \in R)
  <2>. HIDE DEF R
  <2>. QED
    BY <1>1, WFMin
<1>3. \A k \in T : ~ (k < m)
  BY <1>2 DEF OpToRel
<1>. QED
  BY <1>3

LEMMA MaxIn ==
  ASSUME NEW n \in Nat, NEW S \in SUBSET (1..n), S # {}
  PROVE  Max(S) \in S /\ \A x \in S : x <= Max(S)
<1>. DEFINE T == {n - x : x \in S}
<1>a. \A x \in S : n - x \in Nat
  OBVIOUS
<1>0. T \in SUBSET Nat /\ T # {}
  BY <1>a
<1>1. PICK m \in T : \A k \in T : m <= k
  BY <1>0, Least
<1>2. PICK x \in S : m = n - x
  BY <1>1
<1>3. \A y \in S : n - y \in T /\ x >= y
  BY <1>1, <1>2
<1>4. Max(S) \in S /\ \A y \in S : Max(S) >= y
  BY <1>3 DEF Max
<1>. QED
  BY <1>4

LEMMA Larger ==
  ASSUME NEW i \in Int
  PROVE  Max({0, i}) = IF i >= 0 THEN i ELSE 0
<1>. DEFINE m == IF i >= 0 THEN i ELSE 0
<1>1. m \in {0, i} /\ \A y \in {0, i} : m >= y
  OBVIOUS
<1>2. \A x \in {0, i} : (\A y \in {0, i} : x >= y) => x = m
  OBVIOUS
<1>. QED
  BY <1>1, <1>2, Zenon DEF Max

LEMMA Smaller ==
  ASSUME NEW i \in Int, NEW j \in Int
  PROVE  Min({i, j}) = IF i <= j THEN i ELSE j
<1>. DEFINE m == IF i <= j THEN i ELSE j
<1>1. m \in {i, j} /\ \A y \in {i, j} : m <= y
  OBVIOUS
<1>2. \A x \in {i, j} : (\A y \in {i, j} : x <= y) => x = m
  OBVIOUS
<1>. QED
  BY <1>1, <1>2, Zenon DEF Min

Pick(s) == CHOOSE x \in s : TRUE

\* f adds up what g gives, for each of the sets in D.
Adds(f, g, D) ==
  f = [s \in D |-> IF s = {} THEN 0 ELSE g[Pick(s)] + f[s \ {Pick(s)}]]

LEMMA PickIn == \A s : s # {} => Pick(s) \in s
  BY DEF Pick


UpTo(S, n) == {s \in SUBSET S : Cardinality(s) <= n}

LEMMA Subsets ==
  ASSUME NEW S, IsFiniteSet(S)
  PROVE  /\ \A n \in Nat : \A s \in UpTo(S, n + 1) : s # {} =>
              s \ {Pick(s)} \in UpTo(S, n) /\ Pick(s) \in S
         /\ \A n \in Nat : UpTo(S, n) \subseteq UpTo(S, n + 1)
         /\ UpTo(S, 0) = {{}}
         /\ \E n \in Nat : UpTo(S, n) = SUBSET S
<1>0. \A s \in SUBSET S : IsFiniteSet(s) /\ Cardinality(s) \in Nat
  BY FS_Subset, FS_CardinalityType
<1>1. ASSUME NEW n \in Nat, NEW s \in UpTo(S, n + 1), s # {}
      PROVE  s \ {Pick(s)} \in UpTo(S, n) /\ Pick(s) \in S
  <2>1. Pick(s) \in s /\ s \in SUBSET S /\ Cardinality(s) <= n + 1
    BY <1>1, PickIn DEF UpTo
  <2>2. Cardinality(s \ {Pick(s)}) = Cardinality(s) - 1
    BY <1>0, <2>1, FS_RemoveElement
  <2>. QED
    BY <1>0, <2>1, <2>2 DEF UpTo
<1>2. \A n \in Nat : UpTo(S, n) \subseteq UpTo(S, n + 1)
  BY <1>0 DEF UpTo
<1>3. UpTo(S, 0) = {{}}
  <2>1. \A s \in SUBSET S : Cardinality(s) <= 0 <=> s = {}
    BY <1>0, FS_EmptySet
  <2>. QED
    BY <2>1 DEF UpTo
<1>4. UpTo(S, Cardinality(S)) = SUBSET S /\ Cardinality(S) \in Nat
  BY <1>0, FS_Subset DEF UpTo
<1>. QED
  BY <1>1, <1>2, <1>3, <1>4

LEMMA AddsExtends ==
  ASSUME NEW C, NEW D, C \subseteq D, NEW g, NEW f, Adds(f, g, C), f \in [C -> Int],
         \A s \in D : s # {} => s \ {Pick(s)} \in C /\ g[Pick(s)] \in Int
  PROVE  \E h : Adds(h, g, D) /\ h \in [D -> Int]
<1>. DEFINE h == [s \in D |-> IF s = {} THEN 0 ELSE g[Pick(s)] + f[s \ {Pick(s)}]]
<1>1. \A s \in C : h[s] = f[s]
  BY DEF Adds
<1>2. \A s \in D : s # {} => h[s \ {Pick(s)}] = f[s \ {Pick(s)}]
  BY <1>1
<1>3. Adds(h, g, D)
  BY <1>2 DEF Adds
<1>4. h \in [D -> Int]
  OBVIOUS
<1>. QED
  BY <1>3, <1>4

\* The sum over a finite set is defined.
LEMMA AddsExists ==
  ASSUME NEW S, IsFiniteSet(S), NEW g, \A x \in S : g[x] \in Int
  PROVE  \E f : Adds(f, g, SUBSET S) /\ f \in [SUBSET S -> Int]
<1>. DEFINE Good(n) == \E f : Adds(f, g, UpTo(S, n)) /\ f \in [UpTo(S, n) -> Int]
            T == {n \in Nat : ~ Good(n)}
<1>1. Good(0)
  <2>. DEFINE f == [s \in {{}} |-> 0]
  <2>1. Adds(f, g, {{}}) /\ f \in [{{}} -> Int]
    BY DEF Adds
  <2>. QED
    BY <2>1, Subsets
<1>2. ASSUME NEW n \in Nat, Good(n) PROVE Good(n + 1)
  <2>1. PICK f : Adds(f, g, UpTo(S, n)) /\ f \in [UpTo(S, n) -> Int]
    BY <1>2
  <2>2. /\ UpTo(S, n) \subseteq UpTo(S, n + 1)
        /\ \A s \in UpTo(S, n + 1) : s # {} => s \ {Pick(s)} \in UpTo(S, n) /\ g[Pick(s)] \in Int
    BY Subsets
  <2>. QED
    BY <2>1, <2>2, AddsExtends
<1>. HIDE DEF Good
<1>3. \A n \in Nat : Good(n)
  <2>. SUFFICES ASSUME T # {} PROVE FALSE
    OBVIOUS
  <2>1. PICK n \in T : \A k \in T : n <= k
    BY Least
  <2>2. n # 0 /\ n \in Nat
    BY <1>1, <2>1
  <2>3. n - 1 \in Nat /\ n - 1 \notin T
    BY <2>1, <2>2
  <2>4. Good((n - 1) + 1)
    BY <1>2, <2>3
  <2>. QED
    BY <2>1, <2>2, <2>4
<1>4. PICK n \in Nat : UpTo(S, n) = SUBSET S
  BY Subsets
<1>. QED
  BY <1>3, <1>4 DEF Good

\* Of finite sets, one is smallest.
LEMMA Smallest ==
  ASSUME NEW B, B # {}, \A s \in B : IsFiniteSet(s)
  PROVE  \E s \in B : \A t \in SUBSET s : t # s => t \notin B
<1>. DEFINE T == {Cardinality(s) : s \in B}
<1>1. T \in SUBSET Nat /\ T # {}
  BY FS_CardinalityType
<1>2. PICK m \in T : \A k \in T : m <= k
  BY <1>1, Least
<1>3. PICK s \in B : m = Cardinality(s)
  BY <1>2
<1>4. ASSUME NEW t \in SUBSET s, t # s, t \in B PROVE FALSE
  <2>1. IsFiniteSet(s) /\ Cardinality(t) <= Cardinality(s) /\ Cardinality(t) # Cardinality(s)
    BY <1>4, FS_Subset
  <2>2. Cardinality(s) <= Cardinality(t)
    BY <1>2, <1>3, <1>4
  <2>. QED
    BY <2>1, <2>2, <1>4, FS_CardinalityType
<1>. QED
  BY <1>3, <1>4

\* Two sums of the same are the same.
LEMMA AddsAlike ==
  ASSUME NEW S, IsFiniteSet(S), NEW C, NEW D, SUBSET S \subseteq C, SUBSET S \subseteq D,
         NEW g, NEW h, \A x \in S : g[x] = h[x], NEW e, NEW f, Adds(e, g, C), Adds(f, h, D)
  PROVE  e[S] = f[S]
<1>. DEFINE B == {s \in SUBSET S : e[s] # f[s]}
<1>1. B = {}
  <2>. SUFFICES ASSUME B # {} PROVE FALSE
    OBVIOUS
  <2>0. \A s \in B : IsFiniteSet(s)
    BY FS_Subset
  <2>1. PICK s \in B : \A t \in SUBSET s : t # s => t \notin B
    BY <2>0, Smallest
  <2>2. s \in C /\ s \in D /\ e[s] # f[s]
    BY <2>1
  <2>3. s # {}
    BY <2>2 DEF Adds
  <2>4. Pick(s) \in s
    BY <2>3, PickIn
  <2>5. e[s \ {Pick(s)}] = f[s \ {Pick(s)}]
    BY <2>1, <2>4
  <2>6. g[Pick(s)] = h[Pick(s)]
    BY <2>1, <2>4
  <2>7. e[s] = g[Pick(s)] + e[s \ {Pick(s)}] /\ f[s] = h[Pick(s)] + f[s \ {Pick(s)}]
    BY <2>2, <2>3 DEF Adds
  <2>. QED
    BY <2>2, <2>5, <2>6, <2>7
<1>. QED
  BY <1>1

\* The sum of what g gives for the elements of S
Total(g, S) == (CHOOSE f : Adds(f, g, SUBSET S))[S]

Ints(g, S) == IsFiniteSet(S) /\ \A x \in S : g[x] \in Int

LEMMA TotalIs ==
  ASSUME NEW g, NEW S, Ints(g, S), NEW h, \A x \in S : g[x] = h[x],
         NEW D, SUBSET S \subseteq D, NEW f, Adds(f, h, D)
  PROVE  Total(g, S) = f[S]
<1>1. \E e : Adds(e, g, SUBSET S)
  BY AddsExists DEF Ints
<1>2. PICK e : e = CHOOSE a : Adds(a, g, SUBSET S)
  OBVIOUS
<1>3. Adds(e, g, SUBSET S) /\ Total(g, S) = e[S]
  BY <1>1, <1>2 DEF Total
<1>. QED
  BY <1>3, AddsAlike DEF Ints

LEMMA TotalAlike ==
  ASSUME NEW g, NEW S, Ints(g, S), NEW h, \A x \in S : g[x] = h[x]
  PROVE  Total(g, S) = Total(h, S)
<1>1. PICK f : Adds(f, h, SUBSET S)
  BY AddsExists DEF Ints
<1>2. Ints(h, S)
  BY DEF Ints
<1>. QED
  BY <1>1, <1>2, TotalIs

LEMMA TotalEmpty == ASSUME NEW g PROVE Total(g, {}) = 0
<1>1. Ints(g, {})
  BY FS_EmptySet DEF Ints
<1>2. PICK f : Adds(f, g, SUBSET {})
  BY <1>1, AddsExists DEF Ints
<1>. QED
  BY <1>1, <1>2, TotalIs DEF Adds

LEMMA TotalPick ==
  ASSUME NEW g, NEW S, Ints(g, S), S # {}
  PROVE  Total(g, S) = g[Pick(S)] + Total(g, S \ {Pick(S)}) /\ Ints(g, S \ {Pick(S)})
<1>1. PICK f : Adds(f, g, SUBSET S)
  BY AddsExists DEF Ints
<1>2. Ints(g, S \ {Pick(S)})
  BY FS_Subset DEF Ints
<1>3. Total(g, S) = f[S] /\ Total(g, S \ {Pick(S)}) = f[S \ {Pick(S)}]
  BY <1>1, <1>2, TotalIs
<1>. QED
  BY <1>1, <1>2, <1>3 DEF Adds

LEMMA TotalInt ==
  ASSUME NEW g, NEW S, Ints(g, S)
  PROVE  Total(g, S) \in Int
<1>1. PICK f : Adds(f, g, SUBSET S) /\ f \in [SUBSET S -> Int]
  BY AddsExists DEF Ints
<1>. QED
  BY <1>1, TotalIs

\* The order does not matter.
LEMMA TotalWithout ==
  ASSUME NEW g, NEW S, Ints(g, S), NEW x \in S
  PROVE  Total(g, S) = g[x] + Total(g, S \ {x})
<1>. DEFINE B == {s \in SUBSET S : \E y \in s : Total(g, s) # g[y] + Total(g, s \ {y})}
<1>0. \A s \in SUBSET S : IsFiniteSet(s) /\ Ints(g, s)
  BY FS_Subset DEF Ints
<1>1. B = {}
  <2>. SUFFICES ASSUME B # {} PROVE FALSE
    OBVIOUS
  <2>1. PICK s \in B : \A t \in SUBSET s : t # s => t \notin B
    BY <1>0, Smallest
  <2>2. PICK y \in s : Total(g, s) # g[y] + Total(g, s \ {y})
    BY <2>1
  <2>. DEFINE p == Pick(s)
  <2>3. p \in s /\ Total(g, s) = g[p] + Total(g, s \ {p})
    BY <1>0, <2>2, PickIn, TotalPick
  <2>4. y # p /\ y \in s \ {p} /\ p \in s \ {y}
    BY <2>2, <2>3
  <2>5. s \ {p} \notin B /\ s \ {y} \notin B
    BY <2>1, <2>3, <2>2
  <2>6. Total(g, s \ {p}) = g[y] + Total(g, (s \ {p}) \ {y})
    BY <2>4, <2>5
  <2>7. Total(g, s \ {y}) = g[p] + Total(g, (s \ {y}) \ {p})
    BY <2>4, <2>5
  <2>8. (s \ {p}) \ {y} = (s \ {y}) \ {p}
    OBVIOUS
  <2>9. g[p] \in Int /\ g[y] \in Int /\ Total(g, (s \ {y}) \ {p}) \in Int
    BY <1>0, <2>2, <2>3, TotalInt DEF Ints
  <2>. QED
    BY <2>2, <2>3, <2>6, <2>7, <2>8, <2>9
<1>. QED
  BY <1>1

LEMMA TotalNat ==
  ASSUME NEW g, NEW S, IsFiniteSet(S), \A x \in S : g[x] \in Nat
  PROVE  Total(g, S) \in Nat
<1>. DEFINE B == {s \in SUBSET S : Total(g, s) \notin Nat}
<1>0. \A s \in SUBSET S : IsFiniteSet(s) /\ Ints(g, s)
  BY FS_Subset DEF Ints
<1>1. B = {}
  <2>. SUFFICES ASSUME B # {} PROVE FALSE
    OBVIOUS
  <2>0. \A s \in B : IsFiniteSet(s)
    BY <1>0
  <2>1. PICK s \in B : \A t \in SUBSET s : t # s => t \notin B
    BY <2>0, Smallest
  <2>a. Total(g, {}) \in Nat
    BY TotalEmpty
  <2>b. Total(g, s) \notin Nat
    BY <2>1
  <2>2. s # {}
    BY <2>a, <2>b
  <2>3. Pick(s) \in s /\ Total(g, s) = g[Pick(s)] + Total(g, s \ {Pick(s)})
    BY <1>0, <2>2, PickIn, TotalPick
  <2>4. Total(g, s \ {Pick(s)}) \in Nat
    BY <2>1, <2>3
  <2>. QED
    BY <2>1, <2>3, <2>4
<1>. QED
  BY <1>1

\* A sum of what is not negative grows with its set.
LEMMA TotalGrows ==
  ASSUME NEW g, NEW S, IsFiniteSet(S), \A x \in S : g[x] \in Nat, NEW R \in SUBSET S
  PROVE  Total(g, R) <= Total(g, S)
<1>. DEFINE B == {s \in SUBSET S : R \subseteq s /\ ~ (Total(g, R) <= Total(g, s))}
<1>0. \A s \in SUBSET S : IsFiniteSet(s) /\ Ints(g, s) /\ Total(g, s) \in Int
  BY FS_Subset, TotalInt DEF Ints
<1>1. B = {}
  <2>. SUFFICES ASSUME B # {} PROVE FALSE
    OBVIOUS
  <2>0. \A s \in B : IsFiniteSet(s)
    BY <1>0
  <2>1. PICK s \in B : \A t \in SUBSET s : t # s => t \notin B
    BY <2>0, Smallest
  <2>a. R \subseteq s /\ ~ (Total(g, R) <= Total(g, s)) /\ Total(g, R) \in Int
    BY <1>0, <2>1
  <2>b. s # R
    BY <2>a
  <2>2. PICK x \in s : x \notin R
    BY <2>a, <2>b
  <2>3. Total(g, s) = g[x] + Total(g, s \ {x})
    BY <1>0, TotalWithout
  <2>4. Total(g, R) <= Total(g, s \ {x})
    BY <2>1, <2>2
  <2>. QED
    BY <1>0, <2>1, <2>3, <2>4
<1>. QED
  BY <1>1

\* One value changes.
LEMMA TotalChanges ==
  ASSUME NEW g, NEW h, NEW S, Ints(g, S), Ints(h, S), NEW x \in S,
         \A y \in S \ {x} : g[y] = h[y]
  PROVE  Total(h, S) = Total(g, S) + h[x] - g[x]
<1>1. Total(h, S) = h[x] + Total(h, S \ {x}) /\ Total(g, S) = g[x] + Total(g, S \ {x})
  BY TotalWithout
<1>2. Ints(g, S \ {x})
  BY FS_Subset DEF Ints
<1>3. Total(g, S \ {x}) = Total(h, S \ {x}) /\ Total(g, S \ {x}) \in Int
  BY <1>2, TotalAlike, TotalInt
<1>. QED
  BY <1>1, <1>3 DEF Ints

LEMMA TotalZero ==
  ASSUME NEW g, NEW S, IsFiniteSet(S), \A x \in S : g[x] = 0
  PROVE  Total(g, S) = 0
<1>. DEFINE B == {s \in SUBSET S : Total(g, s) # 0}
<1>0. \A s \in SUBSET S : IsFiniteSet(s) /\ Ints(g, s)
  BY FS_Subset DEF Ints
<1>1. B = {}
  <2>. SUFFICES ASSUME B # {} PROVE FALSE
    OBVIOUS
  <2>0. \A s \in B : IsFiniteSet(s)
    BY <1>0
  <2>1. PICK s \in B : \A t \in SUBSET s : t # s => t \notin B
    BY <2>0, Smallest
  <2>a. Total(g, {}) = 0
    BY TotalEmpty
  <2>b. Total(g, s) # 0
    BY <2>1
  <2>2. s # {}
    BY <2>a, <2>b
  <2>3. Pick(s) \in s /\ Total(g, s) = g[Pick(s)] + Total(g, s \ {Pick(s)})
    BY <1>0, <2>2, PickIn, TotalPick
  <2>4. Total(g, s \ {Pick(s)}) = 0
    BY <2>1, <2>3
  <2>. QED
    BY <2>1, <2>3, <2>4
<1>. QED
  BY <1>1

\* A sum in which at most one value is not zero
LEMMA TotalSingle ==
  ASSUME NEW g, NEW S, IsFiniteSet(S), \A x \in S : g[x] \in Nat,
         NEW n \in Nat, \A x \in S : g[x] <= n,
         \A x, y \in S : x # y => g[x] = 0 \/ g[y] = 0
  PROVE  Total(g, S) <= n
<1>1. CASE \A x \in S : g[x] = 0
  BY <1>1, TotalZero
<1>2. CASE \E x \in S : g[x] # 0
  <2>1. PICK x \in S : g[x] # 0
    BY <1>2
  <2>2. IsFiniteSet(S \ {x}) /\ \A y \in S \ {x} : g[y] = 0
    BY <2>1, FS_Subset
  <2>3. Total(g, S \ {x}) = 0
    BY <2>2, TotalZero
  <2>4. Total(g, S) = g[x] + Total(g, S \ {x})
    BY TotalWithout DEF Ints
  <2>. QED
    BY <2>3, <2>4
<1>. QED
  BY <1>1, <1>2

\* What is zero adds nothing.
LEMMA TotalOutside ==
  ASSUME NEW g, NEW S, Ints(g, S), NEW R \in SUBSET S, \A x \in S \ R : g[x] = 0
  PROVE  Total(g, S) = Total(g, R)
<1>. DEFINE B == {s \in SUBSET S : R \subseteq s /\ Total(g, s) # Total(g, R)}
<1>0. \A s \in SUBSET S : IsFiniteSet(s) /\ Ints(g, s) /\ Total(g, s) \in Int
  BY FS_Subset, TotalInt DEF Ints
<1>1. B = {}
  <2>. SUFFICES ASSUME B # {} PROVE FALSE
    OBVIOUS
  <2>0. \A s \in B : IsFiniteSet(s)
    BY <1>0
  <2>1. PICK s \in B : \A t \in SUBSET s : t # s => t \notin B
    BY <2>0, Smallest
  <2>a. R \subseteq s /\ Total(g, s) # Total(g, R)
    BY <2>1
  <2>b. s # R
    BY <2>a
  <2>2. PICK x \in s : x \notin R
    BY <2>a, <2>b
  <2>3. Total(g, s) = g[x] + Total(g, s \ {x})
    BY <1>0, TotalWithout
  <2>4. Total(g, s \ {x}) = Total(g, R)
    BY <2>1, <2>2
  <2>. QED
    BY <1>0, <2>1, <2>2, <2>3, <2>4
<1>. QED
  BY <1>1

\* A sum over the versions up to one of them
LEMMA TotalUpTo ==
  ASSUME NEW n \in Nat, n > 0, NEW g, \A v \in 1..n : g[v] \in Int
  PROVE  /\ Total(g, 1..n) = g[n] + Total(g, 1..(n - 1))
         /\ Total(g, 1..n) \in Int /\ Total(g, 1..(n - 1)) \in Int
<1>1. IsFiniteSet(1..n) /\ IsFiniteSet(1..(n - 1)) /\ n \in 1..n
  BY FS_Interval
<1>2. (1..n) \ {n} = 1..(n - 1)
  OBVIOUS
<1>3. Ints(g, 1..n) /\ Ints(g, 1..(n - 1))
  BY <1>1 DEF Ints
<1>4. Total(g, 1..n) = g[n] + Total(g, (1..n) \ {n})
  BY <1>1, <1>3, TotalWithout
<1>. QED
  BY <1>2, <1>3, <1>4, TotalInt
-----------------------------------------------------------------------------
(* What the sums and the recursive definition of the model are *)

SuppsOver(S) == MapThenSumSet(LAMBDA v : obligation[v].supp, S)
Supps == [v \in Versions |-> obligation[v].supp]

LEMMA SuppsSum ==
  ASSUME NEW S \in SUBSET Versions, \A v \in S : obligation[v].supp \in Int
  PROVE  SuppsOver(S) = Total(Supps, S)
<1>0. IsFiniteSet(S)
  <2>1. IsFiniteSet(1..MaxVersions)
    BY FS_Interval, BoundAssumption
  <2>. QED
    BY <2>1, FS_Subset DEF Versions
<1>1. IsFiniteSet(S) /\ Ints(Supps, S)
  BY <1>0 DEF Ints, Supps
<1>2. PICK f : Adds(f, Supps, SUBSET S)
  BY <1>1, AddsExists DEF Ints
<1>3. \A s \in SUBSET S : s # {} => Supps[Pick(s)] = obligation[Pick(s)].supp
  BY PickIn DEF Supps
<1>. DEFINE Is(h) == h = [s \in SUBSET S |->
                            IF s = {} THEN 0
                            ELSE obligation[Pick(s)].supp + h[s \ {Pick(s)}]]
<1>4. \E h : Is(h)
  BY <1>2, <1>3 DEF Adds
<1>5. PICK h : Is(h) /\ SuppsOver(S) = h[S]
  BY <1>4, Zenon DEF SuppsOver, MapThenSumSet, MapThenFoldSet, Pick
<1>6. Adds(h, Supps, SUBSET S)
  BY <1>3, <1>5 DEF Adds
<1>. QED
  BY <1>1, <1>5, <1>6, TotalIs

-----------------------------------------------------------------------------
(* The pool of a decrease *)

\* The pool that invoice v and all newer ones leave, of r
Leaves(f, from, to, r, L, o) ==
  f = [v \in from..to |->
         IF v = to THEN r
         ELSE IF v \in L THEN f[v + 1] - Min({f[v + 1], o[v]})
         ELSE f[v + 1]]

LEMMA LeavesExists ==
  ASSUME NEW n \in Nat, NEW r, NEW L, NEW o
  PROVE  \E f : Leaves(f, 1, n + 1, r, L, o)
<1>. DEFINE Good(k) == \E f : Leaves(f, n + 1 - k, n + 1, r, L, o)
            T == {k \in Nat : ~ Good(k)}
<1>1. Good(0)
  <2>1. Leaves([v \in (n + 1)..(n + 1) |-> r], n + 1, n + 1, r, L, o)
    BY DEF Leaves
  <2>. QED
    BY <2>1
<1>2. ASSUME NEW k \in Nat, Good(k) PROVE Good(k + 1)
  <2>1. PICK f : Leaves(f, n + 1 - k, n + 1, r, L, o)
    BY <1>2
  <2>. DEFINE m == n + 1 - (k + 1)
              h == [v \in m..(n + 1) |->
                      IF v = n + 1 THEN r
                      ELSE IF v \in L THEN f[v + 1] - Min({f[v + 1], o[v]})
                      ELSE f[v + 1]]
  <2>2. ASSUME NEW v \in (n + 1 - k)..(n + 1) PROVE h[v] = f[v]
    <3>1. v \in m..(n + 1)
      OBVIOUS
    <3>. QED
      BY <2>1, <3>1 DEF Leaves
  <2>3. ASSUME NEW v \in m..(n + 1), v # n + 1 PROVE h[v + 1] = f[v + 1]
    <3>1. v + 1 \in (n + 1 - k)..(n + 1)
      BY <2>3
    <3>. QED
      BY <3>1, <2>2
  <2>4. Leaves(h, m, n + 1, r, L, o)
    BY <2>3 DEF Leaves
  <2>. QED
    BY <2>4
<1>. HIDE DEF Good
<1>3. \A k \in Nat : Good(k)
  <2>. SUFFICES ASSUME T # {} PROVE FALSE
    OBVIOUS
  <2>1. PICK k \in T : \A j \in T : k <= j
    BY Least
  <2>2. k # 0 /\ k \in Nat
    BY <1>1, <2>1
  <2>3. k - 1 \in Nat /\ k - 1 \notin T
    BY <2>1, <2>2
  <2>4. Good((k - 1) + 1)
    BY <1>2, <2>3
  <2>. QED
    BY <2>1, <2>2, <2>4
<1>4. Good(n)
  BY <1>3
<1>. QED
  BY <1>4 DEF Good

\* Something between nothing and all of the pool is left.
LEMMA LeavesNat ==
  ASSUME NEW n \in Nat, NEW r \in Nat, NEW L, NEW o, NEW f, Leaves(f, 1, n + 1, r, L, o),
         \A v \in 1..n : v \in L => o[v] \in Nat
  PROVE  \A v \in 1..(n + 1) : f[v] \in Nat
<1>. DEFINE T == {k \in 0..n : f[n + 1 - k] \notin Nat}
<1>1. T = {}
  <2>. SUFFICES ASSUME T # {} PROVE FALSE
    OBVIOUS
  <2>0. T \in SUBSET Nat
    OBVIOUS
  <2>1. PICK k \in T : \A j \in T : k <= j
    BY <2>0, Least
  <2>2. PICK v \in 1..(n + 1) : v = n + 1 - k
    BY <2>1
  <2>3. f[v] \notin Nat /\ k \in 0..n
    BY <2>1, <2>2
  <2>4. v # n + 1
    BY <2>3 DEF Leaves
  <2>5. k - 1 \in 0..n /\ k - 1 \notin T
    BY <2>1, <2>2, <2>3, <2>4
  <2>6. n + 1 - (k - 1) = v + 1
    BY <2>2, <2>3
  <2>7. f[v + 1] \in Nat /\ v \in 1..n
    BY <2>2, <2>4, <2>5, <2>6
  <2>8. CASE v \in L
    <3>1. f[v] = f[v + 1] - Min({f[v + 1], o[v]})
      BY <2>4, <2>8 DEF Leaves
    <3>2. o[v] \in Nat
      BY <2>7, <2>8
    <3>3. PICK x \in Nat : x = f[v + 1]
      BY <2>7
    <3>4. PICK y \in Nat : y = o[v]
      BY <3>2
    <3>5. Min({x, y}) = IF x <= y THEN x ELSE y
      BY Smaller
    <3>. QED
      BY <2>3, <3>1, <3>3, <3>4, <3>5
  <2>9. CASE v \notin L
    BY <2>2, <2>3, <2>4, <2>7, <2>9 DEF Leaves
  <2>. QED
    BY <2>8, <2>9
<1>2. \A v \in 1..(n + 1) : n + 1 - v \in 0..n /\ n + 1 - (n + 1 - v) = v
  OBVIOUS
<1>. QED
  BY <1>1, <1>2

\* A pool never grows on its way, and what it loses is what the invoices get.
LEMMA LeavesDown ==
  ASSUME NEW n \in Nat, NEW r \in Nat, NEW L, NEW o, NEW f, Leaves(f, 1, n + 1, r, L, o),
         \A v \in 1..n : v \in L => o[v] \in Nat
  PROVE  /\ \A v \in 1..n : f[v] <= f[v + 1]
         /\ \A v \in 1..n : v \in L /\ f[v + 1] - f[v] # o[v] => f[v] = 0
         /\ \A v \in 1..n : v \in L => f[v + 1] - f[v] <= o[v]
         /\ \A v \in 1..n : v \notin L => f[v + 1] - f[v] = 0
<1>. SUFFICES ASSUME NEW v \in 1..n
     PROVE  /\ f[v] <= f[v + 1]
            /\ v \in L /\ f[v + 1] - f[v] # o[v] => f[v] = 0
            /\ v \in L => f[v + 1] - f[v] <= o[v]
            /\ v \notin L => f[v + 1] - f[v] = 0
  OBVIOUS
<1>1. PICK x \in Nat : x = f[v + 1]
  BY LeavesNat
<1>2. v \in 1..(n + 1) /\ v # n + 1
  OBVIOUS
<1>3. CASE v \in L
  <2>1. PICK y \in Nat : y = o[v]
    BY <1>3
  <2>2. f[v] = f[v + 1] - Min({f[v + 1], o[v]})
    BY <1>2, <1>3, Zenon DEF Leaves
  <2>3. PICK m \in Nat : m = Min({x, y}) /\ m <= x /\ m <= y /\ (m = x \/ m = y)
    BY Smaller
  <2>4. f[v] = x - m
    BY <1>1, <2>1, <2>2, <2>3
  <2>. QED
    BY <1>1, <1>3, <2>1, <2>3, <2>4
<1>4. CASE v \notin L
  <2>1. f[v] = f[v + 1]
    BY <1>2, <1>4, Zenon DEF Leaves
  <2>. QED
    BY <1>1, <1>4, <2>1
<1>. QED
  BY <1>3, <1>4

LEMMA LeavesZero ==
  ASSUME NEW n \in Nat, NEW f, \A v \in 1..(n + 1) : f[v] \in Nat,
         \A v \in 1..n : f[v] <= f[v + 1],
         NEW w \in 1..(n + 1), f[w] = 0
  PROVE  \A v \in 1..w : f[v] = 0
<1>. DEFINE T == {k \in 0..(w - 1) : f[w - k] # 0}
<1>1. T = {}
  <2>. SUFFICES ASSUME T # {} PROVE FALSE
    OBVIOUS
  <2>0. T \in SUBSET Nat
    OBVIOUS
  <2>1. PICK k \in T : \A j \in T : k <= j
    BY <2>0, Least
  <2>2. k # 0
    BY <2>1
  <2>3. k - 1 \in 0..(w - 1) /\ k - 1 \notin T
    BY <2>1, <2>2
  <2>4. f[w - (k - 1)] = 0
    BY <2>3
  <2>5. PICK v \in 1..n : v = w - k /\ v + 1 = w - (k - 1)
    BY <2>1, <2>2
  <2>6. f[v] <= f[v + 1] /\ f[v] \in Nat
    BY <2>5
  <2>. QED
    BY <2>1, <2>4, <2>5, <2>6
<1>2. \A v \in 1..w : w - v \in 0..(w - 1) /\ w - (w - v) = v
  OBVIOUS
<1>. QED
  BY <1>1, <1>2

LEMMA LeavesTotal ==
  ASSUME NEW n \in Nat, NEW f, \A v \in 1..(n + 1) : f[v] \in Nat,
         NEW g, \A v \in 1..n : g[v] = f[v + 1] - f[v]
  PROVE  Total(g, 1..n) = f[n + 1] - f[1]
<1>. DEFINE T == {k \in 0..n : Total(g, 1..k) # f[k + 1] - f[1]}
<1>1. T = {}
  <2>. SUFFICES ASSUME T # {} PROVE FALSE
    OBVIOUS
  <2>0. T \in SUBSET Nat
    OBVIOUS
  <2>1. PICK k \in T : \A j \in T : k <= j
    BY <2>0, Least
  <2>2. k # 0
    <3>. SUFFICES ASSUME k = 0 PROVE FALSE
      OBVIOUS
    <3>1. 1..k = {} /\ k + 1 = 1
      OBVIOUS
    <3>2. Total(g, 1..k) = 0
      BY <3>1, TotalEmpty
    <3>3. f[1] \in Nat
      OBVIOUS
    <3>4. Total(g, 1..k) # f[1] - f[1]
      BY <2>1, <3>1
    <3>5. PICK x \in Nat : x = f[1]
      BY <3>3
    <3>6. x - x = 0
      OBVIOUS
    <3>. QED
      BY <3>2, <3>4, <3>5, <3>6
  <2>3. k - 1 \in 0..n /\ k - 1 \notin T /\ k - 1 + 1 = k
    BY <2>1, <2>2
  <2>4. Total(g, 1..(k - 1)) = f[k] - f[1]
    BY <2>3
  <2>a. k \in Nat /\ k > 0 /\ k \in 1..n
    BY <2>1, <2>2
  <2>b. ASSUME NEW v \in 1..k PROVE g[v] \in Int
    <3>1. v \in 1..n /\ v \in 1..(n + 1) /\ v + 1 \in 1..(n + 1)
      BY <2>a
    <3>2. f[v] \in Nat /\ f[v + 1] \in Nat /\ g[v] = f[v + 1] - f[v]
      BY <3>1
    <3>. QED
      BY <3>2
  <2>5. k \in Nat /\ k > 0 /\ k \in 1..n /\ \A v \in 1..k : g[v] \in Int
    BY <2>a, <2>b
  <2>6. Total(g, 1..k) = g[k] + Total(g, 1..(k - 1))
    BY <2>5, TotalUpTo
  <2>7. f[k] \in Nat /\ f[k + 1] \in Nat /\ f[1] \in Nat /\ g[k] = f[k + 1] - f[k]
    BY <2>5
  <2>8. Total(g, 1..k) # f[k + 1] - f[1]
    BY <2>1
  <2>. QED
    BY <2>4, <2>6, <2>7, <2>8
<1>. QED
  BY <1>1
-----------------------------------------------------------------------------
(* What a plan is made from *)

Outs == [v \in Versions |-> Outstanding(v)]

\* What the rows hold
LEMMA RowTypes ==
  ASSUME TypeOK, NEW v \in Versions, obligation[v] # NoRow
  PROVE  /\ obligation[v] \in Obligation
         /\ obligation[v].fee \in Nat /\ obligation[v].paid \in Nat /\ obligation[v].units \in Nat
         /\ obligation[v].supp \in Nat /\ obligation[v].tag \in 0..MaxVersions
         /\ obligation[v].void \in BOOLEAN
         /\ Outstanding(v) \in Int
<1>1. obligation[v] \in Obligation
  BY DEF TypeOK
<1>. QED
  BY <1>1 DEF Obligation, Outstanding

LEMMA CreditTypes ==
  ASSUME TypeOK, NEW v \in Versions, credit[v] # NoRow
  PROVE  /\ credit[v] \in EarnedCredit /\ credit[v].amount \in Nat
         /\ credit[v].status \in IssuanceStatus
<1>1. credit[v] \in EarnedCredit
  BY DEF TypeOK
<1>. QED
  BY <1>1 DEF EarnedCredit

LEMMA ListedTypes ==
  ASSUME TypeOK, NEW v \in Listed
  PROVE  /\ v \in Versions /\ v \in 1..Prev /\ obligation[v] # NoRow
         /\ obligation[v].invoice = "linked" /\ ~obligation[v].void
         /\ Outstanding(v) \in Nat /\ Outstanding(v) > 0 /\ Outs[v] = Outstanding(v)
         /\ obligation[v].supp \in Nat
<1>1. v \in Versions /\ obligation[v] # NoRow
  BY DEF Listed, Unpaid, Rows
<1>. QED
  BY <1>1, RowTypes DEF Listed, Unpaid, Rows, Outs

LEMMA AnchorIs ==
  ASSUME Chain, TypeOK, Listed # {}
  PROVE  Anchor \in Listed /\ \A v \in Listed : v <= Anchor
<1>1. Prev \in Nat
  BY LenProperties DEF Chain, Prev
<1>2. Listed \in SUBSET (1..Prev)
  BY DEF Listed
<1>. QED
  BY <1>1, <1>2, MaxIn DEF Anchor

Since(a) == {v \in Listed : obligation[v].tag >= a}

LEMMA AppliedIs ==
  ASSUME TypeOK
  PROVE  AlreadyApplied = Total(Supps, Since(Anchor)) /\ AlreadyApplied \in Nat
<1>1. Since(Anchor) \in SUBSET Versions /\ \A v \in Since(Anchor) : obligation[v].supp \in Nat
  BY ListedTypes DEF Since
<1>2. SuppsOver(Since(Anchor)) = Total(Supps, Since(Anchor))
  BY <1>1, SuppsSum
<1>3. IsFiniteSet(Versions)
  BY FS_Interval, BoundAssumption DEF Versions
<1>4. Total(Supps, Since(Anchor)) \in Nat
  <2>1. IsFiniteSet(Since(Anchor)) /\ \A v \in Since(Anchor) : Supps[v] \in Nat
    BY <1>1, <1>3, FS_Subset DEF Supps
  <2>. QED
    BY <2>1, TotalNat
<1>5. AlreadyApplied = SuppsOver(Since(Anchor))
  BY Zenon DEF AlreadyApplied, SuppsOver, Since
<1>. QED
  BY <1>2, <1>4, <1>5

LEMMA PoolIsNat ==
  ASSUME Chain, TypeOK, NEW b \in Balance, Submit(b), Prev > 0, Excess(b) < Excess(net[Prev])
  PROVE  RefundPool(b) \in Nat
<1>0. b \in Int /\ net[Prev] \in Int /\ Excess(b) \in Nat /\ Excess(net[Prev]) \in Nat
  BY Fresh, CreditedIsSign
<1>1. CASE Listed = {}
  BY <1>0, <1>1 DEF RefundPool
<1>2. CASE Listed # {}
  <2>1. Anchor \in 1..Len(net)
    BY <1>2, AnchorIs, ListedTypes DEF Prev
  <2>2. net[Anchor] \in Int
    BY <2>1, ElementOfSeq, BalanceAssumption DEF Chain
  <2>3. Excess(net[Anchor]) \in Nat
    BY <2>2, CreditedIsSign
  <2>4. PICK i \in Int : i = Excess(net[Anchor]) - Excess(b)
    BY <1>0, <2>3
  <2>5. PICK j \in Nat : j = Max({0, i})
    BY Larger
  <2>6. PICK k \in Nat : k = AlreadyApplied
    BY AppliedIs
  <2>7. Max({0, j - k}) \in Nat
    BY Larger
  <2>. QED
    BY <1>2, <2>4, <2>5, <2>6, <2>7 DEF RefundPool
<1>. QED
  BY <1>1, <1>2

LEMMA PoolIs ==
  ASSUME Chain, TypeOK, NEW b \in Balance, Submit(b), Prev > 0, Excess(b) < Excess(net[Prev])
  PROVE  /\ Leaves(PoolAfter(b), 1, Prev + 1, RefundPool(b), Listed, Outs)
         /\ \A v \in 1..(Prev + 1) : PoolAfter(b)[v] \in Nat
<1>1. Prev \in Nat /\ New = Prev + 1
  BY Fresh
<1>2. PICK f : Leaves(f, 1, Prev + 1, RefundPool(b), Listed, Outs)
  BY <1>1, LeavesExists
<1>3. \A v \in Listed : Outs[v] = Outstanding(v) /\ Outs[v] \in Nat
  BY ListedTypes
<1>. DEFINE Is(h) == h = [v \in 1..New |->
                            IF v = New THEN RefundPool(b)
                            ELSE IF v \in Listed THEN h[v + 1] - Min({h[v + 1], Outstanding(v)})
                            ELSE h[v + 1]]
<1>4. \A h : Is(h) <=> Leaves(h, 1, Prev + 1, RefundPool(b), Listed, Outs)
  BY <1>1, <1>3 DEF Leaves
<1>5. \E h : Is(h)
  BY <1>2, <1>4
<1>6. PICK h : Is(h) /\ PoolAfter(b) = h
  BY <1>5, Zenon DEF PoolAfter
<1>7. Leaves(PoolAfter(b), 1, Prev + 1, RefundPool(b), Listed, Outs)
  BY <1>4, <1>6
<1>. QED
  BY <1>1, <1>3, <1>7, PoolIsNat, LeavesNat
-----------------------------------------------------------------------------
(* Types *)

LEMMA PlanTyped ==
  ASSUME Chain, TypeOK, NEW b \in Balance, Submit(b), Prev > 0, Excess(b) < Excess(net[Prev])
  PROVE  Plan(b) \in Strategy
<1>. DEFINE pool == PoolAfter(b)
            applied == [v \in Versions |-> IF v \in Listed THEN pool[v + 1] - pool[v] ELSE 0]
            met == {v \in Listed : applied[v] = Outstanding(v)}
            void == {v \in met : obligation[v].paid = 0}
            cash == HasCash(met = Listed, pool[1], b)
            earned == met = Listed /\ ~cash /\ b < 0
            over == \E v \in Listed : OverCap(v, IF v \in void THEN 0 ELSE applied[v])
<1>1. ASSUME NEW v \in Listed PROVE pool[v + 1] - pool[v] \in Nat
  <2>1. v \in 1..Prev /\ Prev \in Nat /\ Outs[v] \in Nat
    BY ListedTypes, Fresh
  <2>2. PICK x \in Nat : x = pool[v + 1]
    BY <2>1, PoolIs
  <2>3. PICK y \in Nat : y = Outs[v]
    BY <2>1
  <2>4. Leaves(pool, 1, Prev + 1, RefundPool(b), Listed, Outs)
    BY PoolIs
  <2>9. v \in 1..(Prev + 1) /\ v # Prev + 1
    BY <2>1
  <2>10. pool[v] = pool[v + 1] - Min({pool[v + 1], Outs[v]})
    <3>. HIDE DEF pool
    <3>. QED
      BY <2>4, <2>9, Zenon DEF Leaves
  <2>5. pool[v] = x - Min({x, y})
    BY <2>2, <2>3, <2>10
  <2>6. PICK m \in Nat : m = Min({x, y}) /\ m <= x
    BY Smaller
  <2>7. pool[v] = x - m
    BY <2>5, <2>6
  <2>8. x - (x - m) = m
    BY <2>6
  <2>. QED
    BY <2>2, <2>6, <2>7, <2>8
<1>2. applied \in [Versions -> Nat]
  BY <1>1
<1>3. Listed \in SUBSET Versions
  BY ListedTypes
<1>4. PICK e \in BOOLEAN : e = earned
  OBVIOUS
<1>5. PICK m \in BOOLEAN : m = (cash \/ (~earned /\ over))
  OBVIOUS
<1>6. Plan(b) = [todo |-> {v \in Listed : applied[v] > 0}, amount |-> applied, met |-> met,
                 void |-> void, earned |-> earned, manual |-> cash \/ (~earned /\ over)]
  BY DEF Plan
<1>. DEFINE todo == {v \in Listed : applied[v] > 0}
<1>7. {todo, met, void} \subseteq SUBSET Versions
  BY <1>3
<1>8. Plan(b) = [todo |-> todo, amount |-> applied, met |-> met,
                 void |-> void, earned |-> e, manual |-> m]
  BY <1>4, <1>5, <1>6
<1>. HIDE DEF applied, met, void, todo
<1>. QED
  BY <1>2, <1>7, <1>8 DEF Strategy

LEMMA Int0Typed ==
  ASSUME NEW x \in Int
  PROVE  Int0(x) \in Int /\ (x >= 0 => Int0(x) \in Nat)
<1>1. Scale \in Nat /\ Scale > 0
  BY BoundAssumption
<1>2. \A y \in Nat : y \div Scale \in Nat
  BY <1>1
<1>3. PICK y \in Nat : y = IF x >= 0 THEN x ELSE -x
  OBVIOUS
<1>4. y \div Scale \in Nat
  BY <1>2
<1>. QED
  BY <1>3, <1>4 DEF Int0

LEMMA NewRows ==
  /\ \A fee \in Nat : NewObligation(fee) \in Obligation
  /\ \A amount \in Nat, b \in Int : NewCredit(amount, b) \in EarnedCredit
<1>1. \A fee \in Nat : NewObligation(fee) \in Obligation
  BY BoundAssumption DEF NewObligation, Obligation
<1>2. ASSUME NEW amount \in Nat, NEW b \in Int PROVE NewCredit(amount, b) \in EarnedCredit
  <2>1. Credited(b) \in Nat
    BY CreditedIsSign
  <2>2. CreditAmount(amount, b) \in Nat
    BY <2>1, Int0Typed DEF CreditAmount
  <2>. QED
    BY <2>2 DEF NewCredit, EarnedCredit, IssuanceStatus
<1>. QED
  BY <1>1, <1>2

\* What a row may become
LEMMA RowChanges ==
  ASSUME NEW o \in Obligation, NEW n \in Nat, NEW t \in Versions, NEW x \in BOOLEAN
  PROVE  /\ [o EXCEPT !.paid = n] \in Obligation
         /\ [o EXCEPT !.units = n] \in Obligation
         /\ [o EXCEPT !.void = x] \in Obligation
         /\ [o EXCEPT !.supp = n, !.tag = t, !.void = x] \in Obligation
         /\ \A i \in {"none", "number", "linked"} : [o EXCEPT !.invoice = i] \in Obligation
<1>1. t \in 0..MaxVersions
  BY BoundAssumption DEF Versions
<1>2. [o EXCEPT !.paid = n] \in Obligation
  BY DEF Obligation
<1>3. [o EXCEPT !.units = n] \in Obligation
  BY DEF Obligation
<1>4. [o EXCEPT !.void = x] \in Obligation
  BY DEF Obligation
<1>5. [o EXCEPT !.supp = n, !.tag = t, !.void = x] \in Obligation
  BY <1>1 DEF Obligation
<1>6. \A i \in {"none", "number", "linked"} : [o EXCEPT !.invoice = i] \in Obligation
  BY DEF Obligation
<1>. QED
  BY <1>2, <1>3, <1>4, <1>5, <1>6

LEMMA StatusTyped ==
  ASSUME TypeOK, NEW v \in Versions, NEW s \in ComplianceStatus
  PROVE  [status EXCEPT ![v] = s] \in [Versions -> ComplianceStatus \cup {NoRow}]
BY DEF TypeOK

LEMMA ObligationTyped ==
  ASSUME TypeOK, NEW v \in Versions, NEW o \in Obligation \cup {NoRow}
  PROVE  [obligation EXCEPT ![v] = o] \in [Versions -> Obligation \cup {NoRow}]
BY DEF TypeOK

LEMMA CreditTyped ==
  ASSUME TypeOK, NEW v \in Versions, NEW c \in EarnedCredit \cup {NoRow}
  PROVE  [credit EXCEPT ![v] = c] \in [Versions -> EarnedCredit \cup {NoRow}]
BY DEF TypeOK

LEMMA NetTyped ==
  ASSUME Chain, NEW b \in Balance, Submit(b)
  PROVE  net' \in Seq(Balance) /\ Len(net') <= MaxVersions
BY Appended

\* What a submission leaves alone keeps its type.
LEMMA SubmitTyped ==
  ASSUME Chain, TypeOK, NEW b \in Balance, Submit(b), Unbilled,
         status' \in [Versions -> ComplianceStatus \cup {NoRow}],
         obligation' \in [Versions -> Obligation \cup {NoRow}],
         credit' \in [Versions -> EarnedCredit \cup {NoRow}],
         manual' \in SUBSET Versions,
         deferred' \in [Versions -> Strategy \cup {NoRow}],
         early' \in BOOLEAN
  PROVE  TypeOK'
BY NetTyped DEF TypeOK, Unbilled

LEMMA InitialVersionTyped ==
  ASSUME Chain, TypeOK, NEW b \in Balance, InitialVersion(b)
  PROVE  TypeOK'
<1>1. Submit(b) /\ Unbilled /\ UNCHANGED <<early, manual, deferred>>
  BY DEF InitialVersion
<1>2. New \in Versions /\ b \in Int
  BY <1>1, Fresh
<1>3. ObligationStatus \in ComplianceStatus
  BY DEF ObligationStatus, ComplianceStatus
<1>4. {"earned_credits", "no_obligation_or_credits"} \subseteq ComplianceStatus
  BY DEF ComplianceStatus
<1>5. b > 0 => NewObligation(b) \in Obligation
  BY <1>2, NewRows
<1>6. NewCredit(0, b) \in EarnedCredit
  BY <1>2, NewRows
<1>7. status' \in [Versions -> ComplianceStatus \cup {NoRow}]
  BY <1>2, <1>3, <1>4, StatusTyped DEF InitialVersion
<1>8. obligation' \in [Versions -> Obligation \cup {NoRow}]
  BY <1>2, <1>5, ObligationTyped DEF InitialVersion, TypeOK
<1>9. credit' \in [Versions -> EarnedCredit \cup {NoRow}]
  BY <1>2, <1>6, CreditTyped DEF InitialVersion, TypeOK
<1>. QED
  BY <1>1, <1>7, <1>8, <1>9, SubmitTyped DEF TypeOK

LEMMA SupercedeTyped ==
  ASSUME Chain, TypeOK, NEW b \in Balance, Supercede(b)
  PROVE  TypeOK'
<1>1. Submit(b) /\ Unbilled /\ UNCHANGED <<early, manual, deferred>> /\ Prev > 0
  BY DEF Supercede, Supplementary
<1>2. New \in Versions /\ Prev \in Versions /\ Prev # New /\ b \in Int
  BY <1>1, Fresh
<1>3. {"superceded", "pending_invoice", "earned_credits", "no_obligation_or_credits"}
        \subseteq ComplianceStatus
  BY DEF ComplianceStatus
<1>4. (b > 0 => NewObligation(b) \in Obligation) /\ NewCredit(0, b) \in EarnedCredit
  BY <1>2, NewRows
<1>5. status' \in [Versions -> ComplianceStatus \cup {NoRow}]
  BY <1>2, <1>3 DEF Supercede, TypeOK
<1>6. obligation' \in [Versions -> Obligation \cup {NoRow}]
  BY <1>2, <1>4 DEF Supercede, TypeOK
<1>7. credit' \in [Versions -> EarnedCredit \cup {NoRow}]
  BY <1>2, <1>4 DEF Supercede, TypeOK
<1>. QED
  BY <1>1, <1>5, <1>6, <1>7, SubmitTyped DEF TypeOK

LEMMA DecreasedObligationTyped ==
  ASSUME Chain, TypeOK, NEW b \in Balance, DecreasedObligation(b)
  PROVE  TypeOK'
<1>1. /\ Submit(b) /\ Unbilled /\ UNCHANGED <<obligation, credit, manual>> /\ Prev > 0
      /\ early' \in BOOLEAN /\ Chosen("decreased_obligation", b)
  BY DEF DecreasedObligation, Supplementary, TypeOK
<1>2. Excess(b) < Excess(net[Prev])
  BY <1>1, NotFlagged DEF CanHandle
<1>3. New \in Versions
  BY <1>1, Fresh
<1>4. Plan(b) \in Strategy
  BY <1>1, <1>2, PlanTyped
<1>5. deferred' \in [Versions -> Strategy \cup {NoRow}]
  BY <1>3, <1>4 DEF DecreasedObligation, TypeOK
<1>6. status' \in [Versions -> ComplianceStatus \cup {NoRow}]
  BY <1>3 DEF DecreasedObligation, TypeOK, ComplianceStatus
<1>. QED
  BY <1>1, <1>5, <1>6, SubmitTyped DEF TypeOK

LEMMA IncreasedObligationTyped ==
  ASSUME Chain, TypeOK, NEW b \in Balance, IncreasedObligation(b)
  PROVE  TypeOK'
<1>1. /\ Submit(b) /\ Unbilled /\ UNCHANGED <<early, credit, manual, deferred>> /\ Prev > 0
      /\ Chosen("increased_obligation", b)
  BY DEF IncreasedObligation, Supplementary
<1>2. Excess(net[Prev]) < Excess(b)
  BY <1>1, NotFlagged DEF CanHandle
<1>3. New \in Versions /\ b \in Int /\ net[Prev] \in Int
  BY <1>1, Fresh
<1>4. b - Excess(net[Prev]) \in Nat
  BY <1>2, <1>3 DEF Excess
<1>5. obligation' \in [Versions -> Obligation \cup {NoRow}]
  BY <1>3, <1>4, NewRows, ObligationTyped DEF IncreasedObligation
<1>6. ObligationStatus \in ComplianceStatus
  BY DEF ObligationStatus, ComplianceStatus
<1>7. status' \in [Versions -> ComplianceStatus \cup {NoRow}]
  BY <1>3, <1>6, StatusTyped DEF IncreasedObligation
<1>. QED
  BY <1>1, <1>5, <1>7, SubmitTyped DEF TypeOK
-----------------------------------------------------------------------------

LEMMA ManualTyped ==
  ASSUME Chain, TypeOK, NEW b \in Balance, Manual(b)
  PROVE  TypeOK'
<1>1. Submit(b) /\ Unbilled /\ UNCHANGED <<early, obligation, credit, deferred>>
  BY DEF Manual, Supplementary
<1>2. New \in Versions
  BY <1>1, Fresh
<1>3. "manual_handling" \in ComplianceStatus
  BY DEF ComplianceStatus
<1>4. status' \in [Versions -> ComplianceStatus \cup {NoRow}]
  BY <1>2, <1>3, StatusTyped DEF Manual
<1>5. manual' \in SUBSET Versions
  BY <1>2 DEF Manual, TypeOK
<1>. QED
  BY <1>1, <1>4, <1>5, SubmitTyped DEF TypeOK

LEMMA NoChangeTyped ==
  ASSUME Chain, TypeOK, NEW b \in Balance, NoChange(b)
  PROVE  TypeOK'
<1>1. Submit(b) /\ Unbilled /\ UNCHANGED <<early, obligation, credit, manual, deferred>>
  BY DEF NoChange, Supplementary
<1>2. New \in Versions
  BY <1>1, Fresh
<1>3. "no_obligation_or_credits" \in ComplianceStatus
  BY DEF ComplianceStatus
<1>4. status' \in [Versions -> ComplianceStatus \cup {NoRow}]
  BY <1>2, <1>3, StatusTyped DEF NoChange
<1>. QED
  BY <1>1, <1>4, SubmitTyped DEF TypeOK

LEMMA NoHandlerTyped ==
  ASSUME Chain, TypeOK, NEW b \in Balance, NoHandler(b)
  PROVE  TypeOK'
<1>1. Submit(b) /\ Unbilled /\ UNCHANGED <<early, status, obligation, credit, manual, deferred>>
  BY DEF NoHandler
<1>. QED
  BY <1>1, SubmitTyped DEF TypeOK

LEMMA NewEarnedCreditsTyped ==
  ASSUME Chain, TypeOK, NEW b \in Balance, NewEarnedCredits(b)
  PROVE  TypeOK'
<1>1. Submit(b) /\ Unbilled /\ UNCHANGED <<early, obligation, manual, deferred>>
  BY DEF NewEarnedCredits, Supplementary
<1>2. New \in Versions /\ b \in Int
  BY <1>1, Fresh
<1>3. "earned_credits" \in ComplianceStatus
  BY DEF ComplianceStatus
<1>4. status' \in [Versions -> ComplianceStatus \cup {NoRow}]
  BY <1>2, <1>3, StatusTyped DEF NewEarnedCredits
<1>5. credit' \in [Versions -> EarnedCredit \cup {NoRow}]
  BY <1>2, NewRows, CreditTyped DEF NewEarnedCredits
<1>. QED
  BY <1>1, <1>4, <1>5, SubmitTyped DEF TypeOK

\* The two ways of changing the previous version's record
LEMMA PreviousTyped ==
  ASSUME Chain, TypeOK, NEW b \in Balance, Submit(b), Prev > 0, credit[Prev] # NoRow,
         AmendPrevious(b) \/ ReplacePrevious(b)
  PROVE  /\ status' \in [Versions -> ComplianceStatus \cup {NoRow}]
         /\ credit' \in [Versions -> EarnedCredit \cup {NoRow}]
         /\ manual' \in SUBSET Versions
<1>1. New \in Versions /\ Prev \in Versions /\ b \in Int /\ net[Prev] \in Int
  BY Fresh
<1>2. credit[Prev] \in EarnedCredit /\ credit[Prev].amount \in Nat
  BY <1>1, CreditTypes
<1>3. {"no_obligation_or_credits", "earned_credits"} \subseteq ComplianceStatus
  BY DEF ComplianceStatus
<1>4. status' \in [Versions -> ComplianceStatus \cup {NoRow}]
  BY <1>1, <1>3, StatusTyped DEF AmendPrevious, ReplacePrevious
<1>5. manual' \in SUBSET Versions
  BY DEF AmendPrevious, ReplacePrevious, TypeOK
<1>6. CASE AmendPrevious(b)
  <2>1. CreditDelta(b) \in Int
    BY <1>1, CreditedIsSign, Int0Typed DEF CreditDelta
  <2>2. PICK n \in Nat : n = credit[Prev].amount + CreditDelta(b)
    BY <1>2, <1>6, <2>1 DEF AmendPrevious
  <2>3. [credit[Prev] EXCEPT !.amount = n] \in EarnedCredit
    BY <1>2 DEF EarnedCredit
  <2>4. credit' = [credit EXCEPT ![Prev] = [credit[Prev] EXCEPT !.amount = n]]
    BY <1>6, <2>2 DEF AmendPrevious
  <2>. QED
    BY <1>1, <1>4, <1>5, <2>3, <2>4, CreditTyped
<1>7. CASE ReplacePrevious(b)
  <2>1. [credit[Prev] EXCEPT !.status = "declined"] \in EarnedCredit
    BY <1>2 DEF EarnedCredit, IssuanceStatus
  <2>2. NewCredit(0, b) \in EarnedCredit
    BY <1>1, NewRows
  <2>3. PICK c \in EarnedCredit : c = [credit[Prev] EXCEPT !.status = "declined"]
    BY <2>1
  <2>4. PICK d \in EarnedCredit : d = NewCredit(0, b)
    BY <2>2
  <2>5. Prev # New
    BY Fresh
  <2>6. credit' = [credit EXCEPT ![New] = d, ![Prev] = c]
    BY <1>7, <2>3, <2>4, <2>5 DEF ReplacePrevious
  <2>7. credit' \in [Versions -> EarnedCredit \cup {NoRow}]
    BY <1>1, <2>6 DEF TypeOK
  <2>. QED
    BY <1>4, <1>5, <2>7
<1>. QED
  BY <1>6, <1>7

LEMMA IncreasedCreditTyped ==
  ASSUME Chain, TypeOK, NEW b \in Balance, IncreasedCredit(b)
  PROVE  TypeOK'
<1>1. /\ Submit(b) /\ Unbilled /\ UNCHANGED <<early, obligation, deferred>> /\ Prev > 0
      /\ Chosen("increased_credit", b)
  BY DEF IncreasedCredit, Supplementary
<1>2. credit[Prev] # NoRow /\ Credited(net[Prev]) < Credited(b)
  BY <1>1, NotFlagged DEF CanHandle
<1>3. New \in Versions /\ b \in Int /\ net[Prev] \in Int
  BY <1>1, Fresh
<1>4. ASSUME /\ status' = [status EXCEPT ![New] = "earned_credits"]
             /\ credit' = [credit EXCEPT ![New] = NewCredit(CreditDelta(b), b)]
             /\ UNCHANGED manual
      PROVE  /\ status' \in [Versions -> ComplianceStatus \cup {NoRow}]
             /\ credit' \in [Versions -> EarnedCredit \cup {NoRow}]
             /\ manual' \in SUBSET Versions
  <2>1. CreditDelta(b) \in Nat
    BY <1>2, <1>3, CreditedIsSign, Int0Typed DEF CreditDelta
  <2>2. NewCredit(CreditDelta(b), b) \in EarnedCredit
    BY <1>3, <2>1, NewRows
  <2>3. "earned_credits" \in ComplianceStatus
    BY DEF ComplianceStatus
  <2>. QED
    BY <1>3, <1>4, <2>2, <2>3, StatusTyped, CreditTyped DEF TypeOK
<1>5. /\ status' \in [Versions -> ComplianceStatus \cup {NoRow}]
      /\ credit' \in [Versions -> EarnedCredit \cup {NoRow}]
      /\ manual' \in SUBSET Versions
  BY <1>1, <1>2, <1>4, PreviousTyped DEF IncreasedCredit
<1>. QED
  BY <1>1, <1>5, SubmitTyped DEF TypeOK

LEMMA DecreasedCreditTyped ==
  ASSUME Chain, TypeOK, NEW b \in Balance, DecreasedCredit(b)
  PROVE  TypeOK'
<1>1. /\ Submit(b) /\ Unbilled /\ UNCHANGED <<early, obligation, deferred>> /\ Prev > 0
      /\ Chosen("decreased_credit", b)
  BY DEF DecreasedCredit, Supplementary
<1>2. credit[Prev] # NoRow
  BY <1>1, NotFlagged DEF CanHandle
<1>3. New \in Versions
  BY <1>1, Fresh
<1>4. ASSUME /\ status' = [status EXCEPT ![New] = "earned_credits"]
             /\ manual' = manual \cup {New}
             /\ UNCHANGED credit
      PROVE  /\ status' \in [Versions -> ComplianceStatus \cup {NoRow}]
             /\ credit' \in [Versions -> EarnedCredit \cup {NoRow}]
             /\ manual' \in SUBSET Versions
  <2>1. "earned_credits" \in ComplianceStatus
    BY DEF ComplianceStatus
  <2>. QED
    BY <1>3, <1>4, <2>1, StatusTyped DEF TypeOK
<1>5. /\ status' \in [Versions -> ComplianceStatus \cup {NoRow}]
      /\ credit' \in [Versions -> EarnedCredit \cup {NoRow}]
      /\ manual' \in SUBSET Versions
  BY <1>1, <1>2, <1>4, PreviousTyped DEF DecreasedCredit
<1>. QED
  BY <1>1, <1>5, SubmitTyped DEF TypeOK

LEMMA SubmissionTyped ==
  ASSUME Chain, TypeOK, NEW b \in Balance, Submission(b)
  PROVE  TypeOK'
BY InitialVersionTyped, ManualTyped, SupercedeTyped, IncreasedObligationTyped,
   DecreasedObligationTyped, NoChangeTyped, IncreasedCreditTyped, DecreasedCreditTyped,
   NewEarnedCreditsTyped, NoHandlerTyped DEF Submission

-----------------------------------------------------------------------------

\* The adjustments of a plan
LEMMA StrategyTypes ==
  ASSUME TypeOK, NEW s \in Versions, deferred[s] # NoRow
  PROVE  /\ deferred[s] \in Strategy
         /\ deferred[s].todo \in SUBSET Versions /\ deferred[s].amount \in [Versions -> Nat]
         /\ deferred[s].met \in SUBSET Versions
         /\ deferred[s].todo # {} => Target(s) \in deferred[s].todo
<1>1. /\ deferred[s] \in Strategy
      /\ deferred[s].todo \in SUBSET Versions /\ deferred[s].amount \in [Versions -> Nat]
      /\ deferred[s].met \in SUBSET Versions
  BY DEF TypeOK, Strategy
<1>2. deferred[s].todo # {} => Target(s) \in deferred[s].todo
  BY <1>1, BoundAssumption, MaxIn DEF Target, Versions
<1>. QED
  BY <1>1, <1>2

LEMMA SettleTyped ==
  ASSUME TypeOK, NEW s \in Versions, NEW v \in Versions, deferred[s] # NoRow, Settle(s, v)
  PROVE  /\ deferred' \in [Versions -> Strategy \cup {NoRow}]
         /\ status' \in [Versions -> ComplianceStatus \cup {NoRow}]
<1>1. deferred[s] \in Strategy
  BY StrategyTypes
<1>2. [deferred[s] EXCEPT !.todo = @ \ {v}] \in Strategy
  BY <1>1 DEF Strategy
<1>3. deferred' = [deferred EXCEPT ![s] = [deferred[s] EXCEPT !.todo = @ \ {v}]]
  BY DEF Settle
<1>4. "obligation_met" \in ComplianceStatus
  BY DEF ComplianceStatus
<1>. QED
  BY <1>2, <1>3, <1>4, StatusTyped DEF Settle, TypeOK

\* An adjustment on an invoice
LEMMA PostTyped ==
  ASSUME NEW o \in Obligation, NEW n \in Nat, NEW t \in Versions, NEW x \in BOOLEAN
  PROVE  Post(o, n, t, x) \in Obligation
<1>1. PICK m \in Nat : m = o.supp + n
  BY DEF Obligation
<1>2. PICK y \in BOOLEAN : y = (o.void \/ x)
  OBVIOUS
<1>3. [o EXCEPT !.supp = m, !.tag = t, !.void = y] \in Obligation
  BY RowChanges
<1>4. Post(o, n, t, x) = [o EXCEPT !.supp = m, !.tag = t, !.void = y]
  BY <1>1, <1>2 DEF Post
<1>. QED
  BY <1>3, <1>4

LEMMA AdjustInvoiceTyped ==
  ASSUME TypeOK, NEW s \in Versions, AdjustInvoice(s)
  PROVE  TypeOK'
<1>1. deferred[s] # NoRow /\ deferred[s].todo # {} /\ UNCHANGED queued
  BY DEF AdjustInvoice
<1>2. PICK v \in Versions : v = Target(s)
  BY <1>1, StrategyTypes
<1>3. PICK n \in Nat : n = deferred[s].amount[v]
  BY <1>1, StrategyTypes
<1>4. PICK x \in BOOLEAN : x = (v \in deferred[s].void)
  <2>1. CASE v \in deferred[s].void
    BY <2>1, (v \in deferred[s].void) = TRUE
  <2>2. CASE v \notin deferred[s].void
    BY <2>2, (v \in deferred[s].void) = FALSE
  <2>. QED
    BY <2>1, <2>2
<1>5. /\ obligation' = [obligation EXCEPT ![v] = Post(obligation[v], n, s, x)]
      /\ HasInvoice(v) /\ Settle(s, v)
  BY <1>2, <1>3, <1>4 DEF AdjustInvoice
<1>6. obligation[v] \in Obligation
  BY <1>5, RowTypes DEF HasInvoice
<1>7. obligation' \in [Versions -> Obligation \cup {NoRow}]
  BY <1>5, <1>6, PostTyped, ObligationTyped
<1>8. UNCHANGED <<net, credit, manual, billing, invoiced, dateReached, early>>
  BY <1>5 DEF Settle
<1>9. /\ deferred' \in [Versions -> Strategy \cup {NoRow}]
      /\ status' \in [Versions -> ComplianceStatus \cup {NoRow}]
  BY <1>1, <1>5, SettleTyped
<1>. QED
  BY <1>1, <1>7, <1>8, <1>9 DEF TypeOK

LEMMA QueueAdjustmentTyped ==
  ASSUME TypeOK, NEW s \in Versions, QueueAdjustment(s)
  PROVE  TypeOK'
<1>1. deferred[s] # NoRow /\ deferred[s].todo # {}
  BY DEF QueueAdjustment
<1>2. PICK v \in Versions : v = Target(s)
  BY <1>1, StrategyTypes
<1>3. PICK n \in Nat : n = deferred[s].amount[v]
  BY <1>1, StrategyTypes
<1>5. /\ obligation' = [obligation EXCEPT ![v] =
                          [obligation[v] EXCEPT !.void = @ \/ v \in deferred[s].void]]
      /\ queued' = queued \cup {[target |-> v, amount |-> n, supp |-> s]}
      /\ HasInvoice(v) /\ Settle(s, v)
  BY <1>2, <1>3 DEF QueueAdjustment
<1>6. obligation[v] \in Obligation
  BY <1>5, RowTypes DEF HasInvoice
<1>4. PICK x \in BOOLEAN : x = (obligation[v].void \/ v \in deferred[s].void)
  OBVIOUS
<1>10. obligation' = [obligation EXCEPT ![v] = [obligation[v] EXCEPT !.void = x]]
  BY <1>4, <1>5
<1>7. obligation' \in [Versions -> Obligation \cup {NoRow}]
  BY <1>10, <1>6, RowChanges, ObligationTyped
<1>8. UNCHANGED <<net, credit, manual, billing, invoiced, dateReached, early>>
  BY <1>5 DEF Settle
<1>9. /\ deferred' \in [Versions -> Strategy \cup {NoRow}]
      /\ status' \in [Versions -> ComplianceStatus \cup {NoRow}]
  BY <1>1, <1>5, SettleTyped
<1>11. queued' \in SUBSET Adjustment
  BY <1>5 DEF TypeOK, Adjustment
<1>. QED
  BY <1>7, <1>8, <1>9, <1>11 DEF TypeOK

LEMMA RetryAdjustmentTyped ==
  ASSUME TypeOK, NEW a \in queued, RetryAdjustment(a)
  PROVE  TypeOK'
<1>1. a.target \in Versions /\ a.amount \in Nat /\ a.supp \in Versions
  BY DEF TypeOK, Adjustment
<1>2. obligation[a.target] \in Obligation
  BY <1>1, RowTypes DEF RetryAdjustment, HasInvoice
<1>3. Post(obligation[a.target], a.amount, a.supp, FALSE) \in Obligation
  BY <1>1, <1>2, PostTyped
<1>4. obligation' \in [Versions -> Obligation \cup {NoRow}]
  BY <1>1, <1>3, ObligationTyped DEF RetryAdjustment
<1>5. queued' \in SUBSET Adjustment
  BY DEF RetryAdjustment, TypeOK
<1>6. UNCHANGED <<net, status, credit, manual, deferred, billing, invoiced, dateReached, early>>
  BY DEF RetryAdjustment
<1>. QED
  BY <1>4, <1>5, <1>6 DEF TypeOK

LEMMA FinishAdjustmentTyped ==
  ASSUME Chain, TypeOK, NEW s \in Versions, FinishAdjustment(s)
  PROVE  TypeOK'
<1>1. /\ deferred[s] # NoRow /\ Outcome(s) /\ deferred' = [deferred EXCEPT ![s] = NoRow]
      /\ UNCHANGED <<net, obligation, queued, billing, invoiced, dateReached, early>>
  BY DEF FinishAdjustment
<1>2. s \in 1..Len(net)
  BY <1>1, BoundAssumption, LenProperties DEF Chain, RowsBelong, Versions
<1>3. net[s] \in Int
  BY <1>2, ElementOfSeq, BalanceAssumption DEF Chain
<1>4. NewCredit(0, net[s]) \in EarnedCredit
  BY <1>3, NewRows
<1>5. {"manual_handling", "earned_credits"} \subseteq ComplianceStatus
  BY DEF ComplianceStatus
<1>6. status' \in [Versions -> ComplianceStatus \cup {NoRow}]
  BY <1>1, <1>5, StatusTyped DEF Outcome, TypeOK
<1>7. credit' \in [Versions -> EarnedCredit \cup {NoRow}]
  BY <1>1, <1>4, CreditTyped DEF Outcome, TypeOK
<1>8. manual' \in SUBSET Versions
  BY <1>1 DEF Outcome, TypeOK
<1>9. deferred' \in [Versions -> Strategy \cup {NoRow}]
  BY <1>1 DEF TypeOK
<1>. QED
  BY <1>1, <1>6, <1>7, <1>8, <1>9 DEF TypeOK

\* Billing
LEMMA BillingTyped ==
  ASSUME TypeOK, NEW v \in Versions, NEW pc \in {"idle", "bill", "sync"}, NEW fee \in Nat
  PROVE  [billing EXCEPT ![v] = JobAt(pc, fee)] \in [Versions -> Job]
<1>1. JobAt(pc, fee) \in Job
  BY DEF JobAt, Job
<1>. QED
  BY <1>1 DEF TypeOK

LEMMA SavedTyped ==
  ASSUME TypeOK, NEW v \in Versions, NEW i \in {"none", "number", "linked"}
  PROVE  /\ SavedObligation(v, i) \in [Versions -> Obligation \cup {NoRow}]
         /\ billing[v].fee \in Nat
<1>1. billing[v].fee \in Nat
  BY DEF TypeOK, Job
<1>2. NewObligation(billing[v].fee) \in Obligation
  BY <1>1, NewRows
<1>3. [NewObligation(billing[v].fee) EXCEPT !.invoice = i] \in Obligation
  BY <1>2 DEF Obligation
<1>. QED
  BY <1>1, <1>3, ObligationTyped DEF SavedObligation

LEMMA BillingStepTyped ==
  ASSUME TypeOK, NEW v \in Versions,
         StartBilling(v) \/ CreateInvoice(v) \/ LinkInvoice(v) \/ BillingFails(v)
  PROVE  TypeOK'
<1>1. CASE StartBilling(v)
  <2>1. obligation[v].fee \in Nat
    BY <1>1, RowTypes DEF StartBilling
  <2>2. billing' \in [Versions -> Job]
    BY <1>1, <2>1, BillingTyped DEF StartBilling
  <2>3. UNCHANGED <<net, status, obligation, credit, manual, deferred, queued, invoiced,
                    dateReached, early>>
    BY <1>1 DEF StartBilling
  <2>. QED
    BY <2>2, <2>3 DEF TypeOK
<1>2. CASE CreateInvoice(v)
  <2>1. billing' \in [Versions -> Job]
    BY <1>2, SavedTyped, BillingTyped DEF CreateInvoice
  <2>2. obligation' \in [Versions -> Obligation \cup {NoRow}]
    BY <1>2, SavedTyped DEF CreateInvoice
  <2>3. /\ UNCHANGED <<net, status, credit, manual, deferred, queued, dateReached, early>>
        /\ invoiced' \in SUBSET Versions
    BY <1>2 DEF CreateInvoice, TypeOK
  <2>. QED
    BY <2>1, <2>2, <2>3 DEF TypeOK
<1>3. CASE LinkInvoice(v)
  <2>1. billing' \in [Versions -> Job]
    BY <1>3, BillingTyped DEF LinkInvoice
  <2>2. obligation' \in [Versions -> Obligation \cup {NoRow}]
    BY <1>3, SavedTyped DEF LinkInvoice
  <2>3. status' \in [Versions -> ComplianceStatus \cup {NoRow}]
    BY <1>3, StatusTyped DEF LinkInvoice, ComplianceStatus
  <2>4. UNCHANGED <<net, credit, manual, deferred, queued, invoiced, dateReached, early>>
    BY <1>3 DEF LinkInvoice
  <2>. QED
    BY <2>1, <2>2, <2>3, <2>4 DEF TypeOK
<1>4. CASE BillingFails(v)
  <2>1. billing' \in [Versions -> Job]
    BY <1>4, BillingTyped DEF BillingFails
  <2>2. status' \in [Versions -> ComplianceStatus \cup {NoRow}]
    BY <1>4, StatusTyped DEF BillingFails, ComplianceStatus
  <2>3. UNCHANGED <<net, obligation, credit, manual, deferred, queued, invoiced,
                    dateReached, early>>
    BY <1>4 DEF BillingFails
  <2>. QED
    BY <2>1, <2>2, <2>3 DEF TypeOK
<1>. QED
  BY <1>1, <1>2, <1>3, <1>4

LEMMA BetweenTyped ==
  ASSUME TypeOK, NEW v \in Versions, BetweenSubmissions(v)
  PROVE  TypeOK'
<1>1. CASE Pay(v)
  <2>1. obligation[v] # NoRow
    BY <1>1 DEF Pay, Unpaid, Rows
  <2>2. PICK a \in 1..Outstanding(v) : obligation' = [obligation EXCEPT ![v].paid = @ + a]
    BY <1>1 DEF Pay
  <2>3. PICK n \in Nat : n = obligation[v].paid + a
    BY <2>1, <2>2, RowTypes
  <2>4. obligation' = [obligation EXCEPT ![v] = [obligation[v] EXCEPT !.paid = n]]
    BY <2>2, <2>3
  <2>5. [obligation[v] EXCEPT !.paid = n] \in Obligation
    BY <2>1, RowTypes DEF Obligation
  <2>6. obligation' \in [Versions -> Obligation \cup {NoRow}]
    BY <2>4, <2>5, ObligationTyped
  <2>7. UNCHANGED <<net, status, credit, manual, deferred, queued, billing, invoiced,
                    dateReached, early>>
    BY <1>1 DEF Pay
  <2>. QED
    BY <2>6, <2>7 DEF TypeOK
<1>2. CASE ApplyUnits(v)
  <2>1. obligation[v] # NoRow
    BY <1>2 DEF ApplyUnits, Unpaid, Rows
  <2>2. PICK a \in 1..obligation[v].fee : obligation' = [obligation EXCEPT ![v].units = @ + a]
    BY <1>2 DEF ApplyUnits
  <2>3. PICK n \in Nat : n = obligation[v].units + a
    BY <2>1, <2>2, RowTypes
  <2>4. obligation' = [obligation EXCEPT ![v] = [obligation[v] EXCEPT !.units = n]]
    BY <2>2, <2>3
  <2>5. [obligation[v] EXCEPT !.units = n] \in Obligation
    BY <2>1, RowTypes DEF Obligation
  <2>6. obligation' \in [Versions -> Obligation \cup {NoRow}]
    BY <2>4, <2>5, ObligationTyped
  <2>7. UNCHANGED <<net, status, credit, manual, deferred, queued, billing, invoiced,
                    dateReached, early>>
    BY <1>2 DEF ApplyUnits
  <2>. QED
    BY <2>6, <2>7 DEF TypeOK
<1>3. ASSUME NEW from, NEW to \in IssuanceStatus, Decide(v, from, to)
      PROVE  TypeOK'
  <2>1. credit[v] \in EarnedCredit
    BY <1>3, CreditTypes DEF Decide
  <2>2. [credit[v] EXCEPT !.status = to] \in EarnedCredit
    BY <2>1 DEF EarnedCredit
  <2>3. credit' \in [Versions -> EarnedCredit \cup {NoRow}]
    BY <1>3, <2>2, CreditTyped DEF Decide
  <2>4. UNCHANGED <<net, status, obligation, manual, deferred, queued, billing, invoiced,
                    dateReached, early>>
    BY <1>3 DEF Decide
  <2>. QED
    BY <2>3, <2>4 DEF TypeOK
<1>4. {"requested", "changes_required", "approved", "declined"} \subseteq IssuanceStatus
  BY DEF IssuanceStatus
<1>. QED
  BY <1>1, <1>2, <1>3, <1>4 DEF BetweenSubmissions, Request, Review, Approve, Decline

LEMMA TypeStep ==
  Chain /\ TypeOK /\ [Next]_vars => TypeOK'
<1>. SUFFICES ASSUME Chain, TypeOK, [Next]_vars PROVE TypeOK'
  OBVIOUS
<1>1. CASE \E b \in Balance : Submission(b)
  BY <1>1, SubmissionTyped
<1>2. ASSUME NEW v \in Versions, AfterCommit(v) PROVE TypeOK'
  BY <1>2, AdjustInvoiceTyped, QueueAdjustmentTyped, FinishAdjustmentTyped, BillingStepTyped
     DEF AfterCommit
<1>3. ASSUME NEW v \in Versions, BetweenSubmissions(v) PROVE TypeOK'
  BY <1>3, BetweenTyped
<1>4. CASE \E a \in queued : RetryAdjustment(a)
  BY <1>4, RetryAdjustmentTyped
<1>5. CASE ReachInvoiceDate
  BY <1>5 DEF ReachInvoiceDate, TypeOK
<1>6. CASE UNCHANGED vars
  BY <1>6 DEF vars, TypeOK
<1>. QED
  BY <1>1, <1>2, <1>3, <1>4, <1>5, <1>6 DEF Next

\* Every row, plan, queued adjustment and billing job has its type; in
\* particular the pool of a decrease, the amounts taken from it, the fee of an
\* increase and an amended credit amount are never negative
THEOREM TypesHold ==
  Spec => []TypeOK
<1>1. Init => TypeOK
  <2>1. JobAt("idle", 0) \in Job
    BY DEF JobAt, Job
  <2>2. <<>> \in Seq(Balance) /\ Len(<<>>) = 0
    BY EmptySeq
  <2>. SUFFICES ASSUME Init PROVE TypeOK
    OBVIOUS
  <2>3. net \in Seq(Balance) /\ Len(net) <= MaxVersions
    BY <2>2, BoundAssumption DEF Init
  <2>4. billing \in [Versions -> Job]
    BY <2>1 DEF Init
  <2>5. dateReached \in BOOLEAN /\ early \in BOOLEAN
    BY Zenon DEF Init
  <2>. QED
    BY <2>3, <2>4, <2>5 DEF Init, TypeOK
<1>. QED
  BY <1>1, TypeStep, ChainHolds, PTL DEF Spec
-----------------------------------------------------------------------------
(* Credits of a report that never exceeds its limit *)

\* Whole tonnes, so that truncation loses nothing, and none in excess
WholeCreditsOnly == \A b \in Balance : b <= 0 /\ b % Scale = 0

Tonnes(b) == Int0(Credited(b))

\* In whole tonnes, the code's comparisons and its truncated delta are exact.
LEMMA Multiples ==
  ASSUME NEW s \in Nat, s > 0, NEW i \in Int, NEW j \in Int
  PROVE  /\ i * s \in Int
         /\ i * s - j * s = (i - j) * s
         /\ i < j <=> i * s < j * s
         /\ (i * s) \div s = i
<1>1. \A x, y \in Int : x * s \in Int /\ x * s - y * s = (x - y) * s
  OBVIOUS
<1>2. \A x \in Int : x > 0 => x * s > 0
  OBVIOUS
<1>3. ASSUME NEW x \in Int, NEW y \in Int PROVE x < y <=> x * s < y * s
  <2>1. x < y => (y - x) * s > 0
    BY <1>2
  <2>2. y < x => (x - y) * s > 0
    BY <1>2
  <2>3. y * s - x * s = (y - x) * s /\ x * s - y * s = (x - y) * s
    BY <1>1
  <2>4. x * s \in Int /\ y * s \in Int
    BY <1>1
  <2>5. x = y => x * s = y * s
    OBVIOUS
  <2>. QED
    BY <2>1, <2>2, <2>3, <2>4, <2>5
<1>4. (i * s) \div s = i
  <2>1. PICK n \in Int : n = i * s
    BY <1>1
  <2>2. PICK q \in Int, r \in Int : q = n \div s /\ r = n % s
    BY <2>1
  <2>3. n = s * q + r /\ 0 <= r /\ r < s
    BY <2>1, <2>2
  <2>4. q * s \in Int /\ (i - q) * s = r
    BY <1>1, <2>1, <2>3
  <2>5. ~ (i - q >= 1)
    <3>1. SUFFICES ASSUME i - q >= 1 PROVE FALSE
      OBVIOUS
    <3>2. i - q - 1 = 0 \/ (i - q - 1) * s > 0
      BY <1>2, <3>1
    <3>3. (i - q) * s - 1 * s = (i - q - 1) * s /\ 1 * s = s
      BY <1>1
    <3>4. (i - q - 1) * s >= 0
      BY <3>2
    <3>. QED
      BY <2>3, <2>4, <3>3, <3>4
  <2>6. ~ (q - i >= 1)
    <3>1. SUFFICES ASSUME q - i >= 1 PROVE FALSE
      OBVIOUS
    <3>2. (q - i) * s > 0
      BY <1>2, <3>1
    <3>3. q * s - i * s = (q - i) * s /\ i * s - q * s = (i - q) * s
      BY <1>1
    <3>. QED
      BY <2>3, <2>4, <3>2, <3>3, <1>1
  <2>. QED
    BY <2>1, <2>2, <2>5, <2>6
<1>. QED
  BY <1>1, <1>3, <1>4

LEMMA Whole ==
  ASSUME WholeCreditsOnly, NEW b \in Balance
  PROVE  /\ Tonnes(b) \in Nat /\ Credited(b) = Tonnes(b) * Scale /\ Credited(b) \in Nat
         /\ Excess(b) = 0
<1>1. b \in Int /\ b <= 0 /\ b % Scale = 0 /\ Scale \in Nat /\ Scale > 0
  BY BalanceAssumption, BoundAssumption DEF WholeCreditsOnly
<1>2. PICK q \in Int : q = b \div Scale
  BY <1>1
<1>3. b = Scale * q
  BY <1>1, <1>2
<1>4. (-q) * Scale = -b /\ (-q) * Scale \in Int
  BY <1>1, <1>3
<1>5. ((-q) * Scale) \div Scale = -q
  BY <1>1, Multiples
<1>6. Credited(b) = -b /\ Excess(b) = 0
  BY <1>1 DEF Credited, Excess
<1>7. Tonnes(b) = -q
  <2>1. Int0(-b) = (-b) \div Scale
    BY <1>1 DEF Int0
  <2>. QED
    BY <1>4, <1>5, <1>6, <2>1 DEF Tonnes
<1>8. ~ (-q < 0)
  <2>1. -q < 0 => (-q) * Scale < 0 * Scale
    BY <1>1, Multiples
  <2>2. 0 * Scale = 0
    BY <1>1
  <2>. QED
    BY <1>1, <1>4, <2>1, <2>2
<1>. QED
  BY <1>1, <1>4, <1>6, <1>7, <1>8

LEMMA WholeCompares ==
  ASSUME WholeCreditsOnly, NEW b \in Balance, NEW c \in Balance
  PROVE  /\ Credited(b) < Credited(c) <=> Tonnes(b) < Tonnes(c)
         /\ Credited(b) >= Scale <=> Tonnes(b) >= 1
         /\ Scale <= Credited(b) <=> Tonnes(b) >= 1
         /\ Credited(b) < Scale <=> Tonnes(b) = 0
         /\ Int0(Credited(b) - Credited(c)) = Tonnes(b) - Tonnes(c)
<1>1. PICK s \in Nat : s = Scale /\ s > 0
  BY BoundAssumption
<1>2. PICK i \in Nat, j \in Nat : i = Tonnes(b) /\ j = Tonnes(c)
  BY Whole
<1>3. Credited(b) = i * s /\ Credited(c) = j * s
  BY <1>1, <1>2, Whole
<1>4. /\ i < j <=> i * s < j * s
      /\ i < 1 <=> i * s < 1 * s
      /\ 1 * s = s /\ i * s \in Int /\ j * s \in Int
      /\ i * s - j * s = (i - j) * s
  BY <1>1, Multiples
<1>5. Int0((i - j) * s) = i - j
  <2>1. PICK k \in Int : k = i - j
    OBVIOUS
  <2>2. k * s \in Int /\ (k * s) \div s = k /\ ((-k) * s) \div s = -k /\ -(k * s) = (-k) * s
    BY <1>1, Multiples
  <2>. QED
    BY <1>1, <2>1, <2>2 DEF Int0
<1>. QED
  BY <1>1, <1>2, <1>3, <1>4, <1>5

AmountsOver(S) == MapThenSumSet(LAMBDA v : credit[v].amount, S)
Amounts == [v \in Versions |-> credit[v].amount]

LEMMA AmountsSum ==
  ASSUME NEW S \in SUBSET Versions, \A v \in S : credit[v].amount \in Int
  PROVE  AmountsOver(S) = Total(Amounts, S)
<1>0. IsFiniteSet(S)
  <2>1. IsFiniteSet(1..MaxVersions)
    BY FS_Interval, BoundAssumption
  <2>. QED
    BY <2>1, FS_Subset DEF Versions
<1>1. IsFiniteSet(S) /\ Ints(Amounts, S)
  BY <1>0 DEF Ints, Amounts
<1>2. PICK f : Adds(f, Amounts, SUBSET S)
  BY <1>1, AddsExists DEF Ints
<1>3. \A s \in SUBSET S : s # {} => Amounts[Pick(s)] = credit[Pick(s)].amount
  BY PickIn DEF Amounts
<1>. DEFINE Is(h) == h = [s \in SUBSET S |->
                            IF s = {} THEN 0
                            ELSE credit[Pick(s)].amount + h[s \ {Pick(s)}]]
<1>4. \E h : Is(h)
  BY <1>2, <1>3 DEF Adds
<1>5. PICK h : Is(h) /\ AmountsOver(S) = h[S]
  BY <1>4, Zenon DEF AmountsOver, MapThenSumSet, MapThenFoldSet, Pick
<1>6. Adds(h, Amounts, SUBSET S)
  BY <1>3, <1>5 DEF Adds
<1>. QED
  BY <1>1, <1>5, <1>6, TotalIs

\* Version v has a record that may still be approved
IsOpen(v) == credit[v] # NoRow /\ credit[v].status \in Open

\* What may still be approved for version v, if it is not nothing
IsZero(v) == IsOpen(v) => credit[v].amount = 0

\* At most one open record is for credits at all, and for no more than the last
\* version earned; when the last version has a record, it is that one.  What
\* is superceded has none.
CreditsFollow ==
  /\ \A v \in Versions : deferred[v] = NoRow
  /\ \A v \in Versions : status[v] = "superceded" => credit[v] = NoRow
  /\ manual = {} /\ Len(net) > 0 /\ status[Len(net)] # NoRow =>
       /\ \A v \in Versions : IsOpen(v) => credit[v].amount <= Tonnes(Last)
       /\ \A v, w \in Versions : v # w => IsZero(v) \/ IsZero(w)
       /\ \A v \in Versions : credit[Len(net)] # NoRow /\ v # Len(net) => IsZero(v)

LEMMA LastIs ==
  ASSUME Chain, Len(net) > 0
  PROVE  Last \in Balance /\ Len(net) \in Versions
<1>1. Len(net) \in 1..Len(net)
  BY LenProperties DEF Chain
<1>. QED
  BY <1>1, ElementOfSeq, BoundAssumption DEF Chain, Last, Versions

LEMMA FollowIsEnough ==
  ASSUME WholeCreditsOnly, Chain, TypeOK, CreditsFollow
  PROVE  OpenIsEarned
<1>. SUFFICES ASSUME Settled PROVE CreditsIn(Open) <= Int0(Credited(Last))
  BY DEF OpenIsEarned
<1>1. Len(net) > 0 /\ manual = {} /\ status[Len(net)] # NoRow
  BY LenProperties, EmptySeq DEF Settled, Chain
<1>. DEFINE S == {v \in Rows(credit) : credit[v].status \in Open}
<1>2. S \in SUBSET Versions /\ \A v \in S : IsOpen(v)
  BY DEF Rows, IsOpen
<1>3. \A v \in S : credit[v].amount \in Nat
  BY <1>2, CreditTypes DEF IsOpen
<1>4. IsFiniteSet(S)
  <2>1. IsFiniteSet(1..MaxVersions)
    BY FS_Interval, BoundAssumption
  <2>. QED
    BY <1>2, <2>1, FS_Subset DEF Versions
<1>5. CreditsIn(Open) = AmountsOver(S)
  BY Zenon DEF CreditsIn, AmountsOver
<1>6. AmountsOver(S) = Total(Amounts, S)
  BY <1>2, <1>3, AmountsSum
<1>7. PICK n \in Nat : n = Tonnes(Last)
  BY <1>1, LastIs, Whole
<1>. HIDE DEF S
<1>8. \A v \in S : Amounts[v] \in Nat /\ Amounts[v] <= n
  BY <1>1, <1>2, <1>3, <1>7 DEF CreditsFollow, Amounts
<1>9. \A v, w \in S : v # w => Amounts[v] = 0 \/ Amounts[w] = 0
  BY <1>1, <1>2 DEF CreditsFollow, Amounts, IsZero
<1>10. Total(Amounts, S) <= n
  BY <1>4, <1>8, <1>9, TotalSingle
<1>. QED
  BY <1>5, <1>6, <1>7, <1>10 DEF Tonnes

LEMMA NotPositive ==
  ASSUME WholeCreditsOnly, NEW b \in Balance
  PROVE  b \in Int /\ b <= 0 /\ ~ (b > 0)
<1>1. b \in Int
  BY BalanceAssumption
<1>2. b <= 0
  BY Zenon DEF WholeCreditsOnly
<1>. QED
  BY <1>1, <1>2

\* There are no obligations.
LEMMA NothingToBill ==
  ASSUME WholeCreditsOnly, Chain, NEW v \in Versions
  PROVE  obligation[v] = NoRow /\ billing[v].pc = "idle"
<1>1. SUFFICES ASSUME obligation[v] # NoRow \/ billing[v].pc # "idle" PROVE FALSE
  OBVIOUS
<1>2. v \in 1..Len(net) /\ net[v] > 0
  BY <1>1, BoundAssumption, LenProperties DEF Chain, RowsBelong, Signs, Versions
<1>3. net[v] \in Balance
  BY <1>2, ElementOfSeq DEF Chain
<1>. QED
  BY <1>2, <1>3, NotPositive

\* What a submission has to establish, and what it finds
LEMMA FollowSubmit ==
  ASSUME WholeCreditsOnly, Chain, CreditsFollow, NEW b \in Balance, Submit(b),
         UNCHANGED deferred,
         \A v \in Versions : status'[v] = "superceded" => credit'[v] = NoRow,
         manual' = {} /\ status'[New] # NoRow =>
           /\ \A v \in Versions : IsOpen(v)' => credit'[v].amount <= Tonnes(b)
           /\ \A v, w \in Versions : v # w => IsZero(v)' \/ IsZero(w)'
           /\ \A v \in Versions : credit'[New] # NoRow /\ v # New => IsZero(v)'
  PROVE  CreditsFollow'
<1>1. Len(net') = New /\ Last' = b
  BY Appended DEF Last, New
<1>2. Tonnes(Last)' = Tonnes(b)
  BY <1>1 DEF Tonnes, Int0, Credited
<1>. QED
  BY <1>1, <1>2 DEF CreditsFollow

LEMMA FollowFinds ==
  ASSUME WholeCreditsOnly, Chain, TypeOK, CreditsFollow, NEW b \in Balance, Submit(b),
         Prev > 0, status[Prev] # NoRow, manual = {}
  PROVE  /\ net[Prev] \in Balance /\ Prev \in Versions
         /\ \A v \in Versions : IsOpen(v) => credit[v].amount <= Tonnes(net[Prev])
         /\ \A v, w \in Versions : v # w => IsZero(v) \/ IsZero(w)
         /\ \A v \in Versions : credit[Prev] # NoRow /\ v # Prev => IsZero(v)
<1>1. Prev = Len(net) /\ Len(net) > 0
  BY DEF Prev
<1>. QED
  BY <1>1, LastIs DEF CreditsFollow, Last

\* The record of a new version
LEMMA NewCreditIs ==
  ASSUME WholeCreditsOnly, NEW b \in Balance, NEW a \in Nat
  PROVE  /\ NewCredit(a, b) # NoRow
         /\ NewCredit(a, b).amount = IF a # 0 THEN a ELSE Tonnes(b)
         /\ NewCredit(a, b).status = "not_issued"
<1>1. NewCredit(a, b) \in EarnedCredit
  BY NewRows, BalanceAssumption
<1>. QED
  BY <1>1, NoRowAssumption DEF NewCredit, CreditAmount, Tonnes

LEMMA InitialVersionFollows ==
  ASSUME WholeCreditsOnly, Chain, TypeOK, CreditsFollow, NEW b \in Balance, InitialVersion(b)
  PROVE  CreditsFollow'
<1>1. Submit(b) /\ Prev = 0 /\ UNCHANGED <<manual, deferred>>
  BY DEF InitialVersion
<1>2. New \in Versions /\ b \in Int /\ Tables
  BY <1>1, Fresh
<1>3. ASSUME NEW v \in Versions PROVE credit[v] = NoRow
  BY <1>1, BoundAssumption DEF Chain, RowsBelong, Prev, Versions
<1>4. ASSUME NEW v \in Versions
      PROVE  credit'[v] \in {NoRow, IF v = New THEN NewCredit(0, b) ELSE NoRow}
  BY <1>2, <1>3 DEF InitialVersion, Tables
<1>5. \A v \in Versions : credit'[v] # NoRow => v = New /\ credit'[v].amount = Tonnes(b)
  BY <1>4, NewCreditIs
<1>6. Tonnes(b) \in Nat
  BY Whole
<1>7. \A v \in Versions : status'[v] # "superceded"
  <2>1. \A v \in Versions : status[v] = NoRow
    BY <1>1, BoundAssumption DEF Chain, CRVs, Prev, Versions
  <2>2. "superceded" \in ComplianceStatus
    BY DEF ComplianceStatus
  <2>3. ObligationStatus # "superceded"
    BY DEF ObligationStatus
  <2>. QED
    BY <1>2, <2>1, <2>2, <2>3, NoRowAssumption DEF InitialVersion, Tables
<1>. QED
  BY <1>1, <1>5, <1>6, <1>7, FollowSubmit DEF IsOpen, IsZero

LEMMA ManualFollows ==
  ASSUME WholeCreditsOnly, Chain, TypeOK, CreditsFollow, NEW b \in Balance, Manual(b)
  PROVE  CreditsFollow'
<1>1. Submit(b) /\ manual' # {} /\ UNCHANGED <<credit, deferred>>
  BY DEF Manual, Supplementary
<1>2. \A v \in Versions : status'[v] = "superceded" => status[v] = "superceded"
  BY <1>1, Fresh DEF Manual, Tables
<1>. QED
  BY <1>1, <1>2, FollowSubmit DEF CreditsFollow

LEMMA NoChangeFollows ==
  ASSUME WholeCreditsOnly, Chain, TypeOK, CreditsFollow, NEW b \in Balance, NoChange(b)
  PROVE  CreditsFollow'
<1>1. /\ Submit(b) /\ Prev > 0 /\ status[Prev] # NoRow /\ Chosen("no_change", b)
      /\ UNCHANGED <<credit, deferred, manual>>
  BY DEF NoChange, Supplementary
<1>2. b = net[Prev]
  BY <1>1, NotFlagged DEF CanHandle
<1>3. credit[New] = NoRow
  BY <1>1, Fresh
<1>4. \A v \in Versions : status'[v] = "superceded" => status[v] = "superceded"
  BY <1>1, Fresh DEF NoChange, Tables
<1>5. \A v \in Versions : status'[v] = "superceded" => credit'[v] = NoRow
  BY <1>1, <1>4 DEF CreditsFollow
<1>6. \A v \in Versions : (IsOpen(v)' <=> IsOpen(v)) /\ (IsZero(v)' <=> IsZero(v))
  BY <1>1 DEF IsOpen, IsZero
<1>7. manual' = {} =>
        /\ \A v \in Versions : IsOpen(v)' => credit'[v].amount <= Tonnes(b)
        /\ \A v, w \in Versions : v # w => IsZero(v)' \/ IsZero(w)'
        /\ \A v \in Versions : credit'[New] # NoRow /\ v # New => IsZero(v)'
  BY <1>1, <1>2, <1>3, <1>6, FollowFinds
<1>. QED
  BY <1>1, <1>5, <1>7, FollowSubmit

LEMMA NoHandlerFollows ==
  ASSUME WholeCreditsOnly, Chain, TypeOK, CreditsFollow, NEW b \in Balance, NoHandler(b)
  PROVE  CreditsFollow'
<1>1. Submit(b) /\ UNCHANGED <<status, credit, deferred, manual>>
  BY DEF NoHandler
<1>2. status'[New] = NoRow
  BY <1>1, Fresh
<1>. QED
  BY <1>1, <1>2, FollowSubmit DEF CreditsFollow

LEMMA ObligationsDoNotChange ==
  ASSUME WholeCreditsOnly, Chain, NEW b \in Balance
  PROVE  ~ IncreasedObligation(b) /\ ~ DecreasedObligation(b)
<1>1. SUFFICES ASSUME IncreasedObligation(b) \/ DecreasedObligation(b) PROVE FALSE
  OBVIOUS
<1>2. Submit(b) /\ Prev > 0
  BY <1>1 DEF IncreasedObligation, DecreasedObligation, Supplementary
<1>3. Excess(net[Prev]) < Excess(b) \/ Excess(b) < Excess(net[Prev])
  BY <1>1, NotFlagged DEF IncreasedObligation, DecreasedObligation, Supplementary, CanHandle
<1>4. net[Prev] \in Balance
  BY <1>2, LastIs DEF Last, Prev
<1>. QED
  BY <1>3, <1>4, Whole

LEMMA SupercedeFollows ==
  ASSUME WholeCreditsOnly, Chain, TypeOK, CreditsFollow, NEW b \in Balance, Supercede(b)
  PROVE  CreditsFollow'
<1>1. /\ Submit(b) /\ Prev > 0 /\ status[Prev] # NoRow /\ Chosen("supercede", b)
      /\ UNCHANGED <<deferred, manual>>
  BY DEF Supercede, Supplementary
<1>2. CanSupercede
  BY <1>1, NotFlagged DEF CanHandle
<1>3. New \in Versions /\ Prev \in Versions /\ Prev # New /\ Tables /\ net[Prev] \in Balance
  BY <1>1, Fresh, LastIs DEF Last, Prev
<1>4. Credited(net[Prev]) >= Scale
  <2>1. ~ (net[Prev] > 0)
    BY <1>3, NotPositive
  <2>. QED
    BY <1>2, <2>1 DEF CanSupercede
<1>5. \A v \in Versions : v # Prev => credit[v] = NoRow
  <2>1. ASSUME NEW v \in Versions, v # Prev, credit[v] # NoRow PROVE FALSE
    <3>1. v \in Rows(status) \ {Prev}
      BY <2>1 DEF Chain, RowsBelong, Rows
    <3>2. status[v] = "superceded"
      BY <1>2, <3>1 DEF CanSupercede, OthersSuperceded
    <3>. QED
      BY <2>1, <3>2 DEF CreditsFollow
  <2>. QED
    BY <2>1
<1>6. credit' = [credit EXCEPT
                  ![Prev] = IF Credited(net[Prev]) >= Scale THEN NoRow ELSE @,
                  ![New] = IF Credited(b) >= Scale THEN NewCredit(0, b) ELSE NoRow]
  BY DEF Supercede
<1>7. \A v \in Versions : v # New => credit'[v] = NoRow
  BY <1>3, <1>4, <1>5, <1>6 DEF Tables
<1>8. credit'[New] \in {NewCredit(0, b), NoRow}
  BY <1>3, <1>6 DEF Tables
<1>9. status'[New] # "superceded"
  <2>1. status' = [status EXCEPT
                    ![Prev] = "superceded",
                    ![New] = IF b > 0 /\ ~dateReached THEN "pending_invoice"
                             ELSE IF Credited(b) >= Scale THEN "earned_credits"
                             ELSE "no_obligation_or_credits"]
    BY DEF Supercede
  <2>2. status'[New] \in {"pending_invoice", "earned_credits", "no_obligation_or_credits"}
    BY <1>3, <2>1 DEF Tables
  <2>. QED
    BY <2>2
<1>10. credit'[New] # NoRow => credit'[New].amount = Tonnes(b)
  BY <1>8, NewCreditIs
<1>11. Tonnes(b) \in Nat
  BY Whole
<1>. QED
  BY <1>1, <1>7, <1>9, <1>10, <1>11, FollowSubmit DEF IsOpen, IsZero

\* Both ways of changing the previous record keep what is open below what the
\* new version earned.
LEMMA PreviousFollows ==
  ASSUME WholeCreditsOnly, Chain, TypeOK, CreditsFollow, NEW b \in Balance, Submit(b),
         Prev > 0, status[Prev] # NoRow, credit[Prev] # NoRow, UNCHANGED deferred,
         AmendPrevious(b) \/ ReplacePrevious(b)
  PROVE  CreditsFollow'
<1>1. /\ New \in Versions /\ Prev \in Versions /\ Prev # New /\ Tables
      /\ credit[New] = NoRow /\ status[New] = NoRow
  BY Fresh
<1>2. credit[Prev] \in EarnedCredit /\ credit[Prev].amount \in Nat
  BY <1>1, CreditTypes
<1>3. UNCHANGED manual
  BY DEF AmendPrevious, ReplacePrevious
<1>4. \A v \in Versions : status'[v] = "superceded" => status[v] = "superceded" /\ v # Prev
  <2>1. \A v \in Versions : status'[v] = "superceded" => status[v] = "superceded"
    BY <1>1 DEF AmendPrevious, ReplacePrevious, Tables
  <2>. QED
    BY <1>1, <2>1 DEF CreditsFollow
<1>5. net[Prev] \in Balance
  BY LastIs DEF Last, Prev
<1>6. PICK n \in Nat, m \in Nat : n = Tonnes(b) /\ m = Tonnes(net[Prev])
  BY <1>5, Whole
<1>7. CASE AmendPrevious(b)
  <2>1. CreditDelta(b) = n - m
    BY <1>5, <1>6, WholeCompares DEF CreditDelta
  <2>2. credit' = [credit EXCEPT ![Prev] =
                     [credit[Prev] EXCEPT !.amount = credit[Prev].amount + (n - m)]]
    BY <1>7, <2>1 DEF AmendPrevious
  <2>3. \A v \in Versions : v # Prev => credit'[v] = credit[v]
    BY <1>1, <2>2 DEF Tables
  <2>4. credit'[Prev] = [credit[Prev] EXCEPT !.amount = credit[Prev].amount + (n - m)]
    BY <1>1, <2>2 DEF Tables
  <2>5. credit'[Prev].amount = credit[Prev].amount + (n - m)
    BY <1>2, <2>4 DEF EarnedCredit
  <2>6. credit[Prev].status = "not_issued"
    BY <1>7 DEF AmendPrevious
  <2>7. IsOpen(Prev)
    BY <2>6 DEF IsOpen, Open
  <2>8. ASSUME manual = {}
        PROVE  /\ credit[Prev].amount <= m
               /\ \A v \in Versions : v # Prev => IsZero(v)
    BY <1>1, <1>6, <2>7, <2>8, FollowFinds
  <2>9. \A v \in Versions : v # Prev => (IsZero(v)' <=> IsZero(v)) /\ (IsOpen(v)' <=> IsOpen(v))
    BY <2>3 DEF IsZero, IsOpen
  <2>10. ASSUME manual = {}
         PROVE  /\ \A v \in Versions : IsOpen(v)' => credit'[v].amount <= n
                /\ \A v, w \in Versions : v # w => IsZero(v)' \/ IsZero(w)'
                /\ \A v \in Versions : credit'[New] # NoRow /\ v # New => IsZero(v)'
    <3>1. credit'[Prev].amount <= n
      BY <1>2, <2>5, <2>8, <2>10
    <3>2. \A v \in Versions : v # Prev => IsZero(v)'
      BY <2>8, <2>9, <2>10
    <3>3. ASSUME NEW v \in Versions, IsOpen(v)' PROVE credit'[v].amount <= n
      <4>1. CASE v = Prev
        BY <3>1, <4>1
      <4>2. CASE v # Prev
        BY <3>2, <3>3, <4>2 DEF IsZero
      <4>. QED
        BY <4>1, <4>2
    <3>4. credit'[New] = NoRow
      BY <1>1, <2>3
    <3>. QED
      BY <3>2, <3>3, <3>4
  <2>11. \A v \in Versions : status'[v] = "superceded" => credit'[v] = NoRow
    BY <1>4, <2>3 DEF CreditsFollow
  <2>. QED
    BY <1>3, <1>6, <2>10, <2>11, FollowSubmit
<1>8. CASE ReplacePrevious(b)
  <2>1. credit' = [credit EXCEPT ![New] = NewCredit(0, b),
                                 ![Prev] = [credit[Prev] EXCEPT !.status = "declined"]]
    <3>1. credit' = [credit EXCEPT ![New] = NewCredit(0, b),
                                   ![Prev] = [@ EXCEPT !.status = "declined"]]
      BY <1>8 DEF ReplacePrevious
    <3>. QED
      BY <1>1, <3>1
  <2>2. /\ credit'[New] = NewCredit(0, b)
        /\ credit'[Prev] = [credit[Prev] EXCEPT !.status = "declined"]
        /\ \A v \in Versions : v # New /\ v # Prev => credit'[v] = credit[v]
    BY <1>1, <2>1 DEF Tables
  <2>3. credit'[New].amount = n
    BY <1>6, <2>2, NewCreditIs
  <2>4. credit'[Prev].status = "declined"
    BY <1>2, <2>2 DEF EarnedCredit
  <2>5. \A v \in Versions : v = Prev => ~ IsOpen(v)'
    BY <2>4 DEF IsOpen, Open
  <2>6. ASSUME manual = {}, NEW v \in Versions, v # New PROVE IsZero(v)'
    <3>1. CASE v = Prev
      BY <2>5, <3>1 DEF IsZero
    <3>2. CASE v # Prev
      <4>1. IsZero(v)
        BY <2>6, <3>2, FollowFinds
      <4>. QED
        BY <2>2, <2>6, <3>2, <4>1 DEF IsZero, IsOpen
    <3>. QED
      BY <3>1, <3>2
  <2>7. ASSUME manual = {}
        PROVE  /\ \A v \in Versions : IsOpen(v)' => credit'[v].amount <= n
               /\ \A v, w \in Versions : v # w => IsZero(v)' \/ IsZero(w)'
               /\ \A v \in Versions : credit'[New] # NoRow /\ v # New => IsZero(v)'
    <3>1. ASSUME NEW v \in Versions, IsOpen(v)' PROVE credit'[v].amount <= n
      <4>1. CASE v = New
        BY <2>3, <4>1
      <4>2. CASE v # New
        BY <2>6, <2>7, <3>1, <4>2 DEF IsZero
      <4>. QED
        BY <4>1, <4>2
    <3>. QED
      BY <2>6, <2>7, <3>1
  <2>8. ASSUME NEW v \in Versions, status'[v] = "superceded" PROVE credit'[v] = NoRow
    <3>1. v # New
      BY <1>1, <1>8, <2>8 DEF ReplacePrevious, Tables
    <3>2. status[v] = "superceded" /\ v # Prev
      BY <1>4, <2>8
    <3>. QED
      BY <2>2, <3>1, <3>2 DEF CreditsFollow
  <2>. QED
    BY <1>3, <1>6, <2>7, <2>8, FollowSubmit
<1>. QED
  BY <1>7, <1>8

LEMMA IncreasedCreditFollows ==
  ASSUME WholeCreditsOnly, Chain, TypeOK, CreditsFollow, NEW b \in Balance, IncreasedCredit(b)
  PROVE  CreditsFollow'
<1>1. /\ Submit(b) /\ UNCHANGED deferred /\ Prev > 0 /\ status[Prev] # NoRow
      /\ Chosen("increased_credit", b)
  BY DEF IncreasedCredit, Supplementary
<1>2. credit[Prev] # NoRow /\ Credited(net[Prev]) < Credited(b)
  BY <1>1, NotFlagged DEF CanHandle
<1>3. CASE AmendPrevious(b) \/ ReplacePrevious(b)
  BY <1>1, <1>2, <1>3, PreviousFollows
<1>4. ASSUME /\ credit[Prev].status = "approved"
             /\ status' = [status EXCEPT ![New] = "earned_credits"]
             /\ credit' = [credit EXCEPT ![New] = NewCredit(CreditDelta(b), b)]
             /\ UNCHANGED manual
      PROVE  CreditsFollow'
  <2>1. /\ New \in Versions /\ Prev \in Versions /\ Tables /\ net[Prev] \in Balance
    BY <1>1, Fresh, LastIs DEF Last, Prev
  <2>2. PICK n \in Nat, m \in Nat : n = Tonnes(b) /\ m = Tonnes(net[Prev])
    BY <2>1, Whole
  <2>3. CreditDelta(b) = n - m /\ m < n
    BY <1>2, <2>1, <2>2, WholeCompares DEF CreditDelta
  <2>4. /\ credit'[New] = NewCredit(n - m, b)
        /\ \A v \in Versions : v # New => credit'[v] = credit[v]
    BY <1>4, <2>1, <2>3 DEF Tables
  <2>5. credit'[New].amount <= n
    <3>1. PICK d \in Nat : d = n - m /\ d # 0 /\ d <= n
      BY <2>3
    <3>2. NewCredit(d, b).amount = d
      BY <3>1, NewCreditIs
    <3>. QED
      BY <2>4, <3>1, <3>2
  <2>6. ASSUME manual = {}, NEW v \in Versions, v # New PROVE IsZero(v)'
    <3>1. CASE v = Prev
      BY <1>4, <2>4, <2>6, <3>1 DEF IsZero, IsOpen, Open
    <3>2. CASE v # Prev
      <4>1. IsZero(v)
        BY <1>1, <1>2, <2>6, <3>2, FollowFinds
      <4>. QED
        BY <2>4, <2>6, <4>1 DEF IsZero, IsOpen
    <3>. QED
      BY <3>1, <3>2
  <2>7. ASSUME manual = {}
        PROVE  /\ \A v \in Versions : IsOpen(v)' => credit'[v].amount <= n
               /\ \A v, w \in Versions : v # w => IsZero(v)' \/ IsZero(w)'
               /\ \A v \in Versions : credit'[New] # NoRow /\ v # New => IsZero(v)'
    <3>1. ASSUME NEW v \in Versions, IsOpen(v)' PROVE credit'[v].amount <= n
      <4>1. CASE v = New
        BY <2>5, <4>1
      <4>2. CASE v # New
        BY <2>2, <2>6, <2>7, <3>1, <4>2 DEF IsZero
      <4>. QED
        BY <4>1, <4>2
    <3>. QED
      BY <2>6, <2>7, <3>1
  <2>8. ASSUME NEW v \in Versions, status'[v] = "superceded" PROVE credit'[v] = NoRow
    <3>1. v # New /\ status[v] = "superceded"
      BY <1>4, <2>1, <2>8 DEF Tables
    <3>. QED
      BY <2>4, <3>1 DEF CreditsFollow
  <2>. QED
    BY <1>1, <1>4, <2>2, <2>7, <2>8, FollowSubmit
<1>. QED
  BY <1>3, <1>4 DEF IncreasedCredit

LEMMA DecreasedCreditFollows ==
  ASSUME WholeCreditsOnly, Chain, TypeOK, CreditsFollow, NEW b \in Balance, DecreasedCredit(b)
  PROVE  CreditsFollow'
<1>1. /\ Submit(b) /\ UNCHANGED deferred /\ Prev > 0 /\ status[Prev] # NoRow
      /\ Chosen("decreased_credit", b)
  BY DEF DecreasedCredit, Supplementary
<1>2. credit[Prev] # NoRow
  BY <1>1, NotFlagged DEF CanHandle
<1>3. CASE AmendPrevious(b) \/ ReplacePrevious(b)
  BY <1>1, <1>2, <1>3, PreviousFollows
<1>4. ASSUME /\ status' = [status EXCEPT ![New] = "earned_credits"]
             /\ manual' = manual \cup {New}
             /\ UNCHANGED credit
      PROVE  CreditsFollow'
  <2>1. New \in Versions /\ Tables
    BY <1>1, Fresh
  <2>2. \A v \in Versions : status'[v] = "superceded" => status[v] = "superceded"
    BY <1>4, <2>1 DEF Tables
  <2>. QED
    BY <1>1, <1>4, <2>2, FollowSubmit DEF CreditsFollow
<1>. QED
  BY <1>3, <1>4 DEF DecreasedCredit

LEMMA NewEarnedCreditsFollows ==
  ASSUME WholeCreditsOnly, Chain, TypeOK, CreditsFollow, NEW b \in Balance, NewEarnedCredits(b)
  PROVE  CreditsFollow'
<1>1. /\ Submit(b) /\ UNCHANGED <<deferred, manual>> /\ Prev > 0 /\ status[Prev] # NoRow
      /\ Chosen("new_earned_credits", b)
      /\ status' = [status EXCEPT ![New] = "earned_credits"]
      /\ credit' = [credit EXCEPT ![New] = NewCredit(0, b)]
  BY DEF NewEarnedCredits, Supplementary
<1>2. Credited(net[Prev]) < Scale
  BY <1>1, NotFlagged DEF CanHandle
<1>3. New \in Versions /\ Prev \in Versions /\ Tables /\ net[Prev] \in Balance
  BY <1>1, Fresh, LastIs DEF Last, Prev
<1>4. Tonnes(net[Prev]) = 0
  BY <1>2, <1>3, WholeCompares
<1>5. PICK n \in Nat : n = Tonnes(b)
  BY Whole
<1>6. /\ credit'[New] = NewCredit(0, b)
      /\ \A v \in Versions : v # New => credit'[v] = credit[v]
  BY <1>1, <1>3 DEF Tables
<1>7. credit'[New].amount = n
  BY <1>5, <1>6, NewCreditIs
<1>8. ASSUME manual = {}, NEW v \in Versions, v # New PROVE IsZero(v)'
  <2>1. IsOpen(v) => credit[v].amount <= 0 /\ credit[v].amount \in Nat
    BY <1>1, <1>4, <1>8, FollowFinds, CreditTypes DEF IsOpen
  <2>. QED
    BY <1>6, <1>8, <2>1 DEF IsZero, IsOpen
<1>9. ASSUME manual = {}
      PROVE  /\ \A v \in Versions : IsOpen(v)' => credit'[v].amount <= n
             /\ \A v, w \in Versions : v # w => IsZero(v)' \/ IsZero(w)'
             /\ \A v \in Versions : credit'[New] # NoRow /\ v # New => IsZero(v)'
  <2>1. ASSUME NEW v \in Versions, IsOpen(v)' PROVE credit'[v].amount <= n
    <3>1. CASE v = New
      BY <1>7, <3>1
    <3>2. CASE v # New
      BY <1>8, <1>9, <2>1, <3>2 DEF IsZero
    <3>. QED
      BY <3>1, <3>2
  <2>. QED
    BY <1>8, <1>9, <2>1
<1>10. ASSUME NEW v \in Versions, status'[v] = "superceded" PROVE credit'[v] = NoRow
  <2>1. v # New /\ status[v] = "superceded"
    BY <1>1, <1>3, <1>10 DEF Tables
  <2>. QED
    BY <1>6, <2>1 DEF CreditsFollow
<1>. QED
  BY <1>1, <1>5, <1>9, <1>10, FollowSubmit

LEMMA SubmissionFollows ==
  ASSUME WholeCreditsOnly, Chain, TypeOK, CreditsFollow, NEW b \in Balance, Submission(b)
  PROVE  CreditsFollow'
BY InitialVersionFollows, ManualFollows, SupercedeFollows, ObligationsDoNotChange,
   NoChangeFollows, IncreasedCreditFollows, DecreasedCreditFollows,
   NewEarnedCreditsFollows, NoHandlerFollows DEF Submission

\* A step that changes at most the status of one record: a decision
LEMMA FollowDecide ==
  ASSUME TypeOK, CreditsFollow, NEW v \in Versions, BetweenSubmissions(v)
  PROVE  CreditsFollow'
<1>1. UNCHANGED <<net, status, manual, deferred>>
  BY DEF BetweenSubmissions, Pay, ApplyUnits, Request, Review, Approve, Decline, Decide
<1>2. CASE UNCHANGED credit
  BY <1>1, <1>2 DEF CreditsFollow, IsZero, IsOpen, Last, Tonnes, Int0, Credited
<1>3. ASSUME NEW from, NEW to, from \subseteq Open, Decide(v, from, to)
      PROVE  CreditsFollow'
  <2>1. credit[v] # NoRow /\ credit[v].status \in Open /\ credit[v] \in EarnedCredit
    BY <1>3, CreditTypes DEF Decide
  <2>2. credit' = [credit EXCEPT ![v] = [credit[v] EXCEPT !.status = to]]
    BY <1>3 DEF Decide
  <2>3. \A w \in Versions :
          /\ credit'[w] # NoRow => credit[w] # NoRow
          /\ credit[w] = NoRow => credit'[w] = NoRow
          /\ IsOpen(w)' => IsOpen(w) /\ credit'[w].amount = credit[w].amount
    <3>1. [credit[v] EXCEPT !.status = to].amount = credit[v].amount
      BY <2>1 DEF EarnedCredit
    <3>2. credit'[v] = [credit[v] EXCEPT !.status = to]
      BY <2>2 DEF TypeOK
    <3>3. \A w \in Versions : w # v => credit'[w] = credit[w]
      BY <2>2 DEF TypeOK
    <3>. QED
      BY <2>1, <3>1, <3>2, <3>3 DEF IsOpen
  <2>4. \A w \in Versions : IsZero(w) => IsZero(w)'
    BY <2>3 DEF IsZero
  <2>5. Tonnes(Last)' = Tonnes(Last) /\ Len(net') = Len(net)
    BY <1>1 DEF Last, Tonnes, Int0, Credited
  <2>6. \A w \in Versions : status'[w] = "superceded" => credit'[w] = NoRow
    BY <1>1, <2>3 DEF CreditsFollow
  <2>7. ASSUME manual' = {}, Len(net') > 0, status'[Len(net')] # NoRow
        PROVE  /\ \A w \in Versions : IsOpen(w)' => credit'[w].amount <= Tonnes(Last)'
               /\ \A u, w \in Versions : u # w => IsZero(u)' \/ IsZero(w)'
               /\ \A w \in Versions : credit'[Len(net')] # NoRow /\ w # Len(net') => IsZero(w)'
    <3>1. /\ \A w \in Versions : IsOpen(w) => credit[w].amount <= Tonnes(Last)
          /\ \A u, w \in Versions : u # w => IsZero(u) \/ IsZero(w)
          /\ \A w \in Versions : credit[Len(net)] # NoRow /\ w # Len(net) => IsZero(w)
      BY <1>1, <2>5, <2>7 DEF CreditsFollow
    <3>2. Len(net) \in Versions
      BY <1>1, <2>7 DEF TypeOK, Versions
    <3>. QED
      BY <2>3, <2>4, <2>5, <3>1, <3>2
  <2>8. \A w \in Versions : deferred'[w] = NoRow
    BY <1>1 DEF CreditsFollow
  <2>. QED
    BY <2>6, <2>7, <2>8 DEF CreditsFollow
<1>4. UNCHANGED credit \/ \E from, to : from \subseteq Open /\ Decide(v, from, to)
  <2>1. Pay(v) \/ ApplyUnits(v) => UNCHANGED credit
    BY DEF Pay, ApplyUnits
  <2>2. /\ {"not_issued", "changes_required"} \subseteq Open
        /\ {"requested"} \subseteq Open
        /\ {"requested", "changes_required"} \subseteq Open
    BY DEF Open
  <2>. QED
    BY <2>1, <2>2 DEF BetweenSubmissions, Request, Review, Approve, Decline
<1>. QED
  BY <1>2, <1>3, <1>4

LEMMA FollowStep ==
  ASSUME WholeCreditsOnly
  PROVE  Chain /\ TypeOK /\ CreditsFollow /\ [Next]_vars => CreditsFollow'
<1>. SUFFICES ASSUME Chain, TypeOK, CreditsFollow, [Next]_vars PROVE CreditsFollow'
  OBVIOUS
<1>1. CASE \E b \in Balance : Submission(b)
  BY <1>1, SubmissionFollows
<1>2. ASSUME NEW v \in Versions, AfterCommit(v) PROVE FALSE
  <2>1. deferred[v] = NoRow /\ obligation[v] = NoRow /\ billing[v].pc = "idle"
    BY NothingToBill DEF CreditsFollow
  <2>. QED
    BY <1>2, <2>1 DEF AfterCommit, AdjustInvoice, QueueAdjustment, FinishAdjustment,
       StartBilling, CreateInvoice, LinkInvoice, BillingFails
<1>3. ASSUME NEW v \in Versions, BetweenSubmissions(v) PROVE CreditsFollow'
  BY <1>3, FollowDecide
<1>4. ASSUME UNCHANGED <<net, status, credit, manual, deferred>> PROVE CreditsFollow'
  BY <1>4 DEF CreditsFollow, IsZero, IsOpen, Last, Tonnes, Int0, Credited
<1>5. (\E a \in queued : RetryAdjustment(a)) \/ ReachInvoiceDate \/ UNCHANGED vars
        => UNCHANGED <<net, status, credit, manual, deferred>>
  BY DEF RetryAdjustment, ReachInvoiceDate, vars
<1>. QED
  BY <1>1, <1>2, <1>3, <1>4, <1>5 DEF Next

\* For a report that never exceeds its limit, in whole tonnes: whatever is
\* requested, approved or declined between and during submissions, the credits
\* that can still be approved are no more than its last version earned
THEOREM OpenIsEarnedHolds ==
  ASSUME WholeCreditsOnly
  PROVE  Spec => []OpenIsEarned
<1>1. Init => CreditsFollow
  <2>1. Len(<<>>) = 0
    BY EmptySeq
  <2>. QED
    BY <2>1, NoRowAssumption DEF Init, CreditsFollow, ComplianceStatus
<1>2. Chain /\ TypeOK /\ CreditsFollow => OpenIsEarned
  BY FollowIsEnough
<1>. QED
  BY <1>1, <1>2, FollowStep, ChainHolds, TypesHold, PTL DEF Spec
-----------------------------------------------------------------------------
(* What is billed *)

\* What the retry queue has still to take off obligation v
Waiting(v) == {a \in queued : a.target = v}
Owed(v) == IF Waiting(v) = {} THEN 0 ELSE (CHOOSE a \in Waiting(v) : TRUE).amount

\* What obligation v bills, after the adjustments made on it and those queued
Bills == [v \in Versions |-> IF obligation[v] = NoRow THEN 0
                             ELSE obligation[v].fee - obligation[v].supp - Owed(v)]

BillsOver(S) == MapThenSumSet(LAMBDA v : obligation[v].fee - obligation[v].supp, S)

\* An obligation that can still be the anchor of a decrease
Live(v) == /\ obligation[v] # NoRow
           /\ obligation[v].invoice = "linked" =>
                ~obligation[v].void /\ Outstanding(v) - Owed(v) > 0

AllLinked == \A v \in Rows(obligation) : obligation[v].invoice = "linked"

\* What the plan of version s has still to adjust
Due(s) == Total(deferred[s].amount, deferred[s].todo)

Pending == IF deferred[Len(net)] = NoRow THEN 0 ELSE Due(Len(net))

\* Adjustments, also the queued ones, are made on invoices only, never beyond
\* the fee, and bear the number of a later version; billing works on the row as
\* it is
QueueOK ==
  \A a \in queued :
    /\ obligation[a.target] # NoRow /\ obligation[a.target].invoice = "linked"
    /\ a.supp >= a.target
    /\ obligation[a.target].supp + a.amount <= obligation[a.target].fee
    /\ \A c \in queued : c.target = a.target => c = a

RowsOK ==
  /\ QueueOK
  /\ \A v \in Versions :
       /\ obligation[v] # NoRow =>
            /\ obligation[v].supp <= obligation[v].fee
            /\ obligation[v].supp > 0 => obligation[v].tag >= v
            /\ obligation[v].invoice # "linked" => obligation[v].supp = 0
       /\ billing[v].pc # "idle" =>
            /\ obligation[v] # NoRow /\ obligation[v].invoice # "linked"
            /\ billing[v].fee = obligation[v].fee

\* A plan reaches an invoice only if all newer ones are to be met
PlansOK ==
  \A s \in Versions : deferred[s] # NoRow =>
    /\ AllLinked
    /\ \A v \in deferred[s].todo :
         /\ v < s /\ obligation[v] # NoRow /\ Waiting(v) = {}
         /\ deferred[s].amount[v] <= Outstanding(v)
         /\ \A w \in Versions : w > v /\ Live(w) =>
              w \in deferred[s].todo /\ deferred[s].amount[w] = Outstanding(w)

\* What is billed up to a possible anchor covers the version it was made for
LiveOK ==
  manual = {} => \A v \in Versions : Live(v) =>
    Total(Bills, 1..(v - 1)) + obligation[v].fee >= Excess(net[v])

\* What is billed, when the pending plan is carried out, covers the last version
NetOK ==
  manual = {} /\ Len(net) > 0 /\ status[Len(net)] # NoRow =>
    Total(Bills, Versions) - Pending >= Excess(Last)

BillsOK == RowsOK /\ PlansOK /\ LiveOK /\ NetOK

LEMMA UpTo2 ==
  ASSUME NEW n \in 0..MaxVersions
  PROVE  1..n \in SUBSET Versions /\ IsFiniteSet(1..n) /\ IsFiniteSet(Versions)
<1>1. IsFiniteSet(1..n) /\ IsFiniteSet(1..MaxVersions)
  BY FS_Interval, BoundAssumption
<1>2. 1..n \in SUBSET (1..MaxVersions)
  BY BoundAssumption
<1>. QED
  BY <1>1, <1>2 DEF Versions

LEMMA OwedTypes ==
  ASSUME TypeOK, NEW v \in Versions
  PROVE  /\ Owed(v) \in Nat
         /\ Waiting(v) = {} => Owed(v) = 0
         /\ queued = {} => Waiting(v) = {}
         /\ QueueOK => \A a \in Waiting(v) : Owed(v) = a.amount
<1>1. \A a \in Waiting(v) : a \in queued /\ a.target = v /\ a.amount \in Nat
  BY DEF Waiting, TypeOK, Adjustment
<1>2. CASE Waiting(v) = {}
  BY <1>2 DEF Owed
<1>3. CASE Waiting(v) # {}
  <2>1. PICK c \in Waiting(v) : Owed(v) = c.amount
    BY <1>3 DEF Owed
  <2>2. QueueOK => \A a \in Waiting(v) : a = c
    BY <1>1, <2>1 DEF QueueOK
  <2>3. queued # {}
    BY <1>1, <2>1
  <2>. QED
    BY <1>1, <1>3, <2>1, <2>2, <2>3
<1>. QED
  BY <1>2, <1>3

LEMMA BillsTypes ==
  ASSUME TypeOK, NEW v \in Versions
  PROVE  /\ Bills[v] \in Int
         /\ obligation[v] = NoRow => Bills[v] = 0
         /\ obligation[v] # NoRow => Bills[v] = obligation[v].fee - obligation[v].supp - Owed(v)
         /\ RowsOK => Bills[v] \in Nat
<1>1. CASE obligation[v] = NoRow
  BY <1>1 DEF Bills
<1>2. CASE obligation[v] # NoRow
  <2>1. /\ obligation[v].fee \in Nat /\ obligation[v].supp \in Nat /\ Owed(v) \in Nat
        /\ Bills[v] = obligation[v].fee - obligation[v].supp - Owed(v)
    BY <1>2, RowTypes, OwedTypes DEF Bills
  <2>2. ASSUME RowsOK PROVE obligation[v].supp + Owed(v) <= obligation[v].fee
    <3>1. CASE Waiting(v) = {}
      BY <1>2, <2>1, <2>2, <3>1, OwedTypes DEF RowsOK
    <3>2. CASE Waiting(v) # {}
      <4>1. PICK a \in Waiting(v) : Owed(v) = a.amount
        BY <2>2, <3>2, OwedTypes DEF RowsOK
      <4>2. a \in queued /\ a.target = v
        BY DEF Waiting
      <4>. QED
        BY <2>2, <4>1, <4>2 DEF RowsOK, QueueOK
    <3>. QED
      BY <3>1, <3>2
  <2>3. RowsOK => obligation[v].fee - obligation[v].supp - Owed(v) \in Nat
    BY <2>1, <2>2
  <2>. QED
    BY <1>2, <2>1, <2>3
<1>. QED
  BY <1>1, <1>2

LEMMA BilledIs ==
  ASSUME TypeOK, queued = {}
  PROVE  Billed = Total(Bills, Versions)
<1>. DEFINE S == Rows(obligation)
<1>0. IsFiniteSet(Versions) /\ S \in SUBSET Versions
  BY FS_Interval, BoundAssumption DEF Versions, Rows
<1>1. IsFiniteSet(S) /\ Ints(Bills, S) /\ Ints(Bills, Versions)
  BY <1>0, FS_Subset, BillsTypes DEF Ints
<1>2. PICK f : Adds(f, Bills, SUBSET S)
  BY <1>1, AddsExists DEF Ints
<1>3. \A s \in SUBSET S : s # {} =>
        Bills[Pick(s)] = obligation[Pick(s)].fee - obligation[Pick(s)].supp
  <2>1. \A v \in S : Bills[v] = obligation[v].fee - obligation[v].supp
    <3>. SUFFICES ASSUME NEW v \in S PROVE Bills[v] = obligation[v].fee - obligation[v].supp
      OBVIOUS
    <3>1. v \in Versions /\ obligation[v] # NoRow
      BY DEF Rows
    <3>2. obligation[v].fee \in Nat /\ obligation[v].supp \in Nat /\ Owed(v) = 0
      BY <3>1, RowTypes, OwedTypes
    <3>. QED
      BY <3>1, <3>2, BillsTypes
  <2>. QED
    BY <2>1, PickIn
<1>. DEFINE Is(h) == h = [s \in SUBSET S |->
                            IF s = {} THEN 0
                            ELSE obligation[Pick(s)].fee - obligation[Pick(s)].supp
                                   + h[s \ {Pick(s)}]]
<1>4. \E h : Is(h)
  BY <1>2, <1>3 DEF Adds
<1>5. PICK h : Is(h) /\ BillsOver(S) = h[S]
  BY <1>4, Zenon DEF BillsOver, MapThenSumSet, MapThenFoldSet, Pick
<1>6. Adds(h, Bills, SUBSET S)
  BY <1>3, <1>5 DEF Adds
<1>7. BillsOver(S) = Total(Bills, S)
  BY <1>1, <1>5, <1>6, TotalIs
<1>8. \A v \in Versions \ S : Bills[v] = 0
  BY BillsTypes DEF Rows
<1>9. Total(Bills, Versions) = Total(Bills, S)
  BY <1>0, <1>1, <1>8, TotalOutside
<1>10. Billed = BillsOver(S)
  BY Zenon DEF Billed, BillsOver
<1>. QED
  BY <1>7, <1>9, <1>10

LEMMA BillsTotals ==
  ASSUME TypeOK, RowsOK, NEW n \in 0..MaxVersions
  PROVE  /\ Total(Bills, 1..n) \in Nat /\ Total(Bills, Versions) \in Nat
         /\ Total(Bills, 1..n) <= Total(Bills, Versions)
         /\ Ints(Bills, 1..n) /\ Ints(Bills, Versions)
<1>1. 1..n \in SUBSET Versions /\ IsFiniteSet(1..n) /\ IsFiniteSet(Versions)
  BY UpTo2
<1>2. \A v \in Versions : Bills[v] \in Nat
  BY BillsTypes
<1>. QED
  BY <1>1, <1>2, TotalNat, TotalGrows DEF Ints

\* When nothing is on its way, the invariant says that the bills are enough.
LEMMA BillsAreEnough ==
  ASSUME Chain, TypeOK, BillsOK
  PROVE  BilledInFull
<1>. SUFFICES ASSUME Settled PROVE Billed >= Excess(Last)
  BY DEF BilledInFull
<1>1. Len(net) > 0 /\ manual = {} /\ status[Len(net)] # NoRow
  BY LenProperties, EmptySeq DEF Settled, Chain
<1>2. Len(net) \in Versions
  BY <1>1, LastIs
<1>3. Pending = 0
  BY <1>2 DEF Settled, Quiet, Pending
<1>4. Total(Bills, Versions) - 0 >= Excess(Last)
  BY <1>1, <1>3 DEF BillsOK, NetOK
<1>5. Total(Bills, Versions) \in Nat
  BY <1>2, BillsTotals DEF BillsOK, TypeOK
<1>6. queued = {}
  BY DEF Settled
<1>. QED
  BY <1>4, <1>5, <1>6, BilledIs

-----------------------------------------------------------------------------
(* Steps that bill and adjust nothing *)

Keeps ==
  /\ UNCHANGED <<net, deferred, Bills>>
  /\ (\E s \in Versions : deferred[s] # NoRow) =>
       \A v \in Versions : obligation[v] # NoRow =>
         /\ obligation'[v].invoice = obligation[v].invoice
         /\ Waiting(v) = {} => obligation'[v] = obligation[v] /\ Waiting(v)' = {}
  /\ \A v \in Versions :
       /\ obligation'[v] = NoRow <=> obligation[v] = NoRow
       /\ obligation[v] # NoRow => obligation'[v].fee = obligation[v].fee
       /\ Live(v)' => Live(v)
       /\ status'[v] = NoRow <=> status[v] = NoRow
  /\ manual' = {} => manual = {}

LEMMA KeepsBills ==
  ASSUME Chain, TypeOK, BillsOK, Keeps
  PROVE  PlansOK' /\ LiveOK' /\ NetOK'
<1>1. Bills' = Bills
  BY DEF Keeps
<1>2. PlansOK'
  <2>. SUFFICES ASSUME NEW s \in Versions, deferred[s] # NoRow
                PROVE  /\ AllLinked'
                       /\ \A v \in deferred[s].todo :
                            /\ v < s /\ obligation'[v] # NoRow /\ Waiting(v)' = {}
                            /\ deferred[s].amount[v] <= Outstanding(v)'
                            /\ \A w \in Versions : w > v /\ Live(w)' =>
                                 /\ w \in deferred[s].todo
                                 /\ deferred[s].amount[w] = Outstanding(w)'
    BY DEF Keeps, PlansOK
  <2>1. AllLinked
    BY DEF BillsOK, PlansOK
  <2>2. AllLinked'
    BY <2>1 DEF Keeps, AllLinked, Rows
  <2>3. \A v \in deferred[s].todo : v \in Versions
    BY StrategyTypes
  <2>4. ASSUME NEW v \in deferred[s].todo
        PROVE  /\ v < s /\ obligation'[v] # NoRow /\ Waiting(v)' = {}
               /\ deferred[s].amount[v] <= Outstanding(v) /\ Outstanding(v)' = Outstanding(v)
    <3>1. /\ v < s /\ obligation[v] # NoRow /\ Waiting(v) = {}
          /\ deferred[s].amount[v] <= Outstanding(v)
      BY <2>4 DEF BillsOK, PlansOK
    <3>2. obligation'[v] = obligation[v] /\ Waiting(v)' = {}
      BY <2>3, <2>4, <3>1 DEF Keeps
    <3>. QED
      BY <3>1, <3>2 DEF Outstanding
  <2>5. ASSUME NEW v \in deferred[s].todo, NEW w \in Versions, w > v, Live(w)'
        PROVE  w \in deferred[s].todo /\ deferred[s].amount[w] = Outstanding(w)'
    <3>1. Live(w)
      BY <2>5 DEF Keeps
    <3>2. w \in deferred[s].todo /\ deferred[s].amount[w] = Outstanding(w)
      BY <2>5, <3>1 DEF BillsOK, PlansOK
    <3>. QED
      BY <2>4, <3>2
  <2>. QED
    BY <2>2, <2>4, <2>5
<1>3. LiveOK'
  <2>. SUFFICES ASSUME manual' = {}, NEW v \in Versions, Live(v)'
                PROVE  Total(Bills, 1..(v - 1)) + obligation'[v].fee >= Excess(net[v])
    BY <1>1 DEF LiveOK, Keeps, Excess
  <2>1. Live(v) /\ obligation[v] # NoRow /\ obligation'[v].fee = obligation[v].fee /\ manual = {}
    BY DEF Keeps, Live
  <2>. QED
    BY <2>1 DEF BillsOK, LiveOK
<1>4. NetOK'
  <2>. SUFFICES ASSUME manual' = {}, Len(net) > 0, status'[Len(net)] # NoRow
                PROVE  Total(Bills, Versions) - Pending >= Excess(Last)
    BY <1>1 DEF NetOK, Keeps, Pending, Due, Excess, Last
  <2>1. status[Len(net)] # NoRow /\ manual = {}
    BY LastIs DEF Keeps
  <2>. QED
    BY <2>1 DEF BillsOK, NetOK
<1>. QED
  BY <1>2, <1>3, <1>4

\* One row changes, but not what it bills.
LEMMA RowStep ==
  ASSUME TypeOK, NEW v \in Versions, obligation[v] # NoRow, NEW r \in Obligation,
         obligation' = [obligation EXCEPT ![v] = r], UNCHANGED queued,
         r.fee = obligation[v].fee, r.supp = obligation[v].supp
  PROVE  /\ obligation'[v] = r
         /\ Bills' = Bills
         /\ \A w \in Versions :
              /\ obligation'[w] = NoRow <=> obligation[w] = NoRow
              /\ obligation[w] # NoRow => /\ obligation'[w].fee = obligation[w].fee
                                          /\ obligation'[w].supp = obligation[w].supp
              /\ Waiting(w)' = Waiting(w) /\ Owed(w)' = Owed(w)
              /\ w # v => obligation'[w] = obligation[w] /\ (Live(w)' <=> Live(w))
<1>1. r # NoRow
  BY NoRowAssumption
<1>2. obligation'[v] = r /\ \A w \in Versions : w # v => obligation'[w] = obligation[w]
  BY DEF TypeOK
<1>3. \A w \in Versions : Waiting(w)' = Waiting(w) /\ Owed(w)' = Owed(w)
  BY DEF Waiting, Owed
<1>4. \A w \in Versions : w # v => (Live(w)' <=> Live(w))
  BY <1>2, <1>3 DEF Live, Outstanding
<1>5. \A w \in Versions :
        /\ obligation'[w] = NoRow <=> obligation[w] = NoRow
        /\ obligation[w] # NoRow => /\ obligation'[w].fee = obligation[w].fee
                                    /\ obligation'[w].supp = obligation[w].supp
  BY <1>1, <1>2
<1>6. Bills' = Bills
  BY <1>3, <1>5 DEF Bills
<1>. QED
  BY <1>2, <1>3, <1>4, <1>5, <1>6

LEMMA QuietHas ==
  ASSUME TypeOK, Quiet, NEW v \in Versions
  PROVE  deferred[v] = NoRow /\ billing[v].pc = "idle"
BY DEF Quiet

\* A payment or an application of units on invoice v
LEMMA PayBills ==
  ASSUME ~Interleaved, Chain, TypeOK, BillsOK, NEW v \in Versions, Pay(v) \/ ApplyUnits(v)
  PROVE  BillsOK'
<1>1. /\ Quiet /\ obligation[v] # NoRow /\ obligation[v].invoice = "linked"
      /\ UNCHANGED <<net, status, manual, deferred, queued, billing>>
  BY DEF Pay, ApplyUnits, Unpaid, Rows
<1>2. PICK r \in Obligation :
        /\ obligation' = [obligation EXCEPT ![v] = r]
        /\ r.fee = obligation[v].fee /\ r.supp = obligation[v].supp
        /\ r.tag = obligation[v].tag /\ r.invoice = obligation[v].invoice
        /\ r.void = obligation[v].void
        /\ r.paid >= obligation[v].paid /\ r.units >= obligation[v].units
  <2>1. CASE Pay(v)
    <3>1. PICK a \in 1..Outstanding(v) : obligation' = [obligation EXCEPT ![v].paid = @ + a]
      BY <2>1 DEF Pay
    <3>2. PICK n \in Nat : n = obligation[v].paid + a
      BY <1>1, <3>1, RowTypes
    <3>3. obligation' = [obligation EXCEPT ![v] = [obligation[v] EXCEPT !.paid = n]]
      BY <3>1, <3>2
    <3>4. obligation[v] \in Obligation
      BY <1>1, RowTypes
    <3>5. [obligation[v] EXCEPT !.paid = n] \in Obligation
      BY <3>4, RowChanges DEF Obligation
    <3>6. PICK r \in Obligation : r = [obligation[v] EXCEPT !.paid = n]
      BY <3>5
    <3>7. /\ r.fee = obligation[v].fee /\ r.supp = obligation[v].supp
          /\ r.tag = obligation[v].tag /\ r.invoice = obligation[v].invoice
          /\ r.void = obligation[v].void
      BY <3>4, <3>6 DEF Obligation
    <3>8. r.paid >= obligation[v].paid /\ r.units >= obligation[v].units
      BY <1>1, <3>1, <3>2, <3>4, <3>6, RowTypes DEF Obligation
    <3>. QED
      BY <3>3, <3>6, <3>7, <3>8
  <2>2. CASE ApplyUnits(v)
    <3>1. PICK a \in 1..obligation[v].fee : obligation' = [obligation EXCEPT ![v].units = @ + a]
      BY <2>2 DEF ApplyUnits
    <3>2. PICK n \in Nat : n = obligation[v].units + a
      BY <1>1, <3>1, RowTypes
    <3>3. obligation' = [obligation EXCEPT ![v] = [obligation[v] EXCEPT !.units = n]]
      BY <3>1, <3>2
    <3>4. obligation[v] \in Obligation
      BY <1>1, RowTypes
    <3>5. [obligation[v] EXCEPT !.units = n] \in Obligation
      BY <3>4, RowChanges DEF Obligation
    <3>6. PICK r \in Obligation : r = [obligation[v] EXCEPT !.units = n]
      BY <3>5
    <3>7. /\ r.fee = obligation[v].fee /\ r.supp = obligation[v].supp
          /\ r.tag = obligation[v].tag /\ r.invoice = obligation[v].invoice
          /\ r.void = obligation[v].void
      BY <3>4, <3>6 DEF Obligation
    <3>8. r.paid >= obligation[v].paid /\ r.units >= obligation[v].units
      BY <1>1, <3>1, <3>2, <3>4, <3>6, RowTypes DEF Obligation
    <3>. QED
      BY <3>3, <3>6, <3>7, <3>8
  <2>. QED
    BY <2>1, <2>2
<1>3. /\ obligation'[v] = r /\ Bills' = Bills
      /\ \A w \in Versions :
           /\ obligation'[w] = NoRow <=> obligation[w] = NoRow
           /\ obligation[w] # NoRow => /\ obligation'[w].fee = obligation[w].fee
                                       /\ obligation'[w].supp = obligation[w].supp
           /\ Waiting(w)' = Waiting(w) /\ Owed(w)' = Owed(w)
           /\ w # v => obligation'[w] = obligation[w] /\ (Live(w)' <=> Live(w))
  BY <1>1, <1>2, RowStep
<1>4. ASSUME Live(v)' PROVE Live(v)
  <2>1. ~ r.void /\ Outstanding(v)' - Owed(v) > 0
    BY <1>1, <1>2, <1>3, <1>4 DEF Live
  <2>2. Outstanding(v)' = r.fee - r.paid - r.units - r.supp
    BY <1>3 DEF Outstanding
  <2>3. /\ obligation[v].fee \in Nat /\ obligation[v].supp \in Nat /\ obligation[v].paid \in Nat
        /\ obligation[v].units \in Nat /\ Owed(v) \in Nat /\ r.paid \in Nat /\ r.units \in Nat
    BY <1>1, RowTypes, OwedTypes DEF Obligation
  <2>4. Outstanding(v) = obligation[v].fee - obligation[v].paid - obligation[v].units
                           - obligation[v].supp
    BY DEF Outstanding
  <2>5. Outstanding(v) - Owed(v) > 0
    BY <1>2, <2>1, <2>2, <2>3, <2>4
  <2>6. ~ obligation[v].void
    BY <1>2, <2>1, Zenon
  <2>. QED
    BY <1>1, <2>5, <2>6 DEF Live
<1>5. Keeps
  <2>1. \A w \in Versions : deferred[w] = NoRow
    BY <1>1, QuietHas
  <2>2. \A w \in Versions : Live(w)' => Live(w)
    BY <1>3, <1>4
  <2>. QED
    BY <1>1, <1>3, <2>1, <2>2 DEF Keeps
<1>6. RowsOK'
  <2>1. QueueOK'
    <3>. SUFFICES ASSUME NEW a \in queued
                  PROVE  /\ obligation'[a.target] # NoRow
                         /\ obligation'[a.target].invoice = "linked" /\ a.supp >= a.target
                         /\ obligation'[a.target].supp + a.amount <= obligation'[a.target].fee
                         /\ \A c \in queued : c.target = a.target => c = a
      BY <1>1 DEF QueueOK
    <3>1. a.target \in Versions
      BY DEF TypeOK, Adjustment
    <3>2. /\ obligation[a.target] # NoRow
          /\ obligation'[a.target].invoice = obligation[a.target].invoice
      BY <1>2, <1>3, <3>1 DEF BillsOK, RowsOK, QueueOK
    <3>. QED
      BY <1>3, <3>1, <3>2 DEF BillsOK, RowsOK, QueueOK
  <2>. QED
    BY <1>1, <1>2, <1>3, <2>1 DEF BillsOK, RowsOK
<1>. QED
  BY <1>5, <1>6, KeepsBills DEF BillsOK

\* Steps that leave the obligations alone
LEMMA OtherBills ==
  ASSUME Chain, TypeOK, BillsOK, Continues,
         UNCHANGED <<net, obligation, deferred, queued>>,
         \A v \in Versions :
           billing'[v].pc # "idle" =>
             \/ billing'[v] = billing[v]
             \/ /\ obligation[v] # NoRow /\ obligation[v].invoice # "linked"
                /\ billing'[v].fee = obligation[v].fee
  PROVE  BillsOK'
<1>1. Keeps
  <2>1. /\ \A v \in Versions : /\ Waiting(v)' = Waiting(v) /\ Owed(v)' = Owed(v)
                               /\ Live(v)' => Live(v)
        /\ Bills' = Bills
    BY DEF Live, Outstanding, Waiting, Owed, Bills
  <2>2. \A v \in Versions : status'[v] = NoRow <=> status[v] = NoRow
    BY DEF Continues
  <2>3. manual' = {} => manual = {}
    BY DEF Continues, Chain, Tables
  <2>. QED
    BY <2>1, <2>2, <2>3 DEF Keeps
<1>2. RowsOK'
  BY DEF BillsOK, RowsOK, QueueOK
<1>. QED
  BY <1>1, <1>2, KeepsBills DEF BillsOK

LEMMA DecideBills ==
  ASSUME Chain, TypeOK, BillsOK, NEW v \in Versions, BetweenSubmissions(v),
         ~ Pay(v), ~ ApplyUnits(v)
  PROVE  BillsOK'
<1>1. UNCHANGED <<net, obligation, deferred, queued, billing>>
  BY DEF BetweenSubmissions, Request, Review, Approve, Decline, Decide
<1>. QED
  BY <1>1, BetweenContinues, OtherBills

LEMMA StartBillingBills ==
  ASSUME Chain, TypeOK, BillsOK, NEW v \in Versions, StartBilling(v) \/ BillingFails(v)
  PROVE  BillsOK'
<1>1. UNCHANGED <<net, obligation, deferred, queued>>
  BY DEF StartBilling, BillingFails
<1>2. ASSUME NEW w \in Versions, billing'[w].pc # "idle", billing'[w] # billing[w]
      PROVE  /\ obligation[w] # NoRow /\ obligation[w].invoice # "linked"
             /\ billing'[w].fee = obligation[w].fee
  <2>1. CASE StartBilling(v)
    <3>1. PICK j : j = JobAt(IF obligation[v].invoice = "none" THEN "bill" ELSE "sync",
                             obligation[v].fee)
      OBVIOUS
    <3>2. billing' = [billing EXCEPT ![v] = j] /\ j.fee = obligation[v].fee
      BY <2>1, <3>1 DEF StartBilling, JobAt
    <3>3. w = v
      BY <1>2, <3>2 DEF TypeOK
    <3>4. billing'[v] = j
      BY <3>2 DEF TypeOK
    <3>. QED
      BY <2>1, <3>2, <3>3, <3>4 DEF StartBilling
  <2>2. CASE BillingFails(v)
    <3>1. billing' = [billing EXCEPT ![v] = JobAt("idle", 0)] /\ JobAt("idle", 0).pc = "idle"
      BY <2>2 DEF BillingFails, JobAt
    <3>. QED
      BY <1>2, <3>1 DEF TypeOK
  <2>. QED
    BY <2>1, <2>2
<1>. QED
  BY <1>1, <1>2, BillingContinues, OtherBills

\* Saving the row while it is billed changes its invoice only.
LEMMA SaveBills ==
  ASSUME Chain, TypeOK, BillsOK, NEW v \in Versions, CreateInvoice(v) \/ LinkInvoice(v)
  PROVE  BillsOK'
<1>1. /\ billing[v].pc # "idle" /\ obligation[v] # NoRow /\ obligation[v].invoice # "linked"
      /\ billing[v].fee = obligation[v].fee /\ obligation[v].supp = 0
      /\ UNCHANGED <<net, manual, deferred, queued>>
  BY DEF CreateInvoice, LinkInvoice, BillsOK, RowsOK
<1>2. PICK i \in {"number", "linked"} : /\ obligation' = SavedObligation(v, i)
                                        /\ i = "number" => CreateInvoice(v)
                                        /\ i = "linked" => LinkInvoice(v)
  BY DEF CreateInvoice, LinkInvoice
<1>3. PICK r : r = [NewObligation(billing[v].fee) EXCEPT !.invoice = i]
  OBVIOUS
<1>4. r.fee = obligation[v].fee /\ r.supp = 0 /\ r.invoice = i /\ r.supp = obligation[v].supp
  BY <1>1, <1>3 DEF NewObligation
<1>5. r \in Obligation
  <2>1. NewObligation(billing[v].fee) \in Obligation
    BY SavedTyped, NewRows
  <2>. QED
    BY <1>3, <2>1, RowChanges DEF Obligation
<1>6. obligation' = [obligation EXCEPT ![v] = r]
  BY <1>2, <1>3 DEF SavedObligation
<1>7. /\ obligation'[v] = r /\ Bills' = Bills
      /\ \A w \in Versions :
           /\ obligation'[w] = NoRow <=> obligation[w] = NoRow
           /\ obligation[w] # NoRow => /\ obligation'[w].fee = obligation[w].fee
                                       /\ obligation'[w].supp = obligation[w].supp
           /\ Waiting(w)' = Waiting(w) /\ Owed(w)' = Owed(w)
           /\ w # v => obligation'[w] = obligation[w] /\ (Live(w)' <=> Live(w))
  BY <1>1, <1>4, <1>5, <1>6, RowStep
<1>8. \A s \in Versions : deferred[s] = NoRow
  BY <1>1 DEF BillsOK, PlansOK, AllLinked, Rows
<1>9. Keeps
  <2>1. Live(v)
    BY <1>1 DEF Live
  <2>2. \A w \in Versions : status'[w] = NoRow <=> status[w] = NoRow
    BY BillingContinues DEF Continues
  <2>. QED
    BY <1>1, <1>7, <1>8, <2>1, <2>2 DEF Keeps
<1>10. \A w \in Versions : w # v => billing'[w] = billing[w]
  BY DEF CreateInvoice, LinkInvoice, TypeOK
<1>11. billing'[v].pc # "idle" =>
         /\ obligation'[v].invoice # "linked" /\ billing'[v].fee = obligation'[v].fee
  <2>1. CASE CreateInvoice(v) /\ i = "number"
    <3>1. billing'[v] = JobAt("sync", billing[v].fee)
      BY <2>1 DEF CreateInvoice, TypeOK
    <3>. QED
      BY <1>1, <1>4, <1>7, <2>1, <3>1 DEF JobAt
  <2>2. CASE LinkInvoice(v)
    <3>1. billing'[v] = JobAt("idle", 0)
      BY <2>2 DEF LinkInvoice, TypeOK
    <3>. QED
      BY <3>1 DEF JobAt
  <2>. QED
    BY <1>2, <2>1, <2>2
<1>12. RowsOK'
  <2>. SUFFICES ASSUME NEW w \in Versions
                PROVE  /\ obligation'[w] # NoRow =>
                            /\ obligation'[w].supp <= obligation'[w].fee
                            /\ obligation'[w].supp > 0 => obligation'[w].tag >= w
                            /\ obligation'[w].invoice # "linked" => obligation'[w].supp = 0
                       /\ billing'[w].pc # "idle" =>
                            /\ obligation'[w] # NoRow /\ obligation'[w].invoice # "linked"
                            /\ billing'[w].fee = obligation'[w].fee
    <3>1. \A a \in queued : a.target \in Versions /\ a.target # v
      BY <1>1 DEF BillsOK, RowsOK, QueueOK, TypeOK, Adjustment
    <3>2. \A a \in queued : obligation'[a.target] = obligation[a.target]
      BY <1>7, <3>1
    <3>3. QueueOK'
      BY <1>1, <3>2 DEF BillsOK, RowsOK, QueueOK
    <3>. QED
      BY <3>3 DEF RowsOK
  <2>1. CASE w = v
    <3>1. obligation[v].fee \in Nat
      BY <1>1, RowTypes
    <3>. QED
      BY <1>1, <1>4, <1>7, <1>11, <2>1, <3>1
  <2>2. CASE w # v
    BY <1>7, <1>10, <2>2 DEF BillsOK, RowsOK
  <2>. QED
    BY <2>1, <2>2
<1>. QED
  BY <1>9, <1>12, KeepsBills DEF BillsOK

-----------------------------------------------------------------------------
(* Carrying out a plan *)

\* The sums of a plan
LEMMA DueTypes ==
  ASSUME TypeOK, NEW s \in Versions, deferred[s] # NoRow
  PROVE  /\ Ints(deferred[s].amount, deferred[s].todo)
         /\ Due(s) \in Nat
         /\ deferred[s].todo \in SUBSET Versions
<1>1. deferred[s].todo \in SUBSET Versions /\ deferred[s].amount \in [Versions -> Nat]
  BY StrategyTypes
<1>2. IsFiniteSet(deferred[s].todo)
  <2>1. IsFiniteSet(Versions)
    BY FS_Interval, BoundAssumption DEF Versions
  <2>. QED
    BY <1>1, <2>1, FS_Subset
<1>3. \A v \in deferred[s].todo : deferred[s].amount[v] \in Nat
  BY <1>1
<1>. QED
  BY <1>1, <1>2, <1>3, TotalNat DEF Ints, Due

LEMMA TargetIs ==
  ASSUME TypeOK, NEW s \in Versions, deferred[s] # NoRow, deferred[s].todo # {}
  PROVE  /\ Target(s) \in deferred[s].todo /\ Target(s) \in Versions
         /\ \A v \in deferred[s].todo : v <= Target(s)
<1>1. deferred[s].todo \in SUBSET (1..MaxVersions) /\ MaxVersions \in Nat
  BY StrategyTypes, BoundAssumption DEF Versions
<1>. QED
  BY <1>1, MaxIn DEF Target, Versions

\* An adjustment of the target of a plan, made or queued
LEMMA GiveBills ==
  ASSUME Chain, Serial, TypeOK, BillsOK, NEW s \in Versions, NEW v \in Versions,
         deferred[s] # NoRow, deferred[s].todo # {}, v = Target(s), HasInvoice(v),
         Settle(s, v), Continues, RowsOK',
         NEW r \in Obligation, obligation' = [obligation EXCEPT ![v] = r],
         r.fee = obligation[v].fee, r.invoice = obligation[v].invoice,
         r.paid = obligation[v].paid, r.units = obligation[v].units,
         obligation[v].void => r.void,
         \A w \in Versions : w # v => Waiting(w)' = Waiting(w),
         Owed(v)' \in Nat, r.supp + Owed(v)' = obligation[v].supp + deferred[s].amount[v]
  PROVE  BillsOK'
<1>1. s = Len(net) /\ \A t \in Versions : t # s => deferred[t] = NoRow
  BY DEF Serial
<1>3. v \in deferred[s].todo /\ \A u \in deferred[s].todo : u <= v
  BY TargetIs
<1>4. PICK n \in Nat : n = deferred[s].amount[v]
  BY StrategyTypes
<1>7. /\ AllLinked /\ v < s /\ obligation[v] # NoRow /\ n <= Outstanding(v)
      /\ obligation[v] \in Obligation /\ Waiting(v) = {} /\ Owed(v) = 0
  BY <1>3, <1>4, RowTypes, OwedTypes DEF BillsOK, PlansOK
<1>9. PICK m \in Nat : m = Owed(v)' /\ r.supp + m = obligation[v].supp + n
  BY <1>4
<1>10. r # NoRow /\ r.supp \in Nat
  BY NoRowAssumption DEF Obligation
<1>11. /\ obligation'[v] = r /\ \A w \in Versions : w # v => obligation'[w] = obligation[w]
       /\ \A w \in Versions : w # v => Owed(w)' = Owed(w)
  <2>1. obligation'[v] = r /\ \A w \in Versions : w # v => obligation'[w] = obligation[w]
    BY DEF TypeOK
  <2>2. ASSUME NEW w \in Versions, w # v PROVE Owed(w)' = Owed(w)
    <3>1. Waiting(w)' = Waiting(w)
      BY <2>2
    <3>. QED
      BY <3>1 DEF Owed
  <2>. QED
    BY <2>1, <2>2
<1>12. /\ UNCHANGED <<net, manual, billing>>
       /\ deferred' = [deferred EXCEPT ![s] = [deferred[s] EXCEPT !.todo = @ \ {v}]]
  BY DEF Settle
<1>13. /\ deferred'[s].todo = deferred[s].todo \ {v} /\ deferred'[s].amount = deferred[s].amount
       /\ \A t \in Versions : t # s => deferred'[t] = NoRow
       /\ deferred'[s] # NoRow
  <2>1. deferred'[s] = [deferred[s] EXCEPT !.todo = @ \ {v}]
    BY <1>12 DEF TypeOK
  <2>2. deferred[s] \in Strategy
    BY <1>1, StrategyTypes
  <2>3. [deferred[s] EXCEPT !.todo = @ \ {v}] \in Strategy
    BY <2>2 DEF Strategy
  <2>. QED
    BY <1>1, <1>12, <2>1, <2>2, <2>3, NoRowAssumption DEF Strategy, TypeOK
<1>14. /\ obligation[v].fee \in Nat /\ obligation[v].supp \in Nat /\ obligation[v].paid \in Nat
       /\ obligation[v].units \in Nat /\ obligation[v].invoice = "linked"
       /\ Outstanding(v) = obligation[v].fee - obligation[v].paid - obligation[v].units
                             - obligation[v].supp
  BY <1>7, RowTypes DEF HasInvoice, Outstanding
<1>15. Outstanding(v)' - m = Outstanding(v) - n
  <2>1. Outstanding(v)' = r.fee - r.paid - r.units - r.supp
    BY <1>11 DEF Outstanding
  <2>2. PICK f \in Nat, q \in Nat, u \in Nat, k \in Nat, l \in Nat :
          /\ f = obligation[v].fee /\ q = obligation[v].paid /\ u = obligation[v].units
          /\ k = obligation[v].supp /\ l = r.supp
    BY <1>10, <1>14
  <2>3. r.fee = f /\ r.paid = q /\ r.units = u
    BY <2>2
  <2>4. Outstanding(v)' = f - q - u - l /\ Outstanding(v) = f - q - u - k
    BY <1>14, <2>1, <2>2, <2>3
  <2>5. l + m = k + n
    BY <1>9, <2>2
  <2>. QED
    BY <2>4, <2>5
<1>16. ASSUME NEW w \in Versions, Live(w)' PROVE Live(w)
  <2>1. CASE w = v
    <3>1. ~ r.void /\ Outstanding(v)' - m > 0
      BY <1>9, <1>11, <1>14, <1>16, <2>1 DEF Live
    <3>3. ~ obligation[v].void
      BY <3>1, Zenon
    <3>4. Outstanding(v) - 0 > 0
      BY <1>14, <1>15, <3>1
    <3>. QED
      BY <1>7, <2>1, <3>3, <3>4 DEF Live
  <2>2. CASE w # v
    BY <1>11, <1>16, <2>2 DEF Live, Outstanding
  <2>. QED
    BY <2>1, <2>2
<1>17. \A w \in Versions : w # v => Outstanding(w)' = Outstanding(w)
  BY <1>11 DEF Outstanding
<1>18. PlansOK'
  <2>1. AllLinked'
    BY <1>7, <1>11, <1>14 DEF AllLinked, Rows
  <2>. SUFFICES ASSUME NEW u \in deferred[s].todo \ {v}
                PROVE  /\ u < s /\ obligation'[u] # NoRow /\ Waiting(u)' = {}
                       /\ deferred[s].amount[u] <= Outstanding(u)'
                       /\ \A w \in Versions : w > u /\ Live(w)' =>
                            w \in deferred[s].todo \ {v}
                            /\ deferred[s].amount[w] = Outstanding(w)'
    BY <1>13, <2>1 DEF PlansOK
  <2>2. /\ u < s /\ obligation[u] # NoRow /\ Waiting(u) = {}
        /\ deferred[s].amount[u] <= Outstanding(u)
        /\ \A w \in Versions : w > u /\ Live(w) =>
             w \in deferred[s].todo /\ deferred[s].amount[w] = Outstanding(w)
    BY <1>1 DEF BillsOK, PlansOK
  <2>3. u \in Versions /\ u # v
    BY <1>1, StrategyTypes
  <2>4. ASSUME NEW w \in Versions, w > u, Live(w)'
        PROVE  w \in deferred[s].todo \ {v} /\ deferred[s].amount[w] = Outstanding(w)'
    <3>1. Live(w) /\ w \in deferred[s].todo /\ deferred[s].amount[w] = Outstanding(w)
      BY <1>16, <2>2, <2>4
    <3>2. w # v
      <4>. SUFFICES ASSUME w = v PROVE FALSE
        OBVIOUS
      <4>1. n = Outstanding(v)
        BY <1>4, <3>1
      <4>3. Outstanding(v)' - m = 0
        BY <1>14, <1>15, <4>1
      <4>4. Outstanding(v)' - m > 0
        BY <1>9, <1>11, <1>14, <2>4 DEF Live
      <4>. QED
        BY <4>3, <4>4
    <3>. QED
      BY <1>17, <3>1, <3>2
  <2>. QED
    BY <1>11, <1>17, <2>2, <2>3, <2>4
<1>19. /\ Bills'[v] = Bills[v] - n
       /\ \A w \in Versions : w # v => Bills'[w] = Bills[w]
  <2>1. Bills' = [w \in Versions |-> IF obligation'[w] = NoRow THEN 0
                                     ELSE obligation'[w].fee - obligation'[w].supp - Owed(w)']
    BY DEF Bills
  <2>2. Bills[v] = obligation[v].fee - obligation[v].supp - 0
    BY <1>7 DEF Bills
  <2>3. Bills'[v] = r.fee - r.supp - m
    BY <1>9, <1>10, <1>11, <2>1
  <2>4. \A w \in Versions : w # v => Bills'[w] = Bills[w]
    BY <1>11, <2>1 DEF Bills
  <2>. QED
    <3>1. PICK f \in Nat, k \in Nat, l \in Nat :
            f = obligation[v].fee /\ k = obligation[v].supp /\ l = r.supp
      BY <1>10, <1>14
    <3>2. r.fee = f
      BY <3>1
    <3>3. l + m = k + n
      BY <1>9, <3>1
    <3>4. Bills[v] = f - k /\ Bills'[v] = f - l - m
      BY <2>2, <2>3, <3>1, <3>2
    <3>. QED
      BY <2>4, <3>3, <3>4
<1>20. LiveOK'
  <2>. SUFFICES ASSUME manual' = {}, NEW w \in Versions, Live(w)'
                PROVE  Total(Bills', 1..(w - 1)) + obligation'[w].fee >= Excess(net[w])
    BY <1>12 DEF LiveOK, Excess
  <2>1. Live(w) /\ Total(Bills, 1..(w - 1)) + obligation[w].fee >= Excess(net[w])
    BY <1>12, <1>16 DEF BillsOK, LiveOK
  <2>2. w <= v
    <3>1. w > v => w \in deferred[s].todo
      BY <1>1, <1>3, <2>1 DEF BillsOK, PlansOK
    <3>. QED
      BY <1>3, <3>1 DEF Versions
  <2>3. w - 1 \in 0..MaxVersions /\ \A u \in 1..(w - 1) : u \in Versions /\ u # v
    BY <2>2, BoundAssumption DEF Versions
  <2>4. Total(Bills, 1..(w - 1)) = Total(Bills', 1..(w - 1))
    <3>1. Ints(Bills, 1..(w - 1))
      BY <2>3, BillsTotals DEF BillsOK
    <3>. QED
      BY <1>19, <2>3, <3>1, TotalAlike
  <2>5. obligation'[w].fee = obligation[w].fee
    BY <1>11
  <2>. QED
    BY <2>1, <2>4, <2>5
<1>21. NetOK'
  <2>. SUFFICES ASSUME manual' = {}, status'[s] # NoRow
                PROVE  Total(Bills', Versions) - Due(s)' >= Excess(Last)
    BY <1>1, <1>12, <1>13 DEF NetOK, Pending, Excess, Last
  <2>1. status[s] # NoRow /\ manual = {} /\ Len(net) > 0
    BY <1>1, <1>12, BoundAssumption DEF Continues, Versions
  <2>2. Total(Bills, Versions) - Due(s) >= Excess(Last)
    BY <1>1, <2>1 DEF BillsOK, NetOK, Pending
  <2>3. Ints(Bills, Versions) /\ Total(Bills, Versions) \in Nat
    BY BillsTotals, BoundAssumption DEF BillsOK
  <2>4. Ints(Bills', Versions)
    BY <1>19, <2>3 DEF Ints
  <2>5. Total(Bills', Versions) = Total(Bills, Versions) + Bills'[v] - Bills[v]
    BY <1>19, <2>3, <2>4, TotalChanges
  <2>6. Bills[v] \in Int
    BY BillsTypes
  <2>7. Total(Bills', Versions) = Total(Bills, Versions) - n
    BY <1>19, <2>3, <2>5, <2>6
  <2>8. Due(s)' = Total(deferred[s].amount, deferred[s].todo \ {v})
    BY <1>13 DEF Due
  <2>9. Due(s) = n + Total(deferred[s].amount, deferred[s].todo \ {v}) /\ Due(s) \in Nat
    BY <1>1, <1>3, <1>4, DueTypes, TotalWithout DEF Due
  <2>10. Ints(deferred[s].amount, deferred[s].todo \ {v})
    BY <1>1, DueTypes, FS_Subset DEF Ints
  <2>11. PICK d \in Int : d = Total(deferred[s].amount, deferred[s].todo \ {v})
    BY <2>10, TotalInt
  <2>12. PICK t \in Nat : t = Total(Bills, Versions)
    BY <2>3
  <2>13. t - n - d = t - (n + d)
    OBVIOUS
  <2>. QED
    BY <2>2, <2>7, <2>8, <2>9, <2>11, <2>12, <2>13
<1>. QED
  BY <1>18, <1>20, <1>21 DEF BillsOK

LEMMA AdjustBills ==
  ASSUME Chain, Serial, TypeOK, BillsOK, NEW s \in Versions, AdjustInvoice(s)
  PROVE  BillsOK'
<1>1. deferred[s] # NoRow /\ deferred[s].todo # {} /\ UNCHANGED queued
  BY DEF AdjustInvoice
<1>2. PICK v \in Versions : v = Target(s)
  BY <1>1, TargetIs
<1>3. v \in deferred[s].todo
  BY <1>1, <1>2, TargetIs
<1>4. PICK n \in Nat : n = deferred[s].amount[v]
  BY <1>1, StrategyTypes
<1>5. PICK x \in BOOLEAN : x = (v \in deferred[s].void)
  <2>1. CASE v \in deferred[s].void
    BY <2>1, (v \in deferred[s].void) = TRUE
  <2>2. CASE v \notin deferred[s].void
    BY <2>2, (v \in deferred[s].void) = FALSE
  <2>. QED
    BY <2>1, <2>2
<1>6. /\ obligation' = [obligation EXCEPT ![v] = Post(obligation[v], n, s, x)]
      /\ HasInvoice(v) /\ Settle(s, v)
  BY <1>2, <1>4, <1>5 DEF AdjustInvoice
<1>7. /\ v < s /\ obligation[v] # NoRow /\ n <= Outstanding(v)
      /\ obligation[v] \in Obligation /\ Waiting(v) = {}
  BY <1>1, <1>3, <1>4, RowTypes DEF BillsOK, PlansOK
<1>8. PICK r \in Obligation : r = Post(obligation[v], n, s, x)
  BY <1>7, PostTyped
<1>9. /\ r.fee = obligation[v].fee /\ r.supp = obligation[v].supp + n /\ r.tag = s
      /\ r.paid = obligation[v].paid /\ r.units = obligation[v].units
      /\ r.invoice = obligation[v].invoice /\ r.void = (obligation[v].void \/ x)
  BY <1>7, <1>8 DEF Post, Obligation
<1>10. r # NoRow
  BY NoRowAssumption
<1>11. obligation'[v] = r /\ \A w \in Versions : w # v => obligation'[w] = obligation[w]
  BY <1>6, <1>8 DEF TypeOK
<1>12. UNCHANGED billing
  BY <1>6 DEF Settle
<1>13. /\ obligation[v].fee \in Nat /\ obligation[v].supp \in Nat /\ obligation[v].paid \in Nat
       /\ obligation[v].units \in Nat /\ obligation[v].invoice = "linked"
       /\ Outstanding(v) = obligation[v].fee - obligation[v].paid - obligation[v].units
                             - obligation[v].supp
  BY <1>6, <1>7, RowTypes DEF HasInvoice, Outstanding
<1>14. \A w \in Versions : Waiting(w)' = Waiting(w) /\ Owed(w)' = Owed(w)
  BY <1>1 DEF Waiting, Owed
<1>15. RowsOK'
  <2>1. QueueOK'
    <3>1. \A a \in queued : a.target \in Versions /\ a.target # v
      BY <1>7 DEF Waiting, TypeOK, Adjustment
    <3>2. \A a \in queued : obligation'[a.target] = obligation[a.target]
      BY <1>11, <3>1
    <3>. QED
      BY <1>1, <3>2 DEF BillsOK, RowsOK, QueueOK
  <2>. SUFFICES ASSUME NEW w \in Versions
                PROVE  /\ obligation'[w] # NoRow =>
                            /\ obligation'[w].supp <= obligation'[w].fee
                            /\ obligation'[w].supp > 0 => obligation'[w].tag >= w
                            /\ obligation'[w].invoice # "linked" => obligation'[w].supp = 0
                       /\ billing'[w].pc # "idle" =>
                            /\ obligation'[w] # NoRow /\ obligation'[w].invoice # "linked"
                            /\ billing'[w].fee = obligation'[w].fee
    BY <2>1 DEF RowsOK
  <2>2. CASE w = v
    <3>1. billing[v].pc = "idle"
      BY <1>13 DEF BillsOK, RowsOK
    <3>2. v \in Int /\ s \in Int
      BY BoundAssumption DEF Versions
    <3>. QED
      BY <1>7, <1>9, <1>11, <1>12, <1>13, <2>2, <3>1, <3>2
  <2>3. CASE w # v
    BY <1>11, <1>12, <2>3 DEF BillsOK, RowsOK
  <2>. QED
    BY <2>2, <2>3
<1>16. Owed(v)' = 0 /\ r.supp + 0 = obligation[v].supp + n
  BY <1>7, <1>9, <1>13, <1>14, OwedTypes
<1>17. obligation[v].void => r.void
  BY <1>9, Zenon
<1>18. Continues
  BY AdjustmentContinues
<1>19. obligation' = [obligation EXCEPT ![v] = r]
  BY <1>6, <1>8
<1>20. Owed(v)' \in Nat /\ r.supp + Owed(v)' = obligation[v].supp + deferred[s].amount[v]
  BY <1>4, <1>16
<1>21. \A w \in Versions : w # v => Waiting(w)' = Waiting(w)
  BY <1>14
<1>22. /\ r.fee = obligation[v].fee /\ r.invoice = obligation[v].invoice
       /\ r.paid = obligation[v].paid /\ r.units = obligation[v].units
       /\ HasInvoice(v) /\ Settle(s, v)
  BY <1>6, <1>9
<1>. QED
  BY <1>1, <1>2, <1>15, <1>17, <1>18, <1>19, <1>20, <1>21, <1>22, GiveBills

\* A queued adjustment counts as made: nothing else is adjusted before it is.
LEMMA QueueBills ==
  ASSUME Chain, Serial, TypeOK, BillsOK, NEW s \in Versions, QueueAdjustment(s)
  PROVE  BillsOK'
<1>1. deferred[s] # NoRow /\ deferred[s].todo # {}
  BY DEF QueueAdjustment
<1>2. PICK v \in Versions : v = Target(s)
  BY <1>1, TargetIs
<1>3. v \in deferred[s].todo
  BY <1>1, <1>2, TargetIs
<1>4. PICK n \in Nat : n = deferred[s].amount[v]
  BY <1>1, StrategyTypes
<1>5. PICK x \in BOOLEAN : x = (obligation[v].void \/ v \in deferred[s].void)
  <2>1. CASE obligation[v].void \/ v \in deferred[s].void
    BY <2>1, (obligation[v].void \/ v \in deferred[s].void) = TRUE
  <2>2. CASE ~ (obligation[v].void \/ v \in deferred[s].void)
    BY <2>2, (obligation[v].void \/ v \in deferred[s].void) = FALSE
  <2>. QED
    BY <2>1, <2>2
<1>6. PICK a \in Adjustment : a = [target |-> v, amount |-> n, supp |-> s]
  BY DEF Adjustment
<1>7. /\ obligation' = [obligation EXCEPT ![v] = [obligation[v] EXCEPT !.void = x]]
      /\ HasInvoice(v) /\ Settle(s, v) /\ queued' = queued \cup {a}
  BY <1>2, <1>4, <1>5, <1>6 DEF QueueAdjustment
<1>8. /\ v < s /\ obligation[v] # NoRow /\ n <= Outstanding(v)
      /\ obligation[v] \in Obligation /\ Waiting(v) = {}
  BY <1>1, <1>3, <1>4, RowTypes DEF BillsOK, PlansOK
<1>9. PICK r \in Obligation : r = [obligation[v] EXCEPT !.void = x]
  BY <1>8, RowChanges
<1>10. /\ r.fee = obligation[v].fee /\ r.supp = obligation[v].supp /\ r.tag = obligation[v].tag
       /\ r.paid = obligation[v].paid /\ r.units = obligation[v].units
       /\ r.invoice = obligation[v].invoice /\ r.void = x /\ r # NoRow
  BY <1>8, <1>9, NoRowAssumption DEF Obligation
<1>11. obligation'[v] = r /\ \A w \in Versions : w # v => obligation'[w] = obligation[w]
  BY <1>7, <1>9 DEF TypeOK
<1>12. UNCHANGED billing
  BY <1>7 DEF Settle
<1>13. /\ obligation[v].fee \in Nat /\ obligation[v].supp \in Nat /\ obligation[v].paid \in Nat
       /\ obligation[v].units \in Nat /\ obligation[v].invoice = "linked"
       /\ obligation[v].supp + n <= obligation[v].fee
  <2>1. /\ obligation[v].fee \in Nat /\ obligation[v].supp \in Nat /\ obligation[v].paid \in Nat
        /\ obligation[v].units \in Nat /\ obligation[v].invoice = "linked"
        /\ Outstanding(v) = obligation[v].fee - obligation[v].paid - obligation[v].units
                              - obligation[v].supp
    BY <1>7, <1>8, RowTypes DEF HasInvoice, Outstanding
  <2>. QED
    BY <1>8, <2>1
<1>14. /\ a.target = v /\ a.amount = n /\ a.supp = s
       /\ \A c \in queued : c.target \in Versions /\ c.target # v
  BY <1>6, <1>8 DEF Waiting, TypeOK, Adjustment
<1>15. \A w \in Versions : w # v => Waiting(w)' = Waiting(w)
  BY <1>7, <1>14 DEF Waiting
<1>16. Owed(v)' = n
  <2>1. Waiting(v)' = {a}
    BY <1>7, <1>14 DEF Waiting
  <2>2. Owed(v)' = (CHOOSE c \in {a} : TRUE).amount
    BY <2>1 DEF Owed
  <2>. QED
    BY <1>14, <2>2
<1>17. QueueOK'
  <2>. SUFFICES ASSUME NEW c \in queued \cup {a}
                PROVE  /\ obligation'[c.target] # NoRow
                       /\ obligation'[c.target].invoice = "linked" /\ c.supp >= c.target
                       /\ obligation'[c.target].supp + c.amount <= obligation'[c.target].fee
                       /\ \A d \in queued \cup {a} : d.target = c.target => d = c
    BY <1>7 DEF QueueOK
  <2>1. CASE c = a
    <3>1. v \in Int /\ s \in Int
      BY BoundAssumption DEF Versions
    <3>. QED
      BY <1>8, <1>10, <1>11, <1>13, <1>14, <2>1, <3>1
  <2>2. CASE c # a
    <3>1. c \in queued /\ c.target \in Versions /\ c.target # v
      BY <1>14, <2>2
    <3>. QED
      BY <1>11, <1>14, <3>1 DEF BillsOK, RowsOK, QueueOK
  <2>. QED
    BY <2>1, <2>2
<1>18. RowsOK'
  BY <1>8, <1>10, <1>11, <1>12, <1>17 DEF BillsOK, RowsOK
<1>19. obligation[v].void => r.void
  BY <1>5, <1>10, Zenon
<1>20. Continues
  BY AdjustmentContinues
<1>. QED
  BY <1>1, <1>2, <1>4, <1>7, <1>9, <1>10, <1>15, <1>16, <1>18, <1>19, <1>20, GiveBills

\* When a queued adjustment is made at last, it counts no less and no more.
LEMMA RetryBills ==
  ASSUME Chain, TypeOK, BillsOK, NEW a \in queued, RetryAdjustment(a)
  PROVE  BillsOK'
<1>1. PICK v \in Versions, n \in Nat, t \in Versions :
        a.target = v /\ a.amount = n /\ a.supp = t
  BY DEF TypeOK, Adjustment
<1>2. /\ UNCHANGED <<net, status, manual, deferred, billing>>
      /\ queued' = queued \ {a} /\ obligation[v] # NoRow
      /\ obligation' = [obligation EXCEPT ![v] = Post(obligation[v], n, t, FALSE)]
  BY <1>1 DEF RetryAdjustment, HasInvoice
<1>3. /\ obligation[v].invoice = "linked" /\ t >= v
      /\ obligation[v].supp + n <= obligation[v].fee
      /\ \A c \in queued : c.target = v => c = a
  BY <1>1 DEF BillsOK, RowsOK, QueueOK
<1>4. obligation[v] \in Obligation
  BY <1>2, RowTypes
<1>5. PICK r \in Obligation : r = Post(obligation[v], n, t, FALSE)
  BY <1>4, PostTyped
<1>6. /\ r.fee = obligation[v].fee /\ r.supp = obligation[v].supp + n /\ r.tag = t
      /\ r.paid = obligation[v].paid /\ r.units = obligation[v].units
      /\ r.invoice = obligation[v].invoice /\ r.void = (obligation[v].void \/ FALSE)
      /\ r # NoRow
  BY <1>4, <1>5, NoRowAssumption DEF Post, Obligation
<1>7. obligation'[v] = r /\ \A w \in Versions : w # v => obligation'[w] = obligation[w]
  BY <1>2, <1>5 DEF TypeOK
<1>8. /\ obligation[v].fee \in Nat /\ obligation[v].supp \in Nat /\ obligation[v].paid \in Nat
      /\ obligation[v].units \in Nat
  BY <1>2, RowTypes
<1>9. \A w \in Versions : w # v => Waiting(w)' = Waiting(w) /\ Owed(w)' = Owed(w)
  <2>1. \A c : c \in queued' <=> c \in queued /\ c # a
    BY <1>2
  <2>2. ASSUME NEW w \in Versions, w # v
        PROVE  Waiting(w)' = Waiting(w) /\ Owed(w)' = Owed(w)
    <3>1. Waiting(w)' = Waiting(w)
      BY <1>1, <2>1, <2>2 DEF Waiting
    <3>. QED
      BY <3>1 DEF Owed
  <2>. QED
    BY <2>2
<1>10. Waiting(v) # {} /\ Owed(v) = n /\ Waiting(v)' = {} /\ Owed(v)' = 0
  <2>1. a \in Waiting(v)
    BY <1>1 DEF Waiting
  <2>2. Owed(v) = n
    BY <1>1, <2>1, OwedTypes DEF BillsOK, RowsOK
  <2>3. Waiting(v)' = {}
    BY <1>2, <1>3 DEF Waiting
  <2>4. Owed(v)' = 0
    BY <2>3 DEF Owed
  <2>. QED
    BY <2>1, <2>2, <2>3, <2>4
<1>11. \A w \in Versions : (obligation'[w] = NoRow <=> obligation[w] = NoRow)
                           /\ (obligation[w] # NoRow =>
                                 obligation'[w].fee = obligation[w].fee)
  BY <1>2, <1>6, <1>7
<1>12. Bills' = Bills
  <2>1. Bills' = [w \in Versions |-> IF obligation'[w] = NoRow THEN 0
                                     ELSE obligation'[w].fee - obligation'[w].supp - Owed(w)']
    BY DEF Bills
  <2>2. r.fee - r.supp - 0 = obligation[v].fee - obligation[v].supp - n
    BY <1>6, <1>8
  <2>3. \A w \in Versions : Bills'[w] = Bills[w]
    <3>1. Bills'[v] = r.fee - r.supp - 0
      BY <1>6, <1>7, <1>10, <2>1
    <3>2. Bills[v] = obligation[v].fee - obligation[v].supp - n
      BY <1>2, <1>10 DEF Bills
    <3>3. \A w \in Versions : w # v => Bills'[w] = Bills[w]
      BY <1>7, <1>9, <2>1 DEF Bills
    <3>. QED
      BY <2>2, <3>1, <3>2, <3>3
  <2>. QED
    BY <2>1, <2>3 DEF Bills
<1>13. ASSUME Live(v)' PROVE Live(v)
  <2>1. ~ r.void /\ Outstanding(v)' - 0 > 0
    BY <1>3, <1>6, <1>7, <1>10, <1>13 DEF Live
  <2>2. Outstanding(v)' = r.fee - r.paid - r.units - r.supp
    BY <1>7 DEF Outstanding
  <2>3. Outstanding(v) = obligation[v].fee - obligation[v].paid - obligation[v].units
                           - obligation[v].supp
    BY DEF Outstanding
  <2>4. Outstanding(v) - Owed(v) > 0
    BY <1>6, <1>8, <1>10, <2>1, <2>2, <2>3
  <2>5. ~ obligation[v].void
    BY <1>6, <2>1, Zenon
  <2>. QED
    BY <1>2, <2>4, <2>5 DEF Live
<1>14. Keeps
  <2>1. \A w \in Versions : Live(w)' => Live(w)
    BY <1>7, <1>9, <1>13 DEF Live, Outstanding
  <2>2. \A w \in Versions : obligation[w] # NoRow =>
          /\ obligation'[w].invoice = obligation[w].invoice
          /\ Waiting(w) = {} => obligation'[w] = obligation[w] /\ Waiting(w)' = {}
    BY <1>6, <1>7, <1>9, <1>10
  <2>. QED
    BY <1>2, <1>11, <1>12, <2>1, <2>2 DEF Keeps
<1>15. QueueOK'
  <2>1. \A c \in queued \ {a} : c.target \in Versions /\ c.target # v
    BY <1>3 DEF TypeOK, Adjustment
  <2>2. \A c \in queued \ {a} : obligation'[c.target] = obligation[c.target]
    BY <1>7, <2>1
  <2>. QED
    BY <1>2, <2>2 DEF BillsOK, RowsOK, QueueOK
<1>16. RowsOK'
  <2>. SUFFICES ASSUME NEW w \in Versions
                PROVE  /\ obligation'[w] # NoRow =>
                            /\ obligation'[w].supp <= obligation'[w].fee
                            /\ obligation'[w].supp > 0 => obligation'[w].tag >= w
                            /\ obligation'[w].invoice # "linked" => obligation'[w].supp = 0
                       /\ billing'[w].pc # "idle" =>
                            /\ obligation'[w] # NoRow /\ obligation'[w].invoice # "linked"
                            /\ billing'[w].fee = obligation'[w].fee
    BY <1>15 DEF RowsOK
  <2>1. CASE w = v
    <3>1. billing[v].pc = "idle"
      BY <1>3 DEF BillsOK, RowsOK
    <3>. QED
      BY <1>2, <1>3, <1>6, <1>7, <2>1, <3>1
  <2>2. CASE w # v
    BY <1>2, <1>7, <2>2 DEF BillsOK, RowsOK
  <2>. QED
    BY <2>1, <2>2
<1>. QED
  BY <1>14, <1>16, KeepsBills DEF BillsOK

LEMMA FinishBills ==
  ASSUME Chain, Serial, TypeOK, BillsOK, NEW s \in Versions, FinishAdjustment(s)
  PROVE  BillsOK'
<1>1. /\ deferred[s] # NoRow /\ deferred[s].todo = {}
      /\ UNCHANGED <<net, obligation, queued, billing>>
      /\ deferred' = [deferred EXCEPT ![s] = NoRow]
      /\ s = Len(net) /\ \A t \in Versions : t # s => deferred[t] = NoRow
  BY DEF FinishAdjustment, Serial
<1>2. \A t \in Versions : deferred'[t] = NoRow
  BY <1>1 DEF TypeOK
<1>3. /\ manual' = {} => manual = {}
      /\ \A v \in Versions : status'[v] = NoRow <=> status[v] = NoRow
  BY FinishContinues DEF Continues, Chain, Tables
<1>4. RowsOK' /\ PlansOK'
  BY <1>1, <1>2 DEF BillsOK, RowsOK, QueueOK, PlansOK
<1>5. Bills' = Bills
  BY <1>1 DEF Bills, Owed, Waiting
<1>6. LiveOK'
  <2>1. \A v \in Versions : Live(v)' <=> Live(v)
    BY <1>1 DEF Live, Outstanding, Owed, Waiting
  <2>. QED
    BY <1>1, <1>3, <1>5, <2>1 DEF BillsOK, LiveOK, Excess
<1>7. NetOK'
  <2>. SUFFICES ASSUME manual' = {}, status'[s] # NoRow
                PROVE  Total(Bills, Versions) - 0 >= Excess(Last)
    BY <1>1, <1>2, <1>5 DEF NetOK, Pending, Excess, Last
  <2>1. status[s] # NoRow /\ manual = {} /\ Len(net) > 0
    BY <1>1, <1>3, BoundAssumption DEF Versions
  <2>2. Total(Bills, Versions) - Due(s) >= Excess(Last)
    BY <1>1, <2>1 DEF BillsOK, NetOK, Pending
  <2>3. Due(s) = 0
    BY <1>1, TotalEmpty DEF Due
  <2>. QED
    BY <2>2, <2>3
<1>. QED
  BY <1>4, <1>6, <1>7 DEF BillsOK

-----------------------------------------------------------------------------
(* Submissions and what is billed *)

\* A submission that waits finds nothing on its way.
LEMMA SubmitFinds ==
  ASSUME ~Interleaved, Chain, TypeOK, BillsOK, NEW b \in Balance, Submit(b)
  PROVE  /\ \A v \in Versions : deferred[v] = NoRow /\ billing[v].pc = "idle"
         /\ Len(net') = New /\ Last' = b /\ net'[New] = b
         /\ \A v \in Versions : obligation[v] # NoRow => v \in 1..Prev /\ net'[v] = net[v]
         /\ Prev > 0 /\ manual = {} /\ status[Prev] # NoRow
              => Total(Bills, Versions) >= Excess(net[Prev])
         /\ Total(Bills, Versions) \in Nat
         /\ b \in Int /\ Excess(b) \in Nat /\ (b <= 0 => Excess(b) = 0)
<1>1. Quiet
  BY DEF Submit
<1>2. Len(net') = New /\ Last' = b /\ net'[New] = b
  BY Appended DEF Last, New
<1>3. ASSUME NEW v \in Versions, obligation[v] # NoRow
      PROVE  v \in 1..Prev /\ net'[v] = net[v]
  <2>1. v \in 1..Len(net)
    BY <1>3, BoundAssumption, LenProperties DEF Chain, RowsBelong, Versions
  <2>. QED
    BY <2>1, Appended DEF Prev
<1>4. ASSUME Prev > 0, manual = {}, status[Prev] # NoRow
      PROVE  Total(Bills, Versions) >= Excess(net[Prev])
  <2>1. Prev = Len(net) /\ Prev \in Versions
    BY <1>4, LastIs DEF Prev
  <2>2. Pending = 0
    BY <1>1, <2>1, QuietHas DEF Pending
  <2>3. Total(Bills, Versions) - 0 >= Excess(net[Prev])
    BY <1>4, <2>1, <2>2 DEF BillsOK, NetOK, Last
  <2>4. Total(Bills, Versions) \in Nat
    BY BillsTotals, BoundAssumption DEF BillsOK
  <2>. QED
    BY <2>3, <2>4
<1>5. Total(Bills, Versions) \in Nat
  BY BillsTotals, BoundAssumption DEF BillsOK
<1>6. b \in Int /\ Excess(b) \in Nat /\ (b <= 0 => Excess(b) = 0)
  BY BalanceAssumption, CreditedIsSign DEF Excess
<1>. QED
  BY <1>1, <1>2, <1>3, <1>4, <1>5, <1>6, QuietHas

\* A version without an obligation and without a plan
LEMMA NoObligationBills ==
  ASSUME ~Interleaved, Chain, TypeOK, BillsOK, NEW b \in Balance, Submit(b),
         UNCHANGED <<obligation, deferred, queued, billing>>,
         manual' = {} => manual = {},
         manual' = {} /\ status'[New] # NoRow => Total(Bills, Versions) >= Excess(b)
  PROVE  BillsOK'
<1>1. RowsOK' /\ PlansOK'
  BY SubmitFinds DEF BillsOK, RowsOK, QueueOK, PlansOK
<1>2. Bills' = Bills
  BY DEF Bills, Owed, Waiting
<1>3. LiveOK'
  <2>. SUFFICES ASSUME manual' = {}, NEW v \in Versions, Live(v)'
                PROVE  Total(Bills, 1..(v - 1)) + obligation[v].fee >= Excess(net'[v])
    BY <1>2 DEF LiveOK, Excess
  <2>1. Live(v) /\ net'[v] = net[v]
    BY SubmitFinds DEF Live, Outstanding, Owed, Waiting
  <2>. QED
    BY <2>1 DEF BillsOK, LiveOK
<1>4. NetOK'
  <2>. SUFFICES ASSUME manual' = {}, status'[New] # NoRow
                PROVE  Total(Bills, Versions) - 0 >= Excess(b)
    BY <1>2, SubmitFinds, Fresh DEF NetOK, Pending, Excess
  <2>. QED
    BY SubmitFinds
<1>. QED
  BY <1>1, <1>3, <1>4 DEF BillsOK

\* A version with an obligation for a fee
LEMMA ObligationBills ==
  ASSUME ~Interleaved, Chain, TypeOK, BillsOK, NEW b \in Balance, Submit(b),
         NEW fee \in Nat,
         obligation' = [obligation EXCEPT ![New] = NewObligation(fee)],
         UNCHANGED <<deferred, queued, billing>>,
         manual' = {} => manual = {},
         manual' = {} => Total(Bills, Versions) + fee >= Excess(b)
  PROVE  BillsOK'
<1>1. /\ New \in Versions /\ obligation[New] = NoRow /\ New = Prev + 1 /\ Prev \in Nat
      /\ Prev <= MaxVersions
  BY Fresh, BoundAssumption DEF Versions
<1>2. PICK r : r = NewObligation(fee)
  OBVIOUS
<1>3. r # NoRow /\ r.fee = fee /\ r.supp = 0 /\ r.tag = 0 /\ r.invoice = "none"
  <2>1. r \in Obligation
    BY <1>2, NewRows
  <2>. QED
    BY <1>2, <2>1, NoRowAssumption DEF NewObligation
<1>4. obligation'[New] = r /\ \A v \in Versions : v # New => obligation'[v] = obligation[v]
  BY <1>1, <1>2 DEF TypeOK
<1>5. RowsOK' /\ PlansOK'
  <2>1. PlansOK'
    BY SubmitFinds DEF PlansOK
  <2>2. QueueOK'
    <3>1. \A a \in queued : obligation'[a.target] = obligation[a.target]
      BY <1>1, <1>4 DEF BillsOK, RowsOK, QueueOK
    <3>. QED
      BY <3>1 DEF BillsOK, RowsOK, QueueOK
  <2>3. RowsOK'
    BY <1>3, <1>4, <2>2, SubmitFinds DEF BillsOK, RowsOK
  <2>. QED
    BY <2>1, <2>3
<1>6. Bills'[New] = fee /\ Bills[New] = 0 /\ \A v \in Versions : v # New => Bills'[v] = Bills[v]
  <2>1. Bills' = [v \in Versions |-> IF obligation'[v] = NoRow THEN 0
                                     ELSE obligation'[v].fee - obligation'[v].supp - Owed(v)']
    BY DEF Bills
  <2>2. \A v \in Versions : Owed(v)' = Owed(v)
    BY DEF Owed, Waiting
  <2>3. Owed(New) = 0
    <3>1. Waiting(New) = {}
      BY <1>1 DEF BillsOK, RowsOK, QueueOK, Waiting
    <3>. QED
      BY <3>1 DEF Owed
  <2>4. Bills'[New] = fee - 0 - 0
    BY <1>1, <1>3, <1>4, <2>1, <2>2, <2>3
  <2>5. Bills[New] = 0
    BY <1>1 DEF Bills
  <2>6. \A v \in Versions : v # New => Bills'[v] = Bills[v]
    BY <1>4, <2>1, <2>2 DEF Bills
  <2>. QED
    BY <2>4, <2>5, <2>6
<1>7. Ints(Bills, Versions) /\ Total(Bills, Versions) \in Nat
  BY BillsTotals, BoundAssumption DEF BillsOK
<1>8. Total(Bills', Versions) = Total(Bills, Versions) + fee
  <2>1. Ints(Bills', Versions)
    BY <1>6, <1>7 DEF Ints
  <2>2. PICK n \in Versions : n = New
    BY <1>1
  <2>3. PICK h : h = Bills'
    OBVIOUS
  <2>4. Ints(h, Versions) /\ \A y \in Versions \ {n} : Bills[y] = h[y]
    BY <1>6, <2>1, <2>2, <2>3
  <2>5. Total(h, Versions) = Total(Bills, Versions) + h[n] - Bills[n]
    BY <1>7, <2>4, TotalChanges
  <2>. QED
    BY <1>6, <1>7, <2>2, <2>3, <2>5
<1>9. Total(Bills, 1..Prev) = Total(Bills, Versions)
  <2>1. 1..Prev \in SUBSET Versions
    BY <1>1, UpTo2
  <2>2. \A v \in Versions \ (1..Prev) : Bills[v] = 0
    BY SubmitFinds, BillsTypes
  <2>. QED
    BY <1>7, <2>1, <2>2, TotalOutside
<1>10. ASSUME NEW n \in 0..Prev PROVE Total(Bills', 1..n) = Total(Bills, 1..n)
  <2>1. n \in 0..MaxVersions /\ \A v \in 1..n : v \in Versions /\ v # New
    BY <1>1, <1>10, BoundAssumption DEF Versions
  <2>2. Ints(Bills, 1..n)
    BY <2>1, BillsTotals DEF BillsOK
  <2>3. \A v \in 1..n : Bills[v] = Bills'[v]
    BY <1>6, <2>1
  <2>. QED
    BY <2>2, <2>3, TotalAlike
<1>11. LiveOK'
  <2>. SUFFICES ASSUME manual' = {}, NEW v \in Versions, Live(v)'
                PROVE  Total(Bills', 1..(v - 1)) + obligation'[v].fee >= Excess(net'[v])
    BY DEF LiveOK, Excess
  <2>1. CASE v = New
    <3>1. v - 1 = Prev /\ Prev \in 0..Prev
      BY <1>1, <2>1
    <3>2. Total(Bills', 1..(v - 1)) = Total(Bills, Versions)
      BY <1>9, <1>10, <3>1
    <3>3. obligation'[v].fee = fee /\ net'[v] = b
      BY <1>3, <1>4, <2>1, SubmitFinds
    <3>. QED
      BY <3>2, <3>3
  <2>2. CASE v # New
    <3>1. obligation'[v] = obligation[v] /\ Live(v)
      BY <1>4, <2>2 DEF Live, Outstanding, Owed, Waiting
    <3>2. v \in 1..Prev /\ net'[v] = net[v]
      BY <3>1, SubmitFinds DEF Live
    <3>3. v - 1 \in 0..Prev
      BY <1>1, <3>2
    <3>4. Total(Bills', 1..(v - 1)) = Total(Bills, 1..(v - 1))
      BY <1>10, <3>3
    <3>5. Total(Bills, 1..(v - 1)) + obligation[v].fee >= Excess(net[v])
      BY <3>1 DEF BillsOK, LiveOK
    <3>. QED
      BY <3>1, <3>2, <3>4, <3>5
  <2>. QED
    BY <2>1, <2>2
<1>12. NetOK'
  <2>. SUFFICES ASSUME manual' = {}
                PROVE  Total(Bills', Versions) - 0 >= Excess(b)
    BY SubmitFinds, Fresh DEF NetOK, Pending, Excess
  <2>. QED
    BY <1>7, <1>8, SubmitFinds
<1>. QED
  BY <1>5, <1>11, <1>12 DEF BillsOK

LEMMA InitialVersionBills ==
  ASSUME ~Interleaved, Chain, TypeOK, BillsOK, NEW b \in Balance, InitialVersion(b)
  PROVE  BillsOK'
<1>1. Submit(b) /\ UNCHANGED <<manual, deferred, queued, billing>>
  BY DEF InitialVersion, Unbilled
<1>2. Total(Bills, Versions) \in Nat /\ b \in Int
  BY <1>1, SubmitFinds
<1>3. CASE b > 0
  <2>1. b \in Nat /\ Excess(b) = b /\ ~ (Int0(Credited(b)) >= 1)
    <3>1. Credited(b) = 0
      BY <1>2, <1>3 DEF Credited
    <3>2. PICK c \in Nat \ {0} : c = Scale
      BY BoundAssumption
    <3>3. 0 \div c = 0
      OBVIOUS
    <3>4. Int0(0) = 0
      BY <3>2, <3>3 DEF Int0
    <3>5. b \in Nat /\ Excess(b) = b
      BY <1>2, <1>3 DEF Excess
    <3>. QED
      BY <3>1, <3>4, <3>5
  <2>2. obligation' = [obligation EXCEPT ![New] = NewObligation(b)]
    BY <1>3, <2>1 DEF InitialVersion
  <2>3. Total(Bills, Versions) + b >= Excess(b)
    BY <1>2, <2>1
  <2>. QED
    BY <1>1, <2>1, <2>2, <2>3, ObligationBills
<1>4. CASE ~ (b > 0)
  <2>1. Excess(b) = 0 /\ UNCHANGED obligation
    BY <1>4 DEF Excess, InitialVersion
  <2>. QED
    BY <1>1, <1>2, <2>1, NoObligationBills
<1>. QED
  BY <1>3, <1>4

LEMMA ManualBills ==
  ASSUME ~Interleaved, Chain, TypeOK, BillsOK, NEW b \in Balance, Manual(b)
  PROVE  BillsOK'
<1>1. /\ Submit(b) /\ manual' # {}
      /\ UNCHANGED <<obligation, deferred, queued, billing>>
  BY DEF Manual, Supplementary, Unbilled
<1>. QED
  BY <1>1, NoObligationBills

LEMMA NoChangeBills ==
  ASSUME ~Interleaved, Chain, TypeOK, BillsOK, NEW b \in Balance, NoChange(b)
  PROVE  BillsOK'
<1>1. /\ Submit(b) /\ Prev > 0 /\ status[Prev] # NoRow /\ Chosen("no_change", b)
      /\ UNCHANGED <<obligation, deferred, queued, billing, manual>>
  BY DEF NoChange, Supplementary, Unbilled
<1>2. b = net[Prev]
  BY <1>1, NotFlagged DEF CanHandle
<1>3. manual = {} => Total(Bills, Versions) >= Excess(net[Prev])
  BY <1>1, SubmitFinds
<1>. QED
  BY <1>1, <1>2, <1>3, NoObligationBills

\* A version without excess emissions asks for nothing.
LEMMA CreditBills ==
  ASSUME ~Interleaved, Chain, TypeOK, BillsOK, NEW b \in Balance,
         IncreasedCredit(b) \/ DecreasedCredit(b) \/ NewEarnedCredits(b)
  PROVE  BillsOK'
<1>1. /\ Submit(b) /\ Prev > 0
      /\ UNCHANGED <<obligation, deferred, queued, billing>>
  BY DEF IncreasedCredit, DecreasedCredit, NewEarnedCredits, Supplementary, Unbilled
<1>2. manual \subseteq manual'
  BY DEF IncreasedCredit, DecreasedCredit, NewEarnedCredits, AmendPrevious, ReplacePrevious
<1>3. b \in Int /\ net[Prev] \in Int /\ Scale \in Nat \ {0}
  BY <1>1, Fresh, BoundAssumption
<1>4. b <= 0
  <2>1. CASE IncreasedCredit(b)
    <3>1. Credited(net[Prev]) < Credited(b)
      BY <2>1, NotFlagged DEF IncreasedCredit, Supplementary, CanHandle
    <3>. QED
      BY <1>3, <3>1 DEF Credited
  <2>2. CASE NewEarnedCredits(b)
    <3>1. Credited(b) >= Scale
      BY <2>2, NotFlagged DEF NewEarnedCredits, Supplementary, CanHandle
    <3>. QED
      BY <1>3, <3>1 DEF Credited
  <2>3. CASE DecreasedCredit(b)
    <3>1. Chosen("decreased_credit", b)
      BY <2>3 DEF DecreasedCredit, Supplementary
    <3>2. Scale <= Credited(net[Prev])
      BY <3>1, NotFlagged DEF CanHandle
    <3>3. PICK i \in DOMAIN Handlers : /\ Handlers[i] = "decreased_credit"
                                       /\ \A j \in 1..(i - 1) : ~CanHandle(Handlers[j], b)
      BY <3>1 DEF Chosen
    <3>4. i = 7 /\ Handlers[3] = "increased_obligation"
      BY <3>3 DEF Handlers
    <3>5. ~(Excess(net[Prev]) < Excess(b))
      BY <3>3, <3>4 DEF CanHandle
    <3>. QED
      BY <1>3, <3>2, <3>5 DEF Excess, Credited
  <2>. QED
    BY <2>1, <2>2, <2>3
<1>5. Total(Bills, Versions) >= Excess(b)
  BY <1>1, <1>4, SubmitFinds
<1>. QED
  BY <1>1, <1>2, <1>5, NoObligationBills

LEMMA NoHandlerBills ==
  ASSUME ~Interleaved, Chain, TypeOK, BillsOK, NEW b \in Balance, NoHandler(b)
  PROVE  BillsOK'
<1>1. Submit(b) /\ UNCHANGED <<status, obligation, deferred, queued, billing, manual>>
  BY DEF NoHandler, Unbilled
<1>2. status'[New] = NoRow
  BY <1>1, Fresh
<1>. QED
  BY <1>1, <1>2, NoObligationBills

\* The fee of an increase is what the version adds to the one before.
LEMMA IncreasedObligationBills ==
  ASSUME ~Interleaved, Chain, TypeOK, BillsOK, NEW b \in Balance, IncreasedObligation(b)
  PROVE  BillsOK'
<1>1. /\ Submit(b) /\ Prev > 0 /\ status[Prev] # NoRow /\ Chosen("increased_obligation", b)
      /\ obligation' = [obligation EXCEPT ![New] = NewObligation(b - Excess(net[Prev]))]
      /\ UNCHANGED <<deferred, queued, billing, manual>>
  BY DEF IncreasedObligation, Supplementary, Unbilled
<1>2. Excess(net[Prev]) < Excess(b)
  BY <1>1, NotFlagged DEF CanHandle
<1>3. b \in Int /\ net[Prev] \in Int /\ Excess(net[Prev]) \in Nat
  BY <1>1, Fresh, CreditedIsSign
<1>4. PICK fee \in Nat : fee = b - Excess(net[Prev]) /\ Excess(b) = b
  BY <1>2, <1>3 DEF Excess
<1>5. manual = {} => Total(Bills, Versions) >= Excess(net[Prev])
  BY <1>1, SubmitFinds
<1>6. PICK t \in Nat : t = Total(Bills, Versions)
  BY <1>1, SubmitFinds
<1>7. manual = {} => t + fee >= Excess(b)
  BY <1>3, <1>4, <1>5, <1>6
<1>. QED
  BY <1>1, <1>4, <1>6, <1>7, ObligationBills

\* A supercession leaves the new version alone, with the whole of its fee.
LEMMA SupercedeBills ==
  ASSUME ~Interleaved, Chain, Serial, TypeOK, BillsOK, NEW b \in Balance, Supercede(b)
  PROVE  BillsOK'
<1>1. /\ Submit(b) /\ Prev > 0 /\ status[Prev] # NoRow /\ Chosen("supercede", b)
      /\ UNCHANGED <<deferred, queued, billing, manual>>
  BY DEF Supercede, Supplementary, Unbilled
<1>2. OthersSuperceded
  BY <1>1, NotFlagged DEF CanHandle, CanSupercede
<1>3. /\ New \in Versions /\ Prev \in Versions /\ New # Prev /\ New = Prev + 1
      /\ b \in Int /\ obligation[New] = NoRow /\ net[Prev] \in Int
  BY <1>1, Fresh
<1>4. PICK r : r = IF b > 0 THEN NewObligation(b) ELSE NoRow
  OBVIOUS
<1>5. /\ b > 0 => r # NoRow /\ r.fee = b /\ r.supp = 0
      /\ ~ (b > 0) => r = NoRow
  <2>1. ASSUME b > 0 PROVE r # NoRow /\ r.fee = b /\ r.supp = 0
    <3>1. b \in Nat /\ r = NewObligation(b)
      BY <1>3, <1>4, <2>1
    <3>2. r \in Obligation
      BY <3>1, NewRows
    <3>. QED
      BY <3>1, <3>2, NoRowAssumption DEF NewObligation
  <2>. QED
    BY <1>4, <2>1
<1>6. obligation'[New] = r /\ \A v \in Versions : v # New => obligation'[v] = NoRow
  <2>1. PICK p : p = IF net[Prev] > 0 THEN NoRow ELSE obligation[Prev]
    OBVIOUS
  <2>2. obligation' = [obligation EXCEPT ![Prev] = p, ![New] = r]
    BY <1>4, <2>1 DEF Supercede
  <2>3. p = NoRow
    BY <1>3, <2>1 DEF Chain, Signs
  <2>4. \A v \in Versions : v # New /\ v # Prev => obligation[v] = NoRow
    BY <1>2 DEF OthersSuperceded, Rows, Serial, SupercededIsEmpty, Chain, RowsBelong
  <2>. QED
    BY <1>3, <2>2, <2>3, <2>4 DEF TypeOK
<1>6a. queued = {} /\ queued' = {}
  <2>1. \A v \in Versions : obligation[v] # NoRow => v = Prev /\ obligation[v].invoice # "linked"
    <3>1. \A v \in Versions : v # Prev => obligation[v] = NoRow
      BY <1>2 DEF OthersSuperceded, Rows, Serial, SupercededIsEmpty, Chain, RowsBelong
    <3>2. obligation[Prev] # NoRow => obligation[Prev].invoice # "linked"
      <4>1. CanSupercede
        BY <1>1, NotFlagged DEF CanHandle
      <4>2. obligation[Prev] # NoRow => net[Prev] > 0
        BY <1>3 DEF Chain, Signs
      <4>3. net[Prev] > 0 => ~ (Credited(net[Prev]) >= Scale)
        BY <1>3, BoundAssumption DEF Credited
      <4>. QED
        BY <4>1, <4>2, <4>3 DEF CanSupercede, ObligationHasNoInvoice
    <3>. QED
      BY <3>1, <3>2
  <2>2. \A a \in queued : a.target \in Versions
    BY DEF TypeOK, Adjustment
  <2>. QED
    BY <1>1, <2>1, <2>2 DEF BillsOK, RowsOK, QueueOK
<1>7. /\ \A v \in Versions : deferred[v] = NoRow /\ billing[v].pc = "idle"
      /\ Len(net') = New /\ Last' = b /\ net'[New] = b
  BY <1>1, SubmitFinds
<1>8. RowsOK' /\ PlansOK'
  <2>1. RowsOK'
    <3>1. \A v \in Versions : obligation'[v] # NoRow => v = New /\ b > 0
      BY <1>5, <1>6
    <3>2. obligation'[New] # NoRow => /\ obligation'[New].supp = 0 /\ obligation'[New].fee = b
                                      /\ 0 <= b /\ ~ (0 > 0)
      BY <1>3, <1>5, <1>6
    <3>. QED
      BY <1>1, <1>7, <1>6a, <3>1, <3>2 DEF BillsOK, RowsOK, QueueOK
  <2>2. PlansOK'
    BY <1>1, <1>7 DEF PlansOK
  <2>. QED
    BY <2>1, <2>2
<1>9. /\ Bills'[New] = Excess(b) /\ Excess(b) \in Nat
      /\ \A v \in Versions : Bills'[v] \in Nat
  <2>1. Bills' = [v \in Versions |-> IF obligation'[v] = NoRow THEN 0
                                     ELSE obligation'[v].fee - obligation'[v].supp - 0]
    <3>1. \A v \in Versions : Owed(v)' = 0
      BY <1>6a DEF Owed, Waiting
    <3>. QED
      BY <3>1 DEF Bills
  <2>2. Bills'[New] = Excess(b) /\ Excess(b) \in Nat
    BY <1>3, <1>5, <1>6, <2>1 DEF Excess
  <2>3. \A v \in Versions : v # New => Bills'[v] = 0
    BY <1>6, <2>1
  <2>. QED
    BY <2>2, <2>3
<1>10. PICK h : h = Bills'
  OBVIOUS
<1>11. \A v \in Versions : h[v] \in Nat
  BY <1>9, <1>10
<1>12. PICK n \in Versions : n = New /\ n - 1 \in 0..MaxVersions
  BY <1>3, BoundAssumption DEF Versions
<1>13. /\ IsFiniteSet(Versions) /\ 1..(n - 1) \in SUBSET Versions /\ IsFiniteSet(1..(n - 1))
  BY <1>12, UpTo2
<1>14. LiveOK'
  <2>. SUFFICES ASSUME NEW v \in Versions, Live(v)'
                PROVE  Total(h, 1..(v - 1)) + obligation'[v].fee >= Excess(net'[v])
    BY <1>10 DEF LiveOK, Excess
  <2>1. obligation'[v] # NoRow
    BY DEF Live
  <2>2. v = n /\ obligation'[v].fee = b /\ net'[v] = b /\ Excess(b) = b
    BY <1>5, <1>6, <1>7, <1>12, <2>1 DEF Excess
  <2>3. Total(h, 1..(n - 1)) \in Nat
    BY <1>11, <1>13, TotalNat
  <2>. QED
    BY <1>3, <2>2, <2>3
<1>15. NetOK'
  <2>. SUFFICES Total(h, Versions) - 0 >= Excess(b)
    BY <1>1, <1>3, <1>7, <1>10 DEF NetOK, Pending, Excess
  <2>1. Ints(h, Versions) /\ Ints(h, Versions \ {n}) /\ h[n] = Excess(b)
    BY <1>9, <1>10, <1>11, <1>12, <1>13, FS_Subset DEF Ints
  <2>2. Total(h, Versions) = h[n] + Total(h, Versions \ {n})
    BY <2>1, TotalWithout
  <2>3. Total(h, Versions \ {n}) \in Nat
    BY <1>11, <2>1, TotalNat DEF Ints
  <2>. QED
    BY <1>9, <2>1, <2>2, <2>3
<1>. QED
  BY <1>8, <1>14, <1>15 DEF BillsOK

-----------------------------------------------------------------------------
(* The plan of a decrease *)

\* What a plan gives each invoice
LEMMA PlanAmounts ==
  ASSUME Chain, TypeOK, NEW b \in Balance, Submit(b), Prev > 0, Excess(b) < Excess(net[Prev])
  PROVE  \E f : /\ \A v \in 1..(Prev + 1) : f[v] \in Nat
                /\ f[Prev + 1] = RefundPool(b)
                /\ \A v \in 1..Prev : /\ f[v] <= f[v + 1]
                                      /\ Plan(b).amount[v] = f[v + 1] - f[v]
                                      /\ v \in Listed /\ Plan(b).amount[v] # Outstanding(v)
                                           => f[v] = 0
                                      /\ v \in Listed => Plan(b).amount[v] <= Outstanding(v)
                /\ Plan(b).todo = {v \in Listed : Plan(b).amount[v] > 0}
                /\ \A v \in 1..Prev : Plan(b).amount[v] \in Nat
<1>1. /\ Prev \in Nat /\ Prev <= MaxVersions /\ RefundPool(b) \in Nat
      /\ \A v \in 1..Prev : v \in Versions
  BY Fresh, PoolIsNat, BoundAssumption DEF Versions, Submit
<1>2. PICK f : f = PoolAfter(b)
  OBVIOUS
<1>3. Leaves(f, 1, Prev + 1, RefundPool(b), Listed, Outs) /\ \A v \in 1..(Prev + 1) : f[v] \in Nat
  BY <1>2, PoolIs
<1>4. \A v \in Listed : v \in 1..Prev /\ Outs[v] = Outstanding(v) /\ Outs[v] \in Nat
  BY ListedTypes
<1>5. f[Prev + 1] = RefundPool(b)
  BY <1>1, <1>3 DEF Leaves
<1>6. /\ \A v \in 1..Prev : f[v] <= f[v + 1]
      /\ \A v \in 1..Prev : v \in Listed /\ f[v + 1] - f[v] # Outs[v] => f[v] = 0
      /\ \A v \in 1..Prev : v \in Listed => f[v + 1] - f[v] <= Outs[v]
      /\ \A v \in 1..Prev : v \notin Listed => f[v + 1] - f[v] = 0
  BY <1>1, <1>3, <1>4, LeavesDown
<1>7. PICK a : a = [v \in Versions |-> IF v \in Listed THEN f[v + 1] - f[v] ELSE 0]
  OBVIOUS
<1>8. Plan(b).amount = a /\ Plan(b).todo = {v \in Listed : a[v] > 0}
  BY <1>2, <1>7 DEF Plan
<1>9. \A v \in 1..Prev : a[v] = f[v + 1] - f[v]
  BY <1>1, <1>6, <1>7
<1>10. ASSUME NEW v \in 1..Prev PROVE a[v] \in Nat
  <2>1. v \in 1..(Prev + 1) /\ v + 1 \in 1..(Prev + 1)
    BY <1>1
  <2>. QED
    BY <1>3, <1>6, <1>9, <2>1
<1>. QED
  BY <1>3, <1>4, <1>5, <1>6, <1>8, <1>9, <1>10

\* When every obligation has its invoice, a plan reaches one only after it
\* has met all newer ones.
LEMMA PlanReaches ==
  ASSUME Chain, TypeOK, NEW b \in Balance, Submit(b), Prev > 0, Excess(b) < Excess(net[Prev]),
         AllBilled, NEW v \in Plan(b).todo, NEW w \in Versions, w > v, Live(w)
  PROVE  w \in Plan(b).todo /\ Plan(b).amount[w] = Outstanding(w)
<1>1. PICK f : /\ \A u \in 1..(Prev + 1) : f[u] \in Nat
               /\ \A u \in 1..Prev : /\ f[u] <= f[u + 1]
                                     /\ Plan(b).amount[u] = f[u + 1] - f[u]
                                     /\ u \in Listed /\ Plan(b).amount[u] # Outstanding(u)
                                          => f[u] = 0
               /\ Plan(b).todo = {u \in Listed : Plan(b).amount[u] > 0}
  BY PlanAmounts
<1>2. Prev \in Nat
  BY Fresh
<1>3. w \in Listed
  <2>1. obligation[w] # NoRow /\ obligation[w].invoice = "linked"
    BY DEF Live, AllBilled, Rows
  <2>2. w \in 1..Prev
    BY <2>1, BoundAssumption DEF Chain, RowsBelong, Versions, Prev
  <2>3. Owed(w) = 0
    BY OwedTypes DEF AllBilled
  <2>4. Outstanding(w) \in Int
    <3>1. /\ obligation[w].fee \in Nat /\ obligation[w].supp \in Nat /\ obligation[w].paid \in Nat
          /\ obligation[w].units \in Nat
      BY <2>1, RowTypes
    <3>. QED
      BY <3>1 DEF Outstanding
  <2>5. Outstanding(w) > 0 /\ ~ obligation[w].void
    BY <2>1, <2>3, <2>4 DEF Live
  <2>. QED
    BY <2>1, <2>2, <2>5 DEF Listed, Unpaid, Rows
<1>4. v \in Listed /\ v \in 1..Prev /\ w \in 1..Prev /\ Outstanding(w) > 0
  BY <1>1, <1>3, ListedTypes
<1>5. Plan(b).amount[w] = Outstanding(w)
  <2>. SUFFICES ASSUME Plan(b).amount[w] # Outstanding(w) PROVE FALSE
    OBVIOUS
  <2>1. f[w] = 0
    BY <1>1, <1>3, <1>4
  <2>2. PICK n \in Nat : n = Prev
    BY <1>2
  <2>3. \A u \in 1..w : f[u] = 0
    <3>1. \A u \in 1..(n + 1) : f[u] \in Nat
      BY <1>1, <2>2
    <3>2. \A u \in 1..n : f[u] <= f[u + 1]
      BY <1>1, <2>2
    <3>3. w \in 1..(n + 1)
      BY <1>4, <2>2
    <3>. QED
      BY <2>1, <3>1, <3>2, <3>3, LeavesZero
  <2>4. v \in 1..w /\ v + 1 \in 1..w
    BY <1>4
  <2>5. f[v] = 0 /\ f[v + 1] = 0
    BY <2>3, <2>4
  <2>6. Plan(b).amount[v] = 0
    BY <1>1, <1>4, <2>5
  <2>. QED
    BY <1>1, <2>6
<1>. QED
  BY <1>1, <1>3, <1>4, <1>5

\* A plan gives no more than its pool, and nothing without an invoice to give
\* it to.
LEMMA PlanGives ==
  ASSUME Chain, TypeOK, NEW b \in Balance, Submit(b), Prev > 0, Excess(b) < Excess(net[Prev])
  PROVE  /\ Total(Plan(b).amount, Plan(b).todo) \in Nat
         /\ Total(Plan(b).amount, Plan(b).todo) <= RefundPool(b)
         /\ Listed = {} => Total(Plan(b).amount, Plan(b).todo) = 0
<1>1. PICK f : /\ \A u \in 1..(Prev + 1) : f[u] \in Nat
               /\ f[Prev + 1] = RefundPool(b)
               /\ \A u \in 1..Prev : Plan(b).amount[u] = f[u + 1] - f[u]
               /\ Plan(b).todo = {u \in Listed : Plan(b).amount[u] > 0}
               /\ \A u \in 1..Prev : Plan(b).amount[u] \in Nat
  BY PlanAmounts
<1>2. PICK n \in Nat : n = Prev
  BY Fresh
<1>3. PICK a, D : a = Plan(b).amount /\ D = Plan(b).todo
  OBVIOUS
<1>4. D \in SUBSET (1..n) /\ \A u \in 1..n : a[u] \in Nat
  BY <1>1, <1>2, <1>3 DEF Listed
<1>5. IsFiniteSet(1..n) /\ IsFiniteSet(D)
  <2>1. IsFiniteSet(1..n)
    BY FS_Interval
  <2>. QED
    BY <1>4, <2>1, FS_Subset
<1>6. Total(a, 1..n) = f[n + 1] - f[1]
  BY <1>1, <1>2, <1>3, LeavesTotal
<1>7. Total(a, D) \in Nat /\ Total(a, D) <= Total(a, 1..n)
  BY <1>4, <1>5, TotalNat, TotalGrows
<1>8. f[n + 1] \in Nat /\ f[1] \in Nat /\ f[n + 1] = RefundPool(b)
  BY <1>1, <1>2
<1>9. Listed = {} => Total(a, D) = 0
  <2>1. Listed = {} => D = {}
    BY <1>1, <1>3
  <2>. QED
    BY <2>1, TotalEmpty
<1>. QED
  BY <1>3, <1>6, <1>7, <1>8, <1>9

\* What the anchor was adjusted by counts among what was already applied.
LEMMA AnchorApplied ==
  ASSUME Chain, TypeOK, RowsOK, Listed # {}
  PROVE  obligation[Anchor].supp \in Nat /\ obligation[Anchor].supp <= AlreadyApplied
<1>1. PICK a \in Listed : a = Anchor
  BY AnchorIs
<1>2. a \in Versions /\ obligation[a] # NoRow /\ obligation[a].supp \in Nat
  BY ListedTypes
<1>3. PICK S : S = Since(a)
  OBVIOUS
<1>4. AlreadyApplied = Total(Supps, S) /\ AlreadyApplied \in Nat
  BY <1>1, <1>3, AppliedIs
<1>5. CASE obligation[a].supp = 0
  BY <1>1, <1>4, <1>5
<1>6. CASE obligation[a].supp > 0
  <2>1. a \in S
    BY <1>2, <1>3, <1>6 DEF RowsOK, Since
  <2>2. \A v \in S : v \in Versions /\ Supps[v] \in Nat
    BY <1>3, ListedTypes DEF Since, Supps
  <2>3. IsFiniteSet(S) /\ IsFiniteSet(S \ {a})
    <3>1. IsFiniteSet(Versions)
      BY FS_Interval, BoundAssumption DEF Versions
    <3>. QED
      BY <2>2, <3>1, FS_Subset
  <2>4. Total(Supps, S) = Supps[a] + Total(Supps, S \ {a})
    BY <2>1, <2>2, <2>3, TotalWithout DEF Ints
  <2>5. Total(Supps, S \ {a}) \in Nat
    BY <2>2, <2>3, TotalNat
  <2>6. Supps[a] = obligation[a].supp
    BY <1>2 DEF Supps
  <2>. QED
    BY <1>1, <1>2, <1>4, <2>4, <2>5, <2>6
<1>. QED
  BY <1>1, <1>2, <1>5, <1>6

\* What is billed, less the pool of a decrease, covers the new version.
LEMMA PoolLeavesEnough ==
  ASSUME Chain, TypeOK, BillsOK, NEW b \in Balance, Submit(b), Prev > 0, manual = {},
         Listed # {}, RefundPool(b) > 0, queued = {}
  PROVE  Total(Bills, Versions) - RefundPool(b) >= Excess(b)
<1>1. PICK a \in Listed : a = Anchor
  BY AnchorIs
<1>2. /\ a \in Versions /\ a \in 1..Len(net) /\ obligation[a] # NoRow /\ Live(a)
      /\ obligation[a].fee \in Nat /\ a \in Nat /\ a > 0 /\ a <= MaxVersions /\ Owed(a) = 0
  <2>1. /\ a \in Versions /\ a \in 1..Len(net) /\ obligation[a] # NoRow
        /\ obligation[a].fee \in Nat /\ a \in Nat /\ a > 0 /\ a <= MaxVersions
    BY <1>1, ListedTypes, RowTypes, BoundAssumption DEF Prev, Versions
  <2>2. Owed(a) = 0
    BY <2>1, OwedTypes
  <2>3. ~ obligation[a].void /\ Outstanding(a) > 0 /\ Outstanding(a) \in Nat
    BY <1>1, ListedTypes DEF Listed, Unpaid
  <2>4. Live(a)
    BY <2>1, <2>2, <2>3 DEF Live
  <2>. QED
    BY <2>1, <2>2, <2>4
<1>3. net[a] \in Int
  BY <1>2, ElementOfSeq, BalanceAssumption DEF Chain
<1>4. PICK e \in Nat, x \in Nat : e = Excess(net[a]) /\ x = Excess(b)
  BY <1>3, BalanceAssumption, CreditedIsSign
<1>5. PICK k \in Nat : k = AlreadyApplied
  BY AppliedIs
<1>6. PICK s \in Nat : s = obligation[a].supp /\ s <= k
  BY <1>1, <1>5, AnchorApplied DEF BillsOK
<1>7. PICK l \in Int : l = Total(Bills, 1..(a - 1))
  <2>1. a - 1 \in 0..MaxVersions
    BY <1>2, BoundAssumption
  <2>. QED
    BY <2>1, BillsTotals DEF BillsOK
<1>8. l + obligation[a].fee >= e
  BY <1>2, <1>4, <1>7 DEF BillsOK, LiveOK
<1>9. Bills[a] = obligation[a].fee - s
  BY <1>2, <1>6, BillsTypes
<1>10. Total(Bills, 1..a) = Bills[a] + l
  <2>1. \A v \in 1..a : Bills[v] \in Int
    BY <1>2, BillsTypes, BoundAssumption DEF Versions
  <2>. QED
    BY <1>2, <1>7, <2>1, TotalUpTo
<1>11. PICK t \in Nat : t = Total(Bills, Versions) /\ t >= Total(Bills, 1..a)
  <2>1. a \in 0..MaxVersions
    BY <1>2, BoundAssumption
  <2>. QED
    BY <2>1, BillsTotals DEF BillsOK
<1>12. t >= e - s
  BY <1>2, <1>6, <1>8, <1>9, <1>10, <1>11
<1>13. RefundPool(b) = (e - x) - k
  <2>1. RefundPool(b) = Max({0, Max({0, e - x}) - k})
    BY <1>1, <1>4, <1>5 DEF RefundPool
  <2>2. PICK i \in Int : i = e - x
    BY <1>4
  <2>3. PICK j \in Nat : j = Max({0, i}) /\ (j = i \/ j = 0)
    BY Larger
  <2>4. PICK m \in Int : m = j - k
    OBVIOUS
  <2>5. PICK q \in Nat : q = Max({0, m}) /\ (q = m \/ q = 0)
    BY Larger
  <2>6. RefundPool(b) = q
    BY <2>1, <2>2, <2>3, <2>4, <2>5
  <2>7. q = m
    BY <2>5, <2>6
  <2>. QED
    BY <1>5, <2>2, <2>3, <2>4, <2>6, <2>7
<1>14. t - ((e - x) - k) >= x
  BY <1>6, <1>12
<1>. QED
  BY <1>4, <1>11, <1>13, <1>14

LEMMA DecreasedObligationBills ==
  ASSUME ~Interleaved, Chain, TypeOK, BillsOK, AllBilled,
         NEW b \in Balance, DecreasedObligation(b)
  PROVE  BillsOK'
<1>1. /\ Submit(b) /\ Prev > 0 /\ status[Prev] # NoRow /\ Chosen("decreased_obligation", b)
      /\ deferred' = [deferred EXCEPT ![New] = Plan(b)]
      /\ UNCHANGED <<obligation, queued, billing, manual>>
      /\ queued = {} /\ AllLinked
  BY DEF DecreasedObligation, Supplementary, Unbilled, AllBilled, AllLinked
<1>2. Excess(b) < Excess(net[Prev])
  BY <1>1, NotFlagged DEF CanHandle
<1>3. New \in Versions /\ New = Prev + 1 /\ Prev \in Nat
  BY <1>1, Fresh
<1>4. PICK p : p = Plan(b)
  OBVIOUS
<1>5. p # NoRow
  BY <1>1, <1>2, <1>4, PlanTyped, NoRowAssumption
<1>6. deferred'[New] = p /\ \A s \in Versions : s # New => deferred'[s] = NoRow
  BY <1>1, <1>3, <1>4, SubmitFinds DEF TypeOK
<1>7. RowsOK'
  BY <1>1 DEF BillsOK, RowsOK, QueueOK
<1>8. PlansOK'
  <2>1. ASSUME NEW v \in p.todo
        PROVE  /\ v < New /\ obligation[v] # NoRow /\ Waiting(v)' = {}
               /\ p.amount[v] <= Outstanding(v)
               /\ \A w \in Versions : w > v /\ Live(w) =>
                    w \in p.todo /\ p.amount[w] = Outstanding(w)
    <3>1. v \in Listed /\ (v \in 1..Prev => p.amount[v] <= Outstanding(v))
      BY <1>1, <1>2, <1>4, PlanAmounts
    <3>2. v \in 1..Prev /\ obligation[v] # NoRow
      BY <3>1, ListedTypes
    <3>3. \A w \in Versions : w > v /\ Live(w) =>
            w \in p.todo /\ p.amount[w] = Outstanding(w)
      BY <1>1, <1>2, <1>4, PlanReaches
    <3>4. v < New /\ Waiting(v)' = {}
      BY <1>1, <1>3, <3>2 DEF Waiting
    <3>. QED
      BY <3>1, <3>2, <3>3, <3>4
  <2>2. /\ AllLinked' /\ \A v \in Versions : (Live(v)' <=> Live(v))
        /\ \A v : Outstanding(v)' = Outstanding(v)
    BY <1>1 DEF AllLinked, Rows, Live, Outstanding, Owed, Waiting
  <2>. QED
    BY <1>1, <1>6, <2>1, <2>2 DEF PlansOK
<1>9. Bills' = Bills
  BY <1>1 DEF Bills, Owed, Waiting
<1>10. LiveOK'
  <2>. SUFFICES ASSUME manual' = {}, NEW v \in Versions, Live(v)'
                PROVE  Total(Bills, 1..(v - 1)) + obligation[v].fee >= Excess(net'[v])
    BY <1>1, <1>9 DEF LiveOK, Excess
  <2>1. Live(v) /\ net'[v] = net[v]
    BY <1>1, SubmitFinds DEF Live, Outstanding, Owed, Waiting
  <2>. QED
    BY <1>1, <2>1 DEF BillsOK, LiveOK
<1>11. NetOK'
  <2>. SUFFICES ASSUME manual = {}
                PROVE  Total(Bills, Versions) - Total(p.amount, p.todo) >= Excess(b)
    BY <1>1, <1>3, <1>5, <1>6, <1>9, SubmitFinds DEF NetOK, Pending, Due, Excess
  <2>1. PICK t \in Nat : t = Total(Bills, Versions) /\ t >= Excess(net[Prev])
    BY <1>1, SubmitFinds
  <2>2. PICK d \in Nat : /\ d = Total(p.amount, p.todo) /\ d <= RefundPool(b)
                         /\ Listed = {} => d = 0
    BY <1>1, <1>2, <1>4, PlanGives
  <2>3. RefundPool(b) \in Nat
    BY <1>1, <1>2, PoolIsNat
  <2>4. Excess(b) \in Nat /\ Excess(net[Prev]) \in Nat
    BY <1>1, Fresh, CreditedIsSign
  <2>5. CASE Listed = {} \/ RefundPool(b) = 0
    BY <1>2, <2>1, <2>2, <2>3, <2>4, <2>5
  <2>6. CASE Listed # {} /\ RefundPool(b) > 0
    <3>1. t - RefundPool(b) >= Excess(b)
      BY <1>1, <2>1, <2>6, PoolLeavesEnough
    <3>. QED
      BY <2>1, <2>2, <2>3, <2>4, <3>1
  <2>. QED
    BY <2>3, <2>5, <2>6
<1>. QED
  BY <1>7, <1>8, <1>10, <1>11 DEF BillsOK

-----------------------------------------------------------------------------
(* Never under-billed *)

LEMMA InitBills == Init => BillsOK
<1>. SUFFICES ASSUME Init PROVE BillsOK
  OBVIOUS
<1>1. /\ Len(net) = 0 /\ queued = {}
      /\ \A v \in Versions : /\ obligation[v] = NoRow /\ deferred[v] = NoRow
                             /\ billing[v].pc = "idle"
  BY DEF Init, JobAt
<1>. QED
  BY <1>1 DEF BillsOK, RowsOK, QueueOK, PlansOK, LiveOK, NetOK, Live

\* Steps that change neither the versions nor anything that is billed
LEMMA NothingBills ==
  ASSUME BillsOK,
         UNCHANGED <<net, status, obligation, credit, manual, deferred, queued, billing>>
  PROVE  BillsOK'
BY DEF BillsOK, RowsOK, QueueOK, PlansOK, LiveOK, NetOK, AllLinked, Rows, Live, Outstanding,
       Owed, Waiting, Bills, Pending, Due, Last, Excess

\* What early says of a decrease: planned when all was billed, or early for good
LEMMA EarlySays ==
  ASSUME NEW b \in Balance, DecreasedObligation(b)
  PROVE  (early => early') /\ (~early' => AllBilled)
<1>1. early' = (early \/ ~AllBilled)
  BY DEF DecreasedObligation
<1>. QED
  BY <1>1, Zenon

LEMMA EarlyStays == [Next]_vars /\ early => early'
<1>. SUFFICES ASSUME [Next]_vars PROVE early => early'
  OBVIOUS
<1>1. ASSUME NEW b \in Balance, Submission(b) PROVE early => early'
  <2>1. CASE DecreasedObligation(b)
    BY <2>1, EarlySays
  <2>2. CASE ~ DecreasedObligation(b)
    <3>1. UNCHANGED early
      BY <1>1, <2>2
         DEF Submission, InitialVersion, Manual, Supercede, IncreasedObligation, NoChange,
             IncreasedCredit, DecreasedCredit, NewEarnedCredits, NoHandler
    <3>. QED
      BY <3>1
  <2>. QED
    BY <2>1, <2>2
<1>2. ASSUME NEW v \in Versions, AfterCommit(v) PROVE UNCHANGED early
  BY <1>2 DEF AfterCommit, AdjustInvoice, QueueAdjustment, FinishAdjustment, Settle,
              StartBilling, CreateInvoice, LinkInvoice, BillingFails
<1>3. ASSUME NEW v \in Versions, BetweenSubmissions(v) PROVE UNCHANGED early
  BY <1>3 DEF BetweenSubmissions, Pay, ApplyUnits, Request, Review, Approve, Decline, Decide
<1>4. ASSUME NEW a \in queued, RetryAdjustment(a) PROVE UNCHANGED early
  BY <1>4 DEF RetryAdjustment
<1>5. CASE ReachInvoiceDate
  BY <1>5 DEF ReachInvoiceDate
<1>6. CASE UNCHANGED vars
  BY <1>6 DEF vars
<1>. QED
  BY <1>1, <1>2, <1>3, <1>4, <1>5, <1>6 DEF Next

\* One report at a time, and decreases that are not early
LEMMA BillsStep ==
  ASSUME ~Interleaved
  PROVE  Chain /\ Serial /\ TypeOK /\ BillsOK /\ [Next]_vars /\ ~early' => BillsOK'
<1>. SUFFICES ASSUME Chain, Serial, TypeOK, BillsOK, [Next]_vars, ~early'
              PROVE  BillsOK'
  OBVIOUS
<1>1. ASSUME NEW b \in Balance, Submission(b) PROVE BillsOK'
  <2>1. DecreasedObligation(b) => AllBilled
    BY EarlySays
  <2>. QED
    BY <1>1, <2>1, InitialVersionBills, ManualBills, SupercedeBills, IncreasedObligationBills,
       DecreasedObligationBills, NoChangeBills, CreditBills, NoHandlerBills DEF Submission
<1>2. ASSUME NEW v \in Versions, AfterCommit(v) PROVE BillsOK'
  BY <1>2, AdjustBills, QueueBills, FinishBills, StartBillingBills, SaveBills DEF AfterCommit
<1>3. ASSUME NEW v \in Versions, BetweenSubmissions(v) PROVE BillsOK'
  BY <1>3, PayBills, DecideBills
<1>4. ASSUME NEW a \in queued, RetryAdjustment(a) PROVE BillsOK'
  BY <1>4, RetryBills
<1>5. CASE ReachInvoiceDate
  BY <1>5, NothingBills DEF ReachInvoiceDate
<1>6. CASE UNCHANGED vars
  BY <1>6, NothingBills DEF vars
<1>. QED
  BY <1>1, <1>2, <1>3, <1>4, <1>5, <1>6 DEF Next

\* When submissions wait for the work of the one before, and as long as every
\* decrease is planned with all obligations invoiced and no adjustment queued:
\* through increases, decreases, supercessions, payments, units and calls that
\* fail and are repeated, the obligations of a report bill no less than the
\* excess emissions of its last version.  RefundPool may start again at any
\* invoice that is still unpaid, so BillsOK keeps for each of them that what is
\* billed up to it covers the balance it was billed for.
THEOREM NeverUnderBilledHolds ==
  ASSUME ~Interleaved
  PROVE  Spec => []NeverUnderBilled
<1>1. Init => (~early => BillsOK)
  BY InitBills
<1>2. Chain /\ Serial /\ TypeOK /\ (~early => BillsOK) /\ [Next]_vars => (~early => BillsOK)'
  BY BillsStep, EarlyStays
<1>3. Chain /\ TypeOK /\ (~early => BillsOK) => NeverUnderBilled
  BY BillsAreEnough DEF NeverUnderBilled
<1>4. Spec => [](Chain /\ Serial)
  <2>1. Init => Chain /\ Serial
    BY InitChain
  <2>2. Chain /\ Serial /\ [Next]_vars => Chain' /\ Serial'
    BY ChainStep, SerialStep
  <2>. QED
    BY <2>1, <2>2, PTL DEF Spec
<1>5. Spec => []TypeOK
  BY TypesHold
<1>. QED
  BY <1>1, <1>2, <1>3, <1>4, <1>5, PTL DEF Spec

-----------------------------------------------------------------------------
(* Submissions past the invoice generation date *)

\* No CRV waits for the date, and what has a number is being billed
PastDate ==
  /\ dateReached
  /\ \A v \in Versions :
       /\ status[v] # "pending_invoice"
       /\ obligation[v] # NoRow /\ obligation[v].invoice = "number" => billing[v].pc # "idle"

\* At the next submission every obligation is linked to its invoice.
LEMMA PastDateLinks ==
  ASSUME ~Interleaved, TypeOK, PastDate, NEW b \in Balance, Submit(b)
  PROVE  AllLinked
<1>. SUFFICES ASSUME NEW v \in Versions, obligation[v] # NoRow
              PROVE  obligation[v].invoice = "linked"
  BY DEF AllLinked, Rows
<1>1. billing[v].pc = "idle" /\ ~AwaitsBilling(v)
  BY DEF Submit, Quiet
<1>2. obligation[v].invoice # "none" /\ obligation[v].invoice # "number"
  BY <1>1 DEF AwaitsBilling, PastDate
<1>3. obligation[v].invoice \in {"none", "number", "linked"}
  BY RowTypes DEF Obligation
<1>. QED
  BY <1>2, <1>3

\* What a submission past the date makes of its own version
LEMMA NewPastDate ==
  ASSUME Chain, TypeOK, PastDate, NEW b \in Balance, Submission(b)
  PROVE  /\ UNCHANGED dateReached
         /\ status'[New] # "pending_invoice"
         /\ obligation'[New] # NoRow => obligation'[New].invoice # "number"
<1>1. Submit(b) /\ UNCHANGED dateReached
  BY DEF Submission, InitialVersion, Manual, Supercede, IncreasedObligation, DecreasedObligation,
         NoChange, IncreasedCredit, DecreasedCredit, NewEarnedCredits, NoHandler,
         Supplementary, Unbilled
<1>2. /\ New \in Versions /\ New # Prev /\ status[New] = NoRow /\ obligation[New] = NoRow
      /\ Prev \in Nat /\ (Prev > 0 => Prev \in Versions)
  BY <1>1, Fresh
<1>3. ObligationStatus = "obligation_not_met" /\ dateReached
  BY DEF ObligationStatus, PastDate
<1>4. DOMAIN status = Versions /\ DOMAIN obligation = Versions
  BY DEF TypeOK
<1>5. NoRow # "pending_invoice"
  BY NoRowAssumption DEF ComplianceStatus
<1>6. status'[New] # "pending_invoice"
  BY <1>2, <1>3, <1>4, <1>5
     DEF Submission, InitialVersion, Manual, Supercede, IncreasedObligation, DecreasedObligation,
         NoChange, IncreasedCredit, DecreasedCredit, NewEarnedCredits, NoHandler,
         AmendPrevious, ReplacePrevious
<1>7. \A fee : NewObligation(fee).invoice = "none"
  BY DEF NewObligation
<1>8. obligation'[New] = NoRow \/ \E fee : obligation'[New] = NewObligation(fee)
  BY <1>2, <1>4
     DEF Submission, InitialVersion, Manual, Supercede, IncreasedObligation, DecreasedObligation,
         NoChange, IncreasedCredit, DecreasedCredit, NewEarnedCredits, NoHandler
<1>. QED
  BY <1>1, <1>6, <1>7, <1>8

LEMMA SubmissionPastDate ==
  ASSUME Chain, TypeOK, PastDate, NEW b \in Balance, Submission(b)
  PROVE  PastDate'
<1>1. Submits(b)
  BY SubmissionSubmits
<1>2. Submit(b) /\ UNCHANGED billing /\ Prev \in Nat
  BY <1>1, Fresh DEF Submits
<1>3. ASSUME NEW v \in Versions
      PROVE  /\ status'[v] # "pending_invoice"
             /\ obligation'[v] # NoRow /\ obligation'[v].invoice = "number"
                  => billing[v].pc # "idle"
  <2>1. CASE v = New
    BY <2>1, NewPastDate
  <2>2. CASE v = Prev /\ v # New
    <3>1. Prev > 0
      BY <2>2 DEF Versions
    <3>2. /\ status'[Prev] = status[Prev] \/ status'[Prev] = "superceded"
          /\ obligation'[Prev] \in {obligation[Prev], NoRow}
      BY <1>1, <3>1 DEF Submits
    <3>. QED
      BY <2>2, <3>2 DEF PastDate
  <2>3. CASE v # Prev /\ v # New
    <3>1. status'[v] = status[v] /\ obligation'[v] = obligation[v]
      BY <1>1, <2>3 DEF Submits, Same
    <3>. QED
      BY <3>1 DEF PastDate
  <2>. QED
    BY <2>1, <2>2, <2>3
<1>4. dateReached'
  BY NewPastDate DEF PastDate
<1>. QED
  BY <1>2, <1>3, <1>4 DEF PastDate

\* Adjustments change no invoice and leave no CRV waiting.
LEMMA AdjustmentPastDate ==
  ASSUME Chain, TypeOK, PastDate, NEW s \in Versions,
         AdjustInvoice(s) \/ QueueAdjustment(s) \/ FinishAdjustment(s)
  PROVE  PastDate'
<1>1. UNCHANGED <<billing, dateReached>>
  BY DEF AdjustInvoice, QueueAdjustment, FinishAdjustment, Settle
<1>2. \A v \in Versions : status'[v] # "pending_invoice"
  BY DEF AdjustInvoice, QueueAdjustment, FinishAdjustment, Settle, Outcome, PastDate, TypeOK
<1>3. \A v \in Versions : obligation'[v] # NoRow =>
        obligation[v] # NoRow /\ obligation'[v].invoice = obligation[v].invoice
  <2>1. CASE AdjustInvoice(s)
    <3>0. PICK v \in Versions : /\ v = Target(s) /\ obligation[v] # NoRow
      BY <2>1, TargetIs DEF AdjustInvoice, HasInvoice
    <3>1. PICK n, x : obligation' = [obligation EXCEPT ![v] = Post(obligation[v], n, s, x)]
      BY <2>1, <3>0 DEF AdjustInvoice
    <3>2. obligation[v] \in Obligation
      BY <3>0, RowTypes
    <3>3. Post(obligation[v], n, s, x).invoice = obligation[v].invoice
      BY <3>2 DEF Post, Obligation
    <3>. QED
      BY <3>0, <3>1, <3>3 DEF TypeOK
  <2>2. CASE QueueAdjustment(s)
    <3>0. PICK v \in Versions : v = Target(s) /\ obligation[v] # NoRow
      BY <2>2, TargetIs DEF QueueAdjustment, HasInvoice
    <3>1. PICK x : obligation' = [obligation EXCEPT ![v] = [obligation[v] EXCEPT !.void = x]]
      BY <2>2, <3>0 DEF QueueAdjustment
    <3>2. obligation[v] \in Obligation
      BY <3>0, RowTypes
    <3>3. [obligation[v] EXCEPT !.void = x].invoice = obligation[v].invoice
      BY <3>2 DEF Obligation
    <3>. QED
      BY <3>0, <3>1, <3>3 DEF TypeOK
  <2>3. CASE FinishAdjustment(s)
    BY <2>3 DEF FinishAdjustment
  <2>. QED
    BY <2>1, <2>2, <2>3
<1>. QED
  BY <1>1, <1>2, <1>3 DEF PastDate

LEMMA BillingPastDate ==
  ASSUME ~IntegrationFails, TypeOK, PastDate, NEW s \in Versions,
         StartBilling(s) \/ CreateInvoice(s) \/ LinkInvoice(s) \/ BillingFails(s)
  PROVE  PastDate'
<1>1. UNCHANGED dateReached /\ \A v \in Versions : status'[v] # "pending_invoice"
  BY DEF StartBilling, CreateInvoice, LinkInvoice, BillingFails, PastDate, TypeOK
<1>2. ASSUME NEW v \in Versions, obligation'[v] # NoRow, obligation'[v].invoice = "number"
      PROVE  billing'[v].pc # "idle"
  <2>1. CASE StartBilling(s)
    <3>1. PICK j : j = JobAt(IF obligation[s].invoice = "none" THEN "bill" ELSE "sync",
                             obligation[s].fee)
      OBVIOUS
    <3>2. /\ billing' = [billing EXCEPT ![s] = j] /\ UNCHANGED obligation
          /\ j.pc # "idle"
      BY <2>1, <3>1 DEF StartBilling, JobAt
    <3>. QED
      BY <1>2, <3>2 DEF PastDate, TypeOK
  <2>2. CASE CreateInvoice(s)
    <3>1. /\ billing'[s].pc = "sync"
          /\ \A w \in Versions : w # s => /\ billing'[w] = billing[w]
                                          /\ obligation'[w] = obligation[w]
      BY <2>2 DEF CreateInvoice, SavedObligation, JobAt, TypeOK
    <3>. QED
      BY <1>2, <3>1 DEF PastDate
  <2>3. CASE LinkInvoice(s)
    <3>1. /\ obligation'[s].invoice = "linked"
          /\ \A w \in Versions : w # s => /\ billing'[w] = billing[w]
                                          /\ obligation'[w] = obligation[w]
      BY <2>3 DEF LinkInvoice, SavedObligation, NewObligation, TypeOK
    <3>. QED
      BY <1>2, <3>1 DEF PastDate
  <2>4. ~ BillingFails(s)
    BY DEF BillingFails
  <2>. QED
    BY <2>1, <2>2, <2>3, <2>4
<1>. QED
  BY <1>1, <1>2 DEF PastDate

\* Payments, units, decisions and repeated adjustments change no invoice.
LEMMA BetweenPastDate ==
  ASSUME TypeOK, PastDate, NEW v \in Versions, BetweenSubmissions(v)
  PROVE  PastDate'
<1>1. UNCHANGED <<status, billing, dateReached>>
  BY DEF BetweenSubmissions, Pay, ApplyUnits, Request, Review, Approve, Decline, Decide
<1>2. \A w \in Versions : obligation'[w] # NoRow =>
        obligation[w] # NoRow /\ obligation'[w].invoice = obligation[w].invoice
  <2>1. CASE Pay(v) \/ ApplyUnits(v)
    <3>1. obligation[v] \in Obligation /\ obligation[v] # NoRow
      BY <2>1, RowTypes DEF Pay, ApplyUnits, Unpaid, Rows
    <3>2. PICK r : /\ obligation' = [obligation EXCEPT ![v] = r]
                   /\ r.invoice = obligation[v].invoice
      BY <2>1, <3>1 DEF Pay, ApplyUnits, Obligation
    <3>. QED
      BY <3>1, <3>2 DEF TypeOK
  <2>2. CASE ~ (Pay(v) \/ ApplyUnits(v))
    BY <2>2 DEF BetweenSubmissions, Request, Review, Approve, Decline, Decide
  <2>. QED
    BY <2>1, <2>2
<1>. QED
  BY <1>1, <1>2 DEF PastDate

LEMMA PastDateStep ==
  ASSUME ~IntegrationFails
  PROVE  Chain /\ TypeOK /\ PastDate /\ [Next]_vars => PastDate'
<1>. SUFFICES ASSUME Chain, TypeOK, PastDate, [Next]_vars PROVE PastDate'
  OBVIOUS
<1>1. ASSUME NEW b \in Balance, Submission(b) PROVE PastDate'
  BY <1>1, SubmissionPastDate
<1>2. ASSUME NEW v \in Versions, AfterCommit(v) PROVE PastDate'
  BY <1>2, AdjustmentPastDate, BillingPastDate DEF AfterCommit
<1>3. ASSUME NEW v \in Versions, BetweenSubmissions(v) PROVE PastDate'
  BY <1>3, BetweenPastDate
<1>4. ASSUME NEW a \in queued, RetryAdjustment(a) PROVE PastDate'
  <2>1. /\ a.target \in Versions /\ obligation[a.target] # NoRow
        /\ UNCHANGED <<status, billing, dateReached>>
    BY <1>4 DEF RetryAdjustment, HasInvoice, TypeOK, Adjustment
  <2>2. PICK v \in Versions : v = a.target
    BY <2>1
  <2>3. /\ obligation' = [obligation EXCEPT ![v] = Post(obligation[v], a.amount, a.supp, FALSE)]
        /\ obligation[v] # NoRow /\ obligation[v] \in Obligation
    BY <1>4, <2>1, <2>2, RowTypes DEF RetryAdjustment
  <2>4. Post(obligation[v], a.amount, a.supp, FALSE).invoice = obligation[v].invoice
    BY <2>3 DEF Post, Obligation
  <2>5. \A w \in Versions : obligation'[w] # NoRow =>
          obligation[w] # NoRow /\ obligation'[w].invoice = obligation[w].invoice
    BY <2>3, <2>4 DEF TypeOK
  <2>. QED
    BY <2>1, <2>5 DEF PastDate
<1>5. CASE ReachInvoiceDate
  BY <1>5 DEF ReachInvoiceDate, PastDate
<1>6. CASE UNCHANGED vars
  BY <1>6 DEF vars, PastDate
<1>. QED
  BY <1>1, <1>2, <1>3, <1>4, <1>5, <1>6 DEF Next

\* No adjustment is queued and no decrease was early
Prompt == queued = {} /\ ~early

LEMMA PromptStep ==
  ASSUME ~Interleaved, ~AdjustmentsFail
  PROVE  TypeOK /\ PastDate /\ Prompt /\ [Next]_vars => Prompt'
<1>. SUFFICES ASSUME TypeOK, PastDate, Prompt, [Next]_vars PROVE Prompt'
  OBVIOUS
<1>1. ASSUME NEW b \in Balance, Submission(b) PROVE Prompt'
  <2>1. CASE DecreasedObligation(b)
    <3>1. Submit(b) /\ UNCHANGED queued
      BY <2>1 DEF DecreasedObligation, Supplementary, Unbilled
    <3>2. AllBilled
      BY <3>1, PastDateLinks DEF AllLinked, AllBilled, Prompt
    <3>3. early' = (early \/ ~AllBilled)
      BY <2>1 DEF DecreasedObligation
    <3>4. ~early'
      BY <3>2, <3>3, Zenon DEF Prompt
    <3>. QED
      BY <3>1, <3>4 DEF Prompt
  <2>2. CASE ~ DecreasedObligation(b)
    BY <1>1, <2>2
       DEF Prompt, Submission, InitialVersion, Manual, Supercede, IncreasedObligation, NoChange,
           IncreasedCredit, DecreasedCredit, NewEarnedCredits, NoHandler, Unbilled
  <2>. QED
    BY <2>1, <2>2
<1>2. ASSUME NEW v \in Versions, AfterCommit(v) PROVE Prompt'
  BY <1>2 DEF Prompt, AfterCommit, AdjustInvoice, QueueAdjustment, FinishAdjustment, Settle,
              StartBilling, CreateInvoice, LinkInvoice, BillingFails
<1>3. ASSUME NEW v \in Versions, BetweenSubmissions(v) PROVE Prompt'
  BY <1>3 DEF Prompt, BetweenSubmissions, Pay, ApplyUnits, Request, Review, Approve, Decline,
              Decide
<1>4. ~ \E a \in queued : RetryAdjustment(a)
  BY DEF Prompt
<1>5. CASE ReachInvoiceDate
  BY <1>5 DEF ReachInvoiceDate, Prompt
<1>6. CASE UNCHANGED vars
  BY <1>6 DEF vars, Prompt
<1>. QED
  BY <1>1, <1>2, <1>3, <1>4, <1>5, <1>6 DEF Next

\* With calls that never fail, submissions past the date find every obligation
\* invoiced, so that no decrease is early: the report is billed in full, with no
\* condition but those on the constants.
THEOREM BilledInFullPastDate ==
  ASSUME ~Interleaved, ~AdjustmentsFail, ~IntegrationFails
  PROVE  Spec /\ dateReached => []BilledInFull
<1>1. Init /\ dateReached => PastDate /\ Prompt
  <2>. SUFFICES ASSUME Init, dateReached PROVE PastDate /\ Prompt
    OBVIOUS
  <2>1. \A v \in Versions : status[v] = NoRow /\ obligation[v] = NoRow
    BY DEF Init
  <2>2. NoRow # "pending_invoice"
    BY NoRowAssumption DEF ComplianceStatus
  <2>3. queued = {} /\ ~early
    BY DEF Init
  <2>. QED
    BY <2>1, <2>2, <2>3 DEF PastDate, Prompt
<1>2. Chain /\ TypeOK /\ PastDate /\ [Next]_vars => PastDate'
  BY PastDateStep
<1>3. TypeOK /\ PastDate /\ Prompt /\ [Next]_vars => Prompt'
  BY PromptStep
<1>4. Prompt /\ NeverUnderBilled => BilledInFull
  BY DEF Prompt, NeverUnderBilled
<1>5. Spec => []Chain
  BY ChainHolds
<1>6. Spec => []TypeOK
  BY TypesHold
<1>7. Spec => []NeverUnderBilled
  BY NeverUnderBilledHolds
<1>. QED
  BY <1>1, <1>2, <1>3, <1>4, <1>5, <1>6, <1>7, PTL DEF Spec
=============================================================================
