-------------------------- MODULE EarnedCredits_proofs --------------------------
(***************************************************************************)
(* Proofs about EarnedCredits, for every number of requests and every      *)
(* bound.  What a request may do with its copy of the record depends on    *)
(* where it stands: CopyOK says what its copy still shows at each step,    *)
(* RowOK what the row itself shows of the registry.  Together with the     *)
(* types they are inductive (Invariance).  ReviewInv adds that what is     *)
(* approved was reviewed, and OneDirectorInv, for a single director, what  *)
(* has been issued, recorded and sent again.                               *)
(***************************************************************************)
EXTENDS EarnedCredits, TLAPS

Approval == {"project", "saving_project", "issuing", "saving_issuance"}

\* What the copy of a request q shows, given the issuances of the registry
CopyOK(q, issuances) ==
  /\ q.pc \notin {"idle", "done"} => q.read \in EarnedCredit
  /\ q.read # None /\ q.read.issuance # 0 => issuances # <<>>
  /\ q.pc = "checking" => /\ q.input \in Account
                          /\ q.read.status \in {"not_issued", "changes_required"}
  /\ q.pc = "reviewing" => /\ q.input \in Suggestions
                           /\ q.read.status \in {"requested", "changes_required"}
  /\ q.pc \in Approval => /\ q.input = "approved"
                          /\ q.read.status = "requested"
                          /\ q.read.account \in Account
  /\ q.pc = "saving_issuance" => q.read.issuance # 0
  /\ q.pc = "deciding" => /\ q.input \in Final
                          /\ q.read.status = "requested"
                          /\ q.input = "approved" => issuances # <<>>
  /\ q.pc \in {"amending", "superceding"} => q.read.status = "not_issued"
  /\ q.pc = "withdrawing" => q.read.status # "approved"

\* What the row shows of the registry
RowOK(record, issuances) ==
  record # None /\ (record.issuance # 0 \/ record.status = "approved") => issuances # <<>>

Inv == /\ TypeOK
       /\ \A u \in Users : CopyOK(request[u], issued)
       /\ RowOK(row, issued)

-----------------------------------------------------------------------------
(* Lemmas *)

\* A step that gives one request a new state, and forgets no issuance
LEMMA OneRequest ==
  ASSUME Inv, NEW u \in Users, NEW q \in Request,
         request' = [request EXCEPT ![u] = q],
         CopyOK(q, issued'),
         issued # <<>> => issued' # <<>>
  PROVE  /\ request' \in [Users -> Request]
         /\ \A w \in Users : CopyOK(request'[w], issued')
<1>1. request' \in [Users -> Request]
  BY DEF Inv, TypeOK
<1>2. SUFFICES ASSUME NEW w \in Users PROVE CopyOK(request'[w], issued')
  BY <1>1
<1>3. CASE w = u
  BY <1>3 DEF Inv, TypeOK
<1>4. CASE w # u
  <2>1. request'[w] = request[w] /\ CopyOK(request[w], issued)
    BY <1>4 DEF Inv, TypeOK
  <2> QED
    BY <2>1 DEF CopyOK
<1> QED
  BY <1>3, <1>4

\* What stands in the state of a request
LEMMA RequestParts ==
  ASSUME Inv, NEW u \in Users
  PROVE  /\ request[u] \in Request
         /\ CopyOK(request[u], issued)
         /\ request[u].pc \notin {"idle", "done"} => Copy(u) \in EarnedCredit /\ Copy(u) # None
BY NoneAssumption DEF Inv, TypeOK, CopyOK, Copy

LEMMA IdleOK == Idle \in Request /\ \A s : CopyOK(Idle, s)
BY DEF Idle, RequestAt, Request, CopyOK, Steps, Inputs, Suggestions, Approval

\* A request that ends
LEMMA EndsOK ==
  ASSUME Inv, NEW u \in Users, Ends(u), issued # <<>> => issued' # <<>>
  PROVE  /\ request' \in [Users -> Request]
         /\ \A w \in Users : CopyOK(request'[w], issued')
BY OneRequest, IdleOK DEF Ends

LEMMA NoteStaleOK ==
  ASSUME TypeOK, NEW u \in Users, NoteStale(u)
  PROVE  excused' \subseteq {"stale", "lost", "undecided"}
BY DEF TypeOK, NoteStale

LEMMA NoteLostOK ==
  ASSUME TypeOK, NEW u \in Users, NoteLost(u)
  PROVE  excused' \subseteq {"stale", "lost", "undecided"}
BY DEF TypeOK, NoteLost

-----------------------------------------------------------------------------
(* One lemma per action *)

LEMMA InitOK == Init => Inv
<1> SUFFICES ASSUME Init PROVE Inv
  OBVIOUS
<1>1. NewRecord \in EarnedCredit /\ NewRecord.issuance = 0 /\ NewRecord.status = "not_issued"
  BY AmountAssumption DEF NewRecord, EarnedCredit, IssuanceStatus, Suggestions
<1>2. TypeOK
  BY <1>1, IdleOK DEF Init, TypeOK
<1>3. \A u \in Users : CopyOK(request[u], issued)
  BY IdleOK DEF Init
<1>4. RowOK(row, issued)
  BY <1>1 DEF Init, RowOK
<1> QED
  BY <1>2, <1>3, <1>4 DEF Inv

\* A request that reads the row, at a step whose condition the row meets
LEMMA ReadsOK ==
  ASSUME Inv, NEW u \in Users, NEW pc \in Steps, NEW input \in Inputs,
         Reads(u, pc, input),
         CopyOK(RequestAt(pc, row, input), issued)
  PROVE  Inv'
<1>1. RequestAt(pc, row, input) \in Request
  BY DEF Inv, TypeOK, RequestAt, Request, Reads
<1>2. /\ request' = [request EXCEPT ![u] = RequestAt(pc, row, input)]
      /\ UNCHANGED <<row, issued, reviewed, excused>>
  BY DEF Reads
<1>3. /\ request' \in [Users -> Request]
      /\ \A w \in Users : CopyOK(request'[w], issued')
  BY <1>1, <1>2, OneRequest
<1> QED
  BY <1>2, <1>3 DEF Inv, TypeOK, RowOK

LEMMA IndustryReadsOK ==
  ASSUME Inv, NEW u \in Users, NEW account \in Account, IndustryReads(u, account)
  PROVE  Inv'
<1>1. CopyOK(RequestAt("checking", row, account), issued)
  BY DEF Inv, TypeOK, RowOK, IndustryReads, CopyOK, RequestAt, Approval
<1> QED
  BY <1>1, ReadsOK DEF IndustryReads, Steps, Inputs

LEMMA AnalystReadsOK ==
  ASSUME Inv, NEW u \in Users, NEW suggestion \in Suggestions, AnalystReads(u, suggestion)
  PROVE  Inv'
<1>1. CopyOK(RequestAt("reviewing", row, suggestion), issued)
  BY DEF Inv, TypeOK, RowOK, AnalystReads, CopyOK, RequestAt, Approval
<1> QED
  BY <1>1, ReadsOK DEF AnalystReads, Steps, Inputs

LEMMA DirectorReadsOK ==
  ASSUME Inv, NEW u \in Users, NEW decision \in Final, DirectorReads(u, decision)
  PROVE  Inv'
<1>1. row \in EarnedCredit /\ row.status = "requested" /\ row.account \in Account
  BY DEF Inv, TypeOK, DirectorReads, EarnedCredit
<1>2. CASE decision = "approved"
  <2>1. CopyOK(RequestAt("project", row, decision), issued)
    BY <1>1, <1>2 DEF Inv, RowOK, CopyOK, RequestAt, Approval
  <2> QED
    BY <2>1, <1>2, ReadsOK DEF DirectorReads, Steps, Inputs
<1>3. CASE decision # "approved"
  <2>1. CopyOK(RequestAt("deciding", row, decision), issued)
    BY <1>1, <1>3 DEF Inv, RowOK, CopyOK, RequestAt, Approval
  <2> QED
    BY <2>1, <1>3, ReadsOK DEF DirectorReads, Steps, Inputs
<1> QED
  BY <1>2, <1>3

LEMMA SubmissionReadsOK ==
  ASSUME Inv, NEW u \in Users, Amends(u) \/ Withdraws(u) \/ Supercedes(u)
  PROVE  Inv'
<1>1. ASSUME NEW pc \in {"amending", "superceding"}, SubmissionReads(u, pc, {"not_issued"})
      PROVE  Inv'
  <2>1. CopyOK(RequestAt(pc, row, None), issued)
    BY <1>1 DEF Inv, TypeOK, RowOK, SubmissionReads, CopyOK, RequestAt, Approval
  <2> QED
    BY <2>1, <1>1, ReadsOK DEF SubmissionReads, Steps, Inputs, Suggestions
<1>2. CASE Withdraws(u)
  <2>1. CopyOK(RequestAt("withdrawing", row, None), issued)
    BY <1>2 DEF Inv, TypeOK, RowOK, Withdraws, SubmissionReads, CopyOK, RequestAt, Approval
  <2> QED
    BY <2>1, <1>2, ReadsOK DEF Withdraws, SubmissionReads, Steps, Inputs, Suggestions
<1> QED
  BY <1>1, <1>2 DEF Amends, Supercedes

LEMMA IndustrySavesOK ==
  ASSUME Inv, NEW u \in Users, IndustrySaves(u)
  PROVE  Inv'
<1>1. row \in EarnedCredit /\ Input(u) \in Account
  BY RequestParts DEF Inv, TypeOK, IndustrySaves, CopyOK, At, Input
<1>2. row' \in EarnedCredit /\ RowOK(row', issued')
  BY <1>1 DEF Inv, RowOK, IndustrySaves, EarnedCredit, IssuanceStatus
<1> QED
  BY <1>2, EndsOK, NoteStaleOK DEF IndustrySaves, Inv, TypeOK

LEMMA AnalystSavesOK ==
  ASSUME Inv, NEW u \in Users, AnalystSaves(u)
  PROVE  Inv'
<1>1. /\ row \in EarnedCredit /\ Input(u) \in Suggestions
      /\ Copy(u) \in EarnedCredit /\ Copy(u).status \in {"requested", "changes_required"}
  BY RequestParts DEF Inv, TypeOK, AnalystSaves, CopyOK, At, Input, Copy
<1>2. StatusAfter(Input(u), Copy(u).status) \in IssuanceStatus \ {"approved"}
  BY <1>1 DEF StatusAfter, IssuanceStatus
<1>3. row' \in EarnedCredit /\ RowOK(row', issued')
  BY <1>1, <1>2 DEF Inv, RowOK, AnalystSaves, EarnedCredit
<1>4. reviewed' \in Account \cup {None}
  BY <1>1 DEF Inv, TypeOK, AnalystSaves, EarnedCredit
<1> QED
  BY <1>3, <1>4, EndsOK, NoteStaleOK DEF AnalystSaves, Inv, TypeOK

\* The steps of an approval that leave the row alone
LEMMA ApprovalStepsOK ==
  ASSUME Inv, NEW u \in Users, FetchProject(u) \/ CreateProject(u) \/ SkipIssuance(u)
  PROVE  Inv'
<1> DEFINE q(pc) == [request[u] EXCEPT !.pc = pc]
<1>1. PICK pc \in {"issuing", "saving_project", "deciding"} :
        /\ request' = [request EXCEPT ![u] = q(pc)]
        /\ request[u].pc \in Approval
        /\ pc = "deciding" => Copy(u).issuance # 0
        /\ UNCHANGED <<row, issued, reviewed, excused>>
  BY DEF FetchProject, CreateProject, SkipIssuance, At, Approval
<1>2. q(pc) \in Request /\ CopyOK(q(pc), issued)
  BY <1>1, RequestParts DEF Request, CopyOK, Steps, Approval, Copy, Final
<1>3. /\ request' \in [Users -> Request]
      /\ \A w \in Users : CopyOK(request'[w], issued')
  BY <1>1, <1>2, OneRequest
<1> QED
  BY <1>1, <1>3 DEF Inv, TypeOK, RowOK

LEMMA SaveProjectOK ==
  ASSUME Inv, NEW u \in Users, SaveProject(u)
  PROVE  Inv'
<1> DEFINE copy == [Copy(u) EXCEPT !.project = Copy(u).account]
           q == RequestAt("issuing", copy, Input(u))
<1>1. /\ row \in EarnedCredit /\ Copy(u) \in EarnedCredit /\ Copy(u).account \in Account
      /\ Copy(u).status = "requested" /\ Input(u) = "approved"
      /\ Copy(u).issuance # 0 => issued # <<>>
  BY RequestParts DEF Inv, TypeOK, SaveProject, CopyOK, At, Copy, Input, Approval
<1>2. row' \in EarnedCredit /\ RowOK(row', issued')
  BY <1>1 DEF Inv, RowOK, SaveProject, EarnedCredit
<1>3. copy \in EarnedCredit /\ copy.status = "requested" /\ copy.account \in Account
      /\ copy.issuance = Copy(u).issuance
  BY <1>1 DEF EarnedCredit
<1>4. q \in Request /\ CopyOK(q, issued)
  BY <1>1, <1>3 DEF RequestAt, Request, CopyOK, Steps, Approval, Inputs, Final
<1>5. /\ request' \in [Users -> Request]
      /\ \A w \in Users : CopyOK(request'[w], issued')
  BY <1>4, OneRequest DEF SaveProject
<1> QED
  BY <1>2, <1>5, NoteStaleOK DEF SaveProject, Inv, TypeOK

LEMMA IssueCreditsOK ==
  ASSUME Inv, NEW u \in Users, IssueCredits(u)
  PROVE  Inv'
<1> DEFINE copy == [Copy(u) EXCEPT !.issuance = Len(issued) + 1]
           q == RequestAt("saving_issuance", copy, Input(u))
           e == [account |-> Copy(u).account, amount |-> Copy(u).amount]
<1>1. /\ Copy(u) \in EarnedCredit /\ Copy(u).account \in Account
      /\ Copy(u).status = "requested" /\ Input(u) = "approved"
  BY RequestParts DEF IssueCredits, CopyOK, At, Copy, Input, Approval
<1>2. issued' \in Seq([account : Account \cup {None}, amount : Nat]) /\ issued' # <<>>
  <2>1. e \in [account : Account \cup {None}, amount : Nat]
    BY <1>1 DEF EarnedCredit
  <2> QED
    BY <2>1 DEF IssueCredits, Inv, TypeOK
<1>3. Len(issued) \in Nat
  BY DEF Inv, TypeOK
<1>4. /\ copy \in EarnedCredit /\ copy.status = "requested" /\ copy.account \in Account
      /\ copy.issuance # 0
  BY <1>1, <1>3 DEF EarnedCredit
<1>5. q \in Request /\ CopyOK(q, issued')
  BY <1>1, <1>2, <1>4 DEF RequestAt, Request, CopyOK, Steps, Approval, Inputs, Final
<1>6. /\ request' \in [Users -> Request]
      /\ \A w \in Users : CopyOK(request'[w], issued')
  BY <1>2, <1>5, OneRequest DEF IssueCredits
<1> QED
  BY <1>2, <1>6 DEF IssueCredits, Inv, TypeOK, RowOK

LEMMA SaveIssuanceOK ==
  ASSUME Inv, NEW u \in Users, SaveIssuance(u)
  PROVE  Inv'
<1> DEFINE q == [request[u] EXCEPT !.pc = "deciding"]
<1>1. /\ row \in EarnedCredit /\ Copy(u) \in EarnedCredit /\ Copy(u).issuance # 0
      /\ request[u] \in Request /\ request[u].input = "approved"
      /\ Copy(u).status = "requested" /\ issued # <<>>
  BY RequestParts DEF Inv, TypeOK, SaveIssuance, CopyOK, At, Copy, Approval
<1>2. row' \in EarnedCredit /\ RowOK(row', issued')
  BY <1>1 DEF SaveIssuance, RowOK, EarnedCredit
<1>3. q \in Request /\ CopyOK(q, issued)
  BY <1>1 DEF Request, CopyOK, Steps, Approval, Copy, Final
<1>4. /\ request' \in [Users -> Request]
      /\ \A w \in Users : CopyOK(request'[w], issued')
  BY <1>3, OneRequest DEF SaveIssuance
<1>5. excused' \subseteq {"stale", "lost", "undecided"}
  BY DEF SaveIssuance, Inv, TypeOK
<1> QED
  BY <1>2, <1>4, <1>5 DEF SaveIssuance, Inv, TypeOK

LEMMA SaveDecisionOK ==
  ASSUME Inv, NEW u \in Users, SaveDecision(u)
  PROVE  Inv'
<1>1. /\ row \in EarnedCredit /\ Input(u) \in Final
      /\ Input(u) = "approved" => issued # <<>>
  BY RequestParts DEF Inv, TypeOK, SaveDecision, CopyOK, At, Input
<1>2. row' \in EarnedCredit /\ RowOK(row', issued')
  BY <1>1 DEF Inv, SaveDecision, RowOK, EarnedCredit, IssuanceStatus, Final
<1> QED
  BY <1>2, EndsOK, NoteStaleOK DEF SaveDecision, Inv, TypeOK

\* A submission that writes its copy, or nothing, over the row
LEMMA SubmittedOK ==
  ASSUME Inv, NEW u \in Users, NEW new \in EarnedCredit \cup {None},
         Submitted(u, new), RowOK(new, issued)
  PROVE  Inv'
<1> DEFINE q == RequestAt("done", None, None)
<1>1. q \in Request /\ CopyOK(q, issued)
  BY DEF RequestAt, Request, CopyOK, Steps, Inputs, Suggestions, Approval
<1>2. /\ request' \in [Users -> Request]
      /\ \A w \in Users : CopyOK(request'[w], issued')
  BY <1>1, OneRequest DEF Submitted
<1> QED
  BY <1>2, NoteStaleOK DEF Submitted, Inv, TypeOK

LEMMA SubmissionSavesOK ==
  ASSUME Inv, NEW u \in Users,
         (\E delta \in Delta : SaveAmended(u, delta)) \/ SaveWithdrawn(u) \/ DeleteRecord(u)
  PROVE  Inv'
<1>1. ASSUME NEW delta \in Delta, SaveAmended(u, delta) PROVE Inv'
  <2> DEFINE new == [Copy(u) EXCEPT !.amount = Copy(u).amount + delta]
  <2>1. /\ Copy(u) \in EarnedCredit /\ Copy(u).status = "not_issued"
        /\ Copy(u).issuance # 0 => issued # <<>>
    BY <1>1, RequestParts DEF SaveAmended, CopyOK, At, Copy
  <2>2. Copy(u).amount + delta \in Nat
    BY <1>1, <2>1, AmountAssumption DEF SaveAmended, EarnedCredit
  <2>3. new \in EarnedCredit /\ RowOK(new, issued)
    BY <2>1, <2>2 DEF EarnedCredit, RowOK
  <2> QED
    BY <1>1, <2>3, SubmittedOK DEF SaveAmended
<1>2. CASE SaveWithdrawn(u)
  <2> DEFINE new == [Copy(u) EXCEPT !.status = "declined"]
  <2>1. /\ Copy(u) \in EarnedCredit
        /\ Copy(u).issuance # 0 => issued # <<>>
    BY <1>2, RequestParts DEF SaveWithdrawn, CopyOK, At, Copy
  <2>2. new \in EarnedCredit /\ RowOK(new, issued)
    BY <2>1 DEF EarnedCredit, RowOK, IssuanceStatus
  <2> QED
    BY <1>2, <2>2, SubmittedOK DEF SaveWithdrawn
<1>3. CASE DeleteRecord(u)
  BY <1>3, SubmittedOK DEF DeleteRecord, RowOK
<1> QED
  BY <1>1, <1>2, <1>3

\* A request that is refused, fails or dies
LEMMA EndingsOK ==
  ASSUME Inv, NEW u \in Users, SaveRefused(u) \/ CallFails(u) \/ Crash(u)
  PROVE  Inv'
<1>1. CASE SaveRefused(u) \/ Crash(u)
  BY <1>1, EndsOK, NoteLostOK DEF SaveRefused, Crash, Inv, TypeOK, RowOK
<1>2. CASE CallFails(u)
  BY <1>2, EndsOK DEF CallFails, Inv, TypeOK, RowOK
<1> QED
  BY <1>1, <1>2

LEMMA StutterOK == ASSUME Inv, UNCHANGED vars PROVE Inv'
BY DEF Inv, TypeOK, CopyOK, RowOK, vars

-----------------------------------------------------------------------------
(* The invariant, and what follows from it *)

LEMMA NextOK == ASSUME Inv, [Next]_vars PROVE Inv'
<1>1. ASSUME NEW u \in Industry, IndustryNext(u) PROVE Inv'
  BY <1>1, IndustryReadsOK, IndustrySavesOK DEF IndustryNext, Users
<1>2. ASSUME NEW u \in Analyst, AnalystNext(u) PROVE Inv'
  BY <1>2, AnalystReadsOK, AnalystSavesOK DEF AnalystNext, Users
<1>3. ASSUME NEW u \in Director, DirectorNext(u) PROVE Inv'
  BY <1>3, DirectorReadsOK, ApprovalStepsOK, SaveProjectOK, IssueCreditsOK,
     SaveIssuanceOK, SaveDecisionOK DEF DirectorNext, Users
<1>4. ASSUME NEW u \in Submission, SubmissionNext(u) PROVE Inv'
  BY <1>4, SubmissionReadsOK, SubmissionSavesOK DEF SubmissionNext, Users
<1>5. ASSUME NEW u \in Users, SaveRefused(u) \/ CallFails(u) \/ Crash(u) PROVE Inv'
  BY <1>5, EndingsOK
<1> QED
  BY <1>1, <1>2, <1>3, <1>4, <1>5, StutterOK DEF Next

\* The inductive invariant holds in every reachable state
THEOREM Invariance == Spec => []Inv
<1>1. Init => Inv
  BY InitOK
<1>2. Inv /\ [Next]_vars => Inv'
  BY NextOK
<1> QED
  BY <1>1, <1>2, PTL DEF Spec

\* Every variable keeps its type, whatever requests and submissions interleave
THEOREM TypeCorrectness == Spec => []TypeOK
<1>1. Inv => TypeOK
  BY DEF Inv
<1> QED
  BY <1>1, Invariance, PTL

\* "This status means the credits have been issued in BCCR": SaveDecision writes
\* approved only when the copy it decides on shows an issuance
THEOREM ApprovedIsIssuedHolds == Spec => []ApprovedIsIssued
<1>1. Inv => ApprovedIsIssued
  BY DEF Inv, RowOK, ApprovedIsIssued, Approved
<1> QED
  BY <1>1, Invariance, PTL

\* A save whose copy shows a status that is not final, on a row whose status is
\* final, is a save that met a newer row
LEMMA StaleSave ==
  ASSUME Inv, NEW u \in Users, NoteStale(u),
         Copy(u).status \notin Final, row.status \in Final
  PROVE  "stale" \in excused'
BY DEF NoteStale

FinalStep == row # None /\ row.status \in Final =>
               \/ row' # None /\ row'.status = row.status
               \/ "stale" \in excused'

LEMMA FinalStepOK == ASSUME Inv, [Next]_vars PROVE FinalStep
<1> SUFFICES ASSUME row # None, row.status \in Final
             PROVE  \/ row' # None /\ row'.status = row.status
                    \/ "stale" \in excused'
  BY DEF FinalStep
<1>1. row \in EarnedCredit
  BY DEF Inv, TypeOK
<1>2. CASE UNCHANGED row
  BY <1>2
<1>3. ASSUME NEW u \in Users, IndustrySaves(u) \/ AnalystSaves(u) \/ SaveDecision(u)
      PROVE  "stale" \in excused'
  <2>1. Copy(u).status \notin Final
    BY <1>3, RequestParts DEF IndustrySaves, AnalystSaves, SaveDecision, CopyOK, At, Copy, Final
  <2> QED
    BY <1>3, <2>1, StaleSave DEF IndustrySaves, AnalystSaves, SaveDecision
<1>4. ASSUME NEW u \in Users, SaveProject(u) \/ SaveIssuance(u)
      PROVE  row' # None /\ row'.status = row.status
  <2>1. row' \in EarnedCredit /\ row'.status = row.status
    <3>1. /\ Copy(u).account \in Account \cup {None} /\ Copy(u).issuance \in Nat
      BY <1>4, RequestParts DEF SaveProject, SaveIssuance, At, EarnedCredit
    <3> QED
      BY <1>1, <1>4, <3>1 DEF SaveProject, SaveIssuance, EarnedCredit
  <2> QED
    BY <2>1, NoneAssumption
<1>5. ASSUME NEW u \in Users, (\E delta \in Delta : SaveAmended(u, delta)) \/ DeleteRecord(u)
      PROVE  "stale" \in excused'
  <2>1. Copy(u).status \notin Final /\ NoteStale(u)
    BY <1>5, RequestParts DEF SaveAmended, DeleteRecord, Submitted, CopyOK, At, Copy, Final
  <2> QED
    BY <2>1, StaleSave
<1>6. ASSUME NEW u \in Users, SaveWithdrawn(u)
      PROVE  \/ row' # None /\ row'.status = row.status
             \/ "stale" \in excused'
  <2>1. /\ Copy(u) \in EarnedCredit /\ Copy(u).status # "approved"
        /\ row' = [Copy(u) EXCEPT !.status = "declined"] /\ NoteStale(u)
    BY <1>6, RequestParts DEF SaveWithdrawn, Submitted, CopyOK, At, Copy
  <2>2. CASE row = Copy(u)
    <3>1. row' \in EarnedCredit /\ row'.status = "declined" /\ row.status = "declined"
      BY <2>1, <2>2 DEF EarnedCredit, IssuanceStatus, Final
    <3> QED
      BY <3>1, NoneAssumption
  <2>3. CASE row # Copy(u)
    BY <2>1, <2>3 DEF NoteStale
  <2> QED
    BY <2>2, <2>3
<1>7. CASE UNCHANGED vars
  BY <1>2, <1>7 DEF vars
<1>8. CASE Next
  <2>1. ASSUME NEW u \in Industry, IndustryNext(u), row' # row
        PROVE  IndustrySaves(u) /\ u \in Users
    BY <2>1 DEF IndustryNext, IndustryReads, Reads, Users
  <2>2. ASSUME NEW u \in Analyst, AnalystNext(u), row' # row
        PROVE  AnalystSaves(u) /\ u \in Users
    BY <2>2 DEF AnalystNext, AnalystReads, Reads, Users
  <2>3. ASSUME NEW u \in Director, DirectorNext(u), row' # row
        PROVE  (SaveProject(u) \/ SaveIssuance(u) \/ SaveDecision(u)) /\ u \in Users
    BY <2>3 DEF DirectorNext, DirectorReads, Reads, FetchProject, CreateProject,
                SkipIssuance, IssueCredits, Users
  <2>4. ASSUME NEW u \in Submission, SubmissionNext(u), row' # row
        PROVE  /\ u \in Users
               /\ \/ \E delta \in Delta : SaveAmended(u, delta)
                  \/ SaveWithdrawn(u) \/ DeleteRecord(u)
    BY <2>4 DEF SubmissionNext, Amends, Withdraws, Supercedes, SubmissionReads, Reads, Users
  <2>5. ASSUME NEW u \in Users, SaveRefused(u) \/ CallFails(u) \/ Crash(u)
        PROVE  row' = row
    BY <2>5 DEF SaveRefused, CallFails, Crash
  <2> QED
    BY <1>2, <1>3, <1>4, <1>5, <1>6, <1>8, <2>1, <2>2, <2>3, <2>4, <2>5 DEF Next
<1> QED
  BY <1>7, <1>8

\* No request reopens or overturns a decision except by a save of an old copy:
\* every role tests the status on the copy it saves from
THEOREM FinalStaysHolds == Spec => FinalStays
<1>1. Inv /\ [Next]_vars => [FinalStep]_vars
  BY FinalStepOK
<1>2. FinalStays <=> [][FinalStep]_vars
  BY PTL DEF FinalStays, FinalStep
<1> QED
  BY <1>1, <1>2, Invariance, PTL DEF Spec

-----------------------------------------------------------------------------
(* What a decision rests on: the director's copy shows the review, and the   *)
(* row keeps the account that was reviewed                                   *)

Deciding == Approval \cup {"deciding"}

\* Only a director decides, on a copy that the analyst found ready
DirectorsOK ==
  \A u \in Users : request[u].pc \in Deciding =>
    u \in Director /\ Copy(u).suggestion = "ready"

\* While no save met a newer row, a row found ready still has the account that
\* was reviewed, and only such a row is approved
ReviewOK ==
  row # None /\ "stale" \notin excused =>
    /\ row.suggestion = "ready" => /\ row.status \in {"requested", "approved", "declined"}
                                   /\ row.account = reviewed
    /\ row.status = "approved" => row.suggestion = "ready"

\* The one request that a step moves
Moves(u, q) == request' = [request EXCEPT ![u] = q]

LEMMA MovesOne ==
  ASSUME Inv, NEW u \in Users, NEW q, Moves(u, q)
  PROVE  request'[u] = q /\ \A w \in Users : w # u => request'[w] = request[w]
BY DEF Inv, TypeOK, Moves

\* A request reads the row; a director only one that was found ready
ReadStep(u) ==
  \E pc \in Steps, input \in Inputs :
    /\ Reads(u, pc, input)
    /\ pc \in Deciding => /\ u \in Director
                          /\ row.status = "requested" /\ row.suggestion = "ready"
                          /\ pc = "project" \/ (pc = "deciding" /\ input # "approved")

\* An approval goes on without touching the row
ApprovalStep(u) == FetchProject(u) \/ CreateProject(u) \/ SkipIssuance(u) \/ IssueCredits(u)

\* A role saves the fields it changed
SaveStep(u) ==
  IndustrySaves(u) \/ AnalystSaves(u) \/ SaveProject(u) \/ SaveIssuance(u) \/ SaveDecision(u)

\* A submission saves its copy or deletes the row
SubmissionStep(u) ==
  (\E delta \in Delta : SaveAmended(u, delta)) \/ SaveWithdrawn(u) \/ DeleteRecord(u)

\* A request ends without a save
EndStep(u) == SaveRefused(u) \/ CallFails(u) \/ Crash(u)

LEMMA ReadSteps ==
  ASSUME NEW u \in Users,
         \/ \E account \in Account : IndustryReads(u, account)
         \/ \E suggestion \in Suggestions : AnalystReads(u, suggestion)
         \/ u \in Director /\ \E decision \in Final : DirectorReads(u, decision)
         \/ Amends(u) \/ Withdraws(u) \/ Supercedes(u)
  PROVE  ReadStep(u)
<1> USE DEF ReadStep, Deciding, Approval, Steps, Inputs
<1>1. ASSUME NEW account \in Account, IndustryReads(u, account) PROVE ReadStep(u)
  BY <1>1 DEF IndustryReads
<1>2. ASSUME NEW suggestion \in Suggestions, AnalystReads(u, suggestion) PROVE ReadStep(u)
  BY <1>2 DEF AnalystReads
<1>3. ASSUME u \in Director, NEW decision \in Final, DirectorReads(u, decision)
      PROVE  ReadStep(u)
  BY <1>3 DEF DirectorReads
<1>4. CASE Amends(u) \/ Withdraws(u) \/ Supercedes(u)
  BY <1>4 DEF Amends, Withdraws, Supercedes, SubmissionReads, Suggestions
<1> QED
  BY <1>1, <1>2, <1>3, <1>4

\* Every step is one of these, of some request
LEMMA StepKinds ==
  ASSUME Next
  PROVE  \E u \in Users : \/ ReadStep(u) \/ ApprovalStep(u) \/ SaveStep(u)
                          \/ SubmissionStep(u) \/ EndStep(u)
<1>1. ASSUME NEW u \in Industry, IndustryNext(u)
      PROVE  u \in Users /\ (ReadStep(u) \/ SaveStep(u))
  BY <1>1, ReadSteps DEF IndustryNext, SaveStep, Users
<1>2. ASSUME NEW u \in Analyst, AnalystNext(u)
      PROVE  u \in Users /\ (ReadStep(u) \/ SaveStep(u))
  BY <1>2, ReadSteps DEF AnalystNext, SaveStep, Users
<1>3. ASSUME NEW u \in Director, DirectorNext(u)
      PROVE  u \in Users /\ (ReadStep(u) \/ ApprovalStep(u) \/ SaveStep(u))
  BY <1>3, ReadSteps DEF DirectorNext, ApprovalStep, SaveStep, Users
<1>4. ASSUME NEW u \in Submission, SubmissionNext(u)
      PROVE  u \in Users /\ (ReadStep(u) \/ SubmissionStep(u))
  BY <1>4, ReadSteps DEF SubmissionNext, SubmissionStep, Users
<1> QED
  BY <1>1, <1>2, <1>3, <1>4 DEF Next, EndStep

\* What was excused stays excused
LEMMA ExcusedGrows ==
  ASSUME NEW u \in Users,
         ReadStep(u) \/ ApprovalStep(u) \/ SaveStep(u) \/ SubmissionStep(u) \/ EndStep(u)
  PROVE  excused \subseteq excused'
<1>1. CASE ReadStep(u) \/ ApprovalStep(u)
  BY <1>1 DEF ReadStep, Reads, ApprovalStep, FetchProject, CreateProject, SkipIssuance, IssueCredits
<1>2. CASE SaveStep(u)
  BY <1>2 DEF SaveStep, IndustrySaves, AnalystSaves, SaveProject, SaveIssuance, SaveDecision, NoteStale
<1>3. CASE SubmissionStep(u)
  BY <1>3 DEF SubmissionStep, SaveAmended, SaveWithdrawn, DeleteRecord, Submitted, NoteStale
<1>4. CASE EndStep(u)
  BY <1>4 DEF EndStep, SaveRefused, CallFails, Crash, NoteLost
<1> QED
  BY <1>1, <1>2, <1>3, <1>4

LEMMA DirectorsKept ==
  ASSUME Inv, DirectorsOK, NEW u \in Users,
         ReadStep(u) \/ ApprovalStep(u) \/ SaveStep(u) \/ SubmissionStep(u) \/ EndStep(u)
  PROVE  DirectorsOK'
<1>1. SUFFICES ASSUME NEW q, Moves(u, q)
               PROVE  q.pc \in Deciding => u \in Director /\ q.read.suggestion = "ready"
  <2>1. \E q : Moves(u, q)
    BY DEF ReadStep, Reads, ApprovalStep, FetchProject, CreateProject, SkipIssuance, IssueCredits,
           SaveStep, IndustrySaves, AnalystSaves, SaveProject, SaveIssuance, SaveDecision,
           SubmissionStep, SaveAmended, SaveWithdrawn, DeleteRecord, Submitted,
           EndStep, SaveRefused, CallFails, Crash, Ends, Moves
  <2> QED
    BY <1>1, <2>1, MovesOne DEF DirectorsOK, Copy
<1>2. q = request'[u] /\ request[u] \in Request
  BY <1>1, MovesOne, RequestParts
<1>3. CASE ReadStep(u)
  <2>1. PICK pc \in Steps, input \in Inputs :
          /\ Moves(u, RequestAt(pc, row, input))
          /\ pc \in Deciding => u \in Director /\ row.suggestion = "ready"
    BY <1>3 DEF ReadStep, Reads, Moves
  <2>2. q = RequestAt(pc, row, input)
    BY <1>2, <2>1, MovesOne
  <2> QED
    BY <2>1, <2>2 DEF RequestAt
<1>4. CASE FetchProject(u) \/ CreateProject(u) \/ SkipIssuance(u) \/ SaveIssuance(u)
  <2>1. request[u].pc \in Deciding /\ \E pc \in Steps : Moves(u, [request[u] EXCEPT !.pc = pc])
    BY <1>4 DEF FetchProject, CreateProject, SkipIssuance, SaveIssuance, Moves, Deciding, Approval,
                At, Steps
  <2>2. q.read = request[u].read
    BY <1>2, <2>1, MovesOne DEF Request
  <2> QED
    BY <2>1, <2>2 DEF DirectorsOK, Copy
<1>5. CASE IssueCredits(u) \/ SaveProject(u)
  <2>1. request[u].pc \in Deciding /\ Copy(u) \in EarnedCredit
    BY <1>5, RequestParts DEF IssueCredits, SaveProject, Deciding, Approval, At
  <2>2. CASE IssueCredits(u)
    <3>1. PICK copy : copy = [Copy(u) EXCEPT !.issuance = Len(issued) + 1]
      OBVIOUS
    <3>2. copy.suggestion = Copy(u).suggestion
      BY <2>1, <3>1 DEF EarnedCredit
    <3>3. Moves(u, RequestAt("saving_issuance", copy, Input(u)))
      BY <2>2, <3>1 DEF IssueCredits, Moves
    <3>4. q.read = copy
      BY <1>2, <3>3, MovesOne DEF RequestAt
    <3> QED
      BY <2>1, <3>2, <3>4 DEF DirectorsOK
  <2>3. CASE SaveProject(u)
    <3>1. PICK copy : copy = [Copy(u) EXCEPT !.project = Copy(u).account]
      OBVIOUS
    <3>2. copy.suggestion = Copy(u).suggestion
      BY <2>1, <3>1 DEF EarnedCredit
    <3>3. Moves(u, RequestAt("issuing", copy, Input(u)))
      BY <2>3, <3>1 DEF SaveProject, Moves
    <3>4. q.read = copy
      BY <1>2, <3>3, MovesOne DEF RequestAt
    <3> QED
      BY <2>1, <3>2, <3>4 DEF DirectorsOK
  <2> QED
    BY <1>5, <2>2, <2>3
<1>6. CASE \/ IndustrySaves(u) \/ AnalystSaves(u) \/ SaveDecision(u)
           \/ SubmissionStep(u) \/ EndStep(u)
  <2>1. Moves(u, Idle) \/ Moves(u, RequestAt("done", None, None))
    BY <1>6 DEF IndustrySaves, AnalystSaves, SaveDecision, EndStep, SaveRefused, CallFails, Crash,
                SubmissionStep, SaveAmended, SaveWithdrawn, DeleteRecord, Submitted, Ends, Moves
  <2>2. q = Idle \/ q = RequestAt("done", None, None)
    BY <1>2, <2>1, MovesOne
  <2> QED
    BY <2>2 DEF Idle, RequestAt, Deciding, Approval
<1> QED
  BY <1>3, <1>4, <1>5, <1>6 DEF ApprovalStep, SaveStep

\* Steps that leave the row and the review as they are
LEMMA RowUnchanged ==
  ASSUME NEW u \in Users, ReadStep(u) \/ ApprovalStep(u) \/ EndStep(u)
  PROVE  UNCHANGED <<row, reviewed>>
<1>1. CASE ReadStep(u) \/ ApprovalStep(u)
  BY <1>1 DEF ReadStep, Reads, ApprovalStep, FetchProject, CreateProject, SkipIssuance, IssueCredits
<1>2. CASE EndStep(u)
  BY <1>2 DEF EndStep, SaveRefused, CallFails, Crash
<1> QED
  BY <1>1, <1>2

\* The save of an industry user: the status and the account
LEMMA IndustryRow ==
  ASSUME Inv, NEW u \in Users, IndustrySaves(u)
  PROVE  /\ row \in EarnedCredit /\ row' \in EarnedCredit
         /\ row'.status = "requested" /\ row'.suggestion = row.suggestion
         /\ row'.issuance = row.issuance
         /\ row # Copy(u) => "stale" \in excused'
         /\ Copy(u).status \in {"not_issued", "changes_required"}
<1>1. row \in EarnedCredit /\ Input(u) \in Account /\ Copy(u).status \in {"not_issued", "changes_required"}
  BY RequestParts DEF Inv, TypeOK, IndustrySaves, CopyOK, At, Input, Copy
<1> QED
  BY <1>1 DEF IndustrySaves, EarnedCredit, IssuanceStatus, NoteStale

\* The save of an analyst: the status that the suggestion stands for
LEMMA AnalystRow ==
  ASSUME Inv, NEW u \in Users, AnalystSaves(u)
  PROVE  /\ row \in EarnedCredit /\ row' \in EarnedCredit
         /\ row'.status \notin {"approved", "not_issued"}
         /\ row'.suggestion = Input(u)
         /\ Input(u) = "ready" => row'.status = "requested" /\ reviewed' = Copy(u).account
         /\ row'.account = row.account /\ row'.issuance = row.issuance
         /\ row # Copy(u) => "stale" \in excused'
         /\ Copy(u).status \in {"requested", "changes_required"}
<1>1. /\ row \in EarnedCredit /\ Input(u) \in Suggestions
      /\ Copy(u).status \in {"requested", "changes_required"}
  BY RequestParts DEF Inv, TypeOK, AnalystSaves, CopyOK, At, Input, Copy
<1>2. /\ StatusAfter(Input(u), Copy(u).status) \in IssuanceStatus \ {"approved", "not_issued"}
      /\ Input(u) = "ready" => StatusAfter(Input(u), Copy(u).status) = "requested"
  BY <1>1 DEF StatusAfter, IssuanceStatus
<1>3. PICK status \in IssuanceStatus \ {"approved", "not_issued"} :
        /\ row' = [row EXCEPT !.status = status, !.suggestion = Input(u)]
        /\ Input(u) = "ready" => status = "requested"
  BY <1>2 DEF AnalystSaves
<1>4. /\ row' \in EarnedCredit /\ row'.status = status /\ row'.suggestion = Input(u)
      /\ row'.account = row.account /\ row'.issuance = row.issuance
  BY <1>1, <1>3 DEF EarnedCredit
<1> QED
  BY <1>1, <1>3, <1>4 DEF AnalystSaves, NoteStale

\* The saves of a director: one field at a time
LEMMA DirectorRow ==
  ASSUME Inv, NEW u \in Users, SaveProject(u) \/ SaveIssuance(u) \/ SaveDecision(u)
  PROVE  /\ row \in EarnedCredit /\ row' \in EarnedCredit
         /\ row'.suggestion = row.suggestion /\ row'.account = row.account
         /\ row'.amount = row.amount /\ reviewed' = reviewed
         /\ SaveDecision(u) => /\ row'.status = Input(u) /\ Input(u) \in Final
                               /\ row # Copy(u) => "stale" \in excused'
         /\ ~SaveDecision(u) => row'.status = row.status
         /\ SaveProject(u) /\ row # Copy(u) => "stale" \in excused'
         /\ IF SaveIssuance(u) THEN row'.issuance = Copy(u).issuance
                               ELSE row'.issuance = row.issuance
<1>1. row \in EarnedCredit /\ Copy(u) \in EarnedCredit
  BY RequestParts DEF Inv, TypeOK, SaveProject, SaveIssuance, SaveDecision, At
<1>2. ~(SaveIssuance(u) /\ SaveProject(u)) /\ ~(SaveIssuance(u) /\ SaveDecision(u))
      /\ ~(SaveProject(u) /\ SaveDecision(u))
  BY DEF SaveIssuance, SaveProject, SaveDecision, At
<1>3. CASE SaveProject(u)
  BY <1>1, <1>2, <1>3 DEF SaveProject, EarnedCredit, NoteStale
<1>4. CASE SaveIssuance(u)
  BY <1>1, <1>2, <1>4 DEF SaveIssuance, EarnedCredit
<1>5. CASE SaveDecision(u)
  <2>1. Input(u) \in Final
    BY <1>5, RequestParts DEF SaveDecision, At, CopyOK, Input
  <2> QED
    BY <1>1, <1>2, <1>5, <2>1 DEF SaveDecision, EarnedCredit, NoteStale, Final, IssuanceStatus
<1> QED
  BY <1>3, <1>4, <1>5

\* What a submission leaves: its copy with another amount or status, or nothing
LEMMA SubmissionRow ==
  ASSUME Inv, NEW u \in Users, SubmissionStep(u)
  PROVE  /\ row # Copy(u) => "stale" \in excused'
         /\ Copy(u) \in EarnedCredit /\ Copy(u).status # "approved"
         /\ reviewed' = reviewed /\ issued' = issued
         /\ \/ row' = None /\ Copy(u).status = "not_issued"
            \/ /\ row' \in EarnedCredit
               /\ row'.suggestion = Copy(u).suggestion /\ row'.account = Copy(u).account
               /\ row'.issuance = Copy(u).issuance
               /\ row'.status = "declined" \/ row'.status = Copy(u).status
<1>1. Copy(u) \in EarnedCredit /\ Copy(u).status # "approved"
  BY RequestParts DEF SubmissionStep, SaveAmended, SaveWithdrawn, DeleteRecord, CopyOK, At, Copy
<1>2. ASSUME NEW delta \in Delta, SaveAmended(u, delta)
      PROVE  /\ row' \in EarnedCredit
             /\ row'.suggestion = Copy(u).suggestion /\ row'.account = Copy(u).account
             /\ row'.issuance = Copy(u).issuance /\ row'.status = Copy(u).status
  <2>1. Copy(u).amount + delta \in Nat
    BY <1>1, <1>2, AmountAssumption DEF SaveAmended, EarnedCredit
  <2> QED
    BY <1>1, <1>2, <2>1 DEF SaveAmended, Submitted, EarnedCredit
<1>3. CASE SaveWithdrawn(u)
  <2>1. /\ row' \in EarnedCredit
        /\ row'.suggestion = Copy(u).suggestion /\ row'.account = Copy(u).account
        /\ row'.issuance = Copy(u).issuance /\ row'.status = "declined"
    BY <1>1, <1>3 DEF SaveWithdrawn, Submitted, EarnedCredit, IssuanceStatus
  <2> QED
    BY <1>1, <1>3, <2>1 DEF SaveWithdrawn, Submitted, NoteStale
<1>4. CASE DeleteRecord(u)
  <2>1. Copy(u).status = "not_issued"
    BY <1>4, RequestParts DEF DeleteRecord, CopyOK, At, Copy
  <2> QED
    BY <1>1, <1>4, <2>1 DEF DeleteRecord, Submitted, NoteStale
<1>5. CASE \E delta \in Delta : SaveAmended(u, delta)
  BY <1>1, <1>2, <1>5 DEF SaveAmended, Submitted, NoteStale
<1> QED
  BY <1>3, <1>4, <1>5 DEF SubmissionStep

LEMMA ReviewKept ==
  ASSUME Inv, DirectorsOK, ReviewOK, NEW u \in Users,
         ReadStep(u) \/ ApprovalStep(u) \/ SaveStep(u) \/ SubmissionStep(u) \/ EndStep(u)
  PROVE  ReviewOK'
<1>1. excused \subseteq excused'
  BY ExcusedGrows
<1>2. CASE ReadStep(u) \/ ApprovalStep(u) \/ EndStep(u)
  BY <1>1, <1>2, RowUnchanged DEF ReviewOK
<1>3. CASE IndustrySaves(u)
  <2>1. row # None /\ row' # None
    BY <1>3, IndustryRow, NoneAssumption
  <2> QED
    BY <1>1, <1>3, <2>1, IndustryRow DEF ReviewOK
<1>4. CASE AnalystSaves(u)
  BY <1>1, <1>4, AnalystRow DEF ReviewOK
<1>5. CASE SaveProject(u) \/ SaveIssuance(u) \/ SaveDecision(u)
  <2>1. row # None /\ row' # None
    BY <1>5, DirectorRow, NoneAssumption
  <2>2. SaveDecision(u) => Copy(u).suggestion = "ready"
    BY DEF SaveDecision, DirectorsOK, At, Deciding
  <2> QED
    BY <1>1, <1>5, <2>1, <2>2, DirectorRow DEF ReviewOK, Final
<1>6. CASE SubmissionStep(u)
  <2>1. Copy(u) # None
    BY <1>6, SubmissionRow, NoneAssumption
  <2> QED
    BY <1>1, <1>6, <2>1, SubmissionRow DEF ReviewOK
<1> QED
  BY <1>2, <1>3, <1>4, <1>5, <1>6 DEF SaveStep

ReviewInv == Inv /\ DirectorsOK /\ ReviewOK

\* Only directors decide, and on a copy that was found ready; the row keeps the
\* account that the analyst reviewed for as long as it is ready or approved
THEOREM ReviewInvariance == Spec => []ReviewInv
<1>1. Init => ReviewInv
  <2> SUFFICES ASSUME Init PROVE DirectorsOK /\ ReviewOK
    BY InitOK DEF ReviewInv
  <2>1. DirectorsOK
    BY DEF Init, Idle, RequestAt, DirectorsOK, Deciding, Approval
  <2>2. NewRecord.suggestion = None /\ NewRecord.status = "not_issued" /\ None # "ready"
    BY NoneAssumption DEF NewRecord, AnalystSuggestion
  <2> QED
    BY <2>1, <2>2 DEF Init, ReviewOK
<1>2. ReviewInv /\ [Next]_vars => ReviewInv'
  <2> SUFFICES ASSUME Inv, DirectorsOK, ReviewOK, [Next]_vars
               PROVE  DirectorsOK' /\ ReviewOK'
    BY NextOK DEF ReviewInv
  <2>1. CASE Next
    BY <2>1, StepKinds, DirectorsKept, ReviewKept
  <2>2. CASE UNCHANGED vars
    BY <2>2 DEF vars, DirectorsOK, ReviewOK, Copy
  <2> QED
    BY <2>1, <2>2
<1> QED
  BY <1>1, <1>2, PTL DEF Spec

\* The account of an approved record is the one that the analyst found ready,
\* for any number of requests: an industry user can change it only in a status
\* that a ready record does not have, and every other change is a stale save
THEOREM ApprovedIsReviewedHolds == Spec => []ApprovedIsReviewed
<1>1. ReviewInv => ApprovedIsReviewed
  BY DEF ReviewInv, ReviewOK, ApprovedIsReviewed, Approved
<1> QED
  BY <1>1, ReviewInvariance, PTL

-----------------------------------------------------------------------------
(* One director at a time.  Two of them may both issue the credits (the run's *)
(* IssuedOnce is violated), so the theorems below say what one director, with *)
(* any number of other requests, failures and retries, does to the registry.  *)

OneDirector == \A d, e \in Director : d = e

BeforeIssuance == {"project", "saving_project", "issuing"}

\* While no save met a newer row and no issuance's id was lost: there is at
\* most one issuance; its id is in the row or about to be saved there; from the
\* decision on, the record is neither deleted nor back to not issued; and an
\* approval whose copy shows no issuance has an empty registry before it
RetryOK ==
  excused \subseteq {"undecided"} =>
    /\ Len(issued) <= 1
    /\ issued # <<>> => /\ row # None
                        /\ row.issuance # 0 \/ \E d \in Users : At(d, "saving_issuance")
    /\ issued # <<>> \/ (\E u \in Users : request[u].pc \in Deciding) =>
         row # None /\ row.status # "not_issued"
    /\ \A u \in Users : request[u].pc \in BeforeIssuance /\ Copy(u).issuance = 0 => issued = <<>>

\* Two requests that decide are the same director
LEMMA OneDecides ==
  ASSUME OneDirector, DirectorsOK, NEW u \in Users, NEW w \in Users,
         request[u].pc \in Deciding, request[w].pc \in Deciding
  PROVE  u = w
BY DEF OneDirector, DirectorsOK

\* A request that ends, by saving or otherwise
LEMMA RequestOver ==
  ASSUME Inv, NEW u \in Users,
         IndustrySaves(u) \/ AnalystSaves(u) \/ SaveDecision(u) \/ SubmissionStep(u) \/ EndStep(u)
  PROVE  /\ request'[u].pc \notin Deciding /\ request[u].pc # "idle"
         /\ \A w \in Users : w # u => request'[w] = request[w]
         /\ issued' = issued
<1>1. Moves(u, Idle) \/ Moves(u, RequestAt("done", None, None))
  BY DEF IndustrySaves, AnalystSaves, SaveDecision, EndStep, SaveRefused, CallFails, Crash,
         SubmissionStep, SaveAmended, SaveWithdrawn, DeleteRecord, Submitted, Ends, Moves
<1>2. issued' = issued /\ request[u].pc # "idle"
  BY DEF IndustrySaves, AnalystSaves, SaveDecision, EndStep, SaveRefused, CallFails, Crash,
         SubmissionStep, SaveAmended, SaveWithdrawn, DeleteRecord, Submitted, At
<1> QED
  BY <1>1, <1>2, MovesOne DEF Idle, RequestAt, Deciding, Approval

\* A step of an approval that makes no issuance: the request goes on with a copy
\* that shows the same one
LEMMA ApprovalMoves ==
  ASSUME Inv, NEW u \in Users,
         FetchProject(u) \/ CreateProject(u) \/ SkipIssuance(u) \/ SaveProject(u) \/ SaveIssuance(u)
  PROVE  /\ request[u].pc \in Approval /\ request'[u].pc \in Deciding
         /\ request'[u].input = "approved"
         /\ request'[u].pc # "saving_issuance"
         /\ request[u].pc = "saving_issuance" <=> SaveIssuance(u)
         /\ request'[u].pc = "deciding" <=> SkipIssuance(u) \/ SaveIssuance(u)
         /\ SkipIssuance(u) => Copy(u).issuance # 0
         /\ request'[u].read.issuance = Copy(u).issuance
         /\ request'[u].read.account = Copy(u).account
         /\ request'[u].read.amount = Copy(u).amount
         /\ \A w \in Users : w # u => request'[w] = request[w]
         /\ issued' = issued
<1>0. request[u] \in Request /\ (request[u].pc \in Approval => request[u].input = "approved")
  BY RequestParts DEF CopyOK
<1>1. CASE FetchProject(u) \/ CreateProject(u) \/ SkipIssuance(u) \/ SaveIssuance(u)
  <2>1. PICK pc \in {"issuing", "saving_project", "deciding"} :
          /\ Moves(u, [request[u] EXCEPT !.pc = pc])
          /\ pc = "deciding" <=> SkipIssuance(u) \/ SaveIssuance(u)
    BY <1>1 DEF FetchProject, CreateProject, SkipIssuance, SaveIssuance, Moves, At
  <2>2. request[u].pc \in Approval /\ issued' = issued
        /\ (request[u].pc = "saving_issuance" <=> SaveIssuance(u))
        /\ (SkipIssuance(u) => Copy(u).issuance # 0)
    BY <1>1 DEF FetchProject, CreateProject, SkipIssuance, SaveIssuance, At, Approval
  <2>3. request'[u] = [request[u] EXCEPT !.pc = pc] /\ \A w \in Users : w # u => request'[w] = request[w]
    BY <2>1, MovesOne
  <2>4. request'[u].pc = pc /\ request'[u].read = Copy(u) /\ request'[u].input = "approved"
    BY <1>0, <2>2, <2>3 DEF Request, Copy
  <2> QED
    BY <2>1, <2>2, <2>3, <2>4 DEF Deciding, Approval
<1>2. CASE SaveProject(u)
  <2>1. PICK copy : copy = [Copy(u) EXCEPT !.project = Copy(u).account]
    OBVIOUS
  <2>2. Copy(u) \in EarnedCredit /\ request[u].pc = "saving_project"
    BY <1>2, RequestParts DEF SaveProject, At
  <2>3. Moves(u, RequestAt("issuing", copy, Input(u))) /\ issued' = issued
    BY <1>2, <2>1 DEF SaveProject, Moves
  <2>4. /\ request'[u].pc = "issuing" /\ request'[u].read = copy /\ request'[u].input = Input(u)
        /\ \A w \in Users : w # u => request'[w] = request[w]
    BY <2>3, MovesOne DEF RequestAt
  <2>5. copy.issuance = Copy(u).issuance /\ copy.account = Copy(u).account /\ copy.amount = Copy(u).amount
    BY <2>1, <2>2 DEF EarnedCredit
  <2>6. ~SkipIssuance(u) /\ ~SaveIssuance(u)
    BY <2>2 DEF SkipIssuance, SaveIssuance, At
  <2> QED
    BY <1>0, <2>2, <2>3, <2>4, <2>5, <2>6 DEF Deciding, Approval, Input
<1> QED
  BY <1>1, <1>2

\* The issuance: a new entry of the registry, which the copy of the request names
LEMMA IssuanceMoves ==
  ASSUME Inv, NEW u \in Users, IssueCredits(u)
  PROVE  /\ request[u].pc = "issuing" /\ Copy(u).issuance = 0
         /\ request'[u].pc = "saving_issuance"
         /\ request'[u].read.issuance = Len(issued) + 1
         /\ request'[u].read.account = Copy(u).account
         /\ request'[u].read.amount = Copy(u).amount
         /\ \A w \in Users : w # u => request'[w] = request[w]
         /\ Len(issued) \in Nat /\ Len(issued') = Len(issued) + 1 /\ issued' # <<>>
         /\ \A i \in 1..Len(issued) : issued'[i] = issued[i]
         /\ issued'[Len(issued) + 1] = [account |-> Copy(u).account, amount |-> Copy(u).amount]
         /\ row' = row
<1> DEFINE E == [account : Account \cup {None}, amount : Nat]
<1>1. PICK copy : copy = [Copy(u) EXCEPT !.issuance = Len(issued) + 1]
  OBVIOUS
<1>2. PICK e : e = [account |-> Copy(u).account, amount |-> Copy(u).amount]
  OBVIOUS
<1>3. Copy(u) \in EarnedCredit /\ request[u].pc = "issuing" /\ Copy(u).issuance = 0
  BY RequestParts DEF IssueCredits, At
<1>4. Moves(u, RequestAt("saving_issuance", copy, Input(u))) /\ issued' = Append(issued, e) /\ row' = row
  BY <1>1, <1>2 DEF IssueCredits, Moves
<1>5. /\ request'[u].pc = "saving_issuance" /\ request'[u].read = copy
      /\ \A w \in Users : w # u => request'[w] = request[w]
  BY <1>4, MovesOne DEF RequestAt
<1>6. issued \in Seq(E) /\ e \in E /\ Len(issued) \in Nat
  BY <1>2, <1>3 DEF Inv, TypeOK, EarnedCredit
<1>7. /\ copy.issuance = Len(issued) + 1 /\ copy.account = Copy(u).account
      /\ copy.amount = Copy(u).amount
  BY <1>1, <1>3, <1>6 DEF EarnedCredit
<1>8. /\ Len(issued') = Len(issued) + 1 /\ issued' # <<>>
      /\ \A i \in 1..Len(issued) : issued'[i] = issued[i]
      /\ issued'[Len(issued) + 1] = e
  BY <1>4, <1>6
<1> QED
  BY <1>2, <1>3, <1>4, <1>5, <1>6, <1>7, <1>8

\* A request that reads the row
LEMMA ReadMoves ==
  ASSUME Inv, NEW u \in Users, ReadStep(u)
  PROVE  /\ request[u].pc = "idle" /\ row # None
         /\ request'[u].read = row
         /\ request'[u].pc \in Deciding =>
              /\ u \in Director /\ row.status = "requested"
              /\ \/ request'[u].pc = "project"
                 \/ request'[u].pc = "deciding" /\ request'[u].input # "approved"
         /\ \A w \in Users : w # u => request'[w] = request[w]
         /\ UNCHANGED <<row, issued, excused>>
<1>1. PICK pc \in Steps, input \in Inputs :
        /\ Moves(u, RequestAt(pc, row, input)) /\ row # None /\ request[u].pc = "idle"
        /\ UNCHANGED <<row, issued, excused>>
        /\ pc \in Deciding => /\ u \in Director /\ row.status = "requested"
                              /\ pc = "project" \/ (pc = "deciding" /\ input # "approved")
  BY DEF ReadStep, Reads, Moves, At
<1>2. request'[u] = RequestAt(pc, row, input) /\ \A w \in Users : w # u => request'[w] = request[w]
  BY <1>1, MovesOne
<1> QED
  BY <1>1, <1>2 DEF RequestAt

\* The saves that meet the row they were read from
LEMMA FreshSaves ==
  ASSUME Inv, NEW u \in Users, excused' \subseteq {"undecided", "lost"},
         IndustrySaves(u) \/ AnalystSaves(u) \/ SaveProject(u) \/ SaveDecision(u) \/ SubmissionStep(u)
  PROVE  row = Copy(u)
BY IndustryRow, AnalystRow, DirectorRow, SubmissionRow

LEMMA RetryKept ==
  ASSUME OneDirector, Inv, DirectorsOK, RetryOK, NEW u \in Users,
         ReadStep(u) \/ ApprovalStep(u) \/ SaveStep(u) \/ SubmissionStep(u) \/ EndStep(u)
  PROVE  RetryOK'
<1> SUFFICES ASSUME excused' \subseteq {"undecided"} PROVE RetryOK'
  BY DEF RetryOK
<1>1. excused \subseteq {"undecided"}
  BY ExcusedGrows
<1>2. /\ Len(issued) <= 1
      /\ issued # <<>> => /\ row # None
                          /\ row.issuance # 0 \/ \E d \in Users : At(d, "saving_issuance")
      /\ issued # <<>> \/ (\E w \in Users : request[w].pc \in Deciding) =>
           row # None /\ row.status # "not_issued"
      /\ \A w \in Users : request[w].pc \in BeforeIssuance /\ Copy(w).issuance = 0 => issued = <<>>
  BY <1>1 DEF RetryOK
<1>3. CASE ReadStep(u)
  <2>1. request'[u].pc \in BeforeIssuance /\ row.issuance = 0 => issued = <<>>
    <3> SUFFICES ASSUME request'[u].pc \in BeforeIssuance, row.issuance = 0, issued # <<>>
                 PROVE  FALSE
      OBVIOUS
    <3>1. PICK d \in Users : At(d, "saving_issuance")
      BY <1>2
    <3>2. u \in Director /\ d \in Director /\ request[u].pc = "idle"
      BY <1>3, <3>1, ReadMoves DEF BeforeIssuance, Deciding, Approval, DirectorsOK, At
    <3> QED
      BY <3>1, <3>2 DEF OneDirector, At
  <2>2. \A d \in Users : At(d, "saving_issuance") => At(d, "saving_issuance")'
    BY <1>3, ReadMoves DEF At
  <2> QED
    BY <1>2, <1>3, <2>1, <2>2, ReadMoves DEF RetryOK, At, Copy, BeforeIssuance
<1>4. CASE FetchProject(u) \/ CreateProject(u) \/ SkipIssuance(u)
  <2>1. row' = row /\ request[u].pc # "saving_issuance"
    BY <1>4, RowUnchanged DEF ApprovalStep, FetchProject, CreateProject, SkipIssuance, At
  <2>2. request[u].pc \in Deciding
    BY <1>4, ApprovalMoves DEF Deciding
  <2>3. \A d \in Users : At(d, "saving_issuance") => At(d, "saving_issuance")'
    BY <1>4, <2>1, ApprovalMoves DEF At
  <2>4. request'[u].pc \in BeforeIssuance => request[u].pc \in BeforeIssuance
    BY <1>4, <2>1, ApprovalMoves DEF Approval, BeforeIssuance
  <2> QED
    BY <1>2, <1>4, <2>1, <2>2, <2>3, <2>4, ApprovalMoves DEF RetryOK, Copy
<1>5. CASE IssueCredits(u)
  <2>1. issued = <<>> /\ Len(issued') = 1
    <3>1. request[u].pc \in BeforeIssuance /\ Copy(u).issuance = 0
      BY <1>5, IssuanceMoves DEF BeforeIssuance
    <3>2. issued = <<>>
      BY <1>2, <3>1
    <3>3. Len(issued) = 0
      BY <3>2
    <3>4. Len(issued') = Len(issued) + 1
      BY <1>5, IssuanceMoves
    <3> QED
      BY <3>2, <3>3, <3>4
  <2>2. At(u, "saving_issuance")' /\ row' # None /\ row'.status # "not_issued"
    BY <1>2, <1>5, IssuanceMoves DEF At, Deciding, Approval
  <2>3. \A w \in Users : request'[w].pc \notin BeforeIssuance
    <3>1. request[u].pc \in Deciding /\ request'[u].pc \notin BeforeIssuance
      BY <1>5, IssuanceMoves DEF Deciding, Approval, BeforeIssuance
    <3>2. \A w \in Users : w # u => request'[w] = request[w] /\ request[w].pc \notin Deciding
      BY <1>5, <3>1, IssuanceMoves, OneDecides
    <3> QED
      BY <3>1, <3>2 DEF Deciding, Approval, BeforeIssuance
  <2> QED
    BY <2>1, <2>2, <2>3 DEF RetryOK
<1>6. CASE SaveProject(u) \/ SaveIssuance(u)
  <2>1. /\ row # None /\ row' # None /\ row'.status = row.status
        /\ row'.issuance = IF SaveIssuance(u) THEN Copy(u).issuance ELSE row.issuance
    <3>1. row \in EarnedCredit /\ row' \in EarnedCredit /\ ~SaveDecision(u)
      BY <1>6, DirectorRow DEF SaveProject, SaveIssuance, SaveDecision, At
    <3> QED
      BY <1>6, <3>1, DirectorRow, NoneAssumption
  <2>2. SaveIssuance(u) => Copy(u).issuance # 0
    BY RequestParts DEF SaveIssuance, CopyOK, At, Copy
  <2>3. ~SaveIssuance(u) => \A d \in Users : At(d, "saving_issuance") => At(d, "saving_issuance")'
    BY <1>6, ApprovalMoves DEF At
  <2>4. request[u].pc \in Deciding /\ (request'[u].pc \in BeforeIssuance => request[u].pc \in BeforeIssuance)
    BY <1>6, ApprovalMoves DEF Approval, BeforeIssuance, Deciding
  <2> QED
    BY <1>2, <1>6, <2>1, <2>2, <2>3, <2>4, ApprovalMoves DEF RetryOK, Copy
<1>7. CASE IndustrySaves(u) \/ AnalystSaves(u) \/ SaveDecision(u)
  <2>1. /\ row # None /\ row' # None /\ row'.status # "not_issued"
        /\ row'.issuance = row.issuance
    <3>1. ~(SaveDecision(u) /\ SaveIssuance(u))
      BY DEF SaveDecision, SaveIssuance, At
    <3> QED
      BY <1>7, <3>1, IndustryRow, AnalystRow, DirectorRow, NoneAssumption DEF Final
  <2>2. \A d \in Users : At(d, "saving_issuance") => At(d, "saving_issuance")'
    BY <1>7, RequestOver DEF At, IndustrySaves, AnalystSaves, SaveDecision
  <2> QED
    BY <1>2, <1>7, <2>1, <2>2, RequestOver DEF RetryOK, Copy, BeforeIssuance, Deciding, Approval
<1>8. CASE SubmissionStep(u)
  <2>1. row = Copy(u) /\ row # None
    BY <1>8, FreshSaves, SubmissionRow, NoneAssumption
  <2>2. \A d \in Users : At(d, "saving_issuance") => At(d, "saving_issuance")'
    BY <1>8, RequestOver DEF At, SubmissionStep, SaveAmended, SaveWithdrawn, DeleteRecord
  <2>3. CASE row' = None
    BY <1>2, <1>8, <2>1, <2>3, SubmissionRow, RequestOver, NoneAssumption
       DEF RetryOK, Copy, BeforeIssuance, Deciding, Approval
  <2>4. CASE row' # None
    <3>1. row'.issuance = row.issuance /\ row'.status \in {"declined", row.status}
      BY <1>8, <2>1, <2>4, SubmissionRow
    <3> QED
      BY <1>2, <1>8, <2>2, <2>4, <3>1, RequestOver DEF RetryOK, Copy, BeforeIssuance, Deciding, Approval
  <2> QED
    BY <2>3, <2>4
<1>9. CASE EndStep(u)
  <2>1. row' = row
    BY <1>9, RowUnchanged
  <2>2. ~At(u, "saving_issuance")
    BY <1>9 DEF EndStep, SaveRefused, CallFails, Crash, NoteLost, At
  <2>3. \A d \in Users : At(d, "saving_issuance") => At(d, "saving_issuance")'
    BY <1>9, <2>2, RequestOver DEF At
  <2> QED
    BY <1>2, <1>9, <2>1, <2>3, RequestOver DEF RetryOK, Copy, BeforeIssuance, Deciding, Approval
<1> QED
  BY <1>3, <1>4, <1>5, <1>6, <1>7, <1>8, <1>9 DEF ApprovalStep, SaveStep

-----------------------------------------------------------------------------
(* What an approved record says of the registry                              *)

\* The record r names an issuance, which has its account and its amount
Matches(r, issuances) ==
  /\ r.issuance \in 1..Len(issuances)
  /\ issuances[r.issuance] = [account |-> r.account, amount |-> r.amount]

\* A request q that is about to approve, from a copy that names this issuance
Approves(q, issuance) ==
  q.pc = "deciding" /\ q.input = "approved" /\ q.read.issuance = issuance

\* The copy of an approval names no issuance before it made one, and then that one
CopyRecorded(q, issuances) ==
  /\ q.pc \in BeforeIssuance => q.read.issuance = 0
  /\ q.pc = "saving_issuance" \/ (q.pc = "deciding" /\ q.input = "approved") =>
       Matches(q.read, issuances)

\* While no save met a newer row and no approval died before its decision was
\* saved: an approved record matches the issuance it names, a record that is not
\* approved names only that of an approval in progress, and that approval's copy
\* matches the issuance it made
RecordedOK ==
  excused \subseteq {"lost"} =>
    /\ row # None =>
         IF row.status = "approved" THEN Matches(row, issued)
         ELSE row.issuance # 0 => \E d \in Users : Approves(request[d], row.issuance)
    /\ \A u \in Users : CopyRecorded(request[u], issued)

LEMMA RecordedKept ==
  ASSUME OneDirector, Inv, DirectorsOK, RecordedOK, NEW u \in Users,
         ReadStep(u) \/ ApprovalStep(u) \/ SaveStep(u) \/ SubmissionStep(u) \/ EndStep(u)
  PROVE  RecordedOK'
<1> SUFFICES ASSUME excused' \subseteq {"lost"} PROVE RecordedOK'
  BY DEF RecordedOK
<1>1. excused \subseteq {"lost"}
  BY ExcusedGrows
<1>2. row # None =>
        IF row.status = "approved" THEN Matches(row, issued)
        ELSE row.issuance # 0 => \E d \in Users : Approves(request[d], row.issuance)
  BY <1>1 DEF RecordedOK
<1>3. \A w \in Users : CopyRecorded(request[w], issued)
  BY <1>1 DEF RecordedOK
<1>4. CASE ReadStep(u)
  <2>1. ASSUME request'[u].pc \in Deciding PROVE row.issuance = 0
    <3>1. u \in Director /\ row.status = "requested" /\ row # None /\ request[u].pc = "idle"
      BY <1>4, <2>1, ReadMoves
    <3>2. ASSUME NEW d \in Users, Approves(request[d], row.issuance) PROVE FALSE
      BY <3>1, <3>2 DEF Approves, At, DirectorsOK, Deciding, OneDirector
    <3> QED
      BY <1>2, <3>1, <3>2
  <2>2. \A d \in Users : \A i : Approves(request[d], i) => Approves(request'[d], i)
    BY <1>4, ReadMoves DEF Approves
  <2>3. request'[u].pc \notin {"saving_issuance"} /\ ~(request'[u].pc = "deciding" /\ request'[u].input = "approved")
    BY <1>4, ReadMoves DEF Deciding, Approval
  <2>4. row' # None =>
          IF row'.status = "approved" THEN Matches(row', issued')
          ELSE row'.issuance # 0 => \E d \in Users : Approves(request'[d], row'.issuance)
    BY <1>2, <1>4, <2>2, ReadMoves
  <2>5. \A w \in Users : CopyRecorded(request'[w], issued')
    BY <1>3, <1>4, <2>1, <2>3, ReadMoves DEF CopyRecorded, BeforeIssuance, Deciding, Approval
  <2> QED
    BY <2>4, <2>5 DEF RecordedOK
<1>5. CASE FetchProject(u) \/ CreateProject(u) \/ SkipIssuance(u)
  <2>1. row' = row /\ ~SkipIssuance(u) /\ request[u].pc \in BeforeIssuance /\ ~SaveIssuance(u)
    <3>1. row' = row
      BY <1>5, RowUnchanged DEF ApprovalStep
    <3>2. request[u].pc \in BeforeIssuance
      BY <1>5 DEF FetchProject, CreateProject, SkipIssuance, At, BeforeIssuance
    <3>3. Copy(u).issuance = 0
      BY <1>3, <3>2 DEF CopyRecorded, Copy
    <3> QED
      BY <3>1, <3>2, <3>3 DEF SkipIssuance, SaveIssuance, At, BeforeIssuance
  <2>2. request'[u].pc \in BeforeIssuance
    BY <1>5, <2>1, ApprovalMoves DEF Deciding, Approval, BeforeIssuance
  <2>3. \A d \in Users : \A i : Approves(request[d], i) => Approves(request'[d], i)
    BY <1>5, <2>1, ApprovalMoves DEF Approves, BeforeIssuance
  <2>4. row' # None =>
          IF row'.status = "approved" THEN Matches(row', issued')
          ELSE row'.issuance # 0 => \E d \in Users : Approves(request'[d], row'.issuance)
    BY <1>2, <1>5, <2>1, <2>3, ApprovalMoves
  <2>5. \A w \in Users : CopyRecorded(request'[w], issued')
    BY <1>3, <1>5, <2>1, <2>2, ApprovalMoves DEF CopyRecorded, BeforeIssuance, Copy
  <2> QED
    BY <2>4, <2>5 DEF RecordedOK
<1>6. CASE IssueCredits(u)
  <2>1. \A r : Matches(r, issued) => Matches(r, issued')
    <3> SUFFICES ASSUME NEW r, Matches(r, issued) PROVE Matches(r, issued')
      OBVIOUS
    <3>1. PICK i : i = r.issuance
      OBVIOUS
    <3>2. i \in 1..Len(issued) /\ issued[i] = [account |-> r.account, amount |-> r.amount]
      BY <3>1 DEF Matches
    <3>3. /\ Len(issued) \in Nat /\ Len(issued') = Len(issued) + 1
          /\ \A j \in 1..Len(issued) : issued'[j] = issued[j]
      BY <1>6, IssuanceMoves
    <3>4. i \in 1..Len(issued') /\ issued'[i] = issued[i]
      BY <3>2, <3>3
    <3> QED
      BY <3>1, <3>2, <3>4 DEF Matches
  <2>2. \A d \in Users : \A i : Approves(request[d], i) => Approves(request'[d], i)
    BY <1>6, IssuanceMoves DEF Approves
  <2>3. Matches(request'[u].read, issued')
    <3>1. PICK copy : copy = request'[u].read
      OBVIOUS
    <3>2. copy.issuance = Len(issued) + 1 /\ copy.account = Copy(u).account /\ copy.amount = Copy(u).amount
      BY <1>6, <3>1, IssuanceMoves
    <3>3. /\ Len(issued) + 1 \in 1..Len(issued')
          /\ issued'[Len(issued) + 1] = [account |-> Copy(u).account, amount |-> Copy(u).amount]
      BY <1>6, IssuanceMoves
    <3> QED
      BY <3>1, <3>2, <3>3 DEF Matches
  <2>4. row' # None =>
          IF row'.status = "approved" THEN Matches(row', issued')
          ELSE row'.issuance # 0 => \E d \in Users : Approves(request'[d], row'.issuance)
    BY <1>2, <1>6, <2>1, <2>2, IssuanceMoves
  <2>5. \A w \in Users : CopyRecorded(request'[w], issued')
    BY <1>3, <1>6, <2>1, <2>3, IssuanceMoves DEF CopyRecorded, BeforeIssuance
  <2> QED
    BY <2>4, <2>5 DEF RecordedOK
<1>7. CASE SaveProject(u)
  <2>1. row = Copy(u) /\ row \in EarnedCredit /\ row # None /\ row' # None
    BY <1>7, FreshSaves, DirectorRow, NoneAssumption
  <2>2. request[u].pc = "saving_project" /\ row.issuance = 0 /\ row.status = "requested"
    BY <1>3, <1>7, <2>1, RequestParts
       DEF SaveProject, At, BeforeIssuance, CopyOK, CopyRecorded, Approval, Copy
  <2>3. row'.issuance = 0 /\ row'.status = "requested" /\ ~SkipIssuance(u) /\ ~SaveIssuance(u)
    BY <1>7, <2>2, DirectorRow DEF SaveProject, SaveIssuance, SaveDecision, SkipIssuance, At
  <2>4. \A w \in Users : CopyRecorded(request'[w], issued')
    BY <1>3, <1>7, <2>1, <2>2, <2>3, ApprovalMoves DEF CopyRecorded, BeforeIssuance
  <2> QED
    BY <2>3, <2>4 DEF RecordedOK
<1>8. CASE SaveIssuance(u)
  <2>1. row' # None /\ row'.issuance = Copy(u).issuance /\ row'.status # "approved"
    <3>1. Copy(u) \in EarnedCredit /\ Copy(u).status = "requested"
      BY <1>8, RequestParts DEF SaveIssuance, At, CopyOK, Copy, Approval
    <3>2. row \in EarnedCredit /\ row = [Copy(u) EXCEPT !.issuance = row.issuance]
      BY <1>8, DirectorRow DEF SaveIssuance
    <3>3. row.status = "requested" /\ ~SaveDecision(u)
      BY <1>8, <3>1, <3>2 DEF EarnedCredit, SaveIssuance, SaveDecision, At
    <3> QED
      BY <1>8, <3>3, DirectorRow, NoneAssumption
  <2>2. Matches(Copy(u), issued) /\ request[u].pc = "saving_issuance" /\ issued' = issued
    BY <1>3, <1>8, ApprovalMoves DEF SaveIssuance, At, CopyRecorded, Copy
  <2>3. /\ request'[u].pc = "deciding" /\ request'[u].input = "approved"
        /\ request'[u].read.issuance = Copy(u).issuance
    BY <1>8, ApprovalMoves
  <2>4. Matches(request'[u].read, issued')
    BY <1>8, <2>2, ApprovalMoves DEF Matches
  <2>5. Approves(request'[u], row'.issuance)
    BY <2>1, <2>3 DEF Approves
  <2>6. \A w \in Users : CopyRecorded(request'[w], issued')
    BY <1>3, <1>8, <2>2, <2>3, <2>4, ApprovalMoves DEF CopyRecorded, BeforeIssuance
  <2> QED
    BY <2>1, <2>5, <2>6 DEF RecordedOK
<1>9. ASSUME \/ IndustrySaves(u) \/ AnalystSaves(u) \/ SaveDecision(u)
             \/ SubmissionStep(u) \/ EndStep(u)
      PROVE  \A w \in Users : CopyRecorded(request'[w], issued')
  BY <1>3, <1>9, RequestOver DEF CopyRecorded, BeforeIssuance, Deciding, Approval
<1>10. ASSUME IndustrySaves(u) \/ AnalystSaves(u) \/ SubmissionStep(u) \/ EndStep(u),
              request[u].pc # "deciding"
       PROVE  \A d \in Users : \A i : Approves(request[d], i) => Approves(request'[d], i)
  BY <1>10, RequestOver DEF Approves
<1>11. CASE IndustrySaves(u) \/ AnalystSaves(u)
  <2>1. /\ row \in EarnedCredit /\ row # None /\ row' # None /\ row'.issuance = row.issuance
        /\ row'.status # "approved" /\ request[u].pc # "deciding"
        /\ row = Copy(u) /\ row.status # "approved"
    BY <1>11, IndustryRow, AnalystRow, FreshSaves, NoneAssumption DEF IndustrySaves, AnalystSaves, At
  <2>2. row'.issuance # 0 => \E d \in Users : Approves(request'[d], row'.issuance)
    BY <1>2, <1>10, <1>11, <2>1
  <2> QED
    BY <1>9, <1>11, <2>1, <2>2 DEF RecordedOK
<1>12. CASE SaveDecision(u)
  <2>1. /\ row = Copy(u) /\ row \in EarnedCredit /\ row # None /\ row' # None
        /\ row'.issuance = row.issuance /\ row'.account = row.account /\ row'.amount = row.amount
        /\ row'.status = Input(u) /\ Input(u) \in Final
    <3>1. ~SaveIssuance(u)
      BY <1>12 DEF SaveDecision, SaveIssuance, At
    <3> QED
      BY <1>12, <3>1, FreshSaves, DirectorRow, NoneAssumption
  <2>2. At(u, "deciding") /\ row.status = "requested" /\ issued' = issued
    BY <1>12, <2>1, RequestParts, RequestOver DEF SaveDecision, CopyOK, At, Copy
  <2>3. CASE Input(u) = "approved"
    <3>1. Matches(row, issued) /\ row \in EarnedCredit
      BY <1>3, <2>1, <2>2, <2>3 DEF CopyRecorded, At, Input, Copy
    <3>2. row'.status = "approved" /\ Matches(row', issued') /\ row'.issuance # 0
      BY <2>1, <2>2, <2>3, <3>1 DEF Matches
    <3> QED
      BY <1>9, <1>12, <3>2 DEF RecordedOK
  <2>4. CASE Input(u) # "approved"
    <3>1. ASSUME NEW d \in Users, Approves(request[d], row.issuance) PROVE FALSE
      BY <2>2, <2>4, <3>1, OneDecides DEF Approves, At, Deciding, Input
    <3>2. row'.issuance = 0 /\ row'.status # "approved"
      BY <1>2, <2>1, <2>2, <2>4, <3>1
    <3> QED
      BY <1>9, <1>12, <3>2 DEF RecordedOK
  <2> QED
    BY <2>3, <2>4
<1>13. CASE SubmissionStep(u)
  <2>1. /\ row = Copy(u) /\ row # None /\ row.status # "approved" /\ request[u].pc # "deciding"
    BY <1>13, FreshSaves, SubmissionRow, NoneAssumption
       DEF SubmissionStep, SaveAmended, SaveWithdrawn, DeleteRecord, At
  <2>2. row' # None => row'.issuance = row.issuance /\ row'.status # "approved"
    BY <1>13, <2>1, SubmissionRow
  <2>3. row' # None /\ row'.issuance # 0 => \E d \in Users : Approves(request'[d], row'.issuance)
    BY <1>2, <1>10, <1>13, <2>1, <2>2
  <2> QED
    BY <1>9, <1>13, <2>2, <2>3 DEF RecordedOK
<1>14. CASE EndStep(u)
  <2>1. row' = row /\ issued' = issued
    BY <1>14, RowUnchanged, RequestOver
  <2>2. request[u].pc # "deciding"
    BY <1>14 DEF EndStep, SaveRefused, CallFails, Crash, NoteLost, At
  <2>3. row # None =>
          IF row.status = "approved" THEN Matches(row, issued)
          ELSE row.issuance # 0 => \E d \in Users : Approves(request'[d], row.issuance)
    BY <1>2, <1>10, <1>14, <2>2
  <2> QED
    BY <1>2, <1>9, <1>14, <2>1, <2>3 DEF RecordedOK
<1> QED
  BY <1>4, <1>5, <1>6, <1>7, <1>8, <1>11, <1>12, <1>13, <1>14 DEF ApprovalStep, SaveStep

OneDirectorInv == ReviewInv /\ RetryOK /\ RecordedOK

\* One director, any number of other requests: the issuance is known to the row
\* or to the approval that made it, and is the one that the row stands for
THEOREM OneDirectorInvariance == OneDirector => (Spec => []OneDirectorInv)
<1> SUFFICES ASSUME OneDirector PROVE Spec => []OneDirectorInv
  OBVIOUS
<1>1. Init => RetryOK /\ RecordedOK
  <2> SUFFICES ASSUME Init PROVE RetryOK /\ RecordedOK
    OBVIOUS
  <2>1. \A u \in Users : request[u].pc = "idle"
    BY DEF Init, Idle, RequestAt
  <2>2. issued = <<>> /\ Len(issued) = 0 /\ row.issuance = 0 /\ row.status = "not_issued"
    BY DEF Init, NewRecord
  <2>3. RetryOK
    BY <2>1, <2>2 DEF RetryOK, BeforeIssuance, Deciding, Approval
  <2> QED
    BY <2>1, <2>2, <2>3 DEF RecordedOK, CopyRecorded, BeforeIssuance
<1>2. ReviewInv /\ RetryOK /\ RecordedOK /\ [Next]_vars => (RetryOK /\ RecordedOK)'
  <2> SUFFICES ASSUME ReviewInv, RetryOK, RecordedOK, [Next]_vars
               PROVE  RetryOK' /\ RecordedOK'
    OBVIOUS
  <2>1. CASE Next
    BY <2>1, StepKinds, RetryKept, RecordedKept DEF ReviewInv
  <2>2. CASE UNCHANGED vars
    BY <2>2 DEF vars, RetryOK, RecordedOK, At, Copy
  <2> QED
    BY <2>1, <2>2
<1> QED
  BY <1>1, <1>2, ReviewInvariance, PTL DEF Spec, OneDirectorInv

\* The credits of a record are issued once, through calls that fail, retries of
\* the approval and the submission of the next version: the copy that a retry
\* reads shows the issuance that was saved before the decision
THEOREM RetriedOnceHolds == OneDirector => (Spec => []RetriedOnce)
<1>1. OneDirectorInv => RetriedOnce
  BY DEF OneDirectorInv, RetryOK, RetriedOnce
<1> QED
  BY <1>1, OneDirectorInvariance, PTL

\* An approved record names an issuance that has its account and its amount
THEOREM IssuedAsRecordedHolds == OneDirector => (Spec => []IssuedAsRecorded)
<1>1. OneDirectorInv => IssuedAsRecorded
  <2> SUFFICES ASSUME OneDirectorInv, Approved, excused \subseteq {"lost"} PROVE Matches(row, issued)
    BY DEF IssuedAsRecorded, Matches
  <2> QED
    BY DEF OneDirectorInv, RecordedOK, Approved
<1> QED
  BY <1>1, OneDirectorInvariance, PTL

=============================================================================
