----------------------------- MODULE EarnedCredits -----------------------------
(***************************************************************************)
(* One earned-credit record from the request of its issuance to the        *)
(* decision: compliance/service/earned_credits_service.py, with the two    *)
(* calls to the BC Carbon Registry (BCCR) that an approval makes, and the  *)
(* submission of the next report version, which amends, declines or        *)
(* deletes the record.                                                     *)
(*                                                                         *)
(* A request reads the record once, decides on that copy, and writes: the  *)
(* three roles save the fields they changed (update_fields), a submission  *)
(* saves the whole copy or deletes the row.  There is no row lock and no   *)
(* transaction around update_earned_credit, so reading and every save are  *)
(* steps of their own.  Trading name, comments, dates and e-mails are left *)
(* out; a project in the registry is named by the account it was made for, *)
(* and an issuance by its place in the list of issuances.                  *)
(***************************************************************************)
EXTENDS Integers, Sequences, FiniteSets

CONSTANTS
  Industry,      \* requests of industry users
  Analyst,       \* requests of CAS analysts
  Director,      \* requests of CAS directors
  Submission,    \* submissions of the next report version
  Account,       \* BCCR holding accounts
  FirstAmount,   \* credits of the record when it is created
  Delta,         \* changes of the credits a next version may bring
  Crashes,       \* may a process die, or an answer of the registry be lost?
  MaxInFlight,   \* bound: requests in progress at a time
  MaxIssuances,  \* bound: issuances in the registry
  None           \* NULL

ASSUME AmountAssumption == FirstAmount \in Nat /\ Delta \subseteq Int
ASSUME BoundAssumption == MaxInFlight \in Nat /\ MaxIssuances \in Nat
ASSUME CrashesAssumption == Crashes \in BOOLEAN

VARIABLES
  row,      \* the ComplianceEarnedCredit record, None once deleted
  request,  \* what each request is doing, with its copy of the record
  issued,   \* external: the issuances in the registry, oldest first
  reviewed, \* auxiliary: the account when the analyst last found it ready
  excused   \* auxiliary: "stale" once a save met a newer row; "lost" or "undecided"
            \* once an approval died before the issuance's id, or the decision, was kept

vars == <<row, request, issued, reviewed, excused>>

IssuanceStatus == {"not_issued", "requested", "changes_required", "approved", "declined"}
Final == {"approved", "declined"}

AnalystSuggestion == {"ready", "change_account", "supplementary_report"}
Suggestions == AnalystSuggestion \cup {None}

\* bccr_project_id, bccr_issuance_id: None and 0 until they are known
EarnedCredit == [status : IssuanceStatus, amount : Nat, account : Account \cup {None},
                 suggestion : Suggestions, project : Account \cup {None}, issuance : Nat]

ASSUME NoneAssumption == None \notin Account \cup AnalystSuggestion \cup EarnedCredit

Users == Industry \cup Analyst \cup Director \cup Submission

Steps == {"idle", "checking", "reviewing", "project", "saving_project", "issuing",
          "saving_issuance", "deciding", "amending", "withdrawing", "superceding", "done"}

Inputs == Account \cup Suggestions \cup Final

Request == [pc : Steps, read : EarnedCredit \cup {None}, input : Inputs]

RequestAt(pc, read, input) == [pc |-> pc, read |-> read, input |-> input]
Idle == RequestAt("idle", None, None)

At(u, pc) == request[u].pc = pc
Copy(u) == request[u].read
Input(u) == request[u].input

NewRecord == [status |-> "not_issued", amount |-> FirstAmount, account |-> None,
              suggestion |-> None, project |-> None, issuance |-> 0]

Init ==
  /\ row = NewRecord
  /\ request = [u \in Users |-> Idle]
  /\ issued = <<>>
  /\ reviewed = None
  /\ excused = {}

-----------------------------------------------------------------------------
(* Steps shared by the roles *)

\* The record is looked up; without one the request is refused
Reads(u, pc, input) ==
  /\ At(u, "idle")
  /\ Cardinality({w \in Users : request[w].pc \notin {"idle", "done"}}) < MaxInFlight
  /\ row # None
  /\ request' = [request EXCEPT ![u] = RequestAt(pc, row, input)]
  /\ UNCHANGED <<row, issued, reviewed, excused>>

Ends(u) == request' = [request EXCEPT ![u] = Idle]

\* The row is no longer the one the request read
NoteStale(u) ==
  excused' = IF row # Copy(u) THEN excused \cup {"stale"} ELSE excused

\* A request ends with an issuance in the registry and no trace of it, or no
\* decision on it, in the record
NoteLost(u) ==
  excused' = excused \cup (IF At(u, "saving_issuance") THEN {"lost"}
                           ELSE IF At(u, "deciding") THEN {"undecided"} ELSE {})

\* save(update_fields=...) of a row that was deleted raises
SaveRefused(u) ==
  /\ request[u].pc \in {"checking", "reviewing", "saving_project", "saving_issuance", "deciding"}
  /\ row = None
  /\ NoteLost(u)
  /\ Ends(u)
  /\ UNCHANGED <<row, issued, reviewed>>

\* The registry refuses a call or cannot be reached; nothing was changed
CallFails(u) ==
  /\ request[u].pc \in {"checking", "project", "issuing"}
  /\ Ends(u)
  /\ UNCHANGED <<row, issued, reviewed, excused>>

\* The process dies, or the answer of a call that took effect is lost
Crash(u) ==
  /\ Crashes
  /\ request[u].pc \in {"saving_project", "saving_issuance", "deciding"}
  /\ NoteLost(u)
  /\ Ends(u)
  /\ UNCHANGED <<row, issued, reviewed>>

-----------------------------------------------------------------------------
(* _handle_industry_user_update *)

IndustryReads(u, account) ==
  /\ row # None /\ row.status \in {"not_issued", "changes_required"}
  /\ Reads(u, "checking", account)

\* The account was checked in the registry between reading and saving
IndustrySaves(u) ==
  /\ At(u, "checking")
  /\ row # None
  /\ row' = [row EXCEPT !.status = "requested", !.account = Input(u)]
  /\ NoteStale(u)
  /\ Ends(u)
  /\ UNCHANGED <<issued, reviewed>>

-----------------------------------------------------------------------------
(* _handle_cas_analyst_update *)

\* Mutant: the analyst may go back on a decision
AnalystReads_Final(u, suggestion) ==
  /\ row # None /\ row.status # "not_issued"
  /\ Reads(u, "reviewing", suggestion)

AnalystReads(u, suggestion) ==
  /\ row # None
  /\ row.suggestion # "supplementary_report"
  /\ row.status \in {"requested", "changes_required"}
  /\ Reads(u, "reviewing", suggestion)

\* Mutant: the suggestion is stored as the status
StatusAfter_Unmapped(suggestion, status) == suggestion

\* suggestion_to_status
StatusAfter(suggestion, status) ==
  CASE suggestion = "change_account"       -> "changes_required"
    [] suggestion = "supplementary_report" -> "declined"
    [] suggestion = "ready"                -> "requested"
    [] OTHER                               -> status

AnalystSaves(u) ==
  /\ At(u, "reviewing")
  /\ row # None
  /\ row' = [row EXCEPT !.status = StatusAfter(Input(u), Copy(u).status),
                        !.suggestion = Input(u)]
  /\ reviewed' = IF Input(u) = "ready" THEN Copy(u).account ELSE reviewed
  /\ NoteStale(u)
  /\ Ends(u)
  /\ UNCHANGED issued

-----------------------------------------------------------------------------
(* _handle_cas_director_update *)

\* Mutant: the director does not wait for the analyst
DirectorReads_NoReview(u, decision) ==
  /\ row # None /\ row.account # None /\ row.status = "requested"
  /\ Reads(u, IF decision = "approved" THEN "project" ELSE "deciding", decision)

DirectorReads(u, decision) ==
  /\ row # None
  /\ row.account # None
  /\ row.suggestion = "ready"
  /\ row.status = "requested"
  /\ Reads(u, IF decision = "approved" THEN "project" ELSE "deciding", decision)

\* create_bccr_project_for_earned_credit: fetched when its id is known
FetchProject(u) ==
  /\ At(u, "project")
  /\ Copy(u).project # None
  /\ request' = [request EXCEPT ![u].pc = "issuing"]
  /\ UNCHANGED <<row, issued, reviewed, excused>>

CreateProject(u) ==
  /\ At(u, "project")
  /\ Copy(u).project = None
  /\ request' = [request EXCEPT ![u].pc = "saving_project"]
  /\ UNCHANGED <<row, issued, reviewed, excused>>

SaveProject(u) ==
  /\ At(u, "saving_project")
  /\ row # None
  /\ row' = [row EXCEPT !.project = Copy(u).account]
  /\ NoteStale(u)
  /\ request' = [request EXCEPT ![u] =
       RequestAt("issuing", [Copy(u) EXCEPT !.project = Copy(u).account], Input(u))]
  /\ UNCHANGED <<issued, reviewed>>

\* issue_bccr_credits_for_earned_credit: skipped when its id is known
SkipIssuance(u) ==
  /\ At(u, "issuing")
  /\ Copy(u).issuance # 0
  /\ request' = [request EXCEPT ![u].pc = "deciding"]
  /\ UNCHANGED <<row, issued, reviewed, excused>>

\* Mutant: the registry refuses, and the approval goes on
IssueCredits_Ignored(u) ==
  /\ At(u, "issuing")
  /\ request' = [request EXCEPT ![u].pc = "deciding"]
  /\ UNCHANGED <<row, issued, reviewed, excused>>

\* Mutant: the id of an issuance is neither looked at nor kept
IssueCredits_Again(u) ==
  /\ At(u, "issuing")
  /\ Len(issued) < MaxIssuances
  /\ issued' = Append(issued, [account |-> Copy(u).account, amount |-> Copy(u).amount])
  /\ request' = [request EXCEPT ![u].pc = "saving_issuance"]
  /\ UNCHANGED <<row, reviewed, excused>>

IssueCredits(u) ==
  /\ At(u, "issuing")
  /\ Copy(u).issuance = 0
  /\ Len(issued) < MaxIssuances
  /\ issued' = Append(issued, [account |-> Copy(u).account, amount |-> Copy(u).amount])
  /\ request' = [request EXCEPT ![u] =
       RequestAt("saving_issuance", [Copy(u) EXCEPT !.issuance = Len(issued) + 1], Input(u))]
  /\ UNCHANGED <<row, reviewed, excused>>

SaveIssuance(u) ==
  /\ At(u, "saving_issuance")
  /\ row # None
  /\ row' = [row EXCEPT !.issuance = Copy(u).issuance]
  /\ excused' = IF row # [Copy(u) EXCEPT !.issuance = row.issuance]
                THEN excused \cup {"stale"} ELSE excused
  /\ request' = [request EXCEPT ![u].pc = "deciding"]
  /\ UNCHANGED <<issued, reviewed>>

SaveDecision(u) ==
  /\ At(u, "deciding")
  /\ row # None
  /\ row' = [row EXCEPT !.status = Input(u)]
  /\ NoteStale(u)
  /\ Ends(u)
  /\ UNCHANGED <<issued, reviewed>>

-----------------------------------------------------------------------------
(* The next version is submitted; see SupplementaryVersions for the choice   *)
(* among the handlers.  Each record is the previous one of one version only. *)

SubmissionReads(u, pc, status) ==
  /\ row # None /\ row.status \in status
  /\ \A w \in Submission : At(w, "idle")
  /\ Reads(u, pc, None)

Amends(u) == SubmissionReads(u, "amending", {"not_issued"})
Withdraws(u) ==
  SubmissionReads(u, "withdrawing", {"requested", "changes_required", "declined"})
Supercedes(u) == SubmissionReads(u, "superceding", {"not_issued"})

Submitted(u, new) ==
  /\ row' = new
  /\ NoteStale(u)
  /\ request' = [request EXCEPT ![u] = RequestAt("done", None, None)]
  /\ UNCHANGED <<issued, reviewed>>

\* previous_earned_credit.save() writes every field
SaveAmended(u, delta) ==
  /\ At(u, "amending")
  /\ Copy(u).amount + delta >= 0
  /\ Submitted(u, [Copy(u) EXCEPT !.amount = Copy(u).amount + delta])

SaveWithdrawn(u) ==
  /\ At(u, "withdrawing")
  /\ Submitted(u, [Copy(u) EXCEPT !.status = "declined"])

DeleteRecord(u) ==
  /\ At(u, "superceding")
  /\ Submitted(u, None)

-----------------------------------------------------------------------------
IndustryNext(u) ==
  \/ \E account \in Account : IndustryReads(u, account)
  \/ IndustrySaves(u)

AnalystNext(u) ==
  \/ \E suggestion \in Suggestions : AnalystReads(u, suggestion)
  \/ AnalystSaves(u)

DirectorNext(u) ==
  \/ \E decision \in Final : DirectorReads(u, decision)
  \/ FetchProject(u) \/ CreateProject(u) \/ SaveProject(u)
  \/ SkipIssuance(u) \/ IssueCredits(u) \/ SaveIssuance(u) \/ SaveDecision(u)

SubmissionNext(u) ==
  \/ Amends(u) \/ Withdraws(u) \/ Supercedes(u)
  \/ \E delta \in Delta : SaveAmended(u, delta)
  \/ SaveWithdrawn(u) \/ DeleteRecord(u)

Next ==
  \/ \E u \in Industry : IndustryNext(u)
  \/ \E u \in Analyst : AnalystNext(u)
  \/ \E u \in Director : DirectorNext(u)
  \/ \E u \in Submission : SubmissionNext(u)
  \/ \E u \in Users : SaveRefused(u) \/ CallFails(u) \/ Crash(u)

Spec == Init /\ [][Next]_vars

-----------------------------------------------------------------------------
(* Properties *)

TypeOK ==
  /\ row \in EarnedCredit \cup {None}
  /\ request \in [Users -> Request]
  /\ issued \in Seq([account : Account \cup {None}, amount : Nat])
  /\ reviewed \in Account \cup {None}
  /\ excused \subseteq {"stale", "lost", "undecided"}

Approved == row # None /\ row.status = "approved"

\* The documentation's "This status means the credits have been issued in
\* BCCR": whatever requests, submissions, failures and stale saves interleave,
\* a record says approved only when the registry holds an issuance for it
ApprovedIsIssued == Approved => issued # <<>>

\* ... and the approved record points at the issuance, which has its amount and
\* its account, unless a save met a newer row, or an approval died before its
\* decision was saved and the account was changed for the next one
IssuedAsRecorded ==
  Approved /\ excused \subseteq {"lost"} =>
    /\ row.issuance \in 1..Len(issued)
    /\ issued[row.issuance] = [account |-> row.account, amount |-> row.amount]

\* Unless a save met a newer row or the id of an issuance was lost, one
\* director at a time issues the credits of a record once, through failing
\* calls, retries and a next version
RetriedOnce == excused \subseteq {"undecided"} => Len(issued) <= 1

\* The docstring "ensuring idempotency" of issue_bccr_credits_for_earned_credit
IssuedOnce == Len(issued) <= 1

\* An approved record names the account that the analyst found ready, even when
\* the industry user changed it between two reviews, unless a save met a newer
\* row; with IssuedAsRecorded, the credits went there
ApprovedIsReviewed == Approved /\ "stale" \notin excused => row.account = reviewed

\* An approved or declined record keeps its status and is not deleted, unless
\* by a save of a copy that was read before
FinalStays ==
  [][row # None /\ row.status \in Final =>
       \/ row' # None /\ row'.status = row.status
       \/ "stale" \in excused']_vars

=============================================================================
