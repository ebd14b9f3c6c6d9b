----------------------------- MODULE TransferEvents -----------------------------
(***************************************************************************)
(* Transfers of operations to operators and of facilities to operations    *)
(* (service/transfer_event_service.py), with the timelines that say who    *)
(* held what and when.                                                     *)
(*                                                                         *)
(* An analyst's request validates and then commits; requests of two        *)
(* analysts and the hourly job interleave.  The writes of one transaction  *)
(* are one step: the unique index on open timeline rows lets only one of   *)
(* two transactions close and open a row.                                  *)
(*                                                                         *)
(* What is transferred is an asset, who has it a holder.  Dates are days;  *)
(* contacts, addresses and names are left out.                             *)
(***************************************************************************)
EXTENDS Integers, FiniteSets, Sequences

CONSTANTS
  Operator,
  Operation,
  Facility,
  Owner,        \* the operator of each operation at first
  Home,         \* the operation of each facility at first
  Analyst,
  MaxEvents,    \* bound: transfer events
  MaxRequests,  \* bound: requests of analysts
  LastDay,      \* bound: days
  DaysPerYear,
  MaxKills      \* bound: jobs that are killed

ASSUME AssetsAssumption ==
  /\ Operation \cap Facility = {} /\ Operator \cap Operation = {}
  /\ Owner \in [Operation -> Operator] /\ Home \in [Facility -> Operation]
  /\ Operator # {} /\ Analyst # {}
ASSUME BoundsAssumption ==
  MaxEvents \in Nat /\ MaxRequests \in Nat
  /\ LastDay \in Nat /\ DaysPerYear \in Nat \ {0} /\ MaxKills \in Nat

Asset == Operation \cup Facility
Holder == Operator \cup Operation
Event == 1..MaxEvents
Day == 0..LastDay

\* end_date is null
Open == -1

\* A row of a timeline
Row == [holder : Holder, start : Day, end : Day \cup {Open}]

VARIABLES
  today,
  holder,      \* operator of an operation, operation of a facility
  timeline,    \* the designated operators or operations of each asset
  snapshot,    \* <<facility, operation>> of every FacilitySnapshot
  event,       \* the TransferEvent rows
  request,     \* what each analyst's request is doing
  requests,    \* requests so far
  list,        \* the events the job has read and not processed yet
  authorised,  \* users that are still CAS analysts
  kills,
  raced,       \* auxiliary: was a validation out of date when its request committed?
  stale,       \* auxiliary: events acted on with a copy that differed from the row
  backdated    \* auxiliary: assets transferred before their last transfer

vars == <<today, holder, timeline, snapshot, event, request, requests, list, authorised, kills,
          raced, stale, backdated>>

\* The events, and the copy of one that a request or the job has
Record == [status : {"none", "to be transferred", "transferred", "deleted"},
           assets : SUBSET Asset, from : Holder, to : Holder, effective : Day, by : Analyst]

NoEvent == [status |-> "none", assets |-> {}, from |-> CHOOSE h \in Operator : TRUE,
            to |-> CHOOSE h \in Operator : TRUE, effective |-> 0,
            by |-> CHOOSE u \in Analyst : TRUE]

\* A request: copy is what it read of event id, new what it will write
NoRequest == [op |-> "none", id |-> 0, copy |-> NoEvent, new |-> NoEvent]

Init ==
  /\ today = 0
  /\ holder = [a \in Asset |-> IF a \in Operation THEN Owner[a] ELSE Home[a]]
  /\ timeline = [a \in Asset |-> <<[holder |-> holder[a], start |-> 0, end |-> Open]>>]
  /\ snapshot = {}
  /\ event = [e \in Event |-> NoEvent]
  /\ request = [u \in Analyst |-> NoRequest]
  /\ requests = 0
  /\ list = {}
  /\ authorised = Analyst
  /\ kills = 0
  /\ raced = FALSE
  /\ stale = {}
  /\ backdated = {}

Pending(e) == event[e].status = "to be transferred"

\* _validate_no_overlapping_transfer_events
Overlaps(assets, except) == \E e \in Event \ except : Pending(e) /\ event[e].assets \cap assets # {}

-----------------------------------------------------------------------------
(* Processing an event *)

Last(rows) == rows[Len(rows)]

\* Mutant: the open row is closed whoever has it
Closed_Anyones(rows, from, day) == [rows EXCEPT ![Len(rows)].end = day]

\* get_current_timeline and set_timeline_end_date
Closed(rows, from, day) ==
  IF Last(rows).holder = from THEN [rows EXCEPT ![Len(rows)].end = day] ELSE rows

\* Mutant: the new row starts on the day after
Moved_NextDay(rows, r) ==
  Append(Closed(rows, r.from, r.effective),
         [holder |-> r.to, start |-> r.effective + 1, end |-> Open])

Moved(rows, r) ==
  Append(Closed(rows, r.from, r.effective),
         [holder |-> r.to, start |-> r.effective, end |-> Open])

\* Mutant: no unique index on open rows
CanProcess_Always(r, user) == user \in authorised

\* The unique index on open rows, and the check of the user in update_operator
\* and update_operation_for_facility; otherwise the transaction is rolled back.
CanProcess(r, user) ==
  /\ user \in authorised
  /\ \A a \in r.assets :
       Cardinality({i \in 1..Len(Moved(timeline[a], r)) : Moved(timeline[a], r)[i].end = Open}) = 1

\* _process_facilities_transfer, _process_operation_transfer
Process(r) ==
  /\ timeline' = [a \in Asset |-> IF a \in r.assets THEN Moved(timeline[a], r) ELSE timeline[a]]
  /\ holder' = [a \in Asset |-> IF a \in r.assets THEN r.to ELSE holder[a]]
  /\ snapshot' = snapshot
       \cup {<<f, r.from>> : f \in r.assets \cap Facility}
       \cup {<<f, holder[f]>> : f \in {g \in Facility : holder[g] \in r.assets}}
  /\ backdated' = backdated \cup {a \in r.assets : r.effective < Last(timeline[a]).start}

NotProcessed == UNCHANGED <<timeline, holder, snapshot, backdated>>

\* What is processed for an event of which only a copy is at hand: facilities
\* are read again, the operation and the date are those of the copy.
AsProcessed(copy, row) ==
  [copy EXCEPT !.assets = IF row.assets \subseteq Facility THEN row.assets ELSE copy.assets]

-----------------------------------------------------------------------------
(* Requests of analysts *)

\* What a form offers: one operation of an operator, or facilities of one
\* operation
Offered(assets, from) ==
  /\ assets # {} /\ \A a \in assets : holder[a] = from
  /\ assets \subseteq Facility \/ (assets \subseteq Operation /\ Cardinality(assets) = 1)

Recipients(assets) == IF assets \subseteq Facility THEN Operation ELSE Operator

ValidateCreate(u, assets, from, to, day) ==
  /\ request[u].op = "none" /\ u \in authorised /\ requests < MaxRequests
  /\ requests' = requests + 1
  /\ Offered(assets, from) /\ to \in Recipients(assets) \ {from}
  /\ ~Overlaps(assets, {})
  /\ request' = [request EXCEPT ![u] =
       [NoRequest EXCEPT !.op = "create",
          !.new = [status |-> "to be transferred", assets |-> assets, from |-> from,
                   to |-> to, effective |-> day, by |-> u]]]
  /\ UNCHANGED <<today, holder, timeline, snapshot, event, list, authorised, kills,
                 raced, stale, backdated>>

\* Would the validation of u's request fail now, or its form show other assets?
Outdated(u) ==
  LET r == request[u] IN
  Overlaps(r.new.assets, {r.id}) \/ \E a \in r.new.assets : holder[a] # r.new.from

\* The rest of create_transfer_event for the new row e.  What cannot be
\* processed is not created.
CommitCreate(u, e) ==
  LET r == request[u].new IN
  /\ request[u].op = "create"
  /\ event[e].status = "none" /\ \A x \in 1..(e - 1) : event[x].status # "none"
  /\ \/ /\ r.effective > today
        /\ event' = [event EXCEPT ![e] = r]
        /\ raced' = (raced \/ Outdated(u))
        /\ NotProcessed
     \/ /\ r.effective <= today /\ CanProcess(r, u)
        /\ Process(r)
        /\ event' = [event EXCEPT ![e] = [r EXCEPT !.status = "transferred"]]
        /\ raced' = (raced \/ Outdated(u))
     \/ /\ r.effective <= today /\ ~CanProcess(r, u)
        /\ NotProcessed
        /\ UNCHANGED <<event, raced>>
  /\ request' = [request EXCEPT ![u] = NoRequest]
  /\ UNCHANGED <<today, requests, list, authorised, kills, stale>>

\* update_transfer_event until its writes: other assets of the same holder,
\* another date
ValidateUpdate(u, e, assets, day) ==
  /\ request[u].op = "none" /\ u \in authorised /\ requests < MaxRequests
  /\ requests' = requests + 1
  /\ Pending(e)
  /\ Offered(assets, event[e].from)
  /\ assets \subseteq Facility <=> event[e].assets \subseteq Facility
  /\ ~Overlaps(assets, {e})
  /\ request' = [request EXCEPT ![u] =
       [op |-> "update", id |-> e, copy |-> event[e],
        new |-> [event[e] EXCEPT !.assets = assets, !.effective = day]]]
  /\ UNCHANGED <<today, holder, timeline, snapshot, event, list, authorised, kills,
                 raced, stale, backdated>>

\* The row gets the new values, whatever its status has become; what is
\* processed is the copy that was read before.
CommitUpdate(u) ==
  LET e == request[u].id
      copy == request[u].copy
      new == [event[e] EXCEPT !.assets = request[u].new.assets,
                              !.effective = request[u].new.effective]
      r == AsProcessed(copy, new)
  IN
  /\ request[u].op = "update"
  /\ event[e].status # "deleted"
  /\ \/ /\ new.effective > today
        /\ event' = [event EXCEPT ![e] = new]
        /\ stale' = IF event[e] # copy THEN stale \cup {e} ELSE stale
        /\ raced' = (raced \/ Outdated(u))
        /\ NotProcessed
     \/ /\ new.effective <= today /\ CanProcess(r, u)
        /\ Process(r)
        /\ event' = [event EXCEPT ![e] = [new EXCEPT !.status = "transferred"]]
        /\ stale' = IF event[e] # copy \/ r # new THEN stale \cup {e} ELSE stale
        /\ raced' = (raced \/ Outdated(u))
     \/ /\ new.effective <= today /\ ~CanProcess(r, u)
        /\ NotProcessed
        /\ UNCHANGED <<event, stale, raced>>
  /\ request' = [request EXCEPT ![u] = NoRequest]
  /\ UNCHANGED <<today, requests, list, authorised, kills>>

\* delete_transfer_event reads and deletes without a transaction
ValidateDelete(u, e) ==
  /\ request[u].op = "none" /\ u \in authorised /\ requests < MaxRequests
  /\ requests' = requests + 1
  /\ Pending(e)
  /\ request' = [request EXCEPT ![u] = [NoRequest EXCEPT !.op = "delete", !.id = e]]
  /\ UNCHANGED <<today, holder, timeline, snapshot, event, list, authorised, kills,
                 raced, stale, backdated>>

CommitDelete(u) ==
  /\ request[u].op = "delete"
  /\ event' = [event EXCEPT ![request[u].id] = [NoEvent EXCEPT !.status = "deleted"]]
  /\ request' = [request EXCEPT ![u] = NoRequest]
  /\ UNCHANGED <<today, holder, timeline, snapshot, requests, list, authorised, kills,
                 raced, stale, backdated>>

\* The row is gone, or no row is left within the bound
Abandon(u) ==
  /\ \/ request[u].op = "update" /\ event[request[u].id].status = "deleted"
     \/ request[u].op = "create" /\ \A e \in Event : event[e].status # "none"
  /\ request' = [request EXCEPT ![u] = NoRequest]
  /\ UNCHANGED <<today, holder, timeline, snapshot, event, requests, list, authorised, kills,
                 raced, stale, backdated>>

\* u is given another role
LosesRole(u) ==
  /\ u \in authorised /\ Cardinality(authorised) > 1
  /\ authorised' = authorised \ {u}
  /\ UNCHANGED <<today, holder, timeline, snapshot, event, request, requests, list, kills,
                 raced, stale, backdated>>

-----------------------------------------------------------------------------
(* The hourly job, process_due_transfer_events *)

\* Mutant: the day itself is left out
Due_Passed(e) == Pending(e) /\ event[e].effective < today

Due(e) == Pending(e) /\ event[e].effective <= today

ReadDue ==
  /\ list = {} /\ \E e \in Event : Due(e)
  /\ list' = {[id |-> e, copy |-> event[e]] : e \in {x \in Event : Due(x)}}
  /\ UNCHANGED <<today, holder, timeline, snapshot, event, request, requests, authorised, kills,
                 raced, stale, backdated>>

\* One event of the list, in a transaction of its own; its status is not read
\* again, and a deleted row cannot be saved.
ProcessNext(x) ==
  LET row == event[x.id]
      r == AsProcessed(x.copy, row)
      ok == row.status # "deleted" /\ CanProcess(r, x.copy.by)
  IN
  /\ x \in list
  /\ \/ /\ ok /\ Process(r)
        /\ event' = [event EXCEPT ![x.id].status = "transferred"]
        /\ stale' = IF row # x.copy THEN stale \cup {x.id} ELSE stale
     \/ ~ok /\ NotProcessed /\ UNCHANGED <<event, stale>>
  /\ list' = list \ {x}
  /\ UNCHANGED <<today, request, requests, authorised, kills, raced>>

Kill ==
  /\ list # {} /\ kills < MaxKills
  /\ kills' = kills + 1
  /\ list' = {}
  /\ UNCHANGED <<today, holder, timeline, snapshot, event, request, requests, authorised,
                 raced, stale, backdated>>

Tick ==
  /\ today < LastDay
  /\ today' = today + 1
  /\ UNCHANGED <<holder, timeline, snapshot, event, request, requests, list, authorised, kills,
                 raced, stale, backdated>>

Job == ReadDue \/ \E x \in list : ProcessNext(x)

Asks(u) ==
  \/ \E assets \in SUBSET Asset, from \in Holder, to \in Holder, day \in Day :
       ValidateCreate(u, assets, from, to, day)
  \/ \E e \in Event, assets \in SUBSET Asset, day \in Day : ValidateUpdate(u, e, assets, day)
  \/ \E e \in Event : ValidateDelete(u, e)

Commits(u) ==
  \/ \E e \in Event : CommitCreate(u, e)
  \/ CommitUpdate(u) \/ CommitDelete(u) \/ Abandon(u)

Next ==
  \/ \E u \in Analyst : Asks(u) \/ Commits(u) \/ LosesRole(u)
  \/ Job \/ Kill \/ Tick

Spec == Init /\ [][Next]_vars

\* Airflow starts the job every hour; nobody has to ask for anything.
FairSpec == Spec /\ WF_vars(Job)

-----------------------------------------------------------------------------
\* The shape of the state
TypeOK ==
  /\ today \in Day
  /\ holder \in [Asset -> Holder]
  /\ timeline \in [Asset -> Seq(Row)]
  /\ snapshot \subseteq Facility \X Operation
  /\ event \in [Event -> Record]
  /\ request \in [Analyst -> [op : {"none", "create", "update", "delete"},
                              id : Event \cup {0}, copy : Record, new : Record]]
  /\ list \subseteq [id : Event, copy : Record]
  /\ authorised \subseteq Analyst
  /\ kills \in 0..MaxKills
  /\ raced \in BOOLEAN
  /\ stale \subseteq Event
  /\ backdated \subseteq Asset

\* However requests, the job and copies race, the rows of a timeline follow one
\* another without a gap, the last is open and names the present holder, and who
\* no longer has a facility keeps a snapshot of it (the transactions of
\* _process_single_event with the unique index on open rows).
OneHolder ==
  \A a \in Asset :
    LET rows == timeline[a] IN
    /\ Last(rows).end = Open /\ Last(rows).holder = holder[a]
    /\ \A i \in 1..(Len(rows) - 1) :
         /\ rows[i].end = rows[i + 1].start
         /\ a \in Facility => <<a, rows[i].holder>> \in snapshot

\* An event that is marked transferred moved each of its assets from and to the
\* holders and on the day it names, unless it was acted on with an old copy
\* (the status that _process_single_event saves).
TransferredAsRecorded ==
  \A e \in Event : event[e].status = "transferred" /\ e \notin stale =>
    \A a \in event[e].assets : \E i \in 1..(Len(timeline[a]) - 1) :
      /\ timeline[a][i].holder = event[e].from
      /\ timeline[a][i + 1].holder = event[e].to
      /\ timeline[a][i + 1].start = event[e].effective

Year(d) == d \div DaysPerYear

\* Mutant: who gives an operation away in a year may still report for it
Answers_SameYear(row, year) == Year(row.start) <= year /\ (row.end = Open \/ Year(row.end) >= year)

\* The filter of get_operation_designated_operator_for_reporting_year
Answers(row, year) == Year(row.start) <= year /\ (row.end = Open \/ Year(row.end) > year)

\* For every year one row says who reports for an operation, so that the first
\* that is found is the only one, unless a transfer was dated before an earlier
\* one (get_operation_designated_operator_for_reporting_year).
OneReporter ==
  \A o \in Operation \ backdated, year \in 0..Year(today) :
    Cardinality({i \in 1..Len(timeline[o]) : Answers(timeline[o][i], year)}) = 1

\* From its effective date on an event is overdue until something is done.
Overdue(e) == event[e].status = "to be transferred" /\ today >= event[e].effective

\* An overdue event is transferred in the end, put off or deleted, unless its
\* analyst has lost the role or requests raced (process_due_transfer_events).
DueIsTransferred ==
  \A e \in Event :
    Overdue(e) ~> (~Overdue(e) \/ event[e].by \notin authorised \/ raced \/ stale # {})
=============================================================================
