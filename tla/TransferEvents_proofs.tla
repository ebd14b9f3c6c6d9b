-------------------------- MODULE TransferEvents_proofs --------------------------
(* The invariants of TransferEvents, for any number of assets, holders,         *)
(* analysts, events and days: the timelines stay whole however requests, the    *)
(* job and their copies race, one row says who reports for a year, and what is  *)
(* marked transferred moved as its event says.                                  *)
EXTENDS TransferEvents, FiniteSetTheorems, SequenceTheorems, TLAPS

Request == [op : {"none", "create", "update", "delete"},
            id : Event \cup {0}, copy : Record, new : Record]

\* What OneHolder needs of the other variables: there is a row for every asset,
\* and what requests and the job carry along are copies of events.
Shape ==
  /\ holder \in [Asset -> Holder]
  /\ timeline \in [Asset -> Seq(Row)]
  /\ \A a \in Asset : Len(timeline[a]) >= 1
  /\ event \in [Event -> Record]
  /\ request \in [Analyst -> Request]
  /\ \A u \in Analyst : request[u].op \in {"update", "delete"} => request[u].id \in Event
  /\ list \subseteq [id : Event, copy : Record]

IInv == Shape /\ OneHolder

-----------------------------------------------------------------------------
(* Records *)

LEMMA NoEventIsRecord == NoEvent \in Record
<1>1. (CHOOSE h \in Operator : TRUE) \in Operator /\ (CHOOSE u \in Analyst : TRUE) \in Analyst
  BY AssetsAssumption
<1>2. 0 \in Day
  BY BoundsAssumption DEF Day
<1>. QED
  BY <1>1, <1>2 DEF NoEvent, Record, Holder

LEMMA NoRequestIsRequest == NoRequest \in Request
  BY NoEventIsRecord DEF NoRequest, Request

\* Other assets, another date or another status make another record.
LEMMA RecordChanges ==
  ASSUME NEW r \in Record, NEW assets \in SUBSET Asset, NEW day \in Day,
         NEW st \in {"none", "to be transferred", "transferred", "deleted"}
  PROVE  /\ [r EXCEPT !.assets = assets] \in Record
         /\ [r EXCEPT !.status = st] \in Record
         /\ [r EXCEPT !.assets = assets, !.effective = day] \in Record
  BY DEF Record

LEMMA AsProcessedIsRecord ==
  ASSUME NEW copy \in Record, NEW row \in Record
  PROVE  AsProcessed(copy, row) \in Record
<1>1. row.assets \in SUBSET Asset /\ copy.assets \in SUBSET Asset
  BY DEF Record
<1>. QED
  BY <1>1 DEF AsProcessed, Record

-----------------------------------------------------------------------------
(* Timelines *)

\* Moving keeps the earlier rows, closes the last one when the one it moves
\* from is its holder, and adds an open row.
LEMMA MovedRows ==
  ASSUME NEW rows \in Seq(Row), Len(rows) >= 1, NEW r \in Record
  PROVE  /\ Moved(rows, r) \in Seq(Row)
         /\ Len(Moved(rows, r)) = Len(rows) + 1
         /\ Moved(rows, r)[Len(rows) + 1]
              = [holder |-> r.to, start |-> r.effective, end |-> Open]
         /\ \A i \in 1..(Len(rows) - 1) : Moved(rows, r)[i] = rows[i]
         /\ Moved(rows, r)[Len(rows)]
              = IF Last(rows).holder = r.from
                  THEN [Last(rows) EXCEPT !.end = r.effective] ELSE Last(rows)
<1>. DEFINE n == Len(rows)
            closed == Closed(rows, r.from, r.effective)
            new == [holder |-> r.to, start |-> r.effective, end |-> Open]
            shut == [rows[n] EXCEPT !.end = r.effective]
<1>1. n \in Nat /\ n \in 1..n
  BY LenProperties
<1>2. rows[n] \in Row
  BY <1>1, ElementOfSeq
<1>3. r.effective \in Day /\ r.to \in Holder
  BY DEF Record
<1>4. shut \in Row /\ new \in Row
  BY <1>2, <1>3 DEF Row
<1>5. [rows EXCEPT ![n].end = r.effective] = [rows EXCEPT ![n] = shut]
  BY <1>1, LenProperties
<1>6. /\ closed \in Seq(Row) /\ Len(closed) = n
      /\ \A i \in 1..n : closed[i] = IF i = n /\ rows[n].holder = r.from THEN shut ELSE rows[i]
  <2>1. CASE rows[n].holder = r.from
    <3>1. closed = [rows EXCEPT ![n] = shut]
      BY <2>1, <1>5 DEF Closed, Last
    <3>2. /\ [rows EXCEPT ![n] = shut] \in Seq(Row) /\ Len([rows EXCEPT ![n] = shut]) = n
          /\ \A i \in 1..n : [rows EXCEPT ![n] = shut][i] = IF i = n THEN shut ELSE rows[i]
      BY <1>1, <1>4, ExceptSeq
    <3>. QED
      BY <2>1, <3>1, <3>2
  <2>2. CASE rows[n].holder # r.from
    BY <2>2 DEF Closed, Last
  <2>. QED
    BY <2>1, <2>2
<1>7. Moved(rows, r) = Append(closed, new)
  BY DEF Moved
<1>. HIDE DEF closed, new, shut
<1>8. /\ Append(closed, new) \in Seq(Row) /\ Len(Append(closed, new)) = n + 1
      /\ Append(closed, new)[n + 1] = new
      /\ \A i \in 1..n : Append(closed, new)[i] = closed[i]
  BY <1>1, <1>4, <1>6
<1>9. Moved(rows, r)[n] = IF rows[n].holder = r.from THEN shut ELSE rows[n]
  BY <1>1, <1>6, <1>7, <1>8
<1>10. \A i \in 1..(n - 1) : Moved(rows, r)[i] = rows[i]
  <2>. SUFFICES ASSUME NEW i \in 1..(n - 1) PROVE Moved(rows, r)[i] = rows[i]
    OBVIOUS
  <2>1. i \in 1..n /\ i # n
    BY <1>1
  <2>. QED
    BY <2>1, <1>6, <1>7, <1>8
<1>11. Moved(rows, r) \in Seq(Row) /\ Len(Moved(rows, r)) = n + 1 /\ Moved(rows, r)[n + 1] = new
  BY <1>7, <1>8
<1>. QED
  BY <1>9, <1>10, <1>11 DEF new, shut, Last

\* An index on open rows that holds after the move says that a last open row was
\* closed, which is that its holder is the one moved from.
LEMMA OneOpenRow ==
  ASSUME NEW rows \in Seq(Row), Len(rows) >= 1, NEW r \in Record,
         Last(rows).end = Open,
         Cardinality({i \in 1..Len(Moved(rows, r)) : Moved(rows, r)[i].end = Open}) = 1
  PROVE  Last(rows).holder = r.from
<1>. DEFINE n == Len(rows)
            m == Len(Moved(rows, r))
            open == {i \in 1..m : Moved(rows, r)[i].end = Open}
<1>. SUFFICES ASSUME Last(rows).holder # r.from PROVE FALSE
  OBVIOUS
<1>1. /\ m = n + 1
      /\ Moved(rows, r)[n + 1] = [holder |-> r.to, start |-> r.effective, end |-> Open]
      /\ Moved(rows, r)[n] = Last(rows)
  BY MovedRows
<1>2. Moved(rows, r)[n + 1].end = Open /\ Moved(rows, r)[n].end = Open
  BY <1>1
<1>3. n \in Nat /\ n >= 1
  BY LenProperties
<1>. HIDE DEF n, m
<1>4. n \in 1..m /\ n + 1 \in 1..m /\ m \in Int
  BY <1>1, <1>3
<1>5. n \in open /\ n + 1 \in open
  BY <1>2, <1>4
<1>6. IsFiniteSet(open)
  <2>1. IsFiniteSet(1..m)
    BY <1>4, FS_Interval
  <2>. QED
    BY <2>1, FS_Subset
<1>7. \E i : open = {i}
  <2>1. Cardinality(open) = 1
    BY DEF m
  <2>. QED
    BY <1>6, <2>1, FS_Singleton
<1>. QED
  BY <1>3, <1>5, <1>7

\* What may be processed is processed with the timelines kept whole.
LEMMA ProcessKeeps ==
  ASSUME Shape, OneHolder, NEW r \in Record, NEW u, CanProcess(r, u), Process(r)
  PROVE  /\ holder' \in [Asset -> Holder]
         /\ timeline' \in [Asset -> Seq(Row)]
         /\ \A a \in Asset : Len(timeline'[a]) >= 1
         /\ OneHolder'
<1>1. r.assets \in SUBSET Asset /\ r.to \in Holder /\ r.effective \in Day
  BY DEF Record
<1>2. \A a \in Asset : timeline[a] \in Seq(Row) /\ Len(timeline[a]) >= 1
  BY DEF Shape
<1>3. ASSUME NEW a \in r.assets
      PROVE  Moved(timeline[a], r) \in Seq(Row) /\ Len(Moved(timeline[a], r)) >= 1
  <2>1. timeline[a] \in Seq(Row) /\ Len(timeline[a]) >= 1 /\ Len(timeline[a]) \in Nat
    BY <1>1, <1>2, LenProperties
  <2>2. /\ Moved(timeline[a], r) \in Seq(Row)
        /\ Len(Moved(timeline[a], r)) = Len(timeline[a]) + 1
    BY <2>1, MovedRows
  <2>. QED
    BY <2>1, <2>2
<1>4. holder' \in [Asset -> Holder] /\ timeline' \in [Asset -> Seq(Row)]
  BY <1>1, <1>2, <1>3 DEF Process, Shape
<1>5. \A a \in Asset : Len(timeline'[a]) >= 1
  BY <1>1, <1>2, <1>3 DEF Process
<1>6. ASSUME NEW a \in Asset
      PROVE  /\ Last(timeline'[a]).end = Open /\ Last(timeline'[a]).holder = holder'[a]
             /\ \A i \in 1..(Len(timeline'[a]) - 1) :
                  /\ timeline'[a][i].end = timeline'[a][i + 1].start
                  /\ a \in Facility => <<a, timeline'[a][i].holder>> \in snapshot'
  <2>. DEFINE rows == timeline[a]
              n == Len(rows)
  <2>1. snapshot \subseteq snapshot'
    BY DEF Process
  <2>2. rows \in Seq(Row) /\ n >= 1 /\ n \in Nat
    BY <1>2, LenProperties
  <2>3. /\ rows[n].end = Open /\ rows[n].holder = holder[a]
        /\ \A i \in 1..(n - 1) : /\ rows[i].end = rows[i + 1].start
                                 /\ a \in Facility => <<a, rows[i].holder>> \in snapshot
    BY DEF OneHolder, Last
  <2>4. CASE a \notin r.assets
    <3>1. timeline'[a] = rows /\ holder'[a] = holder[a]
      BY <2>4 DEF Process
    <3>. QED
      BY <3>1, <2>1, <2>3 DEF Last
  <2>5. CASE a \in r.assets
    <3>. DEFINE moved == Moved(rows, r)
    <3>1. timeline'[a] = moved /\ holder'[a] = r.to
      BY <2>5 DEF Process
    <3>2. rows[n].holder = r.from
      BY <2>2, <2>3, <2>5, OneOpenRow DEF CanProcess, Last
    <3>3. /\ Len(moved) = n + 1
          /\ moved[n + 1] = [holder |-> r.to, start |-> r.effective, end |-> Open]
          /\ \A i \in 1..(n - 1) : moved[i] = rows[i]
          /\ moved[n] = [rows[n] EXCEPT !.end = r.effective]
      BY <2>2, <3>2, MovedRows DEF Last
    <3>4. rows[n] \in Row
      BY <2>2, ElementOfSeq
    <3>5. moved[n].start = rows[n].start /\ moved[n].end = r.effective /\ moved[n].holder = r.from
      BY <3>2, <3>3, <3>4 DEF Row
    <3>6. a \in Facility => <<a, r.from>> \in snapshot'
      BY <2>5 DEF Process
    <3>. HIDE DEF moved
    <3>7. ASSUME NEW i \in 1..n
          PROVE  /\ moved[i].end = moved[i + 1].start
                 /\ a \in Facility => <<a, moved[i].holder>> \in snapshot'
      <4>1. CASE i = n
        BY <4>1, <3>3, <3>5, <3>6
      <4>2. CASE i # n
        <5>1. i \in 1..(n - 1) /\ i + 1 \in 1..n
          BY <4>2, <2>2
        <5>2. moved[i] = rows[i] /\ moved[i + 1].start = rows[i + 1].start
          <6>1. CASE i + 1 = n
            BY <5>1, <6>1, <3>3, <3>5
          <6>2. CASE i + 1 # n
            <7>1. i + 1 \in 1..(n - 1)
              BY <5>1, <6>2, <2>2
            <7>. QED
              BY <7>1, <5>1, <3>3
          <6>. QED
            BY <6>1, <6>2
        <5>. QED
          BY <5>1, <5>2, <2>1, <2>3
      <4>. QED
        BY <4>1, <4>2
    <3>8. Len(timeline'[a]) - 1 = n
      BY <3>1, <3>3, <2>2
    <3>. QED
      BY <3>1, <3>3, <3>7, <3>8 DEF Last
  <2>. QED
    BY <2>4, <2>5
<1>. QED
  BY <1>4, <1>5, <1>6 DEF OneHolder

\* A step that moves nothing.
LEMMA StillHolds ==
  ASSUME Shape, OneHolder, UNCHANGED <<timeline, holder, snapshot>>
  PROVE  /\ holder' \in [Asset -> Holder]
         /\ timeline' \in [Asset -> Seq(Row)]
         /\ \A a \in Asset : Len(timeline'[a]) >= 1
         /\ OneHolder'
  BY DEF Shape, OneHolder

-----------------------------------------------------------------------------
(* The invariant *)

LEMMA ForgetsRequest ==
  ASSUME Shape, NEW u \in Analyst, request' = [request EXCEPT ![u] = NoRequest]
  PROVE  /\ request' \in [Analyst -> Request]
         /\ \A v \in Analyst : request'[v].op \in {"update", "delete"} => request'[v].id \in Event
  BY NoRequestIsRequest DEF Shape, NoRequest

\* A request that was validated
LEMMA AsksKeeps ==
  ASSUME IInv, NEW u \in Analyst, Asks(u)
  PROVE  IInv'
<1>. USE DEF IInv
<1>0. \A q \in Request : (q.op \in {"update", "delete"} => q.id \in Event) =>
        LET p == [request EXCEPT ![u] = q] IN
        /\ p \in [Analyst -> Request]
        /\ \A v \in Analyst : p[v].op \in {"update", "delete"} => p[v].id \in Event
  BY DEF Shape
<1>1. CASE \E assets \in SUBSET Asset, from \in Holder, to \in Holder, day \in Day :
             ValidateCreate(u, assets, from, to, day)
  <2>1. PICK assets \in SUBSET Asset, from \in Holder, to \in Holder, day \in Day :
          ValidateCreate(u, assets, from, to, day)
    BY <1>1
  <2>. DEFINE new == [status |-> "to be transferred", assets |-> assets, from |-> from,
                      to |-> to, effective |-> day, by |-> u]
              q == [NoRequest EXCEPT !.op = "create", !.new = new]
  <2>2. new \in Record
    BY DEF Record
  <2>3. q \in Request /\ q.op = "create"
    BY <2>2, NoRequestIsRequest DEF Request, NoRequest
  <2>4. request' = [request EXCEPT ![u] = q] /\ UNCHANGED <<timeline, holder, snapshot, event, list>>
    BY <2>1 DEF ValidateCreate
  <2>. QED
    BY <1>0, <2>3, <2>4, StillHolds DEF Shape
<1>2. CASE \E e \in Event, assets \in SUBSET Asset, day \in Day : ValidateUpdate(u, e, assets, day)
  <2>1. PICK e \in Event, assets \in SUBSET Asset, day \in Day : ValidateUpdate(u, e, assets, day)
    BY <1>2
  <2>. DEFINE new == [event[e] EXCEPT !.assets = assets, !.effective = day]
              q == [op |-> "update", id |-> e, copy |-> event[e], new |-> new]
  <2>2. event[e] \in Record
    BY DEF Shape
  <2>3. new \in Record
    BY <2>2, RecordChanges DEF Record
  <2>4. q \in Request /\ q.id \in Event
    BY <2>2, <2>3 DEF Request
  <2>5. request' = [request EXCEPT ![u] = q] /\ UNCHANGED <<timeline, holder, snapshot, event, list>>
    BY <2>1 DEF ValidateUpdate
  <2>. QED
    BY <1>0, <2>4, <2>5, StillHolds DEF Shape
<1>3. CASE \E e \in Event : ValidateDelete(u, e)
  <2>1. PICK e \in Event : ValidateDelete(u, e)
    BY <1>3
  <2>. DEFINE q == [NoRequest EXCEPT !.op = "delete", !.id = e]
  <2>2. q \in Request /\ q.id \in Event
    BY NoRequestIsRequest DEF Request, NoRequest
  <2>3. request' = [request EXCEPT ![u] = q] /\ UNCHANGED <<timeline, holder, snapshot, event, list>>
    BY <2>1 DEF ValidateDelete
  <2>. QED
    BY <1>0, <2>2, <2>3, StillHolds DEF Shape
<1>. QED
  BY <1>1, <1>2, <1>3 DEF Asks

\* What a request has carried along is written; it may have become old.
LEMMA CommitCreateKeeps ==
  ASSUME IInv, NEW u \in Analyst, NEW e \in Event, CommitCreate(u, e)
  PROVE  IInv'
<1>. USE DEF IInv
<1>1. PICK r : r = request[u].new
  OBVIOUS
<1>2. r \in Record
  BY <1>1 DEF Shape, Request
<1>3. /\ request' \in [Analyst -> Request]
      /\ \A v \in Analyst : request'[v].op \in {"update", "delete"} => request'[v].id \in Event
  BY ForgetsRequest DEF CommitCreate
<1>4. [r EXCEPT !.status = "transferred"] \in Record
  BY <1>2 DEF Record
<1>5. event' \in [Event -> Record] /\ list' = list
  BY <1>1, <1>2, <1>4 DEF CommitCreate, Shape
<1>6. CASE CanProcess(r, u) /\ Process(r)
  BY <1>2, <1>3, <1>5, <1>6, ProcessKeeps DEF Shape
<1>7. CASE NotProcessed
  BY <1>3, <1>5, <1>7, StillHolds DEF Shape, NotProcessed
<1>. QED
  BY <1>1, <1>6, <1>7 DEF CommitCreate

LEMMA CommitUpdateKeeps ==
  ASSUME IInv, NEW u \in Analyst, CommitUpdate(u)
  PROVE  IInv'
<1>. USE DEF IInv
<1>. DEFINE id == request[u].id
            changed == [event[id] EXCEPT !.assets = request[u].new.assets,
                                         !.effective = request[u].new.effective]
<1>1. id \in Event /\ request[u] \in Request
  BY DEF CommitUpdate, Shape
<1>2. PICK new : new = changed
  OBVIOUS
<1>3. PICK r : r = AsProcessed(request[u].copy, new)
  OBVIOUS
<1>4. new \in Record
  <2>1. event[id] \in Record /\ request[u].new.assets \in SUBSET Asset
          /\ request[u].new.effective \in Day
    BY <1>1 DEF Shape, Request, Record
  <2>. QED
    BY <1>2, <2>1 DEF Record
<1>5. r \in Record
  BY <1>1, <1>3, <1>4, AsProcessedIsRecord DEF Request
<1>6. /\ request' \in [Analyst -> Request]
      /\ \A v \in Analyst : request'[v].op \in {"update", "delete"} => request'[v].id \in Event
  BY ForgetsRequest DEF CommitUpdate
<1>7. [new EXCEPT !.status = "transferred"] \in Record
  BY <1>4 DEF Record
<1>8. event' \in [Event -> Record] /\ list' = list
  <2>1. event' = [event EXCEPT ![id] = new]
          \/ event' = [event EXCEPT ![id] = [new EXCEPT !.status = "transferred"]]
          \/ event' = event
    BY <1>2 DEF CommitUpdate
  <2>. QED
    BY <1>1, <1>4, <1>7, <2>1 DEF Shape, CommitUpdate
<1>9. CASE CanProcess(r, u) /\ Process(r)
  BY <1>5, <1>6, <1>8, <1>9, ProcessKeeps DEF Shape
<1>10. CASE NotProcessed
  BY <1>6, <1>8, <1>10, StillHolds DEF Shape, NotProcessed
<1>. QED
  BY <1>2, <1>3, <1>9, <1>10 DEF CommitUpdate

\* The requests that move nothing
LEMMA OtherCommitsKeep ==
  ASSUME IInv, NEW u \in Analyst, CommitDelete(u) \/ Abandon(u)
  PROVE  IInv'
<1>. USE DEF IInv
<1>1. request' = [request EXCEPT ![u] = NoRequest] /\ UNCHANGED <<timeline, holder, snapshot, list>>
  BY DEF CommitDelete, Abandon
<1>2. [NoEvent EXCEPT !.status = "deleted"] \in Record
  BY NoEventIsRecord DEF Record
<1>3. event' \in [Event -> Record]
  BY <1>2 DEF CommitDelete, Abandon, Shape
<1>. QED
  BY <1>1, <1>3, ForgetsRequest, StillHolds DEF Shape

\* The job processes a copy that may have become old.
LEMMA ProcessNextKeeps ==
  ASSUME IInv, NEW x \in list, ProcessNext(x)
  PROVE  IInv'
<1>. USE DEF IInv
<1>1. x.id \in Event /\ x.copy \in Record /\ event[x.id] \in Record
  BY DEF Shape
<1>2. PICK r : r = AsProcessed(x.copy, event[x.id])
  OBVIOUS
<1>3. PICK v : v = x.copy.by
  OBVIOUS
<1>4. r \in Record
  BY <1>1, <1>2, AsProcessedIsRecord
<1>5. [event[x.id] EXCEPT !.status = "transferred"] \in Record
  BY <1>1 DEF Record
<1>6. event' \in [Event -> Record] /\ list' \subseteq list /\ request' = request
  <2>1. event' = event \/ event' = [event EXCEPT ![x.id] = [event[x.id] EXCEPT !.status = "transferred"]]
    BY DEF ProcessNext, Shape
  <2>. QED
    BY <1>1, <1>5, <2>1 DEF ProcessNext, Shape
<1>7. CASE CanProcess(r, v) /\ Process(r)
  BY <1>4, <1>6, <1>7, ProcessKeeps DEF Shape
<1>8. CASE NotProcessed
  BY <1>6, <1>8, StillHolds DEF Shape, NotProcessed
<1>. QED
  BY <1>2, <1>3, <1>7, <1>8 DEF ProcessNext

\* The other steps move nothing.
LEMMA OtherStepsKeep ==
  ASSUME IInv, ReadDue \/ Kill \/ Tick \/ (\E u \in Analyst : LosesRole(u)) \/ UNCHANGED vars
  PROVE  IInv'
<1>. USE DEF IInv
<1>1. UNCHANGED <<timeline, holder, snapshot, event, request>>
  BY DEF ReadDue, Kill, Tick, LosesRole, vars
<1>2. list' \subseteq [id : Event, copy : Record]
  BY DEF ReadDue, Kill, Tick, LosesRole, vars, Shape
<1>. QED
  BY <1>1, <1>2, StillHolds DEF Shape

LEMMA IInvInit == Init => IInv
<1>. SUFFICES ASSUME Init PROVE IInv
  OBVIOUS
<1>1. holder \in [Asset -> Holder]
  BY AssetsAssumption DEF Init, Asset, Holder
<1>2. 0 \in Day
  BY BoundsAssumption DEF Day
<1>3. ASSUME NEW a \in Asset
      PROVE  /\ timeline[a] \in Seq(Row) /\ Len(timeline[a]) = 1
             /\ timeline[a][1] = [holder |-> holder[a], start |-> 0, end |-> Open]
  <2>1. [holder |-> holder[a], start |-> 0, end |-> Open] \in Row
    BY <1>1, <1>2 DEF Row
  <2>2. timeline[a] = <<[holder |-> holder[a], start |-> 0, end |-> Open]>>
    BY DEF Init
  <2>. QED
    BY <2>1, <2>2
<1>4. timeline \in [Asset -> Seq(Row)]
  BY <1>3 DEF Init
<1>5. event \in [Event -> Record] /\ list = {}
  BY NoEventIsRecord DEF Init
<1>6. request \in [Analyst -> Request] /\ \A u \in Analyst : request[u].op = "none"
  BY NoRequestIsRequest DEF Init, NoRequest
<1>7. Shape
  <2>1. \A a \in Asset : Len(timeline[a]) >= 1
    <3>. SUFFICES ASSUME NEW a \in Asset PROVE Len(timeline[a]) >= 1
      OBVIOUS
    <3>1. Len(timeline[a]) = 1
      BY <1>3
    <3>. QED
      BY <3>1
  <2>2. \A u \in Analyst : request[u].op \in {"update", "delete"} => request[u].id \in Event
    BY <1>6
  <2>. QED
    BY <1>1, <1>4, <1>5, <1>6, <2>1, <2>2 DEF Shape
<1>8. OneHolder
  <2>. SUFFICES ASSUME NEW a \in Asset
                PROVE  /\ Last(timeline[a]).end = Open /\ Last(timeline[a]).holder = holder[a]
                       /\ 1..(Len(timeline[a]) - 1) = {}
    BY DEF OneHolder
  <2>1. Len(timeline[a]) = 1 /\ timeline[a][1].end = Open /\ timeline[a][1].holder = holder[a]
    <3>1. Len(timeline[a]) = 1
            /\ timeline[a][1] = [holder |-> holder[a], start |-> 0, end |-> Open]
      BY <1>3
    <3>. QED
      BY <3>1
  <2>2. 1..(1 - 1) = {}
    OBVIOUS
  <2>3. 1..(Len(timeline[a]) - 1) = {}
    BY <2>1, <2>2
  <2>4. Last(timeline[a]) = timeline[a][1]
    BY <2>1 DEF Last
  <2>. QED
    BY <2>1, <2>3, <2>4
<1>. QED
  BY <1>7, <1>8 DEF IInv

LEMMA IInvStep == IInv /\ [Next]_vars => IInv'
<1>. SUFFICES ASSUME IInv, [Next]_vars PROVE IInv'
  OBVIOUS
<1>1. CASE \E u \in Analyst : Asks(u)
  BY <1>1, AsksKeeps
<1>2. CASE \E u \in Analyst : Commits(u)
  BY <1>2, CommitCreateKeeps, CommitUpdateKeeps, OtherCommitsKeep DEF Commits
<1>3. CASE \E x \in list : ProcessNext(x)
  BY <1>3, ProcessNextKeeps
<1>4. CASE ReadDue \/ Kill \/ Tick \/ (\E u \in Analyst : LosesRole(u)) \/ UNCHANGED vars
  BY <1>4, OtherStepsKeep
<1>. QED
  BY <1>1, <1>2, <1>3, <1>4 DEF Next, Job

\* However requests, the job and copies race, the rows of a timeline follow one
\* another, the last is open and names the holder, and snapshots remain
\* (_process_single_event with the unique index on open rows).
THEOREM TimelinesAreWhole == Spec => []OneHolder
<1>1. IInv => OneHolder
  BY DEF IInv
<1>. QED
  BY IInvInit, IInvStep, <1>1, PTL DEF Spec

-----------------------------------------------------------------------------
(* What a step moves *)

\* Nothing moves, or what is named by a record that may be processed moves.
Moves(r) == Process(r) /\ \E u : CanProcess(r, u)
StepMoves == (NotProcessed \/ \E r \in Record : Moves(r))

LEMMA ProcessNextMoves ==
  ASSUME IInv, NEW x \in list, ProcessNext(x)
  PROVE  \/ NotProcessed /\ UNCHANGED <<event, stale>>
         \/ \E r \in Record : /\ r = AsProcessed(x.copy, event[x.id]) /\ Moves(r)
                              /\ event[x.id].status # "deleted"
<1>1. x.id \in Event /\ x.copy \in Record /\ event[x.id] \in Record
  BY DEF IInv, Shape
<1>2. PICK r : r = AsProcessed(x.copy, event[x.id])
  OBVIOUS
<1>3. PICK v : v = x.copy.by
  OBVIOUS
<1>4. r \in Record
  BY <1>1, <1>2, AsProcessedIsRecord
<1>5. CASE NotProcessed /\ UNCHANGED <<event, stale>>
  BY <1>5
<1>6. CASE event[x.id].status # "deleted" /\ CanProcess(r, v) /\ Process(r)
  BY <1>2, <1>4, <1>6 DEF Moves
<1>. QED
  BY <1>2, <1>3, <1>5, <1>6 DEF ProcessNext

\* The record that an update writes, and the one that it processes
Written(u) == [event[request[u].id] EXCEPT !.assets = request[u].new.assets,
                                           !.effective = request[u].new.effective]
Taken(u) == AsProcessed(request[u].copy, Written(u))

LEMMA UpdateRecords ==
  ASSUME IInv, NEW u \in Analyst, request[u].op = "update"
  PROVE  /\ request[u].id \in Event /\ request[u] \in Request
         /\ Written(u) \in Record /\ Taken(u) \in Record
         /\ Written(u).status = event[request[u].id].status
         /\ Written(u).from = event[request[u].id].from
         /\ Written(u).to = event[request[u].id].to
         /\ Written(u).assets = request[u].new.assets
<1>1. request[u].id \in Event /\ request[u] \in Request
  BY DEF IInv, Shape
<1>2. PICK r, q : r = event[request[u].id] /\ q = request[u].new
  OBVIOUS
<1>3. r \in Record /\ q \in Record
  BY <1>1, <1>2 DEF IInv, Shape, Request
<1>4. PICK w : w = [r EXCEPT !.assets = q.assets, !.effective = q.effective]
  OBVIOUS
<1>5. w \in Record /\ w.status = r.status /\ w.from = r.from /\ w.to = r.to /\ w.assets = q.assets
  BY <1>3, <1>4 DEF Record
<1>6. Written(u) = w
  BY <1>2, <1>4 DEF Written
<1>7. Taken(u) \in Record
  BY <1>1, <1>5, <1>6, AsProcessedIsRecord DEF Taken, Request
<1>. QED
  BY <1>1, <1>2, <1>5, <1>6, <1>7

LEMMA CommitsMove ==
  ASSUME IInv, NEW u \in Analyst, Commits(u)
  PROVE  StepMoves
<1>1. ASSUME NEW e \in Event, CommitCreate(u, e) PROVE StepMoves
  <2>1. PICK r : r = request[u].new
    OBVIOUS
  <2>2. r \in Record
    BY <2>1 DEF IInv, Shape, Request
  <2>3. NotProcessed \/ (CanProcess(r, u) /\ Process(r))
    BY <1>1, <2>1 DEF CommitCreate
  <2>. QED
    BY <2>2, <2>3 DEF StepMoves, Moves
<1>2. CASE CommitUpdate(u)
  <2>1. PICK r : r = Taken(u)
    OBVIOUS
  <2>2. r \in Record
    BY <1>2, <2>1, UpdateRecords DEF CommitUpdate
  <2>3. NotProcessed \/ (CanProcess(r, u) /\ Process(r))
    BY <1>2, <2>1 DEF CommitUpdate, Taken, Written
  <2>. QED
    BY <2>2, <2>3 DEF StepMoves, Moves
<1>3. CASE CommitDelete(u) \/ Abandon(u)
  BY <1>3 DEF CommitDelete, Abandon, StepMoves, NotProcessed
<1>. QED
  BY <1>1, <1>2, <1>3 DEF Commits

LEMMA EveryStepMoves ==
  ASSUME IInv, Next
  PROVE  StepMoves
<1>1. ASSUME NEW x \in list, ProcessNext(x) PROVE StepMoves
  BY <1>1, ProcessNextMoves DEF StepMoves
<1>2. CASE \E u \in Analyst : Asks(u) \/ LosesRole(u)
  <2>1. PICK u \in Analyst : Asks(u) \/ LosesRole(u)
    BY <1>2
  <2>2. UNCHANGED <<timeline, holder, snapshot, backdated>>
    <3>1. CASE LosesRole(u)
      BY <3>1 DEF LosesRole
    <3>2. CASE \E assets \in SUBSET Asset, from \in Holder, to \in Holder, day \in Day :
                 ValidateCreate(u, assets, from, to, day)
      BY <3>2 DEF ValidateCreate
    <3>3. CASE \E e \in Event, assets \in SUBSET Asset, day \in Day : ValidateUpdate(u, e, assets, day)
      BY <3>3 DEF ValidateUpdate
    <3>4. CASE \E e \in Event : ValidateDelete(u, e)
      BY <3>4 DEF ValidateDelete
    <3>. QED
      BY <2>1, <3>1, <3>2, <3>3, <3>4 DEF Asks
  <2>. QED
    BY <2>2 DEF StepMoves, NotProcessed
<1>3. CASE ReadDue \/ Kill \/ Tick
  BY <1>3 DEF ReadDue, Kill, Tick, StepMoves, NotProcessed
<1>. QED
  BY <1>1, <1>2, <1>3, CommitsMove DEF Next, Job

\* The rows of an asset that moves
LEMMA MovedAsset ==
  ASSUME IInv, NEW r \in Record, Moves(r), NEW a \in r.assets, NEW n, n = Len(timeline[a])
  PROVE  /\ a \in Asset /\ n \in Nat /\ n >= 1 /\ timeline[a][n] \in Row
         /\ timeline[a][n].end = Open /\ timeline[a][n].holder = r.from
         /\ Len(timeline'[a]) = n + 1
         /\ timeline'[a][n + 1] = [holder |-> r.to, start |-> r.effective, end |-> Open]
         /\ timeline'[a][n].start = timeline[a][n].start /\ timeline'[a][n].holder = r.from
         /\ timeline'[a][n].end = r.effective
         /\ \A i \in 1..(n - 1) : timeline'[a][i] = timeline[a][i]
         /\ a \notin backdated' => timeline[a][n].start <= r.effective
<1>1. a \in Asset /\ r.effective \in Day
  BY DEF Record
<1>2. PICK rows : rows = timeline[a]
  OBVIOUS
<1>3. rows \in Seq(Row) /\ n >= 1 /\ n \in Nat /\ n = Len(rows)
  BY <1>1, <1>2, LenProperties DEF IInv, Shape
<1>4. rows[n] \in Row
  BY <1>3, ElementOfSeq
<1>5. Last(rows).end = Open
  BY <1>1, <1>2 DEF IInv, OneHolder
<1>6. Last(rows).holder = r.from
  BY <1>2, <1>3, <1>5, OneOpenRow DEF Moves, CanProcess
<1>7. timeline'[a] = Moved(rows, r)
  BY <1>1, <1>2 DEF Moves, Process
<1>8. /\ Len(Moved(rows, r)) = n + 1
      /\ Moved(rows, r)[n + 1] = [holder |-> r.to, start |-> r.effective, end |-> Open]
      /\ \A i \in 1..(n - 1) : Moved(rows, r)[i] = rows[i]
      /\ Moved(rows, r)[n] = [rows[n] EXCEPT !.end = r.effective]
  BY <1>3, <1>6, MovedRows DEF Last
<1>9. PICK m : m = Moved(rows, r)[n]
  OBVIOUS
<1>10. m.start = rows[n].start /\ m.end = r.effective /\ m.holder = rows[n].holder
  BY <1>4, <1>8, <1>9 DEF Row
<1>11. a \notin backdated' => rows[n].start <= r.effective
  <2>1. rows[n].start \in Int /\ r.effective \in Int
    BY <1>1, <1>4, BoundsAssumption DEF Row, Day
  <2>2. r.effective < Last(timeline[a]).start => a \in backdated'
    BY DEF Moves, Process
  <2>. QED
    BY <1>2, <1>3, <2>1, <2>2 DEF Last
<1>. QED
  BY <1>1, <1>2, <1>3, <1>4, <1>5, <1>6, <1>7, <1>8, <1>9, <1>10, <1>11 DEF Last

-----------------------------------------------------------------------------
(* Who reports for a year *)

LEMMA YearGrows ==
  ASSUME NEW d \in Nat, NEW e \in Nat, d <= e
  PROVE  Year(d) \in Nat /\ Year(d) <= Year(e)
  BY BoundsAssumption DEF Year

\* One row and no other answers for the year.
OneAnswer(rows, year) ==
  \E i \in 1..Len(rows) : \A j \in 1..Len(rows) : Answers(rows[j], year) <=> j = i

AnswersOnce == \A a \in Asset \ backdated, year \in Nat : OneAnswer(timeline[a], year)

AnswersInv == IInv /\ AnswersOnce

\* Closing a row and opening another passes the later years on to the new row.
LEMMA AnswerPasses ==
  ASSUME NEW last \in Row, NEW shut, NEW new, NEW day \in Day, NEW year \in Nat,
         last.end = Open, last.start <= day,
         shut.start = last.start, shut.end = day, new.start = day, new.end = Open
  PROVE  /\ ~Answers(last, year) => ~Answers(shut, year) /\ ~Answers(new, year)
         /\ Answers(last, year) => (Answers(shut, year) <=> ~Answers(new, year))
<1>1. last.start \in Nat /\ day \in Nat /\ day # Open
  BY BoundsAssumption DEF Row, Day, Open
<1>2. PICK x, y : x = Year(last.start) /\ y = Year(day)
  OBVIOUS
<1>3. x \in Nat /\ y \in Nat /\ x <= y
  BY <1>1, <1>2, YearGrows
<1>4. /\ Answers(last, year) <=> x <= year
      /\ Answers(shut, year) <=> x <= year /\ y > year
      /\ Answers(new, year) <=> y <= year
  BY <1>1, <1>2 DEF Answers
<1>. QED
  BY <1>3, <1>4

LEMMA MovedAnswersOnce ==
  ASSUME IInv, NEW r \in Record, Moves(r), NEW a \in r.assets, a \notin backdated',
         NEW year \in Nat, OneAnswer(timeline[a], year)
  PROVE  OneAnswer(timeline'[a], year)
<1>1. PICK n : n = Len(timeline[a])
  OBVIOUS
<1>2. PICK old, rows : old = timeline[a] /\ rows = timeline'[a]
  OBVIOUS
<1>3. /\ n \in Nat /\ n >= 1 /\ timeline[a][n] \in Row /\ timeline[a][n].end = Open
      /\ Len(timeline'[a]) = n + 1
      /\ timeline'[a][n + 1] = [holder |-> r.to, start |-> r.effective, end |-> Open]
      /\ timeline'[a][n].start = timeline[a][n].start /\ timeline'[a][n].end = r.effective
      /\ \A i \in 1..(n - 1) : timeline'[a][i] = timeline[a][i]
      /\ timeline[a][n].start <= r.effective
  BY <1>1, MovedAsset
<1>4. /\ n \in Nat /\ n >= 1 /\ n = Len(old) /\ old[n] \in Row /\ old[n].end = Open
      /\ Len(rows) = n + 1 /\ old[n].start <= r.effective
      /\ rows[n + 1].start = r.effective /\ rows[n + 1].end = Open /\ r.effective \in Day
      /\ rows[n].start = old[n].start /\ rows[n].end = r.effective
      /\ \A i \in 1..(n - 1) : rows[i] = old[i]
  <2>1. r.effective \in Day
    BY DEF Record
  <2>2. rows[n + 1] = [holder |-> r.to, start |-> r.effective, end |-> Open]
    BY <1>2, <1>3
  <2>3. rows[n + 1].start = r.effective /\ rows[n + 1].end = Open
    BY <2>2
  <2>. QED
    BY <1>1, <1>2, <1>3, <2>1, <2>3
<1>5. /\ ~Answers(old[n], year) => ~Answers(rows[n], year) /\ ~Answers(rows[n + 1], year)
      /\ Answers(old[n], year) => (Answers(rows[n], year) <=> ~Answers(rows[n + 1], year))
  BY <1>4, AnswerPasses
<1>6. PICK i \in 1..n : \A j \in 1..n : Answers(old[j], year) <=> j = i
  BY <1>2, <1>4 DEF OneAnswer
<1>7. \A j \in 1..(n - 1) : Answers(rows[j], year) <=> j = i
  BY <1>4, <1>6
<1>8. Answers(old[n], year) <=> n = i
  BY <1>4, <1>6
<1>9. PICK k \in 1..(n + 1) : k = IF i = n /\ Answers(rows[n + 1], year) THEN n + 1 ELSE i
  BY <1>4
<1>10. Answers(rows[n], year) <=> n = k
  BY <1>4, <1>5, <1>8, <1>9
<1>11. Answers(rows[n + 1], year) <=> n + 1 = k
  BY <1>4, <1>5, <1>8, <1>9
<1>12. \A j \in 1..(n - 1) : Answers(rows[j], year) <=> j = k
  BY <1>4, <1>7, <1>9
<1>13. \A j \in 1..(n + 1) : j \in 1..(n - 1) \/ j = n \/ j = n + 1
  BY <1>4
<1>14. \A j \in 1..(n + 1) : Answers(rows[j], year) <=> j = k
  BY <1>10, <1>11, <1>12, <1>13
<1>. QED
  BY <1>2, <1>4, <1>14 DEF OneAnswer

LEMMA AnswersInit == Init => AnswersOnce
<1>. SUFFICES ASSUME Init, NEW a \in Asset, NEW year \in Nat PROVE OneAnswer(timeline[a], year)
  BY DEF AnswersOnce
<1>1. PICK row : row = [holder |-> holder[a], start |-> 0, end |-> Open]
  OBVIOUS
<1>2. timeline[a] = <<row>>
  BY <1>1 DEF Init
<1>3. Year(0) <= year
  BY BoundsAssumption DEF Year
<1>4. Answers(row, year)
  BY <1>1, <1>3 DEF Answers
<1>5. Len(<<row>>) = 1 /\ <<row>>[1] = row
  OBVIOUS
<1>. QED
  BY <1>2, <1>4, <1>5 DEF OneAnswer

LEMMA AnswersStep == AnswersInv /\ [Next]_vars => AnswersInv'
<1>. SUFFICES ASSUME AnswersInv, [Next]_vars PROVE AnswersInv'
  OBVIOUS
<1>1. IInv /\ IInv'
  BY IInvStep DEF AnswersInv
<1>2. CASE NotProcessed \/ UNCHANGED vars
  BY <1>1, <1>2 DEF AnswersInv, AnswersOnce, NotProcessed, vars
<1>3. CASE \E r \in Record : Moves(r)
  <2>1. PICK r \in Record : Moves(r)
    BY <1>3
  <2>2. backdated \subseteq backdated'
    BY <2>1 DEF Moves, Process
  <2>3. ASSUME NEW a \in Asset \ backdated', NEW year \in Nat PROVE OneAnswer(timeline'[a], year)
    <3>1. OneAnswer(timeline[a], year)
      BY <2>2 DEF AnswersInv, AnswersOnce
    <3>2. CASE a \in r.assets
      BY <1>1, <2>1, <3>1, <3>2, MovedAnswersOnce
    <3>3. CASE a \notin r.assets
      <4>1. timeline'[a] = timeline[a]
        BY <2>1, <3>3 DEF Moves, Process
      <4>. QED
        BY <3>1, <4>1
    <3>. QED
      BY <3>2, <3>3
  <2>4. AnswersOnce'
    BY <2>3 DEF AnswersOnce, OneAnswer, Answers
  <2>. QED
    BY <1>1, <2>4 DEF AnswersInv
<1>. QED
  BY <1>1, <1>2, <1>3, EveryStepMoves DEF StepMoves

Dated == today \in Nat

LEMMA AnswersOnceIsOne == AnswersInv /\ Dated => OneReporter
<1>. SUFFICES ASSUME AnswersInv, Dated,
                     NEW o \in Operation \ backdated, NEW year \in 0..Year(today)
              PROVE  Cardinality({i \in 1..Len(timeline[o]) : Answers(timeline[o][i], year)}) = 1
  BY DEF OneReporter
<1>1. Year(today) \in Nat
  BY YearGrows DEF Dated
<1>2. year \in Nat /\ o \in Asset
  BY <1>1 DEF Asset
<1>3. PICK k \in 1..Len(timeline[o]) :
        \A j \in 1..Len(timeline[o]) : Answers(timeline[o][j], year) <=> j = k
  BY <1>2 DEF AnswersInv, AnswersOnce, OneAnswer
<1>4. {i \in 1..Len(timeline[o]) : Answers(timeline[o][i], year)} = {k}
  BY <1>3
<1>. QED
  BY <1>4, FS_Singleton

LEMMA TodayStep == Dated /\ [Next]_vars => Dated'
<1>. SUFFICES ASSUME today \in Nat, [Next]_vars PROVE today' \in Nat
  BY DEF Dated
<1>1. CASE Tick
  BY <1>1 DEF Tick
<1>2. CASE ReadDue \/ Kill \/ (\E x \in list : ProcessNext(x)) \/ UNCHANGED vars
  BY <1>2 DEF ReadDue, Kill, ProcessNext, vars
<1>3. ASSUME NEW u \in Analyst, Asks(u) \/ LosesRole(u) PROVE today' = today
  BY <1>3 DEF Asks, ValidateCreate, ValidateUpdate, ValidateDelete, LosesRole
<1>4. ASSUME NEW u \in Analyst, Commits(u) PROVE today' = today
  BY <1>4 DEF Commits, CommitCreate, CommitUpdate, CommitDelete, Abandon
<1>. QED
  BY <1>1, <1>2, <1>3, <1>4 DEF Next, Job

\* For every year one row says who reports for an operation, unless a transfer
\* was dated before an earlier one: what closes a row opens the next on the same
\* day (get_operation_designated_operator_for_reporting_year).
THEOREM OneReporterHolds == Spec => []OneReporter
<1>1. Init => AnswersInv /\ Dated
  BY IInvInit, AnswersInit DEF AnswersInv, Dated, Init
<1>. QED
  BY <1>1, AnswersStep, TodayStep, AnswersOnceIsOne, PTL DEF Spec

-----------------------------------------------------------------------------
(* What requests and the job carry along *)

\* Facilities move between operations, and what is pending moves something.
Among(r) == r.assets \cap Facility # {} =>
              r.assets \subseteq Facility /\ r.from \in Operation /\ r.to \in Operation
Fits(r) == Among(r) /\ (r.status = "to be transferred" => r.assets # {})

SameMove(r, s) == r.from = s.from /\ r.to = s.to

\* A copy of a pending event, and the row it was read from: the row may have
\* changed since, but not in who gives and who gets.
CopyOf(copy, row) ==
  /\ Fits(copy) /\ copy.status = "to be transferred"
  /\ row.status # "none" /\ (row.status # "deleted" => SameMove(copy, row))

\* What a step may do to a row
Evolves(old, new) ==
  \/ new = old \/ old.status = "none" \/ new.status = "deleted"
  \/ old.status # "deleted" /\ new.status # "none" /\ SameMove(old, new)

\* A request that creates or updates, and the row it is about
Carries(q, row) ==
  /\ q.op \in {"create", "update"} => Fits(q.new) /\ q.new.status = "to be transferred"
  /\ q.op = "update" => CopyOf(q.copy, row) /\ SameMove(q.copy, q.new)

Carried ==
  /\ \A f \in Facility : holder[f] \in Operation
  /\ snapshot \subseteq Facility \X Operation
  /\ \A e \in Event : Fits(event[e])
  /\ \A x \in list : CopyOf(x.copy, event[x.id])
  /\ \A u \in Analyst : Carries(request[u], event[request[u].id])

CarriedInv == IInv /\ Carried

LEMMA CopyEvolves ==
  ASSUME NEW copy, NEW old, NEW new, CopyOf(copy, old), Evolves(old, new)
  PROVE  CopyOf(copy, new)
  BY DEF CopyOf, Evolves, SameMove

LEMMA CarriesEvolves ==
  ASSUME NEW q, NEW old, NEW new, Carries(q, old), Evolves(old, new)
  PROVE  Carries(q, new)
  BY CopyEvolves DEF Carries

\* What is processed for a copy moves facilities between operations too.
LEMMA AsProcessedFits ==
  ASSUME NEW copy \in Record, NEW row \in Record, CopyOf(copy, row), Among(row),
         row.status # "deleted"
  PROVE  Among(AsProcessed(copy, row))
<1>1. PICK r : r = AsProcessed(copy, row)
  OBVIOUS
<1>2. SameMove(copy, row) /\ Among(copy)
  BY DEF CopyOf, Fits
<1>3. r.from = copy.from /\ r.to = copy.to /\ r.assets \in {copy.assets, row.assets}
  BY <1>1 DEF AsProcessed, Record
<1>. QED
  BY <1>1, <1>2, <1>3 DEF Among, SameMove

LEMMA AsProcessedOfItself ==
  ASSUME NEW r \in Record
  PROVE  AsProcessed(r, r) = r
  BY DEF AsProcessed, Record

\* What an update writes keeps the shape of the event.
LEMMA WrittenFits ==
  ASSUME CarriedInv, NEW u \in Analyst, request[u].op = "update",
         event[request[u].id].status # "deleted"
  PROVE  /\ Fits(Written(u)) /\ Among(Taken(u))
         /\ CopyOf(request[u].copy, event[request[u].id])
         /\ SameMove(event[request[u].id], Written(u))
<1>1. PICK w, q, row : w = Written(u) /\ q = request[u] /\ row = event[request[u].id]
  OBVIOUS
<1>2. /\ q \in Request /\ w \in Record /\ w.status = row.status
      /\ w.from = row.from /\ w.to = row.to /\ w.assets = q.new.assets
  BY <1>1, UpdateRecords DEF CarriedInv
<1>3. /\ Fits(q.new) /\ q.new.status = "to be transferred"
      /\ CopyOf(q.copy, row) /\ SameMove(q.copy, q.new)
  BY <1>1 DEF CarriedInv, Carried, Carries
<1>4. SameMove(q.copy, row) /\ row.status # "none"
  BY <1>1, <1>3 DEF CopyOf
<1>5. Fits(w)
  BY <1>2, <1>3, <1>4 DEF Fits, Among, SameMove
<1>6. CopyOf(q.copy, w) /\ w.status # "deleted"
  BY <1>1, <1>2, <1>3, <1>4 DEF CopyOf, SameMove
<1>7. q.copy \in Record
  BY <1>2 DEF Request
<1>8. Among(AsProcessed(q.copy, w))
  BY <1>2, <1>5, <1>6, <1>7, AsProcessedFits DEF Fits
<1>. QED
  BY <1>1, <1>2, <1>3, <1>5, <1>8 DEF SameMove, Taken

\* A move keeps facilities in operations.
LEMMA MovesCarried ==
  ASSUME CarriedInv, NEW r \in Record, Among(r), Moves(r)
  PROVE  /\ \A f \in Facility : holder'[f] \in Operation
         /\ snapshot' \subseteq Facility \X Operation
<1>1. \A f \in Facility : holder[f] \in Operation
  BY DEF CarriedInv, Carried
<1>2. \A f \in Facility : holder'[f] \in Operation
  BY <1>1 DEF Moves, Process, Among, Asset
<1>3. \A f \in r.assets \cap Facility : <<f, r.from>> \in Facility \X Operation
  BY DEF Among
<1>4. snapshot' \subseteq Facility \X Operation
  BY <1>1, <1>3 DEF Moves, Process, CarriedInv, Carried
<1>. QED
  BY <1>2, <1>4

-----------------------------------------------------------------------------
(* What a step does to the events *)

SameRecord(row, r) ==
  row.assets = r.assets /\ row.from = r.from /\ row.to = r.to /\ row.effective = r.effective

\* Marked transferred: it was before, or just what it says moves now.
Marks(old, new, before, after) ==
  new.status = "transferred" /\ ~after =>
    (new = old /\ ~before) \/ \E r \in Record : Moves(r) /\ SameRecord(new, r)

EventStep(e) ==
  /\ Fits(event'[e]) /\ Evolves(event[e], event'[e])
  /\ Marks(event[e], event'[e], e \in stale, e \in stale')

EventsStep ==
  /\ NotProcessed \/ \E r \in Record : Among(r) /\ Moves(r)
  /\ \A e \in Event : EventStep(e)

\* An event that is left alone
LEMMA Untouched ==
  ASSUME CarriedInv, NEW e \in Event, event'[e] = event[e], stale \subseteq stale'
  PROVE  EventStep(e)
<1>1. Fits(event[e])
  BY DEF CarriedInv, Carried
<1>. QED
  BY <1>1 DEF EventStep, Evolves, Marks

LEMMA CommitCreateEvents ==
  ASSUME CarriedInv, NEW u \in Analyst, NEW e \in Event, CommitCreate(u, e)
  PROVE  EventsStep
<1>1. PICK r : r = request[u].new
  OBVIOUS
<1>2. r \in Record /\ event \in [Event -> Record]
  BY <1>1 DEF CarriedInv, IInv, Shape, Request
<1>3. Fits(r) /\ r.status = "to be transferred" /\ event[e].status = "none" /\ stale' = stale
  BY <1>1 DEF CommitCreate, CarriedInv, Carried, Carries
<1>4. PICK done : done = [r EXCEPT !.status = "transferred"]
  OBVIOUS
<1>5. done.status = "transferred" /\ SameRecord(done, r) /\ Fits(done)
  BY <1>2, <1>3, <1>4 DEF Record, SameRecord, Fits, Among
<1>6. CASE event' = [event EXCEPT ![e] = r] /\ NotProcessed
  <2>1. event'[e] = r
    BY <1>2, <1>6
  <2>2. EventStep(e)
    BY <1>3, <2>1 DEF EventStep, Evolves, Marks
  <2>3. \A x \in Event \ {e} : event'[x] = event[x]
    BY <1>2, <1>6
  <2>. QED
    BY <1>3, <1>6, <2>2, <2>3, Untouched DEF EventsStep
<1>7. CASE event' = [event EXCEPT ![e] = done] /\ CanProcess(r, u) /\ Process(r)
  <2>1. event'[e] = done /\ Moves(r)
    BY <1>2, <1>7 DEF Moves
  <2>2. EventStep(e)
    BY <1>2, <1>3, <1>5, <2>1 DEF EventStep, Evolves, Marks
  <2>3. \A x \in Event \ {e} : event'[x] = event[x]
    BY <1>2, <1>7
  <2>. QED
    BY <1>2, <1>3, <2>1, <2>2, <2>3, Untouched DEF EventsStep, Fits
<1>8. CASE event' = event /\ NotProcessed
  BY <1>3, <1>8, Untouched DEF EventsStep
<1>. QED
  BY <1>1, <1>4, <1>6, <1>7, <1>8 DEF CommitCreate

LEMMA CommitUpdateEvents ==
  ASSUME CarriedInv, NEW u \in Analyst, CommitUpdate(u)
  PROVE  EventsStep
<1>1. PICK e, q, w, r : e = request[u].id /\ q = request[u] /\ w = Written(u) /\ r = Taken(u)
  OBVIOUS
<1>2. q.op = "update" /\ event[e].status # "deleted"
  BY <1>1 DEF CommitUpdate
<1>3. /\ e \in Event /\ w \in Record /\ r \in Record /\ event \in [Event -> Record]
      /\ w.status = event[e].status
  BY <1>1, <1>2, UpdateRecords DEF CarriedInv, IInv, Shape
<1>4. Fits(w) /\ Among(r) /\ CopyOf(q.copy, event[e]) /\ SameMove(event[e], w)
  BY <1>1, <1>2, WrittenFits
<1>5. event[e].status # "none" /\ q.copy.status = "to be transferred"
  BY <1>4 DEF CopyOf
<1>6. PICK done : done = [w EXCEPT !.status = "transferred"]
  OBVIOUS
<1>7. done.status = "transferred" /\ SameRecord(done, w) /\ Fits(done) /\ SameMove(event[e], done)
  BY <1>3, <1>4, <1>6 DEF Record, SameRecord, Fits, Among, SameMove
<1>8. CASE /\ event' = [event EXCEPT ![e] = w] /\ NotProcessed
           /\ stale' = IF event[e] # q.copy THEN stale \cup {e} ELSE stale
  <2>1. event'[e] = w
    BY <1>3, <1>8
  <2>2. Evolves(event[e], event'[e]) /\ Fits(event'[e])
    BY <1>2, <1>3, <1>4, <1>5, <2>1 DEF Evolves
  <2>3. w.status = "transferred" => e \in stale'
    BY <1>3, <1>5, <1>8
  <2>4. EventStep(e)
    BY <2>1, <2>2, <2>3 DEF EventStep, Marks
  <2>5. \A x \in Event \ {e} : event'[x] = event[x]
    BY <1>3, <1>8
  <2>6. stale \subseteq stale'
    BY <1>8
  <2>. QED
    BY <1>8, <2>4, <2>5, <2>6, Untouched DEF EventsStep
<1>9. CASE /\ event' = [event EXCEPT ![e] = done] /\ CanProcess(r, u) /\ Process(r)
           /\ stale' = IF event[e] # q.copy \/ r # w THEN stale \cup {e} ELSE stale
  <2>1. event'[e] = done /\ Moves(r)
    BY <1>3, <1>9 DEF Moves
  <2>2. Evolves(event[e], event'[e]) /\ Fits(event'[e])
    BY <1>2, <1>7, <2>1 DEF Evolves
  <2>3. e \notin stale' => SameRecord(done, r)
    BY <1>7, <1>9
  <2>4. EventStep(e)
    BY <1>3, <2>1, <2>2, <2>3 DEF EventStep, Marks
  <2>5. \A x \in Event \ {e} : event'[x] = event[x]
    BY <1>3, <1>9
  <2>6. stale \subseteq stale'
    BY <1>9
  <2>. QED
    BY <1>3, <1>4, <2>1, <2>4, <2>5, <2>6, Untouched DEF EventsStep
<1>10. CASE event' = event /\ stale' = stale /\ NotProcessed
  BY <1>10, Untouched DEF EventsStep
<1>. QED
  BY <1>1, <1>6, <1>8, <1>9, <1>10 DEF CommitUpdate, Written, Taken

LEMMA ProcessNextEvents ==
  ASSUME CarriedInv, NEW x \in list, ProcessNext(x)
  PROVE  EventsStep
<1>1. PICK e, row, copy : e = x.id /\ row = event[x.id] /\ copy = x.copy
  OBVIOUS
<1>2. e \in Event /\ row \in Record /\ copy \in Record /\ event \in [Event -> Record]
  BY <1>1 DEF CarriedInv, IInv, Shape
<1>3. CopyOf(copy, row) /\ Fits(row)
  BY <1>1, <1>2 DEF CarriedInv, Carried
<1>4. CASE NotProcessed /\ UNCHANGED <<event, stale>>
  BY <1>4, Untouched DEF EventsStep
<1>5. CASE \E r \in Record : r = AsProcessed(copy, row) /\ Moves(r) /\ row.status # "deleted"
  <2>1. PICK r \in Record : r = AsProcessed(copy, row) /\ Moves(r) /\ row.status # "deleted"
    BY <1>5
  <2>2. Among(r)
    BY <1>2, <1>3, <2>1, AsProcessedFits DEF Fits
  <2>3. PICK done : done = [row EXCEPT !.status = "transferred"]
    OBVIOUS
  <2>4. done.status = "transferred" /\ SameRecord(done, row) /\ Fits(done) /\ SameMove(row, done)
    BY <1>2, <1>3, <2>3 DEF Record, SameRecord, Fits, Among, SameMove
  <2>5. CASE /\ event' = [event EXCEPT ![e].status = "transferred"]
             /\ stale' = IF row # copy THEN stale \cup {e} ELSE stale
    <3>1. event'[e] = done
      BY <1>1, <1>2, <2>3, <2>5
    <3>2. Evolves(row, event'[e]) /\ Fits(event'[e])
      BY <2>1, <2>4, <3>1 DEF Evolves
    <3>3. e \notin stale' => r = row
      BY <1>2, <2>1, <2>5, AsProcessedOfItself
    <3>4. EventStep(e)
      BY <1>1, <2>1, <2>4, <3>1, <3>2, <3>3 DEF EventStep, Marks
    <3>5. \A y \in Event \ {e} : event'[y] = event[y]
      BY <1>2, <2>5
    <3>6. stale \subseteq stale'
      BY <2>5
    <3>. QED
      BY <2>1, <2>2, <3>4, <3>5, <3>6, Untouched DEF EventsStep
  <2>6. CASE NotProcessed /\ UNCHANGED <<event, stale>>
    BY <1>4, <2>6
  <2>. QED
    BY <1>1, <2>5, <2>6 DEF ProcessNext
<1>. QED
  BY <1>1, <1>4, <1>5, ProcessNextMoves DEF CarriedInv

LEMMA OtherEvents ==
  ASSUME CarriedInv, UNCHANGED vars \/ ReadDue \/ Kill \/ Tick
           \/ \E u \in Analyst : Asks(u) \/ LosesRole(u) \/ CommitDelete(u) \/ Abandon(u)
  PROVE  EventsStep
<1>1. CASE UNCHANGED <<event, stale, timeline, holder, snapshot, backdated>>
  BY <1>1, Untouched DEF EventsStep, NotProcessed
<1>2. CASE UNCHANGED vars \/ ReadDue \/ Kill \/ Tick
  BY <1>1, <1>2 DEF ReadDue, Kill, Tick, vars
<1>3. ASSUME NEW u \in Analyst, LosesRole(u) \/ Abandon(u) PROVE EventsStep
  BY <1>1, <1>3 DEF LosesRole, Abandon
<1>4. ASSUME NEW u \in Analyst, Asks(u) PROVE EventsStep
  <2>1. CASE \E assets \in SUBSET Asset, from \in Holder, to \in Holder, day \in Day :
               ValidateCreate(u, assets, from, to, day)
    BY <1>1, <2>1 DEF ValidateCreate
  <2>2. CASE \E e \in Event, assets \in SUBSET Asset, day \in Day : ValidateUpdate(u, e, assets, day)
    BY <1>1, <2>2 DEF ValidateUpdate
  <2>3. CASE \E e \in Event : ValidateDelete(u, e)
    BY <1>1, <2>3 DEF ValidateDelete
  <2>. QED
    BY <1>4, <2>1, <2>2, <2>3 DEF Asks
<1>5. ASSUME NEW u \in Analyst, CommitDelete(u) PROVE EventsStep
  <2>1. PICK e, gone : e = request[u].id /\ gone = [NoEvent EXCEPT !.status = "deleted"]
    OBVIOUS
  <2>2. gone.status = "deleted" /\ gone.assets = {}
    BY <2>1 DEF NoEvent
  <2>3. e \in Event /\ event \in [Event -> Record]
    BY <1>5, <2>1 DEF CommitDelete, CarriedInv, IInv, Shape
  <2>4. event' = [event EXCEPT ![e] = gone] /\ UNCHANGED <<stale, timeline, holder, snapshot, backdated>>
    BY <1>5, <2>1 DEF CommitDelete
  <2>5. event'[e] = gone /\ \A x \in Event \ {e} : event'[x] = event[x]
    BY <2>3, <2>4
  <2>6. EventStep(e)
    BY <2>2, <2>5 DEF EventStep, Evolves, Marks, Fits, Among
  <2>. QED
    BY <2>4, <2>5, <2>6, Untouched DEF EventsStep, NotProcessed
<1>. QED
  BY <1>2, <1>3, <1>4, <1>5

LEMMA EveryEventsStep ==
  ASSUME CarriedInv, [Next]_vars
  PROVE  EventsStep
<1>1. ASSUME NEW u \in Analyst, Commits(u) PROVE EventsStep
  BY <1>1, CommitCreateEvents, CommitUpdateEvents, OtherEvents DEF Commits
<1>. QED
  BY <1>1, ProcessNextEvents, OtherEvents DEF Next, Job

-----------------------------------------------------------------------------
(* The copies keep fitting their rows *)

\* The requests after a step: as before, forgotten, or just validated.
RequestStep(u) ==
  \/ request'[u] = request[u] \/ request'[u] = NoRequest
  \/ \E e \in Event : request'[u].id = e /\ event'[e] = event[e] /\ Carries(request'[u], event[e])
  \/ request'[u].op = "create" /\ Fits(request'[u].new)
       /\ request'[u].new.status = "to be transferred"

LEMMA AsksCarries ==
  ASSUME CarriedInv, NEW u \in Analyst, Asks(u)
  PROVE  RequestStep(u) /\ event' = event /\ \A v \in Analyst \ {u} : request'[v] = request[v]
<1>0. request \in [Analyst -> Request] /\ event \in [Event -> Record]
  BY DEF CarriedInv, IInv, Shape
<1>h. \A f \in Facility : holder[f] \in Operation
  BY DEF CarriedInv, Carried
<1>1. CASE \E assets \in SUBSET Asset, from \in Holder, to \in Holder, day \in Day :
             ValidateCreate(u, assets, from, to, day)
  <2>1. PICK assets \in SUBSET Asset, from \in Holder, to \in Holder, day \in Day :
          ValidateCreate(u, assets, from, to, day)
    BY <1>1
  <2>2. PICK new : new = [status |-> "to be transferred", assets |-> assets, from |-> from,
                          to |-> to, effective |-> day, by |-> u]
    OBVIOUS
  <2>3. PICK q : q = [NoRequest EXCEPT !.op = "create", !.new = new]
    OBVIOUS
  <2>4. q.op = "create" /\ q.new = new
    BY <2>3 DEF NoRequest
  <2>5. /\ assets # {} /\ \A a \in assets : holder[a] = from
        /\ assets \subseteq Facility \/ assets \subseteq Operation
        /\ assets \subseteq Facility => to \in Operation
    BY <2>1 DEF ValidateCreate, Offered, Recipients
  <2>6. assets \cap Facility # {} => assets \subseteq Facility
    BY <2>5, AssetsAssumption
  <2>7. assets \subseteq Facility => from \in Operation
    BY <1>h, <2>5
  <2>8. Fits(new) /\ new.status = "to be transferred"
    BY <2>2, <2>5, <2>6, <2>7 DEF Fits, Among
  <2>9. request' = [request EXCEPT ![u] = q] /\ event' = event
    BY <2>1, <2>2, <2>3 DEF ValidateCreate
  <2>10. request'[u] = q /\ \A v \in Analyst \ {u} : request'[v] = request[v]
    BY <1>0, <2>9
  <2>. QED
    BY <2>4, <2>8, <2>9, <2>10 DEF RequestStep
<1>2. CASE \E e \in Event, assets \in SUBSET Asset, day \in Day : ValidateUpdate(u, e, assets, day)
  <2>1. PICK e \in Event, assets \in SUBSET Asset, day \in Day : ValidateUpdate(u, e, assets, day)
    BY <1>2
  <2>2. PICK row : row = event[e]
    OBVIOUS
  <2>3. PICK new : new = [row EXCEPT !.assets = assets, !.effective = day]
    OBVIOUS
  <2>4. PICK q : q = [op |-> "update", id |-> e, copy |-> row, new |-> new]
    OBVIOUS
  <2>5. row \in Record /\ Fits(row)
    BY <2>2, <1>0 DEF CarriedInv, Carried
  <2>6. /\ assets # {} /\ row.status = "to be transferred"
        /\ assets \subseteq Facility \/ assets \subseteq Operation
        /\ assets \subseteq Facility <=> row.assets \subseteq Facility
    BY <2>1, <2>2 DEF ValidateUpdate, Offered, Pending
  <2>7. /\ new.status = row.status /\ new.assets = assets /\ new.from = row.from
        /\ new.to = row.to
    BY <2>3, <2>5 DEF Record
  <2>8. assets \cap Facility # {} => assets \subseteq Facility
    BY <2>6, AssetsAssumption
  <2>9. row.assets \subseteq Facility => row.from \in Operation /\ row.to \in Operation
    BY <2>5, <2>6 DEF Fits, Among
  <2>10. Fits(new)
    BY <2>6, <2>7, <2>8, <2>9 DEF Fits, Among
  <2>11. CopyOf(row, row) /\ SameMove(row, new)
    BY <2>5, <2>6, <2>7 DEF CopyOf, SameMove
  <2>12. q.op = "update" /\ q.id = e /\ q.copy = row /\ q.new = new
    BY <2>4
  <2>13. Carries(q, row)
    BY <2>6, <2>7, <2>10, <2>11, <2>12 DEF Carries
  <2>14. request' = [request EXCEPT ![u] = q] /\ event' = event
    BY <2>1, <2>2, <2>3, <2>4 DEF ValidateUpdate
  <2>15. request'[u] = q /\ \A v \in Analyst \ {u} : request'[v] = request[v]
    BY <1>0, <2>14
  <2>. QED
    BY <2>2, <2>12, <2>13, <2>14, <2>15 DEF RequestStep
<1>3. CASE \E e \in Event : ValidateDelete(u, e)
  <2>1. PICK e \in Event : ValidateDelete(u, e)
    BY <1>3
  <2>2. PICK q : q = [NoRequest EXCEPT !.op = "delete", !.id = e]
    OBVIOUS
  <2>3. q.op = "delete" /\ q.id = e
    BY <2>2 DEF NoRequest
  <2>4. request' = [request EXCEPT ![u] = q] /\ event' = event
    BY <2>1, <2>2 DEF ValidateDelete
  <2>5. request'[u] = q /\ \A v \in Analyst \ {u} : request'[v] = request[v]
    BY <1>0, <2>4
  <2>6. Carries(q, event[e])
    BY <2>3 DEF Carries
  <2>. QED
    BY <2>3, <2>4, <2>5, <2>6 DEF RequestStep
<1>. QED
  BY <1>1, <1>2, <1>3 DEF Asks

LEMMA EveryRequestStep ==
  ASSUME CarriedInv, [Next]_vars, NEW u \in Analyst
  PROVE  RequestStep(u)
<1>0. request \in [Analyst -> Request]
  BY DEF CarriedInv, IInv, Shape
<1>1. ASSUME NEW v \in Analyst, Asks(v) PROVE RequestStep(u)
  BY <1>1, AsksCarries DEF RequestStep
<1>2. CASE request' = request
  BY <1>2 DEF RequestStep
<1>3. ASSUME NEW v \in Analyst, request' = [request EXCEPT ![v] = NoRequest] PROVE RequestStep(u)
  BY <1>0, <1>3 DEF RequestStep
<1>4. ASSUME NEW v \in Analyst, Commits(v) PROVE RequestStep(u)
  BY <1>3, <1>4 DEF Commits, CommitCreate, CommitUpdate, CommitDelete, Abandon
<1>5. ASSUME NEW v \in Analyst, LosesRole(v) PROVE RequestStep(u)
  BY <1>2, <1>5 DEF LosesRole
<1>6. ASSUME NEW x \in list, ProcessNext(x) PROVE RequestStep(u)
  BY <1>2, <1>6 DEF ProcessNext
<1>7. CASE ReadDue \/ Kill \/ Tick \/ UNCHANGED vars
  BY <1>2, <1>7 DEF ReadDue, Kill, Tick, vars
<1>. QED
  BY <1>1, <1>4, <1>5, <1>6, <1>7 DEF Next, Job

\* The list after a step: less than before, or just read.
LEMMA EveryListStep ==
  ASSUME CarriedInv, [Next]_vars
  PROVE  \/ list' \subseteq list
         \/ event' = event /\ \A x \in list' : x.id \in Event /\ CopyOf(x.copy, event[x.id])
<1>1. CASE ReadDue
  <2>1. ASSUME NEW x \in list' PROVE x.id \in Event /\ CopyOf(x.copy, event[x.id])
    <3>1. PICK e \in Event : Due(e) /\ x = [id |-> e, copy |-> event[e]]
      BY <1>1, <2>1 DEF ReadDue
    <3>2. x.id = e /\ x.copy = event[e] /\ event[e].status = "to be transferred"
      BY <3>1 DEF Due, Pending
    <3>3. Fits(event[e])
      BY DEF CarriedInv, Carried
    <3>. QED
      BY <3>2, <3>3 DEF CopyOf, SameMove
  <2>. QED
    BY <1>1, <2>1 DEF ReadDue
<1>2. CASE Kill \/ Tick \/ UNCHANGED vars
  BY <1>2 DEF Kill, Tick, vars
<1>3. ASSUME NEW v \in Analyst, Asks(v) \/ LosesRole(v) PROVE list' = list
  BY <1>3 DEF Asks, ValidateCreate, ValidateUpdate, ValidateDelete, LosesRole
<1>4. ASSUME NEW v \in Analyst, Commits(v) PROVE list' = list
  BY <1>4 DEF Commits, CommitCreate, CommitUpdate, CommitDelete, Abandon
<1>5. ASSUME NEW x \in list, ProcessNext(x) PROVE list' \subseteq list
  BY <1>5 DEF ProcessNext
<1>. QED
  BY <1>1, <1>2, <1>3, <1>4, <1>5 DEF Next, Job

LEMMA CarriedInit == Init => Carried
<1>. SUFFICES ASSUME Init PROVE Carried
  OBVIOUS
<1>1. \A f \in Facility : holder[f] \in Operation
  BY AssetsAssumption DEF Init, Asset
<1>2. Fits(NoEvent)
  BY DEF Fits, Among, NoEvent
<1>3. \A e \in Event : Fits(event[e])
  BY <1>2 DEF Init
<1>4. \A u \in Analyst : request[u].op = "none"
  BY DEF Init, NoRequest
<1>5. \A u \in Analyst : Carries(request[u], event[request[u].id])
  BY <1>4 DEF Carries
<1>. QED
  BY <1>1, <1>3, <1>5 DEF Init, Carried

LEMMA CarriedStep == CarriedInv /\ [Next]_vars => CarriedInv'
<1>. SUFFICES ASSUME CarriedInv, [Next]_vars PROVE CarriedInv'
  OBVIOUS
<1>1. IInv' /\ EventsStep
  BY IInvStep, EveryEventsStep DEF CarriedInv
<1>2. (\A f \in Facility : holder'[f] \in Operation) /\ snapshot' \subseteq Facility \X Operation
  <2>1. CASE NotProcessed
    BY <2>1 DEF NotProcessed, CarriedInv, Carried
  <2>2. CASE \E r \in Record : Among(r) /\ Moves(r)
    BY <2>2, MovesCarried
  <2>. QED
    BY <1>1, <2>1, <2>2 DEF EventsStep
<1>3. \A e \in Event : Fits(event'[e]) /\ Evolves(event[e], event'[e])
  BY <1>1 DEF EventsStep, EventStep
<1>4. ASSUME NEW x \in list' PROVE CopyOf(x.copy, event'[x.id])
  <2>1. CASE x \in list
    <3>1. x.id \in Event /\ CopyOf(x.copy, event[x.id])
      BY <2>1 DEF CarriedInv, Carried, IInv, Shape
    <3>. QED
      BY <3>1, <1>3, CopyEvolves
  <2>. QED
    BY <2>1, EveryListStep
<1>5. ASSUME NEW u \in Analyst PROVE Carries(request'[u], event'[request'[u].id])
  <2>1. PICK q, p : q = request'[u] /\ p = request[u]
    OBVIOUS
  <2>2. CASE q = p
    <3>1. Carries(p, event[p.id]) /\ (p.op = "update" => p.id \in Event)
      BY <2>1 DEF CarriedInv, Carried, IInv, Shape
    <3>2. CASE p.op = "update"
      BY <2>1, <2>2, <3>1, <3>2, <1>3, CarriesEvolves
    <3>3. CASE p.op # "update"
      BY <2>1, <2>2, <3>1, <3>3 DEF Carries
    <3>. QED
      BY <3>2, <3>3
  <2>3. CASE q = NoRequest
    BY <2>1, <2>3 DEF Carries, NoRequest
  <2>4. CASE \E e \in Event : q.id = e /\ event'[e] = event[e] /\ Carries(q, event[e])
    BY <2>1, <2>4
  <2>5. CASE q.op = "create" /\ Fits(q.new) /\ q.new.status = "to be transferred"
    BY <2>1, <2>5 DEF Carries
  <2>. QED
    BY <2>1, <2>2, <2>3, <2>4, <2>5, EveryRequestStep DEF RequestStep
<1>6. Carried'
  BY <1>2, <1>3, <1>4, <1>5 DEF Carried, Carries, CopyOf, Fits, Among, SameMove
<1>. QED
  BY <1>1, <1>6 DEF CarriedInv

-----------------------------------------------------------------------------
(* The other variables *)

Rest ==
  /\ today \in Day /\ authorised \subseteq Analyst /\ kills \in 0..MaxKills
  /\ raced \in BOOLEAN /\ stale \subseteq Event /\ backdated \subseteq Asset

LEMMA RestStep == CarriedInv /\ Rest /\ [Next]_vars => Rest'
<1>. SUFFICES ASSUME CarriedInv, Rest, [Next]_vars PROVE Rest'
  OBVIOUS
<1>1. backdated' \subseteq Asset
  <2>1. CASE \E r \in Record : Moves(r)
    BY <2>1 DEF Moves, Process, Record, Rest
  <2>. QED
    BY <2>1, EveryEventsStep DEF EventsStep, NotProcessed, Rest
<1>2. ASSUME NEW u \in Analyst, NEW e \in Event, CommitCreate(u, e)
      PROVE  /\ UNCHANGED <<today, authorised, kills, stale>>
             /\ raced' = raced \/ raced' = (raced \/ Outdated(u))
  BY <1>2 DEF CommitCreate
<1>3. ASSUME NEW u \in Analyst, CommitUpdate(u)
      PROVE  /\ UNCHANGED <<today, authorised, kills>>
             /\ raced' = raced \/ raced' = (raced \/ Outdated(u))
             /\ stale' \subseteq Event
  <2>1. request[u].id \in Event
    BY <1>3 DEF CommitUpdate, CarriedInv, IInv, Shape
  <2>2. stale' = stale \/ stale' = stale \cup {request[u].id}
    BY <1>3 DEF CommitUpdate
  <2>3. stale' \subseteq Event
    BY <2>1, <2>2 DEF Rest
  <2>. QED
    BY <1>3, <2>3 DEF CommitUpdate
<1>4. ASSUME NEW u \in Analyst, raced' = raced \/ raced' = (raced \/ Outdated(u))
      PROVE  raced' \in BOOLEAN
  BY <1>4 DEF Rest
<1>5. ASSUME NEW u \in Analyst, CommitDelete(u) \/ Abandon(u)
      PROVE  UNCHANGED <<today, authorised, kills, raced, stale>>
  BY <1>5 DEF CommitDelete, Abandon
<1>6. ASSUME NEW u \in Analyst, Commits(u) PROVE Rest'
  <2>1. CASE \E e \in Event : CommitCreate(u, e)
    BY <1>1, <1>2, <1>4, <2>1 DEF Rest
  <2>2. CASE CommitUpdate(u)
    BY <1>1, <1>3, <1>4, <2>2 DEF Rest
  <2>3. CASE CommitDelete(u) \/ Abandon(u)
    BY <1>1, <1>5, <2>3 DEF Rest
  <2>. QED
    BY <1>6, <2>1, <2>2, <2>3 DEF Commits
<1>7. ASSUME NEW u \in Analyst, Asks(u) PROVE Rest'
  <2>1. UNCHANGED <<today, authorised, kills, raced, stale>>
    <3>1. CASE \E assets \in SUBSET Asset, from \in Holder, to \in Holder, day \in Day :
                 ValidateCreate(u, assets, from, to, day)
      BY <3>1 DEF ValidateCreate
    <3>2. CASE \E e \in Event, assets \in SUBSET Asset, day \in Day : ValidateUpdate(u, e, assets, day)
      BY <3>2 DEF ValidateUpdate
    <3>3. CASE \E e \in Event : ValidateDelete(u, e)
      BY <3>3 DEF ValidateDelete
    <3>. QED
      BY <1>7, <3>1, <3>2, <3>3 DEF Asks
  <2>. QED
    BY <1>1, <2>1 DEF Rest
<1>8. ASSUME NEW x \in list, ProcessNext(x) PROVE Rest'
  <2>1. x.id \in Event
    BY <1>8 DEF CarriedInv, IInv, Shape
  <2>2. stale' = stale \/ stale' = stale \cup {x.id}
    BY <1>8 DEF ProcessNext
  <2>3. UNCHANGED <<today, authorised, kills, raced>>
    BY <1>8 DEF ProcessNext
  <2>. QED
    BY <1>1, <2>1, <2>2, <2>3 DEF Rest
<1>9. CASE \E u \in Analyst : LosesRole(u)
  BY <1>1, <1>9 DEF LosesRole, Rest
<1>10. CASE ReadDue \/ UNCHANGED vars
  BY <1>1, <1>10 DEF ReadDue, vars, Rest
<1>11. CASE Kill
  BY <1>1, <1>11, BoundsAssumption DEF Kill, Rest
<1>12. CASE Tick
  BY <1>1, <1>12, BoundsAssumption DEF Tick, Rest, Day
<1>. QED
  BY <1>6, <1>7, <1>8, <1>9, <1>10, <1>11, <1>12 DEF Next, Job

LEMMA RestInit == Init => Rest
<1>. SUFFICES ASSUME Init PROVE Rest
  OBVIOUS
<1>1. 0 \in Day /\ 0 \in 0..MaxKills
  BY BoundsAssumption DEF Day
<1>2. raced \in BOOLEAN
  BY DEF Init
<1>. QED
  BY <1>1, <1>2 DEF Init, Rest

\* The state keeps its shape: facilities stay with operations, so that every
\* snapshot names one, whatever copies the job and requests carry along.
THEOREM TypesHold == Spec => []TypeOK
<1>1. Init => CarriedInv /\ Rest
  BY IInvInit, CarriedInit, RestInit DEF CarriedInv
<1>2. CarriedInv /\ Rest => TypeOK
  BY DEF CarriedInv, IInv, Shape, Request, Carried, Rest, TypeOK
<1>. QED
  BY <1>1, <1>2, CarriedStep, RestStep, PTL DEF Spec

-----------------------------------------------------------------------------
(* Transferred as recorded *)

\* The timelines say that each asset moved as the row says.
Recorded(row) ==
  \A a \in row.assets : \E i \in 1..(Len(timeline[a]) - 1) :
    /\ timeline[a][i].holder = row.from
    /\ timeline[a][i + 1].holder = row.to
    /\ timeline[a][i + 1].start = row.effective

RecordedNow(row) ==
  \A a \in row.assets : \E i \in 1..(Len(timeline'[a]) - 1) :
    /\ timeline'[a][i].holder = row.from
    /\ timeline'[a][i + 1].holder = row.to
    /\ timeline'[a][i + 1].start = row.effective

\* Later moves add rows and change the end of one.
LEMMA MovedKeeps ==
  ASSUME IInv, NEW r \in Record, Moves(r), NEW a \in Asset,
         NEW i \in 1..(Len(timeline[a]) - 1)
  PROVE  /\ i \in 1..(Len(timeline'[a]) - 1)
         /\ timeline'[a][i].holder = timeline[a][i].holder
         /\ timeline'[a][i + 1].holder = timeline[a][i + 1].holder
         /\ timeline'[a][i + 1].start = timeline[a][i + 1].start
<1>1. CASE a \in r.assets
  <2>1. ASSUME NEW b \in r.assets, NEW n, n = Len(timeline[b])
        PROVE  /\ n \in Nat /\ n >= 1 /\ timeline[b][n].holder = r.from
               /\ Len(timeline'[b]) = n + 1
               /\ timeline'[b][n].start = timeline[b][n].start /\ timeline'[b][n].holder = r.from
               /\ \A j \in 1..(n - 1) : timeline'[b][j] = timeline[b][j]
    <3>1. /\ b \in Asset /\ n \in Nat /\ n >= 1 /\ timeline[b][n] \in Row
          /\ timeline[b][n].end = Open /\ timeline[b][n].holder = r.from
          /\ Len(timeline'[b]) = n + 1
          /\ timeline'[b][n + 1] = [holder |-> r.to, start |-> r.effective, end |-> Open]
          /\ timeline'[b][n].start = timeline[b][n].start /\ timeline'[b][n].holder = r.from
          /\ timeline'[b][n].end = r.effective
          /\ \A j \in 1..(n - 1) : timeline'[b][j] = timeline[b][j]
          /\ b \notin backdated' => timeline[b][n].start <= r.effective
      BY <2>1, MovedAsset, SMTT(60)
    <3>. QED
      BY <3>1
  <2>2. PICK n : n = Len(timeline[a])
    OBVIOUS
  <2>3. /\ n \in Nat /\ n >= 1 /\ timeline[a][n].holder = r.from
        /\ Len(timeline'[a]) = n + 1
        /\ timeline'[a][n].start = timeline[a][n].start /\ timeline'[a][n].holder = r.from
        /\ \A j \in 1..(n - 1) : timeline'[a][j] = timeline[a][j]
    BY <1>1, <2>1, <2>2
  <2>4. i \in 1..(n - 1) /\ i \in 1..n /\ (i + 1 \in 1..(n - 1) \/ i + 1 = n)
    BY <2>2, <2>3
  <2>5. i \in 1..(Len(timeline'[a]) - 1)
    BY <2>3, <2>4
  <2>6. timeline'[a][i] = timeline[a][i]
    BY <2>3, <2>4
  <2>7. /\ timeline'[a][i + 1].holder = timeline[a][i + 1].holder
        /\ timeline'[a][i + 1].start = timeline[a][i + 1].start
    BY <2>3, <2>4
  <2>. QED
    BY <2>5, <2>6, <2>7
<1>2. CASE a \notin r.assets
  <2>1. timeline'[a] = timeline[a]
    BY <1>2 DEF Moves, Process
  <2>. QED
    BY <2>1
<1>. QED
  BY <1>1, <1>2

LEMMA RecordedStays ==
  ASSUME IInv, NEW r \in Record, Moves(r), NEW row \in Record, Recorded(row)
  PROVE  RecordedNow(row)
<1>. SUFFICES ASSUME NEW a \in row.assets
              PROVE  \E i \in 1..(Len(timeline'[a]) - 1) :
                       /\ timeline'[a][i].holder = row.from
                       /\ timeline'[a][i + 1].holder = row.to
                       /\ timeline'[a][i + 1].start = row.effective
  BY DEF RecordedNow
<1>1. a \in Asset
  BY DEF Record
<1>2. PICK i \in 1..(Len(timeline[a]) - 1) : /\ timeline[a][i].holder = row.from
                                             /\ timeline[a][i + 1].holder = row.to
                                             /\ timeline[a][i + 1].start = row.effective
  BY DEF Recorded
<1>3. /\ i \in 1..(Len(timeline'[a]) - 1)
      /\ timeline'[a][i].holder = timeline[a][i].holder
      /\ timeline'[a][i + 1].holder = timeline[a][i + 1].holder
      /\ timeline'[a][i + 1].start = timeline[a][i + 1].start
  BY <1>1, MovedKeeps
<1>. QED
  BY <1>2, <1>3

\* What moves is recorded.
LEMMA MovedIsRecorded ==
  ASSUME IInv, NEW r \in Record, Moves(r), NEW row, SameRecord(row, r)
  PROVE  RecordedNow(row)
<1>. SUFFICES ASSUME NEW a \in r.assets
              PROVE  \E i \in 1..(Len(timeline'[a]) - 1) :
                       /\ timeline'[a][i].holder = r.from
                       /\ timeline'[a][i + 1].holder = r.to
                       /\ timeline'[a][i + 1].start = r.effective
  BY DEF RecordedNow, SameRecord
<1>1. PICK n : n = Len(timeline[a])
  OBVIOUS
<1>2. /\ n \in Nat /\ n >= 1 /\ Len(timeline'[a]) = n + 1 /\ timeline'[a][n].holder = r.from
      /\ timeline'[a][n + 1] = [holder |-> r.to, start |-> r.effective, end |-> Open]
  BY <1>1, MovedAsset
<1>3. timeline'[a][n + 1].holder = r.to /\ timeline'[a][n + 1].start = r.effective
  BY <1>2
<1>4. n \in 1..(Len(timeline'[a]) - 1)
  BY <1>2
<1>. QED
  BY <1>2, <1>3, <1>4

RecordedInv == CarriedInv /\ TransferredAsRecorded

LEMMA RecordedStep == RecordedInv /\ [Next]_vars => RecordedInv'
<1>. SUFFICES ASSUME RecordedInv, [Next]_vars PROVE RecordedInv'
  OBVIOUS
<1>1. CarriedInv /\ CarriedInv' /\ EventsStep /\ IInv
  BY CarriedStep, EveryEventsStep DEF RecordedInv, CarriedInv
<1>2. ASSUME NEW e \in Event, event'[e].status = "transferred", e \notin stale'
      PROVE  RecordedNow(event'[e])
  <2>1. PICK row : row = event'[e]
    OBVIOUS
  <2>2. CASE row = event[e] /\ e \notin stale
    <3>1. Recorded(row) /\ row \in Record
      <4>1. event[e].status = "transferred"
        BY <1>2, <2>1, <2>2
      <4>2. Recorded(event[e])
        BY <2>2, <4>1 DEF RecordedInv, TransferredAsRecorded, Recorded
      <4>3. event[e] \in Record
        BY <1>1 DEF IInv, Shape
      <4>. QED
        BY <2>2, <4>2, <4>3
    <3>2. CASE NotProcessed
      BY <3>1, <3>2, <2>1 DEF NotProcessed, Recorded, RecordedNow
    <3>3. CASE \E r \in Record : Moves(r)
      BY <1>1, <2>1, <3>1, <3>3, RecordedStays
    <3>. QED
      BY <1>1, <3>2, <3>3 DEF EventsStep
  <2>3. CASE \E r \in Record : Moves(r) /\ SameRecord(row, r)
    BY <1>1, <2>1, <2>3, MovedIsRecorded
  <2>. QED
    BY <1>1, <1>2, <2>1, <2>2, <2>3 DEF EventsStep, EventStep, Marks
<1>3. TransferredAsRecorded'
  BY <1>2 DEF TransferredAsRecorded, RecordedNow
<1>. QED
  BY <1>1, <1>3 DEF RecordedInv

\* An event marked transferred moved each of its assets from and to the holders
\* and on the day it names, unless it was acted on with an old copy
\* (the status that _process_single_event saves).
THEOREM TransferredAsRecordedHolds == Spec => []TransferredAsRecorded
<1>1. Init => RecordedInv
  BY IInvInit, CarriedInit DEF RecordedInv, CarriedInv, TransferredAsRecorded, Init, NoEvent
<1>2. RecordedInv => TransferredAsRecorded
  BY DEF RecordedInv
<1>. QED
  BY <1>1, <1>2, RecordedStep, PTL DEF Spec
=============================================================================
