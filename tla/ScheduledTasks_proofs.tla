-------------------------- MODULE ScheduledTasks_proofs --------------------------
(***************************************************************************)
(* Theorems about ScheduledTasks, for every schedule and every calendar    *)
(* that lasts a year longer than the model.  The calculation of the next   *)
(* run finds the first time that the schedule names (FreshIsFirst, from    *)
(* the arithmetic of days, months and leap years); what a row waits for    *)
(* and that no run is repeated follow from it.                             *)
(***************************************************************************)
EXTENDS ScheduledTasks, FiniteSetTheorems, WellFoundedInduction, TLAPS

-----------------------------------------------------------------------------
(* Slots and days *)

LEMMA DayOfSlot ==
  ASSUME NEW t \in Int
  PROVE  /\ Today(t) \in Int /\ t % Slots \in 0..(Slots - 1)
         /\ t = Today(t) * Slots + (t % Slots)
         /\ t >= 0 => Today(t) >= 0
  BY BoundsAssumption DEF Today

LEMMA SlotOfDay ==
  ASSUME NEW q \in Int, NEW r \in 0..(Slots - 1)
  PROVE  /\ q * Slots + r \in Int
         /\ Today(q * Slots + r) = q /\ (q * Slots + r) % Slots = r
  BY BoundsAssumption DEF Today

\* Days follow each other in the order of their slots.
LEMMA DaysInOrder ==
  ASSUME NEW a \in Int, NEW b \in Int
  PROVE  /\ Today(a) < Today(b) => a < b
         /\ a <= b => Today(a) <= Today(b)
         /\ Today(a + Slots) = Today(a) + 1
<1>0. Slots \in Nat \ {0}
  BY BoundsAssumption
<1>1. PICK p, q, r, s : p = Today(a) /\ q = Today(b) /\ r = a % Slots /\ s = b % Slots
  OBVIOUS
<1>2. /\ a = p * Slots + r /\ p \in Int /\ r \in 0..(Slots - 1)
      /\ b = q * Slots + s /\ q \in Int /\ s \in 0..(Slots - 1)
  BY <1>1, DayOfSlot
<1>3. p < q => p * Slots + Slots <= q * Slots
  BY <1>0, <1>2
<1>4. q < p => q * Slots + Slots <= p * Slots
  BY <1>0, <1>2
<1>5. PICK x, y : x = p * Slots /\ y = q * Slots
  OBVIOUS
<1>6. x \in Int /\ y \in Int
  BY <1>0, <1>2, <1>5
<1>7. p < q => a < b
  BY <1>0, <1>2, <1>3, <1>5, <1>6
<1>8. q < p => b < a
  BY <1>0, <1>2, <1>4, <1>5, <1>6
<1>9. Today(a + Slots) = Today(a) + 1
  <2>1. a + Slots = (p + 1) * Slots + r
    BY <1>0, <1>2
  <2>2. Today((p + 1) * Slots + r) = p + 1
    BY <1>2, SlotOfDay
  <2>. QED
    BY <1>1, <2>1, <2>2
<1>. QED
  BY <1>1, <1>2, <1>7, <1>8, <1>9

-----------------------------------------------------------------------------
(* Years and months *)

LEMMA LeastNumber ==
  ASSUME NEW T \in SUBSET Nat, T # {}
  PROVE  \E x \in T : \A y \in T : x <= y
<1>1. PICK R : R = OpToRel(<, Nat)
  OBVIOUS
<1>2. IsWellFoundedOn(R, Nat)
  BY <1>1, NatLessThanWellFounded
<1>3. PICK x \in T : \A y \in T : ~(<<y, x>> \in R)
  BY <1>2, WFMin
<1>4. \A a, b \in Nat : a < b => <<a, b>> \in R
  BY <1>1 DEF OpToRel
<1>5. ASSUME NEW y \in T PROVE x <= y
  <2>1. y \in Nat /\ x \in Nat /\ <<y, x>> \notin R
    BY <1>3
  <2>2. ~(y < x)
    BY <1>4, <2>1
  <2>. QED
    BY <2>1, <2>2
<1>. QED
  BY <1>5

\* The years of the calendar and what follows
Year == {y \in Nat : y >= FirstYear}

LEMMA YearStep ==
  ASSUME NEW y \in Year
  PROVE  /\ YearStart(y) \in Nat
         /\ YearStart(y + 1) = YearStart(y) + 365 + (IF Leap(y) THEN 1 ELSE 0)
         /\ YearStart(FirstYear) = 0 /\ FirstYear \in Year
<1>. DEFINE L == {x \in FirstYear..(y - 1) : Leap(x)}
            K == {x \in FirstYear..((y + 1) - 1) : Leap(x)}
<1>0. FirstYear \in Nat /\ y \in Nat /\ y >= FirstYear
  BY BoundsAssumption DEF Year
<1>1. K = IF Leap(y) THEN L \cup {y} ELSE L
  BY <1>0
<1>2. IsFiniteSet(FirstYear..(y - 1))
  BY <1>0, FS_Interval
<1>3. IsFiniteSet(L)
  BY <1>2, FS_Subset
<1>4. y \notin L
  BY <1>0
<1>5. /\ YearStart(y) = 365 * (y - FirstYear) + Cardinality(L)
      /\ YearStart(y + 1) = 365 * ((y + 1) - FirstYear) + Cardinality(K)
  BY DEF YearStart
<1>6. YearStart(FirstYear) = 0 /\ FirstYear \in Year
  <2>1. {x \in FirstYear..(FirstYear - 1) : Leap(x)} = {}
    BY <1>0
  <2>2. YearStart(FirstYear) = 365 * (FirstYear - FirstYear) + Cardinality({})
    BY <2>1 DEF YearStart
  <2>. QED
    BY <1>0, <2>2, FS_EmptySet DEF Year
<1>. HIDE DEF L, K
<1>7. Cardinality(L) \in Nat /\ Cardinality(L \cup {y}) = Cardinality(L) + 1
  BY <1>3, <1>4, FS_CardinalityType, FS_AddElement
<1>. QED
  BY <1>0, <1>1, <1>5, <1>6, <1>7

LEMMA YearsInOrder ==
  ASSUME NEW y \in Year, NEW z \in Year, y < z
  PROVE  YearStart(y + 1) <= YearStart(z)
<1>. DEFINE L == {x \in FirstYear..((y + 1) - 1) : Leap(x)}
            K == {x \in FirstYear..(z - 1) : Leap(x)}
<1>0. FirstYear \in Nat /\ y \in Nat /\ z \in Nat /\ y >= FirstYear
  BY BoundsAssumption DEF Year
<1>1. L \in SUBSET K
  BY <1>0
<1>2. IsFiniteSet(FirstYear..(z - 1))
  BY <1>0, FS_Interval
<1>3. IsFiniteSet(K)
  BY <1>2, FS_Subset
<1>4. /\ YearStart(y + 1) = 365 * ((y + 1) - FirstYear) + Cardinality(L)
      /\ YearStart(z) = 365 * (z - FirstYear) + Cardinality(K)
  BY DEF YearStart
<1>. HIDE DEF L, K
<1>5. IsFiniteSet(L) /\ Cardinality(L) <= Cardinality(K)
  BY <1>1, <1>3, FS_Subset
<1>6. Cardinality(L) \in Nat /\ Cardinality(K) \in Nat
  BY <1>3, <1>5, FS_CardinalityType
<1>. QED
  BY <1>0, <1>4, <1>5, <1>6

\* Every day before the year z has a year.
LEMMA YearExists ==
  ASSUME NEW n \in Nat, NEW z \in Nat, n < YearStart(z)
  PROVE  \E y \in FirstYear..(z - 1) : YearStart(y) <= n /\ n < YearStart(y + 1)
<1>. DEFINE T == {y \in Year : n < YearStart(y)}
<1>0. FirstYear \in Nat
  BY BoundsAssumption
<1>1. z \in T
  <2>1. CASE z >= FirstYear
    BY <2>1 DEF Year
  <2>2. CASE z < FirstYear
    <3>1. {x \in FirstYear..(z - 1) : Leap(x)} = {}
      BY <1>0, <2>2
    <3>2. YearStart(z) = 365 * (z - FirstYear) + Cardinality({})
      BY <3>1 DEF YearStart
    <3>. QED
      BY <1>0, <2>2, <3>2, FS_EmptySet
  <2>. QED
    BY <1>0, <2>1, <2>2
<1>2. T \in SUBSET Nat /\ T # {}
  BY <1>1 DEF Year
<1>3. PICK x \in T : \A y \in T : x <= y
  BY <1>2, LeastNumber
<1>4. x \in Year /\ x \in Nat /\ n < YearStart(x) /\ x <= z
  BY <1>1, <1>3 DEF Year
<1>5. x # FirstYear
  BY <1>4, YearStep
<1>6. x - 1 \in Year /\ x - 1 \in FirstYear..(z - 1) /\ (x - 1) + 1 = x
  BY <1>0, <1>4, <1>5 DEF Year
<1>7. x - 1 \notin T
  <2>1. ~(x <= x - 1)
    BY <1>4
  <2>. QED
    BY <1>3, <2>1
<1>8. YearStart(x - 1) <= n
  BY <1>6, <1>7, YearStep
<1>. QED
  BY <1>4, <1>6, <1>8


LEMMA MonthStep ==
  ASSUME NEW y \in Year, NEW m \in 1..12
  PROVE  /\ MonthStart(y, m) \in Nat /\ DaysIn(y, m) \in 28..31
         /\ MonthStart(y, m + 1) = MonthStart(y, m) + DaysIn(y, m)
         /\ MonthStart(y, 1) = YearStart(y) /\ MonthStart(y, 13) = YearStart(y + 1)
<1>1. /\ YearStart(y) \in Nat
      /\ YearStart(y + 1) = YearStart(y) + 365 + (IF Leap(y) THEN 1 ELSE 0)
  BY YearStep
<1>2. PICK l \in {0, 1} : l = (IF Leap(y) THEN 1 ELSE 0)
  OBVIOUS
<1>3. MonthStart(y, m) \in Nat /\ DaysIn(y, m) \in 28..31
  BY <1>1 DEF MonthStart, DaysIn
<1>4. MonthStart(y, m + 1) = MonthStart(y, m) + DaysIn(y, m)
  BY <1>1 DEF MonthStart, DaysIn
<1>5. MonthStart(y, 1) = YearStart(y) /\ MonthStart(y, 13) = YearStart(y + 1)
  BY <1>1 DEF MonthStart
<1>. QED
  BY <1>3, <1>4, <1>5

LEMMA MonthsOfYear ==
  ASSUME NEW y \in Year, NEW m \in 1..12, NEW k \in 1..12
  PROVE  /\ m < k => MonthStart(y, m + 1) <= MonthStart(y, k)
         /\ YearStart(y) <= MonthStart(y, m) /\ MonthStart(y, m + 1) <= YearStart(y + 1)
<1>1. /\ YearStart(y) \in Nat
      /\ YearStart(y + 1) = YearStart(y) + 365 + (IF Leap(y) THEN 1 ELSE 0)
  BY YearStep
<1>2. m < k => MonthStart(y, m + 1) <= MonthStart(y, k)
  BY <1>1 DEF MonthStart
<1>3. YearStart(y) <= MonthStart(y, m) /\ MonthStart(y, m + 1) <= YearStart(y + 1)
  BY <1>1 DEF MonthStart
<1>. QED
  BY <1>2, <1>3

\* The month m of the year y is before the month k of the year z.
Before(y, m, z, k) == y < z \/ (y = z /\ m < k)

LEMMA MonthsInOrder ==
  ASSUME NEW y \in Year, NEW m \in 1..12, NEW z \in Year, NEW k \in 1..12, Before(y, m, z, k)
  PROVE  MonthStart(y, m + 1) <= MonthStart(z, k)
<1>1. CASE y = z /\ m < k
  BY <1>1, MonthsOfYear
<1>2. CASE y < z
  <2>1. MonthStart(y, m + 1) <= YearStart(y + 1) /\ YearStart(z) <= MonthStart(z, k)
    BY MonthsOfYear
  <2>2. YearStart(y + 1) <= YearStart(z)
    BY <1>2, YearsInOrder
  <2>3. MonthStart(y, m + 1) \in Nat /\ MonthStart(z, k) \in Nat
    BY MonthStep
  <2>4. YearStart(y + 1) \in Nat /\ YearStart(z) \in Nat
    BY YearStep DEF Year
  <2>. QED
    BY <2>1, <2>2, <2>3, <2>4
<1>. QED
  BY <1>1, <1>2 DEF Before

\* The day n is in the month m of the year y.
InMonth(n, y, m) ==
  /\ y \in Year /\ m \in 1..12
  /\ MonthStart(y, m) <= n /\ n < MonthStart(y, m + 1)

LEMMA MonthExists ==
  ASSUME NEW n \in Nat, NEW y \in Year, YearStart(y) <= n, n < YearStart(y + 1)
  PROVE  \E m \in 1..12 : InMonth(n, y, m)
<1>1. \A m \in 1..12 : MonthStart(y, m) \in Nat
  BY MonthStep
<1>2. MonthStart(y, 1) <= n /\ n < MonthStart(y, 13)
  <2>1. 1 \in 1..12
    OBVIOUS
  <2>. QED
    BY <2>1, MonthStep
<1>. DEFINE T == {m \in 1..12 : n < MonthStart(y, m + 1)}
<1>3. T \in SUBSET Nat /\ 12 \in T
  BY <1>2
<1>4. PICK m \in T : \A k \in T : m <= k
  BY <1>3, LeastNumber
<1>5. m \in 1..12 /\ n < MonthStart(y, m + 1)
  OBVIOUS
<1>6. MonthStart(y, m) <= n
  <2>1. CASE m = 1
    BY <1>2, <2>1
  <2>2. CASE m # 1
    <3>1. m - 1 \in 1..12 /\ (m - 1) + 1 = m /\ ~(m <= m - 1)
      BY <1>5, <2>2
    <3>2. m - 1 \notin T
      BY <1>4, <3>1
    <3>3. ~(n < MonthStart(y, m)) /\ MonthStart(y, m) \in Nat
      BY <1>1, <1>5, <3>1, <3>2
    <3>. QED
      BY <3>3
  <2>. QED
    BY <2>1, <2>2
<1>. QED
  BY <1>5, <1>6 DEF InMonth


-----------------------------------------------------------------------------
(* Dates *)

\* A day is in one month only.
LEMMA OneMonth ==
  ASSUME NEW n \in Nat, NEW y, NEW m, NEW z, NEW k, InMonth(n, y, m), InMonth(n, z, k)
  PROVE  y = z /\ m = k
<1>1. y \in Year /\ z \in Year /\ m \in 1..12 /\ k \in 1..12
  BY DEF InMonth
<1>2. /\ MonthStart(y, m) \in Nat /\ MonthStart(y, m + 1) \in Nat
      /\ MonthStart(z, k) \in Nat /\ MonthStart(z, k + 1) \in Nat
  <2>1. /\ MonthStart(y, m) \in Nat /\ MonthStart(y, m + 1) = MonthStart(y, m) + DaysIn(y, m)
        /\ MonthStart(z, k) \in Nat /\ MonthStart(z, k + 1) = MonthStart(z, k) + DaysIn(z, k)
        /\ DaysIn(y, m) \in 28..31 /\ DaysIn(z, k) \in 28..31
    BY <1>1, MonthStep
  <2>. QED
    BY <2>1
<1>3. ~Before(y, m, z, k) /\ ~Before(z, k, y, m)
  BY <1>1, <1>2, MonthsInOrder DEF InMonth
<1>. QED
  BY <1>1, <1>3 DEF Before, Year

\* A slot is on a later day than any of an earlier month.
LEMMA SlotsInOrder ==
  ASSUME NEW a \in Int, NEW b \in Int, NEW y, NEW m, NEW z, NEW k,
         InMonth(Today(a), y, m), InMonth(Today(b), z, k), Before(y, m, z, k)
  PROVE  a < b
<1>1. y \in Year /\ z \in Year /\ m \in 1..12 /\ k \in 1..12
  BY DEF InMonth
<1>2. Today(a) \in Int /\ Today(b) \in Int
  BY DayOfSlot
<1>3. MonthStart(y, m + 1) <= MonthStart(z, k)
  BY <1>1, MonthsInOrder
<1>4. /\ MonthStart(y, m) \in Nat /\ MonthStart(y, m + 1) = MonthStart(y, m) + DaysIn(y, m)
      /\ MonthStart(z, k) \in Nat /\ DaysIn(y, m) \in 28..31
  BY <1>1, MonthStep
<1>5. MonthStart(y, m + 1) \in Nat
  BY <1>4
<1>6. Today(a) < Today(b)
  BY <1>2, <1>3, <1>4, <1>5 DEF InMonth
<1>. QED
  BY <1>6, DaysInOrder

\* Date finds the month of a day, when the calendar has it.
LEMMA DateIs ==
  ASSUME NEW t \in Nat, NEW y, NEW m, InMonth(Today(t), y, m), y <= LastYear
  PROVE  Date(t).year = y /\ Date(t).month = m
<1>. DEFINE n == Today(t)
            Y == CHOOSE x \in FirstYear..LastYear : YearStart(x) <= n /\ n < YearStart(x + 1)
            M == CHOOSE x \in 1..12 : MonthStart(Y, x) <= n /\ n < MonthStart(Y, x + 1)
<1>0. FirstYear \in Nat /\ LastYear \in Nat /\ n \in Nat /\ y \in Year /\ m \in 1..12
  BY BoundsAssumption, DayOfSlot DEF InMonth
<1>1. y \in FirstYear..LastYear
  BY <1>0 DEF Year
<1>2. YearStart(y) <= n /\ n < YearStart(y + 1)
  <2>1. YearStart(y) <= MonthStart(y, m) /\ MonthStart(y, m + 1) <= YearStart(y + 1)
    BY <1>0, MonthsOfYear
  <2>2. /\ YearStart(y) \in Nat /\ YearStart(y + 1) \in Nat
        /\ MonthStart(y, m) \in Nat /\ MonthStart(y, m + 1) \in Nat
    <3>1. /\ MonthStart(y, m) \in Nat /\ MonthStart(y, m + 1) = MonthStart(y, m) + DaysIn(y, m)
          /\ DaysIn(y, m) \in 28..31
      BY <1>0, MonthStep
    <3>2. YearStart(y) \in Nat /\ YearStart(y + 1) = YearStart(y) + 365 + (IF Leap(y) THEN 1 ELSE 0)
      BY <1>0, YearStep
    <3>. QED
      BY <3>1, <3>2
  <2>. QED
    BY <1>0, <2>1, <2>2 DEF InMonth
<1>3. Y \in FirstYear..LastYear /\ YearStart(Y) <= n /\ n < YearStart(Y + 1)
  BY <1>1, <1>2
<1>4. Y \in Year
  BY <1>0, <1>3 DEF Year
<1>5. PICK k \in 1..12 : InMonth(n, Y, k)
  BY <1>0, <1>3, <1>4, MonthExists
<1>6. Y = y
  BY <1>0, <1>5, OneMonth
<1>7. M \in 1..12 /\ MonthStart(Y, M) <= n /\ n < MonthStart(Y, M + 1)
  BY <1>5 DEF InMonth
<1>8. M = m
  <2>1. InMonth(n, Y, M)
    BY <1>4, <1>7 DEF InMonth
  <2>. QED
    BY <1>0, <2>1, OneMonth
<1>9. Date(t).year = Y /\ Date(t).month = M
  BY DEF Date, Today
<1>. QED
  BY <1>6, <1>8, <1>9


\* A slot of a date is on that date.
LEMMA AtIs ==
  ASSUME NEW y \in Year, NEW m \in 1..12, NEW d \in 1..DaysIn(y, m), NEW h \in 0..(Slots - 1)
  PROVE  /\ At(y, m, d, h) \in Nat
         /\ Today(At(y, m, d, h)) = MonthStart(y, m) + d - 1
         /\ InMonth(Today(At(y, m, d, h)), y, m)
<1>1. /\ MonthStart(y, m) \in Nat /\ MonthStart(y, m + 1) = MonthStart(y, m) + DaysIn(y, m)
      /\ DaysIn(y, m) \in 28..31
  BY MonthStep
<1>2. PICK q : q = MonthStart(y, m) + d - 1
  OBVIOUS
<1>3. q \in Nat /\ MonthStart(y, m) <= q /\ q < MonthStart(y, m + 1)
  BY <1>1, <1>2
<1>4. At(y, m, d, h) = q * Slots + h
  BY <1>2 DEF At
<1>5. q * Slots + h \in Nat
  BY <1>3, BoundsAssumption
<1>6. Today(q * Slots + h) = q
  BY <1>3, SlotOfDay
<1>. QED
  BY <1>2, <1>3, <1>4, <1>5, <1>6 DEF InMonth

\* The month after m of y
YearOfNext(y, m) == IF m = 12 THEN y + 1 ELSE y
MonthOfNext(m) == IF m = 12 THEN 1 ELSE m + 1

LEMMA MonthFollows ==
  ASSUME NEW y \in Year, NEW m \in 1..12
  PROVE  /\ YearOfNext(y, m) \in Year /\ MonthOfNext(m) \in 1..12 /\ MonthOfNext(m) # m
         /\ MonthStart(YearOfNext(y, m), MonthOfNext(m)) = MonthStart(y, m + 1)
         /\ Before(y, m, YearOfNext(y, m), MonthOfNext(m))
<1>1. YearOfNext(y, m) \in Year /\ MonthOfNext(m) \in 1..12 /\ MonthOfNext(m) # m
  BY BoundsAssumption DEF YearOfNext, MonthOfNext, Year
<1>2. Before(y, m, YearOfNext(y, m), MonthOfNext(m))
  BY DEF YearOfNext, MonthOfNext, Before, Year
<1>3. MonthStart(YearOfNext(y, m), MonthOfNext(m)) = MonthStart(y, m + 1)
  <2>1. CASE m = 12
    <3>1. y + 1 \in Year /\ 1 \in 1..12
      BY BoundsAssumption DEF Year
    <3>2. MonthStart(y + 1, 1) = YearStart(y + 1) /\ MonthStart(y, 13) = YearStart(y + 1)
      BY <3>1, MonthStep
    <3>. QED
      BY <2>1, <3>2 DEF YearOfNext, MonthOfNext
  <2>2. CASE m # 12
    BY <2>2 DEF YearOfNext, MonthOfNext
  <2>. QED
    BY <2>1, <2>2
<1>. QED
  BY <1>1, <1>2, <1>3

\* Between two months that follow each other there is none.
LEMMA NothingBetween ==
  ASSUME NEW y \in Year, NEW m \in 1..12, NEW z \in Year, NEW k \in 1..12
  PROVE  Before(z, k, y, m) \/ (z = y /\ k = m)
         \/ (z = YearOfNext(y, m) /\ k = MonthOfNext(m))
         \/ Before(YearOfNext(y, m), MonthOfNext(m), z, k)
  BY DEF YearOfNext, MonthOfNext, Before, Year

\* What the calculations call the present month: the local one, or the next
\* one on the last day, and in both cases a year before the calendar ends.
LEMMA LocalAndUtc ==
  ASSUME NEW t \in Slot
  PROVE  /\ t \in Nat /\ t + Offset \in Nat
         /\ \E y, m, z, k :
              /\ InMonth(Today(t), y, m) /\ InMonth(Today(t + Offset), z, k) /\ z < LastYear
              /\ Date(t).year = y /\ Date(t).month = m
              /\ Date(t + Offset).year = z /\ Date(t + Offset).month = k
              /\ y <= z
              /\ \/ z = y /\ k = m
                 \/ /\ z = YearOfNext(y, m) /\ k = MonthOfNext(m)
                    /\ Today(t) + 1 = MonthStart(z, k) /\ Today(t + Offset) = Today(t) + 1
<1>0. /\ Slots \in Nat \ {0} /\ Offset \in 0..Slots /\ FirstYear \in Nat /\ LastYear \in Nat
      /\ MaxSlots \in Nat /\ Offset \in Nat
  BY BoundsAssumption
<1>1. PICK d \in Beginning : t \in (d * Slots)..(d * Slots + MaxSlots)
  BY DEF Slot
<1>2. d \in Nat /\ d * Slots \in Nat
  BY <1>0, BoundsAssumption
<1>3. t \in Nat /\ t + Offset \in Nat /\ t <= t + Offset
  BY <1>0, <1>1, <1>2
<1>4. t + Offset < YearStart(LastYear) * Slots
  <2>1. PICK x : x = YearStart(LastYear) * Slots
    OBVIOUS
  <2>2. d * Slots + MaxSlots + Offset < x
    BY <2>1, CalendarAssumption
  <2>3. x \in Int
    <3>1. {w \in FirstYear..(LastYear - 1) : Leap(w)} \in SUBSET (FirstYear..(LastYear - 1))
      OBVIOUS
    <3>2. IsFiniteSet(FirstYear..(LastYear - 1))
      BY <1>0, FS_Interval
    <3>3. Cardinality({w \in FirstYear..(LastYear - 1) : Leap(w)}) \in Nat
      BY <3>1, <3>2, FS_Subset, FS_CardinalityType
    <3>4. YearStart(LastYear) \in Int
      BY <1>0, <3>3 DEF YearStart
    <3>. QED
      BY <1>0, <2>1, <3>4
  <2>. QED
    BY <1>0, <1>1, <1>2, <2>1, <2>2, <2>3
<1>. DEFINE a == Today(t)
            b == Today(t + Offset)
<1>5. a \in Nat /\ b \in Nat /\ b \in {a, a + 1}
  <2>1. a \in Nat /\ b \in Nat
    BY <1>3, DayOfSlot
  <2>2. a <= b
    BY <1>3, DaysInOrder
  <2>3. b <= Today(t + Slots)
    BY <1>0, <1>3, DaysInOrder
  <2>4. Today(t + Slots) = a + 1
    BY <1>3, DaysInOrder
  <2>. QED
    BY <2>1, <2>2, <2>3, <2>4
<1>6. b < YearStart(LastYear)
  <2>1. CASE LastYear \in Year
    <3>1. PICK q : q = YearStart(LastYear)
      OBVIOUS
    <3>2. q \in Nat
      BY <2>1, <3>1, YearStep
    <3>3. 0 \in 0..(Slots - 1) /\ q * Slots + 0 = q * Slots
      BY <1>0, <3>2
    <3>4. Today(q * Slots) = q
      BY <3>2, <3>3, SlotOfDay
    <3>5. ~(q <= b)
      <4>1. q * Slots \in Int
        BY <1>0, <3>2
      <4>. SUFFICES ASSUME q <= b PROVE FALSE
        OBVIOUS
      <4>2. q * Slots <= b * Slots
        BY <1>0, <1>5, <3>2
      <4>3. b * Slots <= t + Offset
        <5>1. t + Offset = b * Slots + ((t + Offset) % Slots) /\ (t + Offset) % Slots \in 0..(Slots - 1)
          BY <1>3, DayOfSlot
        <5>2. b * Slots \in Int
          BY <1>0, <1>5
        <5>. QED
          BY <1>0, <1>3, <5>1, <5>2
      <4>4. b * Slots \in Int
        BY <1>0, <1>5
      <4>. QED
        BY <1>3, <1>4, <3>1, <4>1, <4>2, <4>3, <4>4
    <3>. QED
      BY <1>5, <3>1, <3>2, <3>5
  <2>2. CASE LastYear \notin Year
    <3>1. LastYear < FirstYear
      BY <1>0, <2>2 DEF Year
    <3>2. {w \in FirstYear..(LastYear - 1) : Leap(w)} = {}
      BY <1>0, <3>1
    <3>3. YearStart(LastYear) = 365 * (LastYear - FirstYear)
      BY <1>0, <3>2, FS_EmptySet DEF YearStart
    <3>4. YearStart(LastYear) * Slots <= 0
      <4>1. PICK q : q = YearStart(LastYear)
        OBVIOUS
      <4>2. q \in Int /\ q < 0
        BY <1>0, <3>1, <3>3, <4>1
      <4>3. q * Slots < 0
        BY <1>0, <4>2
      <4>4. q * Slots \in Int
        BY <1>0, <4>2
      <4>. QED
        BY <4>1, <4>3, <4>4
    <3>5. YearStart(LastYear) * Slots \in Int
      BY <1>0, <3>3
    <3>. QED
      BY <1>3, <1>4, <3>4, <3>5
  <2>. QED
    BY <2>1, <2>2
<1>7. PICK z \in FirstYear..(LastYear - 1) : YearStart(z) <= b /\ b < YearStart(z + 1)
  BY <1>0, <1>5, <1>6, YearExists
<1>8. z \in Year /\ z < LastYear
  BY <1>0, <1>7 DEF Year
<1>9. PICK k \in 1..12 : InMonth(b, z, k)
  BY <1>5, <1>7, <1>8, MonthExists
<1>10. Date(t + Offset).year = z /\ Date(t + Offset).month = k
  <2>1. z <= LastYear
    BY <1>0, <1>8 DEF Year
  <2>. QED
    BY <1>3, <1>9, <2>1, DateIs
<1>. HIDE DEF a, b
<1>11. a < YearStart(LastYear)
  <2>1. YearStart(LastYear) \in Nat
    <3>1. LastYear \in Year
      BY <1>0, <1>8 DEF Year
    <3>. QED
      BY <3>1, YearStep
  <2>. QED
    BY <1>5, <1>6, <2>1
<1>12. PICK y \in FirstYear..(LastYear - 1) : YearStart(y) <= a /\ a < YearStart(y + 1)
  BY <1>0, <1>5, <1>11, YearExists
<1>13. y \in Year /\ y <= LastYear
  BY <1>0, <1>12 DEF Year
<1>14. PICK m \in 1..12 : InMonth(a, y, m)
  BY <1>5, <1>12, <1>13, MonthExists
<1>15. Date(t).year = y /\ Date(t).month = m
  BY <1>3, <1>13, <1>14, DateIs DEF a
<1>16. /\ MonthStart(y, m) \in Nat /\ MonthStart(y, m + 1) = MonthStart(y, m) + DaysIn(y, m)
       /\ DaysIn(y, m) \in 28..31
  BY <1>13, MonthStep
<1>17. CASE b < MonthStart(y, m + 1)
  <2>1. InMonth(b, y, m)
    BY <1>5, <1>14, <1>16, <1>17 DEF InMonth
  <2>2. z = y /\ k = m
    BY <1>5, <1>9, <2>1, OneMonth
  <2>. QED
    BY <1>3, <1>8, <1>9, <1>10, <1>13, <1>14, <1>15, <2>2 DEF a, b, Year
<1>18. CASE ~(b < MonthStart(y, m + 1))
  <2>1. b = a + 1 /\ a + 1 = MonthStart(y, m + 1)
    BY <1>5, <1>14, <1>16, <1>18 DEF InMonth
  <2>2. /\ YearOfNext(y, m) \in Year /\ MonthOfNext(m) \in 1..12
        /\ MonthStart(YearOfNext(y, m), MonthOfNext(m)) = b
    BY <1>13, <2>1, MonthFollows
  <2>3. InMonth(b, YearOfNext(y, m), MonthOfNext(m))
    <3>1. PICK u, v : u = YearOfNext(y, m) /\ v = MonthOfNext(m)
      OBVIOUS
    <3>2. /\ MonthStart(u, v) \in Nat /\ MonthStart(u, v + 1) = MonthStart(u, v) + DaysIn(u, v)
          /\ DaysIn(u, v) \in 28..31
      BY <2>2, <3>1, MonthStep
    <3>. QED
      BY <2>2, <3>1, <3>2 DEF InMonth
  <2>4. z = YearOfNext(y, m) /\ k = MonthOfNext(m)
    BY <1>5, <1>9, <2>3, OneMonth
  <2>5. y <= z
    BY <1>13, <2>4 DEF YearOfNext, Year
  <2>. QED
    BY <1>3, <1>8, <1>9, <1>10, <1>13, <1>14, <1>15, <2>1, <2>2, <2>4, <2>5 DEF a, b
<1>. QED
  BY <1>17, <1>18


-----------------------------------------------------------------------------
(* The calculation finds the first time that the schedule names *)

\* What PassedOver says of the time t instead of now
Skipped(s, x, t) ==
  /\ Today(x) = Today(t)
  /\ \/ s.type = "weekly"
     \/ s.type \in {"monthly", "yearly"} /\ Date(t + Offset).month # Date(t).month

\* n is the first time after t that the schedule s names, but for what is skipped.
First(s, t, n) ==
  /\ n \in Nat /\ n > t /\ n \in Occurrences(s, t, n)
  /\ \A x \in Occurrences(s, t + 1, n - 1) : Skipped(s, x, t)

LEMMA ScheduleFields ==
  ASSUME NEW s \in Schedule
  PROVE  /\ s.type \in ScheduleType /\ s.interval \in Nat /\ s.hour \in 0..(Slots - 1)
         /\ s.weekday \in 0..6 /\ s.day \in 1..31 /\ s.month \in 1..12
  BY ScheduleAssumption

\* Slots of the same hour follow each other as their days do.
LEMMA SameHour ==
  ASSUME NEW a \in Nat, NEW b \in Nat, a % Slots = b % Slots
  PROVE  /\ Today(a) = Today(b) => a = b
         /\ a < b => Today(a) < Today(b)
<1>1. PICK p, q, r : p = Today(a) /\ q = Today(b) /\ r = a % Slots
  OBVIOUS
<1>2. /\ a = p * Slots + r /\ p \in Nat /\ b = q * Slots + r /\ q \in Nat
      /\ r \in 0..(Slots - 1)
  BY <1>1, DayOfSlot
<1>3. p = q => a = b
  BY <1>2
<1>4. a <= b => p <= q
  BY <1>1, DaysInOrder
<1>. QED
  BY <1>1, <1>2, <1>3, <1>4

LEMMA HourOfDay ==
  ASSUME NEW q \in Nat, NEW h \in 0..(Slots - 1), NEW n, n = q * Slots + h
  PROVE  n \in Nat /\ Today(n) = q /\ n % Slots = h
<1>1. q * Slots + h \in Nat
  BY BoundsAssumption
<1>2. Today(q * Slots + h) = q /\ (q * Slots + h) % Slots = h
  BY SlotOfDay
<1>. QED
  BY <1>1, <1>2

LEMMA DailyFirst ==
  ASSUME NEW s \in Schedule, s.type = "daily", NEW t \in Nat
  PROVE  First(s, t, Daily(s, t))
<1>1. PICK q, h, n : q = Today(t) /\ h = s.hour /\ n = Daily(s, t)
  OBVIOUS
<1>2. q \in Nat /\ h \in 0..(Slots - 1) /\ Slots \in Nat
  BY <1>1, DayOfSlot, ScheduleFields, BoundsAssumption
<1>3. PICK today : today = q * Slots + h
  OBVIOUS
<1>4. today \in Nat /\ Today(today) = q /\ today % Slots = h
  BY <1>2, <1>3, HourOfDay
<1>5. n = IF today <= t THEN today + Slots ELSE today
  BY <1>1, <1>3 DEF Daily, Passed
<1>6. n \in Nat /\ n % Slots = h /\ n > t
      /\ (today <= t => Today(n) = q + 1) /\ (~(today <= t) => n = today)
  <2>1. CASE today <= t
    <3>1. n = (q + 1) * Slots + h
      BY <1>2, <1>3, <1>5, <2>1
    <3>0. q + 1 \in Nat
      BY <1>2
    <3>2. n \in Nat /\ Today(n) = q + 1 /\ n % Slots = h
      BY <1>2, <3>0, <3>1, HourOfDay
    <3>3. n > t
      <4>1. Today(t) < Today(n)
        BY <1>1, <1>2, <3>2
      <4>. QED
        BY <3>2, <4>1, DaysInOrder
    <3>. QED
      BY <2>1, <3>2, <3>3
  <2>2. CASE ~(today <= t)
    BY <1>4, <1>5, <2>2
  <2>. QED
    BY <2>1, <2>2
<1>7. n \in Occurrences(s, t, n)
  BY <1>1, <1>6 DEF Occurrences
<1>8. ASSUME NEW x \in Occurrences(s, t + 1, n - 1) PROVE FALSE
  <2>1. x \in (t + 1)..(n - 1) /\ x % Slots = h
    BY <1>1, <1>8 DEF Occurrences
  <2>2. x \in Nat /\ x > t /\ x < n
    BY <1>6, <2>1
  <2>3. Today(x) < Today(n) /\ q <= Today(x) /\ Today(x) \in Int
    BY <1>1, <1>6, <2>1, <2>2, SameHour, DaysInOrder, DayOfSlot
  <2>4. CASE today <= t
    <3>1. Today(x) = Today(today)
      BY <1>2, <1>4, <1>6, <2>3, <2>4
    <3>2. x = today
      BY <1>4, <2>1, <2>2, <3>1, SameHour
    <3>. QED
      BY <1>4, <2>2, <2>4, <3>2
  <2>5. CASE ~(today <= t)
    BY <1>2, <1>4, <1>6, <2>3, <2>5
  <2>. QED
    BY <2>4, <2>5
<1>. QED
  BY <1>1, <1>6, <1>7, <1>8 DEF First

LEMMA WeeklyFirst ==
  ASSUME NEW s \in Schedule, s.type = "weekly", NEW t \in Nat
  PROVE  First(s, t, Weekly(s, t))
<1>1. PICK q, h, w, n, a, f, r : /\ q = Today(t) /\ h = s.hour /\ w = s.weekday
                                 /\ n = Weekly(s, t) /\ a = DaysAhead(s, t)
                                 /\ f = FirstWeekday /\ r = (f + q) % 7
  OBVIOUS
<1>2. q \in Nat /\ h \in 0..(Slots - 1) /\ w \in 0..6 /\ f \in 0..6
  BY <1>1, DayOfSlot, ScheduleFields, BoundsAssumption
<1>3. n = (q + a) * Slots + h
  BY <1>1 DEF Weekly
<1>4. /\ a \in 1..7 /\ q + a \in Nat /\ (f + (q + a)) % 7 = w
      /\ \A j \in Nat : q <= j /\ j < q + a /\ (f + j) % 7 = w => j = q
  <2>1. a = IF w - r <= 0 THEN w - r + 7 ELSE w - r
    BY <1>1 DEF DaysAhead, Weekday
  <2>2. q \in Nat /\ f \in 0..6 /\ w \in 0..6 /\ r = (f + q) % 7
    BY <1>1, <1>2
  <2>3. r \in 0..6
    BY <2>2
  <2>4. a \in 1..7 /\ q + a \in Nat
    BY <2>1, <2>2, <2>3
  <2>5. (f + (q + a)) % 7 = w
    BY <2>1, <2>2, <2>3
  <2>6. ASSUME NEW j \in Nat, q <= j, j < q + a, (f + j) % 7 = w PROVE j = q
    BY <2>2, <2>4, <2>5, <2>6
  <2>. QED
    BY <2>4, <2>5, <2>6
<1>5. q + a \in Nat /\ n \in Nat /\ Today(n) = q + a /\ n % Slots = h
  BY <1>2, <1>3, <1>4, HourOfDay
<1>6. n > t
  <2>1. Today(t) < Today(n)
    BY <1>1, <1>2, <1>4, <1>5
  <2>. QED
    BY <1>5, <2>1, DaysInOrder
<1>7. n \in Occurrences(s, t, n)
  <2>1. Weekday(n) = w
    BY <1>1, <1>4, <1>5 DEF Weekday
  <2>. QED
    BY <1>1, <1>5, <1>6, <2>1 DEF Occurrences
<1>8. ASSUME NEW x \in Occurrences(s, t + 1, n - 1) PROVE Skipped(s, x, t)
  <2>1. x \in (t + 1)..(n - 1) /\ x % Slots = h /\ Weekday(x) = w
    BY <1>1, <1>8 DEF Occurrences
  <2>2. x \in Nat /\ x > t /\ x < n
    BY <1>5, <2>1
  <2>3. Today(x) \in Nat /\ Today(x) < q + a /\ q <= Today(x)
    BY <1>1, <1>5, <2>1, <2>2, SameHour, DaysInOrder, DayOfSlot
  <2>4. (f + Today(x)) % 7 = w
    BY <1>1, <2>1 DEF Weekday
  <2>5. Today(x) = q
    BY <1>4, <2>3, <2>4
  <2>. QED
    BY <1>1, <2>5 DEF Skipped
<1>. QED
  BY <1>1, <1>5, <1>6, <1>7, <1>8 DEF First

\* A month that a monthly or yearly schedule names
Named(s, y, m) ==
  /\ y \in FirstYear..LastYear /\ m \in 1..12 /\ s.day <= DaysIn(y, m)
  /\ s.type = "monthly" \/ m = s.month

LEMMA OccurrencesOf ==
  ASSUME NEW s, s.type \in {"monthly", "yearly"}, NEW a, NEW b, NEW x
  PROVE  x \in Occurrences(s, a, b)
         <=> x \in a..b /\ \E y, m : Named(s, y, m) /\ x = At(y, m, s.day, s.hour)
<1>. DEFINE Months == {w \in (FirstYear..LastYear) \X (1..12) : s.day <= DaysIn(w[1], w[2])}
            Them == {w \in Months : s.type = "monthly" \/ w[2] = s.month}
<1>1. Occurrences(s, a, b) = {At(w[1], w[2], s.day, s.hour) : w \in Them} \cap (a..b)
  BY DEF Occurrences
<1>2. ASSUME NEW w \in Them PROVE Named(s, w[1], w[2])
  BY DEF Named
<1>3. ASSUME NEW y, NEW m, Named(s, y, m)
      PROVE  \E w \in Them : At(y, m, s.day, s.hour) = At(w[1], w[2], s.day, s.hour)
  <2>1. <<y, m>> \in Them /\ <<y, m>>[1] = y /\ <<y, m>>[2] = m
    BY <1>3 DEF Named
  <2>. QED
    BY <2>1
<1>. HIDE DEF Them
<1>4. ASSUME x \in Occurrences(s, a, b)
      PROVE  x \in a..b /\ \E y, m : Named(s, y, m) /\ x = At(y, m, s.day, s.hour)
  <2>1. PICK w \in Them : x = At(w[1], w[2], s.day, s.hour)
    BY <1>1, <1>4
  <2>2. Named(s, w[1], w[2])
    BY <1>2
  <2>. QED
    BY <1>1, <1>4, <2>1, <2>2
<1>5. ASSUME x \in a..b, NEW y, NEW m, Named(s, y, m), x = At(y, m, s.day, s.hour)
      PROVE  x \in Occurrences(s, a, b)
  <2>1. PICK w \in Them : At(y, m, s.day, s.hour) = At(w[1], w[2], s.day, s.hour)
    BY <1>3, <1>5
  <2>. QED
    BY <1>1, <1>5, <2>1
<1>. QED
  BY <1>4, <1>5

LEMMA NamedSlot ==
  ASSUME NEW s \in Schedule, NEW y, NEW m, Named(s, y, m), NEW x, x = At(y, m, s.day, s.hour)
  PROVE  /\ y \in Year /\ m \in 1..12 /\ x \in Nat /\ InMonth(Today(x), y, m)
         /\ Date(x).year = y /\ Date(x).month = m
<1>1. y \in Year /\ m \in 1..12 /\ y <= LastYear
  BY BoundsAssumption DEF Named, Year
<1>2. s.day \in 1..31 /\ s.hour \in 0..(Slots - 1)
  BY ScheduleFields
<1>3. DaysIn(y, m) \in 28..31
  BY <1>1, MonthStep
<1>4. s.day \in 1..DaysIn(y, m)
  BY <1>2, <1>3 DEF Named
<1>5. x \in Nat /\ InMonth(Today(x), y, m)
  BY <1>1, <1>2, <1>4, AtIs
<1>. QED
  BY <1>1, <1>5, DateIs

\* The present month y, m and what the calculations take for it, z, k
Present(t, y, m, z, k) ==
  /\ InMonth(Today(t), y, m) /\ InMonth(Today(t + Offset), z, k) /\ z < LastYear
  /\ Date(t).year = y /\ Date(t).month = m
  /\ Date(t + Offset).year = z /\ Date(t + Offset).month = k
  /\ y <= z
  /\ \/ z = y /\ k = m
     \/ /\ z = YearOfNext(y, m) /\ k = MonthOfNext(m)
        /\ Today(t) + 1 = MonthStart(z, k) /\ Today(t + Offset) = Today(t) + 1

\* A slot of a month that the schedule names is the first after t, if every month
\* before it is over, but for a local month that is over in UTC.
LEMMA FoundFirst ==
  ASSUME NEW s \in Schedule, s.type \in {"monthly", "yearly"}, NEW t \in Nat,
         NEW y, NEW m, NEW z, NEW k, Present(t, y, m, z, k),
         NEW g, NEW h, Named(s, g, h), NEW n, n = At(g, h, s.day, s.hour), t < n,
         \A u, v : Named(s, u, v) /\ ~Before(u, v, y, m) /\ Before(u, v, g, h)
                   /\ t < At(u, v, s.day, s.hour) => u = y /\ v = m /\ ~(z = y /\ k = m)
  PROVE  First(s, t, n)
<1>1. n \in Nat /\ g \in Year /\ h \in 1..12 /\ InMonth(Today(n), g, h)
  BY NamedSlot
<1>2. y \in Year /\ m \in 1..12 /\ InMonth(Today(t), y, m)
  BY DEF Present, InMonth
<1>3. n \in Occurrences(s, t, n)
  <2>1. n \in t..n
    BY <1>1
  <2>. QED
    BY <2>1, OccurrencesOf
<1>4. ASSUME NEW x \in Occurrences(s, t + 1, n - 1) PROVE Skipped(s, x, t)
  <2>1. x \in (t + 1)..(n - 1)
    BY OccurrencesOf
  <2>2. PICK u, v : Named(s, u, v) /\ x = At(u, v, s.day, s.hour)
    BY OccurrencesOf
  <2>3. x \in Nat /\ t < x /\ x < n
    BY <1>1, <2>1
  <2>4. u \in Year /\ v \in 1..12 /\ InMonth(Today(x), u, v)
    BY <2>2, NamedSlot
  <2>5. ~Before(u, v, y, m)
    <3>. SUFFICES ASSUME Before(u, v, y, m) PROVE FALSE
      OBVIOUS
    <3>1. x < t
      BY <1>2, <2>3, <2>4, SlotsInOrder
    <3>. QED
      BY <2>3, <3>1
  <2>6. Before(u, v, g, h)
    <3>1. ~Before(g, h, u, v)
      <4>. SUFFICES ASSUME Before(g, h, u, v) PROVE FALSE
        OBVIOUS
      <4>1. n < x
        BY <1>1, <2>3, <2>4, SlotsInOrder
      <4>. QED
        BY <1>1, <2>3, <4>1
    <3>2. ~(u = g /\ v = h)
      <4>. SUFFICES ASSUME u = g, v = h PROVE FALSE
        OBVIOUS
      <4>1. x = n
        BY <2>2
      <4>. QED
        BY <1>1, <2>3, <4>1
    <3>. QED
      BY <1>1, <2>4, <3>1, <3>2 DEF Before, Year
  <2>7. u = y /\ v = m /\ ~(z = y /\ k = m)
    BY <2>2, <2>3, <2>5, <2>6
  <2>8. /\ z = YearOfNext(y, m) /\ k = MonthOfNext(m) /\ Today(t) + 1 = MonthStart(z, k)
        /\ Date(t).month = m /\ Date(t + Offset).month = k
    BY <2>7 DEF Present
  <2>9. k # m /\ Today(t) + 1 = MonthStart(y, m + 1)
    BY <1>2, <2>8, MonthFollows
  <2>10. Today(x) < MonthStart(y, m + 1)
    BY <2>4, <2>7 DEF InMonth
  <2>11. Today(t) \in Int /\ Today(x) \in Int /\ Today(t) <= Today(x)
    BY <2>3, DayOfSlot, DaysInOrder
  <2>12. Today(x) = Today(t)
    BY <2>9, <2>10, <2>11
  <2>. QED
    BY <2>8, <2>9, <2>12 DEF Skipped
<1>. QED
  BY <1>1, <1>3, <1>4 DEF First

\* The days of a month are those of the same month of another year, but for February.
LEMMA SameDays ==
  ASSUME NEW y, NEW z, NEW k, z = y \/ k # 2
  PROVE  DaysIn(y, k) = DaysIn(z, k)
  BY DEF DaysIn

LEMMA NotNever ==
  ASSUME NEW s \in Schedule, NEW y, NEW m, Named(s, y, m)
  PROVE  At(y, m, s.day, s.hour) # Never
<1>1. At(y, m, s.day, s.hour) \in Nat
  BY NamedSlot
<1>. QED
  BY <1>1 DEF Never

LEMMA MonthlyFirst ==
  ASSUME NEW s \in Schedule, s.type = "monthly", NEW t \in Slot
  PROVE  Monthly(s, t) = Never \/ First(s, t, Monthly(s, t))
<1>1. t \in Nat /\ \E y, m, z, k : Present(t, y, m, z, k)
  BY LocalAndUtc DEF Present
<1>2. PICK y, m, z, k : Present(t, y, m, z, k)
  BY <1>1
<1>3. PICK p, q, first, second, tried, g, h, n :
        /\ p = YearOfNext(z, k) /\ q = MonthOfNext(k)
        /\ first = Replaced(s, t, k, z) /\ second = Replaced(s, t, q, p)
        /\ tried = IF first # Never THEN first ELSE second
        /\ g = YearOfNext(Date(tried).year, Date(tried).month)
        /\ h = MonthOfNext(Date(tried).month)
        /\ n = Monthly(s, t)
  OBVIOUS
<1>4. n = CASE tried = Never -> Never
            [] tried # Never /\ ~Passed(tried, t) -> tried
            [] OTHER -> IF s.day <= DaysIn(g, h) THEN At(g, h, s.day, s.hour) ELSE Never
  <2>1. Date(t + Offset).year = z /\ Date(t + Offset).month = k
    BY <1>2 DEF Present
  <2>. QED
    BY <1>3, <2>1 DEF Monthly, YearOfNext, MonthOfNext
<1>5. /\ y \in Year /\ m \in 1..12 /\ z \in Year /\ k \in 1..12 /\ z < LastYear
      /\ LastYear \in Nat /\ InMonth(Today(t), y, m)
      /\ (z = y /\ k = m) \/ (z = YearOfNext(y, m) /\ k = MonthOfNext(m))
      /\ Date(t).year = y /\ Date(t).month = m
  BY <1>2, BoundsAssumption DEF Present, InMonth
<1>6. /\ p \in Year /\ q \in 1..12 /\ p <= LastYear /\ Before(z, k, p, q)
  <2>1. p <= LastYear
    BY <1>3, <1>5 DEF YearOfNext, Year
  <2>. QED
    BY <1>3, <1>5, <2>1, MonthFollows
<1>7. Before(y, m, p, q)
  <2>1. Before(y, m, YearOfNext(y, m), MonthOfNext(m))
    BY <1>5, MonthFollows
  <2>. QED
    BY <1>5, <1>6, <2>1 DEF Before, Year
<1>8. z \in FirstYear..LastYear /\ p \in FirstYear..LastYear
  BY <1>5, <1>6, BoundsAssumption DEF Year
<1>9. CASE first # Never
  <2>1. /\ s.day <= DaysIn(y, m) /\ s.day <= DaysIn(z, k)
        /\ first = At(z, k, s.day, s.hour) /\ tried = first
    BY <1>3, <1>5, <1>9 DEF Replaced
  <2>2. Named(s, z, k)
    BY <1>5, <1>8, <2>1 DEF Named
  <2>3. first \in Nat /\ InMonth(Today(first), z, k) /\ Date(first).year = z /\ Date(first).month = k
    BY <2>1, <2>2, NamedSlot
  <2>4. g = p /\ h = q
    BY <1>3, <2>1, <2>3
  <2>5. CASE ~Passed(first, t)
    <3>1. n = first /\ t < n
      BY <1>1, <1>4, <1>9, <2>1, <2>3, <2>5 DEF Passed
    <3>2. ASSUME NEW u, NEW v, Named(s, u, v), ~Before(u, v, y, m), Before(u, v, z, k)
          PROVE  u = y /\ v = m /\ ~(z = y /\ k = m)
      <4>1. u \in Year /\ v \in 1..12
        BY <3>2, NamedSlot
      <4>. QED
        BY <1>5, <3>2, <4>1, NothingBetween DEF Before, Year
    <3>3. First(s, t, n)
      BY <1>1, <1>2, <2>1, <2>2, <3>1, <3>2, FoundFirst
    <3>. QED
      BY <1>3, <3>3
  <2>6. CASE Passed(first, t)
    <3>1. n = IF s.day <= DaysIn(p, q) THEN At(p, q, s.day, s.hour) ELSE Never
      BY <1>4, <1>9, <2>1, <2>4, <2>6
    <3>2. CASE s.day <= DaysIn(p, q)
      <4>1. Named(s, p, q) /\ n = At(p, q, s.day, s.hour)
        BY <1>6, <1>8, <3>1, <3>2 DEF Named
      <4>2. n \in Nat /\ InMonth(Today(n), p, q)
        BY <4>1, NamedSlot
      <4>3. t < n
        BY <1>1, <1>5, <1>7, <4>2, SlotsInOrder
      <4>4. z = y /\ k = m
        <5>. SUFFICES ASSUME z = YearOfNext(y, m), k = MonthOfNext(m) PROVE FALSE
          BY <1>5
        <5>1. Before(y, m, z, k)
          BY <1>5, MonthFollows
        <5>2. t < first
          BY <1>1, <1>5, <2>3, <5>1, SlotsInOrder
        <5>. QED
          BY <1>1, <2>3, <2>6, <5>2 DEF Passed
      <4>5. ASSUME NEW u, NEW v, Named(s, u, v), ~Before(u, v, y, m), Before(u, v, p, q),
                   t < At(u, v, s.day, s.hour)
            PROVE  FALSE
        <5>1. u \in Year /\ v \in 1..12
          BY <4>5, NamedSlot
        <5>2. u = y /\ v = m
          BY <1>3, <1>5, <1>6, <4>4, <4>5, <5>1, NothingBetween DEF Before, Year
        <5>3. t < first
          BY <2>1, <4>4, <4>5, <5>2
        <5>. QED
          BY <1>1, <2>3, <2>6, <5>3 DEF Passed
      <4>6. First(s, t, n)
        BY <1>1, <1>2, <4>1, <4>3, <4>5, FoundFirst
      <4>. QED
        BY <1>3, <4>6
    <3>. QED
      BY <1>3, <3>1, <3>2
  <2>. QED
    BY <2>5, <2>6
<1>10. CASE first = Never /\ second # Never
  <2>1. /\ s.day <= DaysIn(y, m) /\ s.day <= DaysIn(p, q)
        /\ second = At(p, q, s.day, s.hour) /\ tried = second
    BY <1>3, <1>5, <1>10 DEF Replaced
  <2>2. Named(s, p, q)
    BY <1>6, <1>8, <2>1 DEF Named
  <2>3. second \in Nat /\ InMonth(Today(second), p, q)
    BY <2>1, <2>2, NamedSlot
  <2>4. t < second
    BY <1>1, <1>5, <1>7, <2>3, SlotsInOrder
  <2>5. n = second
    BY <1>1, <1>4, <1>10, <2>1, <2>3, <2>4 DEF Passed
  <2>6. ~Named(s, z, k)
    <3>. SUFFICES ASSUME Named(s, z, k) PROVE FALSE
      OBVIOUS
    <3>1. s.day <= DaysIn(z, k) /\ At(z, k, s.day, s.hour) # Never
      BY NotNever DEF Named
    <3>2. z = y \/ k # 2
      BY <1>5 DEF YearOfNext, MonthOfNext
    <3>3. s.day <= DaysIn(y, k)
      BY <3>1, <3>2, SameDays
    <3>. QED
      BY <1>3, <1>5, <1>10, <2>1, <3>1, <3>3 DEF Replaced
  <2>7. ~(z = y /\ k = m)
    BY <1>5, <1>8, <2>1, <2>6 DEF Named
  <2>8. ASSUME NEW u, NEW v, Named(s, u, v), ~Before(u, v, y, m), Before(u, v, p, q)
        PROVE  u = y /\ v = m
    <3>1. u \in Year /\ v \in 1..12
      BY <2>8, NamedSlot
    <3>2. ~Before(p, q, u, v) /\ ~(u = p /\ v = q)
      BY <1>6, <2>8, <3>1 DEF Before, Year
    <3>3. Before(u, v, z, k) \/ (u = z /\ v = k)
      BY <1>3, <1>5, <3>1, <3>2, NothingBetween
    <3>4. Before(u, v, z, k)
      BY <2>6, <2>8, <3>3
    <3>. QED
      BY <1>5, <2>7, <2>8, <3>1, <3>4, NothingBetween DEF Before, Year
  <2>9. First(s, t, n)
    BY <1>1, <1>2, <2>1, <2>2, <2>4, <2>5, <2>7, <2>8, FoundFirst
  <2>. QED
    BY <1>3, <2>9
<1>11. CASE first = Never /\ second = Never
  BY <1>3, <1>4, <1>11
<1>. QED
  BY <1>9, <1>10, <1>11

\* Two years after a leap year is none.
LEMMA LeapYears ==
  ASSUME NEW y \in Nat, Leap(y), Leap(y + 2)
  PROVE  FALSE
<1>1. y % 4 = 0 /\ (y + 2) % 4 = 0
  BY DEF Leap
<1>. QED
  BY <1>1

LEMMA YearlyFirst ==
  ASSUME NEW s \in Schedule, s.type = "yearly", NEW t \in Slot
  PROVE  Yearly(s, t) = Never \/ First(s, t, Yearly(s, t))
<1>1. t \in Nat /\ \E y, m, z, k : Present(t, y, m, z, k)
  BY LocalAndUtc DEF Present
<1>2. PICK y, m, z, k : Present(t, y, m, z, k)
  BY <1>1
<1>3. PICK w, first, second, tried, g, n :
        /\ w = s.month
        /\ first = Replaced(s, t, w, z) /\ second = Replaced(s, t, w, z + 1)
        /\ tried = IF first # Never THEN first ELSE second
        /\ g = Date(tried).year + 1
        /\ n = Yearly(s, t)
  OBVIOUS
<1>4. n = CASE tried = Never -> Never
            [] tried # Never /\ ~Passed(tried, t) -> tried
            [] OTHER -> IF s.day <= DaysIn(g, w) THEN At(g, w, s.day, s.hour) ELSE Never
  <2>1. Date(t + Offset).year = z
    BY <1>2 DEF Present
  <2>. QED
    BY <1>3, <2>1 DEF Yearly
<1>5. /\ y \in Year /\ m \in 1..12 /\ z \in Year /\ k \in 1..12 /\ z < LastYear
      /\ LastYear \in Nat /\ InMonth(Today(t), y, m)
      /\ (z = y /\ k = m) \/ (z = YearOfNext(y, m) /\ k = MonthOfNext(m))
      /\ Date(t).year = y /\ Date(t).month = m
  BY <1>2, BoundsAssumption DEF Present, InMonth
<1>6. w \in 1..12 /\ y \in Nat /\ z \in Nat /\ z + 1 \in Year
  <2>1. w \in 1..12
    BY <1>3, ScheduleFields
  <2>2. y \in Nat /\ z \in Nat /\ z >= FirstYear
    BY <1>5 DEF Year
  <2>3. z + 1 \in Year
    BY <2>2, BoundsAssumption DEF Year
  <2>. QED
    BY <2>1, <2>2, <2>3
<1>7. z \in FirstYear..LastYear /\ (z + 1) \in FirstYear..LastYear
  BY <1>5, BoundsAssumption DEF Year
<1>8. z = y \/ (z = y + 1 /\ m = 12)
  BY <1>5 DEF YearOfNext
<1>9. Before(y, m, z + 1, w)
  BY <1>6, <1>8 DEF Before
<1>10. ASSUME NEW u, NEW v, Named(s, u, v)
       PROVE  v = w /\ u \in Nat /\ s.day <= DaysIn(u, w)
  BY <1>3, <1>10, BoundsAssumption DEF Named
<1>11. CASE first # Never
  <2>1. /\ s.day <= DaysIn(z, w) /\ first = At(z, w, s.day, s.hour) /\ tried = first
    BY <1>3, <1>5, <1>11 DEF Replaced
  <2>2. Named(s, z, w)
    BY <1>3, <1>6, <1>7, <2>1 DEF Named
  <2>3. first \in Nat /\ Date(first).year = z
    BY <2>1, <2>2, NamedSlot
  <2>4. g = z + 1
    BY <1>3, <2>1, <2>3
  <2>5. CASE ~Passed(first, t)
    <3>1. n = first /\ t < n
      BY <1>1, <1>4, <1>11, <2>1, <2>3, <2>5 DEF Passed
    <3>2. ASSUME NEW u, NEW v, Named(s, u, v), ~Before(u, v, y, m), Before(u, v, z, w)
          PROVE  u = y /\ v = m /\ ~(z = y /\ k = m)
      BY <1>6, <1>8, <1>10, <3>2 DEF Before
    <3>3. First(s, t, n)
      BY <1>1, <1>2, <2>1, <2>2, <3>1, <3>2, FoundFirst
    <3>. QED
      BY <1>3, <3>3
  <2>6. CASE Passed(first, t)
    <3>1. n = IF s.day <= DaysIn(z + 1, w) THEN At(z + 1, w, s.day, s.hour) ELSE Never
      BY <1>4, <1>11, <2>1, <2>4, <2>6
    <3>2. CASE s.day <= DaysIn(z + 1, w)
      <4>1. Named(s, z + 1, w) /\ n = At(z + 1, w, s.day, s.hour)
        BY <1>3, <1>6, <1>7, <3>1, <3>2 DEF Named
      <4>2. n \in Nat /\ InMonth(Today(n), z + 1, w)
        BY <4>1, NamedSlot
      <4>3. t < n
        BY <1>1, <1>5, <1>9, <4>2, SlotsInOrder
      <4>4. ASSUME NEW u, NEW v, Named(s, u, v), ~Before(u, v, y, m), Before(u, v, z + 1, w),
                   t < At(u, v, s.day, s.hour)
            PROVE  u = y /\ v = m /\ ~(z = y /\ k = m)
        <5>1. u # z
          BY <1>1, <1>10, <2>1, <2>3, <2>6, <4>4 DEF Passed
        <5>. QED
          BY <1>6, <1>8, <1>10, <4>4, <5>1 DEF Before
      <4>5. First(s, t, n)
        BY <1>1, <1>2, <4>1, <4>3, <4>4, FoundFirst
      <4>. QED
        BY <1>3, <4>5
    <3>. QED
      BY <1>3, <3>1, <3>2
  <2>. QED
    BY <2>5, <2>6
<1>12. ~(first = Never /\ second # Never)
  <2>. SUFFICES ASSUME first = Never, second # Never PROVE FALSE
    OBVIOUS
  <2>1. s.day <= DaysIn(y, m) /\ s.day <= DaysIn(y, w) /\ s.day <= DaysIn(z + 1, w)
    BY <1>3, <1>5 DEF Replaced
  <2>2. ~(s.day <= DaysIn(z, w))
    <3>. SUFFICES ASSUME s.day <= DaysIn(z, w) PROVE FALSE
      OBVIOUS
    <3>1. Named(s, z, w)
      BY <1>3, <1>6, <1>7 DEF Named
    <3>2. At(z, w, s.day, s.hour) # Never
      BY <3>1, NotNever
    <3>. QED
      BY <1>3, <1>5, <2>1, <3>2 DEF Replaced
  <2>3. w = 2
    BY <2>1, <2>2, SameDays
  <2>4. z = y + 1
    BY <1>8, <2>1, <2>2
  <2>5. /\ DaysIn(y, 2) = (IF Leap(y) THEN 29 ELSE 28)
        /\ DaysIn(z, 2) = (IF Leap(z) THEN 29 ELSE 28)
        /\ DaysIn(z + 1, 2) = (IF Leap(z + 1) THEN 29 ELSE 28)
    BY DEF DaysIn
  <2>6. s.day \in Int
    BY ScheduleFields
  <2>7. Leap(y) /\ Leap(z + 1)
    BY <2>1, <2>2, <2>3, <2>5, <2>6
  <2>8. z + 1 = y + 2
    BY <1>6, <2>4
  <2>. QED
    BY <1>6, <2>7, <2>8, LeapYears
<1>13. CASE first = Never /\ second = Never
  BY <1>3, <1>4, <1>13
<1>. QED
  BY <1>11, <1>12, <1>13

LEMMA MonthlyRuns ==
  ASSUME NEW s \in Schedule, s.type = "monthly", s.day <= 28, NEW t \in Slot
  PROVE  Monthly(s, t) # Never
<1>1. PICK y, m, z, k : Present(t, y, m, z, k)
  BY LocalAndUtc DEF Present
<1>2. PICK p, q, first : p = YearOfNext(z, k) /\ q = MonthOfNext(k) /\ first = Replaced(s, t, k, z)
  OBVIOUS
<1>3. /\ y \in Year /\ m \in 1..12 /\ z \in Year /\ k \in 1..12 /\ z < LastYear
      /\ LastYear \in Nat /\ Date(t).year = y /\ Date(t).month = m
      /\ Date(t + Offset).year = z /\ Date(t + Offset).month = k
  BY <1>1, BoundsAssumption DEF Present, InMonth
<1>4. p \in Year /\ q \in 1..12
  BY <1>2, <1>3, MonthFollows
<1>5. /\ z \in FirstYear..LastYear /\ p \in FirstYear..LastYear
      /\ DaysIn(y, m) \in 28..31 /\ DaysIn(y, k) \in 28..31 /\ DaysIn(z, k) \in 28..31
      /\ DaysIn(p, q) \in 28..31 /\ s.day \in Int
  <2>1. s.day \in Int
    BY ScheduleFields
  <2>2. p <= LastYear /\ p \in Nat /\ p >= FirstYear /\ z \in Nat /\ z >= FirstYear
    BY <1>2, <1>3, <1>4 DEF YearOfNext, Year
  <2>. QED
    BY <1>3, <1>4, <2>1, <2>2, MonthStep, BoundsAssumption
<1>6. Named(s, z, k) /\ Named(s, p, q)
  BY <1>3, <1>4, <1>5 DEF Named
<1>7. first = At(z, k, s.day, s.hour)
  BY <1>2, <1>3, <1>5 DEF Replaced
<1>8. Date(first).year = z /\ Date(first).month = k
  BY <1>6, <1>7, NamedSlot
<1>9. first # Never /\ At(p, q, s.day, s.hour) # Never
  BY <1>6, <1>7, NotNever
<1>10. Monthly(s, t) = IF ~Passed(first, t) THEN first ELSE At(p, q, s.day, s.hour)
  <2>1. s.day <= DaysIn(p, q)
    BY <1>5
  <2>. QED
    BY <1>2, <1>3, <1>8, <1>9, <2>1 DEF Monthly, YearOfNext, MonthOfNext
<1>. QED
  BY <1>9, <1>10

LEMMA YearlyRuns ==
  ASSUME NEW s \in Schedule, s.type = "yearly", s.day <= 28, NEW t \in Slot
  PROVE  Yearly(s, t) # Never
<1>1. PICK y, m, z, k : Present(t, y, m, z, k)
  BY LocalAndUtc DEF Present
<1>2. PICK w, first : w = s.month /\ first = Replaced(s, t, w, z)
  OBVIOUS
<1>3. /\ y \in Year /\ m \in 1..12 /\ z \in Year /\ z < LastYear
      /\ LastYear \in Nat /\ Date(t).year = y /\ Date(t).month = m
      /\ Date(t + Offset).year = z
  BY <1>1, BoundsAssumption DEF Present, InMonth
<1>4. w \in 1..12 /\ s.day \in Int
  BY <1>2, ScheduleFields
<1>5. z \in Nat /\ z >= FirstYear /\ z + 1 \in Year
  <2>1. z \in Nat /\ z >= FirstYear
    BY <1>3 DEF Year
  <2>. QED
    BY <2>1, BoundsAssumption DEF Year
<1>6. /\ z \in FirstYear..LastYear /\ (z + 1) \in FirstYear..LastYear
      /\ DaysIn(y, m) \in 28..31 /\ DaysIn(y, w) \in 28..31 /\ DaysIn(z, w) \in 28..31
      /\ DaysIn(z + 1, w) \in 28..31
  BY <1>3, <1>4, <1>5, MonthStep, BoundsAssumption
<1>7. Named(s, z, w) /\ Named(s, z + 1, w)
  BY <1>2, <1>4, <1>6 DEF Named
<1>8. first = At(z, w, s.day, s.hour)
  BY <1>2, <1>3, <1>4, <1>6 DEF Replaced
<1>9. Date(first).year = z
  BY <1>7, <1>8, NamedSlot
<1>10. first # Never /\ At(z + 1, w, s.day, s.hour) # Never
  BY <1>7, <1>8, NotNever
<1>11. Yearly(s, t) = IF ~Passed(first, t) THEN first ELSE At(z + 1, w, s.day, s.hour)
  <2>1. s.day <= DaysIn(z + 1, w)
    BY <1>4, <1>6
  <2>. QED
    BY <1>2, <1>3, <1>9, <1>10, <2>1 DEF Yearly
<1>. QED
  BY <1>10, <1>11

\* Every calculation of _calculate_fresh_time that does not raise finds the first
\* time that the schedule names, in whatever month, year or time of day, but for what is
\* Skipped; an hourly one finds the end of its interval.
THEOREM FreshIsFirst ==
  ASSUME NEW s \in Schedule, NEW t \in Slot
  PROVE  /\ t \in Nat
         /\ s.type = "hourly" => FreshTime(s, t) = t + s.interval
         /\ s.type # "hourly" => FreshTime(s, t) = Never \/ First(s, t, FreshTime(s, t))
<1>1. t \in Nat
  BY LocalAndUtc
<1>2. s.type \in ScheduleType
  BY ScheduleFields
<1>3. CASE s.type = "hourly"
  BY <1>1, <1>3 DEF FreshTime
<1>4. CASE s.type = "daily"
  BY <1>1, <1>4, DailyFirst DEF FreshTime
<1>5. CASE s.type = "weekly"
  BY <1>1, <1>5, WeeklyFirst DEF FreshTime
<1>6. CASE s.type = "monthly"
  BY <1>1, <1>6, MonthlyFirst DEF FreshTime
<1>7. CASE s.type = "yearly"
  BY <1>1, <1>7, YearlyFirst DEF FreshTime
<1>. QED
  BY <1>2, <1>3, <1>4, <1>5, <1>6, <1>7 DEF ScheduleType

\* A day that every month has does not raise.
LEMMA NeverRaises ==
  ASSUME NEW s \in Schedule, s.type \in {"monthly", "yearly"} => s.day <= 28, NEW t \in Slot
  PROVE  FreshTime(s, t) # Never
<1>1. s.type \in ScheduleType
  BY ScheduleFields
<1>2. CASE s.type = "hourly"
  <2>1. s.interval \in Nat /\ t \in Nat /\ FreshTime(s, t) = t + s.interval
    BY <1>2, ScheduleFields, FreshIsFirst
  <2>. QED
    BY <2>1 DEF Never
<1>3. CASE s.type \in {"daily", "weekly"}
  <2>1. t \in Nat
    BY FreshIsFirst
  <2>2. First(s, t, FreshTime(s, t))
    BY <1>3, <2>1, DailyFirst, WeeklyFirst DEF FreshTime
  <2>. QED
    BY <2>2 DEF First, Never
<1>4. CASE s.type = "monthly"
  BY <1>4, MonthlyRuns DEF FreshTime
<1>5. CASE s.type = "yearly"
  BY <1>5, YearlyRuns DEF FreshTime
<1>. QED
  BY <1>1, <1>2, <1>3, <1>4, <1>5 DEF ScheduleType

LEMMA Calculated ==
  ASSUME NEW s \in Schedule, NEW b \in {d * Slots : d \in Beginning}, NEW t \in b..(b + MaxSlots)
  PROVE  /\ NextRunTime[<<s, t>>] \in Nat \cup {Never}
         /\ t \in Slot /\ NextRunTime[<<s, t>>] = FreshTime(s, t)
<1>1. t \in Slot
  BY DEF Slot
<1>2. NextRunTime[<<s, t>>] = FreshTime(s, t)
  <2>1. NextRunTime = [x \in Schedule \X Slot |-> FreshTime(x[1], x[2])]
    BY DEF NextRunTime
  <2>2. <<s, t>> \in Schedule \X Slot /\ <<s, t>>[1] = s /\ <<s, t>>[2] = t
    BY <1>1
  <2>. QED
    BY <2>1, <2>2
<1>3. FreshTime(s, t) \in Nat \cup {Never}
  <2>1. s.interval \in Nat
    BY ScheduleFields
  <2>. QED
    BY <1>1, <2>1, FreshIsFirst DEF First
<1>. QED
  BY <1>1, <1>2, <1>3

-----------------------------------------------------------------------------
(* What a row waits for *)

LEMMA OccurrencesWithin ==
  ASSUME NEW s \in Schedule, s.type # "hourly", NEW a, NEW b, NEW x \in Occurrences(s, a, b)
  PROVE  /\ x \in a..b
         /\ \A c, d : x \in c..d => x \in Occurrences(s, c, d)
<1>1. s.type \in ScheduleType
  BY ScheduleFields
<1>2. CASE s.type \in {"daily", "weekly"}
  BY <1>2 DEF Occurrences
<1>3. CASE s.type \in {"monthly", "yearly"}
  <2>1. x \in a..b /\ \E y, m : Named(s, y, m) /\ x = At(y, m, s.day, s.hour)
    BY <1>3, OccurrencesOf
  <2>2. ASSUME NEW c, NEW d, x \in c..d PROVE x \in Occurrences(s, c, d)
    BY <1>3, <2>1, <2>2, OccurrencesOf
  <2>. QED
    BY <2>1, <2>2
<1>. QED
  BY <1>1, <1>2, <1>3 DEF ScheduleType

\* What NextIsNext says of a row with the schedule s and the next run n at the time t
NextFor(s, n, t) ==
  n > t =>
    IF s.type = "hourly"
    THEN n <= t + s.interval
    ELSE /\ n \in Occurrences(s, t, n)
         /\ \A x \in Occurrences(s, t + 1, n - 1) : Skipped(s, x, t)

RowWaits == row # Absent => NextFor(row.schedule, row.next, now)

LEMMA NextOfRow == NextIsNext <=> RowWaits
  BY DEF RowWaits, NextIsNext, NextFor, PassedOver, Skipped

LEMMA FreshNext ==
  ASSUME NEW s \in Schedule, NEW t \in Slot, FreshTime(s, t) # Never
  PROVE  NextFor(s, FreshTime(s, t), t)
<1>1. CASE s.type = "hourly"
  <2>1. s.interval \in Nat /\ t \in Nat /\ FreshTime(s, t) = t + s.interval
    BY <1>1, ScheduleFields, FreshIsFirst
  <2>. QED
    BY <1>1, <2>1 DEF NextFor
<1>2. CASE s.type # "hourly"
  <2>1. First(s, t, FreshTime(s, t))
    BY <1>2, FreshIsFirst
  <2>. QED
    BY <1>2, <2>1 DEF NextFor, First
<1>. QED
  BY <1>1, <1>2

\* A local month that is over in UTC stays so until the day is over.
LEMMA StillOver ==
  ASSUME NEW t \in Slot, t + 1 \in Slot, Today(t + 1) = Today(t),
         Date(t + Offset).month # Date(t).month
  PROVE  Date(t + 1 + Offset).month # Date(t + 1).month
<1>1. t \in Nat /\ \E y, m, z, k : Present(t, y, m, z, k)
  BY LocalAndUtc DEF Present
<1>2. Today(t + Offset) = Today(t) + 1
  BY <1>1 DEF Present
<1>3. Offset \in Nat /\ Offset <= Slots /\ Slots \in Nat
  BY BoundsAssumption
<1>4. Today(t + 1) + 1 = Today(t + 1 + Slots) /\ Today(t + 1 + Offset) <= Today(t + 1 + Slots)
  BY <1>1, <1>3, DaysInOrder
<1>5. Today(t + Offset) <= Today(t + 1 + Offset)
  BY <1>1, <1>3, DaysInOrder
<1>6. Today(t) \in Int /\ Today(t + 1 + Offset) \in Int
  BY <1>1, <1>3, DayOfSlot
<1>7. Today(t + 1 + Offset) = Today(t + Offset)
  BY <1>2, <1>4, <1>5, <1>6
<1>8. Date(t + 1 + Offset) = Date(t + Offset) /\ Date(t + 1) = Date(t)
  BY <1>7 DEF Date, Today
<1>. QED
  BY <1>8

\* What is next stays next when time passes.
LEMMA NextLater ==
  ASSUME NEW s \in Schedule, NEW n \in Nat, NEW t \in Slot, t + 1 \in Slot, NextFor(s, n, t)
  PROVE  NextFor(s, n, t + 1)
<1>0. t \in Nat
  BY LocalAndUtc
<1>. SUFFICES ASSUME n > t + 1 PROVE NextFor(s, n, t + 1)
  BY DEF NextFor
<1>1. CASE s.type = "hourly"
  <2>1. s.interval \in Nat
    BY ScheduleFields
  <2>. QED
    BY <1>0, <1>1, <2>1 DEF NextFor
<1>2. CASE s.type # "hourly"
  <2>1. n \in Occurrences(s, t, n) /\ \A x \in Occurrences(s, t + 1, n - 1) : Skipped(s, x, t)
    BY <1>0, <1>2 DEF NextFor
  <2>2. n \in Occurrences(s, t + 1, n)
    <3>1. n \in (t + 1)..n
      BY <1>0
    <3>. QED
      BY <1>2, <2>1, <3>1, OccurrencesWithin
  <2>3. ASSUME NEW x \in Occurrences(s, t + 1 + 1, n - 1) PROVE Skipped(s, x, t + 1)
    <3>1. x \in (t + 1 + 1)..(n - 1)
      BY <1>2, OccurrencesWithin
    <3>2. x \in (t + 1)..(n - 1) /\ x \in Int /\ t + 1 <= x
      BY <1>0, <3>1
    <3>3. x \in Occurrences(s, t + 1, n - 1)
      BY <1>2, <3>2, OccurrencesWithin
    <3>4. Skipped(s, x, t)
      BY <2>1, <3>3
    <3>5. Today(t + 1) = Today(t)
      <4>1. Today(t) <= Today(t + 1) /\ Today(t + 1) <= Today(x)
        BY <1>0, <3>2, DaysInOrder
      <4>2. Today(t) \in Int /\ Today(t + 1) \in Int /\ Today(x) = Today(t)
        BY <1>0, <3>4, DayOfSlot DEF Skipped
      <4>. QED
        BY <4>1, <4>2
    <3>. QED
      BY <3>4, <3>5, StillOver DEF Skipped
  <2>. QED
    BY <1>2, <2>2, <2>3 DEF NextFor
<1>. QED
  BY <1>1, <1>2

-----------------------------------------------------------------------------
(* The shape of the state *)

\* Slots are numbers.
LEMMA SlotsAreNumbers ==
  ASSUME NEW b \in {d * Slots : d \in Beginning}
  PROVE  b \in Nat
  BY BoundsAssumption

\* A row whose status is another one of a row that exists
LEMMA StatusChanges ==
  ASSUME TypeOK, row # Absent,
         NEW st \in {"pending", "running", "completed", "failed", "inactive"}
  PROVE  [row EXCEPT !.status = st] \in
           [status : {"pending", "running", "completed", "failed", "inactive"},
            schedule : Schedule, next : Nat]
  BY DEF TypeOK

\* A job that runs the task has a row to save its outcome in.
RunHasRow == job \in {"running", "attempted"} => row # Absent

LEMMA TypeOKPreserved == TypeOK /\ RunHasRow /\ [Next]_vars => TypeOK'
<1>. SUFFICES ASSUME TypeOK, RunHasRow, [Next]_vars PROVE TypeOK'
  OBVIOUS
<1>. USE BoundsAssumption
<1>c. config # NotConfigured => config \in Schedule /\ NextRunTime[<<config, now>>] \in Nat \cup {Never}
  BY Calculated DEF TypeOK
<1>r. row # Absent => NextRunTime[<<row.schedule, now>>] \in Nat \cup {Never}
  <2>. SUFFICES ASSUME row # Absent PROVE NextRunTime[<<row.schedule, now>>] \in Nat \cup {Never}
    OBVIOUS
  <2>1. row.schedule \in Schedule
    BY DEF TypeOK
  <2>. QED
    BY <2>1, Calculated DEF TypeOK
<1>a. row # Absent => Activated(row.status) \in {"pending", "running", "completed", "failed", "inactive"}
  BY DEF TypeOK, Activated
<1>1. CASE CreateNewTask
  <2>1. row' = Absent \/ row' \in [status : {"pending", "running", "completed", "failed", "inactive"},
                                    schedule : Schedule, next : Nat]
    BY <1>1, <1>c DEF CreateNewTask
  <2>. QED
    BY <1>1, <2>1 DEF TypeOK, CreateNewTask
<1>2. CASE HandleExistingTask
  <2>1. CASE row.schedule = config /\ row' = [row EXCEPT !.status = Activated(@)]
    <3>1. row' = [row EXCEPT !.status = Activated(row.status)]
      BY <2>1, <1>2 DEF HandleExistingTask, TypeOK
    <3>. QED
      BY <1>2, <3>1, <1>a, StatusChanges DEF TypeOK, HandleExistingTask
  <2>2. CASE /\ NextRunTime[<<config, now>>] # Never
             /\ row' = [status |-> Activated(row.status), schedule |-> config,
                        next |-> NextRunTime[<<config, now>>]]
    BY <1>2, <2>2, <1>a, <1>c DEF TypeOK, HandleExistingTask
  <2>3. CASE UNCHANGED <<row, job>>
    BY <1>2, <2>3 DEF TypeOK, HandleExistingTask
  <2>. QED
    BY <1>2, <2>1, <2>2, <2>3 DEF HandleExistingTask
<1>3. CASE DeactivateRemovedTask
  <2>1. row' = Absent \/ row' \in [status : {"pending", "running", "completed", "failed", "inactive"},
                                    schedule : Schedule, next : Nat]
    BY <1>3, StatusChanges DEF DeactivateRemovedTask
  <2>. QED
    BY <1>3, <2>1 DEF TypeOK, DeactivateRemovedTask
<1>4. CASE Start
  <2>1. row # Absent
    BY <1>4 DEF Start, Due, Absent
  <2>. QED
    BY <1>4, <2>1, StatusChanges DEF TypeOK, Start
<1>5. CASE NothingDue
  BY <1>5 DEF TypeOK, NothingDue
<1>6. ASSUME NEW outcome \in {"completed", "failed"}, Attempted(outcome) PROVE TypeOK'
  <2>1. row' = [row EXCEPT !.status = outcome] /\ last' = now
    BY <1>6 DEF Attempted
  <2>2. row # Absent
    BY <1>6 DEF RunHasRow, Attempted
  <2>3. now \in Nat
    BY SlotsAreNumbers DEF TypeOK
  <2>. QED
    BY <1>6, <2>1, <2>2, <2>3, StatusChanges DEF TypeOK, Attempted
<1>7. CASE Reschedule
  <2>1. row # Absent
    BY <1>7 DEF RunHasRow, Reschedule
  <2>2. CASE /\ NextRunTime[<<row.schedule, now>>] # Never
             /\ row' = [row EXCEPT !.next = NextRunTime[<<row.schedule, now>>]]
             /\ last' = last
    <3>1. NextRunTime[<<row.schedule, now>>] \in Nat
      BY <2>1, <2>2, <1>r
    <3>2. row' \in [status : {"pending", "running", "completed", "failed", "inactive"},
                    schedule : Schedule, next : Nat]
      BY <2>1, <2>2, <3>1 DEF TypeOK
    <3>. QED
      BY <1>7, <2>2, <3>2 DEF TypeOK, Reschedule
  <2>3. CASE row' = row /\ last' = Never
    BY <1>7, <2>3 DEF TypeOK, Reschedule
  <2>. QED
    BY <1>7, <2>2, <2>3 DEF Reschedule
<1>8. CASE Kill
  BY <1>8 DEF TypeOK, Kill
<1>9. CASE Tick
  <2>1. begin \in Nat
    BY SlotsAreNumbers DEF TypeOK
  <2>2. now' \in begin..(begin + MaxSlots)
    BY <1>9, <2>1 DEF TypeOK, Tick
  <2>. QED
    BY <1>9, <2>2 DEF TypeOK, Tick
<1>10. ASSUME NEW s \in Schedule \cup {NotConfigured}, Configure(s) PROVE TypeOK'
  BY <1>10 DEF TypeOK, Configure
<1>11. CASE UNCHANGED vars
  BY <1>11 DEF TypeOK, vars
<1>. QED
  BY <1>1, <1>2, <1>3, <1>4, <1>5, <1>6, <1>7, <1>8, <1>9, <1>10, <1>11 DEF Next, Job

LEMMA RunHasRowPreserved == TypeOK /\ RunHasRow /\ [Next]_vars => RunHasRow'
<1>. SUFFICES ASSUME TypeOK, RunHasRow, [Next]_vars PROVE RunHasRow'
  OBVIOUS
<1>1. CASE CreateNewTask \/ HandleExistingTask \/ DeactivateRemovedTask
  <2>1. job' \notin {"running", "attempted"}
    BY <1>1 DEF CreateNewTask, HandleExistingTask, DeactivateRemovedTask
  <2>. QED
    BY <2>1 DEF RunHasRow
<1>2. CASE Start
  <2>1. row # Absent /\ row' = [row EXCEPT !.status = "running"]
    BY <1>2 DEF Start, Due, Absent
  <2>2. row' \in [status : {"running"}, schedule : Schedule, next : Nat]
    BY <2>1 DEF TypeOK
  <2>. QED
    BY <2>2 DEF RunHasRow, Absent
<1>3. CASE NothingDue \/ Kill \/ Tick
  BY <1>3 DEF NothingDue, Kill, Tick, RunHasRow
<1>4. ASSUME NEW outcome \in {"completed", "failed"}, Attempted(outcome) PROVE RunHasRow'
  <2>1. row # Absent /\ row' = [row EXCEPT !.status = outcome]
    BY <1>4 DEF Attempted, RunHasRow
  <2>2. row' \in [status : {"completed", "failed"}, schedule : Schedule, next : Nat]
    BY <2>1 DEF TypeOK
  <2>. QED
    BY <2>2 DEF RunHasRow, Absent
<1>5. CASE Reschedule
  BY <1>5 DEF Reschedule, RunHasRow
<1>6. ASSUME NEW s \in Schedule \cup {NotConfigured}, Configure(s) PROVE RunHasRow'
  BY <1>6 DEF Configure, RunHasRow
<1>7. CASE UNCHANGED vars
  BY <1>7 DEF RunHasRow, vars
<1>. QED
  BY <1>1, <1>2, <1>3, <1>4, <1>5, <1>6, <1>7 DEF Next, Job

LEMMA TypeAndRow == Spec => [](TypeOK /\ RunHasRow)
<1>1. Init => TypeOK /\ RunHasRow
  <2>. SUFFICES ASSUME Init PROVE TypeOK /\ RunHasRow
    OBVIOUS
  <2>0. begin \in {d * Slots : d \in Beginning} /\ now = begin
    BY DEF Init
  <2>n. begin \in Nat
    BY <2>0, SlotsAreNumbers
  <2>1. now \in begin..(begin + MaxSlots)
    BY <2>0, <2>n, BoundsAssumption
  <2>2. 0 \in 0..MaxChanges /\ 0 \in 0..MaxKills
    BY BoundsAssumption
  <2>3. TypeOK
    BY <2>1, <2>2 DEF Init, TypeOK
  <2>4. RunHasRow
    BY DEF Init, RunHasRow
  <2>. QED
    BY <2>3, <2>4
<1>2. TypeOK /\ RunHasRow /\ [Next]_vars => (TypeOK /\ RunHasRow)'
  BY TypeOKPreserved, RunHasRowPreserved
<1>. QED
  BY <1>1, <1>2, PTL DEF Spec

\* Every row keeps a status and a time to run at: no failing calculation, failed
\* run, removal of the configuration or killed job leaves one that lacks either
\* (sync_tasks, process_task).
THEOREM TypeCorrectness == Spec => []TypeOK
  BY TypeAndRow, PTL

-----------------------------------------------------------------------------
(* The row waits for the next time *)

\* A step keeps the schedule and the next run of the row, or takes the calculated.
Waits ==
  \/ row' = Absent
  \/ /\ row # Absent /\ row'.schedule = row.schedule /\ row'.next = row.next
  \/ /\ row'.schedule \in Schedule /\ row'.next = FreshTime(row'.schedule, now)
     /\ FreshTime(row'.schedule, now) # Never

\* What is calculated now
NowCalculated ==
  /\ now \in Nat /\ now \in Slot
  /\ \A s \in Schedule : NextRunTime[<<s, now>>] = FreshTime(s, now)

LEMMA PresentSlot == TypeOK => NowCalculated
<1>. SUFFICES ASSUME TypeOK PROVE NowCalculated
  OBVIOUS
<1>1. begin \in {d * Slots : d \in Beginning} /\ now \in begin..(begin + MaxSlots)
  BY DEF TypeOK
<1>2. begin \in Nat /\ MaxSlots \in Nat
  BY <1>1, SlotsAreNumbers, BoundsAssumption
<1>3. now \in Nat
  BY <1>1, <1>2
<1>4. now \in Slot
  BY <1>1 DEF Slot
<1>. QED
  BY <1>1, <1>3, <1>4, Calculated DEF NowCalculated

LEMMA RowStep == TypeOK /\ RunHasRow /\ [Next]_vars => Waits
<1>. SUFFICES ASSUME TypeOK, RunHasRow, [Next]_vars PROVE Waits
  OBVIOUS
<1>s. row # Absent => row \in [status : {"pending", "running", "completed", "failed", "inactive"},
                               schedule : Schedule, next : Nat]
  BY DEF TypeOK
<1>c. config # NotConfigured =>
        config \in Schedule /\ NextRunTime[<<config, now>>] = FreshTime(config, now)
  BY PresentSlot DEF TypeOK, NowCalculated
<1>1. CASE CreateNewTask
  <2>1. CASE row' = Absent
    BY <2>1 DEF Waits
  <2>2. CASE /\ NextRunTime[<<config, now>>] # Never
             /\ row' = [status |-> "pending", schedule |-> config, next |-> NextRunTime[<<config, now>>]]
    <3>1. row'.schedule = config /\ row'.next = NextRunTime[<<config, now>>]
      BY <2>2
    <3>. QED
      BY <1>1, <1>c, <2>2, <3>1 DEF CreateNewTask, Waits
  <2>. QED
    BY <1>1, <2>1, <2>2 DEF CreateNewTask
<1>2. CASE HandleExistingTask
  <2>1. CASE row' = [row EXCEPT !.status = Activated(@)]
    <3>1. row # Absent
      BY <1>2 DEF HandleExistingTask
    <3>2. row'.schedule = row.schedule /\ row'.next = row.next
      BY <1>s, <2>1, <3>1
    <3>. QED
      BY <3>1, <3>2 DEF Waits
  <2>2. CASE /\ NextRunTime[<<config, now>>] # Never
             /\ row' = [status |-> Activated(row.status), schedule |-> config,
                        next |-> NextRunTime[<<config, now>>]]
    <3>1. row'.schedule = config /\ row'.next = NextRunTime[<<config, now>>]
      BY <2>2
    <3>. QED
      BY <1>2, <1>c, <2>2, <3>1 DEF HandleExistingTask, Waits
  <2>3. CASE UNCHANGED <<row, job>>
    BY <1>2, <2>3 DEF HandleExistingTask, Waits
  <2>. QED
    BY <1>2, <2>1, <2>2, <2>3 DEF HandleExistingTask
<1>3. CASE DeactivateRemovedTask
  <2>1. CASE row = Absent
    BY <1>3, <2>1 DEF DeactivateRemovedTask, Waits
  <2>2. CASE row # Absent
    <3>1. row' = [row EXCEPT !.status = "inactive"]
      BY <1>3, <2>2 DEF DeactivateRemovedTask
    <3>. QED
      BY <1>s, <2>2, <3>1 DEF Waits
  <2>. QED
    BY <2>1, <2>2
<1>4. CASE Start
  <2>1. row # Absent /\ row' = [row EXCEPT !.status = "running"]
    BY <1>4 DEF Start, Due, Absent
  <2>. QED
    BY <1>s, <2>1 DEF Waits
<1>5. ASSUME NEW outcome \in {"completed", "failed"}, Attempted(outcome) PROVE Waits
  <2>1. row # Absent /\ row' = [row EXCEPT !.status = outcome]
    BY <1>5 DEF Attempted, RunHasRow
  <2>. QED
    BY <1>s, <2>1 DEF Waits
<1>6. CASE Reschedule
  <2>1. row # Absent
    BY <1>6 DEF Reschedule, RunHasRow
  <2>2. row.schedule \in Schedule /\ NextRunTime[<<row.schedule, now>>] = FreshTime(row.schedule, now)
    BY <1>s, <2>1, PresentSlot DEF NowCalculated
  <2>3. CASE /\ NextRunTime[<<row.schedule, now>>] # Never
             /\ row' = [row EXCEPT !.next = NextRunTime[<<row.schedule, now>>]]
    <3>1. row'.schedule = row.schedule /\ row'.next = NextRunTime[<<row.schedule, now>>]
      BY <1>s, <2>1, <2>3
    <3>. QED
      BY <2>2, <2>3, <3>1 DEF Waits
  <2>4. CASE row' = row
    BY <2>1, <2>4 DEF Waits
  <2>. QED
    BY <1>6, <2>3, <2>4 DEF Reschedule
<1>7. CASE row' = row
  BY <1>7 DEF Waits
<1>8. CASE NothingDue \/ Kill \/ Tick \/ UNCHANGED vars
  BY <1>7, <1>8 DEF NothingDue, Kill, Tick, vars
<1>9. ASSUME NEW s \in Schedule \cup {NotConfigured}, Configure(s) PROVE Waits
  BY <1>7, <1>9 DEF Configure
<1>. QED
  BY <1>1, <1>2, <1>3, <1>4, <1>5, <1>6, <1>8, <1>9 DEF Next, Job

\* Time stands still, or passes and changes nothing else.
LEMMA TimeStep == [Next]_vars => now' = now \/ (now' = now + 1 /\ row' = row /\ job' = job /\ last' = last)
  BY DEF Next, Job, vars, CreateNewTask, HandleExistingTask, DeactivateRemovedTask, Start,
     NothingDue, Attempted, Reschedule, Kill, Tick, Configure

LEMMA NextStep == TypeOK /\ TypeOK' /\ RunHasRow /\ NextIsNext /\ [Next]_vars => NextIsNext'
<1>. SUFFICES ASSUME TypeOK, TypeOK', RunHasRow, NextIsNext, [Next]_vars PROVE NextIsNext'
  OBVIOUS
<1>1. now \in Nat /\ now \in Slot /\ now' \in Slot
  <2>1. NowCalculated /\ NowCalculated'
    BY PresentSlot, PTL
  <2>. QED
    BY <2>1 DEF NowCalculated
<1>2. NextIsNext' <=> (row' # Absent => NextFor(row'.schedule, row'.next, now'))
  <2>1. NextIsNext' <=> RowWaits'
    BY NextOfRow, PTL
  <2>. QED
    BY <2>1 DEF RowWaits
<1>. SUFFICES ASSUME row' # Absent PROVE NextFor(row'.schedule, row'.next, now')
  BY <1>2
<1>3. row # Absent => /\ row.schedule \in Schedule /\ row.next \in Nat
                      /\ NextFor(row.schedule, row.next, now)
  BY NextOfRow DEF TypeOK, RowWaits
<1>4. CASE now' = now
  <2>1. CASE row # Absent /\ row'.schedule = row.schedule /\ row'.next = row.next
    BY <1>3, <1>4, <2>1
  <2>2. CASE /\ row'.schedule \in Schedule /\ row'.next = FreshTime(row'.schedule, now)
             /\ FreshTime(row'.schedule, now) # Never
    BY <1>1, <1>4, <2>2, FreshNext
  <2>. QED
    BY <2>1, <2>2, RowStep DEF Waits
<1>5. CASE now' = now + 1 /\ row' = row
  BY <1>1, <1>3, <1>5, NextLater
<1>. QED
  BY <1>4, <1>5, TimeStep

\* However the task was configured, failed, was removed and came back, and wherever
\* a job was killed: a row that waits, waits for the first time that its
\* schedule names, over ends of months and leap years, but for the two things that
\* the code passes over (_calculate_fresh_time, sync_tasks, process_task).
THEOREM NextHolds == Spec => []NextIsNext
<1>1. Init => NextIsNext
  BY DEF Init, NextIsNext
<1>2. Spec => [](TypeOK /\ RunHasRow)
  BY TypeAndRow
<1>3. TypeOK /\ TypeOK' /\ RunHasRow /\ NextIsNext /\ [Next]_vars => NextIsNext'
  BY NextStep
<1>. QED
  BY <1>1, <1>2, <1>3, PTL DEF Spec

-----------------------------------------------------------------------------
(* One run for each time that the schedule names *)

\* Once a run has ended and the row is scheduled anew, the row waits for a later time.
OnceInv ==
  /\ last <= now
  /\ last # Never /\ row # Absent /\ job # "attempted" /\ row.schedule.type # "hourly" =>
       last < row.next /\ row.next \in Occurrences(row.schedule, row.next, row.next)

LEMMA FreshLater ==
  ASSUME NEW s \in Schedule, s.type # "hourly", NEW t \in Slot, NEW n,
         n = FreshTime(s, t), n # Never
  PROVE  t < n /\ n \in Occurrences(s, n, n)
<1>1. First(s, t, n)
  BY FreshIsFirst
<1>2. t \in Nat /\ n \in Nat /\ t < n /\ n \in Occurrences(s, t, n)
  BY <1>1, FreshIsFirst DEF First
<1>3. n \in n..n
  BY <1>2
<1>. QED
  BY <1>2, <1>3, OccurrencesWithin

LEMMA OnceStep == TypeOK /\ TypeOK' /\ RunHasRow /\ OnceInv /\ [Next]_vars => OnceInv'
<1>. SUFFICES ASSUME TypeOK, TypeOK', RunHasRow, OnceInv, [Next]_vars PROVE OnceInv'
  OBVIOUS
<1>1. now \in Nat /\ now \in Slot /\ now' \in Nat /\ now <= now'
  <2>1. now \in Nat /\ now \in Slot /\ now' \in Nat
    <3>1. NowCalculated /\ NowCalculated'
      BY PresentSlot, PTL
    <3>. QED
      BY <3>1 DEF NowCalculated
  <2>. QED
    BY <2>1, TimeStep
<1>2. last \in Nat \cup {Never} /\ last <= now
  BY DEF TypeOK, OnceInv
<1>3. /\ last' \in {last, now, Never}
      /\ last' = last /\ last # Never => job' = "attempted" \/ job # "attempted" \/ Reschedule
      /\ last' # Never /\ last' # last => job' = "attempted"
  <2>1. CASE Kill
    BY <2>1 DEF Kill
  <2>2. ASSUME NEW outcome \in {"completed", "failed"}, Attempted(outcome)
        PROVE  last' = now /\ job' = "attempted"
    BY <2>2 DEF Attempted
  <2>3. CASE Reschedule
    BY <2>3 DEF Reschedule
  <2>4. CASE CreateNewTask \/ HandleExistingTask \/ DeactivateRemovedTask \/ Start \/ NothingDue \/ Tick
    <3>1. last' = last /\ job # "attempted"
      BY <2>4 DEF CreateNewTask, HandleExistingTask, DeactivateRemovedTask, Start, NothingDue, Tick
    <3>. QED
      BY <3>1
  <2>5. ASSUME (\E s \in Schedule \cup {NotConfigured} : Configure(s)) \/ UNCHANGED vars
        PROVE  last' = last /\ job' = job
    BY <2>5 DEF Configure, vars
  <2>. QED
    BY <2>1, <2>2, <2>3, <2>4, <2>5 DEF Next, Job
<1>4. last' <= now'
  BY <1>1, <1>2, <1>3 DEF Never
<1>5. ASSUME last' # Never, row' # Absent, job' # "attempted", row'.schedule.type # "hourly"
      PROVE  last' < row'.next /\ row'.next \in Occurrences(row'.schedule, row'.next, row'.next)
  <2>1. last' = last /\ last # Never
    BY <1>3, <1>5
  <2>2. CASE /\ row'.schedule \in Schedule /\ row'.next = FreshTime(row'.schedule, now)
             /\ FreshTime(row'.schedule, now) # Never
    <3>1. now < row'.next /\ row'.next \in Occurrences(row'.schedule, row'.next, row'.next)
      BY <1>1, <1>5, <2>2, FreshLater
    <3>2. row'.next \in Nat
      BY <1>5 DEF TypeOK
    <3>. QED
      BY <1>1, <1>2, <2>1, <3>1, <3>2
  <2>3. CASE row # Absent /\ row'.schedule = row.schedule /\ row'.next = row.next
    <3>1. CASE job # "attempted"
      BY <1>5, <2>1, <2>3, <3>1 DEF OnceInv
    <3>2. CASE Reschedule
      <4>1. row.schedule \in Schedule /\ row \in [status : {"pending", "running", "completed", "failed", "inactive"},
                                                  schedule : Schedule, next : Nat]
        BY <2>3 DEF TypeOK
      <4>2. NextRunTime[<<row.schedule, now>>] = FreshTime(row.schedule, now)
        BY <4>1, PresentSlot DEF NowCalculated
      <4>3. /\ NextRunTime[<<row.schedule, now>>] # Never
            /\ row' = [row EXCEPT !.next = NextRunTime[<<row.schedule, now>>]]
        BY <1>5, <3>2 DEF Reschedule
      <4>4. row'.next = FreshTime(row'.schedule, now) /\ FreshTime(row'.schedule, now) # Never
        BY <2>3, <4>1, <4>2, <4>3
      <4>. QED
        BY <2>2, <2>3, <4>1, <4>4
    <3>. QED
      BY <1>3, <1>5, <2>1, <3>1, <3>2
  <2>. QED
    BY <1>5, <2>2, <2>3, RowStep DEF Waits
<1>. QED
  BY <1>4, <1>5 DEF OnceInv

\* Between two runs the schedule names a time, for every schedule and calendar: no
\* failure, change or removal of the configuration and no killed job repeats a
\* run that has ended and was scheduled anew (process_task, sync_tasks).
THEOREM OnceHolds == Spec => OncePerOccurrence
<1>1. Init => OnceInv
  <2>. SUFFICES ASSUME Init PROVE OnceInv
    OBVIOUS
  <2>1. now \in Nat /\ last = Never
    BY SlotsAreNumbers DEF Init
  <2>. QED
    BY <2>1 DEF OnceInv, Never
<1>2. Spec => [](TypeOK /\ RunHasRow)
  BY TypeAndRow
<1>3. TypeOK /\ TypeOK' /\ RunHasRow /\ OnceInv /\ [Next]_vars => OnceInv'
  BY OnceStep
<1>4. TypeOK /\ OnceInv /\ [Next]_vars =>
        [Start /\ last # Never /\ row.schedule.type # "hourly" =>
           Occurrences(row.schedule, last + 1, now) # {}]_vars
  <2>. SUFFICES ASSUME TypeOK, OnceInv, Start, last # Never, row.schedule.type # "hourly"
       PROVE  Occurrences(row.schedule, last + 1, now) # {}
    OBVIOUS
  <2>1. row # Absent /\ job # "attempted" /\ row.next <= now
    BY DEF Start, Due, Absent
  <2>2. last < row.next /\ row.next \in Occurrences(row.schedule, row.next, row.next)
    BY <2>1 DEF OnceInv
  <2>3. row.schedule \in Schedule /\ row.next \in Nat /\ last \in Nat /\ now \in Nat
    BY <2>1, PresentSlot DEF TypeOK, NowCalculated
  <2>4. row.next \in (last + 1)..now
    BY <2>1, <2>2, <2>3
  <2>. QED
    BY <2>2, <2>3, <2>4, OccurrencesWithin
<1>. QED
  BY <1>1, <1>2, <1>3, <1>4, PTL DEF Spec, OncePerOccurrence

-----------------------------------------------------------------------------
(* Which tasks are created *)

\* The days that no month lacks, as in every configuration of the repository
DaysExist == \A s \in Schedule : s.type \in {"monthly", "yearly"} => s.day <= 28

\* A new task always gets its row, if its day is one that every month has
\* (_create_new_task; a 29th, 30th or 31st may raise instead).
THEOREM CreatedIfDayExists ==
  ASSUME DaysExist
  PROVE  Spec => EveryTaskIsCreated
<1>1. TypeOK /\ [Next]_vars => [CreateNewTask => row' # Absent]_vars
  <2>. SUFFICES ASSUME TypeOK, CreateNewTask PROVE row' # Absent
    OBVIOUS
  <2>1. config \in Schedule
    BY DEF TypeOK, CreateNewTask
  <2>2. now \in Slot /\ NextRunTime[<<config, now>>] = FreshTime(config, now)
    BY <2>1, PresentSlot DEF NowCalculated
  <2>3. NextRunTime[<<config, now>>] # Never
    BY <2>1, <2>2, NeverRaises DEF DaysExist
  <2>4. row' = [status |-> "pending", schedule |-> config, next |-> NextRunTime[<<config, now>>]]
    BY <2>3 DEF CreateNewTask
  <2>5. row'.status = "pending" /\ Absent.status = "absent"
    BY <2>4 DEF Absent
  <2>. QED
    BY <2>5
<1>2. Spec => [](TypeOK /\ RunHasRow)
  BY TypeAndRow
<1>. QED
  BY <1>1, <1>2, PTL DEF Spec, EveryTaskIsCreated
=============================================================================
