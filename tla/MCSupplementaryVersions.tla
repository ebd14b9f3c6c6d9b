----------------------- MODULE MCSupplementaryVersions -----------------------
(* Balances for model checking; negative numbers cannot be written in a cfg *)
EXTENDS SupplementaryVersions

Obligations == 0..3          \* reports that never earn credits
Excesses == 1..3             \* reports always above their limit
Credits == -3..0             \* reports that never exceed their limit
Mixed == {-2, -1, 0, 1, 2}   \* both

\* All versions are submitted after the invoice generation date
SpecPastDate == Init /\ dateReached = TRUE /\ [][Next]_vars
-----------------------------------------------------------------------------
(* Promises of the documentation that the code does not keep.  Each takes   *)
(* one INVARIANT line in a cfg to reproduce; the README lists the constants *)
(* and the shortest behaviour.                                              *)

Collected == MapThenSumSet(LAMBDA v : obligation[v].paid, Rows(obligation))

\* The obligations of a report never bill more than the excess emissions of its
\* last version
NeverOverBilled == Settled => Billed <= Excess(Last)

\* Cash collected beyond what the last version owes is flagged for a refund
OverpaymentIsFlagged == Settled => Collected <= Excess(Last)

\* Credits approved and still to be decided are no more than the last version earned
NoDoubleCredits == Settled => CreditsIn(Open \cup {"approved"}) <= Int0(Credited(Last))

\* Credits issued beyond what the last version earns are flagged
ApprovedIsCovered == Settled => CreditsIn({"approved"}) <= Int0(Credited(Last))

\* No record is opened for less than one whole credit
WholeCredits == \A v \in Rows(credit) : credit[v].amount >= 1

=============================================================================
