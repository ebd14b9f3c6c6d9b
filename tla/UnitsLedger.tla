------------------------------ MODULE UnitsLedger ------------------------------
(***************************************************************************)
(* What applying compliance units promises, by value: an invoice is        *)
(* credited for units only after they were transferred to the compliance   *)
(* account, each transfer at most once, and nothing is taken back.         *)
(***************************************************************************)
EXTENDS Naturals

VARIABLES
  transferred,  \* value of the units in the compliance account
  credited      \* value the invoice was credited for them

vars == <<transferred, credited>>

Init == transferred = 0 /\ credited = 0

Transfer ==
  /\ transferred' \in Nat /\ transferred' > transferred
  /\ UNCHANGED credited

Credit ==
  /\ credited' \in credited + 1 .. transferred
  /\ UNCHANGED transferred

Next == Transfer \/ Credit

Spec == Init /\ [][Next]_vars
=============================================================================
