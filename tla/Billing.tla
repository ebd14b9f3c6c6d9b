-------------------------------- MODULE Billing --------------------------------
(***************************************************************************)
(* What billing promises for the obligations of an operator, whatever      *)
(* fails and however often it is tried again: eLicensing gets one invoice  *)
(* for an obligation, the obligation keeps the number of that invoice, and *)
(* once it is linked to the invoice it stays linked.  For an obligation    *)
(* that was waived nothing is promised.                                    *)
(***************************************************************************)
EXTENDS Naturals

CONSTANT Obligation

VARIABLES
  issued,  \* the invoices of each obligation in eLicensing
  number,  \* the invoice number it keeps, 0 for none
  linked,  \* is it linked to the invoice of that number?
  waived   \* the obligations without a promise

vars == <<issued, number, linked, waived>>

Init ==
  /\ issued = [o \in Obligation |-> 0]
  /\ number = [o \in Obligation |-> 0]
  /\ linked = [o \in Obligation |-> FALSE]
  /\ waived = {}

\* What may happen to one obligation; the rest of the three functions is left
\* to Next, since waived obligations change as they like
Issue(o) ==
  /\ issued[o] = 0 /\ issued'[o] = 1
  /\ number'[o] = number[o] /\ linked'[o] = linked[o]

Record(o) ==
  /\ issued[o] = 1 /\ number[o] = 0 /\ number'[o] = 1
  /\ issued'[o] = issued[o] /\ linked'[o] = linked[o]

Link(o) ==
  /\ number[o] = 1 /\ linked'[o]
  /\ issued'[o] = issued[o] /\ number'[o] = number[o]

Kept(o) ==
  issued'[o] = issued[o] /\ number'[o] = number[o] /\ linked'[o] = linked[o]

Next ==
  /\ waived \subseteq waived'
  /\ \A o \in Obligation \ waived' : Issue(o) \/ Record(o) \/ Link(o) \/ Kept(o)

Spec == Init /\ [][Next]_vars
=============================================================================
