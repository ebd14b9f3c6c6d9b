--------------------------- MODULE MCTransferEvents ---------------------------
(***************************************************************************)
(* Two operations of one operator, and a facility of the first.            *)
(***************************************************************************)
EXTENDS TransferEvents, TLC

CONSTANTS A, B, o1, o2, f1, u1, u2

MCOwner == [o \in Operation |-> A]
MCHome == [f \in Facility |-> o1]
=============================================================================
