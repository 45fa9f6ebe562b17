----------------------------- MODULE ByteStream -----------------------------
(***************************************************************************)
(* What the receive path promises the frame decoder: the bytes taken from  *)
(* the UART reach it once each and in order, and at most Capacity of them  *)
(* wait.  Bytes are numbered from 0 in the order they are accepted.        *)
(***************************************************************************)
EXTENDS Integers

CONSTANT Capacity

VARIABLES
  accepted,   \* how many bytes have been accepted
  delivered,  \* how many bytes have been delivered
  last        \* the number of the last byte delivered, -1 before the first

vars == <<accepted, delivered, last>>

Init == accepted = 0 /\ delivered = 0 /\ last = -1

Accept ==
  /\ accepted' \in (accepted + 1)..(delivered + Capacity)
  /\ UNCHANGED <<delivered, last>>

Deliver ==
  /\ delivered < accepted
  /\ delivered' = delivered + 1
  /\ last' = delivered
  /\ UNCHANGED accepted

Next == Accept \/ Deliver

Spec == Init /\ [][Next]_vars

=============================================================================
