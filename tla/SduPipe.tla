------------------------------ MODULE SduPipe ------------------------------
(***************************************************************************)
(* What an acknowledged-mode RLC link promises the PDCP entities at its    *)
(* ends: the SDUs handed to one end come out at the other, each once, each *)
(* whole and in the order they were handed in.                             *)
(***************************************************************************)
EXTENDS Naturals, Sequences

VARIABLES
    submitted,   \* how many SDUs PDCP handed to the link; SDUs are numbered from 1
    delivered    \* the SDUs that came out, in order

vars == <<submitted, delivered>>

Init == submitted = 0 /\ delivered = <<>>

Submit ==
    /\ submitted' = submitted + 1
    /\ UNCHANGED delivered

\* Several SDUs may come out in one step: one PDU can fill the gap behind
\* which many were waiting.
Deliver ==
    /\ \E n \in Len(delivered) + 1 .. submitted :
          delivered' = [s \in 1 .. n |-> s]
    /\ UNCHANGED submitted

Next == Submit \/ Deliver

Spec == Init /\ [][Next]_vars
=============================================================================
