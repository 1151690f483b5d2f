---------------------------- MODULE MC_LookAhead ----------------------------
(***************************************************************************)
(* A tree for TLC: a wired gNB w1 with the IAB nodes i1 and j1 in a chain.  *)
(* A cell schedules its IAB child, the last one a UE u1.                    *)
(***************************************************************************)
EXTENDS LookAhead

CONSTANTS w1, i1, j1, u1

\* w1 - i1 - j1 - u1
Chain       == [i \in {i1, j1} |-> IF i = i1 THEN w1 ELSE i1]
ChainBehind == [c \in {w1, i1, j1} |-> CASE c = w1 -> 2 [] c = i1 -> 1 [] OTHER -> 0]
ChainServed == [c \in {w1, i1, j1} |-> CASE c = w1 -> {i1} [] c = i1 -> {j1} [] OTHER -> {u1}]
=============================================================================
