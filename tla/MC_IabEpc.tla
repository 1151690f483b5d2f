----------------------------- MODULE MC_IabEpc -----------------------------
(***************************************************************************)
(* Deployments for TLC: a wired gNB w1, IAB nodes i1 and j1, UEs u1 and v1. *)
(***************************************************************************)
EXTENDS IabEpc

CONSTANTS w1, i1, j1, u1, v1

\* The devices under cell b when each device's cell is given by parent.
Under(parent, b) ==
    LET step(S) == {d \in DOMAIN parent : parent[d] \in S \cup {b}}
    IN  step(step(step({})))

BelowOf(parent) == [b \in Stations |-> Under(parent, b)]

\* w1 - i1 - u1
OneHop       == [d \in {i1, u1} |-> IF d = i1 THEN w1 ELSE i1]
OneHopBelow  == BelowOf(OneHop)

\* w1 - i1 - j1 - u1
TwoHops      == [d \in {i1, j1, u1} |-> CASE d = i1 -> w1 [] d = j1 -> i1 [] OTHER -> j1]
TwoHopsBelow == BelowOf(TwoHops)

\* w1 - v1 and w1 - i1 - u1
Fork         == [d \in {i1, u1, v1} |-> IF d = u1 THEN i1 ELSE w1]
ForkBelow    == BelowOf(Fork)

OneBearer    == [d \in Devices |-> 1]
TwoForUe     == [d \in Devices |-> IF d = u1 THEN 2 ELSE 1]
OneAttempt   == [d \in Devices |-> 1]
UeRetries    == [d \in Devices |-> IF d = u1 THEN 2 ELSE 1]
=============================================================================
