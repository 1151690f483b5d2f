----------------------------- MODULE TunnelTree -----------------------------
(***************************************************************************)
(* What the IAB core promises about GTP tunnels: the bearers of a device   *)
(* get their TEIDs together, a tunnel grows from the wired gNB towards the *)
(* cell that serves the device, one cell at a time, all bearers of the     *)
(* request at once, and only that last cell may give it up.                *)
(***************************************************************************)
EXTENDS IabTopology

VARIABLES
    session,   \* the device and bearer of every TEID allocated so far
    holds      \* the TEIDs each cell can route

vars == <<session, holds>>

Owner(t) == session[t].imsi

Init ==
    /\ session = <<>>
    /\ holds = [b \in Stations |-> {}]

Open(d) ==
    /\ session' = session \o [k \in 1 .. NumBearers[d] |-> [imsi |-> d, bid |-> k]]
    /\ UNCHANGED holds

\* S holds all the TEIDs one request of d was given.
IsRequest(d, S) ==
    \E first \in 0 .. Len(session) :
        /\ S = first + 1 .. first + NumBearers[d]
        /\ \A t \in S : t <= Len(session) /\ session[t] = [imsi |-> d, bid |-> t - first]

Extend(b, d, S) ==
    /\ d \in Below[b] /\ IsRequest(d, S)
    /\ b \in Iab => S \subseteq holds[Parent[b]]
    /\ holds' = [holds EXCEPT ![b] = @ \cup S]
    /\ UNCHANGED session

Withdraw(b, S) ==
    /\ \A t \in S : Parent[Owner(t)] = b
    /\ holds' = [holds EXCEPT ![b] = @ \ S]
    /\ UNCHANGED session

Next ==
    \/ \E d \in Devices : Open(d)
    \/ \E b \in Stations, d \in Devices, S \in SUBSET Teids : Extend(b, d, S)
    \/ \E b \in Stations : \E S \in SUBSET holds[b] : Withdraw(b, S)

Spec == Init /\ [][Next]_vars

\* A cell routes only TEIDs of devices behind it, and an IAB node none that
\* its parent does not route: the reply to a request went through both.
WholeTunnels ==
    /\ \A b \in Stations : \A t \in holds[b] :
          t \in 1 .. Len(session) /\ Owner(t) \in Below[b]
    /\ \A i \in Iab : holds[i] \subseteq holds[Parent[i]]
=============================================================================
