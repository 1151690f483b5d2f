---------------------------- MODULE IabTopology ----------------------------
(***************************************************************************)
(* The nodes of an IAB deployment, as MmWaveHelper and                     *)
(* MmWavePointToPointEpcHelper install them before the simulation starts,  *)
(* and the packets its control and user plane exchange.  Nothing here      *)
(* changes while the program runs.                                         *)
(***************************************************************************)
EXTENDS Naturals, Sequences, FiniteSets

CONSTANTS
    Wired,        \* cells of the wired gNBs (MmWaveEnbNetDevice)
    Iab,          \* IAB nodes: a cell towards their children, a device towards their donor
    Ue,           \* plain devices (MmWaveUeNetDevice)
    Parent,       \* the cell each device is attached to by the helper
    Below,        \* Below[b]: the devices whose path to the core crosses cell b
    NumBearers,   \* EPS bearers activated for each device before it connects
    MaxBearers,   \* bound on NumBearers (the MME refuses more than 11)
    MaxRnti,      \* bound: RNTIs a cell hands out
    MaxTeid,      \* bound: TEIDs the SGW allocates
    None          \* "no entry" in a map whose values are nodes

Stations == Wired \cup Iab
Devices  == Iab \cup Ue
Bids     == 1 .. MaxBearers
Rntis    == 1 .. MaxRnti
Teids    == 1 .. MaxTeid

\* Every device hangs from one cell, and following donors never returns to
\* the node it started from (MmWaveHelper attaches an IAB node to a gNB or
\* to an IAB node that is closer to a wired gNB).
ASSUME TopologyAssumption ==
    /\ Wired \cap Iab = {} /\ Wired \cap Ue = {} /\ Iab \cap Ue = {}
    /\ IsFiniteSet(Stations)
    /\ None \notin Stations \cup Devices
    /\ Parent \in [Devices -> Stations]
    /\ Below \in [Stations -> SUBSET Devices]
    /\ \A b \in Stations, d \in Devices :
          d \in Below[b] <=> \/ Parent[d] = b
                             \/ \E i \in Iab : Parent[i] = b /\ d \in Below[i]
    /\ \A b \in Stations, d \in Devices :
          d \in Below[b] <=> Parent[d] \in Below[b] \cup {b}
    /\ \A i \in Iab : i \notin Below[i]

ASSUME BoundsAssumption ==
    /\ MaxBearers \in 1 .. 11 /\ MaxRnti \in Nat /\ MaxTeid \in Nat
    /\ NumBearers \in [Devices -> Bids]

(***************************************************************************)
(* Packets.  A data packet names the UE it comes from or goes to (its IP   *)
(* address), the bearer its traffic flow matches, and the TEID of the GTP  *)
(* header in front of it, 0 when there is none.                            *)
(***************************************************************************)
InitialUeMessage ==
    [type : {"InitialUeMessage"}, imsi : Devices, gci : Stations,
     parents : SUBSET Iab]

InitialContextSetupRequest ==
    [type : {"InitialContextSetupRequest"}, imsi : Devices,
     erabs : SUBSET (Bids \X Teids), iab : BOOLEAN]

DataPacket ==
    [type : {"Data"}, ue : Ue, bid : Bids, teid : Teids \cup {0}]

\* What the EpsBearerTag (RNTI, bearer id) says of a packet on the radio.
Frame(r, k, p) == [rnti |-> r, bid |-> k, pkt |-> p]

UplinkPacket   == InitialUeMessage \cup DataPacket
DownlinkPacket == InitialContextSetupRequest \cup DataPacket
UplinkFrame    == [rnti : Rntis, bid : Bids, pkt : UplinkPacket]
DownlinkFrame  == [rnti : Rntis, bid : Bids, pkt : DownlinkPacket]

\* RRC messages on SRB0 and SRB1 of one device, tagged with the RNTI they
\* are for; drbs is the length of the drbToAddModList they carry.
RrcMessage ==
    [type : {"ConnectionRequest", "ConnectionSetup", "ConnectionSetupCompleted",
             "ConnectionReconfiguration", "ConnectionReconfigurationCompleted"},
     rnti : Rntis, drbs : Bids \cup {0}]

Rrc(t, r, n) == [type |-> t, rnti |-> r, drbs |-> n]

\* EpsFlowId_t: the radio bearer a packet leaves on.
NoRbid == [rnti |-> 0, bid |-> 0]
Rbid   == [rnti : Rntis, bid : Bids] \cup {NoRbid}

\* The bearers named in a context setup request, and their TEIDs.
TeidsOf(m)    == {e[2] : e \in m.erabs}
BidOf(m, t)   == CHOOSE k \in Bids : <<k, t>> \in m.erabs
TeidFor(m, k) == CHOOSE t \in Teids : <<k, t>> \in m.erabs
Mutant_FirstBid(m) == {1}
BidsOf(m)     == {e[1] : e \in m.erabs}
=============================================================================
