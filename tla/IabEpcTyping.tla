---------------------------- MODULE IabEpcTyping ----------------------------
(***************************************************************************)
(* The type invariant of IabEpc, and that every action of every deployment *)
(* preserves it.                                                           *)
(***************************************************************************)
EXTENDS IabEpc, TLAPS, SequenceTheorems, FiniteSetTheorems

(***************************************************************************)
(* The inductive invariant.                                                *)
(***************************************************************************)

\* The device an RNTI of cell b was given to; it stays when RemoveUe ends the
\* UeManager, because LteEnbRrc::AddUe never reuses an RNTI here.
UeOf(b, r) == ueMap[b][r].ue

RrcOf(d) == {m \in RrcMessage : UeOf(Parent[d], m.rnti) = d}

\* An InitialUeMessage is only ever sent by an IAB node, for a device behind it.
UplinkPacketOf(d) ==
    {p \in UplinkPacket : p.type = "InitialUeMessage" => d \in Iab /\ p.imsi \in Below[d]}

UplinkFrameOf(d) ==
    {f \in UplinkFrame : f.pkt \in UplinkPacketOf(d) /\ UeOf(Parent[d], f.rnti) = d}

\* A request on its way names, for bearers 1 to n of its device, consecutive
\* TEIDs the SGW allocated for them.
Granted(m, first) ==
    LET n == NumBearers[m.imsi] IN
    /\ first + n <= Len(session)
    /\ m.erabs = {<<k, first + k>> : k \in 1 .. n}
    /\ \A k \in 1 .. n : session[first + k] = [imsi |-> m.imsi, bid |-> k]

Request ==
    {m \in InitialContextSetupRequest :
        (m.iab <=> m.imsi \in Iab) /\ \E first \in 0 .. Len(session) : Granted(m, first)}

RequestFrame == [rnti : Rntis, bid : Bids, pkt : Request \cup DataPacket]

\* What the queues of all devices can hold.
Srbs ==
    {f \in [Devices -> Seq(RrcMessage)] : \A d \in Devices : f[d] \in Seq(RrcOf(d))}
NasBuffers ==
    {f \in [Devices -> Seq(UplinkPacket)] : \A d \in Devices : f[d] \in Seq(UplinkPacketOf(d))}
UplinkQueues ==
    {f \in [Devices -> Seq(UplinkFrame)] : \A d \in Devices : f[d] \in Seq(UplinkFrameOf(d))}
DownlinkQueues == [Devices -> Seq(RequestFrame)]
Requests       == [Wired -> Seq(Request)]

QueueInv ==
    /\ srbUl \in Srbs /\ srbDl \in Srbs /\ nasBuffer \in NasBuffers
    /\ ulq \in UplinkQueues /\ dlq \in DownlinkQueues /\ s1Down \in Requests

\* A device that is not idle has an RNTI of its cell, and only a connected one
\* has data radio bearers.
Linked(d) ==
    /\ rrc[d] # "IDLE" => rnti[d] \in Rntis /\ UeOf(Parent[d], rnti[d]) = d
    /\ drbs[d] # 0 => rrc[d] = "CONNECTED"

LinkInv == \A d \in Devices : Linked(d)

UeKnown(b, r) ==
    /\ UeOf(b, r) # None => r <= lastRnti[b] /\ Parent[UeOf(b, r)] = b
    /\ ueMap[b][r].state # "NONE" => UeOf(b, r) # None
    /\ rntiLocalImsi[b][r] \in {None, UeOf(b, r)}

UeMapInv == \A b \in Stations, r \in Rntis : UeKnown(b, r)

SessionInv ==
    /\ Len(session) <= MaxTeid
    /\ \A t \in 1 .. Len(session) : enbAddr[session[t].imsi] \in Wired

\* The RNTI a cell has for a device it does not forward to is the device's own.
OwnInv ==
    \A b \in Stations, d \in Devices :
        d \notin remoteImsi[b] /\ imsiRnti[b][d] # 0 => UeOf(b, imsiRnti[b][d]) = d

\* TypeOK is not inductive by itself: which RNTI, device or TEID a handler
\* looks up depends on whose message it takes from a queue, on whether RRC and
\* application agree on the RNTI, and on what the SGW has granted.
TypeInv == TypeOK /\ QueueInv /\ LinkInv /\ UeMapInv /\ SessionInv /\ OwnInv

(***************************************************************************)
(* Lemmas on the deployment and on queues.                                 *)
(***************************************************************************)

LEMMA Topology ==
    /\ Parent \in [Devices -> Stations]
    /\ Below \in [Stations -> SUBSET Devices]
    /\ None \notin Devices /\ None \notin Stations
    /\ NumBearers \in [Devices -> Bids]
    /\ MaxBearers \in 1 .. 11 /\ MaxRnti \in Nat /\ MaxTeid \in Nat
    /\ Iab \subseteq Stations /\ Iab \subseteq Devices /\ Ue \subseteq Devices
    /\ Wired \subseteq Stations /\ Wired \cap Iab = {} /\ Iab \cap Ue = {}
    /\ Stations = Wired \cup Iab
    /\ IsFiniteSet(Iab)
<1>1. IsFiniteSet(Stations) BY TopologyAssumption
<1>2. Iab \subseteq Stations BY DEF Stations
<1>3. IsFiniteSet(Iab) BY <1>1, <1>2, FS_Subset
<1> QED BY <1>3, TopologyAssumption, BoundsAssumption DEF Stations, Devices

LEMMA EmptyQueues == \A S : <<>> \in Seq(S)
BY EmptySeq

LEMMA AppendQueue ==
    ASSUME NEW S, NEW q \in Seq(S), NEW e \in S PROVE Append(q, e) \in Seq(S)
OBVIOUS

LEMMA TakeQueue ==
    ASSUME NEW S, NEW q \in Seq(S), q # <<>> PROVE Head(q) \in S /\ Tail(q) \in Seq(S)
OBVIOUS

LEMMA UpdateTwice ==
    ASSUME NEW A, NEW B, NEW C, NEW f \in [A -> [B -> C]],
           NEW a \in A, NEW b \in B, NEW c \in C
    PROVE  /\ [f EXCEPT ![a][b] = c] \in [A -> [B -> C]]
           /\ \A x \in A, y \in B :
                 [f EXCEPT ![a][b] = c][x][y] = IF x = a /\ y = b THEN c ELSE f[x][y]
OBVIOUS

\* A simulation as the helper leaves it, nobody attached, satisfies the invariant.
LEMMA InitTypeInv == Init => TypeInv
<1> SUFFICES ASSUME Init PROVE TypeInv
  OBVIOUS
<1> USE DEF Init
<1>1. TypeOK
  BY Topology, EmptyQueues
  DEF TypeOK, DeviceTypes, NasTypes, RadioTypes, CellTypes, AppTypes, CoreTypes, RunTypes,
      UeManager, UeManagerState, NoUeManager, Rbid, NoTeids, Bids
<1>2. QueueInv
  BY EmptyQueues DEF QueueInv, Srbs, NasBuffers, UplinkQueues, DownlinkQueues, Requests
<1>3. LinkInv
  BY DEF LinkInv, Linked
<1>4. UeMapInv
  BY Topology DEF UeMapInv, UeKnown, UeOf, NoUeManager
<1>5. SessionInv
  BY Topology DEF SessionInv
<1>6. OwnInv
  BY DEF OwnInv
<1> QED BY <1>1, <1>2, <1>3, <1>4, <1>5, <1>6 DEF TypeInv

(***************************************************************************)
(* Which device an RNTI belongs to, and the TEIDs allocated, only grow.    *)
(***************************************************************************)

Grows ==
    /\ \A b \in Stations, r \in Rntis :
          ueMap[b][r].ue # None => ueMap'[b][r].ue = ueMap[b][r].ue
    /\ Len(session) <= Len(session')
    /\ \A t \in 1 .. Len(session) : session'[t] = session[t]

LEMMA Monotone ==
    ASSUME TypeInv, session' \in Seq([imsi : Devices, bid : Bids]), Grows
    PROVE  /\ \A d \in Devices : /\ RrcOf(d) \subseteq RrcOf(d)'
                                 /\ UplinkFrameOf(d) \subseteq UplinkFrameOf(d)'
           /\ Request \subseteq Request'
           /\ RequestFrame \subseteq RequestFrame'
<1> USE Topology
<1>1. ASSUME NEW d \in Devices
      PROVE  RrcOf(d) \subseteq RrcOf(d)' /\ UplinkFrameOf(d) \subseteq UplinkFrameOf(d)'
  <2>1. \A r \in Rntis : UeOf(Parent[d], r) # None => UeOf(Parent[d], r)' = UeOf(Parent[d], r)
    BY DEF Grows, UeOf
  <2>2. d # None
    OBVIOUS
  <2>3. RrcOf(d) \subseteq RrcOf(d)'
    BY <2>1, <2>2 DEF RrcOf, RrcMessage
  <2>4. UplinkFrameOf(d) \subseteq UplinkFrameOf(d)'
    BY <2>1, <2>2 DEF UplinkFrameOf, UplinkPacketOf, UplinkFrame
  <2> QED BY <2>3, <2>4
<1>2. Request \subseteq Request'
  <2> SUFFICES ASSUME NEW m \in Request PROVE m \in Request'
    OBVIOUS
  <2>1. PICK first \in 0 .. Len(session) : Granted(m, first)
    BY DEF Request
  <2>2. m.imsi \in Devices /\ NumBearers[m.imsi] \in Nat
    BY DEF Request, InitialContextSetupRequest, Bids
  <2>3. Len(session) \in Nat /\ Len(session') \in Nat
    BY LenProperties DEF TypeInv, TypeOK, CoreTypes
  <2>4. Len(session) <= Len(session') /\ \A t \in 1 .. Len(session) : session'[t] = session[t]
    BY DEF Grows
  <2>5. Granted(m, first)' /\ first \in 0 .. Len(session')
    <3> DEFINE n == NumBearers[m.imsi]
               E == {<<k, first + k>> : k \in 1 .. n}
    <3>1. /\ first + n <= Len(session) /\ m.erabs = E
          /\ \A k \in 1 .. n : session[first + k] = [imsi |-> m.imsi, bid |-> k]
      BY <2>1 DEF Granted
    <3>2. n \in Nat /\ first \in Nat /\ first <= Len(session)
      BY <2>2, <2>3
    <3> HIDE DEF E, n
    <3>3. \A k \in 1 .. n : first + k \in 1 .. Len(session)
      BY <2>3, <3>1, <3>2
    <3>4. /\ first + n <= Len(session') /\ first \in 0 .. Len(session')
          /\ \A k \in 1 .. n : session'[first + k] = [imsi |-> m.imsi, bid |-> k]
      BY <2>3, <2>4, <3>1, <3>2, <3>3
    <3> QED BY <3>1, <3>4 DEF Granted, E, n
  <2> QED BY <2>5 DEF Request
<1>3. RequestFrame \subseteq RequestFrame'
  BY <1>2 DEF RequestFrame
<1> QED BY <1>1, <1>2, <1>3

LEMMA QueueMonotone ==
    ASSUME TypeInv, session' \in Seq([imsi : Devices, bid : Bids]), Grows
    PROVE  /\ Srbs \subseteq Srbs' /\ UplinkQueues \subseteq UplinkQueues'
           /\ DownlinkQueues \subseteq DownlinkQueues' /\ Requests \subseteq Requests'
<1>1. Srbs \subseteq Srbs' /\ UplinkQueues \subseteq UplinkQueues'
  BY Monotone, SeqMonotonic DEF Srbs, UplinkQueues
<1>2. ASSUME NEW f \in DownlinkQueues PROVE f \in DownlinkQueues'
  BY Monotone, SeqMonotonic DEF DownlinkQueues
<1>3. ASSUME NEW f \in Requests PROVE f \in Requests'
  BY Monotone, SeqMonotonic DEF Requests
<1> QED BY <1>1, <1>2, <1>3

LEMMA LinkedStable ==
    ASSUME Grows, NEW x \in Devices, Linked(x),
           rrc'[x] = rrc[x], rnti'[x] = rnti[x], drbs'[x] = drbs[x]
    PROVE  Linked(x)'
BY Topology DEF Linked, Grows, UeOf

\* Most actions give out neither an RNTI nor a TEID.
SameUes ==
    /\ \A b \in Stations, r \in Rntis : ueMap'[b][r].ue = ueMap[b][r].ue
    /\ session' = session

LEMMA SameSets ==
    ASSUME TypeInv, SameUes
    PROVE  /\ Grows
           /\ \A d \in Devices : RrcOf(d)' = RrcOf(d) /\ UplinkFrameOf(d)' = UplinkFrameOf(d)
           /\ Srbs' = Srbs /\ UplinkQueues' = UplinkQueues
           /\ RequestFrame' = RequestFrame /\ DownlinkQueues' = DownlinkQueues
           /\ Request' = Request /\ Requests' = Requests
<1> USE Topology
<1>1. Grows
  BY LenProperties DEF SameUes, Grows, TypeInv, TypeOK, CoreTypes
<1>2. ASSUME NEW d \in Devices
      PROVE  RrcOf(d)' = RrcOf(d) /\ UplinkFrameOf(d)' = UplinkFrameOf(d)
  BY DEF SameUes, RrcOf, UplinkFrameOf, UplinkPacketOf, UplinkFrame, RrcMessage, UeOf
<1>3. Request' = Request
  BY DEF SameUes, Request, Granted
<1>4. Srbs' = Srbs /\ UplinkQueues' = UplinkQueues
  BY <1>2 DEF Srbs, UplinkQueues
<1> QED BY <1>1, <1>2, <1>3, <1>4 DEF RequestFrame, DownlinkQueues, Requests

LEMMA SameLinks ==
    ASSUME TypeInv, Grows, UNCHANGED <<rrc, rnti, drbs>>
    PROVE  LinkInv'
BY LinkedStable DEF LinkInv, TypeInv

LEMMA SameCells ==
    ASSUME TypeInv, UNCHANGED <<cellVars, rntiLocalImsi, session, enbAddr>>
    PROVE  SameUes /\ UeMapInv' /\ SessionInv'
BY DEF TypeInv, UeMapInv, UeKnown, UeOf, SessionInv, SameUes, cellVars

\* A cell replaces a UeManager by one of the same device.
LEMMA ReplaceUe ==
    ASSUME TypeInv, NEW b \in Stations, NEW r \in Rntis, NEW u \in UeManager,
           u.ue = ueMap[b][r].ue, u.state # "NONE" => u.ue # None,
           ueMap' = [ueMap EXCEPT ![b][r] = u],
           UNCHANGED <<lastRnti, session>>
    PROVE  /\ SameUes /\ CellTypes'
           /\ UNCHANGED rntiLocalImsi => UeMapInv'
<1>1. ueMap \in [Stations -> [Rntis -> UeManager]] /\ CellTypes
  BY DEF TypeInv, TypeOK, CellTypes
<1>2. /\ ueMap' \in [Stations -> [Rntis -> UeManager]]
      /\ \A x \in Stations, y \in Rntis :
            ueMap'[x][y] = IF x = b /\ y = r THEN u ELSE ueMap[x][y]
  BY <1>1, UpdateTwice
<1>3. SameUes
  BY <1>2 DEF SameUes
<1>4. CellTypes'
  BY <1>1, <1>2 DEF CellTypes
<1>5. ASSUME UNCHANGED rntiLocalImsi PROVE UeMapInv'
  <2> SUFFICES ASSUME NEW x \in Stations, NEW y \in Rntis PROVE UeKnown(x, y)'
    BY DEF UeMapInv
  <2>1. UeKnown(x, y)
    BY DEF TypeInv, UeMapInv
  <2> QED BY <1>2, <1>5, <2>1 DEF UeKnown, UeOf
<1> QED BY <1>3, <1>4, <1>5

(***************************************************************************)
(* Queues grow at one end and shrink at the other.                         *)
(***************************************************************************)

LEMMA SrbStep ==
    ASSUME NEW f \in Srbs, NEW d \in Devices
    PROVE  /\ f[d] # <<>> => Head(f[d]) \in RrcOf(d) /\ [f EXCEPT ![d] = Tail(@)] \in Srbs
           /\ \A e \in RrcOf(d) : [f EXCEPT ![d] = Append(@, e)] \in Srbs
           /\ \A s \in Seq(RrcOf(d)) : [f EXCEPT ![d] = @ \o s] \in Srbs
           /\ [f EXCEPT ![d] = <<>>] \in Srbs
<1>1. f \in [Devices -> Seq(RrcMessage)] /\ f[d] \in Seq(RrcOf(d))
  BY DEF Srbs
<1>2. ASSUME NEW q \in Seq(RrcOf(d)) PROVE [f EXCEPT ![d] = q] \in Srbs
  <2>1. q \in Seq(RrcMessage)
    BY SeqMonotonic DEF RrcOf
  <2> QED BY <1>1, <2>1 DEF Srbs
<1>3. ASSUME NEW s \in Seq(RrcOf(d)) PROVE f[d] \o s \in Seq(RrcOf(d))
  BY <1>1, ConcatProperties
<1> QED BY <1>1, <1>2, <1>3, TakeQueue, AppendQueue, EmptyQueues

LEMMA UplinkStep ==
    ASSUME NEW f \in UplinkQueues, NEW d \in Devices
    PROVE  /\ f[d] # <<>> => /\ Head(f[d]) \in UplinkFrameOf(d)
                             /\ [f EXCEPT ![d] = Tail(@)] \in UplinkQueues
           /\ \A e \in UplinkFrameOf(d) : [f EXCEPT ![d] = Append(@, e)] \in UplinkQueues
           /\ \A s \in Seq(UplinkFrameOf(d)) : [f EXCEPT ![d] = @ \o s] \in UplinkQueues
<1>1. f \in [Devices -> Seq(UplinkFrame)] /\ f[d] \in Seq(UplinkFrameOf(d))
  BY DEF UplinkQueues
<1>2. ASSUME NEW q \in Seq(UplinkFrameOf(d)) PROVE [f EXCEPT ![d] = q] \in UplinkQueues
  <2>1. q \in Seq(UplinkFrame)
    BY SeqMonotonic DEF UplinkFrameOf
  <2> QED BY <1>1, <2>1 DEF UplinkQueues
<1>3. ASSUME NEW s \in Seq(UplinkFrameOf(d)) PROVE f[d] \o s \in Seq(UplinkFrameOf(d))
  BY <1>1, ConcatProperties
<1> QED BY <1>1, <1>2, <1>3, TakeQueue, AppendQueue

LEMMA DownlinkQueueStep ==
    ASSUME NEW f \in DownlinkQueues, NEW d \in Devices
    PROVE  /\ f[d] # <<>> => /\ Head(f[d]) \in RequestFrame
                             /\ [f EXCEPT ![d] = Tail(@)] \in DownlinkQueues
           /\ \A e \in RequestFrame : [f EXCEPT ![d] = Append(@, e)] \in DownlinkQueues
<1>1. f[d] \in Seq(RequestFrame)
  BY DEF DownlinkQueues
<1> QED BY <1>1, TakeQueue, AppendQueue DEF DownlinkQueues

LEMMA NasStep ==
    ASSUME NEW f \in NasBuffers, NEW d \in Devices, NEW p \in UplinkPacketOf(d)
    PROVE  [f EXCEPT ![d] = Append(@, p)] \in NasBuffers
<1>1. f \in [Devices -> Seq(UplinkPacket)] /\ f[d] \in Seq(UplinkPacketOf(d))
  BY DEF NasBuffers
<1>2. Append(f[d], p) \in Seq(UplinkPacketOf(d)) /\ Append(f[d], p) \in Seq(UplinkPacket)
  BY <1>1, AppendQueue DEF UplinkPacketOf
<1> QED BY <1>1, <1>2 DEF NasBuffers

\* The queues have the types TypeOK gives them.
LEMMA QueueTypes ==
    ASSUME QueueInv'
    PROVE  /\ losses' \in Nat => RadioTypes'
           /\ nasBuffer' \in [Devices -> Seq(UplinkPacket)]
           /\ s1Down' \in [Wired -> Seq(InitialContextSetupRequest)]
<1>1. RequestFrame' \subseteq DownlinkFrame /\ Request' \subseteq InitialContextSetupRequest
  BY DEF RequestFrame, Request, DownlinkFrame, DownlinkPacket
<1>2. ASSUME NEW f \in DownlinkQueues' PROVE f \in [Devices -> Seq(DownlinkFrame)]
  BY <1>1, SeqMonotonic DEF DownlinkQueues
<1>3. ASSUME NEW f \in Requests' PROVE f \in [Wired -> Seq(InitialContextSetupRequest)]
  BY <1>1, SeqMonotonic DEF Requests
<1> QED BY <1>2, <1>3 DEF QueueInv, Srbs, UplinkQueues, NasBuffers, RadioTypes

LEMMA LinkStep ==
    ASSUME TypeInv, Grows, NEW d \in Devices, Linked(d)',
           \A x \in Devices \ {d} : rrc'[x] = rrc[x] /\ rnti'[x] = rnti[x] /\ drbs'[x] = drbs[x]
    PROVE  LinkInv'
<1> SUFFICES ASSUME NEW x \in Devices, x # d PROVE Linked(x)'
  BY DEF LinkInv
<1> QED BY LinkedStable DEF TypeInv, LinkInv

\* What a step that gives out no RNTI and no TEID has to show of the queues.
LEMMA QueuesStay ==
    ASSUME TypeInv, SameUes, srbUl' \in Srbs, srbDl' \in Srbs, nasBuffer' \in NasBuffers,
           ulq' \in UplinkQueues, dlq' \in DownlinkQueues, s1Down' \in Requests
    PROVE  QueueInv'
BY SameSets DEF QueueInv, NasBuffers, UplinkPacketOf

LEMMA OwnStays ==
    ASSUME TypeInv, Grows, UNCHANGED <<imsiRnti, remoteImsi>>
    PROVE  OwnInv'
<1> SUFFICES ASSUME NEW b \in Stations, NEW d \in Devices,
                    d \notin remoteImsi[b], imsiRnti[b][d] # 0
             PROVE  ueMap'[b][imsiRnti[b][d]].ue = d
  BY DEF OwnInv, UeOf
<1>1. imsiRnti[b][d] \in Rntis /\ ueMap[b][imsiRnti[b][d]].ue = d
  BY DEF TypeInv, TypeOK, AppTypes, OwnInv, UeOf
<1> QED BY <1>1, Topology DEF Grows

(***************************************************************************)
(* RRC connection: one lemma for each action.                              *)
(***************************************************************************)

LEMMA RandomAccessTypes ==
    ASSUME TypeInv, NEW d \in Devices, RandomAccess(d)
    PROVE  TypeInv'
<1> DEFINE b == Parent[d]
           r == lastRnti[b] + 1
           u == NewUeManager(d)
           m == Rrc("ConnectionRequest", r, 0)
<1> USE Topology
<1>1. b \in Stations /\ r \in Rntis /\ UeOf(b, r) = None
  <2>1. b \in Stations /\ r \in Rntis
    BY DEF RandomAccess
  <2>2. lastRnti[b] \in Nat
    BY <2>1 DEF TypeInv, TypeOK, CellTypes, Rntis
  <2>3. UeOf(b, r) # None => r <= lastRnti[b]
    BY <2>1 DEF TypeInv, UeMapInv, UeKnown
  <2> QED BY <2>1, <2>2, <2>3
<1>2. u \in UeManager /\ u.ue = d /\ u.state = "INITIAL_RANDOM_ACCESS"
  BY DEF NewUeManager, UeManager, UeManagerState, NoUeManager
<1>3. m \in RrcMessage /\ m.rnti = r
  BY <1>1 DEF RrcMessage, Rrc
<1>4. /\ rrc[d] = "IDLE"
      /\ rrc' = [rrc EXCEPT ![d] = "CONNECTING"]
      /\ rnti' = [rnti EXCEPT ![d] = r]
      /\ attempts' = [attempts EXCEPT ![d] = @ + 1]
      /\ lastRnti' = [lastRnti EXCEPT ![b] = r]
      /\ ueMap' = [ueMap EXCEPT ![b][r] = u]
      /\ srbUl' = [srbUl EXCEPT ![d] = Append(@, m)]
      /\ UNCHANGED <<drbs, nasVars, srbDl, ulq, dlq, losses, appVars,
                     coreVars, dataSent, fatal>>
  BY DEF RandomAccess
<1> HIDE DEF u, m
<1>5. /\ ueMap' \in [Stations -> [Rntis -> UeManager]]
      /\ \A x \in Stations, y \in Rntis :
            ueMap'[x][y] = IF x = b /\ y = r THEN u ELSE ueMap[x][y]
  BY <1>1, <1>2, <1>4, UpdateTwice DEF TypeInv, TypeOK, CellTypes
<1>6. Grows
  BY <1>1, <1>4, <1>5, LenProperties DEF Grows, UeOf, TypeInv, TypeOK, CoreTypes, coreVars
<1>7. DeviceTypes' /\ CellTypes' /\ CoreTypes'
  BY <1>1, <1>4, <1>5 DEF TypeInv, TypeOK, DeviceTypes, CellTypes, CoreTypes, coreVars
<1>8. QueueInv'
  <2>1. m \in RrcOf(d)'
    BY <1>1, <1>2, <1>3, <1>5 DEF RrcOf, UeOf
  <2>2. /\ srbUl \in Srbs' /\ srbDl \in Srbs' /\ ulq \in UplinkQueues'
        /\ dlq \in DownlinkQueues' /\ s1Down \in Requests'
    BY <1>6, <1>7, QueueMonotone DEF TypeInv, QueueInv, CoreTypes
  <2>3. [srbUl EXCEPT ![d] = Append(@, m)] \in Srbs'
    <3>1. /\ srbUl \in [Devices -> Seq(RrcMessage)]
          /\ \A x \in Devices : srbUl[x] \in Seq(RrcOf(x)')
      BY <2>2 DEF Srbs
    <3>2. /\ Append(srbUl[d], m) \in Seq(RrcMessage)
          /\ Append(srbUl[d], m) \in Seq(RrcOf(d)')
      BY <1>3, <2>1, <3>1, AppendQueue
    <3> QED BY <3>1, <3>2 DEF Srbs
  <2> QED BY <1>4, <2>2, <2>3 DEF QueueInv, NasBuffers, UplinkPacketOf, TypeInv, nasVars, coreVars
<1>9. LinkInv'
  <2>1. ueMap'[b][r] = u /\ rnti'[d] = r /\ drbs'[d] = drbs[d]
    BY <1>1, <1>4, <1>5 DEF TypeInv, TypeOK, DeviceTypes
  <2>2. Linked(d)'
    BY <1>1, <1>2, <1>4, <2>1 DEF Linked, UeOf, TypeInv, LinkInv
  <2> QED BY <1>4, <1>6, <2>2, LinkStep DEF TypeInv, TypeOK, DeviceTypes
<1>10. UeMapInv'
  <2> SUFFICES ASSUME NEW x \in Stations, NEW y \in Rntis PROVE UeKnown(x, y)'
    BY DEF UeMapInv
  <2>1. UeKnown(x, y)
    BY DEF TypeInv, UeMapInv
  <2>2. /\ ueMap'[x][y] = IF x = b /\ y = r THEN u ELSE ueMap[x][y]
        /\ lastRnti'[x] = IF x = b THEN r ELSE lastRnti[x]
        /\ rntiLocalImsi' = rntiLocalImsi
    BY <1>1, <1>4, <1>5 DEF TypeInv, TypeOK, CellTypes, appVars
  <2>3. y \in Nat /\ lastRnti[x] \in Nat
    BY DEF TypeInv, TypeOK, CellTypes, Rntis
  <2> QED BY <1>1, <1>2, <2>1, <2>2, <2>3 DEF UeKnown, UeOf
<1>11. SessionInv'
  BY <1>4 DEF SessionInv, TypeInv, coreVars
<1>12. TypeOK'
  BY <1>4, <1>7, <1>8, QueueTypes
  DEF TypeInv, TypeOK, RadioTypes, NasTypes, AppTypes, RunTypes, nasVars, appVars
<1>13. OwnInv'
  BY <1>4, <1>6, OwnStays DEF appVars
<1> QED BY <1>8, <1>9, <1>10, <1>11, <1>12, <1>13 DEF TypeInv

LEMMA RecvConnectionSetupTypes ==
    ASSUME TypeInv, NEW d \in Devices, RecvConnectionSetup(d)
    PROVE  TypeInv'
<1> DEFINE m == Rrc("ConnectionSetupCompleted", rnti[d], 0)
<1> USE Topology
<1>1. /\ srbDl[d] # <<>> /\ rrc[d] = "CONNECTING"
      /\ srbDl' = [srbDl EXCEPT ![d] = Tail(@)]
      /\ rrc' = [rrc EXCEPT ![d] = "CONNECTED"]
      /\ nas' = [nas EXCEPT ![d] = "ACTIVE"]
      /\ srbUl' = [srbUl EXCEPT ![d] = Append(@, m)]
      /\ UNCHANGED <<rnti, drbs, attempts, nasBuffer, lostS1ap, ulq, dlq, losses,
                     cellVars, appVars, coreVars, dataSent, fatal>>
  BY DEF RecvConnectionSetup
<1>2. SameUes /\ UeMapInv' /\ SessionInv'
  BY <1>1, SameCells DEF cellVars, appVars, coreVars
<1>3. m \in RrcOf(d)
  BY <1>1 DEF TypeInv, LinkInv, Linked, RrcOf, Rrc, RrcMessage
<1> HIDE DEF m
<1>4. QueueInv'
  <2>1. srbDl' \in Srbs /\ srbUl' \in Srbs
    BY <1>1, <1>3, SrbStep DEF TypeInv, QueueInv
  <2> QED BY <1>1, <1>2, <2>1, QueuesStay DEF TypeInv, QueueInv, coreVars
<1>5. DeviceTypes' /\ nas' \in [Devices -> {"OFF", "ACTIVE"}]
  BY <1>1 DEF TypeInv, TypeOK, DeviceTypes, NasTypes
<1>6. TypeOK'
  BY <1>1, <1>4, <1>5, QueueTypes
  DEF TypeInv, TypeOK, RadioTypes, NasTypes, CellTypes, AppTypes, CoreTypes, RunTypes,
      cellVars, appVars, coreVars
<1>7. LinkInv'
  <2>1. rrc'[d] = "CONNECTED" /\ rnti'[d] = rnti[d] /\ drbs'[d] = drbs[d]
    BY <1>1 DEF TypeInv, TypeOK, DeviceTypes
  <2>2. Linked(d)'
    BY <1>1, <1>2, <2>1 DEF Linked, UeOf, SameUes, TypeInv, LinkInv
  <2> QED BY <1>1, <1>2, <2>2, LinkStep, SameSets DEF TypeInv, TypeOK, DeviceTypes
<1>8. OwnInv'
  BY <1>1, <1>2, SameSets, OwnStays DEF appVars
<1> QED BY <1>2, <1>4, <1>6, <1>7, <1>8 DEF TypeInv

LEMMA ConnectedNormallyUe ==
    ASSUME NEW u \in UeManager
    PROVE  /\ ConnectedNormally(u) \in UeManager
           /\ ConnectedNormally(u).ue = u.ue /\ ConnectedNormally(u).state # "NONE"
<1>1. CASE u.pending
  <2>1. ConnectedNormally(u) =
          [u EXCEPT !.state = "CONNECTION_RECONFIGURATION", !.pending = FALSE]
    BY <1>1 DEF ConnectedNormally
  <2> QED BY <2>1 DEF UeManager, UeManagerState
<1>2. CASE ~u.pending
  BY <1>2 DEF ConnectedNormally, UeManager, UeManagerState
<1> QED BY <1>1, <1>2

LEMMA ReconfigurationRrc ==
    ASSUME NEW d \in Devices, NEW r \in Rntis, UeOf(Parent[d], r) = d, NEW u \in UeManager
    PROVE  Reconfiguration(u, r) \in Seq(RrcOf(d))
<1>1. Rrc("ConnectionReconfiguration", r, u.drbs) \in RrcOf(d)
  BY DEF RrcOf, Rrc, RrcMessage, UeManager
<1> QED BY <1>1, EmptyQueues DEF Reconfiguration

LEMMA HeadRnti ==
    ASSUME TypeInv, NEW d \in Devices, srbUl[d] # <<>>
    PROVE  /\ Head(srbUl[d]).rnti \in Rntis
           /\ UeOf(Parent[d], Head(srbUl[d]).rnti) = d
           /\ ueMap[Parent[d]][Head(srbUl[d]).rnti] \in UeManager
<1>1. Head(srbUl[d]) \in RrcOf(d)
  BY SrbStep DEF TypeInv, QueueInv
<1> QED BY <1>1, Topology DEF RrcOf, RrcMessage, TypeInv, TypeOK, CellTypes

\* The cell of d handles an RRC message of d and makes its UeManager connected.
LEMMA ConnectedTypes ==
    ASSUME TypeInv, NEW d \in Devices, NEW r \in Rntis, NEW v \in UeManager,
           srbUl[d] # <<>>, Head(srbUl[d]).rnti = r,
           v.ue = ueMap[Parent[d]][r].ue,
           srbUl' = [srbUl EXCEPT ![d] = Tail(@)],
           ueMap' = [ueMap EXCEPT ![Parent[d]][r] = v],
           srbDl' = [srbDl EXCEPT ![d] = @ \o Reconfiguration(ueMap[Parent[d]][r], r)],
           UNCHANGED <<ueVars, nasVars, ulq, dlq, losses, lastRnti, appVars,
                       coreVars, dataSent, fatal>>
    PROVE  TypeInv'
<1> DEFINE b == Parent[d]
           u == ueMap[b][r]
<1> USE Topology
<1>1. b \in Stations /\ UeOf(b, r) = d /\ u \in UeManager
  BY HeadRnti
<1>2. v.ue = u.ue /\ v.ue # None
  BY <1>1 DEF UeOf
<1>3. Reconfiguration(u, r) \in Seq(RrcOf(d))
  BY <1>1, ReconfigurationRrc
<1>4. SameUes /\ CellTypes' /\ UeMapInv'
  BY <1>1, <1>2, ReplaceUe DEF appVars, coreVars
<1>5. QueueInv'
  <2>1. srbUl' \in Srbs /\ srbDl' \in Srbs
    BY <1>3, SrbStep DEF TypeInv, QueueInv
  <2> QED BY <1>4, <2>1, QueuesStay DEF TypeInv, QueueInv, nasVars, coreVars
<1>6. LinkInv' /\ SessionInv'
  BY <1>4, SameSets, SameLinks DEF TypeInv, SessionInv, ueVars, coreVars
<1>7. TypeOK'
  BY <1>4, <1>5, QueueTypes
  DEF TypeInv, TypeOK, DeviceTypes, RadioTypes, NasTypes, AppTypes, CoreTypes, RunTypes,
      ueVars, nasVars, appVars, coreVars
<1>8. OwnInv'
  BY <1>4, SameSets, OwnStays DEF appVars
<1> QED BY <1>4, <1>5, <1>6, <1>7, <1>8 DEF TypeInv

LEMMA RecvConnectionSetupCompletedTypes ==
    ASSUME TypeInv, NEW d \in Devices, RecvConnectionSetupCompleted(d)
    PROVE  TypeInv'
<1> DEFINE r == Head(srbUl[d]).rnti
           v == ConnectedNormally(ueMap[Parent[d]][r])
<1>1. srbUl[d] # <<>>
  BY DEF RecvConnectionSetupCompleted
<1>2. r \in Rntis /\ v \in UeManager /\ v.ue = ueMap[Parent[d]][r].ue
  BY <1>1, HeadRnti, ConnectedNormallyUe
<1>3. ueMap' = [ueMap EXCEPT ![Parent[d]][r] = v]
  BY DEF RecvConnectionSetupCompleted
<1>4. /\ srbUl' = [srbUl EXCEPT ![d] = Tail(@)]
      /\ srbDl' = [srbDl EXCEPT ![d] = @ \o Reconfiguration(ueMap[Parent[d]][r], r)]
      /\ UNCHANGED <<ueVars, nasVars, ulq, dlq, losses, lastRnti, appVars,
                     coreVars, dataSent, fatal>>
  BY DEF RecvConnectionSetupCompleted
<1>5. Head(srbUl[d]).rnti = r
  OBVIOUS
<1> HIDE DEF v, r
<1> QED BY <1>1, <1>2, <1>3, <1>4, <1>5, ConnectedTypes

LEMMA RecvReconfigurationCompletedTypes ==
    ASSUME TypeInv, NEW d \in Devices, RecvReconfigurationCompleted(d)
    PROVE  TypeInv'
<1> DEFINE r == Head(srbUl[d]).rnti
           u == ueMap[Parent[d]][r]
<1>1. srbUl[d] # <<>>
  BY DEF RecvReconfigurationCompleted
<1>2. r \in Rntis /\ u \in UeManager
  BY <1>1, HeadRnti
<1>3. Reconfigured(u) \in UeManager /\ Reconfigured(u).ue = u.ue
  <2> DEFINE c == ConnectedNormally(u)
  <2>1. c \in UeManager /\ c.ue = u.ue
    BY <1>2, ConnectedNormallyUe
  <2>2. Reconfigured(u) = [c EXCEPT !.numIab = IF u.needIab THEN 1 ELSE @]
    BY DEF Reconfigured
  <2>3. (IF u.needIab THEN 1 ELSE c.numIab) \in Nat
    BY <2>1 DEF UeManager
  <2> HIDE DEF c, u
  <2> QED BY <2>1, <2>2, <2>3, SMTT(40) DEF UeManager
<1> QED BY <1>1, <1>2, <1>3, ConnectedTypes, ZenonT(60) DEF RecvReconfigurationCompleted

LEMMA FrameUp ==
    ASSUME NEW d \in Devices, NEW r \in Rntis, UeOf(Parent[d], r) = d,
           NEW k \in Bids, NEW p \in UplinkPacketOf(d)
    PROVE  Frame(r, k, p) \in UplinkFrameOf(d)
BY DEF Frame, UplinkFrame, UplinkFrameOf, UplinkPacketOf

LEMMA FunctionIsSeq ==
    ASSUME NEW S, NEW n \in Nat, NEW f \in [1 .. n -> S] PROVE f \in Seq(S)
BY SeqDef

LEMMA RecvReconfigurationTypes ==
    ASSUME TypeInv, NEW d \in Devices, RecvReconfiguration(d)
    PROVE  TypeInv'
<1> DEFINE n     == Head(srbDl[d]).drbs
           flush == IF n > drbs[d] THEN nasBuffer[d] ELSE <<>>
           sent  == {i \in DOMAIN flush : BearerOf(d, flush[i]) <= n}
           m     == Rrc("ConnectionReconfigurationCompleted", rnti[d], 0)
           frame(p) == Frame(rnti[d], BearerOf(d, p), p)
           frames(order) == [x \in DOMAIN order |-> frame(flush[order[x]])]
<1> USE Topology
<1>1. /\ srbDl[d] # <<>> /\ rrc[d] = "CONNECTED"
      /\ srbDl' = [srbDl EXCEPT ![d] = Tail(@)]
      /\ drbs' = [drbs EXCEPT ![d] = n]
      /\ UNCHANGED <<rrc, rnti, attempts, nasVars, dlq, losses, cellVars,
                     appVars, coreVars, dataSent>>
  BY DEF RecvReconfiguration
<1>2. n \in Bids \cup {0}
  <2>1. Head(srbDl[d]) \in RrcOf(d)
    BY <1>1, SrbStep DEF TypeInv, QueueInv
  <2> QED BY <2>1 DEF RrcOf, RrcMessage
<1>3. rnti[d] \in Rntis /\ UeOf(Parent[d], rnti[d]) = d
  BY <1>1 DEF TypeInv, LinkInv, Linked
<1>4. m \in RrcOf(d)
  BY <1>3 DEF RrcOf, Rrc, RrcMessage
<1>5. flush \in Seq(UplinkPacketOf(d))
  BY EmptyQueues DEF TypeInv, QueueInv, NasBuffers
<1>6. ASSUME NEW order \in [1 .. Cardinality(sent) -> sent]
      PROVE  frames(order) \in Seq(UplinkFrameOf(d))
  <2>1. Cardinality(sent) \in Nat
    <3>1. DOMAIN flush = 1 .. Len(flush) /\ Len(flush) \in Nat
      BY <1>5, LenProperties
    <3>2. IsFiniteSet(DOMAIN flush)
      BY <3>1, FS_Interval
    <3> QED BY <3>2, FS_Subset, FS_CardinalityType
  <2>2. ASSUME NEW x \in 1 .. Cardinality(sent)
        PROVE  frame(flush[order[x]]) \in UplinkFrameOf(d)
    <3> DEFINE p == flush[order[x]]
    <3>1. order[x] \in 1 .. Len(flush)
      BY <1>5, LenProperties
    <3>2. p \in UplinkPacketOf(d)
      BY <1>5, <3>1, ElementOfSeq
    <3>3. BearerOf(d, p) \in Bids
      <4>1. CASE d \in Iab
        BY <4>1 DEF BearerOf, Bids
      <4>2. CASE d \notin Iab
        <5>1. p \in DataPacket
          BY <3>2, <4>2 DEF UplinkPacketOf, UplinkPacket, InitialUeMessage
        <5> QED BY <4>2, <5>1 DEF BearerOf, DataPacket
      <4> QED BY <4>1, <4>2
    <3>4. frame(p) \in UplinkFrameOf(d)
      BY <1>3, <3>2, <3>3, FrameUp
    <3> HIDE DEF frame, flush
    <3> QED BY <3>4
  <2>3. frames(order) \in [1 .. Cardinality(sent) -> UplinkFrameOf(d)]
    BY <2>2
  <2> HIDE DEF frames, sent
  <2> QED BY <2>1, <2>3, FunctionIsSeq
<1>7. \/ /\ fatal' = "same tag twice"
         /\ UNCHANGED <<ulq, srbUl>>
      \/ /\ \E order \in [1 .. Cardinality(sent) -> sent] :
               ulq' = [ulq EXCEPT ![d] = @ \o frames(order)]
         /\ srbUl' = [srbUl EXCEPT ![d] = Append(@, m)]
         /\ UNCHANGED fatal
  BY DEF RecvReconfiguration
<1> HIDE DEF m, n, flush, sent, frames
<1>8. SameUes /\ UeMapInv' /\ SessionInv'
  BY <1>1, SameCells DEF cellVars, appVars, coreVars
<1>9. QueueInv'
  <2>1. srbDl' \in Srbs
    BY <1>1, SrbStep DEF TypeInv, QueueInv
  <2>2. srbUl' \in Srbs
    <3>1. srbUl \in Srbs
      BY DEF TypeInv, QueueInv
    <3>2. [srbUl EXCEPT ![d] = Append(@, m)] \in Srbs
      BY <1>4, <3>1, SrbStep
    <3> QED BY <1>7, <3>1, <3>2
  <2>3. ulq' \in UplinkQueues
    <3>1. CASE ulq' = ulq
      BY <3>1 DEF TypeInv, QueueInv
    <3>2. ASSUME NEW order \in [1 .. Cardinality(sent) -> sent],
                 ulq' = [ulq EXCEPT ![d] = @ \o frames(order)]
          PROVE  ulq' \in UplinkQueues
      BY <1>6, <3>2, UplinkStep DEF TypeInv, QueueInv
    <3> QED BY <1>7, <3>1, <3>2
  <2> QED BY <1>1, <1>8, <2>1, <2>2, <2>3, QueuesStay DEF TypeInv, QueueInv, nasVars, coreVars
<1>10. DeviceTypes' /\ RunTypes'
  BY <1>1, <1>2, <1>7 DEF TypeInv, TypeOK, DeviceTypes, RunTypes, Aborts
<1>11. TypeOK'
  BY <1>1, <1>9, <1>10, QueueTypes
  DEF TypeInv, TypeOK, RadioTypes, NasTypes, CellTypes, AppTypes, CoreTypes,
      nasVars, cellVars, appVars, coreVars
<1>12. LinkInv'
  <2>1. rrc'[d] = "CONNECTED" /\ rnti'[d] = rnti[d]
    BY <1>1
  <2>2. Linked(d)'
    BY <1>3, <1>8, <2>1 DEF Linked, UeOf, SameUes
  <2> QED BY <1>1, <1>8, <2>2, LinkStep, SameSets DEF TypeInv, TypeOK, DeviceTypes
<1>13. OwnInv'
  BY <1>1, <1>8, SameSets, OwnStays DEF appVars
<1> QED BY <1>8, <1>9, <1>11, <1>12, <1>13 DEF TypeInv

LEMMA ConnectionTimeoutTypes ==
    ASSUME TypeInv, NEW d \in Devices, ConnectionTimeout(d)
    PROVE  TypeInv'
<1> USE Topology
<1>1. /\ rrc[d] = "CONNECTING"
      /\ rrc' = [rrc EXCEPT ![d] = "IDLE"] /\ rnti' = [rnti EXCEPT ![d] = 0]
      /\ srbUl' = [srbUl EXCEPT ![d] = <<>>] /\ srbDl' = [srbDl EXCEPT ![d] = <<>>]
      /\ UNCHANGED <<drbs, attempts, nasVars, ulq, dlq, losses, cellVars, appVars,
                     coreVars, dataSent, fatal>>
  BY DEF ConnectionTimeout
<1>2. SameUes /\ UeMapInv' /\ SessionInv'
  BY <1>1, SameCells DEF cellVars, appVars, coreVars
<1>3. QueueInv'
  <2>1. srbDl' \in Srbs /\ srbUl' \in Srbs
    BY <1>1, SrbStep DEF TypeInv, QueueInv
  <2> QED BY <1>1, <1>2, <2>1, QueuesStay DEF TypeInv, QueueInv, nasVars, coreVars
<1>4. DeviceTypes'
  BY <1>1 DEF TypeInv, TypeOK, DeviceTypes
<1>5. TypeOK'
  BY <1>1, <1>3, <1>4, QueueTypes
  DEF TypeInv, TypeOK, RadioTypes, NasTypes, CellTypes, AppTypes, CoreTypes, RunTypes,
      nasVars, cellVars, appVars, coreVars
<1>6. LinkInv'
  <2>1. rrc'[d] = "IDLE" /\ drbs'[d] = drbs[d]
    BY <1>1 DEF TypeInv, TypeOK, DeviceTypes
  <2>2. Linked(d)'
    BY <1>1, <2>1 DEF Linked, TypeInv, LinkInv
  <2> QED BY <1>1, <1>2, <2>2, LinkStep, SameSets DEF TypeInv, TypeOK, DeviceTypes
<1>7. OwnInv'
  BY <1>1, <1>2, SameSets, OwnStays DEF appVars
<1> QED BY <1>2, <1>3, <1>5, <1>6, <1>7 DEF TypeInv

LEMMA RemoveUeTypes ==
    ASSUME TypeInv, NEW b \in Stations, NEW r \in Rntis, RemoveUe(b, r)
    PROVE  TypeInv'
<1> DEFINE u == [ueMap[b][r] EXCEPT !.state = "NONE"]
<1> USE Topology
<1>1. /\ ueMap' = [ueMap EXCEPT ![b][r] = u]
      /\ teidRbid' = [teidRbid EXCEPT ![b] =
                        [t \in Teids |-> IF t \in ReleasedTeids(b, r) THEN NoRbid ELSE @[t]]]
      /\ rbidTeid' = [rbidTeid EXCEPT ![b][r] = NoTeids]
      /\ UNCHANGED <<ueVars, nasVars, srbVars, ulq, dlq, losses, lastRnti,
                     imsiRnti, rntiLocalImsi, imsiIab, teidRemote, imsiLocalRbid,
                     children, remoteImsi, coreVars, dataSent, fatal>>
  BY DEF RemoveUe
<1>2. u \in UeManager /\ u.ue = ueMap[b][r].ue /\ u.state = "NONE"
  <2>1. ueMap[b][r] \in UeManager
    BY DEF TypeInv, TypeOK, CellTypes
  <2> QED BY <2>1 DEF UeManager, UeManagerState
<1> HIDE DEF u
<1>3. SameUes /\ CellTypes' /\ UeMapInv'
  BY <1>1, <1>2, ReplaceUe DEF coreVars
<1>4. QueueInv'
  BY <1>1, <1>3, QueuesStay DEF TypeInv, QueueInv, srbVars, nasVars, coreVars
<1>5. AppTypes'
  <2>1. rbidTeid' \in [Stations -> [Rntis -> [Bids -> Teids \cup {0}]]]
    <3>1. NoTeids \in [Bids -> Teids \cup {0}]
      BY DEF NoTeids
    <3> QED BY <1>1, <3>1, UpdateTwice DEF TypeInv, TypeOK, AppTypes
  <2>2. teidRbid' \in [Stations -> [Teids -> Rbid]]
    BY <1>1 DEF TypeInv, TypeOK, AppTypes, Rbid
  <2> QED BY <1>1, <2>1, <2>2 DEF TypeInv, TypeOK, AppTypes
<1>6. LinkInv' /\ SessionInv'
  BY <1>1, <1>3, SameSets, SameLinks DEF TypeInv, SessionInv, ueVars, coreVars
<1>7. TypeOK'
  BY <1>1, <1>3, <1>4, <1>5, QueueTypes
  DEF TypeInv, TypeOK, DeviceTypes, RadioTypes, NasTypes, CoreTypes, RunTypes,
      ueVars, nasVars, coreVars
<1>8. OwnInv'
  BY <1>1, <1>3, SameSets, OwnStays
<1> QED BY <1>3, <1>4, <1>6, <1>7, <1>8 DEF TypeInv

(***************************************************************************)
(* Sending upwards.                                                        *)
(***************************************************************************)

SentUp ==
    /\ ulq' \in UplinkQueues /\ nasBuffer' \in NasBuffers
    /\ nas' = nas /\ lostS1ap' \subseteq Devices

LEMMA NasSendTypes ==
    ASSUME TypeInv, NEW d \in Devices, NEW k \in Bids, NEW p \in UplinkPacketOf(d),
           NEW q \in UplinkQueues, NasSend(d, p, k, q)
    PROVE  SentUp
<1>1. CASE nas[d] = "OFF" /\ nasBuffer' = [nasBuffer EXCEPT ![d] = Append(@, p)]
           /\ ulq' = q /\ UNCHANGED <<nas, lostS1ap>>
  BY <1>1, NasStep DEF TypeInv, TypeOK, NasTypes, QueueInv, SentUp
<1>2. CASE k <= drbs[d] /\ ulq' = [q EXCEPT ![d] = Append(@, Frame(rnti[d], k, p))]
           /\ UNCHANGED nasVars
  <2>1. k \in Nat \ {0} /\ drbs[d] \in Nat
    BY Topology DEF Bids, TypeInv, TypeOK, DeviceTypes
  <2>2. rnti[d] \in Rntis /\ UeOf(Parent[d], rnti[d]) = d
    BY <1>2, <2>1 DEF TypeInv, LinkInv, Linked
  <2>3. Frame(rnti[d], k, p) \in UplinkFrameOf(d)
    BY <2>2, FrameUp
  <2>4. ulq' \in UplinkQueues
    BY <1>2, <2>3, UplinkStep
  <2> QED BY <1>2, <2>4 DEF TypeInv, TypeOK, NasTypes, QueueInv, nasVars, SentUp
<1>3. CASE ulq' = q /\ UNCHANGED <<nas, nasBuffer>>
           /\ lostS1ap' = IF p.type = "InitialUeMessage"
                          THEN lostS1ap \cup {p.imsi} ELSE lostS1ap
  <2>1. p.type = "InitialUeMessage" => p.imsi \in Devices
    BY DEF UplinkPacketOf, UplinkPacket, InitialUeMessage, DataPacket
  <2> QED BY <1>3, <2>1 DEF TypeInv, TypeOK, NasTypes, QueueInv, SentUp
<1> QED BY <1>1, <1>2, <1>3 DEF NasSend, nasVars

LEMMA SendS1apTypes ==
    ASSUME TypeInv, NEW b \in Stations, NEW m \in InitialUeMessage,
           b \in Iab => m.imsi \in Below[b], NEW q \in UplinkQueues, SendS1ap(b, m, q)
    PROVE  SentUp /\ s1Up' \in [Wired -> Seq(InitialUeMessage)]
<1>1. s1Up \in [Wired -> Seq(InitialUeMessage)]
  BY DEF TypeInv, TypeOK, CoreTypes
<1>2. CASE b \in Wired /\ s1Up' = [s1Up EXCEPT ![b] = Append(@, m)]
           /\ ulq' = q /\ UNCHANGED nasVars
  BY <1>1, <1>2 DEF TypeInv, TypeOK, NasTypes, QueueInv, nasVars, SentUp
<1>3. CASE b \in Iab /\ NasSend(b, m, 1, q) /\ UNCHANGED s1Up
  <2>1. m \in UplinkPacketOf(b) /\ 1 \in Bids /\ b \in Devices
    BY <1>3, Topology DEF UplinkPacketOf, UplinkPacket, Bids
  <2> QED BY <1>1, <1>3, <2>1, NasSendTypes
<1> QED BY <1>2, <1>3 DEF SendS1ap

LEMMA SendDataUpTypes ==
    ASSUME TypeInv, NEW b \in Stations, NEW p, b \in Iab => p \in UplinkPacketOf(b),
           NEW q \in UplinkQueues, SendDataUp(b, p, q)
    PROVE  SentUp
<1>1. CASE b \in Wired /\ ulq' = q /\ UNCHANGED nasVars
  BY <1>1 DEF TypeInv, TypeOK, NasTypes, QueueInv, nasVars, SentUp
<1>2. CASE b \in Iab /\ NasSend(b, p, 1, q)
  <2>1. p \in UplinkPacketOf(b) /\ 1 \in Bids /\ b \in Devices
    BY <1>2, Topology DEF Bids
  <2> QED BY <1>2, <2>1, NasSendTypes
<1> QED BY <1>1, <1>2 DEF SendDataUp

\* A step that only moves packets keeps every part of the invariant but the queues.
LEMMA PacketStep ==
    ASSUME TypeInv, UNCHANGED <<ueVars, srbVars, cellVars, rntiLocalImsi, session, enbAddr>>,
           ulq' \in UplinkQueues, nasBuffer' \in NasBuffers, nas' = nas,
           lostS1ap' \subseteq Devices, dlq' \in DownlinkQueues, s1Down' \in Requests,
           losses' \in Nat, AppTypes', CoreTypes', RunTypes',
           OwnInv' \/ UNCHANGED <<imsiRnti, remoteImsi>>
    PROVE  TypeInv'
<1>1. SameUes /\ UeMapInv' /\ SessionInv'
  BY SameCells
<1>2. QueueInv'
  BY <1>1, QueuesStay DEF TypeInv, QueueInv, srbVars
<1>3. LinkInv'
  BY <1>1, SameSets, SameLinks DEF ueVars
<1>4. TypeOK'
  BY <1>2, QueueTypes
  DEF TypeInv, TypeOK, DeviceTypes, NasTypes, CellTypes, ueVars, cellVars
<1>5. OwnInv'
  BY <1>1, SameSets, OwnStays
<1> QED BY <1>1, <1>2, <1>3, <1>4, <1>5 DEF TypeInv

LEMMA RecvConnectionRequestTypes ==
    ASSUME TypeInv, NEW d \in Devices, RecvConnectionRequest(d)
    PROVE  TypeInv'
<1> DEFINE b == Parent[d]
           r == Head(srbUl[d]).rnti
           m == [type |-> "InitialUeMessage", imsi |-> d, gci |-> b, parents |-> AddParent(b)]
           e == Rrc("ConnectionSetup", r, 0)
           u == [ueMap[b][r] EXCEPT !.state = "CONNECTION_SETUP"]
<1> USE Topology
<1>1. /\ srbUl[d] # <<>>
      /\ srbUl' = [srbUl EXCEPT ![d] = Tail(@)]
      /\ imsiRnti' = [imsiRnti EXCEPT ![b][d] = r]
      /\ rntiLocalImsi' = [rntiLocalImsi EXCEPT ![b][r] = d]
      /\ SendS1ap(b, m, ulq)
      /\ srbDl' = [srbDl EXCEPT ![d] = Append(@, e)]
      /\ ueMap' = [ueMap EXCEPT ![b][r] = u]
      /\ UNCHANGED <<ueVars, dlq, losses, lastRnti, imsiIab, rbidTeid,
                     teidRbid, teidRemote, imsiLocalRbid, children, remoteImsi,
                     mmeCell, session, enbAddr, s1Down, s1uDown, dataSent, fatal>>
  BY DEF RecvConnectionRequest
<1>2. b \in Stations /\ r \in Rntis /\ UeOf(b, r) = d /\ ueMap[b][r] \in UeManager
  BY <1>1, HeadRnti
<1>3. u \in UeManager /\ u.ue = ueMap[b][r].ue /\ u.ue # None
  <2> DEFINE v == ueMap[b][r]
  <2>1. v \in UeManager /\ v.ue = d
    BY <1>2 DEF UeOf
  <2>2. u = [v EXCEPT !.state = "CONNECTION_SETUP"]
    OBVIOUS
  <2> HIDE DEF v, u
  <2>3. u.ue = v.ue /\ u \in UeManager
    BY <2>1, <2>2 DEF UeManager, UeManagerState
  <2> QED BY <2>1, <2>3 DEF v
<1>4. m \in InitialUeMessage /\ m.imsi = d
  BY <1>2 DEF InitialUeMessage, AddParent
<1>5. d \in Below[b]
  BY <1>2, TopologyAssumption DEF Stations, Devices
<1>6. e \in RrcOf(d)
  BY <1>2 DEF RrcOf, Rrc, RrcMessage
<1> HIDE DEF u, m, e
<1>7. SentUp /\ s1Up' \in [Wired -> Seq(InitialUeMessage)]
  BY <1>1, <1>2, <1>4, <1>5, SendS1apTypes DEF TypeInv, QueueInv
<1>8. SameUes /\ CellTypes'
  BY <1>1, <1>2, <1>3, ReplaceUe
<1>9. QueueInv'
  <2>1. srbUl' \in Srbs /\ srbDl' \in Srbs
    BY <1>1, <1>6, SrbStep DEF TypeInv, QueueInv
  <2> QED BY <1>1, <1>7, <1>8, <2>1, QueuesStay DEF TypeInv, QueueInv, SentUp
<1>10. LinkInv' /\ SessionInv'
  BY <1>1, <1>8, SameSets, SameLinks DEF TypeInv, SessionInv, ueVars
<1>11. /\ rntiLocalImsi' \in [Stations -> [Rntis -> Devices \cup {None}]]
       /\ \A x \in Stations, y \in Rntis :
             rntiLocalImsi'[x][y] = IF x = b /\ y = r THEN d ELSE rntiLocalImsi[x][y]
  BY <1>1, <1>2, UpdateTwice DEF TypeInv, TypeOK, AppTypes
<1>12. UeMapInv'
  <2> SUFFICES ASSUME NEW x \in Stations, NEW y \in Rntis PROVE UeKnown(x, y)'
    BY DEF UeMapInv
  <2>1. UeKnown(x, y)
    BY DEF TypeInv, UeMapInv
  <2>2. ueMap'[x][y] = IF x = b /\ y = r THEN u ELSE ueMap[x][y]
    <3>1. ueMap \in [Stations -> [Rntis -> UeManager]]
      BY DEF TypeInv, TypeOK, CellTypes
    <3>2. ueMap' = [ueMap EXCEPT ![b][r] = u]
      BY <1>1
    <3> HIDE DEF b, r
    <3> QED BY <1>2, <1>3, <3>1, <3>2, UpdateTwice
  <2>3. /\ ueMap'[x][y].ue = ueMap[x][y].ue
        /\ ueMap'[x][y].state # "NONE" => ueMap[x][y].ue # None
    BY <1>3, <2>1, <2>2 DEF UeKnown, UeOf
  <2>4. rntiLocalImsi'[x][y] \in {None, ueMap[x][y].ue}
    BY <1>2, <1>11, <2>1 DEF UeKnown, UeOf
  <2>5. lastRnti' = lastRnti
    BY <1>1
  <2> HIDE DEF b, r
  <2> QED BY <2>1, <2>3, <2>4, <2>5 DEF UeKnown, UeOf
<1>13. AppTypes'
  <2>1. imsiRnti' \in [Stations -> [Devices -> Rntis \cup {0}]]
    BY <1>1, <1>2, UpdateTwice DEF TypeInv, TypeOK, AppTypes
  <2> QED BY <1>1, <1>11, <2>1 DEF TypeInv, TypeOK, AppTypes
<1>14. TypeOK'
  BY <1>1, <1>7, <1>8, <1>9, <1>13, QueueTypes
  DEF TypeInv, TypeOK, DeviceTypes, NasTypes, RadioTypes, CoreTypes, RunTypes, SentUp, ueVars
<1>15. OwnInv'
  <2> SUFFICES ASSUME NEW x \in Stations, NEW y \in Devices,
                      y \notin remoteImsi[x], imsiRnti'[x][y] # 0
               PROVE  ueMap'[x][imsiRnti'[x][y]].ue = y
    BY <1>1 DEF OwnInv, UeOf
  <2>1. imsiRnti'[x][y] = IF x = b /\ y = d THEN r ELSE imsiRnti[x][y]
    <3>1. imsiRnti \in [Stations -> [Devices -> Rntis \cup {0}]]
      BY DEF TypeInv, TypeOK, AppTypes
    <3>2. r \in Rntis \cup {0}
      BY <1>2
    <3> HIDE DEF b, r
    <3> QED BY <1>1, <1>2, <3>1, <3>2, UpdateTwice
  <2> DEFINE s == imsiRnti'[x][y]
  <2>2. s \in Rntis /\ UeOf(x, s) = y
    <3>1. CASE x = b /\ y = d
      BY <1>2, <2>1, <3>1
    <3>2. CASE ~(x = b /\ y = d)
      BY <2>1, <3>2 DEF TypeInv, TypeOK, AppTypes, OwnInv
    <3> QED BY <3>1, <3>2
  <2> HIDE DEF s
  <2>3. ueMap'[x][s].ue = y
    BY <1>8, <2>2 DEF SameUes, UeOf
  <2> QED BY <2>3 DEF s
<1> QED BY <1>9, <1>10, <1>12, <1>14, <1>15 DEF TypeInv

\* An IAB node and its cell agree on who is behind it.
LEMMA BelowClosed ==
    ASSUME NEW d \in Devices, d \in Iab, NEW x \in Below[d]
    PROVE  x \in Devices /\ x \in Below[Parent[d]]
BY Topology, TopologyAssumption

LEMMA HeadUplink ==
    ASSUME TypeInv, NEW d \in Devices, ulq[d] # <<>>
    PROVE  /\ Head(ulq[d]) \in UplinkFrameOf(d)
           /\ [ulq EXCEPT ![d] = Tail(@)] \in UplinkQueues
           /\ Parent[d] \in Stations
           /\ Head(ulq[d]).rnti \in Rntis /\ Head(ulq[d]).bid \in Bids
           /\ Head(ulq[d]).pkt \in UplinkPacketOf(d)
<1>1. Head(ulq[d]) \in UplinkFrameOf(d) /\ [ulq EXCEPT ![d] = Tail(@)] \in UplinkQueues
  BY UplinkStep DEF TypeInv, QueueInv
<1> QED BY <1>1, Topology DEF UplinkFrameOf, UplinkFrame

LEMMA RelayInitialUeMessageTypes ==
    ASSUME TypeInv, NEW d \in Devices, RelayInitialUeMessage(d)
    PROVE  TypeInv'
<1> DEFINE b == Parent[d]
           f == Head(ulq[d])
           m == f.pkt
           m2 == [m EXCEPT !.parents = @ \cup AddParent(b)]
           q == [ulq EXCEPT ![d] = Tail(@)]
           rb == [rnti |-> f.rnti, bid |-> f.bid]
<1> USE Topology
<1>1. /\ ulq[d] # <<>> /\ m.type = "InitialUeMessage"
      /\ children' = [children EXCEPT ![b][f.rnti] = @ \cup NodesBehind(b, m)]
      /\ imsiRnti' = [imsiRnti EXCEPT ![b][m.imsi] = f.rnti]
      /\ imsiLocalRbid' = [imsiLocalRbid EXCEPT ![b][m.imsi] = rb]
      /\ remoteImsi' = [remoteImsi EXCEPT ![b] = @ \cup {m.imsi}]
      /\ SendS1ap(b, m2, q)
      /\ UNCHANGED <<ueVars, srbVars, dlq, losses, cellVars, rntiLocalImsi, imsiIab,
                     rbidTeid, teidRbid, teidRemote, mmeCell, session, enbAddr,
                     s1Down, s1uDown, dataSent, fatal>>
  BY DEF RelayInitialUeMessage
<1>2. /\ b \in Stations /\ f.rnti \in Rntis /\ f.bid \in Bids
      /\ m \in UplinkPacketOf(d) /\ q \in UplinkQueues
  BY <1>1, HeadUplink
<1>3. m \in InitialUeMessage /\ d \in Iab /\ m.imsi \in Below[d]
  BY <1>1, <1>2 DEF UplinkPacketOf, UplinkPacket, DataPacket
<1>4. m.imsi \in Devices /\ m.imsi \in Below[b]
  BY <1>3, BelowClosed
<1> HIDE DEF m, f, q
<1>5. m2 \in InitialUeMessage /\ m2.imsi = m.imsi
  BY <1>3 DEF InitialUeMessage, AddParent
<1>6. rb \in Rbid
  BY <1>2 DEF Rbid
<1> HIDE DEF m2, rb
<1>7. SentUp /\ s1Up' \in [Wired -> Seq(InitialUeMessage)]
  BY <1>1, <1>2, <1>4, <1>5, SendS1apTypes
<1>8. AppTypes'
  <2>1. imsiRnti' \in [Stations -> [Devices -> Rntis \cup {0}]]
    BY <1>1, <1>2, <1>4, UpdateTwice DEF TypeInv, TypeOK, AppTypes
  <2>2. imsiLocalRbid' \in [Stations -> [Devices -> Rbid]]
    BY <1>1, <1>2, <1>4, <1>6, UpdateTwice DEF TypeInv, TypeOK, AppTypes
  <2>3. children' \in [Stations -> [Rntis -> SUBSET Iab]]
    <3>1. m.parents \in SUBSET Iab
      BY <1>3 DEF InitialUeMessage
    <3>2. children[b][f.rnti] \cup m.parents \in SUBSET Iab
      BY <1>2, <3>1 DEF TypeInv, TypeOK, AppTypes
    <3>3. children' = [children EXCEPT ![b][f.rnti] = children[b][f.rnti] \cup m.parents]
      BY <1>1 DEF NodesBehind
    <3> QED BY <1>2, <3>2, <3>3, UpdateTwice DEF TypeInv, TypeOK, AppTypes
  <2>4. remoteImsi' \in [Stations -> SUBSET Devices]
    BY <1>1, <1>2, <1>4 DEF TypeInv, TypeOK, AppTypes
  <2> QED BY <1>1, <2>1, <2>2, <2>3, <2>4 DEF TypeInv, TypeOK, AppTypes
<1>9. CoreTypes' /\ RunTypes' /\ dlq' \in DownlinkQueues /\ s1Down' \in Requests /\ losses' \in Nat
  BY <1>1, <1>7 DEF TypeInv, TypeOK, QueueInv, CoreTypes, RunTypes, RadioTypes
<1>10. OwnInv'
  <2> SUFFICES ASSUME NEW x \in Stations, NEW y \in Devices,
                      y \notin remoteImsi'[x], imsiRnti'[x][y] # 0
               PROVE  ueMap[x][imsiRnti'[x][y]].ue = y
    BY <1>1 DEF OwnInv, UeOf, cellVars
  <2>1. y \notin remoteImsi[x] /\ ~(x = b /\ y = m.imsi)
    BY <1>1, <1>2 DEF TypeInv, TypeOK, AppTypes
  <2>2. imsiRnti'[x][y] = imsiRnti[x][y]
    BY <1>1, <1>2, <1>4, <2>1, UpdateTwice DEF TypeInv, TypeOK, AppTypes
  <2> QED BY <2>1, <2>2 DEF TypeInv, OwnInv, UeOf
<1> QED BY <1>1, <1>7, <1>8, <1>9, <1>10, PacketStep DEF SentUp

LEMMA RelayDataTypes ==
    ASSUME TypeInv, NEW d \in Devices, RelayData(d)
    PROVE  TypeInv'
<1> DEFINE p == Head(ulq[d]).pkt
           q == [ulq EXCEPT ![d] = Tail(@)]
<1>1. /\ ulq[d] # <<>> /\ p.type = "Data" /\ SendDataUp(Parent[d], p, q)
      /\ UNCHANGED <<ueVars, srbVars, dlq, losses, cellVars, appVars, coreVars,
                     dataSent, fatal>>
  BY DEF RelayData
<1>2. Parent[d] \in Stations /\ p \in UplinkPacketOf(d) /\ q \in UplinkQueues
  BY <1>1, HeadUplink
<1>3. p \in DataPacket /\ \A b \in Iab : p \in UplinkPacketOf(b)
  BY <1>1, <1>2 DEF UplinkPacketOf, UplinkPacket, InitialUeMessage, DataPacket
<1> HIDE DEF p, q
<1>4. SentUp
  BY <1>1, <1>2, <1>3, SendDataUpTypes
<1>5. /\ AppTypes' /\ CoreTypes' /\ RunTypes'
      /\ dlq' \in DownlinkQueues /\ s1Down' \in Requests /\ losses' \in Nat
  BY <1>1
  DEF TypeInv, TypeOK, QueueInv, AppTypes, CoreTypes, RunTypes, RadioTypes, appVars, coreVars
<1> QED BY <1>1, <1>4, <1>5, PacketStep DEF SentUp, appVars, coreVars

\* A packet of another kind has no TEID to set.
LEMMA Retunnelled ==
    ASSUME NEW d \in Devices, NEW p \in UplinkPacketOf(d), NEW t \in Teids \cup {0},
           Parent[d] \in Iab
    PROVE  [p EXCEPT !.teid = t] \in UplinkPacketOf(Parent[d])
<1>1. CASE p \in DataPacket
  <2>1. [p EXCEPT !.teid = t] \in DataPacket
    BY <1>1 DEF DataPacket
  <2> QED BY <2>1 DEF UplinkPacketOf, UplinkPacket, DataPacket
<1>2. CASE p \in InitialUeMessage
  <2>1. [p EXCEPT !.teid = t] = p
    BY <1>2 DEF InitialUeMessage
  <2>2. d \in Iab /\ p.imsi \in Below[d]
    BY <1>2 DEF UplinkPacketOf, InitialUeMessage
  <2>3. p.imsi \in Below[Parent[d]]
    BY <2>2, BelowClosed
  <2> QED BY <1>2, <2>1, <2>2, <2>3 DEF UplinkPacketOf
<1> QED BY <1>1, <1>2 DEF UplinkPacketOf, UplinkPacket

LEMMA RecvUeDataTypes ==
    ASSUME TypeInv, NEW d \in Devices, RecvUeData(d)
    PROVE  TypeInv'
<1> DEFINE b == Parent[d]
           f == Head(ulq[d])
           q == [ulq EXCEPT ![d] = Tail(@)]
           t == TunnelOf(b, f)
           p == [f.pkt EXCEPT !.teid = t]
<1> USE Topology
<1>1. /\ ulq[d] # <<>>
      /\ \/ t # 0 /\ SenderKind(b, f) = "ue" /\ SendDataUp(b, p, q) /\ UNCHANGED fatal
         \/ ulq' = q /\ fatal' \in {"no", "unknown context"} /\ UNCHANGED nasVars
      /\ UNCHANGED <<ueVars, srbVars, dlq, losses, cellVars, appVars, coreVars, dataSent>>
  BY DEF RecvUeData
<1>2. /\ b \in Stations /\ f.rnti \in Rntis /\ f.bid \in Bids
      /\ f.pkt \in UplinkPacketOf(d) /\ q \in UplinkQueues
  BY <1>1, HeadUplink
<1> HIDE DEF f, q
<1>3. t \in Teids \cup {0}
  BY <1>2 DEF TunnelOf, TypeInv, TypeOK, AppTypes
<1> HIDE DEF t
<1>4. SentUp
  <2>1. CASE ulq' = q /\ UNCHANGED nasVars
    BY <1>2, <2>1 DEF TypeInv, TypeOK, NasTypes, QueueInv, nasVars, SentUp
  <2>2. CASE SendDataUp(b, p, q)
    <3>1. b \in Iab => p \in UplinkPacketOf(b)
      BY <1>2, <1>3, Retunnelled
    <3> HIDE DEF p
    <3> QED BY <1>2, <2>2, <3>1, SendDataUpTypes
  <2> QED BY <1>1, <2>1, <2>2
<1>5. /\ AppTypes' /\ CoreTypes' /\ RunTypes'
      /\ dlq' \in DownlinkQueues /\ s1Down' \in Requests /\ losses' \in Nat
  BY <1>1
  DEF TypeInv, TypeOK, QueueInv, AppTypes, CoreTypes, RunTypes, RadioTypes, appVars, coreVars, Aborts
<1> QED BY <1>1, <1>4, <1>5, PacketStep DEF SentUp, appVars, coreVars

LEMMA UeSendTypes ==
    ASSUME TypeInv, NEW u \in Ue, NEW k \in Bids, UeSend(u, k)
    PROVE  TypeInv'
<1> DEFINE p == [type |-> "Data", ue |-> u, bid |-> k, teid |-> 0]
<1>1. /\ dataSent' = [dataSent EXCEPT ![u] = @ + 1]
      /\ NasSend(u, p, k, ulq)
      /\ UNCHANGED <<ueVars, srbVars, dlq, losses, cellVars, appVars, coreVars, fatal>>
  BY DEF UeSend
<1>2. p \in UplinkPacketOf(u) /\ u \in Devices /\ ulq \in UplinkQueues
  BY Topology DEF UplinkPacketOf, UplinkPacket, DataPacket, TypeInv, QueueInv
<1> HIDE DEF p
<1>3. SentUp
  BY <1>1, <1>2, NasSendTypes
<1>4. /\ AppTypes' /\ CoreTypes' /\ RunTypes'
      /\ dlq' \in DownlinkQueues /\ s1Down' \in Requests /\ losses' \in Nat
  BY <1>1
  DEF TypeInv, TypeOK, QueueInv, AppTypes, CoreTypes, RunTypes, RadioTypes, appVars, coreVars
<1> QED BY <1>1, <1>3, <1>4, PacketStep DEF SentUp, appVars, coreVars

LEMMA LoseUplinkTypes ==
    ASSUME TypeInv, NEW d \in Devices, LoseUplink(d)
    PROVE  TypeInv'
<1>1. /\ ulq[d] # <<>> /\ ulq' = [ulq EXCEPT ![d] = Tail(@)] /\ losses' = losses + 1
      /\ UNCHANGED <<ueVars, nasVars, srbVars, dlq, cellVars, appVars, coreVars,
                     dataSent, fatal>>
  BY DEF LoseUplink
<1>2. ulq' \in UplinkQueues
  BY <1>1, HeadUplink
<1>3. /\ AppTypes' /\ CoreTypes' /\ RunTypes' /\ nas' = nas /\ lostS1ap' \subseteq Devices
      /\ nasBuffer' \in NasBuffers /\ dlq' \in DownlinkQueues /\ s1Down' \in Requests
      /\ losses' \in Nat
  BY <1>1
  DEF TypeInv, TypeOK, QueueInv, AppTypes, CoreTypes, RunTypes, RadioTypes, NasTypes,
      nasVars, appVars, coreVars
<1> QED BY <1>1, <1>2, <1>3, PacketStep DEF appVars, coreVars

(***************************************************************************)
(* Downlink.                                                               *)
(***************************************************************************)

\* What an action leaves alone when only the downlink queues move.
LEMMA DownlinkStepTypes ==
    ASSUME TypeInv, dlq' \in DownlinkQueues, losses' \in Nat, RunTypes',
           s1uDown' \in [Wired -> Seq(DataPacket)],
           UNCHANGED <<ueVars, nasVars, srbVars, ulq, cellVars, appVars,
                       mmeCell, session, enbAddr, s1Up, s1Down>>
    PROVE  TypeInv'
<1>1. /\ AppTypes' /\ CoreTypes' /\ nas' = nas /\ lostS1ap' \subseteq Devices
      /\ nasBuffer' \in NasBuffers /\ ulq' \in UplinkQueues /\ s1Down' \in Requests
  BY DEF TypeInv, TypeOK, QueueInv, AppTypes, CoreTypes, NasTypes, nasVars, appVars
<1> QED BY <1>1, PacketStep DEF appVars

LEMMA HeadDownlink ==
    ASSUME TypeInv, NEW d \in Devices, dlq[d] # <<>>
    PROVE  Head(dlq[d]) \in RequestFrame /\ [dlq EXCEPT ![d] = Tail(@)] \in DownlinkQueues
BY DownlinkQueueStep DEF TypeInv, QueueInv

LEMMA TakenDownlinkTypes ==
    ASSUME TypeInv, NEW d \in Devices,
           DropDownlink(d) \/ DeliverToUe(d) \/ LoseDownlink(d)
    PROVE  TypeInv'
<1>1. /\ dlq[d] # <<>> /\ dlq' = [dlq EXCEPT ![d] = Tail(@)]
      /\ losses' = losses \/ losses' = losses + 1
      /\ UNCHANGED <<ueVars, nasVars, srbVars, ulq, cellVars, appVars, coreVars,
                     dataSent, fatal>>
  BY DEF DropDownlink, DeliverToUe, LoseDownlink, Downlink
<1>2. dlq' \in DownlinkQueues
  BY <1>1, HeadDownlink
<1>3. losses' \in Nat /\ RunTypes' /\ s1uDown' \in [Wired -> Seq(DataPacket)]
  BY <1>1 DEF TypeInv, TypeOK, RadioTypes, RunTypes, CoreTypes, coreVars
<1> QED BY <1>1, <1>2, <1>3, DownlinkStepTypes DEF coreVars

\* A cell sends a packet to the device an RNTI of its own belongs to.
LEMMA SendToLteSocketTypes ==
    ASSUME TypeInv, NEW b \in Stations, NEW rb \in Rbid, NEW p \in Request \cup DataPacket,
           NEW q \in DownlinkQueues
    PROVE  SendToLteSocket(b, rb, p, q) \in DownlinkQueues
<1> DEFINE u == ueMap[b][rb.rnti]
           e == Frame(rb.rnti, rb.bid, p)
<1>1. CASE SendToLteSocket(b, rb, p, q) = q
  BY <1>1
<1>2. CASE /\ u.state \in {"CONNECTED_NORMALLY", "CONNECTION_RECONFIGURATION"}
           /\ rb.bid \in 1 .. u.drbs
           /\ SendToLteSocket(b, rb, p, q) = [q EXCEPT ![u.ue] = Append(@, e)]
  <2>1. rb.rnti \in Rntis /\ rb.bid \in Bids
    <3>1. rb # NoRbid
      BY <1>2 DEF NoRbid
    <3> QED BY <3>1 DEF Rbid
  <2>2. u \in UeManager /\ UeKnown(b, rb.rnti)
    BY <2>1 DEF TypeInv, TypeOK, CellTypes, UeMapInv
  <2>3. u.ue \in Devices
    <3>1. u.ue # None
      BY <1>2, <2>2 DEF UeKnown, UeOf
    <3>2. u.ue \in Devices \cup {None}
      <4> HIDE DEF u
      <4> QED BY <2>2 DEF UeManager
    <3> QED BY <3>1, <3>2
  <2>4. e \in RequestFrame
    BY <2>1 DEF Frame, RequestFrame
  <2>5. [q EXCEPT ![u.ue] = Append(@, e)] \in DownlinkQueues
    <3> HIDE DEF u, e
    <3> QED BY <2>3, <2>4, DownlinkQueueStep
  <2> QED BY <1>2, <2>5
<1> QED BY <1>1, <1>2 DEF SendToLteSocket

LEMMA ForwardDownTypes ==
    ASSUME TypeInv, NEW b \in Stations, NEW p \in DataPacket, NEW q \in DownlinkQueues,
           ForwardDown(b, p, q)
    PROVE  dlq' \in DownlinkQueues /\ fatal' \in Aborts \cup {"no"}
<1>1. fatal' \in Aborts \cup {"no"}
  BY DEF ForwardDown, TypeInv, TypeOK, RunTypes, Aborts
<1>2. CASE dlq' = q
  BY <1>1, <1>2
<1>3. CASE /\ p.teid \in Teids /\ teidRbid[b][p.teid] # NoRbid
           /\ dlq' = SendToLteSocket(b, teidRbid[b][p.teid],
                                     [p EXCEPT !.teid = HeaderTeid(b, p.teid)], q)
  <2>1. [p EXCEPT !.teid = HeaderTeid(b, p.teid)] \in DataPacket
    BY <1>3 DEF DataPacket, HeaderTeid
  <2>2. teidRbid[b][p.teid] \in Rbid
    BY <1>3 DEF TypeInv, TypeOK, AppTypes
  <2> HIDE DEF SendToLteSocket
  <2> QED BY <1>1, <1>3, <2>1, <2>2, SendToLteSocketTypes
<1> QED BY <1>2, <1>3 DEF ForwardDown, RecvFromS1uSocket

LEMMA IabRecvDataTypes ==
    ASSUME TypeInv, NEW i \in Iab, IabRecvData(i)
    PROVE  TypeInv'
<1> DEFINE p == Head(dlq[i]).pkt
           q == [dlq EXCEPT ![i] = Tail(@)]
<1>1. /\ dlq[i] # <<>> /\ p.type = "Data" /\ ForwardDown(i, p, q)
      /\ UNCHANGED <<ueVars, nasVars, srbVars, ulq, losses, cellVars, appVars,
                     coreVars, dataSent>>
  BY DEF IabRecvData
<1>2. i \in Stations /\ i \in Devices
  BY Topology
<1>3. p \in DataPacket /\ q \in DownlinkQueues
  <2>1. Head(dlq[i]) \in RequestFrame /\ q \in DownlinkQueues
    BY <1>1, <1>2, HeadDownlink
  <2> QED BY <1>1, <2>1 DEF RequestFrame, Request, InitialContextSetupRequest
<1> HIDE DEF p, q
<1>4. dlq' \in DownlinkQueues /\ fatal' \in Aborts \cup {"no"}
  BY <1>1, <1>2, <1>3, ForwardDownTypes
<1>5. losses' \in Nat /\ RunTypes' /\ s1uDown' \in [Wired -> Seq(DataPacket)]
  BY <1>1, <1>4 DEF TypeInv, TypeOK, RadioTypes, RunTypes, CoreTypes, coreVars
<1> QED BY <1>1, <1>4, <1>5, DownlinkStepTypes DEF coreVars

LEMMA WiredRecvDataTypes ==
    ASSUME TypeInv, NEW w \in Wired, WiredRecvData(w)
    PROVE  TypeInv'
<1> DEFINE p == Head(s1uDown[w])
<1>1. /\ s1uDown[w] # <<>> /\ s1uDown' = [s1uDown EXCEPT ![w] = Tail(@)]
      /\ ForwardDown(w, p, dlq)
      /\ UNCHANGED <<ueVars, nasVars, srbVars, ulq, losses, cellVars, appVars,
                     mmeCell, session, enbAddr, s1Up, s1Down, dataSent>>
  BY DEF WiredRecvData
<1>2. s1uDown \in [Wired -> Seq(DataPacket)] /\ w \in Stations
  BY Topology DEF TypeInv, TypeOK, CoreTypes
<1>3. p \in DataPacket /\ s1uDown' \in [Wired -> Seq(DataPacket)]
  BY <1>1, <1>2, TakeQueue
<1> HIDE DEF p
<1>4. dlq' \in DownlinkQueues /\ fatal' \in Aborts \cup {"no"}
  BY <1>1, <1>2, <1>3, ForwardDownTypes DEF TypeInv, QueueInv
<1>5. losses' \in Nat /\ RunTypes'
  BY <1>1, <1>4 DEF TypeInv, TypeOK, RadioTypes, RunTypes
<1> QED BY <1>1, <1>3, <1>4, <1>5, DownlinkStepTypes

(***************************************************************************)
(* Context setup.                                                          *)
(***************************************************************************)

LEMMA RequestBearers ==
    ASSUME TypeInv, NEW m \in Request
    PROVE  /\ m.imsi \in Devices /\ m.iab \in BOOLEAN /\ m \in InitialContextSetupRequest
           /\ Cardinality(m.erabs) \in Bids
           /\ \A k \in BidsOf(m) : k \in Bids /\ TeidFor(m, k) \in Teids
           /\ \A t \in TeidsOf(m) : t \in Teids /\ BidOf(m, t) \in Bids
<1> USE Topology
<1>1. m \in InitialContextSetupRequest /\ m.erabs \subseteq Bids \X Teids
  BY DEF Request, InitialContextSetupRequest
<1>2. m.imsi \in Devices /\ m.iab \in BOOLEAN
  BY <1>1 DEF InitialContextSetupRequest
<1>3. Cardinality(m.erabs) \in Bids
  <2>1. PICK first \in 0 .. Len(session) : Granted(m, first)
    BY DEF Request
  <2> DEFINE n == NumBearers[m.imsi]
             f == [k \in 1 .. n |-> <<k, first + k>>]
  <2>2. n \in Bids /\ n \in Nat /\ m.erabs = {<<k, first + k>> : k \in 1 .. n}
    BY <1>2, <2>1 DEF Granted, Bids
  <2>3. f \in Bijection(1 .. n, m.erabs)
    BY <2>2 DEF Bijection, Injection, Surjection, IsInjective
  <2>4. ExistsBijection(1 .. n, m.erabs)
    BY <2>3 DEF ExistsBijection
  <2>5. Cardinality(m.erabs) = n
    BY <2>2, <2>4, FS_CountingElements
  <2> QED BY <2>2, <2>5
<1>4. ASSUME NEW k \in BidsOf(m) PROVE k \in Bids /\ TeidFor(m, k) \in Teids
  <2>1. PICK e \in m.erabs : k = e[1]
    BY DEF BidsOf
  <2>2. e[1] \in Bids /\ e[2] \in Teids /\ e = <<e[1], e[2]>>
    BY <1>1, <2>1
  <2>3. \E t \in Teids : <<k, t>> \in m.erabs
    BY <2>1, <2>2
  <2> QED BY <2>1, <2>2, <2>3 DEF TeidFor
<1>5. ASSUME NEW t \in TeidsOf(m) PROVE t \in Teids /\ BidOf(m, t) \in Bids
  <2>1. PICK e \in m.erabs : t = e[2]
    BY DEF TeidsOf
  <2>2. e[1] \in Bids /\ e[2] \in Teids /\ e = <<e[1], e[2]>>
    BY <1>1, <2>1
  <2>3. \E k \in Bids : <<k, t>> \in m.erabs
    BY <2>1, <2>2
  <2> QED BY <2>1, <2>2, <2>3 DEF BidOf
<1> QED BY <1>1, <1>2, <1>3, <1>4, <1>5

LEMMA WithBearersUe ==
    ASSUME TypeInv, NEW m \in Request, NEW u \in UeManager, u.state # "NONE"
    PROVE  /\ WithBearers(u, m) \in UeManager
           /\ WithBearers(u, m).ue = u.ue /\ WithBearers(u, m).state # "NONE"
<1> DEFINE n    == Cardinality(m.erabs)
           i    == m.iab
           idle == u.state = "CONNECTED_NORMALLY"
           wait == ~idle \/ n > 1
           s    == IF idle THEN "CONNECTION_RECONFIGURATION" ELSE u.state
           v    == WithBearers(u, m)
<1>1. n \in Bids /\ i \in BOOLEAN
  BY RequestBearers
<1>2. wait \in BOOLEAN /\ s \in UeManagerState /\ s # "NONE"
  BY DEF UeManager, UeManagerState
<1>3. v = [u EXCEPT !.drbs = n, !.needIab = i, !.pending = wait, !.state = s]
  BY DEF WithBearers
<1> HIDE DEF n, i, wait, s, v
<1>4. v \in UeManager /\ v.ue = u.ue /\ v.state # "NONE"
  BY <1>1, <1>2, <1>3 DEF UeManager
<1> QED BY <1>4 DEF v

\* What the handler of a context setup request may do.
ContextSet ==
    /\ srbDl' \in Srbs /\ dlq' \in DownlinkQueues
    /\ SameUes /\ CellTypes' /\ UeMapInv' /\ AppTypes'
    /\ fatal' \in Aborts \cup {"no"}
    /\ UNCHANGED <<imsiRnti, remoteImsi>>

LEMMA AbortTypes ==
    ASSUME TypeInv, NEW q \in DownlinkQueues, NEW why \in Aborts, UNCHANGED session,
           AbortContextSetup(why, q)
    PROVE  ContextSet
<1>1. fatal' = why /\ dlq' = q /\ UNCHANGED <<srbDl, cellVars, appVars>>
  BY DEF AbortContextSetup
<1>2. SameUes /\ UeMapInv'
  BY <1>1 DEF SameUes, TypeInv, UeMapInv, UeKnown, UeOf, cellVars, appVars
<1> QED BY <1>1, <1>2
        DEF ContextSet, TypeInv, TypeOK, QueueInv, CellTypes, AppTypes, cellVars, appVars

LEMMA ForwardIabS1apReplyTypes ==
    ASSUME TypeInv, NEW b \in Stations, NEW m \in Request, NEW q \in DownlinkQueues,
           UNCHANGED session, ForwardIabS1apReply(b, m, q)
    PROVE  ContextSet
<1> DEFINE d  == m.imsi
           rb == imsiLocalRbid[b][d]
           r  == imsiRnti[b][d]
           ch == children[b][r] \ (IF m.iab THEN {} ELSE {d})
           u  == [ueMap[b][r] EXCEPT !.numIab = Cardinality(ch)]
           kind == IF m.iab THEN "iab" ELSE "ue"
           routes == [t \in Teids |-> IF t \in ForwardedTeids(m) THEN rb ELSE teidRbid[b][t]]
<1> USE Topology
<1>1. CASE AbortContextSetup("IMSI not found", q)
  <2>1. "IMSI not found" \in Aborts
    BY DEF Aborts
  <2> QED BY <1>1, <2>1, AbortTypes
<1>2. CASE /\ r # 0 /\ rb # NoRbid /\ ueMap[b][r].state # "NONE"
           /\ imsiIab' = [imsiIab EXCEPT ![b][d] = kind]
           /\ children' = [children EXCEPT ![b][r] = ch]
           /\ ueMap' = [ueMap EXCEPT ![b][r] = u]
           /\ teidRbid' = [teidRbid EXCEPT ![b] = routes]
           /\ teidRemote' = [teidRemote EXCEPT ![b] = MarkedRemote(b, m)]
           /\ dlq' = SendToLteSocket(b, rb, m, q)
           /\ UNCHANGED <<srbDl, lastRnti, imsiRnti, rntiLocalImsi, rbidTeid,
                          imsiLocalRbid, remoteImsi, fatal>>
  <2>1. d \in Devices /\ \A t \in TeidsOf(m) : t \in Teids
    BY RequestBearers
  <2>2. r \in Rntis /\ rb \in Rbid
    <3>1. /\ imsiRnti \in [Stations -> [Devices -> Rntis \cup {0}]]
          /\ imsiLocalRbid \in [Stations -> [Devices -> Rbid]]
      BY DEF TypeInv, TypeOK, AppTypes
    <3>2. r # 0
      BY <1>2
    <3> QED BY <2>1, <3>1, <3>2
  <2>3. ch \in SUBSET Iab
    <3>1. children \in [Stations -> [Rntis -> SUBSET Iab]]
      BY DEF TypeInv, TypeOK, AppTypes
    <3> QED BY <2>2, <3>1
  <2>4. u \in UeManager /\ u.ue = ueMap[b][r].ue /\ u.ue # None
    <3> DEFINE v == ueMap[b][r]
               n == Cardinality(ch)
    <3>1. v \in UeManager /\ v.ue # None
      <4>1. ueMap \in [Stations -> [Rntis -> UeManager]] /\ UeMapInv
        BY DEF TypeInv, TypeOK, CellTypes
      <4>2. v.state # "NONE"
        BY <1>2
      <4> QED BY <2>2, <4>1, <4>2 DEF UeMapInv, UeKnown, UeOf
    <3>2. n \in Nat
      BY <2>3, FS_Subset, FS_CardinalityType
    <3>3. u = [v EXCEPT !.numIab = n]
      OBVIOUS
    <3> HIDE DEF v, n, u
    <3>4. u \in UeManager /\ u.ue = v.ue
      BY <3>1, <3>2, <3>3 DEF UeManager
    <3> QED BY <3>1, <3>4 DEF v
  <2>5. dlq' \in DownlinkQueues
    <3> HIDE DEF rb
    <3> QED BY <1>2, <2>2, SendToLteSocketTypes
  <2> HIDE DEF u, ch
  <2>6. SameUes /\ CellTypes' /\ UeMapInv'
    BY <1>2, <2>2, <2>4, ReplaceUe
  <2>7. imsiIab' \in [Stations -> [Devices -> {"unknown", "iab", "ue"}]]
    <3>1. imsiIab \in [Stations -> [Devices -> {"unknown", "iab", "ue"}]]
      BY DEF TypeInv, TypeOK, AppTypes
    <3>2. kind \in {"unknown", "iab", "ue"}
      OBVIOUS
    <3> HIDE DEF kind, d
    <3> QED BY <1>2, <2>1, <3>1, <3>2, UpdateTwice
  <2>8. children' \in [Stations -> [Rntis -> SUBSET Iab]]
    BY <1>2, <2>2, <2>3, UpdateTwice DEF TypeInv, TypeOK, AppTypes
  <2>9. teidRbid' \in [Stations -> [Teids -> Rbid]]
    <3>1. routes \in [Teids -> Rbid]
      BY <2>2 DEF TypeInv, TypeOK, AppTypes
    <3> HIDE DEF routes
    <3> QED BY <1>2, <3>1 DEF TypeInv, TypeOK, AppTypes
  <2>10. teidRemote' \in [Stations -> SUBSET Teids]
    BY <1>2, <2>1 DEF MarkedRemote, ForwardedTeids, TypeInv, TypeOK, AppTypes
  <2>11. AppTypes'
    BY <1>2, <2>7, <2>8, <2>9, <2>10 DEF TypeInv, TypeOK, AppTypes
  <2> QED BY <1>2, <2>5, <2>6, <2>11 DEF ContextSet, TypeInv, TypeOK, QueueInv, RunTypes
<1> QED BY <1>1, <1>2 DEF ForwardIabS1apReply

LEMMA SetupContextTypes ==
    ASSUME TypeInv, NEW b \in Stations, NEW m \in Request, m.imsi \notin remoteImsi[b],
           NEW q \in DownlinkQueues, UNCHANGED session, SetupContext(b, m, q)
    PROVE  ContextSet
<1> DEFINE d == m.imsi
           r == imsiRnti[b][d]
           u == ueMap[b][r]
           v == WithBearers(u, m)
           e == Rrc("ConnectionReconfiguration", r, 1)
           kind == IF imsiIab[b][d] # "unknown" THEN imsiIab[b][d]
                   ELSE IF m.iab THEN "iab" ELSE "ue"
           teids == [k \in Bids |-> IF k \in BidsOf(m) THEN TeidFor(m, k) ELSE rbidTeid[b][r][k]]
           routes == [t \in Teids |-> IF t \in TeidsOf(m) THEN [rnti |-> r, bid |-> BidOf(m, t)]
                                      ELSE teidRbid[b][t]]
<1> USE Topology
<1>1. CASE \E why \in Aborts : AbortContextSetup(why, q)
  BY <1>1, AbortTypes
<1>2. CASE /\ r # 0 /\ u.state # "NONE"
           /\ imsiIab' = [imsiIab EXCEPT ![b][d] = kind]
           /\ rbidTeid' = [rbidTeid EXCEPT ![b][r] = teids]
           /\ teidRbid' = [teidRbid EXCEPT ![b] = routes]
           /\ ueMap' = [ueMap EXCEPT ![b][r] = v]
           /\ srbDl' = srbDl \/ srbDl' = [srbDl EXCEPT ![d] = Append(@, e)]
           /\ dlq' = q
           /\ UNCHANGED <<lastRnti, imsiRnti, rntiLocalImsi, teidRemote,
                          imsiLocalRbid, children, remoteImsi, fatal>>
  <2>1. /\ d \in Devices
        /\ \A k \in BidsOf(m) : k \in Bids /\ TeidFor(m, k) \in Teids
        /\ \A t \in TeidsOf(m) : t \in Teids /\ BidOf(m, t) \in Bids
    BY RequestBearers
  <2>2. r \in Rntis /\ UeOf(b, r) = d
    <3>1. imsiRnti \in [Stations -> [Devices -> Rntis \cup {0}]] /\ OwnInv
      BY DEF TypeInv, TypeOK, AppTypes
    <3>2. r # 0
      BY <1>2
    <3> QED BY <2>1, <3>1, <3>2 DEF OwnInv
  <2>3. Parent[d] = b
    BY <2>1, <2>2 DEF TypeInv, UeMapInv, UeKnown
  <2>4. v \in UeManager /\ v.ue = u.ue /\ v.ue # None
    <3>1. u \in UeManager /\ u.ue = d
      BY <2>2 DEF TypeInv, TypeOK, CellTypes, UeOf
    <3> HIDE DEF u
    <3> QED BY <1>2, <2>1, <3>1, WithBearersUe
  <2> HIDE DEF v
  <2>5. SameUes /\ CellTypes' /\ UeMapInv'
    BY <1>2, <2>2, <2>4, ReplaceUe
  <2>6. srbDl' \in Srbs
    <3>1. e \in RrcOf(d)
      BY <2>2, <2>3 DEF RrcOf, Rrc, RrcMessage, Bids
    <3>2. srbDl \in Srbs
      BY DEF TypeInv, QueueInv
    <3>3. [srbDl EXCEPT ![d] = Append(@, e)] \in Srbs
      <4> HIDE DEF d, e
      <4> QED BY <2>1, <3>1, <3>2, SrbStep
    <3> QED BY <1>2, <3>2, <3>3
  <2>7. imsiIab' \in [Stations -> [Devices -> {"unknown", "iab", "ue"}]]
    <3>1. imsiIab \in [Stations -> [Devices -> {"unknown", "iab", "ue"}]]
      BY DEF TypeInv, TypeOK, AppTypes
    <3>2. kind \in {"unknown", "iab", "ue"}
      BY <2>1, <3>1
    <3> HIDE DEF kind, d
    <3> QED BY <1>2, <2>1, <3>1, <3>2, UpdateTwice
  <2>8. rbidTeid' \in [Stations -> [Rntis -> [Bids -> Teids \cup {0}]]]
    <3>1. rbidTeid \in [Stations -> [Rntis -> [Bids -> Teids \cup {0}]]]
      BY DEF TypeInv, TypeOK, AppTypes
    <3>2. teids \in [Bids -> Teids \cup {0}]
      BY <2>1, <2>2, <3>1
    <3> HIDE DEF teids, r
    <3> QED BY <1>2, <2>2, <3>1, <3>2, UpdateTwice
  <2>9. teidRbid' \in [Stations -> [Teids -> Rbid]]
    <3>1. routes \in [Teids -> Rbid]
      BY <2>1, <2>2, SMTT(30) DEF TypeInv, TypeOK, AppTypes, Rbid
    <3> HIDE DEF routes
    <3> QED BY <1>2, <3>1 DEF TypeInv, TypeOK, AppTypes
  <2>10. AppTypes'
    BY <1>2, <2>7, <2>8, <2>9 DEF TypeInv, TypeOK, AppTypes
  <2> QED BY <1>2, <2>5, <2>6, <2>10 DEF ContextSet, TypeInv, TypeOK, RunTypes
<1>3. SetupContext(b, m, q) =>
         \/ \E why \in {"Unrecognized imsi", "RNTI not found", "bearer ID mismatch"} :
               AbortContextSetup(why, q)
         \/ /\ r # 0 /\ u.state # "NONE"
            /\ imsiIab' = [imsiIab EXCEPT ![b][d] = kind]
            /\ rbidTeid' = [rbidTeid EXCEPT ![b][r] = teids]
            /\ teidRbid' = [teidRbid EXCEPT ![b] = routes]
            /\ ueMap' = [ueMap EXCEPT ![b][r] = v]
            /\ srbDl' = srbDl \/ srbDl' = [srbDl EXCEPT ![d] = Append(@, e)]
            /\ dlq' = q
            /\ UNCHANGED <<lastRnti, imsiRnti, rntiLocalImsi, teidRemote,
                           imsiLocalRbid, children, remoteImsi, fatal>>
  <2> HIDE DEF e
  <2> QED BY DEF SetupContext, e
<1>4. {"Unrecognized imsi", "RNTI not found", "bearer ID mismatch"} \subseteq Aborts
  BY DEF Aborts
<1> HIDE DEF d, r, u, v, e, kind, teids, routes
<1> QED BY <1>1, <1>2, <1>3, <1>4

LEMMA RecvFromS1apSocketTypes ==
    ASSUME TypeInv, NEW b \in Stations, NEW m \in Request, NEW q \in DownlinkQueues,
           UNCHANGED session, RecvFromS1apSocket(b, m, q)
    PROVE  ContextSet
BY ForwardIabS1apReplyTypes, SetupContextTypes DEF RecvFromS1apSocket

\* The rest of the invariant after a context setup.
LEMMA ContextStep ==
    ASSUME TypeInv, ContextSet, s1Down' \in Requests,
           UNCHANGED <<ueVars, nasVars, srbUl, ulq, losses, mmeCell, session, enbAddr,
                       s1Up, s1uDown, dataSent>>
    PROVE  TypeInv'
<1>1. SameUes /\ UeMapInv' /\ CellTypes' /\ AppTypes'
  BY DEF ContextSet
<1>2. SessionInv'
  BY DEF TypeInv, SessionInv
<1>3. QueueInv'
  BY <1>1, QueuesStay DEF ContextSet, TypeInv, QueueInv, nasVars
<1>4. LinkInv' /\ OwnInv'
  BY <1>1, SameSets, SameLinks, OwnStays DEF ContextSet, ueVars
<1>5. TypeOK'
  BY <1>1, <1>3, QueueTypes
  DEF ContextSet, TypeInv, TypeOK, DeviceTypes, NasTypes, RadioTypes, CoreTypes, RunTypes,
      ueVars, nasVars
<1> QED BY <1>1, <1>2, <1>3, <1>4, <1>5 DEF TypeInv

LEMMA WiredRecvS1apTypes ==
    ASSUME TypeInv, NEW w \in Wired, WiredRecvS1ap(w)
    PROVE  TypeInv'
<1> DEFINE m == Head(s1Down[w])
<1>1. /\ s1Down[w] # <<>> /\ s1Down' = [s1Down EXCEPT ![w] = Tail(@)]
      /\ RecvFromS1apSocket(w, m, dlq)
      /\ UNCHANGED <<ueVars, nasVars, srbUl, ulq, losses, mmeCell, session, enbAddr,
                     s1Up, s1uDown, dataSent>>
  BY DEF WiredRecvS1ap
<1>2. w \in Stations /\ s1Down \in [Wired -> Seq(Request)] /\ dlq \in DownlinkQueues
  BY Topology DEF TypeInv, QueueInv, Requests
<1>3. m \in Request /\ s1Down' \in Requests
  BY <1>1, <1>2, TakeQueue DEF Requests
<1> HIDE DEF m
<1> QED BY <1>1, <1>2, <1>3, RecvFromS1apSocketTypes, ContextStep

LEMMA IabRecvS1apTypes ==
    ASSUME TypeInv, NEW i \in Iab, IabRecvS1ap(i)
    PROVE  TypeInv'
<1> DEFINE m == Head(dlq[i]).pkt
           q == [dlq EXCEPT ![i] = Tail(@)]
<1>1. /\ dlq[i] # <<>> /\ m.type = "InitialContextSetupRequest"
      /\ RecvFromS1apSocket(i, m, q)
      /\ UNCHANGED <<ueVars, nasVars, srbUl, ulq, losses, coreVars, dataSent>>
  BY DEF IabRecvS1ap
<1>2. i \in Stations /\ i \in Devices
  BY Topology
<1>3. m \in Request /\ q \in DownlinkQueues
  <2>1. Head(dlq[i]) \in RequestFrame /\ q \in DownlinkQueues
    BY <1>1, <1>2, HeadDownlink
  <2> QED BY <1>1, <2>1 DEF RequestFrame, DataPacket
<1> HIDE DEF m, q
<1>4. ContextSet /\ s1Down' \in Requests
  BY <1>1, <1>2, <1>3, RecvFromS1apSocketTypes DEF TypeInv, QueueInv, coreVars
<1> QED BY <1>1, <1>4, ContextStep DEF coreVars

(***************************************************************************)
(* Core network.                                                           *)
(***************************************************************************)

\* The SGW allocates the next n TEIDs for device d.
LEMMA Allocation ==
    ASSUME TypeInv, NEW d \in Devices, NEW n \in Bids,
           session' = session \o [k \in 1 .. n |-> [imsi |-> d, bid |-> k]]
    PROVE  /\ session' \in Seq([imsi : Devices, bid : Bids])
           /\ Len(session) \in Nat /\ Len(session') = Len(session) + n
           /\ \A t \in 1 .. Len(session) : session'[t] = session[t]
           /\ \A k \in 1 .. n : session'[Len(session) + k] = [imsi |-> d, bid |-> k]
<1> DEFINE S   == [imsi : Devices, bid : Bids]
           new == [k \in 1 .. n |-> [imsi |-> d, bid |-> k]]
<1>1. n \in Nat /\ 1 .. n \subseteq Bids
  BY Topology DEF Bids
<1>2. new \in [1 .. n -> S] /\ \A k \in 1 .. n : new[k] = [imsi |-> d, bid |-> k]
  BY <1>1
<1>3. session \in Seq(S)
  BY DEF TypeInv, TypeOK, CoreTypes
<1> HIDE DEF new, S
<1>4. new \in Seq(S) /\ Len(new) = n
  BY <1>1, <1>2, FunctionIsSeq, LenProperties
<1>5. Len(session) \in Nat
  BY <1>3, LenProperties
<1>6. session' = session \o new
  BY DEF new
<1>7. /\ session' \in Seq(S) /\ Len(session') = Len(session) + n
      /\ \A t \in 1 .. Len(session) : session'[t] = session[t]
      /\ \A k \in 1 .. n : session'[Len(session) + k] = new[k]
  <2>1. /\ session' \in Seq(S) /\ Len(session') = Len(session) + Len(new)
        /\ \A i \in 1 .. Len(session) + Len(new) :
              session'[i] = IF i <= Len(session) THEN session[i] ELSE new[i - Len(session)]
    <3>1. /\ session \o new \in Seq(S) /\ Len(session \o new) = Len(session) + Len(new)
          /\ \A i \in 1 .. Len(session) + Len(new) :
                (session \o new)[i] =
                    IF i <= Len(session) THEN session[i] ELSE new[i - Len(session)]
      BY <1>3, <1>4, ConcatProperties, ZenonT(60)
    <3> QED BY <1>6, <3>1, ZenonT(60)
  <2> DEFINE l == Len(session)
  <2>2. l \in Nat /\ Len(new) = n /\ n \in Nat
    BY <1>1, <1>4, <1>5
  <2>3. \A i \in 1 .. l + n : session'[i] = IF i <= l THEN session[i] ELSE new[i - l]
    BY <2>1, <2>2
  <2> HIDE DEF l
  <2>4. ASSUME NEW t \in 1 .. l PROVE session'[t] = session[t]
    <3>1. t \in 1 .. l + n /\ t <= l
      BY <2>2
    <3> QED BY <2>3, <3>1
  <2>5. ASSUME NEW k \in 1 .. n PROVE session'[l + k] = new[k]
    <3>1. l + k \in 1 .. l + n /\ ~(l + k <= l) /\ (l + k) - l = k
      BY <2>2
    <3> QED BY <2>3, <3>1
  <2> QED BY <2>1, <2>2, <2>4, <2>5 DEF l
<1> QED BY <1>2, <1>5, <1>7 DEF S

LEMMA NewRequest ==
    ASSUME NEW d \in Devices, NEW first \in Nat, first + NumBearers[d] <= MaxTeid,
           Len(session') = first + NumBearers[d],
           \A k \in 1 .. NumBearers[d] : session'[first + k] = [imsi |-> d, bid |-> k]
    PROVE  [type |-> "InitialContextSetupRequest", imsi |-> d,
            erabs |-> {<<k, first + k>> : k \in 1 .. NumBearers[d]},
            iab |-> (d \in Iab)] \in Request'
<1> DEFINE n == NumBearers[d]
           e == {<<k, first + k>> : k \in 1 .. n}
           i == d \in Iab
           req == [type |-> "InitialContextSetupRequest", imsi |-> d, erabs |-> e, iab |-> i]
<1>1. n \in Bids /\ n \in Nat /\ 1 .. n \subseteq Bids
  BY Topology DEF Bids
<1>2. e \in SUBSET (Bids \X Teids)
  BY <1>1, Topology DEF Teids
<1>3. e = {<<k, first + k>> : k \in 1 .. n} /\ i \in BOOLEAN /\ (i <=> d \in Iab)
  OBVIOUS
<1> HIDE DEF e, i
<1>4. req \in InitialContextSetupRequest
  BY <1>2, <1>3 DEF InitialContextSetupRequest
<1>5. Granted(req, first)'
  BY <1>1, <1>3 DEF Granted
<1>6. first \in 0 .. Len(session') /\ (req.iab <=> req.imsi \in Iab)
  BY <1>1, <1>3
<1>7. req \in Request'
  <2> HIDE DEF req
  <2> QED BY <1>4, <1>5, <1>6 DEF Request
<1> QED BY <1>7 DEF e, i

LEMMA MmeRecvInitialUeMessageTypes ==
    ASSUME TypeInv, NEW w \in Wired, MmeRecvInitialUeMessage(w)
    PROVE  TypeInv'
<1> DEFINE m     == Head(s1Up[w])
           d     == m.imsi
           wired == WiredDonor(m.gci)
           n     == NumBearers[d]
           first == Len(session)
           req   == [type |-> "InitialContextSetupRequest", imsi |-> d,
                     erabs |-> {<<k, first + k>> : k \in 1 .. n}, iab |-> d \in Iab]
<1> USE Topology
<1>1. /\ s1Up[w] # <<>> /\ first + n <= MaxTeid
      /\ mmeCell' = [mmeCell EXCEPT ![d] = m.gci]
      /\ s1Up' = [s1Up EXCEPT ![w] = Tail(@)]
      /\ \/ /\ wired \in Wired
            /\ session' = session \o [k \in 1 .. n |-> [imsi |-> d, bid |-> k]]
            /\ enbAddr' = [enbAddr EXCEPT ![d] = wired]
            /\ s1Down' = [s1Down EXCEPT ![wired] = Append(@, req)]
            /\ UNCHANGED fatal
         \/ /\ fatal' = "no wired donor"
            /\ UNCHANGED <<session, enbAddr, s1Down>>
      /\ UNCHANGED <<ueVars, nasVars, srbVars, ulq, dlq, losses, cellVars, appVars,
                     s1uDown, dataSent>>
  BY DEF MmeRecvInitialUeMessage
<1>2. s1Up \in [Wired -> Seq(InitialUeMessage)]
  BY DEF TypeInv, TypeOK, CoreTypes
<1>3. m \in InitialUeMessage /\ s1Up' \in [Wired -> Seq(InitialUeMessage)]
  BY <1>1, <1>2, TakeQueue
<1>4. d \in Devices /\ m.gci \in Stations
  BY <1>3 DEF InitialUeMessage
<1>5. n \in Bids /\ n \in Nat /\ 1 .. n \subseteq Bids
  BY <1>4, SMTT(30) DEF Bids
<1>6. mmeCell' \in [Devices -> Stations \cup {None}]
  BY <1>1, <1>4 DEF TypeInv, TypeOK, CoreTypes
<1> HIDE DEF m, wired
<1>7. CASE fatal' = "no wired donor" /\ UNCHANGED <<session, enbAddr, s1Down>>
  <2>1. CoreTypes' /\ RunTypes'
    BY <1>1, <1>3, <1>6, <1>7 DEF TypeInv, TypeOK, CoreTypes, RunTypes, Aborts
  <2>2. /\ AppTypes' /\ ulq' \in UplinkQueues /\ nasBuffer' \in NasBuffers /\ nas' = nas
        /\ lostS1ap' \subseteq Devices /\ dlq' \in DownlinkQueues /\ s1Down' \in Requests
        /\ losses' \in Nat
    BY <1>1, <1>7
    DEF TypeInv, TypeOK, AppTypes, NasTypes, RadioTypes, QueueInv, nasVars, appVars
  <2> QED BY <1>1, <1>7, <2>1, <2>2, PacketStep DEF appVars
<1>8. CASE /\ wired \in Wired
           /\ session' = session \o [k \in 1 .. n |-> [imsi |-> d, bid |-> k]]
           /\ enbAddr' = [enbAddr EXCEPT ![d] = wired]
           /\ s1Down' = [s1Down EXCEPT ![wired] = Append(@, req)]
           /\ UNCHANGED fatal
  <2>1. /\ session' \in Seq([imsi : Devices, bid : Bids])
        /\ first \in Nat /\ Len(session') = first + n
        /\ \A t \in 1 .. first : session'[t] = session[t]
        /\ \A k \in 1 .. n : session'[first + k] = [imsi |-> d, bid |-> k]
    <3> HIDE DEF d, n
    <3> QED BY <1>4, <1>5, <1>8, Allocation
  <2>2. Grows
    <3>1. ueMap' = ueMap /\ Len(session) <= Len(session')
      <4>1. Len(session) <= Len(session')
        <5> HIDE DEF n
        <5> QED BY <1>5, <2>1
      <4> QED BY <1>1, <4>1 DEF cellVars
    <3> QED BY <2>1, <3>1 DEF Grows
  <2>3. req \in Request'
    BY <1>1, <1>4, <2>1, NewRequest, ZenonT(60)
  <2> HIDE DEF req
  <2>4. /\ Srbs \subseteq Srbs' /\ UplinkQueues \subseteq UplinkQueues'
        /\ DownlinkQueues \subseteq DownlinkQueues' /\ Requests \subseteq Requests'
    BY <2>1, <2>2, QueueMonotone
  <2>5. s1Down' \in Requests'
    <3>1. s1Down \in [Wired -> Seq(Request')]
      BY <2>4 DEF TypeInv, QueueInv, Requests
    <3>2. Append(s1Down[wired], req) \in Seq(Request')
      BY <1>8, <2>3, <3>1, AppendQueue
    <3> QED BY <1>8, <3>1, <3>2 DEF Requests
  <2>6. QueueInv'
    BY <1>1, <2>4, <2>5 DEF QueueInv, TypeInv, NasBuffers, UplinkPacketOf, nasVars, srbVars
  <2>7. SessionInv'
    <3>1. Len(session') <= MaxTeid
      BY <1>1, <2>1
    <3>2. ASSUME NEW t \in 1 .. Len(session')
          PROVE  enbAddr'[session'[t].imsi] \in Wired
      <4>1. CASE t \in 1 .. first
        <5> DEFINE x == session[t].imsi
        <5>1. session'[t] = session[t] /\ enbAddr[x] \in Wired
          BY <2>1, <4>1 DEF TypeInv, SessionInv
        <5>2. x \in Devices
          <6>1. session \in Seq([imsi : Devices, bid : Bids])
            BY DEF TypeInv, TypeOK, CoreTypes
          <6>2. session[t] \in [imsi : Devices, bid : Bids]
            BY <4>1, <6>1, ElementOfSeq
          <6> QED BY <6>2
        <5> HIDE DEF x, d
        <5>3. enbAddr'[x] \in Wired
          BY <1>4, <1>8, <5>1, <5>2 DEF TypeInv, TypeOK, CoreTypes
        <5> QED BY <5>1, <5>3 DEF x
      <4>2. CASE t \notin 1 .. first
        <5>1. t - first \in 1 .. n /\ t = first + (t - first)
          BY <1>5, <2>1, <4>2
        <5>2. session'[t] = [imsi |-> d, bid |-> t - first]
          BY <2>1, <5>1
        <5>3. session'[t].imsi = d
          BY <5>2
        <5> HIDE DEF d
        <5>4. enbAddr'[d] = wired
          BY <1>4, <1>8 DEF TypeInv, TypeOK, CoreTypes
        <5> QED BY <1>8, <5>3, <5>4
      <4> QED BY <4>1, <4>2
    <3> QED BY <3>1, <3>2 DEF SessionInv
  <2>8. LinkInv' /\ OwnInv'
    BY <1>1, <2>2, SameLinks, OwnStays DEF ueVars, appVars
  <2>9. UeMapInv'
    <3>1. UNCHANGED <<cellVars, rntiLocalImsi>>
      BY <1>1 DEF appVars
    <3> QED BY <3>1 DEF TypeInv, UeMapInv, UeKnown, UeOf, cellVars
  <2>10. CoreTypes'
    <3>1. enbAddr' \in [Devices -> Wired \cup {None}]
      BY <1>4, <1>8 DEF TypeInv, TypeOK, CoreTypes
    <3> QED BY <1>1, <1>3, <1>6, <2>1, <2>6, <3>1, QueueTypes DEF TypeInv, TypeOK, CoreTypes
  <2>11. TypeOK'
    BY <1>1, <1>8, <2>6, <2>10, QueueTypes
    DEF TypeInv, TypeOK, DeviceTypes, NasTypes, RadioTypes, CellTypes, AppTypes, RunTypes,
        ueVars, nasVars, cellVars, appVars
  <2> QED BY <2>6, <2>7, <2>8, <2>9, <2>11 DEF TypeInv
<1> QED BY <1>1, <1>7, <1>8

LEMMA SgwRecvFromInternetTypes ==
    ASSUME TypeInv, NEW u \in Ue, NEW k \in Bids, SgwRecvFromInternet(u, k)
    PROVE  TypeInv'
<1> USE Topology
<1>1. PICK t \in TeidsOfFlow(u, k) :
         s1uDown' = [s1uDown EXCEPT ![enbAddr[u]] =
                        Append(@, [type |-> "Data", ue |-> u, bid |-> k, teid |-> t])]
  BY DEF SgwRecvFromInternet
<1>2. /\ dataSent' = [dataSent EXCEPT ![u] = @ + 1]
      /\ UNCHANGED <<ueVars, nasVars, srbVars, ulq, dlq, losses, cellVars, appVars,
                     mmeCell, session, enbAddr, s1Up, s1Down, fatal>>
  BY DEF SgwRecvFromInternet
<1> DEFINE p == [type |-> "Data", ue |-> u, bid |-> k, teid |-> t]
<1>3. t \in Teids /\ enbAddr[u] \in Wired
  <2>1. t \in 1 .. Len(session) /\ session[t].imsi = u
    BY DEF TeidsOfFlow
  <2>2. Len(session) \in Nat /\ Len(session) <= MaxTeid
    BY LenProperties DEF TypeInv, TypeOK, CoreTypes, SessionInv
  <2> QED BY <2>1, <2>2 DEF TypeInv, SessionInv, Teids
<1>4. p \in DataPacket
  BY <1>3 DEF DataPacket
<1> HIDE DEF p
<1>5. s1uDown' \in [Wired -> Seq(DataPacket)]
  <2>1. s1uDown \in [Wired -> Seq(DataPacket)]
    BY DEF TypeInv, TypeOK, CoreTypes
  <2>2. Append(s1uDown[enbAddr[u]], p) \in Seq(DataPacket)
    BY <1>3, <1>4, <2>1, AppendQueue
  <2> QED BY <1>1, <1>3, <2>1, <2>2 DEF p
<1>6. losses' \in Nat /\ RunTypes' /\ dlq' \in DownlinkQueues
  BY <1>2 DEF TypeInv, TypeOK, RadioTypes, RunTypes, QueueInv
<1> QED BY <1>2, <1>5, <1>6, DownlinkStepTypes

(***************************************************************************)
(* Typing, for every deployment.                                           *)
(***************************************************************************)

LEMMA TypeInvStutter ==
    ASSUME TypeInv, UNCHANGED vars PROVE TypeInv'
<1>1. SameUes
  BY DEF SameUes, vars, cellVars, coreVars
<1>2. QueueInv'
  BY <1>1, QueuesStay DEF TypeInv, QueueInv, vars, srbVars, nasVars, coreVars
<1>3. TypeOK'
  BY DEF TypeInv, TypeOK, DeviceTypes, NasTypes, RadioTypes, CellTypes, AppTypes, CoreTypes,
         RunTypes, vars, ueVars, nasVars, srbVars, cellVars, appVars, coreVars
<1>4. LinkInv'
  BY DEF TypeInv, LinkInv, Linked, UeOf, vars, ueVars, cellVars
<1>5. UeMapInv' /\ OwnInv'
  BY DEF TypeInv, UeMapInv, UeKnown, UeOf, OwnInv, vars, cellVars, appVars
<1>6. SessionInv'
  BY DEF TypeInv, SessionInv, vars, coreVars
<1> QED BY <1>2, <1>3, <1>4, <1>5, <1>6 DEF TypeInv

LEMMA TypeInvStep == TypeInv /\ [Next]_vars => TypeInv'
<1> SUFFICES ASSUME TypeInv, [Next]_vars PROVE TypeInv'
  OBVIOUS
<1>1. ASSUME NEW d \in Devices, Connect(d) PROVE TypeInv'
  BY <1>1, RandomAccessTypes, RecvConnectionRequestTypes, RecvConnectionSetupTypes,
     RecvConnectionSetupCompletedTypes, RecvReconfigurationTypes,
     RecvReconfigurationCompletedTypes DEF Connect
<1>2. ASSUME NEW d \in Devices, Uplink(d) PROVE TypeInv'
  BY <1>2, RelayInitialUeMessageTypes, RelayDataTypes, RecvUeDataTypes DEF Uplink
<1>3. ASSUME NEW d \in Devices, DownlinkStep(d) PROVE TypeInv'
  <2>1. IabRecvS1ap(d) \/ IabRecvData(d) => d \in Iab
    BY DEF IabRecvS1ap, IabRecvData
  <2> QED BY <1>3, <2>1, TakenDownlinkTypes, IabRecvS1apTypes, IabRecvDataTypes
          DEF DownlinkStep
<1>4. ASSUME NEW d \in Devices,
             ConnectionTimeout(d) \/ LoseUplink(d) \/ LoseDownlink(d)
      PROVE  TypeInv'
  BY <1>4, ConnectionTimeoutTypes, LoseUplinkTypes, TakenDownlinkTypes
<1>5. ASSUME NEW w \in Wired, Wireline(w) \/ MmeRecvInitialUeMessage(w) PROVE TypeInv'
  BY <1>5, WiredRecvS1apTypes, WiredRecvDataTypes, MmeRecvInitialUeMessageTypes DEF Wireline
<1>6. ASSUME NEW b \in Stations, NEW r \in Rntis, RemoveUe(b, r) PROVE TypeInv'
  BY <1>6, RemoveUeTypes
<1>7. ASSUME NEW u \in Ue, NEW k \in Bids, UeSend(u, k) \/ SgwRecvFromInternet(u, k)
      PROVE  TypeInv'
  BY <1>7, UeSendTypes, SgwRecvFromInternetTypes
<1> QED BY <1>1, <1>2, <1>3, <1>4, <1>5, <1>6, <1>7, TypeInvStutter DEF Next

\* Type correctness: RNTIs, bearers and TEIDs stay in their ranges and every
\* queue holds messages of its interface, whatever the tree of IAB nodes.
THEOREM Typing == Spec => []TypeOK
<1>1. Init => TypeInv
  BY InitTypeInv
<1>2. TypeInv /\ [Next]_vars => TypeInv'
  BY TypeInvStep
<1>3. TypeInv => TypeOK
  BY DEF TypeInv
<1> QED BY <1>1, <1>2, <1>3, PTL DEF Spec
=============================================================================
