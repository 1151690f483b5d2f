----------------------------- MODULE IabEpcLive -------------------------------
(***************************************************************************)
(* Live contexts: the device of an RNTI, the UeManager of its cell and the *)
(* maps of the application agree, so every route leads to a bearer that is *)
(* set up and every uplink packet finds its context.  Stable routes: the   *)
(* SGW never gives a TEID out twice, so a route that is written stays      *)
(* until the context it belongs to is released.                            *)
(***************************************************************************)
EXTENDS IabEpcTunnels

(***************************************************************************)
(* The inductive invariant.                                                *)
(***************************************************************************)

\* The UeManager the cell of d has for the RNTI d uses.
Served(d) == ueMap[Parent[d]][rnti[d]]

\* A device that has an RNTI has a UeManager, one that is connected has an
\* entry in the maps of the application, and only then does its NAS send.
Attached(d) ==
    /\ rrc[d] # "IDLE" => Served(d).state # "NONE"
    /\ rrc[d] = "CONNECTED" => rntiLocalImsi[Parent[d]][rnti[d]] = d
    /\ nas[d] = "ACTIVE" => rrc[d] = "CONNECTED"
    /\ drbs[d] # 0 => drbs[d] <= Served(d).drbs
    /\ rrc[d] = "IDLE" => srbUl[d] = <<>> /\ srbDl[d] = <<>>

AttachedInv == \A d \in Devices : Attached(d)

\* RRC messages under way are for the RNTI the device uses, and those a device
\* sends once it is connected show that it is.
CurrentUl(d) ==
    {m \in RrcMessage :
        /\ m.rnti = rnti[d]
        /\ m.type # "ConnectionRequest" => rrc[d] = "CONNECTED"}

CurrentDl(d) ==
    {m \in RrcMessage :
        /\ m.rnti = rnti[d] /\ rntiLocalImsi[Parent[d]][rnti[d]] = d
        /\ m.type = "ConnectionReconfiguration" => m.drbs \in 1 .. Served(d).drbs}

\* A frame on the air is on a bearer the cell has set up.
CurrentFrame(d) ==
    {f \in UplinkFrame :
        rrc[d] = "CONNECTED" /\ f.rnti = rnti[d] /\ f.bid \in 1 .. Served(d).drbs}

CurrentQueues ==
    {f \in [Devices -> Seq(UplinkFrame)] : \A d \in Devices : f[d] \in Seq(CurrentFrame(d))}

CurrentSrbs(d) == srbUl[d] \in Seq(CurrentUl(d)) /\ srbDl[d] \in Seq(CurrentDl(d))

CurrentInv == (\A d \in Devices : CurrentSrbs(d)) /\ ulq \in CurrentQueues

\* The device of a connected UeManager uses its RNTI, and the application has
\* a context for each of its bearers.
Contexts(b, r) ==
    LET u == ueMap[b][r] IN
    /\ u.state \in {"CONNECTED_NORMALLY", "CONNECTION_RECONFIGURATION"} =>
          rrc[u.ue] = "CONNECTED" /\ rnti[u.ue] = r
    /\ u.drbs # 0 => u.ue \in Devices /\ u.drbs = NumBearers[u.ue]
    /\ u.pending => u.drbs # 0
    /\ u.state # "NONE" /\ u.drbs # 0 =>
          /\ imsiIab[b][u.ue] # "unknown"
          /\ \A k \in 1 .. u.drbs : rbidTeid[b][r][k] # 0

ContextInv == \A b \in Stations, r \in Rntis : Contexts(b, r)

\* Bearer k of an RNTI whose device will never give it up.
Permanent(b, rb) ==
    LET u == ueMap[b][rb.rnti] IN
    /\ rb.rnti \in Rntis /\ u.ue \in Devices
    /\ rrc[u.ue] = "CONNECTED" /\ rnti[u.ue] = rb.rnti
    /\ rb.bid \in 1 .. u.drbs

ChildInv == \A b \in Stations, d \in Devices :
    imsiLocalRbid[b][d] # NoRbid => Permanent(b, imsiLocalRbid[b][d])

\* A route of the cell's own is forgotten with the context it was written with.
Held(b, t) ==
    LET rb == teidRbid[b][t]
        u  == ueMap[b][rb.rnti]
    IN  /\ u.state # "NONE" /\ rb.bid \in 1 .. u.drbs
        /\ rbidTeid[b][rb.rnti][rb.bid] = t

Lives(b, t) ==
    HasTeid(b, t) => IF t \in teidRemote[b] THEN Permanent(b, teidRbid[b][t]) ELSE Held(b, t)

LivesInv == \A b \in Stations, t \in Teids : Lives(b, t)

LiveInv == BranchInv /\ AttachedInv /\ CurrentInv /\ ContextInv /\ ChildInv /\ LivesInv

\* The invariants LiveInv stands on.
LEMMA LiveParts ==
    LiveInv => TypeInv /\ RouteInv /\ TrafficInv /\ BranchInv
BY DEF LiveInv, BranchInv, TrafficInv, RouteInv

LEMMA LiveTypes ==
    ASSUME LiveInv
    PROVE  /\ ueMap \in [Stations -> [Rntis -> UeManager]]
           /\ rntiLocalImsi \in [Stations -> [Rntis -> Devices \cup {None}]]
           /\ imsiIab \in [Stations -> [Devices -> {"unknown", "iab", "ue"}]]
           /\ imsiRnti \in [Stations -> [Devices -> Rntis \cup {0}]]
           /\ imsiLocalRbid \in [Stations -> [Devices -> Rbid]]
           /\ rbidTeid \in [Stations -> [Rntis -> [Bids -> Teids \cup {0}]]]
           /\ teidRbid \in [Stations -> [Teids -> Rbid]]
           /\ teidRemote \in [Stations -> SUBSET Teids]
           /\ srbUl \in [Devices -> Seq(RrcMessage)] /\ srbDl \in [Devices -> Seq(RrcMessage)]
BY LiveParts DEF TypeInv, TypeOK, CellTypes, AppTypes, RadioTypes

LEMMA InitLiveInv == Init => LiveInv
<1> SUFFICES ASSUME Init PROVE LiveInv
  OBVIOUS
<1>1. BranchInv
  BY InitBranchInv
<1>2. ASSUME NEW d \in Devices PROVE Attached(d) /\ CurrentSrbs(d)
  BY EmptyQueues DEF Init, Attached, CurrentSrbs
<1>3. ulq \in CurrentQueues
  BY EmptyQueues DEF Init, CurrentQueues
<1>4. ASSUME NEW b \in Stations, NEW r \in Rntis PROVE Contexts(b, r)
  BY DEF Init, Contexts, NoUeManager
<1>5. ChildInv
  BY DEF Init, ChildInv
<1>6. LivesInv
  BY DEF Init, LivesInv, Lives, HasTeid
<1> QED BY <1>1, <1>2, <1>3, <1>4, <1>5, <1>6 DEF LiveInv, AttachedInv, CurrentInv, ContextInv

(***************************************************************************)
(* What every step keeps.                                                  *)
(***************************************************************************)

\* A connected device stays connected with its RNTI, an RNTI stays with its
\* device, and bearers that were set up are there for good.
Calm ==
    /\ \A d \in Devices :
          rrc[d] = "CONNECTED" => rrc'[d] = "CONNECTED" /\ rnti'[d] = rnti[d]
    /\ \A b \in Stations, r \in Rntis :
          /\ ueMap[b][r].ue # None => ueMap'[b][r].ue = ueMap[b][r].ue
          /\ ueMap[b][r].drbs # 0 => ueMap'[b][r].drbs = ueMap[b][r].drbs
          /\ rntiLocalImsi[b][r] \in Devices => rntiLocalImsi'[b][r] = rntiLocalImsi[b][r]

LEMMA PermanentStays ==
    ASSUME LiveInv, Calm, NEW b \in Stations, NEW rb \in Rbid, Permanent(b, rb)
    PROVE  Permanent(b, rb)'
<1> DEFINE u == ueMap[b][rb.rnti]
<1>1. /\ rb.rnti \in Rntis /\ u.ue \in Devices
      /\ rrc[u.ue] = "CONNECTED" /\ rnti[u.ue] = rb.rnti /\ rb.bid \in 1 .. u.drbs
  BY DEF Permanent
<1>2. u.drbs # 0
  BY <1>1
<1>3. ueMap'[b][rb.rnti].ue = u.ue /\ ueMap'[b][rb.rnti].drbs = u.drbs
  BY <1>1, <1>2, Topology DEF Calm
<1>4. rrc'[u.ue] = "CONNECTED" /\ rnti'[u.ue] = rb.rnti
  BY <1>1 DEF Calm
<1> HIDE DEF u
<1> QED BY <1>1, <1>3, <1>4 DEF Permanent

LEMMA ChildStays ==
    ASSUME LiveInv, Calm, UNCHANGED imsiLocalRbid
    PROVE  ChildInv'
<1> SUFFICES ASSUME NEW b \in Stations, NEW d \in Devices, imsiLocalRbid[b][d] # NoRbid
             PROVE  Permanent(b, imsiLocalRbid[b][d])'
  BY DEF ChildInv, Permanent
<1>1. PICK rb \in Rbid : rb = imsiLocalRbid[b][d]
  BY LiveTypes
<1>2. Permanent(b, rb)
  BY <1>1 DEF LiveInv, ChildInv
<1>3. Permanent(b, rb)'
  BY <1>2, PermanentStays
<1> QED BY <1>1, <1>3 DEF Permanent

\* A route that is not written.
LEMMA LivesStays ==
    ASSUME LiveInv, Calm, NEW b \in Stations, NEW t \in Teids,
           teidRbid'[b][t] = teidRbid[b][t], t \in teidRemote'[b] <=> t \in teidRemote[b],
           HasTeid(b, t) /\ Held(b, t) =>
               LET rb == teidRbid[b][t] IN
               /\ ueMap'[b][rb.rnti].state # "NONE"
               /\ rbidTeid'[b][rb.rnti][rb.bid] = rbidTeid[b][rb.rnti][rb.bid]
    PROVE  Lives(b, t)'
<1> SUFFICES ASSUME HasTeid(b, t)
             PROVE  IF t \in teidRemote[b] THEN Permanent(b, teidRbid[b][t])'
                                           ELSE Held(b, t)'
  BY DEF Lives, HasTeid, Permanent
<1>1. PICK rb \in Rbid : rb = teidRbid[b][t]
  BY LiveTypes
<1>2. rb # NoRbid /\ rb.rnti \in Rntis /\ rb.bid \in Bids
  BY <1>1 DEF HasTeid, Rbid
<1>3. Lives(b, t)
  BY DEF LiveInv, LivesInv
<1>4. CASE t \in teidRemote[b]
  <2>1. Permanent(b, rb)'
    BY <1>1, <1>3, <1>4, PermanentStays DEF Lives
  <2> QED BY <1>1, <1>4, <2>1 DEF Permanent
<1>5. CASE t \notin teidRemote[b]
  <2>1. Held(b, t)
    BY <1>3, <1>5 DEF Lives
  <2>2. rb.bid \in 1 .. ueMap[b][rb.rnti].drbs /\ rbidTeid[b][rb.rnti][rb.bid] = t
    BY <1>1, <2>1 DEF Held
  <2>3. ueMap[b][rb.rnti].drbs # 0
    BY <2>2
  <2>4. ueMap'[b][rb.rnti].drbs = ueMap[b][rb.rnti].drbs
    BY <1>2, <2>3 DEF Calm
  <2> QED BY <1>1, <1>5, <2>1, <2>2, <2>4 DEF Held
<1> QED BY <1>4, <1>5

LEMMA LivesStay ==
    ASSUME LiveInv, Calm, UNCHANGED <<teidRbid, teidRemote, rbidTeid>>,
           \A b \in Stations, r \in Rntis :
               ueMap[b][r].state # "NONE" => ueMap'[b][r].state # "NONE"
    PROVE  LivesInv'
<1> SUFFICES ASSUME NEW b \in Stations, NEW t \in Teids PROVE Lives(b, t)'
  BY DEF LivesInv
<1>1. HasTeid(b, t) => teidRbid[b][t].rnti \in Rntis
  BY LiveTypes DEF HasTeid, Rbid
<1> QED BY <1>1, LivesStays DEF Held

LEMMA ContextStays ==
    ASSUME LiveInv, Calm, NEW b \in Stations, NEW r \in Rntis,
           ueMap'[b][r] = ueMap[b][r],
           \A d \in Devices : imsiIab[b][d] # "unknown" => imsiIab'[b][d] # "unknown",
           \A k \in Bids : rbidTeid[b][r][k] # 0 => rbidTeid'[b][r][k] # 0
    PROVE  Contexts(b, r)'
<1> DEFINE u == ueMap[b][r]
<1>1. Contexts(b, r)
  BY DEF LiveInv, ContextInv
<1>2. u \in UeManager /\ (u.state # "NONE" => u.ue \in Devices)
  BY LiveParts, LiveTypes DEF TypeInv, UeMapInv, UeKnown, UeOf, UeManager
<1>3. \A k \in 1 .. u.drbs : k \in Bids
  BY <1>2, Topology DEF UeManager, Bids
<1>4. u.state \in {"CONNECTED_NORMALLY", "CONNECTION_RECONFIGURATION"} =>
         rrc'[u.ue] = "CONNECTED" /\ rnti'[u.ue] = r
  BY <1>1, <1>2 DEF Contexts, Calm
<1>5. u.state # "NONE" /\ u.drbs # 0 =>
         imsiIab'[b][u.ue] # "unknown" /\ \A k \in 1 .. u.drbs : rbidTeid'[b][r][k] # 0
  BY <1>1, <1>2, <1>3 DEF Contexts
<1>6. (u.drbs # 0 => u.ue \in Devices /\ u.drbs = NumBearers[u.ue]) /\ (u.pending => u.drbs # 0)
  BY <1>1 DEF Contexts
<1>7. ueMap'[b][r] = u
  OBVIOUS
<1> HIDE DEF u
<1> QED BY <1>4, <1>5, <1>6, <1>7 DEF Contexts

LEMMA AttachedStays ==
    ASSUME LiveInv, Calm, NEW d \in Devices,
           rrc'[d] = rrc[d], rnti'[d] = rnti[d], nas'[d] = nas[d], drbs'[d] = drbs[d],
           rrc[d] # "IDLE" => ueMap'[Parent[d]][rnti[d]].state # "NONE",
           rrc[d] = "IDLE" => srbUl'[d] = srbUl[d] /\ srbDl'[d] = srbDl[d]
    PROVE  Attached(d)'
<1>1. Attached(d)
  BY DEF LiveInv, AttachedInv
<1>2. Parent[d] \in Stations /\ (drbs[d] # 0 => rrc[d] = "CONNECTED")
  BY LiveParts, Topology DEF TypeInv, LinkInv, Linked
<1>3. rrc[d] # "IDLE" => rnti[d] \in Rntis
  BY LiveParts DEF TypeInv, LinkInv, Linked
<1>4. rrc[d] = "CONNECTED" => rntiLocalImsi'[Parent[d]][rnti[d]] = d
  BY <1>1, <1>2, <1>3 DEF Attached, Calm
<1>5. drbs[d] # 0 => drbs[d] <= ueMap'[Parent[d]][rnti[d]].drbs
  <2> SUFFICES ASSUME drbs[d] # 0 PROVE drbs[d] <= ueMap'[Parent[d]][rnti[d]].drbs
    OBVIOUS
  <2>1. drbs[d] <= ueMap[Parent[d]][rnti[d]].drbs /\ rnti[d] \in Rntis
    BY <1>1, <1>2, <1>3 DEF Attached, Served
  <2>2. drbs[d] \in Nat /\ drbs[d] # 0 /\ ueMap[Parent[d]][rnti[d]].drbs \in Nat
    BY <1>2, <2>1, LiveParts, LiveTypes, Topology DEF TypeInv, TypeOK, DeviceTypes, UeManager, Bids
  <2>3. ueMap[Parent[d]][rnti[d]].drbs # 0
    BY <2>1, <2>2
  <2> QED BY <1>2, <2>1, <2>3 DEF Calm
<1> QED BY <1>1, <1>4, <1>5 DEF Attached, Served

\* What is on the air goes on being current.
LEMMA CurrentStays ==
    ASSUME LiveInv, Calm, NEW d \in Devices
    PROVE  /\ CurrentFrame(d) \subseteq CurrentFrame(d)'
           /\ rnti'[d] = rnti[d] => /\ CurrentUl(d) \subseteq CurrentUl(d)'
                                    /\ CurrentDl(d) \subseteq CurrentDl(d)'
<1>1. Parent[d] \in Stations
  BY Topology
<1>2. ASSUME NEW f \in CurrentFrame(d) PROVE f \in CurrentFrame(d)'
  <2>1. /\ f \in UplinkFrame /\ rrc[d] = "CONNECTED" /\ f.rnti = rnti[d]
        /\ f.bid \in 1 .. ueMap[Parent[d]][rnti[d]].drbs
    BY <1>2 DEF CurrentFrame, Served
  <2>2. f.rnti \in Rntis
    BY <2>1 DEF UplinkFrame
  <2>3. ueMap[Parent[d]][rnti[d]].drbs # 0
    BY <2>1
  <2>4. rrc'[d] = "CONNECTED" /\ rnti'[d] = rnti[d]
        /\ ueMap'[Parent[d]][rnti[d]].drbs = ueMap[Parent[d]][rnti[d]].drbs
    BY <1>1, <2>1, <2>2, <2>3 DEF Calm
  <2> QED BY <2>1, <2>4 DEF CurrentFrame, Served
<1>3. ASSUME rnti'[d] = rnti[d], NEW m \in CurrentUl(d) PROVE m \in CurrentUl(d)'
  BY <1>3 DEF CurrentUl, Calm
<1>4. ASSUME rnti'[d] = rnti[d], NEW m \in CurrentDl(d) PROVE m \in CurrentDl(d)'
  <2>1. /\ m \in RrcMessage /\ m.rnti = rnti[d] /\ rntiLocalImsi[Parent[d]][rnti[d]] = d
        /\ m.type = "ConnectionReconfiguration" =>
              m.drbs \in 1 .. ueMap[Parent[d]][rnti[d]].drbs
    BY <1>4 DEF CurrentDl, Served
  <2>2. rnti[d] \in Rntis
    BY <2>1 DEF RrcMessage
  <2>3. rntiLocalImsi'[Parent[d]][rnti[d]] = d
    BY <1>1, <2>1, <2>2 DEF Calm
  <2>4. m.type = "ConnectionReconfiguration" =>
           m.drbs \in 1 .. ueMap'[Parent[d]][rnti[d]].drbs
    <3> SUFFICES ASSUME m.type = "ConnectionReconfiguration"
                 PROVE  m.drbs \in 1 .. ueMap'[Parent[d]][rnti[d]].drbs
      OBVIOUS
    <3>1. ueMap[Parent[d]][rnti[d]].drbs # 0
      BY <2>1
    <3> QED BY <1>1, <2>1, <2>2, <3>1 DEF Calm
  <2> QED BY <1>4, <2>1, <2>3, <2>4 DEF CurrentDl, Served
<1> QED BY <1>2, <1>3, <1>4

LEMMA FramesStay ==
    ASSUME LiveInv, Calm, NEW q \in CurrentQueues
    PROVE  q \in CurrentQueues'
<1>1. ASSUME NEW d \in Devices PROVE q[d] \in Seq(CurrentFrame(d)')
  <2>1. q[d] \in Seq(CurrentFrame(d))
    BY DEF CurrentQueues
  <2> QED BY <2>1, CurrentStays, SeqMonotonic
<1> QED BY <1>1 DEF CurrentQueues

LEMMA SrbsStay ==
    ASSUME LiveInv, Calm, NEW d \in Devices, rnti'[d] = rnti[d]
    PROVE  /\ srbUl[d] \in Seq(CurrentUl(d)') /\ srbDl[d] \in Seq(CurrentDl(d)')
           /\ srbUl'[d] = srbUl[d] /\ srbDl'[d] = srbDl[d] => CurrentSrbs(d)'
<1>1. srbUl[d] \in Seq(CurrentUl(d)) /\ srbDl[d] \in Seq(CurrentDl(d))
  BY DEF LiveInv, CurrentInv, CurrentSrbs
<1>2. srbUl[d] \in Seq(CurrentUl(d)') /\ srbDl[d] \in Seq(CurrentDl(d)')
  BY <1>1, CurrentStays, SeqMonotonic
<1> QED BY <1>2 DEF CurrentSrbs

(***************************************************************************)
(* Packets.                                                                *)
(***************************************************************************)

\* Steps that leave the connections of devices and the routes of cells alone.
LEMMA SameLives ==
    ASSUME LiveInv, BranchInv', ChildInv', ulq' \in CurrentQueues,
           UNCHANGED <<ueVars, nas, srbVars, ueMap, rntiLocalImsi, imsiIab, rbidTeid,
                       teidRbid, teidRemote>>
    PROVE  LiveInv'
<1>1. Calm
  BY DEF Calm, ueVars
<1>2. ASSUME NEW d \in Devices PROVE Attached(d)' /\ CurrentSrbs(d)'
  <2>1. Attached(d)
    BY DEF LiveInv, AttachedInv
  <2>2. Attached(d)'
    BY <1>1, <2>1, AttachedStays DEF ueVars, srbVars, Attached, Served
  <2> QED BY <1>1, <2>2, SrbsStay DEF ueVars, srbVars
<1>3. ASSUME NEW b \in Stations, NEW r \in Rntis PROVE Contexts(b, r)'
  BY <1>1, ContextStays
<1>4. ulq' \in CurrentQueues'
  BY <1>1, FramesStay
<1>5. LivesInv'
  BY <1>1, LivesStay
<1> QED BY <1>2, <1>3, <1>4, <1>5 DEF LiveInv, AttachedInv, CurrentInv, ContextInv

LEMMA PacketsLive ==
    ASSUME LiveInv, BranchInv', ulq' \in CurrentQueues,
           UNCHANGED <<ueVars, nas, srbVars, ueMap, appVars>>
    PROVE  LiveInv'
<1>1. ChildInv'
  BY ChildStays DEF Calm, ueVars, appVars
<1> QED BY <1>1, SameLives DEF appVars

LEMMA FrameQueueStep ==
    ASSUME NEW f \in CurrentQueues, NEW d \in Devices
    PROVE  /\ f[d] # <<>> => /\ Head(f[d]) \in CurrentFrame(d)
                             /\ [f EXCEPT ![d] = Tail(@)] \in CurrentQueues
           /\ \A e \in CurrentFrame(d) : [f EXCEPT ![d] = Append(@, e)] \in CurrentQueues
           /\ \A s \in Seq(CurrentFrame(d)) : [f EXCEPT ![d] = @ \o s] \in CurrentQueues
<1>1. f \in [Devices -> Seq(UplinkFrame)] /\ \A x \in Devices : f[x] \in Seq(CurrentFrame(x))
  BY DEF CurrentQueues
<1>2. CurrentFrame(d) \subseteq UplinkFrame
  BY DEF CurrentFrame
<1>3. ASSUME NEW s \in Seq(CurrentFrame(d)) PROVE [f EXCEPT ![d] = s] \in CurrentQueues
  <2>1. s \in Seq(UplinkFrame)
    BY <1>2, SeqMonotonic
  <2> QED BY <1>1, <2>1 DEF CurrentQueues
<1>4. ASSUME f[d] # <<>>
      PROVE  Head(f[d]) \in CurrentFrame(d) /\ [f EXCEPT ![d] = Tail(@)] \in CurrentQueues
  <2>1. Head(f[d]) \in CurrentFrame(d) /\ Tail(f[d]) \in Seq(CurrentFrame(d))
    BY <1>1, <1>4, TakeQueue
  <2> QED BY <1>3, <2>1
<1>5. ASSUME NEW e \in CurrentFrame(d) PROVE [f EXCEPT ![d] = Append(@, e)] \in CurrentQueues
  BY <1>1, <1>3, AppendQueue
<1>6. ASSUME NEW s \in Seq(CurrentFrame(d)) PROVE [f EXCEPT ![d] = @ \o s] \in CurrentQueues
  <2>1. f[d] \o s \in Seq(CurrentFrame(d))
    BY <1>1, ConcatProperties
  <2> QED BY <1>3, <2>1
<1> QED BY <1>4, <1>5, <1>6

LEMMA HeadFrame ==
    ASSUME LiveInv, NEW d \in Devices, ulq[d] # <<>>
    PROVE  /\ Head(ulq[d]) \in CurrentFrame(d) /\ [ulq EXCEPT ![d] = Tail(@)] \in CurrentQueues
           /\ Head(ulq[d]) \in UplinkFrameOf(d)
BY FrameQueueStep, HeadUplink, LiveParts DEF LiveInv, CurrentInv

\* What a NAS sends goes on a bearer of the cell: it is ACTIVE only while the
\* device is connected.
LEMMA NasSendCurrent ==
    ASSUME LiveInv, NEW d \in Devices, NEW k \in Bids, NEW p \in UplinkPacket,
           NEW q \in CurrentQueues, NasSend(d, p, k, q)
    PROVE  ulq' \in CurrentQueues /\ nas' = nas
<1>1. CASE ulq' = q
  BY <1>1 DEF NasSend
<1>2. CASE nas[d] = "ACTIVE" /\ k <= drbs[d]
           /\ ulq' = [q EXCEPT ![d] = Append(@, Frame(rnti[d], k, p))]
  <2>1. rrc[d] = "CONNECTED" /\ (drbs[d] # 0 => drbs[d] <= Served(d).drbs)
    BY <1>2 DEF LiveInv, AttachedInv, Attached
  <2>2. rnti[d] \in Rntis /\ drbs[d] \in Nat /\ k \in Nat /\ k # 0 /\ Parent[d] \in Stations
    BY <2>1, LiveParts, Topology DEF TypeInv, TypeOK, DeviceTypes, LinkInv, Linked, Bids
  <2>3. Served(d).drbs \in Nat
    <3>1. Served(d) \in UeManager
      BY <2>2, LiveTypes DEF Served
    <3> QED BY <3>1, Topology DEF UeManager, Bids
  <2>4. k \in 1 .. Served(d).drbs
    BY <1>2, <2>1, <2>2, <2>3
  <2>5. Frame(rnti[d], k, p) \in CurrentFrame(d)
    BY <2>1, <2>2, <2>4 DEF CurrentFrame, Frame, UplinkFrame
  <2> QED BY <1>2, <2>5, FrameQueueStep DEF NasSend
<1> QED BY <1>1, <1>2 DEF NasSend

LEMMA SendUpCurrent ==
    ASSUME LiveInv, NEW b \in Stations, NEW p \in UplinkPacket, NEW q \in CurrentQueues,
           SendS1ap(b, p, q) \/ SendDataUp(b, p, q)
    PROVE  ulq' \in CurrentQueues /\ nas' = nas
<1>1. CASE b \in Wired
  BY <1>1, Topology DEF SendS1ap, SendDataUp, nasVars
<1>2. CASE b \in Iab
  <2>1. NasSend(b, p, 1, q) /\ b \in Devices /\ 1 \in Bids
    BY <1>2, Topology DEF SendS1ap, SendDataUp, Bids
  <2> QED BY <2>1, NasSendCurrent
<1> QED BY <1>1, <1>2, Topology

LEMMA RelayDataLive ==
    ASSUME LiveInv, BranchInv', NEW d \in Devices, RelayData(d)
    PROVE  LiveInv'
<1> DEFINE p == Head(ulq[d]).pkt
           q == [ulq EXCEPT ![d] = Tail(@)]
<1>1. /\ ulq[d] # <<>> /\ SendDataUp(Parent[d], p, q)
      /\ UNCHANGED <<ueVars, srbVars, cellVars, appVars>>
  BY DEF RelayData
<1>2. q \in CurrentQueues /\ p \in UplinkPacket /\ Parent[d] \in Stations
  BY <1>1, HeadFrame, Topology DEF CurrentFrame, UplinkFrame
<1> HIDE DEF p, q
<1>3. ulq' \in CurrentQueues /\ nas' = nas
  BY <1>1, <1>2, SendUpCurrent
<1> QED BY <1>1, <1>3, PacketsLive DEF cellVars

LEMMA RecvUeDataLive ==
    ASSUME LiveInv, BranchInv', NEW d \in Devices, RecvUeData(d)
    PROVE  LiveInv'
<1> DEFINE f == Head(ulq[d])
           t == TunnelOf(Parent[d], f)
           p == [f.pkt EXCEPT !.teid = t]
           q == [ulq EXCEPT ![d] = Tail(@)]
<1>1. /\ ulq[d] # <<>> /\ UNCHANGED <<ueVars, srbVars, cellVars, appVars>>
      /\ SendDataUp(Parent[d], p, q) \/ (ulq' = q /\ UNCHANGED nasVars)
  BY DEF RecvUeData
<1>2. /\ q \in CurrentQueues /\ f \in UplinkFrame /\ Parent[d] \in Stations
  BY <1>1, HeadFrame, Topology DEF CurrentFrame
<1>3. t \in Teids \cup {0}
  <2>1. f.rnti \in Rntis /\ f.bid \in Bids
    BY <1>2 DEF UplinkFrame
  <2>2. rbidTeid \in [Stations -> [Rntis -> [Bids -> Teids \cup {0}]]]
    BY LiveTypes
  <2> HIDE DEF f
  <2> QED BY <1>2, <2>1, <2>2 DEF TunnelOf
<1> HIDE DEF t, q
<1>4. p \in UplinkPacket
  BY <1>2, <1>3 DEF UplinkFrame, UplinkPacket, InitialUeMessage, DataPacket
<1> HIDE DEF p, f
<1>5. ulq' \in CurrentQueues /\ nas' = nas
  BY <1>1, <1>2, <1>4, SendUpCurrent DEF nasVars
<1> QED BY <1>1, <1>5, PacketsLive DEF cellVars

LEMMA UeSendLive ==
    ASSUME LiveInv, BranchInv', NEW u \in Ue, NEW k \in Bids, UeSend(u, k)
    PROVE  LiveInv'
<1> DEFINE p == [type |-> "Data", ue |-> u, bid |-> k, teid |-> 0]
<1>1. NasSend(u, p, k, ulq) /\ UNCHANGED <<ueVars, srbVars, cellVars, appVars>>
  BY DEF UeSend
<1>2. p \in UplinkPacket /\ u \in Devices /\ ulq \in CurrentQueues
  BY Topology DEF UplinkPacket, DataPacket, LiveInv, CurrentInv
<1> HIDE DEF p
<1>3. ulq' \in CurrentQueues /\ nas' = nas
  BY <1>1, <1>2, NasSendCurrent
<1> QED BY <1>1, <1>3, PacketsLive DEF cellVars

LEMMA LoseUplinkLive ==
    ASSUME LiveInv, BranchInv', NEW d \in Devices, LoseUplink(d)
    PROVE  LiveInv'
<1>1. /\ ulq[d] # <<>> /\ ulq' = [ulq EXCEPT ![d] = Tail(@)]
      /\ UNCHANGED <<ueVars, nasVars, srbVars, cellVars, appVars>>
  BY DEF LoseUplink
<1> QED BY <1>1, HeadFrame, PacketsLive DEF cellVars, nasVars

\* A message is relayed on a bearer of a connected child, and noted with it.
LEMMA RelayInitialUeMessageLive ==
    ASSUME LiveInv, BranchInv', NEW d \in Devices, RelayInitialUeMessage(d)
    PROVE  LiveInv'
<1> DEFINE b == Parent[d]
           f == Head(ulq[d])
           m == f.pkt
           e == m.imsi
           rb == [rnti |-> f.rnti, bid |-> f.bid]
           p == [m EXCEPT !.parents = @ \cup AddParent(b)]
           q == [ulq EXCEPT ![d] = Tail(@)]
<1>1. /\ ulq[d] # <<>> /\ m.type = "InitialUeMessage"
      /\ imsiLocalRbid' = [imsiLocalRbid EXCEPT ![b][e] = rb]
      /\ SendS1ap(b, p, q)
      /\ UNCHANGED <<ueVars, srbVars, ueMap, rntiLocalImsi, imsiIab, rbidTeid, teidRbid,
                     teidRemote>>
  BY DEF RelayInitialUeMessage, cellVars
<1>2. /\ b \in Stations /\ q \in CurrentQueues /\ f \in CurrentFrame(d)
      /\ f \in UplinkFrame /\ UeOf(b, f.rnti) = d
  BY <1>1, HeadFrame, Topology DEF UplinkFrameOf
<1>3. m \in InitialUeMessage /\ rb \in Rbid /\ e \in Devices
  BY <1>1, <1>2 DEF UplinkFrame, UplinkPacket, DataPacket, InitialUeMessage, Rbid
<1>4. Permanent(b, rb)
  BY <1>2 DEF CurrentFrame, Permanent, Served, UeOf, UplinkFrame
<1>5. p \in UplinkPacket
  BY <1>3 DEF UplinkPacket, InitialUeMessage, AddParent
<1> HIDE DEF b, m, e, rb, p, q
<1>6. ulq' \in CurrentQueues /\ nas' = nas
  BY <1>1, <1>2, <1>5, SendUpCurrent
<1>7. \A x \in Stations, y \in Devices :
         imsiLocalRbid'[x][y] = IF x = b /\ y = e THEN rb ELSE imsiLocalRbid[x][y]
  <2>1. /\ imsiLocalRbid' = [imsiLocalRbid EXCEPT ![b][e] = rb]
        /\ imsiLocalRbid \in [Stations -> [Devices -> Rbid]]
    BY <1>1, LiveTypes
  <2> QED BY <1>1, <1>2, <1>3, <2>1, UpdateTwice
<1>8. ASSUME NEW x \in Stations, NEW y \in Devices, imsiLocalRbid'[x][y] # NoRbid
      PROVE  Permanent(x, imsiLocalRbid'[x][y])
  BY <1>4, <1>7, <1>8 DEF LiveInv, ChildInv
<1>9. ChildInv'
  BY <1>1, <1>8 DEF ChildInv, Permanent, ueVars
<1> QED BY <1>1, <1>6, <1>9, SameLives

(***************************************************************************)
(* RRC connection.                                                         *)
(***************************************************************************)

\* What a step has to show of the connections it touches.
LEMMA ConnectionStep ==
    ASSUME LiveInv, BranchInv', Calm, ChildInv', LivesInv', ulq' \in CurrentQueues,
           \A d \in Devices : Attached(d)' /\ CurrentSrbs(d)',
           \A b \in Stations, r \in Rntis : Contexts(b, r)'
    PROVE  LiveInv'
<1>1. ulq' \in CurrentQueues'
  BY FramesStay
<1> QED BY <1>1 DEF LiveInv, AttachedInv, CurrentInv, ContextInv

\* An idle device has nothing on its SRBs, and the RNTI it gets is a fresh one.
LEMMA RandomAccessLive ==
    ASSUME LiveInv, BranchInv', NEW d \in Devices, RandomAccess(d)
    PROVE  LiveInv'
<1> DEFINE b == Parent[d]
           r == lastRnti[b] + 1
           v == NewUeManager(d)
           m == Rrc("ConnectionRequest", r, 0)
<1>1. /\ rrc[d] = "IDLE" /\ r \in Rntis
      /\ rrc' = [rrc EXCEPT ![d] = "CONNECTING"]
      /\ rnti' = [rnti EXCEPT ![d] = r]
      /\ ueMap' = [ueMap EXCEPT ![b][r] = v]
      /\ srbUl' = [srbUl EXCEPT ![d] = Append(@, m)]
      /\ UNCHANGED <<drbs, nas, srbDl, ulq, appVars>>
  BY DEF RandomAccess, nasVars
<1>2. b \in Stations /\ lastRnti[b] \in Nat
  BY LiveParts, Topology DEF TypeInv, TypeOK, CellTypes, Rntis
<1>3. /\ rrc \in [Devices -> {"IDLE", "CONNECTING", "CONNECTED"}]
      /\ rnti \in [Devices -> Rntis \cup {0}] /\ drbs[d] = 0
  BY <1>1, LiveParts DEF TypeInv, TypeOK, DeviceTypes, LinkInv, Linked
<1>4. ueMap[b][r].ue = None
  BY <1>1, <1>2, LiveParts DEF TypeInv, UeMapInv, UeKnown, UeOf
<1>5. ueMap[b][r].drbs = 0
  BY <1>1, <1>2, <1>4, Topology DEF LiveInv, ContextInv, Contexts
<1>6. v.ue = d /\ v.state = "INITIAL_RANDOM_ACCESS" /\ v.drbs = 0 /\ ~v.pending /\ v \in UeManager
  BY Topology DEF NewUeManager, NoUeManager, UeManager, UeManagerState
<1>7. m \in RrcMessage /\ m.rnti = r /\ m.type = "ConnectionRequest"
  BY <1>1 DEF Rrc, RrcMessage
<1> HIDE DEF b, r, v, m
<1>8. \A x \in Stations, y \in Rntis :
         ueMap'[x][y] = IF x = b /\ y = r THEN v ELSE ueMap[x][y]
  <2>1. ueMap' = [ueMap EXCEPT ![b][r] = v] /\ ueMap \in [Stations -> [Rntis -> UeManager]]
    BY <1>1, LiveTypes
  <2> QED BY <1>2, <1>6, <2>1, UpdateTwice
<1>9. Calm
  BY <1>1, <1>3, <1>4, <1>5, <1>8 DEF Calm, appVars
<1>10. ASSUME NEW x \in Devices PROVE Attached(x)' /\ CurrentSrbs(x)'
  <2>1. CASE x = d
    <3>1. srbUl[d] = <<>> /\ srbDl[d] = <<>> /\ nas[d] # "ACTIVE"
      BY <1>1 DEF LiveInv, AttachedInv, Attached
    <3>2. rrc'[d] = "CONNECTING" /\ rnti'[d] = r /\ ueMap'[Parent[d]][r] = v
      BY <1>1, <1>2, <1>3, <1>8 DEF b
    <3>3. Attached(d)'
      BY <1>1, <1>3, <1>6, <3>1, <3>2 DEF Attached, Served
    <3>4. m \in CurrentUl(d)'
      BY <1>7, <3>2 DEF CurrentUl
    <3>5. srbUl'[d] = Append(<<>>, m) /\ srbDl'[d] = <<>>
      BY <1>1, <3>1, LiveTypes
    <3>6. CurrentSrbs(d)'
      BY <3>4, <3>5, AppendQueue, EmptyQueues DEF CurrentSrbs
    <3> QED BY <2>1, <3>3, <3>6
  <2>2. CASE x # d
    <3>1. /\ rrc'[x] = rrc[x] /\ rnti'[x] = rnti[x] /\ srbUl'[x] = srbUl[x]
          /\ srbDl'[x] = srbDl[x] /\ nas'[x] = nas[x] /\ drbs'[x] = drbs[x]
      BY <1>1, <2>2
    <3>2. rrc[x] # "IDLE" => rnti[x] \in Rntis /\ ueMap[Parent[x]][rnti[x]].state # "NONE"
      BY LiveParts DEF TypeInv, LinkInv, Linked, LiveInv, AttachedInv, Attached, Served
    <3>3. rrc[x] # "IDLE" => ueMap'[Parent[x]][rnti[x]].state # "NONE"
      BY <1>6, <1>8, <3>2, Topology
    <3>4. Attached(x)'
      BY <1>9, <3>1, <3>3, AttachedStays
    <3> QED BY <1>9, <3>1, <3>4, SrbsStay
  <2> QED BY <2>1, <2>2
<1>11. ASSUME NEW x \in Stations, NEW y \in Rntis PROVE Contexts(x, y)'
  <2>1. CASE x = b /\ y = r
    BY <1>6, <1>8, <2>1 DEF Contexts
  <2>2. CASE ~(x = b /\ y = r)
    BY <1>1, <1>8, <1>9, <2>2, ContextStays DEF appVars
  <2> QED BY <2>1, <2>2
<1>12. ChildInv' /\ LivesInv'
  <2>1. \A x \in Stations, y \in Rntis :
           ueMap[x][y].state # "NONE" => ueMap'[x][y].state # "NONE"
    BY <1>6, <1>8
  <2> QED BY <1>1, <1>9, <2>1, ChildStays, LivesStay DEF appVars
<1>13. ulq' \in CurrentQueues
  BY <1>1 DEF LiveInv, CurrentInv
<1> QED BY <1>9, <1>10, <1>11, <1>12, <1>13, ConnectionStep

\* A message on SRB1 or SRB0 of a device is for the RNTI it uses.
LEMMA HeadSrb ==
    ASSUME LiveInv, NEW d \in Devices
    PROVE  /\ srbUl[d] # <<>> => /\ Head(srbUl[d]) \in CurrentUl(d)
                                 /\ Tail(srbUl[d]) \in Seq(CurrentUl(d))
           /\ srbDl[d] # <<>> => /\ Head(srbDl[d]) \in CurrentDl(d)
                                 /\ Tail(srbDl[d]) \in Seq(CurrentDl(d))
BY TakeQueue DEF LiveInv, CurrentInv, CurrentSrbs

\* Cell b puts v in place of the UeManager of RNTI r, which it already had.
Renewed(b, r, v) ==
    /\ v.ue = ueMap[b][r].ue /\ v.drbs = ueMap[b][r].drbs
    /\ v.state # "NONE" /\ ueMap[b][r].state # "NONE"
    /\ v.pending => ueMap[b][r].pending
    /\ v.state \in {"CONNECTED_NORMALLY", "CONNECTION_RECONFIGURATION"} =>
           rrc[v.ue] = "CONNECTED" /\ rnti[v.ue] = r
    /\ ueMap' = [ueMap EXCEPT ![b][r] = v]
    /\ \A x \in Stations, y \in Rntis :
           rntiLocalImsi[x][y] \in Devices => rntiLocalImsi'[x][y] = rntiLocalImsi[x][y]
    /\ UNCHANGED <<ueVars, imsiIab, rbidTeid, teidRbid, teidRemote>>

\* A cell puts a UeManager of the same device and bearers in place of another.
LEMMA ManagerStep ==
    ASSUME LiveInv, NEW b \in Stations, NEW r \in Rntis, NEW v \in UeManager, Renewed(b, r, v)
    PROVE  /\ Calm /\ LivesInv'
           /\ \A x \in Stations, y \in Rntis : Contexts(x, y)'
           /\ \A d \in Devices : nas'[d] = nas[d] /\
                 (rrc[d] = "IDLE" => srbUl'[d] = srbUl[d] /\ srbDl'[d] = srbDl[d])
                 => Attached(d)'
<1>1. \A x \in Stations, y \in Rntis :
         ueMap'[x][y] = IF x = b /\ y = r THEN v ELSE ueMap[x][y]
  BY LiveTypes, UpdateTwice DEF Renewed
<1>2. Calm
  BY <1>1 DEF Calm, ueVars, Renewed
<1>3. \A x \in Stations, y \in Rntis :
         ueMap[x][y].state # "NONE" => ueMap'[x][y].state # "NONE"
  BY <1>1 DEF Renewed
<1>4. LivesInv'
  BY <1>2, <1>3, LivesStay DEF Renewed
<1>5. ASSUME NEW x \in Stations, NEW y \in Rntis PROVE Contexts(x, y)'
  <2>1. CASE x = b /\ y = r
    <3>1. Contexts(b, r)
      BY DEF LiveInv, ContextInv
    <3>2. ueMap'[b][r] = v
      BY <1>1
    <3> QED BY <2>1, <3>1, <3>2 DEF Contexts, ueVars, Renewed
  <2>2. CASE ~(x = b /\ y = r)
    BY <1>1, <1>2, <2>2, ContextStays DEF Renewed
  <2> QED BY <2>1, <2>2
<1>6. ASSUME NEW d \in Devices, nas'[d] = nas[d],
             rrc[d] = "IDLE" => srbUl'[d] = srbUl[d] /\ srbDl'[d] = srbDl[d]
      PROVE  Attached(d)'
  <2>1. rrc[d] # "IDLE" => rnti[d] \in Rntis /\ ueMap[Parent[d]][rnti[d]].state # "NONE"
    BY LiveParts DEF TypeInv, LinkInv, Linked, LiveInv, AttachedInv, Attached, Served
  <2>2. rrc[d] # "IDLE" => ueMap'[Parent[d]][rnti[d]].state # "NONE"
    BY <1>3, <2>1, Topology
  <2> QED BY <1>2, <1>6, <2>2, AttachedStays DEF ueVars, Renewed
<1> QED BY <1>2, <1>4, <1>5, <1>6

LEMMA RecvConnectionRequestLive ==
    ASSUME LiveInv, BranchInv', NEW d \in Devices, RecvConnectionRequest(d)
    PROVE  LiveInv'
<1> DEFINE b == Parent[d]
           r == Head(srbUl[d]).rnti
           u == ueMap[b][r]
           v == [u EXCEPT !.state = "CONNECTION_SETUP"]
           m == [type |-> "InitialUeMessage", imsi |-> d, gci |-> b, parents |-> AddParent(b)]
           s == Rrc("ConnectionSetup", r, 0)
<1>1. /\ srbUl[d] # <<>> /\ u.state = "INITIAL_RANDOM_ACCESS"
      /\ srbUl' = [srbUl EXCEPT ![d] = Tail(@)]
      /\ rntiLocalImsi' = [rntiLocalImsi EXCEPT ![b][r] = d]
      /\ SendS1ap(b, m, ulq)
      /\ srbDl' = [srbDl EXCEPT ![d] = Append(@, s)]
      /\ ueMap' = [ueMap EXCEPT ![b][r] = v]
      /\ UNCHANGED <<ueVars, imsiIab, rbidTeid, teidRbid, teidRemote, imsiLocalRbid>>
  BY DEF RecvConnectionRequest
<1>2. /\ b \in Stations /\ r \in Rntis /\ u \in UeManager /\ u.ue = d
  BY <1>1, HeadRnti, LiveParts, Topology DEF UeOf
<1>3. r = rnti[d] /\ rrc[d] # "IDLE"
  <2>1. r = rnti[d]
    BY <1>1, HeadSrb DEF CurrentUl
  <2> QED BY <1>1, <2>1 DEF LiveInv, AttachedInv, Attached
<1>4. m \in UplinkPacket /\ s \in RrcMessage /\ s.rnti = r /\ s.type = "ConnectionSetup"
  BY <1>2 DEF UplinkPacket, InitialUeMessage, AddParent, Rrc, RrcMessage
<1>5. /\ v \in UeManager /\ v.ue = u.ue /\ v.drbs = u.drbs /\ v.pending = u.pending
      /\ v.state = "CONNECTION_SETUP"
  BY <1>2 DEF UeManager, UeManagerState
<1>6. Keeps
  BY RecvConnectionRequestKeeps, LiveParts
<1> HIDE DEF r, u, v, m, s
<1>7. ulq' \in CurrentQueues /\ nas' = nas
  BY <1>1, <1>2, <1>4, SendUpCurrent DEF LiveInv, CurrentInv
<1>8. /\ Calm /\ LivesInv'
      /\ \A x \in Stations, y \in Rntis : Contexts(x, y)'
      /\ \A x \in Devices : nas'[x] = nas[x] /\
            (rrc[x] = "IDLE" => srbUl'[x] = srbUl[x] /\ srbDl'[x] = srbDl[x])
            => Attached(x)'
  <2>1. Renewed(b, r, v)
    BY <1>1, <1>5, <1>6 DEF Keeps, Renewed, u
  <2> QED BY <1>2, <1>5, <2>1, ManagerStep
<1>9. rntiLocalImsi'[b][r] = d /\ rnti'[d] = rnti[d]
  BY <1>1, <1>2, LiveTypes, UpdateTwice DEF ueVars
<1>10. ASSUME NEW x \in Devices PROVE Attached(x)' /\ CurrentSrbs(x)'
  <2>1. CASE x = d
    <3>1. srbUl'[d] = Tail(srbUl[d]) /\ srbDl'[d] = Append(srbDl[d], s)
      BY <1>1, LiveTypes
    <3>2. Tail(srbUl[d]) \in Seq(CurrentUl(d)')
      BY <1>1, <1>8, <1>9, HeadSrb, CurrentStays, SeqMonotonic
    <3>3. s \in CurrentDl(d)'
      BY <1>3, <1>4, <1>9 DEF CurrentDl
    <3>4. srbDl[d] \in Seq(CurrentDl(d)')
      BY <1>8, <1>9, SrbsStay
    <3>5. CurrentSrbs(d)'
      BY <3>1, <3>2, <3>3, <3>4, AppendQueue DEF CurrentSrbs
    <3> QED BY <1>3, <1>7, <1>8, <2>1, <3>5
  <2>2. CASE x # d
    BY <1>1, <1>7, <1>8, <2>2, SrbsStay DEF ueVars
  <2> QED BY <2>1, <2>2
<1>11. ChildInv'
  BY <1>1, <1>8, ChildStays
<1> QED BY <1>7, <1>8, <1>10, <1>11, ConnectionStep

\* The NAS becomes ACTIVE in the step in which the device is connected.
LEMMA RecvConnectionSetupLive ==
    ASSUME LiveInv, BranchInv', NEW d \in Devices, RecvConnectionSetup(d)
    PROVE  LiveInv'
<1> DEFINE m == Rrc("ConnectionSetupCompleted", rnti[d], 0)
<1>1. /\ srbDl[d] # <<>> /\ rrc[d] = "CONNECTING"
      /\ srbDl' = [srbDl EXCEPT ![d] = Tail(@)]
      /\ rrc' = [rrc EXCEPT ![d] = "CONNECTED"] /\ nas' = [nas EXCEPT ![d] = "ACTIVE"]
      /\ srbUl' = [srbUl EXCEPT ![d] = Append(@, m)]
      /\ UNCHANGED <<rnti, drbs, ulq, ueMap, appVars>>
  BY DEF RecvConnectionSetup, cellVars
<1>2. /\ rrc \in [Devices -> {"IDLE", "CONNECTING", "CONNECTED"}]
      /\ nas \in [Devices -> {"OFF", "ACTIVE"}]
      /\ rnti[d] \in Rntis /\ drbs[d] = 0
  BY <1>1, LiveParts DEF TypeInv, TypeOK, DeviceTypes, NasTypes, LinkInv, Linked
<1>3. /\ m \in RrcMessage /\ m.rnti = rnti[d] /\ m.type = "ConnectionSetupCompleted"
  BY <1>2 DEF Rrc, RrcMessage
<1>4. rntiLocalImsi[Parent[d]][rnti[d]] = d
  BY <1>1, HeadSrb DEF CurrentDl
<1> HIDE DEF m
<1>5. Calm
  BY <1>1, <1>2 DEF Calm, appVars
<1>6. ASSUME NEW x \in Devices PROVE Attached(x)' /\ CurrentSrbs(x)'
  <2>1. CASE x = d
    <3>1. srbUl'[d] = Append(srbUl[d], m) /\ srbDl'[d] = Tail(srbDl[d]) /\ rrc'[d] = "CONNECTED"
      BY <1>1, <1>2, LiveTypes
    <3>2. Tail(srbDl[d]) \in Seq(CurrentDl(d)')
      BY <1>1, <1>5, HeadSrb, CurrentStays, SeqMonotonic
    <3>3. m \in CurrentUl(d)'
      BY <1>1, <1>3, <3>1 DEF CurrentUl
    <3>4. srbUl[d] \in Seq(CurrentUl(d)')
      BY <1>1, <1>5, SrbsStay
    <3>5. CurrentSrbs(d)'
      BY <3>1, <3>2, <3>3, <3>4, AppendQueue DEF CurrentSrbs
    <3>6. Attached(d)'
      BY <1>1, <1>2, <1>4, <3>1 DEF Attached, Served, appVars, LiveInv, AttachedInv
    <3> QED BY <2>1, <3>5, <3>6
  <2>2. CASE x # d
    <3>1. /\ rrc'[x] = rrc[x] /\ nas'[x] = nas[x]
          /\ srbUl'[x] = srbUl[x] /\ srbDl'[x] = srbDl[x]
      BY <1>1, <2>2
    <3>2. rrc[x] # "IDLE" => ueMap'[Parent[x]][rnti[x]].state # "NONE"
      BY <1>1 DEF LiveInv, AttachedInv, Attached, Served
    <3>3. Attached(x)'
      BY <1>1, <1>5, <3>1, <3>2, AttachedStays
    <3> QED BY <1>1, <1>5, <3>1, <3>3, SrbsStay
  <2> QED BY <2>1, <2>2
<1>7. ASSUME NEW x \in Stations, NEW y \in Rntis PROVE Contexts(x, y)'
  BY <1>1, <1>5, ContextStays DEF appVars
<1>8. ChildInv' /\ LivesInv'
  BY <1>1, <1>5, ChildStays, LivesStay DEF appVars
<1>9. ulq' \in CurrentQueues
  BY <1>1 DEF LiveInv, CurrentInv
<1> QED BY <1>5, <1>6, <1>7, <1>8, <1>9, ConnectionStep

\* The cell of d handles what d sends once it is connected.
LEMMA ConnectedLive ==
    ASSUME LiveInv, BranchInv', NEW d \in Devices, NEW r \in Rntis, NEW v \in UeManager,
           srbUl[d] # <<>>, Head(srbUl[d]).rnti = r,
           Head(srbUl[d]).type # "ConnectionRequest",
           ueMap[Parent[d]][r].state # "NONE", v.state # "NONE",
           v.ue = ueMap[Parent[d]][r].ue, v.drbs = ueMap[Parent[d]][r].drbs, ~v.pending,
           srbUl' = [srbUl EXCEPT ![d] = Tail(@)],
           ueMap' = [ueMap EXCEPT ![Parent[d]][r] = v],
           srbDl' = [srbDl EXCEPT ![d] = @ \o Reconfiguration(ueMap[Parent[d]][r], r)],
           UNCHANGED <<ueVars, nas, ulq, appVars>>
    PROVE  LiveInv'
<1> DEFINE b == Parent[d]
           u == ueMap[b][r]
<1>1. /\ b \in Stations /\ u \in UeManager /\ u.ue = d
  BY HeadRnti, LiveParts, Topology DEF UeOf
<1>2. rnti[d] = r /\ rrc[d] = "CONNECTED"
  BY HeadSrb DEF CurrentUl
<1>3. rntiLocalImsi[b][r] = d
  BY <1>2 DEF LiveInv, AttachedInv, Attached
<1>4. /\ Calm /\ LivesInv'
      /\ \A x \in Stations, y \in Rntis : Contexts(x, y)'
      /\ \A x \in Devices : nas'[x] = nas[x] /\
            (rrc[x] = "IDLE" => srbUl'[x] = srbUl[x] /\ srbDl'[x] = srbDl[x])
            => Attached(x)'
  <2>1. \A x \in Stations, y \in Rntis : rntiLocalImsi'[x][y] = rntiLocalImsi[x][y]
    BY DEF appVars
  <2>2. UNCHANGED <<ueVars, imsiIab, rbidTeid, teidRbid, teidRemote>>
    BY DEF appVars
  <2>3. v.pending => ueMap[b][r].pending
    OBVIOUS
  <2>4. /\ v.ue = ueMap[b][r].ue /\ v.drbs = ueMap[b][r].drbs
        /\ ueMap' = [ueMap EXCEPT ![b][r] = v] /\ ueMap[b][r].state # "NONE"
    OBVIOUS
  <2>5. rrc[v.ue] = "CONNECTED" /\ rnti[v.ue] = r
    BY <1>1, <1>2
  <2>6. \A x \in Stations, y \in Rntis :
           rntiLocalImsi[x][y] \in Devices => rntiLocalImsi'[x][y] = rntiLocalImsi[x][y]
    BY <2>1
  <2> HIDE DEF b, u
  <2>7. Renewed(b, r, v)
    BY <2>2, <2>3, <2>4, <2>5, <2>6 DEF Renewed
  <2> QED BY <1>1, <2>7, ManagerStep
<1>5. Reconfiguration(u, r) \in Seq(CurrentDl(d)')
  <2>1. CASE ~u.pending
    BY <2>1, EmptyQueues DEF Reconfiguration
  <2>2. CASE u.pending
    <3> DEFINE m == Rrc("ConnectionReconfiguration", r, u.drbs)
    <3>1. u.drbs # 0 /\ u.drbs \in Nat /\ m \in RrcMessage
      BY <1>1, <2>2, Topology DEF LiveInv, ContextInv, Contexts, UeManager, Rrc, RrcMessage, Bids
    <3>2. m.rnti = r /\ m.drbs = u.drbs
      BY DEF Rrc
    <3> HIDE DEF m
    <3>3. ueMap'[b][r].drbs = u.drbs
      BY <1>1, <3>1, <1>4 DEF Calm
    <3>4. rnti'[d] = r /\ rntiLocalImsi'[b][r] = d
      BY <1>2, <1>3 DEF ueVars, appVars
    <3>5. m \in CurrentDl(d)'
      BY <3>1, <3>2, <3>3, <3>4 DEF CurrentDl, Served
    <3>6. Reconfiguration(u, r) = <<m>>
      BY <2>2 DEF Reconfiguration, m
    <3> QED BY <3>5, <3>6
  <2> QED BY <2>1, <2>2
<1>6. ASSUME NEW x \in Devices PROVE Attached(x)' /\ CurrentSrbs(x)'
  <2>1. CASE x = d
    <3>1. srbUl'[d] = Tail(srbUl[d]) /\ srbDl'[d] = srbDl[d] \o Reconfiguration(u, r)
      BY LiveTypes
    <3>2. Tail(srbUl[d]) \in Seq(CurrentUl(d)')
      BY <1>4, HeadSrb, CurrentStays, SeqMonotonic DEF ueVars
    <3>3. srbDl[d] \in Seq(CurrentDl(d)')
      BY <1>4, SrbsStay DEF ueVars
    <3>4. srbDl'[d] \in Seq(CurrentDl(d)')
      <4>1. srbDl[d] \o Reconfiguration(u, r) \in Seq(CurrentDl(d)')
        BY <1>5, <3>3, ConcatProperties
      <4> QED BY <3>1, <4>1
    <3> QED BY <1>2, <1>4, <2>1, <3>1, <3>2, <3>4 DEF CurrentSrbs
  <2>2. CASE x # d
    BY <1>4, <2>2, SrbsStay DEF ueVars
  <2> QED BY <2>1, <2>2
<1>7. ChildInv'
  BY <1>4, ChildStays DEF appVars
<1>8. ulq' \in CurrentQueues
  <2>1. ulq' = ulq /\ ulq \in CurrentQueues
    BY DEF LiveInv, CurrentInv
  <2> HIDE DEF CurrentQueues
  <2> QED BY <2>1
<1> QED BY <1>4, <1>6, <1>7, <1>8, ConnectionStep

LEMMA RecvConnectionSetupCompletedLive ==
    ASSUME LiveInv, BranchInv', NEW d \in Devices, RecvConnectionSetupCompleted(d)
    PROVE  LiveInv'
<1> DEFINE b == Parent[d]
           r == Head(srbUl[d]).rnti
           u == ueMap[b][r]
           v == ConnectedNormally(u)
<1>1. /\ srbUl[d] # <<>> /\ Head(srbUl[d]).type = "ConnectionSetupCompleted"
      /\ Head(srbUl[d]).type # "ConnectionRequest" /\ u.state # "NONE"
      /\ srbUl' = [srbUl EXCEPT ![d] = Tail(@)] /\ ueMap' = [ueMap EXCEPT ![b][r] = v]
      /\ srbDl' = [srbDl EXCEPT ![d] = @ \o Reconfiguration(u, r)]
      /\ UNCHANGED <<ueVars, nas, ulq, appVars>>
  BY DEF RecvConnectionSetupCompleted, nasVars
<1>2. r \in Rntis /\ u \in UeManager
  <2>1. srbUl[d] # <<>>
    BY <1>1
  <2> QED BY <2>1, HeadRnti, LiveParts
<1>3. v \in UeManager /\ v.ue = u.ue /\ v.state # "NONE" /\ v.drbs = u.drbs /\ ~v.pending
  <2> HIDE DEF u
  <2> QED BY <1>2, ConnectedNormallyUe DEF ConnectedNormally, UeManager
<1> HIDE DEF v, r
<1> QED BY <1>1, <1>2, <1>3, ConnectedLive, Zenon DEF r, u

LEMMA RecvReconfigurationCompletedLive ==
    ASSUME LiveInv, BranchInv', NEW d \in Devices, RecvReconfigurationCompleted(d)
    PROVE  LiveInv'
<1> DEFINE b == Parent[d]
           r == Head(srbUl[d]).rnti
           u == ueMap[b][r]
           c == ConnectedNormally(u)
           v == Reconfigured(u)
<1>1. /\ srbUl[d] # <<>> /\ Head(srbUl[d]).type = "ConnectionReconfigurationCompleted"
      /\ Head(srbUl[d]).type # "ConnectionRequest" /\ u.state # "NONE"
      /\ srbUl' = [srbUl EXCEPT ![d] = Tail(@)] /\ ueMap' = [ueMap EXCEPT ![b][r] = v]
      /\ srbDl' = [srbDl EXCEPT ![d] = @ \o Reconfiguration(u, r)]
      /\ UNCHANGED <<ueVars, nas, ulq, appVars>>
  BY DEF RecvReconfigurationCompleted, nasVars
<1>2. r \in Rntis /\ u \in UeManager
  <2>1. srbUl[d] # <<>>
    BY <1>1
  <2> QED BY <2>1, HeadRnti, LiveParts
<1>3. c \in UeManager /\ c.ue = u.ue /\ c.state # "NONE" /\ c.drbs = u.drbs /\ ~c.pending
  <2> HIDE DEF u
  <2> QED BY <1>2, ConnectedNormallyUe DEF ConnectedNormally, UeManager
<1>4. v = [c EXCEPT !.numIab = IF u.needIab THEN 1 ELSE @]
  BY DEF Reconfigured
<1> HIDE DEF v, c
<1>5. v \in UeManager /\ v.ue = u.ue /\ v.state # "NONE" /\ v.drbs = u.drbs /\ ~v.pending
  BY <1>3, <1>4 DEF UeManager
<1> HIDE DEF r
<1> QED BY <1>1, <1>2, <1>5, ConnectedLive, Zenon DEF r, u

\* The bearers a reconfiguration brings are bearers the cell has set up.
LEMMA RecvReconfigurationLive ==
    ASSUME LiveInv, BranchInv', NEW d \in Devices, RecvReconfiguration(d)
    PROVE  LiveInv'
<1> DEFINE n == Head(srbDl[d]).drbs
           flush == IF n > drbs[d] THEN nasBuffer[d] ELSE <<>>
           sent == {i \in DOMAIN flush : BearerOf(d, flush[i]) <= n}
           m == Rrc("ConnectionReconfigurationCompleted", rnti[d], 0)
           frame(p) == Frame(rnti[d], BearerOf(d, p), p)
<1>1. /\ srbDl[d] # <<>> /\ Head(srbDl[d]).type = "ConnectionReconfiguration"
      /\ rrc[d] = "CONNECTED"
      /\ srbDl' = [srbDl EXCEPT ![d] = Tail(@)] /\ drbs' = [drbs EXCEPT ![d] = n]
      /\ UNCHANGED <<rrc, rnti, nas, ueMap, appVars>>
      /\ \/ UNCHANGED <<ulq, srbUl>>
         \/ /\ \E order \in [1 .. Cardinality(sent) -> sent] :
                  ulq' = [ulq EXCEPT ![d] = @ \o [x \in DOMAIN order |-> frame(flush[order[x]])]]
            /\ srbUl' = [srbUl EXCEPT ![d] = Append(@, m)]
  BY DEF RecvReconfiguration, cellVars, nasVars
<1>2. /\ rnti[d] \in Rntis /\ Parent[d] \in Stations /\ n \in Bids \cup {0}
      /\ n \in 1 .. Served(d).drbs /\ drbs \in [Devices -> Bids \cup {0}]
  <2>1. Head(srbDl[d]) \in CurrentDl(d)
    BY <1>1, HeadSrb
  <2>2. n \in Bids \cup {0} /\ n \in 1 .. Served(d).drbs
    BY <1>1, <2>1 DEF CurrentDl, RrcMessage
  <2> QED BY <1>1, <2>2, LiveParts, Topology DEF TypeInv, TypeOK, DeviceTypes, LinkInv, Linked
<1>3. /\ m \in RrcMessage /\ m.rnti = rnti[d] /\ m.type = "ConnectionReconfigurationCompleted"
  BY <1>2 DEF Rrc, RrcMessage
<1>4. flush \in Seq(UplinkPacketOf(d))
  BY EmptyQueues, LiveParts DEF TypeInv, QueueInv, NasBuffers
<1>5. Calm
  BY <1>1 DEF Calm, appVars
<1> HIDE DEF m, flush, n
<1>6. ASSUME NEW i \in sent PROVE frame(flush[i]) \in CurrentFrame(d)
  <2>1. i \in 1 .. Len(flush) /\ BearerOf(d, flush[i]) <= n
    BY <1>4
  <2>2. flush[i] \in UplinkPacketOf(d)
    BY <1>4, <2>1
  <2>3. flush[i] \in UplinkPacket /\ BearerOf(d, flush[i]) \in Bids
    BY <2>2, Topology DEF UplinkPacketOf, UplinkPacket, DataPacket, InitialUeMessage, BearerOf, Bids
  <2> DEFINE k == BearerOf(d, flush[i])
  <2>4. k \in 1 .. Served(d).drbs
    <3>1. Served(d).drbs \in Nat /\ k \in Nat /\ k # 0
      <4>1. Served(d) \in UeManager
        BY <1>2, LiveTypes DEF Served
      <4> QED BY <2>3, <4>1, Topology DEF UeManager, Bids
    <3> QED BY <1>2, <2>1, <3>1
  <2> HIDE DEF k
  <2>5. Frame(rnti[d], k, flush[i]) \in CurrentFrame(d)
    BY <1>1, <1>2, <2>3, <2>4 DEF CurrentFrame, Frame, UplinkFrame, k
  <2> QED BY <2>5 DEF k
<1> HIDE DEF frame, sent
<1>7. ulq' \in CurrentQueues
  <2>1. CASE ulq' = ulq
    BY <2>1 DEF LiveInv, CurrentInv
  <2>2. ASSUME NEW order \in [1 .. Cardinality(sent) -> sent],
               ulq' = [ulq EXCEPT ![d] = @ \o [x \in DOMAIN order |-> frame(flush[order[x]])]]
        PROVE  ulq' \in CurrentQueues
    <3> DEFINE s == [x \in DOMAIN order |-> frame(flush[order[x]])]
    <3>1. Cardinality(sent) \in Nat
      <4>1. IsFiniteSet(1 .. Len(flush)) /\ sent \subseteq 1 .. Len(flush)
        BY <1>4, FS_Interval DEF sent
      <4> QED BY <4>1, FS_Subset, FS_CardinalityType
    <3>2. s \in [1 .. Cardinality(sent) -> CurrentFrame(d)]
      BY <1>6
    <3>3. s \in Seq(CurrentFrame(d))
      BY <3>1, <3>2, FunctionIsSeq
    <3> HIDE DEF s
    <3>4. [ulq EXCEPT ![d] = @ \o s] \in CurrentQueues
      BY <3>3, FrameQueueStep DEF LiveInv, CurrentInv
    <3> QED BY <2>2, <3>4 DEF s
  <2> QED BY <1>1, <2>1, <2>2
<1>8. ASSUME NEW x \in Devices PROVE Attached(x)' /\ CurrentSrbs(x)'
  <2>1. CASE x = d
    <3>1. drbs'[d] = n /\ srbDl'[d] = Tail(srbDl[d]) /\ srbUl'[d] \in {srbUl[d], Append(srbUl[d], m)}
      BY <1>1, <1>2, LiveTypes
    <3>2. Tail(srbDl[d]) \in Seq(CurrentDl(d)')
      BY <1>1, <1>5, HeadSrb, CurrentStays, SeqMonotonic
    <3>3. m \in CurrentUl(d)'
      BY <1>1, <1>3 DEF CurrentUl
    <3>4. srbUl[d] \in Seq(CurrentUl(d)')
      BY <1>1, <1>5, SrbsStay
    <3>5. CurrentSrbs(d)'
      BY <3>1, <3>2, <3>3, <3>4, AppendQueue DEF CurrentSrbs
    <3>6. Served(d)' = Served(d) /\ n <= Served(d).drbs
      BY <1>1, <1>2 DEF Served
    <3>7. Attached(d)'
      BY <1>1, <3>1, <3>6 DEF Attached, LiveInv, AttachedInv, appVars
    <3> QED BY <2>1, <3>5, <3>7
  <2>2. CASE x # d
    <3>1. /\ drbs'[x] = drbs[x] /\ srbUl'[x] = srbUl[x] /\ srbDl'[x] = srbDl[x]
      BY <1>1, <1>2, <2>2, LiveTypes
    <3>2. rrc[x] # "IDLE" => ueMap'[Parent[x]][rnti[x]].state # "NONE"
      BY <1>1 DEF LiveInv, AttachedInv, Attached, Served
    <3>3. Attached(x)'
      BY <1>1, <1>5, <3>1, <3>2, AttachedStays
    <3> QED BY <1>1, <1>5, <3>1, <3>3, SrbsStay
  <2> QED BY <2>1, <2>2
<1>9. ASSUME NEW x \in Stations, NEW y \in Rntis PROVE Contexts(x, y)'
  BY <1>1, <1>5, ContextStays DEF appVars
<1>10. ChildInv' /\ LivesInv'
  BY <1>1, <1>5, ChildStays, LivesStay DEF appVars
<1> QED BY <1>5, <1>7, <1>8, <1>9, <1>10, ConnectionStep

\* A device that gives up was not connected, so nothing it sent is on the air.
LEMMA ConnectionTimeoutLive ==
    ASSUME LiveInv, BranchInv', NEW d \in Devices, ConnectionTimeout(d)
    PROVE  LiveInv'
<1>1. /\ rrc[d] = "CONNECTING"
      /\ rrc' = [rrc EXCEPT ![d] = "IDLE"] /\ rnti' = [rnti EXCEPT ![d] = 0]
      /\ srbUl' = [srbUl EXCEPT ![d] = <<>>] /\ srbDl' = [srbDl EXCEPT ![d] = <<>>]
      /\ UNCHANGED <<drbs, nas, ulq, ueMap, appVars>>
  BY DEF ConnectionTimeout, cellVars, nasVars
<1>2. /\ rrc \in [Devices -> {"IDLE", "CONNECTING", "CONNECTED"}]
      /\ rnti \in [Devices -> Rntis \cup {0}] /\ drbs[d] = 0
  BY <1>1, LiveParts DEF TypeInv, TypeOK, DeviceTypes, LinkInv, Linked
<1>3. Calm
  BY <1>1, <1>2 DEF Calm, appVars
<1>4. ASSUME NEW x \in Devices PROVE Attached(x)' /\ CurrentSrbs(x)'
  <2>1. CASE x = d
    <3>1. srbUl'[d] = <<>> /\ srbDl'[d] = <<>> /\ rrc'[d] = "IDLE"
      BY <1>1, <1>2, LiveTypes
    <3>2. Attached(d)'
      BY <1>1, <1>2, <3>1 DEF Attached, LiveInv, AttachedInv
    <3> QED BY <2>1, <3>1, <3>2, EmptyQueues DEF CurrentSrbs
  <2>2. CASE x # d
    <3>1. /\ rrc'[x] = rrc[x] /\ rnti'[x] = rnti[x]
          /\ srbUl'[x] = srbUl[x] /\ srbDl'[x] = srbDl[x]
      BY <1>1, <2>2
    <3>2. rrc[x] # "IDLE" => ueMap'[Parent[x]][rnti[x]].state # "NONE"
      BY <1>1 DEF LiveInv, AttachedInv, Attached, Served
    <3>3. Attached(x)'
      BY <1>1, <1>3, <3>1, <3>2, AttachedStays
    <3> QED BY <1>3, <3>1, <3>3, SrbsStay
  <2> QED BY <2>1, <2>2
<1>5. ASSUME NEW x \in Stations, NEW y \in Rntis PROVE Contexts(x, y)'
  BY <1>1, <1>3, ContextStays DEF appVars
<1>6. ChildInv' /\ LivesInv'
  BY <1>1, <1>3, ChildStays, LivesStay DEF appVars
<1>7. ulq' \in CurrentQueues
  BY <1>1 DEF LiveInv, CurrentInv
<1> QED BY <1>3, <1>4, <1>5, <1>6, <1>7, ConnectionStep

\* Nobody uses the RNTI, and its own routes go with it.
LEMMA RemoveUeLive ==
    ASSUME LiveInv, BranchInv', NEW b \in Stations, NEW r \in Rntis, RemoveUe(b, r)
    PROVE  LiveInv'
<1> DEFINE u == ueMap[b][r]
           v == [u EXCEPT !.state = "NONE"]
<1>1. /\ u.state # "NONE" /\ rnti[u.ue] # r
      /\ ueMap' = [ueMap EXCEPT ![b][r] = v]
      /\ teidRbid' = [teidRbid EXCEPT ![b] =
                         [t \in Teids |-> IF t \in ReleasedTeids(b, r) THEN NoRbid ELSE @[t]]]
      /\ rbidTeid' = [rbidTeid EXCEPT ![b][r] = NoTeids]
      /\ UNCHANGED <<ueVars, nas, srbVars, ulq, rntiLocalImsi, imsiIab, teidRemote,
                     imsiLocalRbid>>
  BY DEF RemoveUe, nasVars
<1>2. /\ u \in UeManager /\ v \in UeManager /\ v.ue = u.ue /\ v.drbs = u.drbs
      /\ v.pending = u.pending /\ v.state = "NONE"
  <2>1. u \in UeManager
    BY LiveTypes
  <2> HIDE DEF u
  <2> QED BY <2>1 DEF UeManager, UeManagerState
<1> HIDE DEF v
<1>3. \A x \in Stations, y \in Rntis :
         ueMap'[x][y] = IF x = b /\ y = r THEN v ELSE ueMap[x][y]
  BY <1>1, <1>2, LiveTypes, UpdateTwice
<1>4. \A x \in Stations, y \in Rntis :
         rbidTeid'[x][y] = IF x = b /\ y = r THEN NoTeids ELSE rbidTeid[x][y]
  <2>1. NoTeids \in [Bids -> Teids \cup {0}]
    BY DEF NoTeids
  <2> QED BY <1>1, <2>1, LiveTypes, UpdateTwice
<1>5. \A x \in Stations, t \in Teids :
         teidRbid'[x][t] = IF x = b /\ t \in ReleasedTeids(b, r) THEN NoRbid ELSE teidRbid[x][t]
  BY <1>1, LiveTypes
<1>6. Calm
  BY <1>1, <1>2, <1>3 DEF Calm, ueVars
<1>7. ASSUME NEW d \in Devices PROVE Attached(d)' /\ CurrentSrbs(d)'
  <2>1. rrc[d] # "IDLE" => /\ rnti[d] \in Rntis /\ UeOf(Parent[d], rnti[d]) = d
                           /\ ueMap[Parent[d]][rnti[d]].state # "NONE"
    BY LiveParts DEF TypeInv, LinkInv, Linked, LiveInv, AttachedInv, Attached, Served
  <2>2. rrc[d] # "IDLE" => ueMap'[Parent[d]][rnti[d]].state # "NONE"
    BY <1>1, <1>3, <2>1, Topology DEF UeOf
  <2>3. Attached(d)'
    BY <1>1, <1>6, <2>2, AttachedStays DEF ueVars, srbVars
  <2> QED BY <1>1, <1>6, <2>3, SrbsStay DEF ueVars, srbVars
<1>8. ASSUME NEW x \in Stations, NEW y \in Rntis PROVE Contexts(x, y)'
  <2>1. CASE x = b /\ y = r
    <3>1. Contexts(b, r) /\ ueMap'[b][r] = v
      BY <1>3 DEF LiveInv, ContextInv
    <3> QED BY <1>2, <2>1, <3>1 DEF Contexts
  <2>2. CASE ~(x = b /\ y = r)
    BY <1>1, <1>3, <1>4, <1>6, <2>2, ContextStays
  <2> QED BY <2>1, <2>2
<1>9. ChildInv'
  BY <1>1, <1>6, ChildStays
<1>10. ASSUME NEW x \in Stations, NEW t \in Teids PROVE Lives(x, t)'
  <2>1. CASE x = b /\ t \in ReleasedTeids(b, r)
    BY <1>5, <2>1 DEF Lives, HasTeid
  <2>2. CASE ~(x = b /\ t \in ReleasedTeids(b, r))
    <3> DEFINE rb == teidRbid[x][t]
    <3>1. teidRbid'[x][t] = teidRbid[x][t]
      BY <1>5, <2>2
    <3>2. ASSUME HasTeid(x, t), Held(x, t)
          PROVE  ueMap'[x][rb.rnti].state # "NONE" /\ rbidTeid'[x][rb.rnti] = rbidTeid[x][rb.rnti]
      <4>1. rb.rnti \in Rntis /\ rb.bid \in Bids
        BY <3>2, LiveTypes DEF HasTeid, Rbid
      <4>2. rbidTeid[x][rb.rnti][rb.bid] = t /\ ueMap[x][rb.rnti].state # "NONE"
        BY <3>2 DEF Held
      <4>3. ~(x = b /\ rb.rnti = r)
        BY <2>2, <4>1, <4>2 DEF ReleasedTeids
      <4> QED BY <1>3, <1>4, <4>1, <4>2, <4>3
    <3> HIDE DEF rb
    <3> QED BY <1>1, <1>6, <3>1, <3>2, LivesStays DEF rb
  <2> QED BY <2>1, <2>2
<1>11. ulq' \in CurrentQueues
  BY <1>1 DEF LiveInv, CurrentInv
<1> QED BY <1>6, <1>7, <1>8, <1>9, <1>10, <1>11, ConnectionStep DEF LivesInv

(***************************************************************************)
(* Context setup.                                                          *)
(***************************************************************************)

\* A request names each bearer of its device once, with a TEID of its own.
LEMMA RequestExact ==
    ASSUME TypeInv, NEW m \in Request
    PROVE  /\ Cardinality(m.erabs) = NumBearers[m.imsi] /\ NumBearers[m.imsi] \in Bids
           /\ BidsOf(m) = 1 .. NumBearers[m.imsi]
           /\ \A t \in TeidsOf(m) :
                 BidOf(m, t) \in BidsOf(m) /\ TeidFor(m, BidOf(m, t)) = t
<1>1. PICK first \in 0 .. Len(session) : Granted(m, first)
  BY DEF Request
<1> DEFINE n == NumBearers[m.imsi]
           f == [k \in 1 .. n |-> <<k, first + k>>]
<1>2. n \in Bids /\ n \in Nat /\ m.imsi \in Devices
  BY RequestBearers, Topology DEF Bids
<1>3. m.erabs = {<<k, first + k>> : k \in 1 .. n} /\ first \in Nat
  <2>1. Len(session) \in Nat
    BY LenProperties DEF TypeInv, TypeOK, CoreTypes
  <2> QED BY <1>1, <2>1 DEF Granted
<1>4. Cardinality(m.erabs) = n
  <2>1. f \in Bijection(1 .. n, m.erabs)
    BY <1>2, <1>3 DEF Bijection, Injection, Surjection, IsInjective
  <2>2. ExistsBijection(1 .. n, m.erabs)
    BY <2>1 DEF ExistsBijection
  <2> QED BY <1>2, <2>2, FS_CountingElements
<1> HIDE DEF n, f
<1>5. BidsOf(m) = 1 .. n
  <2>1. ASSUME NEW k \in 1 .. n PROVE k \in BidsOf(m)
    <3>1. <<k, first + k>> \in m.erabs
      BY <1>3
    <3> QED BY <3>1 DEF BidsOf
  <2>2. ASSUME NEW k \in BidsOf(m) PROVE k \in 1 .. n
    BY <1>3, <2>2 DEF BidsOf
  <2> QED BY <2>1, <2>2
<1>6. ASSUME NEW t \in TeidsOf(m) PROVE BidOf(m, t) \in BidsOf(m) /\ TeidFor(m, BidOf(m, t)) = t
  <2>1. t \in Teids /\ session[t].bid = BidOf(m, t) /\ BidOf(m, t) \in Bids
    BY RequestOwner, RequestBearers
  <2>2. PICK k \in 1 .. n : t = first + k
    BY <1>3 DEF TeidsOf
  <2>3. k \in Bids
    BY <1>2, <2>2, Topology DEF Bids
  <2>4. \A j \in Bids, s \in Teids : <<j, s>> \in m.erabs <=> j \in 1 .. n /\ s = first + j
    <3> SUFFICES ASSUME NEW j \in Bids, NEW s \in Teids
                 PROVE  <<j, s>> \in m.erabs <=> j \in 1 .. n /\ s = first + j
      OBVIOUS
    <3>1. ASSUME <<j, s>> \in m.erabs PROVE j \in 1 .. n /\ s = first + j
      <4>1. PICK i \in 1 .. n : <<j, s>> = <<i, first + i>>
        BY <1>3, <3>1
      <4> QED BY <4>1
    <3> QED BY <1>3, <3>1
  <2>5. <<BidOf(m, t), t>> \in m.erabs
    <3>1. <<k, t>> \in m.erabs
      BY <2>1, <2>2, <2>3, <2>4
    <3> QED BY <2>3, <3>1 DEF BidOf
  <2>6. <<BidOf(m, t), TeidFor(m, BidOf(m, t))>> \in m.erabs /\ TeidFor(m, BidOf(m, t)) \in Teids
    BY <2>1, <2>5 DEF TeidFor
  <2>7. BidOf(m, t) \in 1 .. n /\ t = first + BidOf(m, t)
    BY <2>1, <2>4, <2>5
  <2>8. TeidFor(m, BidOf(m, t)) = first + BidOf(m, t)
    BY <2>1, <2>4, <2>6
  <2> QED BY <1>5, <2>7, <2>8
<1> QED BY <1>2, <1>4, <1>5, <1>6 DEF n

\* An abort leaves what LiveInv speaks of alone.
LEMMA AbortLive ==
    ASSUME LiveInv, BranchInv', NEW why, NEW q, AbortContextSetup(why, q),
           UNCHANGED <<ueVars, nasVars, srbUl, ulq>>
    PROVE  LiveInv'
BY PacketsLive DEF AbortContextSetup, cellVars, srbVars, nasVars, LiveInv, CurrentInv

\* A forwarded TEID leads to a bearer of a child, which never goes.
LEMMA ForwardIabS1apReplyLive ==
    ASSUME LiveInv, BranchInv', NEW b \in Stations, NEW m \in Request, NEW q,
           UNCHANGED <<ueVars, nasVars, srbUl, ulq>>, ForwardIabS1apReply(b, m, q)
    PROVE  LiveInv'
<1> DEFINE d == m.imsi
           rb == imsiLocalRbid[b][d]
           r == imsiRnti[b][d]
           n == Cardinality(children[b][r] \ (IF m.iab THEN {} ELSE {d}))
           u == ueMap[b][r]
           v == [u EXCEPT !.numIab = n]
           kind == IF m.iab THEN "iab" ELSE "ue"
<1>1. CASE AbortContextSetup("IMSI not found", q)
  BY <1>1, AbortLive
<1>2. CASE /\ r # 0 /\ rb # NoRbid
           /\ imsiIab' = [imsiIab EXCEPT ![b][d] = kind]
           /\ ueMap' = [ueMap EXCEPT ![b][r] = v]
           /\ teidRbid' = [teidRbid EXCEPT ![b] =
                              [t \in Teids |-> IF t \in TeidsOf(m) THEN rb ELSE @[t]]]
           /\ teidRemote' = [teidRemote EXCEPT ![b] = @ \cup TeidsOf(m)]
           /\ UNCHANGED <<srbDl, rntiLocalImsi, rbidTeid, imsiLocalRbid>>
  <2> USE <1>2
  <2>1. d \in Devices /\ r \in Rntis /\ rb \in Rbid /\ kind \in {"unknown", "iab", "ue"} /\ kind # "unknown"
    BY RequestBearers, LiveParts, LiveTypes
  <2>2. Permanent(b, rb)
    BY <2>1 DEF LiveInv, ChildInv
  <2>3. \A x \in Stations, y \in Rntis :
           /\ ueMap'[x][y].ue = ueMap[x][y].ue /\ ueMap'[x][y].drbs = ueMap[x][y].drbs
           /\ ueMap'[x][y].state = ueMap[x][y].state
           /\ ueMap'[x][y].pending = ueMap[x][y].pending
    <3>1. u \in UeManager
      BY <2>1, LiveTypes
    <3>2. v.ue = u.ue /\ v.drbs = u.drbs /\ v.state = u.state /\ v.pending = u.pending
      BY <3>1 DEF UeManager
    <3>3. ueMap' = [ueMap EXCEPT ![b] = [@ EXCEPT ![r] = v]]
      OBVIOUS
    <3> HIDE DEF v, n
    <3>4. \A x \in Stations, y \in Rntis :
             ueMap'[x][y] = IF x = b /\ y = r THEN v ELSE ueMap[x][y]
      BY <2>1, <3>3, LiveTypes
    <3>5. ASSUME NEW x \in Stations, NEW y \in Rntis
          PROVE  /\ ueMap'[x][y].ue = ueMap[x][y].ue /\ ueMap'[x][y].drbs = ueMap[x][y].drbs
                 /\ ueMap'[x][y].state = ueMap[x][y].state
                 /\ ueMap'[x][y].pending = ueMap[x][y].pending
      <4>1. CASE x = b /\ y = r
        BY <3>2, <3>4, <4>1
      <4>2. CASE ~(x = b /\ y = r)
        BY <3>4, <4>2
      <4> QED BY <4>1, <4>2
    <3> QED BY <3>5
  <2> HIDE DEF n, u, v, kind, rb, r
  <2>4. \A x \in Stations, y \in Devices :
           imsiIab'[x][y] = IF x = b /\ y = d THEN kind ELSE imsiIab[x][y]
    BY <2>1, LiveTypes, UpdateTwice
  <2>5. \A x \in Stations, t \in Teids :
           teidRbid'[x][t] = IF x = b /\ t \in TeidsOf(m) THEN rb ELSE teidRbid[x][t]
    BY LiveTypes
  <2>6. \A x \in Stations, t \in Teids :
           t \in teidRemote'[x] <=> t \in teidRemote[x] \/ (x = b /\ t \in TeidsOf(m))
    BY LiveTypes
  <2>7. Calm
    BY <2>3 DEF Calm, ueVars
  <2>8. ASSUME NEW x \in Devices PROVE Attached(x)' /\ CurrentSrbs(x)'
    <3>1. rrc[x] # "IDLE" => rnti[x] \in Rntis /\ ueMap[Parent[x]][rnti[x]].state # "NONE"
      BY LiveParts DEF TypeInv, LinkInv, Linked, LiveInv, AttachedInv, Attached, Served
    <3>2. rrc[x] # "IDLE" => ueMap'[Parent[x]][rnti[x]].state # "NONE"
      BY <2>3, <3>1, Topology
    <3>3. Attached(x)'
      BY <2>7, <3>2, AttachedStays DEF ueVars, nasVars
    <3> QED BY <2>7, <3>3, SrbsStay DEF ueVars
  <2>9. ASSUME NEW x \in Stations, NEW y \in Rntis PROVE Contexts(x, y)'
    <3>1. Contexts(x, y)
      BY DEF LiveInv, ContextInv
    <3>2. \A z \in Devices : imsiIab[x][z] # "unknown" => imsiIab'[x][z] # "unknown"
      BY <2>1, <2>4
    <3>3. UNCHANGED <<rrc, rnti, rbidTeid>>
      BY DEF ueVars
    <3> HIDE <1>2
    <3> QED BY <2>3, <3>1, <3>2, <3>3 DEF Contexts
  <2>10. ASSUME NEW x \in Stations, NEW t \in Teids PROVE Lives(x, t)'
    <3>1. CASE x = b /\ t \in TeidsOf(m)
      <4>1. teidRbid'[b][t] = rb /\ t \in teidRemote'[b]
        BY <2>5, <2>6, <3>1
      <4>2. PICK z \in Rbid : z = rb
        BY <2>1
      <4>3. Permanent(b, z)'
        BY <2>2, <2>7, <4>2, PermanentStays
      <4> QED BY <3>1, <4>1, <4>2, <4>3 DEF Lives, Permanent
    <3>2. CASE ~(x = b /\ t \in TeidsOf(m))
      <4>1. teidRbid'[x][t] = teidRbid[x][t] /\ (t \in teidRemote'[x] <=> t \in teidRemote[x])
        BY <2>5, <2>6, <3>2
      <4>2. HasTeid(x, t) => teidRbid[x][t].rnti \in Rntis
        BY LiveTypes DEF HasTeid, Rbid
      <4> QED BY <2>3, <2>7, <4>1, <4>2, LivesStays DEF Held
    <3> QED BY <3>1, <3>2
  <2>11. ChildInv' /\ ulq' \in CurrentQueues
    BY <2>7, ChildStays DEF LiveInv, CurrentInv
  <2> QED BY <2>7, <2>8, <2>9, <2>10, <2>11, ConnectionStep DEF LivesInv
<1> QED BY <1>1, <1>2 DEF ForwardIabS1apReply, MarkedRemote, ForwardedTeids

\* A route of the cell's own is written with the bearer and the context it
\* leads to; the UeManager had no bearer before.
LEMMA SetupContextLive ==
    ASSUME LiveInv, BranchInv', NEW b \in Stations, NEW m \in Request,
           m.imsi \notin remoteImsi[b], NEW q,
           UNCHANGED <<ueVars, nasVars, srbUl, ulq>>, SetupContext(b, m, q)
    PROVE  LiveInv'
<1> DEFINE d == m.imsi
           r == imsiRnti[b][d]
           u == ueMap[b][r]
           v == WithBearers(u, m)
           idle == u.state = "CONNECTED_NORMALLY"
           kind == IF imsiIab[b][d] # "unknown" THEN imsiIab[b][d] ELSE IF m.iab THEN "iab" ELSE "ue"
           row == [k \in Bids |-> IF k \in BidsOf(m) THEN TeidFor(m, k) ELSE rbidTeid[b][r][k]]
           rbid(t) == [rnti |-> r, bid |-> BidOf(m, t)]
           s == Rrc("ConnectionReconfiguration", r, 1)
<1>1. ASSUME NEW why, AbortContextSetup(why, q) PROVE LiveInv'
  BY <1>1, AbortLive
<1>2. CASE /\ r # 0 /\ u.state # "NONE" /\ u.drbs = 0
           /\ imsiIab' = [imsiIab EXCEPT ![b][d] = kind]
           /\ rbidTeid' = [rbidTeid EXCEPT ![b][r] = row]
           /\ teidRbid' = [teidRbid EXCEPT ![b] =
                              [t \in Teids |-> IF t \in TeidsOf(m) THEN rbid(t) ELSE @[t]]]
           /\ ueMap' = [ueMap EXCEPT ![b][r] = v]
           /\ srbDl' = IF idle THEN [srbDl EXCEPT ![d] = Append(@, s)] ELSE srbDl
           /\ UNCHANGED <<rntiLocalImsi, teidRemote, imsiLocalRbid>>
  <2> USE <1>2
  <2>1. d \in Devices /\ r \in Rntis /\ u \in UeManager /\ (m.iab <=> d \in Iab)
    <3>1. d \in Devices /\ (m.iab <=> d \in Iab)
      BY RequestBearers, LiveParts DEF Request
    <3>2. r \in Rntis \cup {0}
      BY <3>1, LiveTypes
    <3>3. r \in Rntis
      BY <3>2
    <3> HIDE <1>2
    <3> QED BY <3>1, <3>3, LiveTypes
  <2>2. u.ue = d /\ Parent[d] = b
    <3>1. TypeInv /\ d # None
      BY <2>1, LiveParts, Topology
    <3>2. UeOf(b, r) = d
      BY <2>1, <3>1 DEF TypeInv, OwnInv
    <3>3. UeKnown(b, r)
      BY <2>1, <3>1 DEF TypeInv, UeMapInv
    <3> QED BY <3>1, <3>2, <3>3 DEF UeKnown, UeOf
  <2>3. /\ BidsOf(m) = 1 .. NumBearers[d] /\ NumBearers[d] \in Bids
        /\ Cardinality(m.erabs) = NumBearers[d]
    BY LiveParts, RequestExact
  <2>4. /\ v \in UeManager /\ v.ue = d /\ v.drbs = NumBearers[d] /\ v.state # "NONE"
        /\ v.state = IF idle THEN "CONNECTION_RECONFIGURATION" ELSE u.state
    <3>1. v \in UeManager /\ v.ue = d /\ v.state # "NONE"
      BY <2>1, <2>2, LiveParts, WithBearersUe
    <3>2. v.drbs = NumBearers[d] /\ v.state = IF idle THEN "CONNECTION_RECONFIGURATION" ELSE u.state
      BY <2>1, <2>3 DEF WithBearers, UeManager
    <3> QED BY <3>1, <3>2
  <2>5. NumBearers[d] # 0 /\ NumBearers[d] \in Nat
    <3>1. NumBearers[d] \in Bids
      BY <2>1, Topology
    <3> HIDE <1>2
    <3> QED BY <3>1, Topology DEF Bids
  <2>6. kind \in {"unknown", "iab", "ue"} /\ kind # "unknown"
    <3> HIDE <1>2
    <3>1. imsiIab[b][d] \in {"unknown", "iab", "ue"}
      BY <2>1, LiveTypes
    <3> QED BY <3>1
  <2>7. row \in [Bids -> Teids \cup {0}] /\ \A k \in BidsOf(m) : row[k] # 0 /\ row[k] = TeidFor(m, k)
    <3> HIDE <1>2
    <3>1. \A k \in BidsOf(m) : k \in Bids /\ TeidFor(m, k) \in Teids
      BY RequestBearers, LiveParts
    <3>2. rbidTeid[b][r] \in [Bids -> Teids \cup {0}]
      BY <2>1, LiveTypes
    <3>3. \A k \in BidsOf(m) : TeidFor(m, k) # 0
      BY <3>1, Topology DEF Teids
    <3> QED BY <3>1, <3>2, <3>3
  <2> HIDE DEF v, kind, row, r, u
  <2>8. \A x \in Stations, y \in Rntis :
           ueMap'[x][y] = IF x = b /\ y = r THEN v ELSE ueMap[x][y]
    BY <2>1, <2>4, LiveTypes, UpdateTwice
  <2>9. \A x \in Stations, y \in Devices :
           imsiIab'[x][y] = IF x = b /\ y = d THEN kind ELSE imsiIab[x][y]
    <3>1. imsiIab \in [Stations -> [Devices -> {"unknown", "iab", "ue"}]]
      BY LiveTypes
    <3>2. imsiIab' = [imsiIab EXCEPT ![b][d] = kind]
      OBVIOUS
    <3> HIDE <1>2
    <3> QED BY <2>1, <2>6, <3>1, <3>2, UpdateTwice
  <2>10. \A x \in Stations, y \in Rntis :
           rbidTeid'[x][y] = IF x = b /\ y = r THEN row ELSE rbidTeid[x][y]
    BY <2>1, <2>7, LiveTypes, UpdateTwice
  <2>11. \A x \in Stations, t \in Teids :
           teidRbid'[x][t] = IF x = b /\ t \in TeidsOf(m) THEN rbid(t) ELSE teidRbid[x][t]
    BY LiveTypes
  <2> HIDE DEF rbid
  <2>12. ueMap[b][r] = u
    BY DEF u
  <2>13. Calm
    BY <2>2, <2>4, <2>8, <2>12 DEF Calm, ueVars
  <2>14. v.state \in {"CONNECTED_NORMALLY", "CONNECTION_RECONFIGURATION"} =>
            rrc[d] = "CONNECTED" /\ rnti[d] = r
    BY <2>1, <2>2, <2>4, <2>12 DEF LiveInv, ContextInv, Contexts
  <2>15. ASSUME NEW x \in Devices PROVE Attached(x)' /\ CurrentSrbs(x)'
    <3>1. rrc[x] # "IDLE" => rnti[x] \in Rntis /\ ueMap[Parent[x]][rnti[x]].state # "NONE"
      BY LiveParts DEF TypeInv, LinkInv, Linked, LiveInv, AttachedInv, Attached, Served
    <3>2. rrc[x] # "IDLE" => ueMap'[Parent[x]][rnti[x]].state # "NONE"
      BY <2>4, <2>8, <3>1, Topology
    <3>3. CASE x = d /\ idle
      <4>1. rrc[d] = "CONNECTED" /\ rnti[d] = r
        BY <2>4, <2>14, <3>3
      <4>2. rntiLocalImsi'[Parent[d]][r] = d
        BY <2>1, <4>1 DEF LiveInv, AttachedInv, Attached
      <4>3. s \in RrcMessage /\ s.rnti = r /\ s.drbs = 1
        BY <2>1, <2>5, Topology DEF Rrc, RrcMessage, Bids
      <4>4. 1 \in 1 .. Served(d)'.drbs
        BY <2>1, <2>2, <2>4, <2>5, <2>8, <4>1 DEF Served, ueVars
      <4> HIDE DEF s
      <4>5. s \in CurrentDl(d)'
        BY <4>1, <4>2, <4>3, <4>4 DEF CurrentDl, ueVars
      <4>6. srbDl'[d] = Append(srbDl[d], s)
        BY <2>1, <3>3, LiveTypes
      <4>7. srbUl[d] \in Seq(CurrentUl(d)') /\ srbDl[d] \in Seq(CurrentDl(d)')
        BY <2>1, <2>13, SrbsStay DEF ueVars
      <4>8. CurrentSrbs(d)'
        BY <4>5, <4>6, <4>7, AppendQueue DEF CurrentSrbs
      <4>9. Attached(d)'
        BY <2>1, <2>13, <3>2, <3>3, <4>1, AttachedStays DEF ueVars, nasVars
      <4> QED BY <3>3, <4>8, <4>9
    <3>4. CASE ~(x = d /\ idle)
      <4>1. srbDl'[x] = srbDl[x] /\ srbUl'[x] = srbUl[x]
        BY <3>4
      <4>2. Attached(x)'
        BY <2>13, <3>2, <4>1, AttachedStays DEF ueVars, nasVars
      <4> QED BY <2>13, <4>1, <4>2, SrbsStay DEF ueVars
    <3> QED BY <3>3, <3>4
  <2>16. ASSUME NEW x \in Stations, NEW y \in Rntis PROVE Contexts(x, y)'
    <3>1. CASE x = b /\ y = r
      <4>1. imsiIab'[b][d] # "unknown" /\ rbidTeid'[b][r] = row /\ ueMap'[b][r] = v
        BY <2>1, <2>6, <2>8, <2>9, <2>10
      <4>2. \A k \in 1 .. v.drbs : row[k] # 0
        BY <2>3, <2>4, <2>7
      <4> QED BY <2>1, <2>4, <2>5, <2>14, <3>1, <4>1, <4>2 DEF Contexts, ueVars
    <3>2. CASE ~(x = b /\ y = r)
      <4>1. \A z \in Devices : imsiIab[x][z] # "unknown" => imsiIab'[x][z] # "unknown"
        BY <2>6, <2>9
      <4> QED BY <2>8, <2>10, <2>13, <3>2, <4>1, ContextStays
    <3> QED BY <3>1, <3>2
  <2>17. ASSUME NEW x \in Stations, NEW t \in Teids PROVE Lives(x, t)'
    <3>1. CASE x = b /\ t \in TeidsOf(m)
      <4>1. t \notin teidRemote[b]
        <5>1. Owner(t) = d
          BY <3>1, RequestOwner, LiveParts
        <5> QED BY <5>1, LiveParts DEF RouteInv, MapInv, RemoteOwner
      <4>2. BidOf(m, t) \in BidsOf(m) /\ TeidFor(m, BidOf(m, t)) = t
        BY <3>1, RequestExact, LiveParts
      <4>3. /\ teidRbid'[b][t].rnti = r /\ teidRbid'[b][t].bid = BidOf(m, t)
            /\ ueMap'[b][r] = v /\ rbidTeid'[b][r] = row
        <5>1. t \in Teids /\ teidRbid'[b][t] = rbid(t)
          BY <2>11, <3>1
        <5>2. rbid(t).rnti = r /\ rbid(t).bid = BidOf(m, t)
          BY DEF rbid
        <5> QED BY <2>1, <2>8, <2>10, <5>1, <5>2
      <4>4. Held(b, t)'
        BY <2>3, <2>4, <2>7, <4>2, <4>3 DEF Held
      <4> QED BY <3>1, <4>1, <4>4 DEF Lives
    <3>2. CASE ~(x = b /\ t \in TeidsOf(m))
      <4> DEFINE rb == teidRbid[x][t]
      <4>1. teidRbid'[x][t] = teidRbid[x][t]
        BY <2>11, <3>2
      <4>2. ASSUME HasTeid(x, t), Held(x, t)
            PROVE  ueMap'[x][rb.rnti].state # "NONE" /\ rbidTeid'[x][rb.rnti] = rbidTeid[x][rb.rnti]
        <5>1. rb.rnti \in Rntis
          BY <4>2, LiveTypes DEF HasTeid, Rbid
        <5>2. rb.bid \in 1 .. ueMap[x][rb.rnti].drbs /\ ueMap[x][rb.rnti].state # "NONE"
          BY <4>2 DEF Held
        <5>3. ~(x = b /\ rb.rnti = r)
          BY <2>12, <5>2
        <5> HIDE DEF rb
        <5> QED BY <2>8, <2>10, <5>1, <5>2, <5>3
      <4> HIDE DEF rb
      <4> QED BY <2>13, <4>1, <4>2, LivesStays DEF rb
    <3> QED BY <3>1, <3>2
  <2>18. ChildInv' /\ ulq' \in CurrentQueues
    BY <2>13, ChildStays DEF LiveInv, CurrentInv
  <2> QED BY <2>13, <2>15, <2>16, <2>17, <2>18, ConnectionStep DEF LivesInv
<1> QED BY <1>1, <1>2 DEF SetupContext

LEMMA RecvFromS1apSocketLive ==
    ASSUME LiveInv, BranchInv', NEW b \in Stations, NEW m \in Request, NEW q,
           UNCHANGED <<ueVars, nasVars, srbUl, ulq>>, RecvFromS1apSocket(b, m, q)
    PROVE  LiveInv'
BY ForwardIabS1apReplyLive, SetupContextLive DEF RecvFromS1apSocket

LEMMA WiredRecvS1apLive ==
    ASSUME LiveInv, BranchInv', NEW w \in Wired, WiredRecvS1ap(w)
    PROVE  LiveInv'
<1> DEFINE m == Head(s1Down[w])
<1>1. /\ s1Down[w] # <<>> /\ RecvFromS1apSocket(w, m, dlq)
      /\ UNCHANGED <<ueVars, nasVars, srbUl, ulq>>
  BY DEF WiredRecvS1ap
<1>2. w \in Stations /\ s1Down \in [Wired -> Seq(Request)]
  BY LiveParts, Topology DEF TypeInv, QueueInv, Requests
<1>3. m \in Request
  BY <1>1, <1>2, TakeQueue
<1> HIDE DEF m
<1> QED BY <1>1, <1>2, <1>3, RecvFromS1apSocketLive

LEMMA IabRecvS1apLive ==
    ASSUME LiveInv, BranchInv', NEW i \in Iab, IabRecvS1ap(i)
    PROVE  LiveInv'
<1> DEFINE m == Head(dlq[i]).pkt
           q == [dlq EXCEPT ![i] = Tail(@)]
<1>1. /\ dlq[i] # <<>> /\ m.type = "InitialContextSetupRequest"
      /\ RecvFromS1apSocket(i, m, q) /\ UNCHANGED <<ueVars, nasVars, srbUl, ulq>>
  BY DEF IabRecvS1ap
<1>2. i \in Stations /\ i \in Devices
  BY Topology
<1>3. m \in Request
  BY <1>1, <1>2, HeadRight, LiveParts DEF RequestFrame, DataPacket
<1> HIDE DEF m, q
<1> QED BY <1>1, <1>2, <1>3, RecvFromS1apSocketLive

LEMMA LiveInvStep == LiveInv /\ [Next]_vars => LiveInv'
<1> SUFFICES ASSUME LiveInv, [Next]_vars PROVE LiveInv'
  OBVIOUS
<1> USE DEF cellVars, nasVars
<1>1. BranchInv'
  BY BranchInvStep, LiveParts
<1>2. ASSUME UNCHANGED <<ueVars, nas, srbVars, ulq, cellVars, appVars>> PROVE LiveInv'
  <2>1. ulq' \in CurrentQueues
    BY <1>2 DEF LiveInv, CurrentInv
  <2> QED BY <1>1, <1>2, <2>1, PacketsLive
<1>3. ASSUME NEW d \in Devices, Connect(d) PROVE LiveInv'
  BY <1>1, <1>3, RandomAccessLive, RecvConnectionRequestLive, RecvConnectionSetupLive,
     RecvConnectionSetupCompletedLive, RecvReconfigurationLive,
     RecvReconfigurationCompletedLive DEF Connect
<1>4. ASSUME NEW d \in Devices, Uplink(d) PROVE LiveInv'
  BY <1>1, <1>4, RelayInitialUeMessageLive, RelayDataLive, RecvUeDataLive DEF Uplink
<1>5. ASSUME NEW d \in Devices, DownlinkStep(d) PROVE LiveInv'
  <2>1. CASE IabRecvS1ap(d)
    BY <1>1, <2>1, IabRecvS1apLive DEF IabRecvS1ap
  <2>2. CASE DropDownlink(d) \/ DeliverToUe(d) \/ IabRecvData(d)
    BY <1>2, <2>2 DEF DropDownlink, DeliverToUe, IabRecvData
  <2> QED BY <1>5, <2>1, <2>2 DEF DownlinkStep
<1>6. ASSUME NEW d \in Devices, ConnectionTimeout(d) \/ LoseUplink(d) \/ LoseDownlink(d)
      PROVE  LiveInv'
  <2>1. CASE LoseDownlink(d)
    BY <1>2, <2>1 DEF LoseDownlink
  <2> QED BY <1>1, <1>6, <2>1, ConnectionTimeoutLive, LoseUplinkLive
<1>7. ASSUME NEW w \in Wired, Wireline(w) \/ MmeRecvInitialUeMessage(w) PROVE LiveInv'
  <2>1. CASE WiredRecvS1ap(w)
    BY <1>1, <2>1, WiredRecvS1apLive
  <2>2. CASE WiredRecvData(w)
    BY <1>2, <2>2 DEF WiredRecvData
  <2>3. CASE MmeRecvInitialUeMessage(w)
    <3>1. UNCHANGED <<ueVars, nas, srbVars, ulq, cellVars, appVars>>
      BY <2>3 DEF MmeRecvInitialUeMessage
    <3> QED BY <1>2, <3>1
  <2> QED BY <1>7, <2>1, <2>2, <2>3 DEF Wireline
<1>8. ASSUME NEW b \in Stations, NEW r \in Rntis, RemoveUe(b, r) PROVE LiveInv'
  BY <1>1, <1>8, RemoveUeLive
<1>9. ASSUME NEW u \in Ue, NEW k \in Bids, UeSend(u, k) \/ SgwRecvFromInternet(u, k)
      PROVE  LiveInv'
  <2>1. CASE SgwRecvFromInternet(u, k)
    BY <1>2, <2>1 DEF SgwRecvFromInternet
  <2> QED BY <1>1, <1>9, <2>1, UeSendLive
<1>10. CASE UNCHANGED vars
  BY <1>2, <1>10 DEF vars
<1> QED BY <1>3, <1>4, <1>5, <1>6, <1>7, <1>8, <1>9, <1>10 DEF Next

(***************************************************************************)
(* The theorems.                                                           *)
(***************************************************************************)

\* A route of the cell's own is held, one it forwards leads to a child for good.
LEMMA LiveRoutes == LiveInv => RouteIsLive
<1> SUFFICES ASSUME LiveInv, NEW b \in Stations, NEW t \in Teids, HasTeid(b, t)
             PROVE  LET u == ueMap[b][teidRbid[b][t].rnti]
                    IN  u.state # "NONE" /\ teidRbid[b][t].bid \in 1 .. u.drbs
  BY DEF RouteIsLive
<1>1. Lives(b, t)
  BY DEF LiveInv, LivesInv
<1>2. CASE t \notin teidRemote[b]
  BY <1>1, <1>2 DEF Lives, Held
<1>3. CASE t \in teidRemote[b]
  <2> DEFINE rb == teidRbid[b][t]
             d == ueMap[b][rb.rnti].ue
  <2>1. /\ rb.rnti \in Rntis /\ d \in Devices /\ rrc[d] = "CONNECTED"
        /\ rnti[d] = rb.rnti /\ rb.bid \in 1 .. ueMap[b][rb.rnti].drbs
    BY <1>1, <1>3 DEF Lives, Permanent
  <2>2. Parent[d] = b
    BY <2>1, LiveParts, Topology DEF TypeInv, UeMapInv, UeKnown, UeOf
  <2> HIDE DEF rb, d
  <2>3. ueMap[b][rb.rnti].state # "NONE"
    BY <2>1, <2>2 DEF LiveInv, AttachedInv, Attached, Served
  <2> QED BY <2>1, <2>3 DEF rb
<1> QED BY <1>2, <1>3

\* RouteIsLive in every deployment, with any number of attempts and bearers: a
\* TEID of the cell's own leads to a UeManager that is there and a bearer it
\* has set up, because UeContextRelease forgets it with them; one it forwards
\* leads to a bearer of a connected child, which is never removed.
THEOREM RoutesAreLive == Spec => []RouteIsLive
<1>1. Init => LiveInv
  BY InitLiveInv
<1>2. LiveInv /\ [Next]_vars => LiveInv'
  BY LiveInvStep
<1>3. LiveInv => RouteIsLive
  BY LiveRoutes
<1> QED BY <1>1, <1>2, <1>3, PTL DEF Spec

\* What is on the air is on a bearer of a context that is there.
LEMMA FoundContexts == LiveInv => UplinkFindsContext
<1> SUFFICES ASSUME LiveInv, NEW d \in Devices, NEW n \in DOMAIN ulq[d]
             PROVE  LET b == Parent[d]
                        f == ulq[d][n]
                    IN  /\ rntiLocalImsi[b][f.rnti] = d
                        /\ imsiIab[b][d] = IF d \in Iab THEN "iab" ELSE "ue"
                        /\ d \in Ue => rbidTeid[b][f.rnti][f.bid] # 0
  BY DEF UplinkFindsContext
<1> DEFINE b == Parent[d]
           f == ulq[d][n]
           u == ueMap[b][f.rnti]
<1>1. f \in CurrentFrame(d) /\ b \in Stations
  BY Topology DEF LiveInv, CurrentInv, CurrentQueues
<1>2. /\ rrc[d] = "CONNECTED" /\ f.rnti = rnti[d] /\ f.rnti \in Rntis /\ f.bid \in 1 .. u.drbs
      /\ u.ue = d /\ u.state # "NONE" /\ rntiLocalImsi[b][f.rnti] = d
  <2>1. rrc[d] = "CONNECTED" /\ f.rnti = rnti[d] /\ f.rnti \in Rntis /\ f.bid \in 1 .. u.drbs
    BY <1>1 DEF CurrentFrame, UplinkFrame, Served
  <2>2. u.ue = d
    BY <2>1, LiveParts DEF TypeInv, LinkInv, Linked, UeOf
  <2>3. u.state # "NONE" /\ rntiLocalImsi[b][f.rnti] = d
    BY <2>1 DEF LiveInv, AttachedInv, Attached, Served
  <2> QED BY <2>1, <2>2, <2>3
<1>3. u.drbs # 0
  BY <1>2
<1>4. imsiIab[b][d] # "unknown" /\ rbidTeid[b][f.rnti][f.bid] # 0
  <2>1. Contexts(b, f.rnti)
    BY <1>1, <1>2 DEF LiveInv, ContextInv
  <2> QED BY <1>2, <1>3, <2>1 DEF Contexts
<1>5. imsiIab[b][d] = IF d \in Iab THEN "iab" ELSE "ue"
  <2>1. imsiIab[b][d] \in {"unknown", "iab", "ue"}
    BY <1>1, LiveTypes
  <2>2. imsiIab[b][d] = "iab" => d \in Iab
    BY <1>1, LiveParts DEF RouteInv, MapInv, Mapped
  <2>3. imsiIab[b][d] = "ue" => d \notin Iab
    BY <1>1, LiveParts DEF TrafficInv, KindInv
  <2> QED BY <1>4, <2>1, <2>2, <2>3
<1> QED BY <1>2, <1>4, <1>5

\* UplinkFindsContext in every deployment: a packet leaves a device only when
\* it is connected, on a bearer of a context setup, and what that setup wrote
\* into m_rntiLocalImsiMap, m_imsiIabMap and m_rbidTeidMap is still there when
\* RecvFromLteSocket looks it up.
THEOREM ContextIsFound == Spec => []UplinkFindsContext
<1>1. Init => LiveInv
  BY InitLiveInv
<1>2. LiveInv /\ [Next]_vars => LiveInv'
  BY LiveInvStep
<1>3. LiveInv => UplinkFindsContext
  BY FoundContexts
<1> QED BY <1>1, <1>2, <1>3, PTL DEF Spec

(***************************************************************************)
(* Stable routes.                                                          *)
(***************************************************************************)

(***************************************************************************)
(* Routes that are written stay as they are.                               *)
(***************************************************************************)

\* The TEIDs a cell has, and those a request or a packet asks a cell to take.
TeidsAt(b) == {t \in Teids : HasTeid(b, t)}
Asked   == [m \in InitialContextSetupRequest |-> TeidsOf(m)]
AskedOn == [f \in DownlinkFrame |->
               IF f.pkt.type = "InitialContextSetupRequest" THEN TeidsOf(f.pkt) ELSE {}]

\* What queue q asks for, c telling what each of its members does, is nothing
\* of F, and no two of its members ask for the same.
Once(q, c, F) ==
    \A n \in DOMAIN q :
        c[q[n]] \cap F = {} /\ \A k \in DOMAIN q : k # n => c[q[k]] \cap c[q[n]] = {}

\* A request on its way is the first and only one to bring its TEIDs.
FreshInv ==
    /\ \A w \in Wired : Once(s1Down[w], Asked, TeidsAt(w))
    /\ \A i \in Iab : Once(dlq[i], AskedOn, TeidsAt(i))

\* What m_rbidTeidMap says of a bearer, m_teidRbidMap says of the TEID.
Written(b, r, k) ==
    LET t == rbidTeid[b][r][k] IN t # 0 => teidRbid[b][t] = [rnti |-> r, bid |-> k]
WrittenInv == \A b \in Stations, r \in Rntis, k \in Bids : Written(b, r, k)

\* A route is overwritten only by a request that brings a TEID the cell has.
StableInv == ClosedInv /\ BranchInv /\ FreshInv /\ WrittenInv

\* One step of RouteIsStable.
StableStep ==
    \A b \in Stations, t \in Teids : HasTeid(b, t) =>
          \/ teidRbid'[b][t] = teidRbid[b][t]
          \/ /\ teidRbid'[b][t] = NoRbid /\ t \notin teidRemote[b]
             /\ ueMap'[b][teidRbid[b][t].rnti].state = "NONE"

LEMMA StableParts ==
    StableInv => TypeInv /\ RouteInv /\ TrafficInv /\ BranchInv /\ ClosedInv
BY DEF StableInv, BranchInv, TrafficInv, RouteInv

LEMMA InitStableInv == Init => StableInv
<1> SUFFICES ASSUME Init PROVE StableInv
  OBVIOUS
<1>1. FreshInv
  <2>1. ASSUME NEW w \in Wired PROVE Once(s1Down[w], Asked, TeidsAt(w))
    BY DEF Init, Once
  <2>2. ASSUME NEW i \in Iab PROVE Once(dlq[i], AskedOn, TeidsAt(i))
    BY Topology DEF Init, Once
  <2> QED BY <2>1, <2>2 DEF FreshInv
<1>2. WrittenInv
  BY DEF Init, WrittenInv, Written, NoTeids
<1> QED BY <1>1, <1>2, InitClosedInv, InitBranchInv DEF StableInv

LEMMA OnceTail ==
    ASSUME NEW M, NEW q \in Seq(M), q # <<>>, NEW c, NEW F, NEW G, Once(q, c, F),
           G \subseteq F \cup c[Head(q)]
    PROVE  Once(Tail(q), c, G)
<1>1. Len(q) \in Nat /\ Len(q) > 0 /\ Head(q) = q[1] /\ DOMAIN q = 1 .. Len(q)
  BY EmptySeq, LenProperties
<1>2. DOMAIN Tail(q) = 1 .. (Len(q) - 1) /\ \A n \in 1 .. (Len(q) - 1) : Tail(q)[n] = q[n + 1]
  BY <1>1, HeadTailProperties
<1> SUFFICES ASSUME NEW n \in 1 .. (Len(q) - 1)
             PROVE  /\ c[q[n + 1]] \cap G = {}
                    /\ \A k \in 1 .. (Len(q) - 1) : k # n => c[q[k + 1]] \cap c[q[n + 1]] = {}
  BY <1>2 DEF Once
<1>3. n + 1 \in DOMAIN q /\ 1 \in DOMAIN q /\ n + 1 # 1
  BY <1>1
<1>4. c[q[n + 1]] \cap F = {} /\ c[q[n + 1]] \cap c[q[1]] = {}
  BY <1>3 DEF Once
<1>5. ASSUME NEW k \in 1 .. (Len(q) - 1), k # n PROVE c[q[k + 1]] \cap c[q[n + 1]] = {}
  <2>1. k + 1 \in DOMAIN q /\ k + 1 # n + 1
    BY <1>1, <1>5
  <2> QED BY <1>3, <2>1 DEF Once
<1> QED BY <1>1, <1>4, <1>5

LEMMA OnceAppend ==
    ASSUME NEW M, NEW q \in Seq(M), NEW c, NEW F, NEW e, Once(q, c, F),
           c[e] \cap F = {}, \A n \in DOMAIN q : c[q[n]] \cap c[e] = {}
    PROVE  Once(Append(q, e), c, F)
<1> DEFINE s == Append(q, e)
<1>1. /\ Len(q) \in Nat /\ DOMAIN q = 1 .. Len(q) /\ DOMAIN s = 1 .. (Len(q) + 1)
      /\ s[Len(q) + 1] = e /\ \A n \in DOMAIN q : s[n] = q[n]
  BY LenProperties
<1> HIDE DEF s
<1>2. ASSUME NEW n \in DOMAIN s PROVE n \in DOMAIN q \/ n = Len(q) + 1
  <2>1. n \in 1 .. (Len(q) + 1) /\ Len(q) \in Nat
    BY <1>1
  <2>2. n \in 1 .. Len(q) \/ n = Len(q) + 1
    BY <2>1
  <2> QED BY <1>1, <2>2
<1> SUFFICES ASSUME NEW n \in DOMAIN s
             PROVE  /\ c[s[n]] \cap F = {}
                    /\ \A k \in DOMAIN s : k # n => c[s[k]] \cap c[s[n]] = {}
  BY DEF Once, s
<1>3. \A k \in DOMAIN q : c[q[k]] \cap F = {} /\ \A j \in DOMAIN q : j # k => c[q[j]] \cap c[q[k]] = {}
  BY DEF Once
<1>4. ASSUME NEW k \in DOMAIN s, k # n PROVE c[s[k]] \cap c[s[n]] = {}
  BY <1>1, <1>2, <1>3, <1>4
<1> QED BY <1>1, <1>2, <1>3, <1>4

LEMMA OnceLess ==
    ASSUME NEW q, NEW c, NEW F, NEW G, G \subseteq F, Once(q, c, F)
    PROVE  Once(q, c, G)
BY DEF Once

\* Steps that leave the routes and the S1-AP links alone.
LEMMA SameFresh ==
    ASSUME StableInv, ClosedInv', BranchInv', UNCHANGED <<teidRbid, rbidTeid, s1Down>>,
           \A i \in Iab : Once(dlq'[i], AskedOn, TeidsAt(i))
    PROVE  StableInv' /\ StableStep
<1>1. \A b \in Stations : TeidsAt(b)' = TeidsAt(b)
  BY DEF TeidsAt, HasTeid
<1>2. FreshInv'
  BY <1>1, Topology DEF StableInv, FreshInv
<1>3. WrittenInv'
  BY DEF StableInv, WrittenInv, Written
<1> QED BY <1>2, <1>3 DEF StableInv, StableStep

LEMMA TakeOnce ==
    ASSUME StableInv, NEW d \in Devices, dlq[d] # <<>>
    PROVE  \A i \in Iab : Once([dlq EXCEPT ![d] = Tail(@)][i], AskedOn, TeidsAt(i))
<1> SUFFICES ASSUME NEW i \in Iab
             PROVE  Once([dlq EXCEPT ![d] = Tail(@)][i], AskedOn, TeidsAt(i))
  OBVIOUS
<1>1. Once(dlq[i], AskedOn, TeidsAt(i))
  BY DEF StableInv, FreshInv
<1>2. dlq \in [Devices -> Seq(DownlinkFrame)] /\ i \in Devices
  BY StableParts, Topology DEF TypeInv, TypeOK, RadioTypes
<1>3. Once(Tail(dlq[d]), AskedOn, TeidsAt(d)) \/ i # d
  <2> SUFFICES ASSUME i = d PROVE Once(Tail(dlq[d]), AskedOn, TeidsAt(d))
    OBVIOUS
  <2>1. dlq[d] \in Seq(DownlinkFrame) /\ Once(dlq[d], AskedOn, TeidsAt(d))
    BY <1>1, <1>2
  <2> QED BY <2>1, OnceTail
<1>4. [dlq EXCEPT ![d] = Tail(@)][i] = IF i = d THEN Tail(dlq[d]) ELSE dlq[i]
  BY <1>2
<1> QED BY <1>1, <1>3, <1>4

\* What a cell sends on a bearer asks a child for nothing it was asked before.
LEMMA SendOnce ==
    ASSUME StableInv, NEW b \in Stations, NEW rb \in Rbid, NEW p \in Request \cup DataPacket,
           NEW q \in DownlinkQueues, NEW i \in Iab, NEW F, Once(q[i], AskedOn, F),
           p.type = "InitialContextSetupRequest" /\ rb.rnti \in Rntis /\ UeOf(b, rb.rnti) = i =>
               /\ TeidsOf(p) \cap F = {}
               /\ \A n \in DOMAIN q[i] : AskedOn[q[i][n]] \cap TeidsOf(p) = {}
    PROVE  Once(SendToLteSocket(b, rb, p, q)[i], AskedOn, F)
<1> DEFINE u == ueMap[b][rb.rnti]
           f == Frame(rb.rnti, rb.bid, p)
<1>1. i \in Devices /\ q \in [Devices -> Seq(RequestFrame)] /\ q[i] \in Seq(RequestFrame)
  BY Topology DEF DownlinkQueues
<1>2. CASE SendToLteSocket(b, rb, p, q)[i] = q[i]
  BY <1>2
<1>3. CASE /\ rb.rnti \in Rntis /\ rb.bid \in Bids /\ u.ue = i
           /\ SendToLteSocket(b, rb, p, q)[i] = Append(q[i], f)
  <2>1. f \in DownlinkFrame /\ f.pkt = p
    BY <1>3 DEF Frame, DownlinkFrame, DownlinkPacket, Request
  <2>2. AskedOn[f] = IF p.type = "InitialContextSetupRequest" THEN TeidsOf(p) ELSE {}
    BY <2>1 DEF AskedOn
  <2> HIDE DEF f
  <2>3. AskedOn[f] \cap F = {} /\ \A n \in DOMAIN q[i] : AskedOn[q[i][n]] \cap AskedOn[f] = {}
    BY <1>3, <2>2 DEF UeOf
  <2> QED BY <1>1, <1>3, <2>3, OnceAppend
<1>4. \/ SendToLteSocket(b, rb, p, q)[i] = q[i]
      \/ /\ rb.rnti \in Rntis /\ rb.bid \in Bids /\ u.ue = i
         /\ SendToLteSocket(b, rb, p, q)[i] = Append(q[i], f)
  <2>1. SendToLteSocket(b, rb, p, q) =
           IF /\ u.state \in {"CONNECTED_NORMALLY", "CONNECTION_RECONFIGURATION"}
              /\ rb.bid \in 1 .. u.drbs
           THEN [q EXCEPT ![u.ue] = Append(@, f)] ELSE q
    BY DEF SendToLteSocket
  <2>2. rb.bid # 0 => rb.rnti \in Rntis /\ rb.bid \in Bids
    BY DEF Rbid, NoRbid
  <2>3. rb.bid \in 1 .. u.drbs => rb.bid # 0
    OBVIOUS
  <2> HIDE DEF u, f
  <2> QED BY <1>1, <2>1, <2>2, <2>3
<1> QED BY <1>2, <1>3, <1>4

LEMMA ForwardDownOnce ==
    ASSUME StableInv, NEW b \in Stations, NEW p \in DataPacket, NEW q \in DownlinkQueues,
           NEW i \in Iab, Once(q[i], AskedOn, TeidsAt(i)), ForwardDown(b, p, q)
    PROVE  Once(dlq'[i], AskedOn, TeidsAt(i))
<1> DEFINE t == p.teid
           p1 == [p EXCEPT !.teid = HeaderTeid(b, t)]
<1>1. dlq' = q \/ (t \in Teids /\ dlq' = SendToLteSocket(b, teidRbid[b][t], p1, q))
  BY DEF ForwardDown, RecvFromS1uSocket
<1>2. p1 \in DataPacket /\ p1.type = "Data"
  BY DEF DataPacket, HeaderTeid
<1>3. t \in Teids => teidRbid[b][t] \in Rbid
  BY StableParts DEF TypeInv, TypeOK, AppTypes
<1> HIDE DEF p1, t
<1> QED BY <1>1, <1>2, <1>3, SendOnce

LEMMA TakenDownlinkStable ==
    ASSUME StableInv, ClosedInv', BranchInv', NEW d \in Devices,
           DropDownlink(d) \/ DeliverToUe(d) \/ LoseDownlink(d)
    PROVE  StableInv' /\ StableStep
<1>1. /\ dlq[d] # <<>> /\ dlq' = [dlq EXCEPT ![d] = Tail(@)]
      /\ UNCHANGED <<teidRbid, rbidTeid, s1Down>>
  BY DEF DropDownlink, DeliverToUe, LoseDownlink, Downlink, appVars, coreVars
<1> QED BY <1>1, TakeOnce, SameFresh

LEMMA IabRecvDataStable ==
    ASSUME StableInv, ClosedInv', BranchInv', NEW i \in Iab, IabRecvData(i)
    PROVE  StableInv' /\ StableStep
<1> DEFINE p == Head(dlq[i]).pkt
           q == [dlq EXCEPT ![i] = Tail(@)]
<1>1. /\ dlq[i] # <<>> /\ p.type = "Data" /\ ForwardDown(i, p, q)
      /\ UNCHANGED <<teidRbid, rbidTeid, s1Down>>
  BY DEF IabRecvData, appVars, coreVars
<1>2. i \in Stations /\ i \in Devices
  BY Topology
<1>3. p \in DataPacket /\ q \in DownlinkQueues
  BY <1>1, <1>2, HeadDownlink, StableParts
     DEF RequestFrame, Request, InitialContextSetupRequest
<1>4. \A x \in Iab : Once(q[x], AskedOn, TeidsAt(x))
  BY <1>1, <1>2, TakeOnce
<1> HIDE DEF p, q
<1> QED BY <1>1, <1>2, <1>3, <1>4, ForwardDownOnce, SameFresh

LEMMA WiredRecvDataStable ==
    ASSUME StableInv, ClosedInv', BranchInv', NEW w \in Wired, WiredRecvData(w)
    PROVE  StableInv' /\ StableStep
<1> DEFINE p == Head(s1uDown[w])
<1>1. /\ s1uDown[w] # <<>> /\ ForwardDown(w, p, dlq)
      /\ UNCHANGED <<teidRbid, rbidTeid, s1Down>>
  BY DEF WiredRecvData, appVars
<1>2. w \in Stations /\ s1uDown \in [Wired -> Seq(DataPacket)] /\ dlq \in DownlinkQueues
  BY StableParts, Topology DEF TypeInv, TypeOK, CoreTypes, QueueInv
<1>3. p \in DataPacket
  BY <1>1, <1>2, TakeQueue
<1>4. \A x \in Iab : Once(dlq[x], AskedOn, TeidsAt(x))
  BY DEF StableInv, FreshInv
<1> HIDE DEF p
<1> QED BY <1>1, <1>2, <1>3, <1>4, ForwardDownOnce, SameFresh

(***************************************************************************)
(* Context setup and release.                                              *)
(***************************************************************************)

\* A TEID m_rbidTeidMap has is that of a device of the cell, not one to forward.
LEMMA TunnelIsNotRemote ==
    ASSUME BranchInv, NEW b \in Stations, NEW r \in Rntis, NEW k \in Bids,
           rbidTeid[b][r][k] # 0
    PROVE  rbidTeid[b][r][k] \in Teids /\ rbidTeid[b][r][k] \notin teidRemote[b]
<1> DEFINE t == rbidTeid[b][r][k]
           d == rntiLocalImsi[b][r]
<1>1. t \in Teids
  BY DEF BranchInv, TrafficInv, RouteInv, TypeInv, TypeOK, AppTypes
<1>2. d \in Devices /\ session[t].imsi = d
  <2>1. Tunnelled(b, r, k)
    BY DEF BranchInv, TrafficInv, TunnelInv
  <2>2. d \in Devices /\ session[t] = [imsi |-> d, bid |-> k]
    BY <2>1 DEF Tunnelled
  <2> QED BY <2>2
<1>3. Parent[d] = b
  BY <1>2, Topology DEF BranchInv, TrafficInv, RouteInv, TypeInv, UeMapInv, UeKnown
<1>4. t \notin teidRemote[b]
  <2> SUFFICES ASSUME t \in teidRemote[b] PROVE FALSE
    OBVIOUS
  <2>1. d \in remoteImsi[b]
    BY <1>1, <1>2 DEF BranchInv, TrafficInv, RouteInv, MapInv, RemoteOwner, Owner
  <2>2. PICK c \in Iab : Parent[c] = b /\ d \in Below[c]
    BY <1>2, <2>1 DEF BranchInv, Forwarded
  <2> HIDE DEF d
  <2> QED BY <1>2, <1>3, <2>2, NotAttachedAbove
<1> QED BY <1>1, <1>4

LEMMA RemoveUeStable ==
    ASSUME StableInv, ClosedInv', BranchInv', NEW b \in Stations, NEW r \in Rntis,
           RemoveUe(b, r)
    PROVE  StableInv' /\ StableStep
<1> DEFINE v == [ueMap[b][r] EXCEPT !.state = "NONE"]
<1>1. /\ ueMap' = [ueMap EXCEPT ![b][r] = v]
      /\ teidRbid' = [teidRbid EXCEPT ![b] =
                         [t \in Teids |-> IF t \in ReleasedTeids(b, r) THEN NoRbid ELSE @[t]]]
      /\ rbidTeid' = [rbidTeid EXCEPT ![b][r] = NoTeids]
      /\ UNCHANGED <<dlq, s1Down>>
  BY DEF RemoveUe, coreVars
<1>2. /\ ueMap \in [Stations -> [Rntis -> UeManager]]
      /\ teidRbid \in [Stations -> [Teids -> Rbid]]
      /\ rbidTeid \in [Stations -> [Rntis -> [Bids -> Teids \cup {0}]]]
  BY StableParts DEF TypeInv, TypeOK, CellTypes, AppTypes
<1>3. ueMap'[b][r].state = "NONE"
  <2>1. ueMap[b][r] \in UeManager
    BY <1>2
  <2>2. ueMap'[b][r] = v
    BY <1>1, <1>2
  <2> QED BY <2>1, <2>2 DEF UeManager
<1> HIDE DEF v
<1>4. \A x \in Stations, y \in Rntis :
         rbidTeid'[x][y] = IF x = b /\ y = r THEN NoTeids ELSE rbidTeid[x][y]
  <2>1. NoTeids \in [Bids -> Teids \cup {0}]
    BY DEF NoTeids
  <2> QED BY <1>1, <1>2, <2>1, UpdateTwice
<1>5. \A x \in Stations, t \in Teids :
         teidRbid'[x][t] = IF x = b /\ t \in ReleasedTeids(b, r) THEN NoRbid ELSE teidRbid[x][t]
  BY <1>1, <1>2
<1>6. ASSUME NEW t \in Teids, t \in ReleasedTeids(b, r)
      PROVE  teidRbid[b][t].rnti = r /\ t \notin teidRemote[b]
  <2>1. PICK k \in Bids : t = rbidTeid[b][r][k]
    BY <1>6 DEF ReleasedTeids
  <2>2. t # 0
    BY Topology DEF Teids
  <2>3. teidRbid[b][t] = [rnti |-> r, bid |-> k]
    BY <2>1, <2>2 DEF StableInv, WrittenInv, Written
  <2> QED BY <2>1, <2>2, <2>3, TunnelIsNotRemote DEF StableInv
<1>7. StableStep
  BY <1>3, <1>5, <1>6 DEF StableStep
<1>8. FreshInv'
  <2>1. \A x \in Stations : TeidsAt(x)' \subseteq TeidsAt(x)
    BY <1>5 DEF TeidsAt, HasTeid
  <2>2. \A w \in Wired : Once(s1Down'[w], Asked, TeidsAt(w)')
    BY <1>1, <2>1, OnceLess, Topology DEF StableInv, FreshInv
  <2>3. \A i \in Iab : Once(dlq'[i], AskedOn, TeidsAt(i)')
    BY <1>1, <2>1, OnceLess, Topology DEF StableInv, FreshInv
  <2> QED BY <2>2, <2>3 DEF FreshInv
<1>9. ASSUME NEW x \in Stations, NEW y \in Rntis, NEW k \in Bids PROVE Written(x, y, k)'
  <2>1. CASE x = b /\ y = r
    BY <1>4, <2>1 DEF Written, NoTeids
  <2>2. CASE ~(x = b /\ y = r)
    <3> DEFINE t == rbidTeid[x][y][k]
    <3>1. rbidTeid'[x][y] = rbidTeid[x][y]
      BY <1>4, <2>2
    <3>2. t # 0 => t \in Teids /\ teidRbid[x][t] = [rnti |-> y, bid |-> k]
      BY <1>2 DEF StableInv, WrittenInv, Written
    <3>3. t # 0 => ~(x = b /\ t \in ReleasedTeids(b, r))
      BY <1>6, <2>2, <3>2
    <3>4. t # 0 => teidRbid'[x][t] = [rnti |-> y, bid |-> k]
      BY <1>5, <3>2, <3>3
    <3> QED BY <3>1, <3>4 DEF Written
  <2> QED BY <2>1, <2>2
<1> QED BY <1>7, <1>8, <1>9 DEF StableInv, WrittenInv

\* The SGW allocates TEIDs nobody has and nobody was asked to take.
LEMMA MmeRecvInitialUeMessageStable ==
    ASSUME StableInv, ClosedInv', BranchInv', NEW w \in Wired, MmeRecvInitialUeMessage(w)
    PROVE  StableInv' /\ StableStep
<1> DEFINE d == Head(s1Up[w]).imsi
           n == NumBearers[d]
           first == Len(session)
           donor == WiredDonor(Head(s1Up[w]).gci)
           m == [type |-> "InitialContextSetupRequest", imsi |-> d,
                 erabs |-> {<<k, first + k>> : k \in 1 .. n}, iab |-> (d \in Iab)]
<1>1. /\ s1Up[w] # <<>> /\ first + n <= MaxTeid
      /\ UNCHANGED <<teidRbid, rbidTeid, dlq>>
      /\ \/ s1Down' = s1Down
         \/ donor \in Wired /\ s1Down' = [s1Down EXCEPT ![donor] = Append(@, m)]
  BY DEF MmeRecvInitialUeMessage, appVars
<1>2. /\ s1Down \in [Wired -> Seq(Request)] /\ first \in Nat /\ d \in Devices
  <2>1. Head(s1Up[w]) \in InitialUeMessage
    BY <1>1, StableParts, TakeQueue DEF TypeInv, TypeOK, CoreTypes
  <2> QED BY <2>1, StableParts, LenProperties
          DEF TypeInv, TypeOK, CoreTypes, QueueInv, Requests, InitialUeMessage
<1>3. n \in Nat /\ n \in Bids
  BY <1>2, Topology DEF Bids
<1>4. m \in InitialContextSetupRequest /\ Asked[m] = {first + k : k \in 1 .. n}
  <2>1. m.erabs \subseteq Bids \X Teids
    <3>1. ASSUME NEW k \in 1 .. n PROVE k \in Bids /\ first + k \in Teids
      <4>1. MaxBearers \in Nat /\ MaxTeid \in Nat
        BY Topology
      <4>2. n <= MaxBearers
        BY <1>3, <4>1 DEF Bids
      <4> HIDE DEF n, first
      <4>3. n \in Nat /\ first \in Nat /\ first + n <= MaxTeid
        BY <1>1, <1>2, <1>3
      <4> QED BY <4>1, <4>2, <4>3 DEF Bids, Teids
    <3> HIDE DEF n, first
    <3> QED BY <3>1
  <2>2. m \in InitialContextSetupRequest
    BY <1>2, <2>1 DEF InitialContextSetupRequest
  <2>3. TeidsOf(m) = {first + k : k \in 1 .. n}
    <3>1. \A k \in 1 .. n : <<k, first + k>>[2] = first + k
      OBVIOUS
    <3> HIDE DEF n, first
    <3> QED BY <3>1 DEF TeidsOf
  <2> QED BY <2>2, <2>3 DEF Asked
<1> HIDE DEF m, n, d, first, donor
<1>5. ASSUME NEW x \in Wired, NEW t \in Teids, HasTeid(x, t) PROVE t <= first
  BY <1>5, StableParts, Topology DEF RouteInv, DownlinkRouteToOwner, Allocated, first
<1>6. ASSUME NEW e \in Request PROVE \A t \in Asked[e] : t <= first
  <2>1. Asked[e] = TeidsOf(e)
    BY DEF Asked, Request
  <2> QED BY <2>1, RequestOwner, StableParts DEF Allocated, first
<1>7. ASSUME NEW x \in Wired PROVE Once(s1Down'[x], Asked, TeidsAt(x))
  <2>1. Once(s1Down[x], Asked, TeidsAt(x)) /\ s1Down[x] \in Seq(Request)
    BY <1>2 DEF StableInv, FreshInv
  <2>2. s1Down'[x] = s1Down[x] \/ s1Down'[x] = Append(s1Down[x], m)
    BY <1>1, <1>2
  <2>3. \A t \in Asked[m] : t > first
    BY <1>2, <1>3, <1>4
  <2>4. Asked[m] \cap TeidsAt(x) = {}
    <3> SUFFICES ASSUME NEW t \in Teids, HasTeid(x, t), t \in Asked[m] PROVE FALSE
      BY DEF TeidsAt
    <3>1. t <= first /\ t > first /\ t \in Nat
      BY <1>5, <2>3, Topology DEF Teids
    <3> QED BY <1>2, <3>1
  <2>5. ASSUME NEW j \in DOMAIN s1Down[x] PROVE Asked[s1Down[x][j]] \cap Asked[m] = {}
    <3>1. s1Down[x][j] \in Request
      BY <2>1
    <3>2. Asked[s1Down[x][j]] \subseteq Nat
      <4>1. Asked[s1Down[x][j]] = TeidsOf(s1Down[x][j])
        BY <3>1 DEF Asked, Request
      <4> QED BY <3>1, <4>1, RequestBearers, StableParts, Topology DEF Teids
    <3> QED BY <1>2, <1>6, <2>3, <3>1, <3>2
  <2> QED BY <2>1, <2>2, <2>4, <2>5, OnceAppend
<1>8. \A x \in Stations : TeidsAt(x)' = TeidsAt(x)
  BY <1>1 DEF TeidsAt, HasTeid
<1>9. FreshInv'
  BY <1>1, <1>7, <1>8, Topology DEF StableInv, FreshInv
<1>10. WrittenInv'
  BY <1>1 DEF StableInv, WrittenInv, Written
<1>11. StableStep
  BY <1>1 DEF StableStep
<1> QED BY <1>9, <1>10, <1>11 DEF StableInv

LEMMA RequestTeid ==
    ASSUME TypeInv, NEW m \in Request, NEW k \in BidsOf(m)
    PROVE  /\ TeidFor(m, k) \in TeidsOf(m) /\ TeidFor(m, k) \in Teids /\ TeidFor(m, k) # 0
           /\ BidOf(m, TeidFor(m, k)) = k
<1> DEFINE t == TeidFor(m, k)
<1>1. m.erabs \subseteq Bids \X Teids
  BY RequestBearers DEF InitialContextSetupRequest
<1>2. PICK e \in m.erabs : k = e[1]
  BY DEF BidsOf
<1>3. e = <<k, e[2]>> /\ e[2] \in Teids
  BY <1>1, <1>2
<1>4. t \in Teids /\ <<k, t>> \in m.erabs
  BY <1>3 DEF TeidFor
<1>5. t \in TeidsOf(m)
  BY <1>4 DEF TeidsOf
<1>6. session[t] = [imsi |-> m.imsi, bid |-> k]
  BY RequestTunnel
<1> QED BY <1>4, <1>5, <1>6, RequestOwner, Topology DEF Teids

\* New routes are for TEIDs the cell did not have.
LEMMA NewRoutes ==
    ASSUME StableInv, NEW b \in Stations, NEW S, S \cap TeidsAt(b) = {},
           \A x \in Stations, t \in Teids :
               teidRbid'[x][t] = teidRbid[x][t] \/ (x = b /\ t \in S)
    PROVE  /\ StableStep
           /\ \A x \in Stations : TeidsAt(x)' \subseteq TeidsAt(x) \cup (IF x = b THEN S ELSE {})
           /\ \A x \in Stations, r \in Rntis, k \in Bids :
                 rbidTeid'[x][r][k] = rbidTeid[x][r][k] => Written(x, r, k)'
<1>1. \A x \in Stations, t \in Teids : HasTeid(x, t) => teidRbid'[x][t] = teidRbid[x][t]
  BY DEF TeidsAt
<1>2. StableStep
  BY <1>1 DEF StableStep
<1>3. \A x \in Stations : TeidsAt(x)' \subseteq TeidsAt(x) \cup (IF x = b THEN S ELSE {})
  BY DEF TeidsAt, HasTeid
<1>4. ASSUME NEW x \in Stations, NEW r \in Rntis, NEW k \in Bids,
             rbidTeid'[x][r][k] = rbidTeid[x][r][k]
      PROVE  Written(x, r, k)'
  <2> DEFINE t == rbidTeid[x][r][k]
  <2>1. t # 0 => t \in Teids /\ teidRbid[x][t] = [rnti |-> r, bid |-> k]
    BY StableParts DEF TypeInv, TypeOK, AppTypes, StableInv, WrittenInv, Written
  <2>2. r # 0
    BY Topology DEF Rntis
  <2>3. t # 0 => HasTeid(x, t)
    BY <2>1, <2>2 DEF HasTeid, NoRbid
  <2> HIDE DEF t
  <2>4. t # 0 => teidRbid'[x][t] = [rnti |-> r, bid |-> k]
    BY <1>1, <2>1, <2>3
  <2> QED BY <1>4, <2>4 DEF Written, t
<1> QED BY <1>2, <1>3, <1>4

LEMMA SetupContextStable ==
    ASSUME StableInv, NEW b \in Stations, NEW m \in Request, m.imsi \notin remoteImsi[b],
           TeidsOf(m) \cap TeidsAt(b) = {}, NEW q, SetupContext(b, m, q)
    PROVE  /\ StableStep /\ WrittenInv' /\ dlq' = q
           /\ \A x \in Stations :
                 TeidsAt(x)' \subseteq TeidsAt(x) \cup (IF x = b THEN TeidsOf(m) ELSE {})
<1> DEFINE S == TeidsOf(m)
           r == imsiRnti[b][m.imsi]
           row == [k \in Bids |-> IF k \in BidsOf(m) THEN TeidFor(m, k) ELSE rbidTeid[b][r][k]]
           rbid(t) == [rnti |-> r, bid |-> BidOf(m, t)]
<1>1. CASE dlq' = q /\ UNCHANGED <<teidRbid, rbidTeid>>
  <2>1. /\ StableStep
        /\ \A x \in Stations : TeidsAt(x)' \subseteq TeidsAt(x) \cup (IF x = b THEN S ELSE {})
    BY <1>1, NewRoutes
  <2>2. WrittenInv'
    BY <1>1, NewRoutes DEF WrittenInv
  <2> QED BY <1>1, <2>1, <2>2
<1>2. CASE /\ r # 0 /\ dlq' = q
           /\ rbidTeid' = [rbidTeid EXCEPT ![b][r] = row]
           /\ teidRbid' = [teidRbid EXCEPT ![b] =
                              [t \in Teids |-> IF t \in S THEN rbid(t) ELSE @[t]]]
  <2>1. /\ rbidTeid \in [Stations -> [Rntis -> [Bids -> Teids \cup {0}]]]
        /\ teidRbid \in [Stations -> [Teids -> Rbid]]
        /\ m.imsi \in Devices /\ r \in Rntis
    BY <1>2, RequestBearers, StableParts DEF TypeInv, TypeOK, AppTypes
  <2>2. \A k \in BidsOf(m) : TeidFor(m, k) \in S /\ TeidFor(m, k) \in Teids
                             /\ BidOf(m, TeidFor(m, k)) = k
    BY RequestTeid, StableParts
  <2>3. \A x \in Stations, t \in Teids :
           teidRbid'[x][t] = IF x = b /\ t \in S THEN rbid(t) ELSE teidRbid[x][t]
    BY <1>2, <2>1
  <2>4. \A x \in Stations, y \in Rntis :
           rbidTeid'[x][y] = IF x = b /\ y = r THEN row ELSE rbidTeid[x][y]
    <3>1. row \in [Bids -> Teids \cup {0}]
      BY <2>1, <2>2
    <3> HIDE DEF row, r
    <3> QED BY <1>2, <2>1, <3>1, UpdateTwice
  <2>5. \A z \in Stations, t \in Teids : teidRbid'[z][t] = teidRbid[z][t] \/ (z = b /\ t \in S)
    BY <2>3
  <2>6. ASSUME NEW x \in Stations, NEW y \in Rntis, NEW k \in Bids PROVE Written(x, y, k)'
    <3>1. CASE x = b /\ y = r /\ k \in BidsOf(m)
      <4>1. rbidTeid'[x][y][k] = TeidFor(m, k)
        BY <2>4, <3>1
      <4>2. teidRbid'[x][TeidFor(m, k)] = [rnti |-> y, bid |-> k]
        BY <2>2, <2>3, <3>1
      <4> QED BY <4>1, <4>2 DEF Written
    <3>2. CASE ~(x = b /\ y = r /\ k \in BidsOf(m))
      <4>1. rbidTeid'[x][y][k] = rbidTeid[x][y][k]
        <5>1. k \notin BidsOf(m) => row[k] = rbidTeid[b][r][k]
          OBVIOUS
        <5> HIDE DEF row, r
        <5> QED BY <2>4, <3>2, <5>1
      <4> HIDE DEF S
      <4> QED BY <2>5, <4>1, NewRoutes DEF S
    <3> QED BY <3>1, <3>2
  <2>7. /\ StableStep
        /\ \A x \in Stations : TeidsAt(x)' \subseteq TeidsAt(x) \cup (IF x = b THEN S ELSE {})
    <3> HIDE DEF S
    <3> QED BY <2>5, NewRoutes DEF S
  <2> QED BY <1>2, <2>6, <2>7 DEF WrittenInv
<1> QED BY <1>1, <1>2 DEF SetupContext, AbortContextSetup, appVars

LEMMA ForwardIabS1apReplyStable ==
    ASSUME StableInv, NEW b \in Stations, NEW m \in Request,
           TeidsOf(m) \cap TeidsAt(b) = {}, NEW q \in DownlinkQueues, q \in GrantedQueues,
           ForwardIabS1apReply(b, m, q)
    PROVE  /\ StableStep /\ WrittenInv'
           /\ \A x \in Stations :
                 TeidsAt(x)' \subseteq TeidsAt(x) \cup (IF x = b THEN TeidsOf(m) ELSE {})
           /\ \A i \in Iab : \/ dlq'[i] = q[i]
                             \/ /\ Parent[i] = b
                                /\ Once(q[i], AskedOn, TeidsAt(i)) => Once(dlq'[i], AskedOn, TeidsAt(i))
<1> DEFINE S == TeidsOf(m)
           rb == imsiLocalRbid[b][m.imsi]
           sent == SendToLteSocket(b, rb, m, q)
<1>1. dlq' = q \/ dlq' = sent
  BY DEF ForwardIabS1apReply, AbortContextSetup
<1>2. /\ rbidTeid' = rbidTeid
      /\ \/ teidRbid' = teidRbid
         \/ teidRbid' = [teidRbid EXCEPT ![b] =
                            [t \in Teids |-> IF t \in S THEN rb ELSE @[t]]]
  BY DEF ForwardIabS1apReply, AbortContextSetup, appVars, ForwardedTeids
<1>3. teidRbid \in [Stations -> [Teids -> Rbid]] /\ rb \in Rbid /\ m.imsi \in Devices
  BY RequestBearers, StableParts DEF TypeInv, TypeOK, AppTypes
<1>4. \A x \in Stations, t \in Teids : teidRbid'[x][t] = teidRbid[x][t] \/ (x = b /\ t \in S)
  BY <1>2, <1>3
<1>5. /\ StableStep
      /\ \A x \in Stations : TeidsAt(x)' \subseteq TeidsAt(x) \cup (IF x = b THEN S ELSE {})
  BY <1>4, NewRoutes
<1>6. WrittenInv'
  <2> HIDE DEF S
  <2> QED BY <1>2, <1>4, NewRoutes DEF WrittenInv, S
<1>7. ASSUME NEW i \in Iab, dlq'[i] # q[i]
      PROVE  /\ Parent[i] = b
             /\ Once(q[i], AskedOn, TeidsAt(i)) => Once(dlq'[i], AskedOn, TeidsAt(i))
  <2>1. sent[i] # q[i] /\ dlq' = sent
    BY <1>1, <1>7
  <2>2. rb.rnti \in Rntis /\ UeOf(b, rb.rnti) = i
    <3> DEFINE u == ueMap[b][rb.rnti]
    <3> DEFINE f == Frame(rb.rnti, rb.bid, m)
    <3>0. rb.bid \in 1 .. u.drbs => rb.bid # 0
      OBVIOUS
    <3>1. rb.bid \in 1 .. u.drbs /\ sent = [q EXCEPT ![u.ue] = Append(@, f)]
      <4> HIDE DEF rb
      <4> QED BY <2>1 DEF SendToLteSocket
    <3>2. rb.bid # 0
      <4> HIDE DEF rb, u, f, sent
      <4> QED BY <3>0, <3>1
    <3>3. rb.rnti \in Rntis
      BY <1>3, <3>2 DEF Rbid, NoRbid
    <3>4. u.ue = i
      <4> HIDE DEF u, f, sent
      <4> QED BY <2>1, <3>1, Topology DEF DownlinkQueues
    <3> QED BY <3>3, <3>4 DEF UeOf
  <2>3. Parent[i] = b
    BY <2>2, StableParts, Topology DEF TypeInv, UeMapInv, UeKnown
  <2>4. TeidsAt(i) \subseteq TeidsAt(b)
    BY <2>3, StableParts DEF ClosedInv, RouteClosedUpstream, TeidsAt
  <2>5. ASSUME NEW n \in DOMAIN q[i] PROVE AskedOn[q[i][n]] \cap S = {}
    <3>1. q[i][n] \in GrantedFrame(i) /\ q[i][n] \in DownlinkFrame /\ q[i][n] \in RequestFrame
      BY Topology DEF GrantedQueues, DownlinkQueues
    <3> DEFINE f == q[i][n]
    <3> HIDE DEF f
    <3>2. CASE f.pkt.type = "InitialContextSetupRequest"
      <4>1. f \in GrantedFrame(i) /\ f \in DownlinkFrame /\ f \in RequestFrame
        BY <3>1 DEF f
      <4>2. f.pkt \in Request
        BY <3>2, <4>1 DEF RequestFrame, DataPacket
      <4>3. AskedOn[f] = TeidsOf(f.pkt)
        BY <3>2, <4>1 DEF AskedOn
      <4>4. ASSUME NEW t \in TeidsOf(f.pkt) PROVE t \in TeidsAt(b)
        <5>1. t \in Teids
          BY <4>2, RequestOwner, StableParts
        <5> QED BY <2>3, <3>2, <4>1, <5>1, Topology DEF GrantedFrame, RoutedVia, TeidsAt
      <4> QED BY <4>3, <4>4 DEF f
    <3>3. CASE f.pkt.type # "InitialContextSetupRequest"
      BY <3>1, <3>3 DEF AskedOn, f
    <3> QED BY <3>2, <3>3
  <2>6. rb \in Rbid /\ m \in Request \cup DataPacket
    BY <1>3
  <2>7. TeidsOf(m) \cap TeidsAt(i) = {}
    BY <2>4
  <2> HIDE DEF rb, sent, S
  <2>8. Once(q[i], AskedOn, TeidsAt(i)) => Once(sent[i], AskedOn, TeidsAt(i))
    BY <2>5, <2>6, <2>7, SendOnce DEF S, sent
  <2> QED BY <2>1, <2>3, <2>8
<1> QED BY <1>5, <1>6, <1>7

\* A request is handled: the cell now has its TEIDs, a child may be asked for them.
LEMMA RecvFromS1apSocketStable ==
    ASSUME StableInv, NEW b \in Stations, NEW m \in Request,
           TeidsOf(m) \cap TeidsAt(b) = {}, NEW q \in DownlinkQueues, q \in GrantedQueues,
           RecvFromS1apSocket(b, m, q),
           \A i \in Iab \ {b} : Once(q[i], AskedOn, TeidsAt(i)),
           b \in Iab => Once(q[b], AskedOn, TeidsAt(b) \cup TeidsOf(m))
    PROVE  /\ StableStep /\ WrittenInv'
           /\ \A x \in Stations :
                 TeidsAt(x)' \subseteq TeidsAt(x) \cup (IF x = b THEN TeidsOf(m) ELSE {})
           /\ \A i \in Iab : Once(dlq'[i], AskedOn, TeidsAt(i)')
<1>1. /\ StableStep /\ WrittenInv'
      /\ \A x \in Stations :
            TeidsAt(x)' \subseteq TeidsAt(x) \cup (IF x = b THEN TeidsOf(m) ELSE {})
      /\ \A i \in Iab : \/ dlq'[i] = q[i]
                        \/ /\ Parent[i] = b
                           /\ Once(q[i], AskedOn, TeidsAt(i)) => Once(dlq'[i], AskedOn, TeidsAt(i))
  <2>1. CASE m.imsi \in remoteImsi[b]
    BY <2>1, ForwardIabS1apReplyStable DEF RecvFromS1apSocket
  <2>2. CASE m.imsi \notin remoteImsi[b]
    BY <2>2, SetupContextStable DEF RecvFromS1apSocket
  <2> QED BY <2>1, <2>2
<1>2. ASSUME NEW i \in Iab PROVE Once(dlq'[i], AskedOn, TeidsAt(i)')
  <2>1. CASE i = b
    <3>1. Parent[i] # b
      <4>1. i \notin Below[i] /\ (i \in Below[i] <=> \/ Parent[i] = i
                                  \/ \E j \in Iab : Parent[j] = i /\ i \in Below[j])
        BY TopologyAssumption, Topology
      <4> QED BY <2>1, <4>1
    <3>2. Once(dlq'[i], AskedOn, TeidsAt(i) \cup TeidsOf(m))
      BY <1>1, <2>1, <3>1
    <3>3. TeidsAt(i)' \subseteq TeidsAt(i) \cup TeidsOf(m)
      BY <1>1, <2>1
    <3> QED BY <3>2, <3>3, OnceLess
  <2>2. CASE i # b
    <3>1. Once(dlq'[i], AskedOn, TeidsAt(i))
      BY <1>1, <2>2
    <3>2. TeidsAt(i)' \subseteq TeidsAt(i)
      BY <1>1, <2>2, Topology
    <3> QED BY <3>1, <3>2, OnceLess
  <2> QED BY <2>1, <2>2
<1> QED BY <1>1, <1>2

LEMMA WiredRecvS1apStable ==
    ASSUME StableInv, ClosedInv', BranchInv', NEW w \in Wired, WiredRecvS1ap(w)
    PROVE  StableInv' /\ StableStep
<1> DEFINE m == Head(s1Down[w])
<1>1. /\ s1Down[w] # <<>> /\ RecvFromS1apSocket(w, m, dlq)
      /\ s1Down' = [s1Down EXCEPT ![w] = Tail(@)]
  BY DEF WiredRecvS1ap
<1>2. /\ w \in Stations /\ w \notin Iab /\ s1Down \in [Wired -> Seq(Request)]
      /\ dlq \in GrantedQueues /\ dlq \in DownlinkQueues
  BY StableParts, Topology DEF ClosedInv, TypeInv, QueueInv, Requests
<1>3. m \in Request /\ Asked[m] = TeidsOf(m)
  <2>1. m \in Request
    BY <1>1, <1>2, TakeQueue
  <2> QED BY <2>1 DEF Asked, Request
<1>4. \A x \in Wired : Once(s1Down[x], Asked, TeidsAt(x)) /\ s1Down[x] \in Seq(Request)
  BY <1>2 DEF StableInv, FreshInv
<1>5. \A i \in Iab : Once(dlq[i], AskedOn, TeidsAt(i))
  BY DEF StableInv, FreshInv
<1>6. TeidsOf(m) \cap TeidsAt(w) = {}
  <2>1. 1 \in DOMAIN s1Down[w] /\ m = s1Down[w][1]
    BY <1>1, <1>4, EmptySeq, LenProperties
  <2> HIDE DEF m
  <2> QED BY <1>3, <1>4, <2>1 DEF Once
<1> HIDE DEF m
<1>7. /\ StableStep /\ WrittenInv'
      /\ \A x \in Stations :
            TeidsAt(x)' \subseteq TeidsAt(x) \cup (IF x = w THEN TeidsOf(m) ELSE {})
      /\ \A i \in Iab : Once(dlq'[i], AskedOn, TeidsAt(i)')
  BY <1>1, <1>2, <1>3, <1>5, <1>6, RecvFromS1apSocketStable
<1>8. ASSUME NEW x \in Wired PROVE Once(s1Down'[x], Asked, TeidsAt(x)')
  <2>1. CASE x = w
    <3>1. s1Down'[w] = Tail(s1Down[w])
      BY <1>1, <1>2
    <3>2. TeidsAt(w)' \subseteq TeidsAt(w) \cup Asked[Head(s1Down[w])]
      BY <1>2, <1>3, <1>7 DEF m
    <3> QED BY <1>1, <1>4, <2>1, <3>1, <3>2, OnceTail
  <2>2. CASE x # w
    <3>1. s1Down'[x] = s1Down[x] /\ TeidsAt(x)' \subseteq TeidsAt(x)
      BY <1>1, <1>2, <1>7, <2>2, Topology
    <3> QED BY <1>4, <3>1, OnceLess
  <2> QED BY <2>1, <2>2
<1> QED BY <1>7, <1>8 DEF StableInv, FreshInv

LEMMA IabRecvS1apStable ==
    ASSUME StableInv, ClosedInv', BranchInv', NEW j \in Iab, IabRecvS1ap(j)
    PROVE  StableInv' /\ StableStep
<1> DEFINE f == Head(dlq[j])
           m == f.pkt
           q == [dlq EXCEPT ![j] = Tail(@)]
<1>1. /\ dlq[j] # <<>> /\ m.type = "InitialContextSetupRequest"
      /\ RecvFromS1apSocket(j, m, q) /\ s1Down' = s1Down
  BY DEF IabRecvS1ap, coreVars
<1>2. j \in Stations /\ j \in Devices /\ Iab \subseteq Devices
  BY Topology
<1>3. /\ f \in RequestFrame /\ f \in DownlinkFrame
      /\ q \in GrantedQueues /\ q \in DownlinkQueues
  BY <1>1, <1>2, HeadGranted, HeadDownlink, StableParts DEF GrantedFrame
<1>4. m \in Request /\ AskedOn[f] = TeidsOf(m)
  BY <1>1, <1>3 DEF RequestFrame, DataPacket, AskedOn
<1>5. dlq \in [Devices -> Seq(DownlinkFrame)]
  BY StableParts DEF TypeInv, TypeOK, RadioTypes
<1>6. \A i \in Iab : Once(dlq[i], AskedOn, TeidsAt(i)) /\ dlq[i] \in Seq(DownlinkFrame)
  BY <1>2, <1>5 DEF StableInv, FreshInv
<1>7. TeidsOf(m) \cap TeidsAt(j) = {}
  <2>1. 1 \in DOMAIN dlq[j] /\ f = dlq[j][1]
    BY <1>1, <1>6, EmptySeq, LenProperties
  <2> HIDE DEF f
  <2> QED BY <1>4, <1>6, <2>1 DEF Once
<1>8. q[j] = Tail(dlq[j]) /\ \A i \in Iab \ {j} : q[i] = dlq[i]
  BY <1>2, <1>5
<1>9. Once(q[j], AskedOn, TeidsAt(j) \cup TeidsOf(m))
  BY <1>1, <1>4, <1>6, <1>8, OnceTail
<1>10. \A i \in Iab \ {j} : Once(q[i], AskedOn, TeidsAt(i))
  BY <1>6, <1>8
<1> HIDE DEF f, m, q
<1>11. /\ StableStep /\ WrittenInv'
       /\ \A x \in Stations :
             TeidsAt(x)' \subseteq TeidsAt(x) \cup (IF x = j THEN TeidsOf(m) ELSE {})
       /\ \A i \in Iab : Once(dlq'[i], AskedOn, TeidsAt(i)')
  BY <1>1, <1>2, <1>3, <1>4, <1>7, <1>9, <1>10, RecvFromS1apSocketStable
<1>12. ASSUME NEW x \in Wired PROVE Once(s1Down'[x], Asked, TeidsAt(x)')
  <2>1. TeidsAt(x)' \subseteq TeidsAt(x)
    BY <1>11, Topology
  <2> QED BY <1>1, <2>1, OnceLess DEF StableInv, FreshInv
<1> QED BY <1>11, <1>12 DEF StableInv, FreshInv

LEMMA StableInvStep == StableInv /\ [Next]_vars => StableInv' /\ StableStep
<1> SUFFICES ASSUME StableInv, [Next]_vars PROVE StableInv' /\ StableStep
  OBVIOUS
<1> USE DEF cellVars, appVars, coreVars, srbVars, nasVars
<1>1. ClosedInv' /\ BranchInv'
  BY ClosedInvStep, BranchInvStep, StableParts
<1>2. ASSUME UNCHANGED <<teidRbid, rbidTeid, s1Down, dlq>> PROVE StableInv' /\ StableStep
  <2>1. \A i \in Iab : Once(dlq'[i], AskedOn, TeidsAt(i))
    BY <1>2 DEF StableInv, FreshInv
  <2> QED BY <1>1, <1>2, <2>1, SameFresh
<1>3. ASSUME NEW d \in Devices, Connect(d) \/ Uplink(d) PROVE StableInv' /\ StableStep
  <2>1. Connect(d) => UNCHANGED <<teidRbid, rbidTeid, s1Down, dlq>>
    BY Zenon DEF Connect, RandomAccess, RecvConnectionRequest, RecvConnectionSetup,
       RecvConnectionSetupCompleted, RecvReconfiguration, RecvReconfigurationCompleted
  <2>2. Uplink(d) => UNCHANGED <<teidRbid, rbidTeid, s1Down, dlq>>
    BY DEF Uplink, RelayInitialUeMessage, RelayData, RecvUeData
  <2> QED BY <1>2, <1>3, <2>1, <2>2
<1>4. ASSUME NEW d \in Devices, DownlinkStep(d) PROVE StableInv' /\ StableStep
  <2>1. CASE IabRecvS1ap(d)
    BY <1>1, <2>1, IabRecvS1apStable DEF IabRecvS1ap
  <2>2. CASE IabRecvData(d)
    BY <1>1, <2>2, IabRecvDataStable DEF IabRecvData
  <2>3. CASE DropDownlink(d) \/ DeliverToUe(d)
    BY <1>1, <2>3, TakenDownlinkStable
  <2> QED BY <1>4, <2>1, <2>2, <2>3 DEF DownlinkStep
<1>5. ASSUME NEW d \in Devices, ConnectionTimeout(d) \/ LoseUplink(d) \/ LoseDownlink(d)
      PROVE  StableInv' /\ StableStep
  <2>1. CASE LoseDownlink(d)
    BY <1>1, <2>1, TakenDownlinkStable
  <2>2. CASE ConnectionTimeout(d) \/ LoseUplink(d)
    BY <1>2, <2>2 DEF ConnectionTimeout, LoseUplink
  <2> QED BY <1>5, <2>1, <2>2
<1>6. ASSUME NEW w \in Wired, Wireline(w) \/ MmeRecvInitialUeMessage(w)
      PROVE  StableInv' /\ StableStep
  BY <1>1, <1>6, WiredRecvS1apStable, WiredRecvDataStable, MmeRecvInitialUeMessageStable
     DEF Wireline
<1>7. ASSUME NEW b \in Stations, NEW r \in Rntis, RemoveUe(b, r) PROVE StableInv' /\ StableStep
  BY <1>1, <1>7, RemoveUeStable
<1>8. ASSUME NEW u \in Ue, NEW k \in Bids, UeSend(u, k) \/ SgwRecvFromInternet(u, k)
      PROVE  StableInv' /\ StableStep
  BY <1>2, <1>8 DEF UeSend, SgwRecvFromInternet
<1>9. CASE UNCHANGED vars
  BY <1>2, <1>9 DEF vars
<1> QED BY <1>3, <1>4, <1>5, <1>6, <1>7, <1>8, <1>9 DEF Next

\* RouteIsStable in every deployment, with any number of attempts: the SGW
\* gives every request TEIDs of its own, so DoInitialContextSetupRequest and
\* DoForwardIabS1apReply write m_teidRbidMap only where it has no entry, and
\* UeContextRelease erases only entries of the RNTI it releases.
THEOREM RoutesAreStable == Spec => RouteIsStable
<1>1. Init => StableInv
  BY InitStableInv
<1>2. StableInv /\ [Next]_vars => StableInv'
  BY StableInvStep
<1>3. StableInv /\ [Next]_vars =>
        [\A b \in Stations, t \in Teids : HasTeid(b, t) =>
            \/ teidRbid'[b][t] = teidRbid[b][t]
            \/ /\ teidRbid'[b][t] = NoRbid /\ t \notin teidRemote[b]
               /\ ueMap'[b][teidRbid[b][t].rnti].state = "NONE"]_vars
  BY StableInvStep DEF StableStep
<1> QED BY <1>1, <1>2, <1>3, PTL DEF Spec, RouteIsStable
=============================================================================
