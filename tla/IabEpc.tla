------------------------------- MODULE IabEpc -------------------------------
(***************************************************************************)
(* Attach of UEs and IAB nodes over a tree of wireless backhaul hops, and  *)
(* the GTP tunnels the attach leaves behind: the NAS and RRC of each       *)
(* device, the RRC, EPC application and S1AP endpoint of each cell         *)
(* (EpcEnbApplication on a wired gNB, EpcIabApplication on an IAB node,    *)
(* EpcS1apEnb on both), the MME and the SGW.                               *)
(*                                                                         *)
(* One action is one simulator event: everything a handler calls           *)
(* synchronously is part of it.  The S1-AP socket pair inside an IAB node  *)
(* (two SimpleNetDevices with no delay) is part of the event that writes   *)
(* to it.  Anything sent over SRBs, DRBs, S1-AP or S1-U waits in a queue.  *)
(* An NS_ASSERT or NS_FATAL_ERROR ends the program: fatal says which.      *)
(***************************************************************************)
EXTENDS IabTopology

CONSTANTS
    MaxAttempts,  \* bound: random accesses of each device
    MaxData,      \* bound: data packets of one UE
    MaxLoss       \* bound: DRB packets the radio loses (RLC UM)

ASSUME AttemptsAssumption ==
    MaxAttempts \in [Devices -> Nat] /\ MaxData \in Nat /\ MaxLoss \in Nat

VARIABLES
    rrc, rnti, drbs, attempts,        \* LteUeRrc of each device
    nas, nasBuffer, lostS1ap,         \* EpcUeNas of each device
    srbUl, srbDl, ulq, dlq, losses,   \* radio between a device and its cell
    lastRnti, ueMap,                  \* LteEnbRrc of each cell
    imsiRnti, rntiLocalImsi, imsiIab, rbidTeid,              \* EPC application
    teidRbid, teidRemote, imsiLocalRbid, children, remoteImsi,
    mmeCell, session, enbAddr,        \* MME and SGW
    s1Up, s1Down, s1uDown,            \* S1-AP and S1-U links of the wired gNBs
    dataSent, fatal

ueVars   == <<rrc, rnti, drbs, attempts>>
nasVars  == <<nas, nasBuffer, lostS1ap>>
srbVars  == <<srbUl, srbDl>>
cellVars == <<lastRnti, ueMap>>
appVars  == <<imsiRnti, rntiLocalImsi, imsiIab, rbidTeid, teidRbid,
              teidRemote, imsiLocalRbid, children, remoteImsi>>
coreVars == <<mmeCell, session, enbAddr, s1Up, s1Down, s1uDown>>
vars     == <<ueVars, nasVars, srbVars, ulq, dlq, losses, cellVars, appVars,
              coreVars, dataSent, fatal>>

UeManagerState == {"NONE", "INITIAL_RANDOM_ACCESS", "CONNECTION_SETUP",
                   "CONNECTED_NORMALLY", "CONNECTION_RECONFIGURATION"}

\* A UeManager of m_ueMap; numIab is what the scheduler was last told.
UeManager == [ue : Devices \cup {None}, state : UeManagerState,
              drbs : Bids \cup {0}, pending : BOOLEAN, needIab : BOOLEAN,
              numIab : Nat]

NoUeManager == [ue |-> None, state |-> "NONE", drbs |-> 0, pending |-> FALSE,
                needIab |-> FALSE, numIab |-> 0]

NoTeids == [k \in Bids |-> 0]

\* No event runs after the program has stopped.
Running == fatal = "no"

Init ==
    /\ rrc = [d \in Devices |-> "IDLE"]
    /\ rnti = [d \in Devices |-> 0]
    /\ drbs = [d \in Devices |-> 0]
    /\ attempts = [d \in Devices |-> 0]
    /\ nas = [d \in Devices |-> "OFF"]
    /\ nasBuffer = [d \in Devices |-> <<>>]
    /\ lostS1ap = {}
    /\ srbUl = [d \in Devices |-> <<>>]
    /\ srbDl = [d \in Devices |-> <<>>]
    /\ ulq = [d \in Devices |-> <<>>]
    /\ dlq = [d \in Devices |-> <<>>]
    /\ losses = 0
    /\ lastRnti = [b \in Stations |-> 0]
    /\ ueMap = [b \in Stations |-> [r \in Rntis |-> NoUeManager]]
    /\ imsiRnti = [b \in Stations |-> [d \in Devices |-> 0]]
    /\ rntiLocalImsi = [b \in Stations |-> [r \in Rntis |-> None]]
    /\ imsiIab = [b \in Stations |-> [d \in Devices |-> "unknown"]]
    /\ rbidTeid = [b \in Stations |-> [r \in Rntis |-> NoTeids]]
    /\ teidRbid = [b \in Stations |-> [t \in Teids |-> NoRbid]]
    /\ teidRemote = [b \in Stations |-> {}]
    /\ imsiLocalRbid = [b \in Stations |-> [d \in Devices |-> NoRbid]]
    /\ children = [b \in Stations |-> [r \in Rntis |-> {}]]
    /\ remoteImsi = [b \in Stations |-> {}]
    /\ mmeCell = [d \in Devices |-> None]
    /\ session = <<>>
    /\ enbAddr = [d \in Devices |-> None]
    /\ s1Up = [w \in Wired |-> <<>>]
    /\ s1Down = [w \in Wired |-> <<>>]
    /\ s1uDown = [w \in Wired |-> <<>>]
    /\ dataSent = [u \in Ue |-> 0]
    /\ fatal = "no"

(***************************************************************************)
(* Sending upwards.                                                        *)
(***************************************************************************)

\* EpcUeNas::Send of d, for a packet of bearer k, when the uplink queues are
\* q.  Not ACTIVE: the packet is buffered.  ACTIVE, but the RRC has no such
\* bearer yet: DoSendData drops it without telling the NAS.
NasSend(d, p, k, q) ==
    /\ UNCHANGED nas
    /\ \/ /\ nas[d] = "OFF"
          /\ nasBuffer' = [nasBuffer EXCEPT ![d] = Append(@, p)]
          /\ ulq' = q
          /\ UNCHANGED lostS1ap
       \/ /\ nas[d] = "ACTIVE" /\ k <= drbs[d]
          /\ ulq' = [q EXCEPT ![d] = Append(@, Frame(rnti[d], k, p))]
          /\ UNCHANGED <<nasBuffer, lostS1ap>>
       \/ /\ nas[d] = "ACTIVE" /\ k > drbs[d]
          /\ ulq' = q
          /\ lostS1ap' = IF p.type = "InitialUeMessage"
                         THEN lostS1ap \cup {p.imsi} ELSE lostS1ap
          /\ UNCHANGED nasBuffer

\* A cell sends an S1-AP message towards the MME: over UDP from a wired gNB,
\* in a GTP packet through its own NAS from an IAB node.
SendS1ap(b, m, q) ==
    \/ /\ b \in Wired
       /\ s1Up' = [s1Up EXCEPT ![b] = Append(@, m)]
       /\ ulq' = q
       /\ UNCHANGED nasVars
    \/ /\ b \in Iab
       /\ NasSend(b, m, 1, q)
       /\ UNCHANGED s1Up

\* A cell sends a GTP data packet towards the SGW.  From a wired gNB it
\* leaves the model: the SGW hands it to the Internet whatever its TEID.
SendDataUp(b, p, q) ==
    \/ /\ b \in Wired
       /\ ulq' = q
       /\ UNCHANGED nasVars
    \/ /\ b \in Iab
       /\ NasSend(b, p, 1, q)

\* What a cell adds to the parents of an InitialUeMessage: itself, if it is an
\* IAB node.  A wired gNB adds 0 instead, and nobody reads it.
Mutant_AddsNobody(b)  == {}
Mutant_AddsAnyCell(b) == {b}
AddParent(b) == {b} \cap Iab

(***************************************************************************)
(* RRC connection of device d with cell b = Parent[d].                     *)
(***************************************************************************)

NewUeManager(d) == [NoUeManager EXCEPT !.ue = d, !.state = "INITIAL_RANDOM_ACCESS"]

\* The random access procedure ends: LteEnbRrc::AddUe creates a UeManager
\* under a fresh RNTI and the UE sends its RRC connection request.
RandomAccess(d) ==
    LET b == Parent[d]
        r == lastRnti[b] + 1
    IN  /\ Running
        /\ rrc[d] = "IDLE" /\ attempts[d] < MaxAttempts[d] /\ r \in Rntis
        /\ rrc' = [rrc EXCEPT ![d] = "CONNECTING"]
        /\ rnti' = [rnti EXCEPT ![d] = r]
        /\ attempts' = [attempts EXCEPT ![d] = @ + 1]
        /\ lastRnti' = [lastRnti EXCEPT ![b] = r]
        /\ ueMap' = [ueMap EXCEPT ![b][r] = NewUeManager(d)]
        /\ srbUl' = [srbUl EXCEPT ![d] = Append(@, Rrc("ConnectionRequest", r, 0))]
        /\ UNCHANGED <<drbs, nasVars, srbDl, ulq, dlq, losses, appVars,
                       coreVars, dataSent, fatal>>

\* RecvRrcConnectionRequest: the cell asks the core for a context before it
\* answers the UE.
RecvConnectionRequest(d) ==
    LET b == Parent[d]
        r == Head(srbUl[d]).rnti
    IN  /\ Running
        /\ srbUl[d] # <<>> /\ Head(srbUl[d]).type = "ConnectionRequest"
        /\ ueMap[b][r].state = "INITIAL_RANDOM_ACCESS"
        /\ srbUl' = [srbUl EXCEPT ![d] = Tail(@)]
        /\ imsiRnti' = [imsiRnti EXCEPT ![b][d] = r]
        /\ rntiLocalImsi' = [rntiLocalImsi EXCEPT ![b][r] = d]
        /\ SendS1ap(b, [type |-> "InitialUeMessage", imsi |-> d, gci |-> b,
                        parents |-> AddParent(b)], ulq)
        /\ srbDl' = [srbDl EXCEPT ![d] = Append(@, Rrc("ConnectionSetup", r, 0))]
        /\ ueMap' = [ueMap EXCEPT ![b][r] = [@ EXCEPT !.state = "CONNECTION_SETUP"]]
        /\ UNCHANGED <<ueVars, dlq, losses, lastRnti, imsiIab, rbidTeid,
                       teidRbid, teidRemote, imsiLocalRbid, children, remoteImsi,
                       mmeCell, session, enbAddr, s1Down, s1uDown, dataSent, fatal>>

\* DoRecvRrcConnectionSetup: the NAS becomes ACTIVE now, before the RRC has
\* any data radio bearer.
RecvConnectionSetup(d) ==
    /\ Running
    /\ srbDl[d] # <<>> /\ Head(srbDl[d]).type = "ConnectionSetup"
    /\ rrc[d] = "CONNECTING"
    /\ srbDl' = [srbDl EXCEPT ![d] = Tail(@)]
    /\ rrc' = [rrc EXCEPT ![d] = "CONNECTED"]
    /\ nas' = [nas EXCEPT ![d] = "ACTIVE"]
    /\ srbUl' = [srbUl EXCEPT ![d] =
                    Append(@, Rrc("ConnectionSetupCompleted", rnti[d], 0))]
    /\ UNCHANGED <<rnti, drbs, attempts, nasBuffer, lostS1ap, ulq, dlq, losses,
                   cellVars, appVars, coreVars, dataSent, fatal>>

\* SwitchToState (CONNECTED_NORMALLY) starts a pending reconfiguration.
ConnectedNormally(u) ==
    IF u.pending
    THEN [u EXCEPT !.state = "CONNECTION_RECONFIGURATION", !.pending = FALSE]
    ELSE [u EXCEPT !.state = "CONNECTED_NORMALLY"]

Mutant_ForgetsPending(u, r) == <<>>
Reconfiguration(u, r) ==
    IF u.pending THEN <<Rrc("ConnectionReconfiguration", r, u.drbs)>> ELSE <<>>

RecvConnectionSetupCompleted(d) ==
    LET b == Parent[d]
        r == Head(srbUl[d]).rnti
        u == ueMap[b][r]
    IN  /\ Running
        /\ srbUl[d] # <<>> /\ Head(srbUl[d]).type = "ConnectionSetupCompleted"
        /\ u.state = "CONNECTION_SETUP"
        /\ srbUl' = [srbUl EXCEPT ![d] = Tail(@)]
        /\ ueMap' = [ueMap EXCEPT ![b][r] = ConnectedNormally(u)]
        /\ srbDl' = [srbDl EXCEPT ![d] = @ \o Reconfiguration(u, r)]
        /\ UNCHANGED <<ueVars, nasVars, ulq, dlq, losses, lastRnti, appVars,
                       coreVars, dataSent, fatal>>

\* EpcTftClassifier: a GTP packet of an IAB node takes its first bearer, an
\* IP packet the bearer of the flow it matches.
BearerOf(d, p) == IF d \in Iab THEN 1 ELSE p.bid

\* ApplyRadioResourceConfigDedicated: when the message adds a bearer, the NAS
\* sends everything it ever buffered, and keeps it in the buffer.  A packet
\* that an earlier bearer took still has the tags the RLC put on it, and the
\* RLC may not add them again.
RecvReconfiguration(d) ==
    LET n     == Head(srbDl[d]).drbs
        flush == IF n > drbs[d] THEN nasBuffer[d] ELSE <<>>
        twice == \E i \in DOMAIN flush : BearerOf(d, flush[i]) <= drbs[d]
        sent  == {i \in DOMAIN flush : BearerOf(d, flush[i]) <= n}
    IN  /\ Running
        /\ srbDl[d] # <<>> /\ Head(srbDl[d]).type = "ConnectionReconfiguration"
        /\ rrc[d] = "CONNECTED"
        /\ srbDl' = [srbDl EXCEPT ![d] = Tail(@)]
        /\ drbs' = [drbs EXCEPT ![d] = n]
        /\ IF twice
           THEN fatal' = "same tag twice" /\ UNCHANGED <<ulq, srbUl>>
           ELSE /\ \E order \in [1 .. Cardinality(sent) -> sent] :
                      /\ \A x, y \in DOMAIN order : x < y => order[x] < order[y]
                      /\ ulq' = [ulq EXCEPT ![d] = @ \o [x \in DOMAIN order |->
                            LET p == flush[order[x]] IN Frame(rnti[d], BearerOf(d, p), p)]]
                /\ srbUl' = [srbUl EXCEPT ![d] =
                      Append(@, Rrc("ConnectionReconfigurationCompleted", rnti[d], 0))]
                /\ UNCHANGED fatal
        /\ UNCHANGED <<rrc, rnti, attempts, nasVars, dlq, losses, cellVars,
                       appVars, coreVars, dataSent>>

\* For an IAB child the scheduler is told "one IAB device" whenever
\* m_needIabPhyMacConfiguration is set, and nothing resets it.
Reconfigured(u) ==
    [ConnectedNormally(u) EXCEPT !.numIab = IF u.needIab THEN 1 ELSE @]

RecvReconfigurationCompleted(d) ==
    LET b == Parent[d]
        r == Head(srbUl[d]).rnti
        u == ueMap[b][r]
    IN  /\ Running
        /\ srbUl[d] # <<>>
        /\ Head(srbUl[d]).type = "ConnectionReconfigurationCompleted"
        /\ u.state = "CONNECTION_RECONFIGURATION"
        /\ srbUl' = [srbUl EXCEPT ![d] = Tail(@)]
        /\ ueMap' = [ueMap EXCEPT ![b][r] = Reconfigured(u)]
        /\ srbDl' = [srbDl EXCEPT ![d] = @ \o Reconfiguration(u, r)]
        /\ UNCHANGED <<ueVars, nasVars, ulq, dlq, losses, lastRnti, appVars,
                       coreVars, dataSent, fatal>>

\* ConnectionTimeout (T300): the UE gives up on the RNTI, what was under way
\* on its SRBs is lost with it, and the NAS connects again at once.
ConnectionTimeout(d) ==
    /\ Running
    /\ rrc[d] = "CONNECTING" /\ attempts[d] < MaxAttempts[d]
    /\ rrc' = [rrc EXCEPT ![d] = "IDLE"]
    /\ rnti' = [rnti EXCEPT ![d] = 0]
    /\ srbUl' = [srbUl EXCEPT ![d] = <<>>]
    /\ srbDl' = [srbDl EXCEPT ![d] = <<>>]
    /\ UNCHANGED <<drbs, attempts, nasVars, ulq, dlq, losses, cellVars, appVars,
                   coreVars, dataSent, fatal>>

\* DoUeContextRelease forgets the TEIDs of the bearers of an RNTI.
Mutant_KeepsTeids(b, r) == {}
Mutant_ReleasesCell(b, r) == {t \in Teids : t \notin teidRemote[b]}
ReleasedTeids(b, r) == {rbidTeid[b][r][k] : k \in Bids}

\* ConnectionRequestTimeout (15 ms) and ConnectionSetupTimeout (150 ms):
\* RemoveUe destroys the UeManager and the application releases its context.
\* What the radio loses on an SRB leaves the queue when T300 (100 ms) gives up
\* on it, so here both come after T300; a cell whose request timeout comes
\* first has no context of that RNTI yet.
RemoveUe(b, r) ==
    /\ Running
    /\ ueMap[b][r].state \in {"INITIAL_RANDOM_ACCESS", "CONNECTION_SETUP"}
    /\ rnti[ueMap[b][r].ue] # r
    /\ ueMap' = [ueMap EXCEPT ![b][r] = [@ EXCEPT !.state = "NONE"]]
    /\ teidRbid' = [teidRbid EXCEPT ![b] =
                       [t \in Teids |-> IF t \in ReleasedTeids(b, r) THEN NoRbid ELSE @[t]]]
    /\ rbidTeid' = [rbidTeid EXCEPT ![b][r] = NoTeids]
    /\ UNCHANGED <<ueVars, nasVars, srbVars, ulq, dlq, losses, lastRnti,
                   imsiRnti, rntiLocalImsi, imsiIab, teidRemote, imsiLocalRbid,
                   children, remoteImsi, coreVars, dataSent, fatal>>

(***************************************************************************)
(* Context setup: from the MME down to the cell that serves the device.    *)
(***************************************************************************)

\* LteEnbRrc::SendData: downlink queues q after packet p leaves cell b on
\* bearer rb.  A UeManager that is not connected discards it.
SendToLteSocket(b, rb, p, q) ==
    LET u == ueMap[b][rb.rnti] IN
    IF /\ u.state \in {"CONNECTED_NORMALLY", "CONNECTION_RECONFIGURATION"}
       /\ rb.bid \in 1 .. u.drbs
    THEN [q EXCEPT ![u.ue] = Append(@, Frame(rb.rnti, rb.bid, p))]
    ELSE q

\* NS_ASSERT or NS_FATAL_ERROR while a context setup is handled: the program
\* stops where it stands.
AbortContextSetup(why, q) ==
    /\ fatal' = why
    /\ dlq' = q
    /\ UNCHANGED <<srbDl, cellVars, appVars>>

\* The TEIDs a forwarded request makes known, and m_teidRemoteMap after it.
Mutant_DefaultBearerOnly(m) == {TeidFor(m, 1)}
ForwardedTeids(m) == TeidsOf(m)

Mutant_NotMarked(b, m) == teidRemote[b]
MarkedRemote(b, m) == teidRemote[b] \cup ForwardedTeids(m)

\* DoForwardIabS1apReply: remember the TEIDs of a device further down as
\* remote ones, on the bearer its InitialUeMessage came from; tell the
\* scheduler how many IAB nodes are behind that RNTI; pass the message on.
ForwardIabS1apReply(b, m, q) ==
    LET d  == m.imsi
        rb == imsiLocalRbid[b][d]
        r  == imsiRnti[b][d]
        ch == children[b][r] \ (IF m.iab THEN {} ELSE {d})
    IN  IF r = 0 \/ rb = NoRbid \/ ueMap[b][r].state = "NONE"
        THEN AbortContextSetup("IMSI not found", q)
        ELSE /\ imsiIab' = [imsiIab EXCEPT ![b][d] = IF m.iab THEN "iab" ELSE "ue"]
             /\ children' = [children EXCEPT ![b][r] = ch]
             /\ ueMap' = [ueMap EXCEPT ![b][r] = [@ EXCEPT !.numIab = Cardinality(ch)]]
             /\ teidRbid' = [teidRbid EXCEPT ![b] =
                               [t \in Teids |-> IF t \in ForwardedTeids(m) THEN rb ELSE @[t]]]
             /\ teidRemote' = [teidRemote EXCEPT ![b] = MarkedRemote(b, m)]
             /\ dlq' = SendToLteSocket(b, rb, m, q)
             /\ UNCHANGED <<srbDl, lastRnti, imsiRnti, rntiLocalImsi, rbidTeid,
                            imsiLocalRbid, remoteImsi, fatal>>

\* UeManager u once it has set up the bearers of request m.  A UE that is
\* CONNECTED_NORMALLY is sent the first bearer at once and the others when it
\* has answered; otherwise the reconfiguration waits until it is connected.
WithBearers(u, m) ==
    LET n    == Cardinality(m.erabs)
        idle == u.state = "CONNECTED_NORMALLY"
    IN  [u EXCEPT !.drbs = n, !.needIab = m.iab, !.pending = ~idle \/ n > 1,
                  !.state = IF idle THEN "CONNECTION_RECONFIGURATION" ELSE u.state]

\* DoInitialContextSetupRequest and UeManager::SetupDataRadioBearer at the
\* cell that serves the device.
SetupContext(b, m, q) ==
    LET d == m.imsi
        r == imsiRnti[b][d]
        u == ueMap[b][r]
        idle == u.state = "CONNECTED_NORMALLY"
        why  == IF r = 0 THEN "Unrecognized imsi"
                ELSE IF u.state = "NONE" THEN "RNTI not found"
                ELSE IF u.drbs # 0 THEN "bearer ID mismatch" ELSE "no"
    IN  IF why # "no"
        THEN AbortContextSetup(why, q)
        ELSE /\ imsiIab' = [imsiIab EXCEPT ![b][d] =
                               IF @ # "unknown" THEN @ ELSE IF m.iab THEN "iab" ELSE "ue"]
             /\ rbidTeid' = [rbidTeid EXCEPT ![b][r] =
                               [k \in Bids |-> IF k \in BidsOf(m) THEN TeidFor(m, k) ELSE @[k]]]
             /\ teidRbid' = [teidRbid EXCEPT ![b] =
                               [t \in Teids |-> IF t \in TeidsOf(m)
                                                THEN [rnti |-> r, bid |-> BidOf(m, t)]
                                                ELSE @[t]]]
             /\ ueMap' = [ueMap EXCEPT ![b][r] = WithBearers(u, m)]
             /\ srbDl' = IF idle
                         THEN [srbDl EXCEPT ![d] =
                                  Append(@, Rrc("ConnectionReconfiguration", r, 1))]
                         ELSE srbDl
             /\ dlq' = q
             /\ UNCHANGED <<lastRnti, imsiRnti, rntiLocalImsi, teidRemote,
                            imsiLocalRbid, children, remoteImsi, fatal>>

\* EpcS1apEnb::RecvFromS1apSocket: a request for a device whose messages this
\* cell has forwarded goes one hop down, any other is for a device of the cell.
RecvFromS1apSocket(b, m, q) ==
    IF m.imsi \in remoteImsi[b] THEN ForwardIabS1apReply(b, m, q)
                                ELSE SetupContext(b, m, q)

\* A wired gNB takes a request off its S1-AP link, RecvFromS1apSocket.
WiredRecvS1ap(w) ==
    /\ Running
    /\ s1Down[w] # <<>>
    /\ s1Down' = [s1Down EXCEPT ![w] = Tail(@)]
    /\ RecvFromS1apSocket(w, Head(s1Down[w]), dlq)
    /\ UNCHANGED <<ueVars, nasVars, srbUl, ulq, losses, mmeCell, session, enbAddr,
                   s1Up, s1uDown, dataSent>>

(***************************************************************************)
(* Data radio bearers, downlink.                                           *)
(***************************************************************************)

\* The UE's MAC drops a packet for another RNTI, or for a logical channel
\* its RRC has not configured yet.
Accepts(d, f) == f.rnti = rnti[d] /\ f.bid <= drbs[d]

Downlink(d) == dlq[d] # <<>> /\ dlq' = [dlq EXCEPT ![d] = Tail(@)]

DropDownlink(d) ==
    /\ Running
    /\ Downlink(d)
    /\ ~Accepts(d, Head(dlq[d]))
    /\ UNCHANGED <<ueVars, nasVars, srbVars, ulq, losses, cellVars, appVars,
                   coreVars, dataSent, fatal>>

\* The packet reaches the UE's own stack.
DeliverToUe(d) ==
    /\ Running
    /\ d \in Ue
    /\ Downlink(d)
    /\ Accepts(d, Head(dlq[d]))
    /\ UNCHANGED <<ueVars, nasVars, srbVars, ulq, losses, cellVars, appVars,
                   coreVars, dataSent, fatal>>

\* EpcIabApplication::RecvFromS1uSocket, a packet that carries S1-AP.
IabRecvS1ap(i) ==
    /\ Running
    /\ i \in Iab /\ dlq[i] # <<>>
    /\ LET f == Head(dlq[i]) IN
         /\ Accepts(i, f) /\ f.pkt.type = "InitialContextSetupRequest"
         /\ RecvFromS1apSocket(i, f.pkt, [dlq EXCEPT ![i] = Tail(@)])
    /\ UNCHANGED <<ueVars, nasVars, srbUl, ulq, losses, coreVars, dataSent>>

\* The GTP header is put back on a packet whose TEID is remote.
Mutant_HeaderStays(b, t) == t
HeaderTeid(b, t) == IF t \in teidRemote[b] THEN t ELSE 0

\* A data packet leaves cell b on the bearer its TEID leads to; a packet of an
\* unknown TEID is discarded.
RecvFromS1uSocket(b, p, q) ==
    LET t == p.teid IN
    dlq' = IF t \in Teids /\ teidRbid[b][t] # NoRbid
           THEN SendToLteSocket(b, teidRbid[b][t],
                                [p EXCEPT !.teid = HeaderTeid(b, t)], q)
           ELSE q

\* GetUeManager asserts that a packet's RNTI is one the cell knows.
RouteIsStale(b, t) ==
    /\ t \in Teids /\ teidRbid[b][t] # NoRbid
    /\ ueMap[b][teidRbid[b][t].rnti].state = "NONE"

ForwardDown(b, p, q) ==
    /\ fatal' = IF RouteIsStale(b, p.teid) THEN "RNTI not found" ELSE fatal
    /\ RecvFromS1uSocket(b, p, q)

IabRecvData(i) ==
    /\ Running
    /\ i \in Iab /\ dlq[i] # <<>>
    /\ LET f == Head(dlq[i]) IN
         /\ Accepts(i, f) /\ f.pkt.type = "Data"
         /\ ForwardDown(i, f.pkt, [dlq EXCEPT ![i] = Tail(@)])
    /\ UNCHANGED <<ueVars, nasVars, srbVars, ulq, losses, cellVars, appVars,
                   coreVars, dataSent>>

\* EpcEnbApplication::RecvFromS1uSocket.
WiredRecvData(w) ==
    /\ Running
    /\ s1uDown[w] # <<>>
    /\ s1uDown' = [s1uDown EXCEPT ![w] = Tail(@)]
    /\ ForwardDown(w, Head(s1uDown[w]), dlq)
    /\ UNCHANGED <<ueVars, nasVars, srbVars, ulq, losses, cellVars, appVars,
                   mmeCell, session, enbAddr, s1Up, s1Down, dataSent>>

(***************************************************************************)
(* Data radio bearers, uplink: RecvFromLteSocket at the parent of d.       *)
(***************************************************************************)

\* m_imsiIabMap of the device behind the RNTI the packet came from.
SenderKind(b, f) ==
    LET c == rntiLocalImsi[b][f.rnti]
    IN  IF c = None THEN "unknown" ELSE imsiIab[b][c]

\* The IAB nodes behind the RNTI a message came from: its parents so far.
Mutant_AddsItselfFirst(b, m) == m.parents \cup AddParent(b)
NodesBehind(b, m) == m.parents

\* An IAB child relays an InitialUeMessage: the cell notes which bearer leads
\* to the device and which IAB nodes are behind the RNTI, enters itself as a
\* parent and passes the message on as S1-AP (DoForwardIabS1apMessage).
RelayInitialUeMessage(d) ==
    /\ Running
    /\ ulq[d] # <<>>
    /\ LET b == Parent[d]
           f == Head(ulq[d])
           m == f.pkt
       IN  /\ SenderKind(b, f) = "iab" /\ m.type = "InitialUeMessage"
           /\ children' = [children EXCEPT ![b][f.rnti] = @ \cup NodesBehind(b, m)]
           /\ imsiRnti' = [imsiRnti EXCEPT ![b][m.imsi] = f.rnti]
           /\ imsiLocalRbid' = [imsiLocalRbid EXCEPT ![b][m.imsi] = [rnti |-> f.rnti, bid |-> f.bid]]
           /\ remoteImsi' = [remoteImsi EXCEPT ![b] = @ \cup {m.imsi}]
           /\ SendS1ap(b, [m EXCEPT !.parents = @ \cup AddParent(b)],
                       [ulq EXCEPT ![d] = Tail(@)])
    /\ UNCHANGED <<ueVars, srbVars, dlq, losses, cellVars, rntiLocalImsi, imsiIab,
                   rbidTeid, teidRbid, teidRemote, mmeCell, session, enbAddr,
                   s1Down, s1uDown, dataSent, fatal>>

\* An IAB child relays GTP data: it goes on with the TEID it came with.
RelayData(d) ==
    /\ Running
    /\ ulq[d] # <<>>
    /\ LET b == Parent[d]
           f == Head(ulq[d])
       IN  /\ SenderKind(b, f) = "iab" /\ f.pkt.type = "Data"
           /\ SendDataUp(b, f.pkt, [ulq EXCEPT ![d] = Tail(@)])
    /\ UNCHANGED <<ueVars, srbVars, dlq, losses, cellVars, appVars, coreVars,
                   dataSent, fatal>>

\* m_rbidTeidMap: the TEID of the bearer a packet came on.
Mutant_DefaultTunnel(b, f) == rbidTeid[b][f.rnti][1]
TunnelOf(b, f) == rbidTeid[b][f.rnti][f.bid]

\* A packet of one of the cell's own UEs enters the tunnel of its bearer.  A
\* sender whose kind is not known makes the code follow m_imsiIabMap.end ().
RecvUeData(d) ==
    /\ Running
    /\ ulq[d] # <<>>
    /\ LET b == Parent[d]
           f == Head(ulq[d])
           q == [ulq EXCEPT ![d] = Tail(@)]
           t == TunnelOf(b, f)
           kind == SenderKind(b, f)
       IN  /\ kind # "iab"
           /\ IF kind = "ue" /\ t # 0
              THEN SendDataUp(b, [f.pkt EXCEPT !.teid = t], q) /\ UNCHANGED fatal
              ELSE /\ ulq' = q
                   /\ fatal' = IF kind = "ue" /\ rbidTeid[b][f.rnti] = NoTeids
                               THEN "no" ELSE "unknown context"
                   /\ UNCHANGED nasVars
    /\ UNCHANGED <<ueVars, srbVars, dlq, losses, cellVars, appVars, coreVars,
                   dataSent>>

(***************************************************************************)
(* Core network.                                                           *)
(***************************************************************************)

Mutant_OneDonorUp(g) == IF g \in Iab THEN mmeCell[g] ELSE g

\* DoInitialUeMessage walks from the cell the device is on, gci, over the
\* cells the donors are on, to the first wired one.  A cell of an IAB node
\* that never attached is not found, and a cycle would not end.
WiredDonor(g) ==
    LET walk[n \in 0 .. Cardinality(Iab)] ==
            IF n = 0 THEN g
            ELSE IF walk[n - 1] \in Iab THEN mmeCell[walk[n - 1]] ELSE walk[n - 1]
    IN  walk[Cardinality(Iab)]

\* The MME records the cell, finds the wired gNB, has the SGW allocate a TEID
\* for every bearer of the device (also for one that has TEIDs from an
\* earlier attempt) and sends the context setup request to that gNB.
MmeRecvInitialUeMessage(w) ==
    /\ Running
    /\ s1Up[w] # <<>>
    /\ LET m     == Head(s1Up[w])
           d     == m.imsi
           wired == WiredDonor(m.gci)
           n     == NumBearers[d]
           first == Len(session)
       IN  /\ first + n <= MaxTeid
           /\ mmeCell' = [mmeCell EXCEPT ![d] = m.gci]
           /\ IF wired \in Wired
              THEN /\ session' = session \o [k \in 1 .. n |-> [imsi |-> d, bid |-> k]]
                   /\ enbAddr' = [enbAddr EXCEPT ![d] = wired]
                   /\ s1Down' = [s1Down EXCEPT ![wired] =
                         Append(@, [type |-> "InitialContextSetupRequest", imsi |-> d,
                                    erabs |-> {<<k, first + k>> : k \in 1 .. n},
                                    iab |-> d \in Iab])]
                   /\ UNCHANGED fatal
              ELSE /\ fatal' = "no wired donor"
                   /\ UNCHANGED <<session, enbAddr, s1Down>>
    /\ s1Up' = [s1Up EXCEPT ![w] = Tail(@)]
    /\ UNCHANGED <<ueVars, nasVars, srbVars, ulq, dlq, losses, cellVars, appVars,
                   s1uDown, dataSent>>

\* TEIDs the SGW has allocated for bearer k of UE u.  Its classifier tries
\* the newest traffic flow template first.
TeidsOfFlow(u, k) == {t \in 1 .. Len(session) : session[t] = [imsi |-> u, bid |-> k]}

\* RecvFromTunDevice: a packet from the Internet for UE u.
SgwRecvFromInternet(u, k) ==
    /\ Running
    /\ dataSent[u] < MaxData
    /\ dataSent' = [dataSent EXCEPT ![u] = @ + 1]
    /\ \E t \in TeidsOfFlow(u, k) :
          /\ \A s \in TeidsOfFlow(u, k) : s <= t
          /\ s1uDown' = [s1uDown EXCEPT ![enbAddr[u]] =
                Append(@, [type |-> "Data", ue |-> u, bid |-> k, teid |-> t])]
    /\ UNCHANGED <<ueVars, nasVars, srbVars, ulq, dlq, losses, cellVars, appVars,
                   mmeCell, session, enbAddr, s1Up, s1Down, fatal>>

(***************************************************************************)
(* The applications of a UE, and the radio.                                *)
(***************************************************************************)

UeSend(u, k) ==
    /\ Running
    /\ dataSent[u] < MaxData /\ k <= NumBearers[u]
    /\ dataSent' = [dataSent EXCEPT ![u] = @ + 1]
    /\ NasSend(u, [type |-> "Data", ue |-> u, bid |-> k, teid |-> 0], k, ulq)
    /\ UNCHANGED <<ueVars, srbVars, dlq, losses, cellVars, appVars, coreVars, fatal>>

\* RLC UM does not retransmit.
LoseUplink(d) ==
    /\ Running
    /\ losses < MaxLoss /\ ulq[d] # <<>>
    /\ losses' = losses + 1
    /\ ulq' = [ulq EXCEPT ![d] = Tail(@)]
    /\ UNCHANGED <<ueVars, nasVars, srbVars, dlq, cellVars, appVars, coreVars,
                   dataSent, fatal>>

LoseDownlink(d) ==
    /\ Running
    /\ losses < MaxLoss /\ dlq[d] # <<>>
    /\ losses' = losses + 1
    /\ dlq' = [dlq EXCEPT ![d] = Tail(@)]
    /\ UNCHANGED <<ueVars, nasVars, srbVars, ulq, cellVars, appVars, coreVars,
                   dataSent, fatal>>

(***************************************************************************)
(* The system.                                                             *)
(***************************************************************************)

Connect(d) ==
    \/ RandomAccess(d)
    \/ RecvConnectionRequest(d)
    \/ RecvConnectionSetup(d)
    \/ RecvConnectionSetupCompleted(d)
    \/ RecvReconfiguration(d)
    \/ RecvReconfigurationCompleted(d)

Uplink(d) == RelayInitialUeMessage(d) \/ RelayData(d) \/ RecvUeData(d)

DownlinkStep(d) == DropDownlink(d) \/ DeliverToUe(d) \/ IabRecvS1ap(d) \/ IabRecvData(d)

Wireline(w) == WiredRecvS1ap(w) \/ WiredRecvData(w)

Next ==
    \/ \E d \in Devices : \/ Connect(d) \/ Uplink(d) \/ DownlinkStep(d)
                          \/ ConnectionTimeout(d)
                          \/ LoseUplink(d) \/ LoseDownlink(d)
    \/ \E w \in Wired : Wireline(w) \/ MmeRecvInitialUeMessage(w)
    \/ \E b \in Stations, r \in Rntis : RemoveUe(b, r)
    \/ \E u \in Ue, k \in Bids : UeSend(u, k) \/ SgwRecvFromInternet(u, k)

Spec == Init /\ [][Next]_vars

\* The event queue runs every event that is due: whatever is on a radio or a
\* link is handled.  Nothing makes an application send, a timer expire
\* before the answer, or the radio lose a packet.
Fairness ==
    /\ \A d \in Devices :
          WF_vars(Connect(d)) /\ WF_vars(Uplink(d)) /\ WF_vars(DownlinkStep(d))
    /\ \A w \in Wired :
          /\ WF_vars(WiredRecvS1ap(w)) /\ WF_vars(WiredRecvData(w))
          /\ WF_vars(MmeRecvInitialUeMessage(w))

FairSpec == Spec /\ Fairness

(***************************************************************************)
(* Properties.                                                             *)
(***************************************************************************)

Aborts == {"IMSI not found", "Unrecognized imsi", "RNTI not found",
           "bearer ID mismatch", "same tag twice", "unknown context",
           "no wired donor"}

DeviceTypes ==
    /\ rrc \in [Devices -> {"IDLE", "CONNECTING", "CONNECTED"}]
    /\ rnti \in [Devices -> Rntis \cup {0}]
    /\ drbs \in [Devices -> Bids \cup {0}]
    /\ attempts \in [Devices -> Nat]

NasTypes ==
    /\ nas \in [Devices -> {"OFF", "ACTIVE"}]
    /\ nasBuffer \in [Devices -> Seq(UplinkPacket)]
    /\ lostS1ap \subseteq Devices

RadioTypes ==
    /\ srbUl \in [Devices -> Seq(RrcMessage)] /\ srbDl \in [Devices -> Seq(RrcMessage)]
    /\ ulq \in [Devices -> Seq(UplinkFrame)] /\ dlq \in [Devices -> Seq(DownlinkFrame)]
    /\ losses \in Nat

CellTypes ==
    /\ lastRnti \in [Stations -> Rntis \cup {0}]
    /\ ueMap \in [Stations -> [Rntis -> UeManager]]

AppTypes ==
    /\ imsiRnti \in [Stations -> [Devices -> Rntis \cup {0}]]
    /\ rntiLocalImsi \in [Stations -> [Rntis -> Devices \cup {None}]]
    /\ imsiIab \in [Stations -> [Devices -> {"unknown", "iab", "ue"}]]
    /\ rbidTeid \in [Stations -> [Rntis -> [Bids -> Teids \cup {0}]]]
    /\ teidRbid \in [Stations -> [Teids -> Rbid]]
    /\ teidRemote \in [Stations -> SUBSET Teids]
    /\ imsiLocalRbid \in [Stations -> [Devices -> Rbid]]
    /\ children \in [Stations -> [Rntis -> SUBSET Iab]]
    /\ remoteImsi \in [Stations -> SUBSET Devices]

CoreTypes ==
    /\ mmeCell \in [Devices -> Stations \cup {None}]
    /\ session \in Seq([imsi : Devices, bid : Bids])
    /\ enbAddr \in [Devices -> Wired \cup {None}]
    /\ s1Up \in [Wired -> Seq(InitialUeMessage)]
    /\ s1Down \in [Wired -> Seq(InitialContextSetupRequest)]
    /\ s1uDown \in [Wired -> Seq(DataPacket)]

RunTypes == dataSent \in [Ue -> Nat] /\ fatal \in Aborts \cup {"no"}

\* Every variable holds what the member it models can hold: RNTIs, bearers and
\* TEIDs stay in their ranges, and every queue holds messages of its interface.
TypeOK ==
    /\ DeviceTypes /\ NasTypes /\ RadioTypes
    /\ CellTypes /\ AppTypes /\ CoreTypes /\ RunTypes

\* The device and bearer a TEID was allocated for, and whether a cell has it.
Allocated(t) == t \in 1 .. Len(session)
Owner(t)     == session[t].imsi
HasTeid(b, t) == teidRbid[b][t] # NoRbid
NextHop(b, t) == rntiLocalImsi[b][teidRbid[b][t].rnti]

\* A TEID a cell knows as its own leads to the device the SGW allocated it
\* for, on the bearer it was allocated for; one it marked remote leads to an
\* IAB child with that device somewhere behind it (m_teidRbidMap and
\* m_teidRemoteMap of both EPC applications agree with the SGW).
DownlinkRouteToOwner ==
    \A b \in Stations, t \in Teids : HasTeid(b, t) =>
        /\ Allocated(t)
        /\ NextHop(b, t) \in Devices /\ Parent[NextHop(b, t)] = b
        /\ IF t \in teidRemote[b]
           THEN NextHop(b, t) \in Iab /\ Owner(t) \in Below[NextHop(b, t)]
           ELSE /\ NextHop(b, t) = Owner(t)
                /\ teidRbid[b][t].bid = session[t].bid

\* A TEID an IAB node knows is one its parent forwards to it as remote: the
\* tunnel of every bearer is whole between a cell that has it and the core.
RouteClosedUpstream ==
    \A i \in Iab, t \in Teids : HasTeid(i, t) =>
        /\ HasTeid(Parent[i], t)
        /\ t \in teidRemote[Parent[i]]
        /\ NextHop(Parent[i], t) = i

\* A TEID never leads to an RNTI the RRC has removed or to a bearer it did
\* not set up: UeContextRelease forgets what RemoveUe takes away, so the RRC
\* never asserts on, or loses, a packet the application forwards.
RouteIsLive ==
    \A b \in Stations, t \in Teids : HasTeid(b, t) =>
        LET u == ueMap[b][teidRbid[b][t].rnti]
        IN  u.state # "NONE" /\ teidRbid[b][t].bid \in 1 .. u.drbs

\* What is on the air towards a device is meant for it or, for an IAB node,
\* for a device behind it: no UE is sent a GTP header or another UE's data,
\* and no IAB node a data packet without the GTP header it will remove.
DownlinkReachesRightBranch ==
    \A d \in Devices : \A i \in DOMAIN dlq[d] :
        LET p == dlq[d][i].pkt IN
        IF p.type = "InitialContextSetupRequest"
        THEN d \in Iab /\ p.imsi \in Below[d]
        ELSE IF d \in Ue THEN p.ue = d /\ p.teid = 0
        ELSE Allocated(p.teid) /\ Owner(p.teid) = p.ue /\ p.ue \in Below[d]

\* Data an IAB node relays upwards is in the tunnel of the UE and bearer it
\* came from, however many hops away its first cell was.
UplinkInOwnTunnel ==
    \A i \in Iab : \A n \in DOMAIN ulq[i] :
        LET p == ulq[i][n].pkt IN
        p.type = "Data" => /\ Allocated(p.teid)
                           /\ session[p.teid] = [imsi |-> p.ue, bid |-> p.bid]

\* What is on the air from a device finds the cell's context for it in place:
\* its RNTI maps to it, the cell knows whether it is an IAB node, and a UE's
\* bearer has a TEID.  RecvFromLteSocket never follows m_imsiIabMap.end ().
UplinkFindsContext ==
    \A d \in Devices : \A n \in DOMAIN ulq[d] :
        LET b == Parent[d]
            f == ulq[d][n]
        IN  /\ rntiLocalImsi[b][f.rnti] = d
            /\ imsiIab[b][d] = IF d \in Iab THEN "iab" ELSE "ue"
            /\ d \in Ue => rbidTeid[b][f.rnti][f.bid] # 0

\* A cell takes a context setup request for one to forward exactly for the
\* devices behind its IAB children, whose bearer, RNTI and children it knows
\* (m_remoteImsiRequestMap against the maps DoForwardIabS1apReply asserts on).
RemoteImsiIsForwarded ==
    \A b \in Stations : \A d \in remoteImsi[b] :
        LET r == imsiRnti[b][d] IN
        /\ Parent[d] # b /\ d \in Below[b]
        /\ r # 0 /\ imsiLocalRbid[b][d].rnti = r
        /\ children[b][r] # {}
        /\ rntiLocalImsi[b][r] \in Iab /\ d \in Below[rntiLocalImsi[b][r]]

\* The IAB nodes a cell counts behind an RNTI are the IAB child itself and
\* nodes behind that child, so the scheduler is never told of a hop that
\* belongs to another branch (m_rntiImsiChildrenMap).
ChildrenAreDownstream ==
    \A b \in Stations, r \in Rntis :
        LET c == rntiLocalImsi[b][r] IN
        children[b][r] # {} => /\ c \in children[b][r]
                               /\ children[b][r] \ {c} \subseteq Below[c]

\* No assertion or fatal error of the program is reached.
NoAbort == fatal = "no"

\* Once a cell forwards a TEID to a child it never stops or takes another
\* way, and a TEID of its own goes only with the RNTI it leads to.
RouteIsStable ==
    [][\A b \in Stations, t \in Teids : HasTeid(b, t) =>
          \/ teidRbid'[b][t] = teidRbid[b][t]
          \/ /\ teidRbid'[b][t] = NoRbid /\ t \notin teidRemote[b]
             /\ ueMap'[b][teidRbid[b][t].rnti].state = "NONE"]_vars

\* "the packet could be sent later!" (epc-iab-application.cc:731, where the
\* return value of the send is not checked): a request an IAB node takes from
\* its child is sent or kept, never dropped.
S1apIsNotDropped == lostS1ap = {}

\* With retries, losses and several bearers three assertions can fire, and each
\* only where the code's bookkeeping lets two attempts or two uses of a packet
\* meet: SetupDataRadioBearer (lte-enb-rrc.cc:396) after a second attempt,
\* GetUeManager (lte-enb-rrc.cc:2800) after RemoveUe, PacketTagList::Add
\* (packet-tag-list.cc:266) on the NAS buffer of a UE with several bearers.
\* The other assertions, among them those on the maps of
\* DoForwardIabS1apReply and on the walk over donors, never fire.
AbortsHaveACause ==
    \/ fatal = "no"
    \/ fatal = "bearer ID mismatch" /\ \E d \in Devices : attempts[d] > 1
    \/ fatal = "RNTI not found" /\ \E b \in Stations, r \in Rntis :
                                     r <= lastRnti[b] /\ ueMap[b][r].state = "NONE"
    \/ fatal = "same tag twice" /\ \E d \in Devices :
                                     NumBearers[d] > 1 /\ nasBuffer[d] # <<>>

\* Every device gets its bearers, unless the radio lost a packet (no request is
\* sent twice) or the request of the device, or of an IAB node between it and
\* the core, was dropped between NAS and RRC.
AttachCompletes ==
    \A d \in Devices : <>(\/ drbs[d] = NumBearers[d]
                          \/ losses > 0
                          \/ \E x \in lostS1ap : x = d \/ (x \in Iab /\ d \in Below[x]))

\* The TEIDs every cell routes grow and shrink as TunnelTree says: from the
\* wired gNB down, a request at a time, and only the serving cell forgets.
Tunnels == INSTANCE TunnelTree WITH
               holds <- [b \in Stations |-> {t \in Teids : HasTeid(b, t)}]

TunnelsGrowDownwards == Tunnels!Spec
=============================================================================
