---------------------------- MODULE IabEpcTunnels -----------------------------
(***************************************************************************)
(* Routes, traffic, tunnels and branches: a TEID leads to the device it    *)
(* was allocated for, what is on the radio keeps to its branch, tunnel and *)
(* bearer, a TEID a cell routes is routed by every cell above it, the      *)
(* program grows and shrinks tunnels as TunnelTree says, and what a cell   *)
(* notes about devices it does not serve names the child they are behind.  *)
(***************************************************************************)
EXTENDS IabEpcTyping

(***************************************************************************)
(* Routes.                                                                 *)
(***************************************************************************)

\* Where the maps of a cell lead: an IAB child is known as one; the bearer of a
\* device further down is that of the child it is behind; the RNTI of any
\* other device is its own; a remote TEID belongs to a device further down.
Mapped(b, d) ==
    LET c == rntiLocalImsi[b][imsiLocalRbid[b][d].rnti] IN
    /\ imsiIab[b][d] = "iab" => d \in Iab
    /\ imsiLocalRbid[b][d] # NoRbid => c \in Iab /\ Parent[c] = b /\ d \in Below[c]
    /\ d \notin remoteImsi[b] /\ imsiRnti[b][d] # 0 =>
          rntiLocalImsi[b][imsiRnti[b][d]] = d

RemoteOwner(b, t) == t \in teidRemote[b] => Allocated(t) /\ Owner(t) \in remoteImsi[b]

MapInv ==
    /\ \A b \in Stations, d \in Devices : Mapped(b, d)
    /\ \A b \in Stations, t \in Teids : RemoteOwner(b, t)

\* DownlinkRouteToOwner for one TEID of one cell.
Routed(b, t) ==
    HasTeid(b, t) =>
        /\ Allocated(t)
        /\ NextHop(b, t) \in Devices /\ Parent[NextHop(b, t)] = b
        /\ IF t \in teidRemote[b]
           THEN NextHop(b, t) \in Iab /\ Owner(t) \in Below[NextHop(b, t)]
           ELSE /\ NextHop(b, t) = Owner(t)
                /\ teidRbid[b][t].bid = session[t].bid

\* A route follows the maps of the cell at the moment a request arrives, so it
\* is right only if those maps are.
RouteInv == TypeInv /\ MapInv /\ DownlinkRouteToOwner

LEMMA RoutedIsRoute ==
    DownlinkRouteToOwner <=> \A b \in Stations, t \in Teids : Routed(b, t)
BY DEF DownlinkRouteToOwner, Routed

\* Nothing is routed before the first attach.
LEMMA InitRouteInv == Init => RouteInv
<1> SUFFICES ASSUME Init PROVE RouteInv
  OBVIOUS
<1>1. TypeInv
  BY InitTypeInv
<1>2. MapInv
  BY DEF Init, MapInv, Mapped, RemoteOwner
<1>3. DownlinkRouteToOwner
  BY DEF Init, DownlinkRouteToOwner, HasTeid
<1> QED BY <1>1, <1>2, <1>3 DEF RouteInv

\* What a cell knows of the tree is kept: TEIDs stay allocated, and an RNTI
\* stays with its device.
Keeps ==
    /\ \A t \in Teids : Allocated(t) => Allocated(t)' /\ session'[t] = session[t]
    /\ \A b \in Stations, r \in Rntis :
          rntiLocalImsi[b][r] \in Devices => rntiLocalImsi'[b][r] = rntiLocalImsi[b][r]

LEMMA KeepsSession ==
    ASSUME TypeInv, Grows, TypeInv', UNCHANGED rntiLocalImsi PROVE Keeps
<1>1. Len(session) \in Nat /\ Len(session') \in Nat
  BY LenProperties DEF TypeInv, TypeOK, CoreTypes
<1> QED BY <1>1 DEF Grows, Keeps, Allocated

\* A remote TEID, or one of the cell's own, keeps its route.
LEMMA RoutedStays ==
    ASSUME RouteInv, Keeps, NEW b \in Stations, NEW t \in Teids,
           teidRbid'[b][t] \in {teidRbid[b][t], NoRbid},
           t \in teidRemote'[b] <=> t \in teidRemote[b]
    PROVE  Routed(b, t)'
<1> SUFFICES ASSUME HasTeid(b, t)' PROVE Routed(b, t)'
  BY DEF Routed
<1>1. teidRbid'[b][t] = teidRbid[b][t] /\ HasTeid(b, t)
  BY DEF HasTeid
<1>2. Routed(b, t)
  BY RoutedIsRoute DEF RouteInv
<1>3. teidRbid[b][t].rnti \in Rntis
  BY <1>1 DEF RouteInv, TypeInv, TypeOK, AppTypes, Rbid, HasTeid
<1>4. NextHop(b, t)' = NextHop(b, t)
  BY <1>1, <1>2, <1>3 DEF Routed, Keeps, NextHop
<1>5. Allocated(t)' /\ Owner(t)' = Owner(t) /\ session'[t] = session[t]
  BY <1>1, <1>2 DEF Routed, Keeps, Owner
<1> QED BY <1>1, <1>2, <1>4, <1>5 DEF Routed

LEMMA RemoteOwnerStays ==
    ASSUME RouteInv, Keeps, NEW b \in Stations, NEW t \in Teids,
           t \in teidRemote'[b] => t \in teidRemote[b], remoteImsi[b] \subseteq remoteImsi'[b]
    PROVE  RemoteOwner(b, t)'
BY DEF RouteInv, MapInv, RemoteOwner, Keeps, Owner

LEMMA MappedStays ==
    ASSUME RouteInv, Keeps, NEW b \in Stations, NEW d \in Devices,
           imsiIab'[b][d] = "iab" => imsiIab[b][d] = "iab" \/ d \in Iab,
           imsiLocalRbid'[b][d] = imsiLocalRbid[b][d],
           imsiRnti'[b][d] = imsiRnti[b][d], remoteImsi[b] \subseteq remoteImsi'[b]
    PROVE  Mapped(b, d)'
<1>1. Mapped(b, d)
  BY DEF RouteInv, MapInv
<1>2. imsiLocalRbid[b][d] \in Rbid /\ imsiRnti[b][d] \in Rntis \cup {0}
  BY DEF RouteInv, TypeInv, TypeOK, AppTypes
<1>3. imsiLocalRbid[b][d] # NoRbid => imsiLocalRbid[b][d].rnti \in Rntis
  BY <1>2 DEF Rbid
<1>4. Iab \subseteq Devices /\ (0 \notin Rntis)
  BY Topology DEF Rntis
<1>5. imsiLocalRbid[b][d] # NoRbid =>
         LET c == rntiLocalImsi[b][imsiLocalRbid[b][d].rnti]
         IN  /\ c \in Iab /\ Parent[c] = b /\ d \in Below[c]
             /\ rntiLocalImsi'[b][imsiLocalRbid[b][d].rnti] = c
  BY <1>1, <1>3, <1>4 DEF Mapped, Keeps
<1>6. d \notin remoteImsi[b] /\ imsiRnti[b][d] # 0 => rntiLocalImsi'[b][imsiRnti[b][d]] = d
  BY <1>1, <1>2 DEF Mapped, Keeps
<1> QED BY <1>1, <1>5, <1>6 DEF Mapped

LEMMA RouteStep ==
    ASSUME RouteInv, TypeInv', Keeps,
           \A b \in Stations, t \in Teids : Routed(b, t)' /\ RemoteOwner(b, t)',
           \A b \in Stations, d \in Devices : Mapped(b, d)'
    PROVE  RouteInv'
BY DEF RouteInv, MapInv, DownlinkRouteToOwner, Routed

\* Most actions touch none of the maps.
LEMMA RouteStays ==
    ASSUME RouteInv, TypeInv', Keeps,
           UNCHANGED <<imsiRnti, imsiIab, teidRbid, teidRemote, imsiLocalRbid, remoteImsi>>
    PROVE  RouteInv'
<1>1. ASSUME NEW b \in Stations, NEW t \in Teids
      PROVE  Routed(b, t)' /\ RemoteOwner(b, t)'
  BY RoutedStays, RemoteOwnerStays
<1>2. ASSUME NEW b \in Stations, NEW d \in Devices PROVE Mapped(b, d)'
  BY MappedStays
<1> QED BY <1>1, <1>2, RouteStep

LEMMA SameRoutes ==
    ASSUME RouteInv, TypeInv', UNCHANGED <<session, appVars>>
    PROVE  RouteInv'
<1>1. Keeps
  BY DEF Keeps, Allocated, appVars
<1> QED BY <1>1, RouteStays DEF appVars


LEMMA RecvConnectionRequestRoutes ==
    ASSUME RouteInv, TypeInv', NEW d \in Devices, RecvConnectionRequest(d)
    PROVE  RouteInv'
<1> DEFINE b == Parent[d]
           r == Head(srbUl[d]).rnti
<1> USE Topology
<1>1. /\ srbUl[d] # <<>>
      /\ imsiRnti' = [imsiRnti EXCEPT ![b][d] = r]
      /\ rntiLocalImsi' = [rntiLocalImsi EXCEPT ![b][r] = d]
      /\ UNCHANGED <<session, imsiIab, teidRbid, teidRemote, imsiLocalRbid, remoteImsi>>
  BY DEF RecvConnectionRequest
<1>2. b \in Stations /\ r \in Rntis /\ UeOf(b, r) = d
  BY <1>1, HeadRnti DEF RouteInv
<1>3. rntiLocalImsi[b][r] \in {None, d}
  BY <1>2 DEF RouteInv, TypeInv, UeMapInv, UeKnown
<1>4. /\ rntiLocalImsi \in [Stations -> [Rntis -> Devices \cup {None}]]
      /\ imsiRnti \in [Stations -> [Devices -> Rntis \cup {0}]]
  BY DEF RouteInv, TypeInv, TypeOK, AppTypes
<1> HIDE DEF b, r
<1>5. \A x \in Stations, y \in Rntis :
         rntiLocalImsi'[x][y] = IF x = b /\ y = r THEN d ELSE rntiLocalImsi[x][y]
  BY <1>1, <1>2, <1>4, UpdateTwice
<1>6. \A x \in Stations, y \in Devices :
         imsiRnti'[x][y] = IF x = b /\ y = d THEN r ELSE imsiRnti[x][y]
  <2>1. r \in Rntis \cup {0}
    BY <1>2
  <2> QED BY <1>1, <1>2, <1>4, <2>1, UpdateTwice
<1>7. Keeps
  BY <1>1, <1>3, <1>5 DEF Keeps, Allocated
<1>8. ASSUME NEW x \in Stations, NEW t \in Teids
      PROVE  Routed(x, t)' /\ RemoteOwner(x, t)'
  BY <1>1, <1>7, RoutedStays, RemoteOwnerStays
<1>9. ASSUME NEW x \in Stations, NEW y \in Devices PROVE Mapped(x, y)'
  <2>1. CASE x = b /\ y = d
    <3>1. Mapped(b, d)
      BY <1>2 DEF RouteInv, MapInv
    <3>2. imsiLocalRbid[b][d] # NoRbid => imsiLocalRbid[b][d].rnti \in Rntis
      BY <1>2 DEF RouteInv, TypeInv, TypeOK, AppTypes, Rbid
    <3>3. imsiRnti'[b][d] = r /\ rntiLocalImsi'[b][r] = d
      BY <1>2, <1>5, <1>6
    <3>4. /\ imsiLocalRbid' = imsiLocalRbid
          /\ imsiIab'[b][d] = "iab" => d \in Iab
      BY <1>1, <3>1 DEF Mapped
    <3>5. imsiLocalRbid[b][d] # NoRbid =>
             LET c == rntiLocalImsi[b][imsiLocalRbid[b][d].rnti]
             IN  /\ c \in Iab /\ Parent[c] = b /\ d \in Below[c]
                 /\ rntiLocalImsi'[b][imsiLocalRbid[b][d].rnti] = c
      <4>1. \A z \in Rntis : rntiLocalImsi[b][z] \in Devices =>
                                rntiLocalImsi'[b][z] = rntiLocalImsi[b][z]
        BY <1>2, <1>7 DEF Keeps
      <4>2. Iab \subseteq Devices
        OBVIOUS
      <4> HIDE Topology
      <4> QED BY <3>1, <3>2, <4>1, <4>2 DEF Mapped
    <3> QED BY <2>1, <3>3, <3>4, <3>5 DEF Mapped
  <2>2. CASE ~(x = b /\ y = d)
    <3>1. imsiRnti'[x][y] = imsiRnti[x][y]
      BY <1>6, <2>2
    <3> QED BY <1>1, <1>7, <3>1, MappedStays
  <2> QED BY <2>1, <2>2
<1> QED BY <1>7, <1>8, <1>9, RouteStep

\* The RNTI of a message an IAB child relays is that child's.
LEMMA RelayedBy ==
    ASSUME RouteInv, NEW d \in Devices, ulq[d] # <<>>,
           SenderKind(Parent[d], Head(ulq[d])) # "unknown"
    PROVE  rntiLocalImsi[Parent[d]][Head(ulq[d]).rnti] = d
<1> DEFINE f == Head(ulq[d])
<1>1. f.rnti \in Rntis /\ UeOf(Parent[d], f.rnti) = d /\ Parent[d] \in Stations
  BY HeadUplink DEF RouteInv, UplinkFrameOf
<1>2. UeKnown(Parent[d], f.rnti)
  BY <1>1 DEF RouteInv, TypeInv, UeMapInv
<1> QED BY <1>1, <1>2 DEF UeKnown, SenderKind

LEMMA RelayInitialUeMessageRoutes ==
    ASSUME RouteInv, TypeInv', NEW d \in Devices, RelayInitialUeMessage(d)
    PROVE  RouteInv'
<1> DEFINE b == Parent[d]
           f == Head(ulq[d])
           m == f.pkt
           rb == [rnti |-> f.rnti, bid |-> f.bid]
           e == m.imsi
<1> USE Topology
<1>1. /\ ulq[d] # <<>> /\ SenderKind(b, f) = "iab" /\ m.type = "InitialUeMessage"
      /\ imsiRnti' = [imsiRnti EXCEPT ![b][m.imsi] = f.rnti]
      /\ imsiLocalRbid' = [imsiLocalRbid EXCEPT ![b][m.imsi] = rb]
      /\ remoteImsi' = [remoteImsi EXCEPT ![b] = @ \cup {m.imsi}]
      /\ UNCHANGED <<session, rntiLocalImsi, imsiIab, teidRbid, teidRemote>>
  BY DEF RelayInitialUeMessage
<1>2. b \in Stations /\ f.rnti \in Rntis /\ f.bid \in Bids /\ m \in UplinkPacketOf(d)
  BY <1>1, HeadUplink DEF RouteInv
<1>3. m \in InitialUeMessage /\ d \in Iab /\ e \in Below[d] /\ e \in Devices
  <2>1. m \in InitialUeMessage /\ d \in Iab /\ e \in Below[d]
    BY <1>1, <1>2 DEF UplinkPacketOf, UplinkPacket, DataPacket
  <2> QED BY <2>1, BelowClosed
<1>4. rntiLocalImsi[b][f.rnti] = d
  BY <1>1, RelayedBy
<1>5. /\ imsiRnti \in [Stations -> [Devices -> Rntis \cup {0}]]
      /\ imsiLocalRbid \in [Stations -> [Devices -> Rbid]]
      /\ remoteImsi \in [Stations -> SUBSET Devices]
      /\ imsiRnti' \in [Stations -> [Devices -> Rntis \cup {0}]]
  BY DEF RouteInv, TypeInv, TypeOK, AppTypes
<1>6. rb \in Rbid /\ rb.rnti = f.rnti /\ f.rnti \in Rntis \cup {0}
  BY <1>2 DEF Rbid
<1> HIDE DEF b, f, m, e, rb
<1>7. /\ \A x \in Stations, y \in Devices :
            imsiRnti'[x][y] = IF x = b /\ y = e THEN f.rnti ELSE imsiRnti[x][y]
      /\ \A x \in Stations, y \in Devices :
            imsiLocalRbid'[x][y] = IF x = b /\ y = e THEN rb ELSE imsiLocalRbid[x][y]
      /\ \A x \in Stations : remoteImsi[x] \subseteq remoteImsi'[x]
      /\ e \in remoteImsi'[b]
  <2>1. \A x \in Stations, y \in Devices :
           imsiRnti'[x][y] = IF x = b /\ y = e THEN f.rnti ELSE imsiRnti[x][y]
    <3>1. imsiRnti' = [imsiRnti EXCEPT ![b][e] = f.rnti]
      BY <1>1 DEF e
    <3> QED BY <1>2, <1>3, <1>5, <1>6, <3>1
  <2>2. \A x \in Stations, y \in Devices :
           imsiLocalRbid'[x][y] = IF x = b /\ y = e THEN rb ELSE imsiLocalRbid[x][y]
    <3>1. imsiLocalRbid' = [imsiLocalRbid EXCEPT ![b][e] = rb]
      BY <1>1 DEF e
    <3> QED BY <1>2, <1>3, <1>5, <1>6, <3>1
  <2>3. (\A x \in Stations : remoteImsi[x] \subseteq remoteImsi'[x]) /\ e \in remoteImsi'[b]
    BY <1>1, <1>2, <1>5 DEF e
  <2> QED BY <2>1, <2>2, <2>3
<1>8. Keeps
  BY <1>1 DEF Keeps, Allocated
<1>9. ASSUME NEW x \in Stations, NEW t \in Teids
      PROVE  Routed(x, t)' /\ RemoteOwner(x, t)'
  BY <1>1, <1>7, <1>8, RoutedStays, RemoteOwnerStays
<1>10. ASSUME NEW x \in Stations, NEW y \in Devices PROVE Mapped(x, y)'
  <2>1. CASE x = b /\ y = e
    <3>1. Mapped(b, e)
      BY <1>2, <1>3 DEF RouteInv, MapInv
    <3>2. imsiLocalRbid'[b][e] = rb /\ Parent[d] = b
      BY <1>2, <1>3, <1>7 DEF b
    <3>3. rntiLocalImsi'[b][imsiLocalRbid'[b][e].rnti] = d
      BY <1>1, <1>4, <1>6, <3>2
    <3>4. (imsiIab'[b][e] = "iab" => e \in Iab) /\ e \in remoteImsi'[b]
      BY <1>1, <1>7, <3>1 DEF Mapped
    <3> QED BY <1>3, <2>1, <3>2, <3>3, <3>4 DEF Mapped
  <2>2. CASE ~(x = b /\ y = e)
    <3>1. imsiRnti'[x][y] = imsiRnti[x][y] /\ imsiLocalRbid'[x][y] = imsiLocalRbid[x][y]
      BY <1>7, <2>2
    <3> QED BY <1>1, <1>7, <1>8, <3>1, MappedStays
  <2> QED BY <2>1, <2>2
<1> QED BY <1>8, <1>9, <1>10, RouteStep


\* The TEIDs of a request are those of its device, on the bearers it names.
LEMMA RequestOwner ==
    ASSUME TypeInv, NEW m \in Request, NEW t \in TeidsOf(m)
    PROVE  /\ t \in Teids /\ Allocated(t) /\ Owner(t) = m.imsi
           /\ session[t].bid = BidOf(m, t)
<1> USE Topology
<1>1. PICK first \in 0 .. Len(session) : Granted(m, first)
  BY DEF Request
<1> DEFINE n == NumBearers[m.imsi]
<1>2. m.imsi \in Devices /\ t \in Teids
  BY RequestBearers
<1>3. n \in Bids /\ n \in Nat /\ 1 .. n \subseteq Bids
  BY <1>2 DEF Bids
<1>4. /\ first + n <= Len(session) /\ m.erabs = {<<k, first + k>> : k \in 1 .. n}
      /\ \A k \in 1 .. n : session[first + k] = [imsi |-> m.imsi, bid |-> k]
  BY <1>1 DEF Granted
<1>5. Len(session) \in Nat /\ first \in Nat
  BY LenProperties DEF TypeInv, TypeOK, CoreTypes
<1> HIDE DEF n
<1>6. PICK k \in 1 .. n : t = first + k
  BY <1>4 DEF TeidsOf
<1>7. Allocated(t) /\ session[t] = [imsi |-> m.imsi, bid |-> k]
  BY <1>3, <1>4, <1>5, <1>6 DEF Allocated
<1>8. BidOf(m, t) = k
  <2>1. \A j \in Bids : <<j, t>> \in m.erabs <=> j = k
    <3> SUFFICES ASSUME NEW j \in Bids PROVE <<j, t>> \in m.erabs <=> j = k
      OBVIOUS
    <3>1. ASSUME <<j, t>> \in m.erabs PROVE j = k
      <4>1. PICK i \in 1 .. n : <<j, t>> = <<i, first + i>>
        BY <1>4, <3>1
      <4> QED BY <1>3, <1>5, <1>6, <4>1
    <3>2. <<k, t>> \in m.erabs
      BY <1>4, <1>6
    <3> QED BY <3>1, <3>2
  <2>2. k \in Bids
    BY <1>3, <1>6
  <2> QED BY <2>1, <2>2 DEF BidOf
<1> QED BY <1>2, <1>7, <1>8 DEF Owner

LEMMA ForwardIabS1apReplyRoutes ==
    ASSUME RouteInv, TypeInv', NEW b \in Stations, NEW m \in Request,
           m.imsi \in remoteImsi[b], NEW q \in DownlinkQueues,
           UNCHANGED session, ForwardIabS1apReply(b, m, q)
    PROVE  RouteInv'
<1> DEFINE d  == m.imsi
           rb == imsiLocalRbid[b][d]
           r  == imsiRnti[b][d]
           kind == IF m.iab THEN "iab" ELSE "ue"
           routes == [t \in Teids |-> IF t \in ForwardedTeids(m) THEN rb ELSE teidRbid[b][t]]
<1> USE Topology
<1>1. CASE UNCHANGED appVars
  BY <1>1, SameRoutes
<1>2. CASE /\ rb # NoRbid
           /\ imsiIab' = [imsiIab EXCEPT ![b][d] = kind]
           /\ teidRbid' = [teidRbid EXCEPT ![b] = routes]
           /\ teidRemote' = [teidRemote EXCEPT ![b] = MarkedRemote(b, m)]
           /\ UNCHANGED <<imsiRnti, rntiLocalImsi, imsiLocalRbid, remoteImsi>>
  <2>1. d \in Devices /\ (m.iab => d \in Iab)
    BY RequestBearers DEF RouteInv, Request
  <2>2. \A t \in TeidsOf(m) : t \in Teids /\ Allocated(t) /\ Owner(t) = d
    BY RequestOwner DEF RouteInv
  <2>3. LET c == rntiLocalImsi[b][rb.rnti]
        IN  c \in Iab /\ Parent[c] = b /\ d \in Below[c]
    BY <1>2, <2>1 DEF RouteInv, MapInv, Mapped
  <2>4. Keeps
    BY <1>2 DEF Keeps, Allocated
  <2>5. /\ imsiIab \in [Stations -> [Devices -> {"unknown", "iab", "ue"}]]
        /\ teidRbid \in [Stations -> [Teids -> Rbid]]
        /\ teidRemote \in [Stations -> SUBSET Teids]
    BY DEF RouteInv, TypeInv, TypeOK, AppTypes
  <2>6. \A x \in Stations, y \in Devices :
           imsiIab'[x][y] = IF x = b /\ y = d THEN kind ELSE imsiIab[x][y]
    <3>1. kind \in {"unknown", "iab", "ue"}
      OBVIOUS
    <3> HIDE DEF kind, d
    <3> QED BY <1>2, <2>1, <2>5, <3>1, UpdateTwice
  <2>7. \A x \in Stations, t \in Teids :
           IF x = b /\ t \in TeidsOf(m)
           THEN teidRbid'[x][t] = rb /\ t \in teidRemote'[x]
           ELSE teidRbid'[x][t] = teidRbid[x][t] /\ (t \in teidRemote'[x] <=> t \in teidRemote[x])
    BY <1>2, <2>5 DEF ForwardedTeids, MarkedRemote
  <2>8. kind = "iab" => d \in Iab
    BY <2>1
  <2> HIDE DEF kind, routes
  <2>9. ASSUME NEW x \in Stations, NEW y \in Devices PROVE Mapped(x, y)'
    BY <1>2, <2>4, <2>6, <2>8, MappedStays
  <2>10. ASSUME NEW x \in Stations, NEW t \in Teids
         PROVE  Routed(x, t)' /\ RemoteOwner(x, t)'
    <3>1. CASE x = b /\ t \in TeidsOf(m)
      <4>1. Allocated(t)' /\ Owner(t)' = d
        BY <1>2, <2>2, <2>4, <3>1 DEF Keeps, Owner
      <4>2. RemoteOwner(b, t)'
        BY <1>2, <4>1 DEF RemoteOwner
      <4>3. t \in teidRemote'[b] /\ NextHop(b, t)' = rntiLocalImsi[b][rb.rnti]
        BY <1>2, <2>7, <3>1 DEF NextHop
      <4>4. Routed(b, t)'
        BY <2>3, <4>1, <4>3 DEF Routed
      <4> QED BY <3>1, <4>2, <4>4
    <3>2. CASE ~(x = b /\ t \in TeidsOf(m))
      <4>1. teidRbid'[x][t] = teidRbid[x][t] /\ (t \in teidRemote'[x] <=> t \in teidRemote[x])
        BY <2>7, <3>2
      <4> QED BY <1>2, <2>4, <4>1, RoutedStays, RemoteOwnerStays
    <3> QED BY <3>1, <3>2
  <2> QED BY <2>4, <2>9, <2>10, RouteStep
<1> QED BY <1>1, <1>2 DEF ForwardIabS1apReply, AbortContextSetup

LEMMA SetupContextRoutes ==
    ASSUME RouteInv, TypeInv', NEW b \in Stations, NEW m \in Request,
           m.imsi \notin remoteImsi[b], NEW q \in DownlinkQueues,
           UNCHANGED session, SetupContext(b, m, q)
    PROVE  RouteInv'
<1> DEFINE d == m.imsi
           r == imsiRnti[b][d]
           kind == IF imsiIab[b][d] # "unknown" THEN imsiIab[b][d]
                   ELSE IF m.iab THEN "iab" ELSE "ue"
           routes == [t \in Teids |-> IF t \in TeidsOf(m) THEN [rnti |-> r, bid |-> BidOf(m, t)]
                                      ELSE teidRbid[b][t]]
<1> USE Topology
<1>1. CASE UNCHANGED appVars
  BY <1>1, SameRoutes
<1>2. CASE /\ r # 0
           /\ imsiIab' = [imsiIab EXCEPT ![b][d] = kind]
           /\ teidRbid' = [teidRbid EXCEPT ![b] = routes]
           /\ UNCHANGED <<imsiRnti, rntiLocalImsi, teidRemote, imsiLocalRbid, remoteImsi>>
  <2>1. d \in Devices /\ (m.iab => d \in Iab)
    BY RequestBearers DEF RouteInv, Request
  <2>2. \A t \in TeidsOf(m) : /\ t \in Teids /\ Allocated(t) /\ Owner(t) = d
                              /\ session[t].bid = BidOf(m, t)
    BY RequestOwner DEF RouteInv
  <2>3. r \in Rntis /\ rntiLocalImsi[b][r] = d /\ Parent[d] = b
    <3>1. r \in Rntis /\ rntiLocalImsi[b][r] = d
      <4>1. imsiRnti \in [Stations -> [Devices -> Rntis \cup {0}]]
        BY DEF RouteInv, TypeInv, TypeOK, AppTypes
      <4>2. Mapped(b, d)
        BY <2>1 DEF RouteInv, MapInv
      <4>3. r = imsiRnti[b][d] /\ d \notin remoteImsi[b]
        OBVIOUS
      <4> HIDE DEF r, d, kind, routes
      <4>4. r # 0
        BY <1>2
      <4> QED BY <2>1, <4>1, <4>2, <4>3, <4>4 DEF Mapped
    <3> HIDE DEF r, d
    <3>2. UeKnown(b, r)
      BY <3>1 DEF RouteInv, TypeInv, UeMapInv
    <3> QED BY <2>1, <3>1, <3>2 DEF UeKnown
  <2>4. Keeps
    BY <1>2 DEF Keeps, Allocated
  <2>5. /\ imsiIab \in [Stations -> [Devices -> {"unknown", "iab", "ue"}]]
        /\ teidRbid \in [Stations -> [Teids -> Rbid]]
    BY DEF RouteInv, TypeInv, TypeOK, AppTypes
  <2>6. kind = "iab" => d \in Iab
    BY <2>1 DEF RouteInv, MapInv, Mapped
  <2>7. \A x \in Stations, y \in Devices :
           imsiIab'[x][y] = IF x = b /\ y = d THEN kind ELSE imsiIab[x][y]
    <3>1. kind \in {"unknown", "iab", "ue"}
      BY <2>1, <2>5
    <3> HIDE DEF kind, d
    <3> QED BY <1>2, <2>1, <2>5, <3>1, UpdateTwice
  <2>8. \A x \in Stations, t \in Teids :
           teidRbid'[x][t] = IF x = b /\ t \in TeidsOf(m)
                             THEN [rnti |-> r, bid |-> BidOf(m, t)] ELSE teidRbid[x][t]
    BY <1>2, <2>5
  <2> HIDE DEF kind, routes
  <2>9. ASSUME NEW x \in Stations, NEW y \in Devices PROVE Mapped(x, y)'
    BY <1>2, <2>4, <2>6, <2>7, MappedStays
  <2>10. ASSUME NEW x \in Stations, NEW t \in Teids
         PROVE  Routed(x, t)' /\ RemoteOwner(x, t)'
    <3>1. RemoteOwner(x, t)'
      BY <1>2, <2>4, RemoteOwnerStays
    <3>2. CASE x = b /\ t \in TeidsOf(m)
      <4>1. Allocated(t)' /\ Owner(t)' = d /\ session'[t].bid = BidOf(m, t)
        BY <2>2, <2>4, <3>2 DEF Keeps, Owner
      <4>2. t \notin teidRemote'[b]
        BY <1>2, <2>2, <3>2 DEF RouteInv, MapInv, RemoteOwner
      <4>3. NextHop(b, t)' = d /\ teidRbid'[b][t].bid = BidOf(m, t)
        <5>1. teidRbid'[b][t] = [rnti |-> r, bid |-> BidOf(m, t)]
          BY <2>8, <3>2
        <5>2. teidRbid'[b][t].rnti = r /\ teidRbid'[b][t].bid = BidOf(m, t)
          BY <5>1
        <5> QED BY <1>2, <2>3, <5>2 DEF NextHop
      <4>4. Routed(b, t)'
        BY <2>1, <2>3, <4>1, <4>2, <4>3 DEF Routed
      <4> QED BY <3>1, <3>2, <4>4
    <3>3. CASE ~(x = b /\ t \in TeidsOf(m))
      <4>1. teidRbid'[x][t] = teidRbid[x][t]
        BY <2>8, <3>3
      <4> QED BY <1>2, <2>4, <3>1, <4>1, RoutedStays
    <3> QED BY <3>2, <3>3
  <2> QED BY <2>4, <2>9, <2>10, RouteStep
<1> QED BY <1>1, <1>2 DEF SetupContext, AbortContextSetup

LEMMA RecvFromS1apSocketRoutes ==
    ASSUME RouteInv, TypeInv', NEW b \in Stations, NEW m \in Request,
           NEW q \in DownlinkQueues, UNCHANGED session, RecvFromS1apSocket(b, m, q)
    PROVE  RouteInv'
BY ForwardIabS1apReplyRoutes, SetupContextRoutes DEF RecvFromS1apSocket


LEMMA WiredRecvS1apRoutes ==
    ASSUME RouteInv, TypeInv', NEW w \in Wired, WiredRecvS1ap(w)
    PROVE  RouteInv'
<1> DEFINE m == Head(s1Down[w])
<1>1. s1Down[w] # <<>> /\ RecvFromS1apSocket(w, m, dlq) /\ UNCHANGED session
  BY DEF WiredRecvS1ap
<1>2. w \in Stations /\ s1Down \in [Wired -> Seq(Request)] /\ dlq \in DownlinkQueues
  BY Topology DEF RouteInv, TypeInv, QueueInv, Requests
<1>3. m \in Request
  BY <1>1, <1>2, TakeQueue
<1> HIDE DEF m
<1> QED BY <1>1, <1>2, <1>3, RecvFromS1apSocketRoutes

LEMMA IabRecvS1apRoutes ==
    ASSUME RouteInv, TypeInv', NEW i \in Iab, IabRecvS1ap(i)
    PROVE  RouteInv'
<1> DEFINE m == Head(dlq[i]).pkt
           q == [dlq EXCEPT ![i] = Tail(@)]
<1>1. /\ dlq[i] # <<>> /\ m.type = "InitialContextSetupRequest"
      /\ RecvFromS1apSocket(i, m, q) /\ UNCHANGED session
  BY DEF IabRecvS1ap, coreVars
<1>2. i \in Stations /\ i \in Devices
  BY Topology
<1>3. m \in Request /\ q \in DownlinkQueues
  <2>1. Head(dlq[i]) \in RequestFrame /\ q \in DownlinkQueues
    BY <1>1, <1>2, HeadDownlink DEF RouteInv
  <2> QED BY <1>1, <2>1 DEF RequestFrame, DataPacket
<1> HIDE DEF m, q
<1> QED BY <1>1, <1>2, <1>3, RecvFromS1apSocketRoutes

LEMMA RemoveUeRoutes ==
    ASSUME RouteInv, TypeInv', NEW b \in Stations, NEW r \in Rntis, RemoveUe(b, r)
    PROVE  RouteInv'
<1>1. /\ teidRbid' = [teidRbid EXCEPT ![b] =
                        [t \in Teids |-> IF t \in ReleasedTeids(b, r) THEN NoRbid ELSE @[t]]]
      /\ UNCHANGED <<session, imsiRnti, rntiLocalImsi, imsiIab, teidRemote, imsiLocalRbid,
                     remoteImsi>>
  BY DEF RemoveUe, coreVars
<1>2. teidRbid \in [Stations -> [Teids -> Rbid]]
  BY DEF RouteInv, TypeInv, TypeOK, AppTypes
<1>3. \A x \in Stations, t \in Teids : teidRbid'[x][t] \in {teidRbid[x][t], NoRbid}
  BY <1>1, <1>2
<1>4. Keeps
  BY <1>1 DEF Keeps, Allocated
<1>5. ASSUME NEW x \in Stations, NEW t \in Teids
      PROVE  Routed(x, t)' /\ RemoteOwner(x, t)'
  BY <1>1, <1>3, <1>4, RoutedStays, RemoteOwnerStays
<1>6. ASSUME NEW x \in Stations, NEW y \in Devices PROVE Mapped(x, y)'
  BY <1>1, <1>4, MappedStays
<1> QED BY <1>4, <1>5, <1>6, RouteStep

\* The SGW allocates TEIDs nobody has.
LEMMA MmeRecvInitialUeMessageKeeps ==
    ASSUME TypeInv, NEW w \in Wired, MmeRecvInitialUeMessage(w)
    PROVE  Keeps
<1> DEFINE d == Head(s1Up[w]).imsi
           n == NumBearers[d]
<1>1. /\ s1Up[w] # <<>> /\ UNCHANGED rntiLocalImsi
      /\ \/ session' = session
         \/ session' = session \o [k \in 1 .. n |-> [imsi |-> d, bid |-> k]]
  BY DEF MmeRecvInitialUeMessage, appVars
<1>2. d \in Devices /\ n \in Bids /\ n \in Nat
  <2>1. Head(s1Up[w]) \in InitialUeMessage
    BY <1>1, TakeQueue DEF TypeInv, TypeOK, CoreTypes
  <2> QED BY <2>1, Topology DEF InitialUeMessage, Bids
<1> HIDE DEF d, n
<1>3. CASE session' = session
  BY <1>1, <1>3 DEF Keeps, Allocated
<1>4. CASE session' = session \o [k \in 1 .. n |-> [imsi |-> d, bid |-> k]]
  <2>1. /\ Len(session) \in Nat /\ Len(session') = Len(session) + n
        /\ \A t \in 1 .. Len(session) : session'[t] = session[t]
    BY <1>2, <1>4, Allocation
  <2> QED BY <1>1, <1>2, <2>1 DEF Keeps, Allocated
<1> QED BY <1>1, <1>3, <1>4

LEMMA MmeRecvInitialUeMessageRoutes ==
    ASSUME RouteInv, TypeInv', NEW w \in Wired, MmeRecvInitialUeMessage(w)
    PROVE  RouteInv'
<1>1. UNCHANGED appVars
  BY DEF MmeRecvInitialUeMessage
<1>2. Keeps
  BY MmeRecvInitialUeMessageKeeps DEF RouteInv
<1> QED BY <1>1, <1>2, RouteStays DEF appVars

LEMMA RouteInvStep == RouteInv /\ [Next]_vars => RouteInv'
<1> SUFFICES ASSUME RouteInv, [Next]_vars PROVE RouteInv'
  OBVIOUS
<1> USE DEF coreVars
<1>1. TypeInv'
  BY TypeInvStep DEF RouteInv
<1>2. ASSUME NEW d \in Devices, Connect(d) PROVE RouteInv'
  <2>1. CASE RecvConnectionRequest(d)
    BY <1>1, <2>1, RecvConnectionRequestRoutes
  <2>2. CASE \/ RandomAccess(d) \/ RecvConnectionSetup(d) \/ RecvConnectionSetupCompleted(d)
             \/ RecvReconfiguration(d) \/ RecvReconfigurationCompleted(d)
    <3>1. UNCHANGED <<session, appVars>>
      BY <2>2 DEF RandomAccess, RecvConnectionSetup, RecvConnectionSetupCompleted,
                  RecvReconfiguration, RecvReconfigurationCompleted
    <3> QED BY <1>1, <3>1, SameRoutes
  <2> QED BY <1>2, <2>1, <2>2 DEF Connect
<1>3. ASSUME NEW d \in Devices, Uplink(d) PROVE RouteInv'
  <2>1. CASE RelayInitialUeMessage(d)
    BY <1>1, <2>1, RelayInitialUeMessageRoutes
  <2>2. CASE RelayData(d) \/ RecvUeData(d)
    <3>1. UNCHANGED <<session, appVars>>
      BY <2>2 DEF RelayData, RecvUeData
    <3> QED BY <1>1, <3>1, SameRoutes
  <2> QED BY <1>3, <2>1, <2>2 DEF Uplink
<1>4. ASSUME NEW d \in Devices, DownlinkStep(d) PROVE RouteInv'
  <2>1. CASE IabRecvS1ap(d)
    BY <1>1, <2>1, IabRecvS1apRoutes DEF IabRecvS1ap
  <2>2. CASE DropDownlink(d) \/ DeliverToUe(d) \/ IabRecvData(d)
    <3>1. UNCHANGED <<session, appVars>>
      BY <2>2 DEF DropDownlink, DeliverToUe, IabRecvData
    <3> QED BY <1>1, <3>1, SameRoutes
  <2> QED BY <1>4, <2>1, <2>2 DEF DownlinkStep
<1>5. ASSUME NEW d \in Devices,
             ConnectionTimeout(d) \/ LoseUplink(d) \/ LoseDownlink(d)
      PROVE  RouteInv'
  <2>1. UNCHANGED <<session, appVars>>
    BY <1>5 DEF ConnectionTimeout, LoseUplink, LoseDownlink
  <2> QED BY <1>1, <2>1, SameRoutes
<1>6. ASSUME NEW w \in Wired, Wireline(w) \/ MmeRecvInitialUeMessage(w) PROVE RouteInv'
  <2>1. CASE WiredRecvData(w)
    <3>1. UNCHANGED <<session, appVars>>
      BY <2>1 DEF WiredRecvData
    <3> QED BY <1>1, <3>1, SameRoutes
  <2>2. CASE WiredRecvS1ap(w) \/ MmeRecvInitialUeMessage(w)
    BY <1>1, <2>2, WiredRecvS1apRoutes, MmeRecvInitialUeMessageRoutes
  <2> QED BY <1>6, <2>1, <2>2 DEF Wireline
<1>7. ASSUME NEW b \in Stations, NEW r \in Rntis, RemoveUe(b, r) PROVE RouteInv'
  BY <1>1, <1>7, RemoveUeRoutes
<1>8. ASSUME NEW u \in Ue, NEW k \in Bids, UeSend(u, k) \/ SgwRecvFromInternet(u, k)
      PROVE  RouteInv'
  <2>1. UNCHANGED <<session, appVars>>
    BY <1>8 DEF UeSend, SgwRecvFromInternet
  <2> QED BY <1>1, <2>1, SameRoutes
<1>9. CASE UNCHANGED vars
  <2>1. UNCHANGED <<session, appVars>>
    BY <1>9 DEF vars
  <2> QED BY <1>1, <2>1, SameRoutes
<1> QED BY <1>2, <1>3, <1>4, <1>5, <1>6, <1>7, <1>8, <1>9 DEF Next

\* DownlinkRouteToOwner in every deployment: a TEID a cell routes leads to the
\* device the SGW allocated it for, or towards it (m_teidRbidMap,
\* m_teidRemoteMap), whatever is retried, delayed or lost.
THEOREM RouteToOwner == Spec => []DownlinkRouteToOwner
<1>1. Init => RouteInv
  BY InitRouteInv
<1>2. RouteInv /\ [Next]_vars => RouteInv'
  BY RouteInvStep
<1>3. RouteInv => DownlinkRouteToOwner
  BY DEF RouteInv
<1> QED BY <1>1, <1>2, <1>3, PTL DEF Spec

(***************************************************************************)
(* Traffic.                                                                *)
(***************************************************************************)

(***************************************************************************)
(* The inductive invariant.                                                *)
(***************************************************************************)

\* A packet with a GTP header is in the tunnel of its UE and bearer.
InTunnel(p) ==
    Allocated(p.teid) /\ session[p.teid] = [imsi |-> p.ue, bid |-> p.bid]

\* The parents of an InitialUeMessage are the node that sends it, and nodes
\* behind that one.
OnBranch(d, p) == d \in p.parents /\ p.parents \ {d} \subseteq Below[d]

\* What a device may have to send, and to hold on the air: an IAB node requests
\* of its branch and data that is in its tunnel, a UE its own data on the
\* bearer it belongs to.
OwnPacketOf(d) ==
    {p \in UplinkPacket :
        /\ p.type = "Data" => IF d \in Iab THEN InTunnel(p) ELSE p.ue = d
        /\ p.type = "InitialUeMessage" => OnBranch(d, p)}

OwnFrameOf(d) ==
    {f \in UplinkFrame :
        /\ f.pkt.type = "Data" => IF d \in Iab THEN InTunnel(f.pkt)
                                  ELSE f.pkt.ue = d /\ f.bid = f.pkt.bid
        /\ f.pkt.type = "InitialUeMessage" => OnBranch(d, f.pkt)}

OwnBuffers ==
    {f \in [Devices -> Seq(UplinkPacket)] : \A d \in Devices : f[d] \in Seq(OwnPacketOf(d))}
OwnQueues ==
    {f \in [Devices -> Seq(UplinkFrame)] : \A d \in Devices : f[d] \in Seq(OwnFrameOf(d))}

UpInv == ulq \in OwnQueues /\ nasBuffer \in OwnBuffers

\* DownlinkReachesRightBranch for one packet towards d.
RightBranch(d, p) ==
    IF p.type = "InitialContextSetupRequest"
    THEN d \in Iab /\ p.imsi \in Below[d]
    ELSE IF d \in Ue THEN p.ue = d /\ p.teid = 0
    ELSE Allocated(p.teid) /\ Owner(p.teid) = p.ue /\ p.ue \in Below[d]

RightFrame(d) == {f \in DownlinkFrame : RightBranch(d, f.pkt)}

\* Data of the SGW carries a TEID of the UE it is for.
OwnedData == {p \in DataPacket : Allocated(p.teid) /\ Owner(p.teid) = p.ue}

RightQueues ==
    {f \in [Devices -> Seq(DownlinkFrame)] : \A d \in Devices : f[d] \in Seq(RightFrame(d))}

DownInv == dlq \in RightQueues /\ s1uDown \in [Wired -> Seq(OwnedData)]

\* m_rbidTeidMap leads from a bearer of an RNTI to the TEID the SGW allocated
\* for that bearer of the device the RNTI belongs to.
Tunnelled(b, r, k) ==
    LET t == rbidTeid[b][r][k] IN
    t # 0 => /\ rntiLocalImsi[b][r] \in Devices
             /\ Allocated(t) /\ session[t] = [imsi |-> rntiLocalImsi[b][r], bid |-> k]

TunnelInv == \A b \in Stations, r \in Rntis, k \in Bids : Tunnelled(b, r, k)

\* A cell takes nobody for a UE who is not one.
KindInv == \A b \in Stations, d \in Devices : imsiIab[b][d] = "ue" => d \notin Iab

\* A TEID is written into a packet, or taken off it, from the maps of the cell
\* it crosses; the packet stays where it belongs only if those maps are right.
TrafficInv == RouteInv /\ UpInv /\ DownInv /\ TunnelInv /\ KindInv

(***************************************************************************)
(* Queues.                                                                 *)
(***************************************************************************)

LEMMA InitTrafficInv == Init => TrafficInv
<1> SUFFICES ASSUME Init PROVE TrafficInv
  OBVIOUS
<1>1. RouteInv
  BY InitRouteInv
<1>2. UpInv /\ DownInv
  BY EmptyQueues DEF Init, UpInv, DownInv, OwnQueues, OwnBuffers, RightQueues
<1>3. TunnelInv
  BY DEF Init, TunnelInv, Tunnelled, NoTeids
<1>4. KindInv
  BY DEF Init, KindInv
<1> QED BY <1>1, <1>2, <1>3, <1>4 DEF TrafficInv

LEMMA OwnQueueStep ==
    ASSUME NEW f \in OwnQueues, NEW d \in Devices
    PROVE  /\ f[d] # <<>> => /\ Head(f[d]) \in OwnFrameOf(d)
                             /\ [f EXCEPT ![d] = Tail(@)] \in OwnQueues
           /\ \A e \in OwnFrameOf(d) : [f EXCEPT ![d] = Append(@, e)] \in OwnQueues
           /\ \A s \in Seq(OwnFrameOf(d)) : [f EXCEPT ![d] = @ \o s] \in OwnQueues
<1>1. f \in [Devices -> Seq(UplinkFrame)] /\ f[d] \in Seq(OwnFrameOf(d))
  BY DEF OwnQueues
<1>2. ASSUME NEW q \in Seq(OwnFrameOf(d)) PROVE [f EXCEPT ![d] = q] \in OwnQueues
  <2>1. q \in Seq(UplinkFrame)
    BY SeqMonotonic DEF OwnFrameOf
  <2> QED BY <1>1, <2>1 DEF OwnQueues
<1>3. ASSUME NEW s \in Seq(OwnFrameOf(d)) PROVE f[d] \o s \in Seq(OwnFrameOf(d))
  BY <1>1, ConcatProperties
<1> QED BY <1>1, <1>2, <1>3, TakeQueue, AppendQueue

LEMMA RightQueueStep ==
    ASSUME NEW f \in RightQueues, NEW d \in Devices
    PROVE  /\ f[d] # <<>> => /\ Head(f[d]) \in RightFrame(d)
                             /\ [f EXCEPT ![d] = Tail(@)] \in RightQueues
           /\ \A e \in RightFrame(d) : [f EXCEPT ![d] = Append(@, e)] \in RightQueues
<1>1. f \in [Devices -> Seq(DownlinkFrame)] /\ f[d] \in Seq(RightFrame(d))
  BY DEF RightQueues
<1>2. ASSUME NEW q \in Seq(RightFrame(d)) PROVE [f EXCEPT ![d] = q] \in RightQueues
  <2>1. q \in Seq(DownlinkFrame)
    BY SeqMonotonic DEF RightFrame
  <2> QED BY <1>1, <2>1 DEF RightQueues
<1> QED BY <1>1, <1>2, TakeQueue, AppendQueue

\* What belongs somewhere goes on belonging there: TEIDs keep their owner.
LEMMA BelongStays ==
    ASSUME Keeps, TypeInv
    PROVE  /\ OwnQueues \subseteq OwnQueues' /\ OwnBuffers \subseteq OwnBuffers'
           /\ RightQueues \subseteq RightQueues'
           /\ [Wired -> Seq(OwnedData)] \subseteq [Wired -> Seq(OwnedData')]
<1>1. Len(session) <= MaxTeid /\ Len(session) \in Nat /\ MaxTeid \in Nat
  BY Topology, LenProperties DEF TypeInv, SessionInv, TypeOK, CoreTypes
<1>2. ASSUME NEW t, Allocated(t) PROVE Allocated(t)' /\ session'[t] = session[t]
  <2>1. t \in Teids
    BY <1>1, <1>2 DEF Allocated, Teids
  <2> QED BY <1>2, <2>1 DEF Keeps
<1>3. ASSUME NEW p, InTunnel(p) PROVE InTunnel(p)'
  BY <1>2, <1>3 DEF InTunnel
<1>4. ASSUME NEW d \in Devices
      PROVE  /\ OwnFrameOf(d) \subseteq OwnFrameOf(d)' /\ OwnPacketOf(d) \subseteq OwnPacketOf(d)'
             /\ RightFrame(d) \subseteq RightFrame(d)'
  <2>1. OwnFrameOf(d) \subseteq OwnFrameOf(d)' /\ OwnPacketOf(d) \subseteq OwnPacketOf(d)'
    BY <1>3 DEF OwnFrameOf, OwnPacketOf
  <2>2. RightFrame(d) \subseteq RightFrame(d)'
    BY <1>2 DEF RightFrame, RightBranch, Owner
  <2> QED BY <2>1, <2>2
<1>5. OwnedData \subseteq OwnedData'
  BY <1>2 DEF OwnedData, Owner
<1>6. OwnQueues \subseteq OwnQueues' /\ OwnBuffers \subseteq OwnBuffers'
  BY <1>4, SeqMonotonic DEF OwnQueues, OwnBuffers
<1>7. RightQueues \subseteq RightQueues'
  BY <1>4, SeqMonotonic DEF RightQueues
<1>8. ASSUME NEW f \in [Wired -> Seq(OwnedData)] PROVE f \in [Wired -> Seq(OwnedData')]
  BY <1>5, SeqMonotonic
<1> QED BY <1>6, <1>7, <1>8

\* What a step has to show, beyond what RouteInv gives.
Moves ==
    /\ ulq' \in OwnQueues /\ nasBuffer' \in OwnBuffers
    /\ dlq' \in RightQueues /\ s1uDown' \in [Wired -> Seq(OwnedData)]

LEMMA TrafficStep ==
    ASSUME TrafficInv, RouteInv', Keeps, Moves, TunnelInv', KindInv'
    PROVE  TrafficInv'
<1>1. UpInv' /\ DownInv'
  BY BelongStays DEF TrafficInv, RouteInv, Moves, UpInv, DownInv
<1> QED BY <1>1 DEF TrafficInv

LEMMA TunnelStays ==
    ASSUME TrafficInv, Keeps, NEW b \in Stations, NEW r \in Rntis, NEW k \in Bids,
           rbidTeid'[b][r][k] \in {0, rbidTeid[b][r][k]}
    PROVE  Tunnelled(b, r, k)'
<1>1. rbidTeid[b][r][k] \in Teids \cup {0}
  BY DEF TrafficInv, RouteInv, TypeInv, TypeOK, AppTypes
<1>2. Tunnelled(b, r, k)
  BY DEF TrafficInv, TunnelInv
<1> QED BY <1>1, <1>2 DEF Tunnelled, Keeps

\* Most actions leave the maps alone.
LEMMA SameMaps ==
    ASSUME TrafficInv, RouteInv', Moves, Keeps, UNCHANGED <<rbidTeid, imsiIab>>
    PROVE  TrafficInv'
<1>1. TunnelInv'
  BY TunnelStays DEF TunnelInv
<1>2. KindInv'
  BY DEF TrafficInv, KindInv
<1> QED BY <1>1, <1>2, TrafficStep

LEMMA SameTraffic ==
    ASSUME TrafficInv, RouteInv', Moves, UNCHANGED <<session, appVars>>
    PROVE  TrafficInv'
<1>1. Keeps
  BY DEF Keeps, Allocated, appVars
<1> QED BY <1>1, SameMaps DEF appVars

(***************************************************************************)
(* Uplink.                                                                 *)
(***************************************************************************)

\* The queues of the radio towards the devices and of the S1-U links stay.
LEMMA DownStays ==
    ASSUME TrafficInv, UNCHANGED <<dlq, s1uDown>>
    PROVE  dlq' \in RightQueues /\ s1uDown' \in [Wired -> Seq(OwnedData)]
BY DEF TrafficInv, DownInv

LEMMA UpStays ==
    ASSUME TrafficInv, UNCHANGED <<ulq, nasVars>>
    PROVE  ulq' \in OwnQueues /\ nasBuffer' \in OwnBuffers
BY DEF TrafficInv, UpInv, nasVars

\* A NAS sends, keeps or drops a packet of the device.
LEMMA NasSendOwn ==
    ASSUME TrafficInv, NEW d \in Devices, NEW k \in Bids, NEW p \in OwnPacketOf(d),
           p.type = "Data" /\ d \notin Iab => k = p.bid,
           NEW q \in OwnQueues, NasSend(d, p, k, q)
    PROVE  ulq' \in OwnQueues /\ nasBuffer' \in OwnBuffers
<1>1. nasBuffer \in OwnBuffers
  BY DEF TrafficInv, UpInv
<1>2. CASE ulq' = q /\ UNCHANGED nasBuffer
  BY <1>1, <1>2
<1>3. CASE ulq' = q /\ nasBuffer' = [nasBuffer EXCEPT ![d] = Append(@, p)]
  <2>1. Append(nasBuffer[d], p) \in Seq(OwnPacketOf(d))
    BY <1>1, AppendQueue DEF OwnBuffers
  <2>2. Append(nasBuffer[d], p) \in Seq(UplinkPacket)
    BY <2>1, SeqMonotonic DEF OwnPacketOf
  <2>3. [nasBuffer EXCEPT ![d] = Append(@, p)] \in OwnBuffers
    BY <1>1, <2>1, <2>2 DEF OwnBuffers
  <2> QED BY <1>3, <2>3
<1>4. CASE /\ k <= drbs[d] /\ UNCHANGED nasBuffer
           /\ ulq' = [q EXCEPT ![d] = Append(@, Frame(rnti[d], k, p))]
  <2>1. rnti[d] \in Rntis
    <3>1. k \in Nat \ {0} /\ drbs[d] \in Nat
      BY Topology DEF Bids, TrafficInv, RouteInv, TypeInv, TypeOK, DeviceTypes
    <3>2. Linked(d)
      BY DEF TrafficInv, RouteInv, TypeInv, LinkInv
    <3> QED BY <1>4, <3>1, <3>2 DEF Linked
  <2>2. Frame(rnti[d], k, p) \in OwnFrameOf(d)
    BY <2>1 DEF Frame, OwnFrameOf, OwnPacketOf, UplinkFrame
  <2>3. ulq' \in OwnQueues
    BY <1>4, <2>2, OwnQueueStep
  <2> QED BY <1>1, <1>4, <2>3
<1> QED BY <1>2, <1>3, <1>4 DEF NasSend

LEMMA SendS1apOwn ==
    ASSUME TrafficInv, NEW b \in Stations, NEW m \in InitialUeMessage,
           b \in Iab => OnBranch(b, m), NEW q \in OwnQueues, SendS1ap(b, m, q)
    PROVE  ulq' \in OwnQueues /\ nasBuffer' \in OwnBuffers
<1>1. CASE ulq' = q /\ UNCHANGED nasVars
  BY <1>1 DEF TrafficInv, UpInv, nasVars
<1>2. CASE b \in Iab /\ NasSend(b, m, 1, q)
  <2>1. b \in Devices /\ 1 \in Bids
    BY <1>2, Topology DEF Bids
  <2>2. m \in OwnPacketOf(b) /\ m.type = "InitialUeMessage"
    BY <1>2 DEF OwnPacketOf, UplinkPacket, InitialUeMessage
  <2> QED BY <1>2, <2>1, <2>2, NasSendOwn
<1> QED BY <1>1, <1>2 DEF SendS1ap

\* A cell passes on data that is in its tunnel.
LEMMA SendDataUpOwn ==
    ASSUME TrafficInv, NEW b \in Stations, NEW p \in DataPacket, InTunnel(p),
           NEW q \in OwnQueues, SendDataUp(b, p, q)
    PROVE  ulq' \in OwnQueues /\ nasBuffer' \in OwnBuffers
<1>1. CASE ulq' = q /\ UNCHANGED nasVars
  BY <1>1 DEF TrafficInv, UpInv, nasVars
<1>2. CASE b \in Iab /\ NasSend(b, p, 1, q)
  <2>1. b \in Devices /\ 1 \in Bids
    BY <1>2, Topology DEF Bids
  <2>2. p \in OwnPacketOf(b)
    BY <1>2 DEF OwnPacketOf, UplinkPacket, DataPacket
  <2> QED BY <1>2, <2>1, <2>2, NasSendOwn
<1> QED BY <1>1, <1>2 DEF SendDataUp

LEMMA HeadOwn ==
    ASSUME TrafficInv, NEW d \in Devices, ulq[d] # <<>>
    PROVE  /\ Head(ulq[d]) \in OwnFrameOf(d) /\ Head(ulq[d]).pkt \in UplinkPacketOf(d)
           /\ [ulq EXCEPT ![d] = Tail(@)] \in OwnQueues
<1>1. ulq \in OwnQueues
  BY DEF TrafficInv, UpInv
<1>2. Head(ulq[d]).pkt \in UplinkPacketOf(d)
  BY HeadUplink DEF TrafficInv, RouteInv
<1> QED BY <1>1, <1>2, OwnQueueStep

LEMMA RelayDataTraffic ==
    ASSUME TrafficInv, RouteInv', NEW d \in Devices, RelayData(d)
    PROVE  TrafficInv'
<1> DEFINE f == Head(ulq[d])
           q == [ulq EXCEPT ![d] = Tail(@)]
<1>1. /\ ulq[d] # <<>> /\ SenderKind(Parent[d], f) = "iab" /\ f.pkt.type = "Data"
      /\ SendDataUp(Parent[d], f.pkt, q)
      /\ UNCHANGED <<dlq, appVars, coreVars>>
  BY DEF RelayData
<1>2. /\ f \in OwnFrameOf(d) /\ f.rnti \in Rntis /\ q \in OwnQueues
      /\ f.pkt \in DataPacket /\ Parent[d] \in Stations
  <2>1. f \in OwnFrameOf(d) /\ q \in OwnQueues
    BY <1>1, HeadOwn
  <2> QED BY <1>1, <2>1, Topology DEF OwnFrameOf, UplinkFrame, UplinkPacket, InitialUeMessage
<1>3. d \in Iab
  <2>1. rntiLocalImsi[Parent[d]][f.rnti] = d
    BY <1>1, RelayedBy DEF TrafficInv
  <2>2. imsiIab[Parent[d]][d] = "iab"
    BY <1>1, <2>1 DEF SenderKind
  <2> QED BY <1>2, <2>2 DEF TrafficInv, RouteInv, MapInv, Mapped
<1>4. InTunnel(f.pkt)
  BY <1>1, <1>2, <1>3 DEF OwnFrameOf
<1> HIDE DEF f, q
<1>5. Moves
  BY <1>1, <1>2, <1>4, SendDataUpOwn, DownStays DEF Moves, coreVars
<1> QED BY <1>1, <1>5, SameTraffic DEF coreVars

\* A cell puts a packet of its own UE into the tunnel of the bearer it came on.
LEMMA RecvUeDataTraffic ==
    ASSUME TrafficInv, RouteInv', NEW d \in Devices, RecvUeData(d)
    PROVE  TrafficInv'
<1> DEFINE b == Parent[d]
           f == Head(ulq[d])
           q == [ulq EXCEPT ![d] = Tail(@)]
           t == TunnelOf(b, f)
           p == [f.pkt EXCEPT !.teid = t]
<1>1. /\ ulq[d] # <<>>
      /\ \/ t # 0 /\ SenderKind(b, f) = "ue" /\ SendDataUp(b, p, q)
         \/ ulq' = q /\ UNCHANGED nasVars
      /\ UNCHANGED <<dlq, appVars, coreVars>>
  BY DEF RecvUeData
<1>2. /\ f \in OwnFrameOf(d) /\ f.rnti \in Rntis /\ f.bid \in Bids /\ q \in OwnQueues
      /\ b \in Stations /\ f.pkt \in UplinkPacketOf(d)
  <2>1. f \in OwnFrameOf(d) /\ q \in OwnQueues /\ f.pkt \in UplinkPacketOf(d)
    BY <1>1, HeadOwn
  <2> QED BY <2>1, Topology DEF OwnFrameOf, UplinkFrame
<1>3. CASE ulq' = q /\ UNCHANGED nasVars
  <2>1. Moves
    BY <1>1, <1>2, <1>3, DownStays DEF Moves, TrafficInv, UpInv, coreVars, nasVars
  <2> QED BY <1>1, <2>1, SameTraffic DEF coreVars
<1>4. CASE t # 0 /\ SenderKind(b, f) = "ue" /\ SendDataUp(b, p, q)
  <2>1. rntiLocalImsi[b][f.rnti] = d
    BY <1>1, <1>4, RelayedBy DEF TrafficInv
  <2>2. d \notin Iab
    BY <1>2, <1>4, <2>1 DEF SenderKind, TrafficInv, KindInv
  <2>3. f.pkt \in DataPacket /\ f.pkt.ue = d /\ f.bid = f.pkt.bid
    <3>1. f.pkt \in DataPacket
      BY <1>2, <2>2, SMTT(30) DEF UplinkPacketOf, UplinkPacket, InitialUeMessage
    <3> QED BY <1>2, <2>2, <3>1 DEF OwnFrameOf, DataPacket
  <2>4. t \in Teids /\ Allocated(t) /\ session[t] = [imsi |-> d, bid |-> f.bid]
    <3>1. Tunnelled(b, f.rnti, f.bid)
      BY <1>2 DEF TrafficInv, TunnelInv
    <3>2. rbidTeid \in [Stations -> [Rntis -> [Bids -> Teids \cup {0}]]]
      BY DEF TrafficInv, RouteInv, TypeInv, TypeOK, AppTypes
    <3> HIDE DEF f, b
    <3>3. t \in Teids \cup {0}
      BY <1>2, <3>2 DEF TunnelOf
    <3> QED BY <1>4, <2>1, <3>1, <3>3 DEF Tunnelled, TunnelOf
  <2> HIDE DEF t, f, b, q
  <2>5. p \in DataPacket /\ p.ue = d /\ p.bid = f.bid /\ p.teid = t
    BY <2>3, <2>4 DEF DataPacket
  <2>6. InTunnel(p)
    BY <2>4, <2>5 DEF InTunnel
  <2> HIDE DEF p
  <2>7. Moves
    BY <1>1, <1>2, <1>4, <2>5, <2>6, SendDataUpOwn, DownStays DEF Moves, coreVars
  <2> QED BY <1>1, <2>7, SameTraffic DEF coreVars
<1> QED BY <1>1, <1>3, <1>4

LEMMA UeSendTraffic ==
    ASSUME TrafficInv, RouteInv', NEW u \in Ue, NEW k \in Bids, UeSend(u, k)
    PROVE  TrafficInv'
<1> DEFINE p == [type |-> "Data", ue |-> u, bid |-> k, teid |-> 0]
<1>1. NasSend(u, p, k, ulq) /\ UNCHANGED <<dlq, appVars, coreVars>>
  BY DEF UeSend
<1>2. u \in Devices /\ u \notin Iab /\ p \in OwnPacketOf(u) /\ p.bid = k /\ ulq \in OwnQueues
  BY Topology DEF OwnPacketOf, UplinkPacket, DataPacket, TrafficInv, UpInv
<1> HIDE DEF p
<1>3. Moves
  BY <1>1, <1>2, NasSendOwn, DownStays DEF Moves, coreVars
<1> QED BY <1>1, <1>3, SameTraffic DEF coreVars

LEMMA LoseUplinkTraffic ==
    ASSUME TrafficInv, RouteInv', NEW d \in Devices, LoseUplink(d)
    PROVE  TrafficInv'
<1>1. /\ ulq[d] # <<>> /\ ulq' = [ulq EXCEPT ![d] = Tail(@)]
      /\ UNCHANGED <<nasVars, dlq, appVars, coreVars>>
  BY DEF LoseUplink
<1>2. Moves
  BY <1>1, HeadOwn, DownStays DEF Moves, TrafficInv, UpInv, coreVars, nasVars
<1> QED BY <1>1, <1>2, SameTraffic DEF coreVars

\* An InitialUeMessage is no data, whoever sends it on.
LEMMA RelayInitialUeMessageTraffic ==
    ASSUME TrafficInv, RouteInv', NEW d \in Devices, RelayInitialUeMessage(d)
    PROVE  TrafficInv'
<1> DEFINE b == Parent[d]
           m == Head(ulq[d]).pkt
           m2 == [m EXCEPT !.parents = @ \cup AddParent(b)]
           q == [ulq EXCEPT ![d] = Tail(@)]
<1>1. /\ ulq[d] # <<>> /\ m.type = "InitialUeMessage" /\ SendS1ap(b, m2, q)
      /\ UNCHANGED <<session, rntiLocalImsi, rbidTeid, imsiIab, dlq, s1uDown>>
  BY DEF RelayInitialUeMessage
<1>2. b \in Stations /\ m \in UplinkPacketOf(d) /\ q \in OwnQueues
  BY <1>1, HeadOwn, Topology
<1>3. m \in InitialUeMessage /\ d \in Iab /\ OnBranch(d, m)
  BY <1>1, <1>2, HeadOwn DEF UplinkPacketOf, UplinkPacket, DataPacket, OwnFrameOf
<1> HIDE DEF m, q
<1>4. b \in Iab => OnBranch(b, m2)
  <2>1. m2.parents = m.parents \cup AddParent(b)
    BY <1>3 DEF InitialUeMessage
  <2>2. m.parents \subseteq Below[d] \cup {d}
    BY <1>3 DEF OnBranch
  <2>3. Below[d] \cup {d} \subseteq Below[b]
    <3>1. d \in Stations /\ d \in Below[b]
      BY <1>2, <1>3, Topology, TopologyAssumption
    <3> QED BY <1>3, <3>1, BelowClosed
  <2> QED BY <2>1, <2>2, <2>3 DEF OnBranch, AddParent
<1> HIDE DEF b
<1>5. m2 \in InitialUeMessage
  BY <1>2, <1>3 DEF InitialUeMessage, AddParent
<1> HIDE DEF m2
<1>6. Moves
  BY <1>1, <1>2, <1>5, <1>4, SendS1apOwn, DownStays DEF Moves
<1>7. Keeps
  BY <1>1 DEF Keeps, Allocated
<1> QED BY <1>1, <1>6, <1>7, SameMaps

\* The RNTI of a request maps to nobody yet, or to the device that sends it.
LEMMA RecvConnectionRequestKeeps ==
    ASSUME TypeInv, NEW d \in Devices, RecvConnectionRequest(d)
    PROVE  Keeps
<1> DEFINE b == Parent[d]
           r == Head(srbUl[d]).rnti
<1>1. /\ srbUl[d] # <<>> /\ UNCHANGED session
      /\ rntiLocalImsi' = [rntiLocalImsi EXCEPT ![b][r] = d]
  BY DEF RecvConnectionRequest
<1>2. b \in Stations /\ r \in Rntis /\ UeOf(b, r) = d
  BY <1>1, HeadRnti, Topology
<1> HIDE DEF b, r
<1>3. rntiLocalImsi[b][r] \in {None, d}
  BY <1>2 DEF TypeInv, UeMapInv, UeKnown
<1>4. rntiLocalImsi \in [Stations -> [Rntis -> Devices \cup {None}]]
  BY DEF TypeInv, TypeOK, AppTypes
<1>5. \A x \in Stations, y \in Rntis :
         rntiLocalImsi'[x][y] = IF x = b /\ y = r THEN d ELSE rntiLocalImsi[x][y]
  BY <1>1, <1>2, <1>4, UpdateTwice
<1>6. None \notin Devices
  BY Topology
<1> QED BY <1>1, <1>3, <1>5, <1>6 DEF Keeps, Allocated

LEMMA RecvConnectionRequestTraffic ==
    ASSUME TrafficInv, RouteInv', NEW d \in Devices, RecvConnectionRequest(d)
    PROVE  TrafficInv'
<1> DEFINE b == Parent[d]
           m == [type |-> "InitialUeMessage", imsi |-> d, gci |-> b, parents |-> AddParent(b)]
<1>1. SendS1ap(b, m, ulq) /\ UNCHANGED <<session, rbidTeid, imsiIab, dlq, s1uDown>>
  BY DEF RecvConnectionRequest
<1>2. b \in Stations
  BY Topology
<1>3. m \in InitialUeMessage
  BY <1>2 DEF InitialUeMessage, AddParent
<1>4. b \in Iab => OnBranch(b, m)
  BY DEF OnBranch, AddParent
<1> HIDE DEF b, m
<1>5. Moves
  BY <1>1, <1>2, <1>3, <1>4, SendS1apOwn, DownStays DEF Moves, TrafficInv, UpInv
<1>6. Keeps
  BY RecvConnectionRequestKeeps DEF TrafficInv, RouteInv
<1> QED BY <1>1, <1>5, <1>6, SameMaps

\* The NAS flushes its buffer, each packet on the bearer of its flow.
LEMMA RecvReconfigurationTraffic ==
    ASSUME TrafficInv, RouteInv', NEW d \in Devices, RecvReconfiguration(d)
    PROVE  TrafficInv'
<1> DEFINE n     == Head(srbDl[d]).drbs
           flush == IF n > drbs[d] THEN nasBuffer[d] ELSE <<>>
           sent  == {i \in DOMAIN flush : BearerOf(d, flush[i]) <= n}
           frame(p) == Frame(rnti[d], BearerOf(d, p), p)
           frames(order) == [x \in DOMAIN order |-> frame(flush[order[x]])]
<1> USE Topology
<1>1. /\ rrc[d] = "CONNECTED"
      /\ \/ UNCHANGED ulq
         \/ \E order \in [1 .. Cardinality(sent) -> sent] :
               ulq' = [ulq EXCEPT ![d] = @ \o frames(order)]
      /\ UNCHANGED <<nasVars, dlq, appVars, coreVars>>
  BY DEF RecvReconfiguration
<1>2. rnti[d] \in Rntis
  BY <1>1 DEF TrafficInv, RouteInv, TypeInv, LinkInv, Linked
<1>3. flush \in Seq(OwnPacketOf(d)) /\ flush \in Seq(UplinkPacketOf(d))
  BY EmptyQueues DEF TrafficInv, UpInv, OwnBuffers, RouteInv, TypeInv, QueueInv, NasBuffers
<1>4. ASSUME NEW order \in [1 .. Cardinality(sent) -> sent]
      PROVE  frames(order) \in Seq(OwnFrameOf(d))
  <2>1. Cardinality(sent) \in Nat
    <3>1. DOMAIN flush = 1 .. Len(flush) /\ Len(flush) \in Nat
      BY <1>3, LenProperties
    <3>2. IsFiniteSet(DOMAIN flush)
      BY <3>1, FS_Interval
    <3> QED BY <3>2, FS_Subset, FS_CardinalityType
  <2>2. ASSUME NEW x \in 1 .. Cardinality(sent)
        PROVE  frame(flush[order[x]]) \in OwnFrameOf(d)
    <3> DEFINE p == flush[order[x]]
    <3>1. order[x] \in 1 .. Len(flush)
      BY <1>3, LenProperties
    <3>2. p \in OwnPacketOf(d) /\ p \in UplinkPacketOf(d)
      BY <1>3, <3>1, ElementOfSeq
    <3> HIDE DEF p
    <3>3. CASE d \in Iab
      <4>1. BearerOf(d, p) = 1 /\ 1 \in Bids
        BY <3>3 DEF BearerOf, Bids
      <4>2. frame(p) \in OwnFrameOf(d)
        BY <1>2, <3>2, <3>3, <4>1 DEF Frame, OwnFrameOf, OwnPacketOf, UplinkFrame
      <4> QED BY <4>2 DEF p
    <3>4. CASE d \notin Iab
      <4>1. p \in DataPacket
        BY <3>2, <3>4 DEF UplinkPacketOf, UplinkPacket, InitialUeMessage
      <4>2. frame(p) \in OwnFrameOf(d)
        BY <1>2, <3>2, <3>4, <4>1 DEF BearerOf, DataPacket, Frame, OwnFrameOf, OwnPacketOf, UplinkFrame
      <4> QED BY <4>2 DEF p
    <3> QED BY <3>3, <3>4
  <2>3. frames(order) \in [1 .. Cardinality(sent) -> OwnFrameOf(d)]
    BY <2>2
  <2> HIDE DEF frames, sent
  <2> QED BY <2>1, <2>3, FunctionIsSeq
<1> HIDE DEF n, flush, sent, frames
<1>5. ulq' \in OwnQueues
  <2>1. ulq \in OwnQueues
    BY DEF TrafficInv, UpInv
  <2>2. ASSUME NEW order \in [1 .. Cardinality(sent) -> sent],
               ulq' = [ulq EXCEPT ![d] = @ \o frames(order)]
        PROVE  ulq' \in OwnQueues
    BY <1>4, <2>1, <2>2, OwnQueueStep
  <2> QED BY <1>1, <2>1, <2>2
<1>6. Moves
  BY <1>1, <1>5, DownStays DEF Moves, TrafficInv, UpInv, nasVars, coreVars
<1> QED BY <1>1, <1>6, SameTraffic DEF coreVars

(***************************************************************************)
(* Downlink.                                                               *)
(***************************************************************************)

\* A cell sends on the bearer of an RNTI only what is for its device.
LEMMA SendRight ==
    ASSUME TrafficInv, NEW b \in Stations, NEW rb \in Rbid, NEW p \in DownlinkPacket,
           RightBranch(rntiLocalImsi[b][rb.rnti], p),
           rntiLocalImsi[b][rb.rnti] \in Devices, NEW q \in RightQueues
    PROVE  SendToLteSocket(b, rb, p, q) \in RightQueues
<1> DEFINE u == ueMap[b][rb.rnti]
           c == rntiLocalImsi[b][rb.rnti]
           e == Frame(rb.rnti, rb.bid, p)
<1>1. CASE SendToLteSocket(b, rb, p, q) = q
  BY <1>1
<1>2. CASE /\ rb.bid \in 1 .. u.drbs
           /\ u.state \in {"CONNECTED_NORMALLY", "CONNECTION_RECONFIGURATION"}
           /\ SendToLteSocket(b, rb, p, q) = [q EXCEPT ![u.ue] = Append(@, e)]
  <2>1. rb.rnti \in Rntis /\ rb.bid \in Bids
    <3>1. rb # NoRbid
      BY <1>2 DEF NoRbid
    <3> QED BY <3>1 DEF Rbid
  <2>2. u.ue = c
    <3>1. UeKnown(b, rb.rnti)
      BY <2>1 DEF TrafficInv, RouteInv, TypeInv, UeMapInv
    <3> QED BY <3>1, Topology DEF UeKnown, UeOf
  <2>3. e \in RightFrame(c)
    BY <2>1 DEF Frame, RightFrame, DownlinkFrame
  <2> HIDE DEF u, e, c
  <2>4. c \in Devices
    BY DEF c
  <2>5. [q EXCEPT ![c] = Append(@, e)] \in RightQueues
    BY <2>3, <2>4, RightQueueStep
  <2> QED BY <1>2, <2>2, <2>5
<1> QED BY <1>1, <1>2 DEF SendToLteSocket

\* A data packet leaves a cell towards the UE its TEID was allocated for.
LEMMA ForwardDownRight ==
    ASSUME TrafficInv, NEW b \in Stations, NEW p \in OwnedData, NEW q \in RightQueues,
           ForwardDown(b, p, q)
    PROVE  dlq' \in RightQueues
<1> DEFINE t == p.teid
           p2 == [p EXCEPT !.teid = HeaderTeid(b, t)]
<1>1. CASE dlq' = q
  BY <1>1
<1>2. CASE /\ t \in Teids /\ teidRbid[b][t] # NoRbid
           /\ dlq' = SendToLteSocket(b, teidRbid[b][t], p2, q)
  <2>1. p \in DataPacket /\ p.ue \in Ue /\ Allocated(t) /\ Owner(t) = p.ue
    BY DEF OwnedData, DataPacket
  <2>2. /\ p2 \in DataPacket /\ p2.ue = p.ue /\ p2.teid = HeaderTeid(b, t)
        /\ p2.type = "Data"
    BY <1>2, <2>1 DEF DataPacket, HeaderTeid
  <2> HIDE DEF p2, t
  <2>3. Routed(b, t)
    BY <1>2, RoutedIsRoute DEF TrafficInv, RouteInv
  <2> DEFINE c == NextHop(b, t)
  <2>4. /\ c \in Devices
        /\ IF t \in teidRemote[b] THEN c \in Iab /\ p.ue \in Below[c] ELSE c = p.ue
    BY <1>2, <2>1, <2>3 DEF Routed, HasTeid
  <2>5. RightBranch(c, p2)
    BY <2>1, <2>2, <2>4, Topology DEF RightBranch, HeaderTeid
  <2>6. teidRbid[b][t] \in Rbid /\ c = rntiLocalImsi[b][teidRbid[b][t].rnti]
    BY <1>2 DEF TrafficInv, RouteInv, TypeInv, TypeOK, AppTypes, NextHop
  <2>7. p2 \in DownlinkPacket
    BY <2>2 DEF DownlinkPacket
  <2> HIDE DEF c
  <2> QED BY <1>2, <2>4, <2>5, <2>6, <2>7, SendRight
<1> QED BY <1>1, <1>2 DEF ForwardDown, RecvFromS1uSocket

LEMMA HeadRight ==
    ASSUME TrafficInv, NEW d \in Devices, dlq[d] # <<>>
    PROVE  /\ Head(dlq[d]) \in RightFrame(d) /\ Head(dlq[d]) \in RequestFrame
           /\ [dlq EXCEPT ![d] = Tail(@)] \in RightQueues
<1>1. dlq \in RightQueues
  BY DEF TrafficInv, DownInv
<1>2. Head(dlq[d]) \in RequestFrame
  BY HeadDownlink DEF TrafficInv, RouteInv
<1> QED BY <1>1, <1>2, RightQueueStep

LEMMA TakenDownlinkTraffic ==
    ASSUME TrafficInv, RouteInv', NEW d \in Devices,
           DropDownlink(d) \/ DeliverToUe(d) \/ LoseDownlink(d)
    PROVE  TrafficInv'
<1>1. /\ dlq[d] # <<>> /\ dlq' = [dlq EXCEPT ![d] = Tail(@)]
      /\ UNCHANGED <<ulq, nasVars, appVars, coreVars>>
  BY DEF DropDownlink, DeliverToUe, LoseDownlink, Downlink
<1>2. Moves
  BY <1>1, HeadRight, UpStays DEF Moves, TrafficInv, DownInv, coreVars
<1> QED BY <1>1, <1>2, SameTraffic DEF coreVars

LEMMA IabRecvDataTraffic ==
    ASSUME TrafficInv, RouteInv', NEW i \in Iab, IabRecvData(i)
    PROVE  TrafficInv'
<1> DEFINE p == Head(dlq[i]).pkt
           q == [dlq EXCEPT ![i] = Tail(@)]
<1>1. /\ dlq[i] # <<>> /\ p.type = "Data" /\ ForwardDown(i, p, q)
      /\ UNCHANGED <<ulq, nasVars, appVars, coreVars>>
  BY DEF IabRecvData
<1>2. i \in Stations /\ i \in Devices /\ i \notin Ue
  BY Topology
<1>3. p \in OwnedData /\ q \in RightQueues
  <2>1. Head(dlq[i]) \in RightFrame(i) /\ q \in RightQueues
    BY <1>1, <1>2, HeadRight
  <2>2. p \in DataPacket
    BY <1>1, <2>1 DEF RightFrame, DownlinkFrame, DownlinkPacket, InitialContextSetupRequest
  <2> QED BY <1>1, <1>2, <2>1, <2>2 DEF RightFrame, RightBranch, OwnedData
<1> HIDE DEF p, q
<1>4. Moves
  BY <1>1, <1>2, <1>3, ForwardDownRight, UpStays DEF Moves, TrafficInv, DownInv, coreVars
<1> QED BY <1>1, <1>4, SameTraffic DEF coreVars

LEMMA WiredRecvDataTraffic ==
    ASSUME TrafficInv, RouteInv', NEW w \in Wired, WiredRecvData(w)
    PROVE  TrafficInv'
<1> DEFINE p == Head(s1uDown[w])
<1>1. /\ s1uDown[w] # <<>> /\ s1uDown' = [s1uDown EXCEPT ![w] = Tail(@)]
      /\ ForwardDown(w, p, dlq)
      /\ UNCHANGED <<ulq, nasVars, appVars, session>>
  BY DEF WiredRecvData
<1>2. w \in Stations /\ s1uDown \in [Wired -> Seq(OwnedData)] /\ dlq \in RightQueues
  BY Topology DEF TrafficInv, DownInv
<1>3. p \in OwnedData /\ s1uDown' \in [Wired -> Seq(OwnedData)]
  BY <1>1, <1>2, TakeQueue
<1> HIDE DEF p
<1>4. Moves
  BY <1>1, <1>2, <1>3, ForwardDownRight, UpStays DEF Moves
<1> QED BY <1>1, <1>4, SameTraffic

\* The classifier of the SGW picks a TEID of the UE the packet is for.
LEMMA SgwRecvFromInternetTraffic ==
    ASSUME TrafficInv, RouteInv', NEW u \in Ue, NEW k \in Bids, SgwRecvFromInternet(u, k)
    PROVE  TrafficInv'
<1>1. /\ \E t \in TeidsOfFlow(u, k) :
            s1uDown' = [s1uDown EXCEPT ![enbAddr[u]] =
                Append(@, [type |-> "Data", ue |-> u, bid |-> k, teid |-> t])]
      /\ UNCHANGED <<ulq, nasVars, dlq, appVars, session>>
  BY DEF SgwRecvFromInternet
<1>2. PICK t \in TeidsOfFlow(u, k) :
         s1uDown' = [s1uDown EXCEPT ![enbAddr[u]] =
             Append(@, [type |-> "Data", ue |-> u, bid |-> k, teid |-> t])]
  BY <1>1
<1> DEFINE p == [type |-> "Data", ue |-> u, bid |-> k, teid |-> t]
<1>3. p \in OwnedData
  <2>1. t \in 1 .. Len(session) /\ session[t] = [imsi |-> u, bid |-> k]
    BY DEF TeidsOfFlow
  <2>2. Len(session) <= MaxTeid /\ Len(session) \in Nat /\ MaxTeid \in Nat
    BY Topology, LenProperties DEF TrafficInv, RouteInv, TypeInv, SessionInv, TypeOK, CoreTypes
  <2>3. t \in Teids
    BY <2>1, <2>2 DEF Teids
  <2> QED BY <2>1, <2>3 DEF OwnedData, DataPacket, Allocated, Owner
<1> HIDE DEF p
<1>4. s1uDown' \in [Wired -> Seq(OwnedData)]
  <2>1. s1uDown \in [Wired -> Seq(OwnedData)]
    BY DEF TrafficInv, DownInv
  <2>2. s1uDown' = [s1uDown EXCEPT ![enbAddr[u]] = Append(@, p)]
    BY <1>2 DEF p
  <2> QED BY <1>3, <2>1, <2>2, AppendQueue
<1>5. Moves
  BY <1>1, <1>4, UpStays DEF Moves, TrafficInv, DownInv
<1> QED BY <1>1, <1>5, SameTraffic

(***************************************************************************)
(* Context setup and release.                                              *)
(***************************************************************************)

LEMMA RequestTunnel ==
    ASSUME TypeInv, NEW m \in Request, NEW k \in BidsOf(m)
    PROVE  LET t == TeidFor(m, k) IN
           Allocated(t) /\ session[t] = [imsi |-> m.imsi, bid |-> k]
<1> USE Topology
<1>1. PICK first \in 0 .. Len(session) : Granted(m, first)
  BY DEF Request
<1> DEFINE n == NumBearers[m.imsi]
<1>2. m.imsi \in Devices
  BY DEF Request, InitialContextSetupRequest
<1>3. n \in Nat /\ Len(session) \in Nat /\ first \in Nat
  BY <1>2, LenProperties DEF Bids, TypeInv, TypeOK, CoreTypes
<1>4. /\ first + n <= Len(session) /\ m.erabs = {<<j, first + j>> : j \in 1 .. n}
      /\ \A j \in 1 .. n : session[first + j] = [imsi |-> m.imsi, bid |-> j]
  BY <1>1 DEF Granted
<1> HIDE DEF n
<1>5. k \in 1 .. n
  BY <1>4 DEF BidsOf
<1>6. Allocated(first + k) /\ session[first + k] = [imsi |-> m.imsi, bid |-> k]
  BY <1>3, <1>4, <1>5 DEF Allocated
<1>7. TeidFor(m, k) = first + k
  <2>1. \A t \in Teids : <<k, t>> \in m.erabs <=> t = first + k
    <3> SUFFICES ASSUME NEW t \in Teids PROVE <<k, t>> \in m.erabs <=> t = first + k
      OBVIOUS
    <3>1. ASSUME <<k, t>> \in m.erabs PROVE t = first + k
      <4>1. PICK j \in 1 .. n : <<k, t>> = <<j, first + j>>
        BY <1>4, <3>1
      <4> QED BY <4>1
    <3>2. <<k, first + k>> \in m.erabs
      BY <1>4, <1>5
    <3> QED BY <3>1, <3>2
  <2>2. first + k \in Teids
    BY <1>3, <1>4, <1>5 DEF TypeInv, SessionInv, Teids
  <2> QED BY <2>1, <2>2 DEF TeidFor
<1> QED BY <1>6, <1>7

\* A request goes to the child it is for, or is served.
LEMMA ForwardIabS1apReplyTraffic ==
    ASSUME TrafficInv, RouteInv', NEW b \in Stations, NEW m \in Request,
           NEW q \in RightQueues, UNCHANGED <<session, ulq, nasVars>>,
           s1uDown' = s1uDown, ForwardIabS1apReply(b, m, q)
    PROVE  TrafficInv'
<1> DEFINE d  == m.imsi
           rb == imsiLocalRbid[b][d]
           kind == IF m.iab THEN "iab" ELSE "ue"
<1> USE Topology
<1>1. s1uDown' \in [Wired -> Seq(OwnedData)] /\ ulq' \in OwnQueues /\ nasBuffer' \in OwnBuffers
  BY UpStays DEF TrafficInv, DownInv
<1>2. CASE dlq' = q /\ UNCHANGED appVars
  BY <1>1, <1>2, SameTraffic DEF Moves
<1>3. CASE /\ rb # NoRbid
           /\ imsiIab' = [imsiIab EXCEPT ![b][d] = kind]
           /\ dlq' = SendToLteSocket(b, rb, m, q)
           /\ UNCHANGED <<rntiLocalImsi, rbidTeid>>
  <2>1. d \in Devices /\ (m.iab <=> d \in Iab) /\ m.type = "InitialContextSetupRequest"
    BY DEF Request, InitialContextSetupRequest
  <2>2. LET c == rntiLocalImsi[b][rb.rnti] IN c \in Iab /\ d \in Below[c]
    BY <1>3, <2>1 DEF TrafficInv, RouteInv, MapInv, Mapped
  <2>3. rb \in Rbid /\ m \in DownlinkPacket
    BY <2>1 DEF TrafficInv, RouteInv, TypeInv, TypeOK, AppTypes, Request, DownlinkPacket
  <2>4. RightBranch(rntiLocalImsi[b][rb.rnti], m)
    BY <2>1, <2>2 DEF RightBranch
  <2> HIDE DEF rb
  <2>5. Moves
    BY <1>1, <1>3, <2>2, <2>3, <2>4, SendRight DEF Moves
  <2>6. Keeps
    BY <1>3 DEF Keeps, Allocated
  <2>7. KindInv'
    <3>1. imsiIab \in [Stations -> [Devices -> {"unknown", "iab", "ue"}]]
      BY DEF TrafficInv, RouteInv, TypeInv, TypeOK, AppTypes
    <3>2. kind \in {"unknown", "iab", "ue"} /\ (kind = "ue" => d \notin Iab)
      BY <2>1
    <3> HIDE DEF kind, d
    <3>3. \A x \in Stations, y \in Devices :
             imsiIab'[x][y] = IF x = b /\ y = d THEN kind ELSE imsiIab[x][y]
      BY <1>3, <2>1, <3>1, <3>2, UpdateTwice
    <3> QED BY <3>2, <3>3 DEF KindInv, TrafficInv
  <2>8. TunnelInv'
    BY <1>3, <2>6, TunnelStays DEF TunnelInv
  <2> QED BY <2>5, <2>6, <2>7, <2>8, TrafficStep
<1> QED BY <1>2, <1>3 DEF ForwardIabS1apReply, AbortContextSetup

LEMMA SetupContextTraffic ==
    ASSUME TrafficInv, RouteInv', NEW b \in Stations, NEW m \in Request,
           m.imsi \notin remoteImsi[b],
           NEW q \in RightQueues, UNCHANGED <<session, ulq, nasVars>>,
           s1uDown' = s1uDown, SetupContext(b, m, q)
    PROVE  TrafficInv'
<1> DEFINE d == m.imsi
           r == imsiRnti[b][d]
           kind == IF imsiIab[b][d] # "unknown" THEN imsiIab[b][d]
                   ELSE IF m.iab THEN "iab" ELSE "ue"
           tunnels == [k \in Bids |-> IF k \in BidsOf(m) THEN TeidFor(m, k) ELSE rbidTeid[b][r][k]]
<1> USE Topology
<1>1. s1uDown' \in [Wired -> Seq(OwnedData)] /\ ulq' \in OwnQueues /\ nasBuffer' \in OwnBuffers
  BY UpStays DEF TrafficInv, DownInv
<1>2. CASE dlq' = q /\ UNCHANGED appVars
  BY <1>1, <1>2, SameTraffic DEF Moves
<1>3. CASE /\ r # 0
           /\ imsiIab' = [imsiIab EXCEPT ![b][d] = kind]
           /\ rbidTeid' = [rbidTeid EXCEPT ![b][r] = tunnels]
           /\ dlq' = q
           /\ UNCHANGED rntiLocalImsi
  <2>1. d \in Devices /\ (m.iab <=> d \in Iab)
    BY DEF Request, InitialContextSetupRequest
  <2>2. r \in Rntis /\ rntiLocalImsi[b][r] = d
    <3>1. imsiRnti \in [Stations -> [Devices -> Rntis \cup {0}]]
      BY DEF TrafficInv, RouteInv, TypeInv, TypeOK, AppTypes
    <3>2. Mapped(b, d)
      BY <2>1 DEF TrafficInv, RouteInv, MapInv
    <3>3. r = imsiRnti[b][d] /\ d \notin remoteImsi[b]
      OBVIOUS
    <3> HIDE DEF r, d, kind, tunnels
    <3>4. r # 0
      BY <1>3
    <3> QED BY <2>1, <3>1, <3>2, <3>3, <3>4 DEF Mapped
  <2>3. Moves
    BY <1>1, <1>3 DEF Moves
  <2>4. Keeps
    BY <1>3 DEF Keeps, Allocated
  <2>5. KindInv'
    <3>1. imsiIab \in [Stations -> [Devices -> {"unknown", "iab", "ue"}]]
      BY DEF TrafficInv, RouteInv, TypeInv, TypeOK, AppTypes
    <3>2. kind \in {"unknown", "iab", "ue"} /\ (kind = "ue" => d \notin Iab)
      BY <2>1, <3>1 DEF TrafficInv, KindInv
    <3> HIDE DEF kind, d
    <3>3. \A x \in Stations, y \in Devices :
             imsiIab'[x][y] = IF x = b /\ y = d THEN kind ELSE imsiIab[x][y]
      BY <1>3, <2>1, <3>1, <3>2, UpdateTwice
    <3> QED BY <3>2, <3>3 DEF KindInv, TrafficInv
  <2>6. TunnelInv'
    <3> SUFFICES ASSUME NEW x \in Stations, NEW y \in Rntis, NEW k \in Bids
                 PROVE  Tunnelled(x, y, k)'
      BY DEF TunnelInv
    <3>1. rbidTeid \in [Stations -> [Rntis -> [Bids -> Teids \cup {0}]]]
      BY DEF TrafficInv, RouteInv, TypeInv, TypeOK, AppTypes
    <3> HIDE DEF d, r, kind
    <3>2. rbidTeid'[x][y] = IF x = b /\ y = r THEN tunnels ELSE rbidTeid[x][y]
      BY <1>3, <2>2, <3>1 DEF tunnels
    <3>3. CASE x = b /\ y = r /\ k \in BidsOf(m)
      <4>1. rbidTeid'[x][y][k] = TeidFor(m, k)
        BY <3>2, <3>3
      <4>2. Allocated(TeidFor(m, k)) /\ session[TeidFor(m, k)] = [imsi |-> d, bid |-> k]
        BY <3>3, RequestTunnel DEF TrafficInv, RouteInv, d
      <4> QED BY <1>3, <2>1, <2>2, <3>3, <4>1, <4>2 DEF Tunnelled, Allocated
    <3>4. CASE ~(x = b /\ y = r /\ k \in BidsOf(m))
      <4>1. rbidTeid'[x][y][k] = rbidTeid[x][y][k]
        BY <3>2, <3>4
      <4> QED BY <2>4, <4>1, TunnelStays
    <3> QED BY <3>3, <3>4
  <2> QED BY <2>3, <2>4, <2>5, <2>6, TrafficStep
<1> QED BY <1>2, <1>3 DEF SetupContext, AbortContextSetup

LEMMA RecvFromS1apSocketTraffic ==
    ASSUME TrafficInv, RouteInv', NEW b \in Stations, NEW m \in Request,
           NEW q \in RightQueues, UNCHANGED <<session, ulq, nasVars>>,
           s1uDown' = s1uDown, RecvFromS1apSocket(b, m, q)
    PROVE  TrafficInv'
BY ForwardIabS1apReplyTraffic, SetupContextTraffic DEF RecvFromS1apSocket

LEMMA WiredRecvS1apTraffic ==
    ASSUME TrafficInv, RouteInv', NEW w \in Wired, WiredRecvS1ap(w)
    PROVE  TrafficInv'
<1> DEFINE m == Head(s1Down[w])
<1>1. /\ s1Down[w] # <<>> /\ RecvFromS1apSocket(w, m, dlq)
      /\ UNCHANGED <<session, ulq, nasVars>> /\ s1uDown' = s1uDown
  BY DEF WiredRecvS1ap
<1>2. w \in Stations /\ s1Down \in [Wired -> Seq(Request)] /\ dlq \in RightQueues
  BY Topology DEF TrafficInv, DownInv, RouteInv, TypeInv, QueueInv, Requests
<1>3. m \in Request
  BY <1>1, <1>2, TakeQueue
<1> HIDE DEF m
<1> QED BY <1>1, <1>2, <1>3, RecvFromS1apSocketTraffic

LEMMA IabRecvS1apTraffic ==
    ASSUME TrafficInv, RouteInv', NEW i \in Iab, IabRecvS1ap(i)
    PROVE  TrafficInv'
<1> DEFINE m == Head(dlq[i]).pkt
           q == [dlq EXCEPT ![i] = Tail(@)]
<1>1. /\ dlq[i] # <<>> /\ m.type = "InitialContextSetupRequest"
      /\ RecvFromS1apSocket(i, m, q)
      /\ UNCHANGED <<session, ulq, nasVars>> /\ s1uDown' = s1uDown
  BY DEF IabRecvS1ap, coreVars
<1>2. i \in Stations /\ i \in Devices
  BY Topology
<1>3. m \in Request /\ q \in RightQueues
  BY <1>1, <1>2, HeadRight DEF RequestFrame, DataPacket
<1> HIDE DEF m, q
<1> QED BY <1>1, <1>2, <1>3, RecvFromS1apSocketTraffic

LEMMA RemoveUeTraffic ==
    ASSUME TrafficInv, RouteInv', NEW b \in Stations, NEW r \in Rntis, RemoveUe(b, r)
    PROVE  TrafficInv'
<1>1. /\ rbidTeid' = [rbidTeid EXCEPT ![b][r] = NoTeids]
      /\ UNCHANGED <<session, rntiLocalImsi, imsiIab, ulq, nasVars, dlq, s1uDown>>
  BY DEF RemoveUe, coreVars
<1>2. Moves
  BY <1>1, UpStays, DownStays DEF Moves
<1>3. Keeps
  BY <1>1 DEF Keeps, Allocated
<1>4. TunnelInv'
  <2> SUFFICES ASSUME NEW x \in Stations, NEW y \in Rntis, NEW k \in Bids
               PROVE  rbidTeid'[x][y][k] \in {0, rbidTeid[x][y][k]}
    BY <1>3, TunnelStays DEF TunnelInv
  <2>1. rbidTeid \in [Stations -> [Rntis -> [Bids -> Teids \cup {0}]]]
    BY DEF TrafficInv, RouteInv, TypeInv, TypeOK, AppTypes
  <2>2. rbidTeid'[x][y] = IF x = b /\ y = r THEN NoTeids ELSE rbidTeid[x][y]
    BY <1>1, <2>1
  <2> QED BY <2>2 DEF NoTeids
<1>5. KindInv'
  BY <1>1 DEF TrafficInv, KindInv
<1> QED BY <1>2, <1>3, <1>4, <1>5, TrafficStep

LEMMA MmeRecvInitialUeMessageTraffic ==
    ASSUME TrafficInv, RouteInv', NEW w \in Wired, MmeRecvInitialUeMessage(w)
    PROVE  TrafficInv'
<1>1. UNCHANGED <<appVars, ulq, nasVars, dlq, s1uDown>>
  BY DEF MmeRecvInitialUeMessage
<1>2. Moves
  BY <1>1, UpStays, DownStays DEF Moves
<1>3. Keeps
  BY MmeRecvInitialUeMessageKeeps DEF TrafficInv, RouteInv
<1> QED BY <1>1, <1>2, <1>3, SameMaps DEF appVars

(***************************************************************************)
(* The theorems.                                                           *)
(***************************************************************************)

LEMMA TrafficInvStep == TrafficInv /\ [Next]_vars => TrafficInv'
<1> SUFFICES ASSUME TrafficInv, [Next]_vars PROVE TrafficInv'
  OBVIOUS
<1> USE DEF coreVars
<1>1. RouteInv'
  BY RouteInvStep DEF TrafficInv
<1>2. ASSUME UNCHANGED <<session, appVars, ulq, nasVars, dlq, s1uDown>> PROVE TrafficInv'
  <2>1. Moves
    BY <1>2, UpStays, DownStays DEF Moves
  <2> QED BY <1>1, <1>2, <2>1, SameTraffic
<1>3. ASSUME NEW d \in Devices, Connect(d) PROVE TrafficInv'
  <2>1. CASE RecvConnectionRequest(d)
    BY <1>1, <2>1, RecvConnectionRequestTraffic
  <2>2. CASE RecvReconfiguration(d)
    BY <1>1, <2>2, RecvReconfigurationTraffic
  <2>3. CASE RecvConnectionSetup(d)
    <3>1. Moves
      BY <2>3, DownStays DEF RecvConnectionSetup, Moves, TrafficInv, UpInv
    <3>2. UNCHANGED <<session, appVars>>
      BY <2>3 DEF RecvConnectionSetup
    <3> QED BY <1>1, <3>1, <3>2, SameTraffic
  <2>4. CASE \/ RandomAccess(d) \/ RecvConnectionSetupCompleted(d)
             \/ RecvReconfigurationCompleted(d)
    <3>1. UNCHANGED <<session, appVars, ulq, nasVars, dlq, s1uDown>>
      BY <2>4 DEF RandomAccess, RecvConnectionSetupCompleted, RecvReconfigurationCompleted
    <3> QED BY <1>2, <3>1
  <2> QED BY <1>3, <2>1, <2>2, <2>3, <2>4 DEF Connect
<1>4. ASSUME NEW d \in Devices, Uplink(d) \/ LoseUplink(d) PROVE TrafficInv'
  BY <1>1, <1>4, RelayInitialUeMessageTraffic, RelayDataTraffic, RecvUeDataTraffic,
     LoseUplinkTraffic DEF Uplink
<1>5. ASSUME NEW d \in Devices, DownlinkStep(d) \/ LoseDownlink(d) PROVE TrafficInv'
  <2>1. CASE DropDownlink(d) \/ DeliverToUe(d) \/ LoseDownlink(d)
    BY <1>1, <2>1, TakenDownlinkTraffic
  <2>2. CASE IabRecvS1ap(d)
    BY <1>1, <2>2, IabRecvS1apTraffic DEF IabRecvS1ap
  <2>3. CASE IabRecvData(d)
    BY <1>1, <2>3, IabRecvDataTraffic DEF IabRecvData
  <2> QED BY <1>5, <2>1, <2>2, <2>3 DEF DownlinkStep
<1>6. ASSUME NEW d \in Devices, ConnectionTimeout(d) PROVE TrafficInv'
  <2>1. UNCHANGED <<session, appVars, ulq, nasVars, dlq, s1uDown>>
    BY <1>6 DEF ConnectionTimeout
  <2> QED BY <1>2, <2>1
<1>7. ASSUME NEW w \in Wired, Wireline(w) \/ MmeRecvInitialUeMessage(w) PROVE TrafficInv'
  BY <1>1, <1>7, WiredRecvS1apTraffic, WiredRecvDataTraffic, MmeRecvInitialUeMessageTraffic
  DEF Wireline
<1>8. ASSUME NEW b \in Stations, NEW r \in Rntis, RemoveUe(b, r) PROVE TrafficInv'
  BY <1>1, <1>8, RemoveUeTraffic
<1>9. ASSUME NEW u \in Ue, NEW k \in Bids, UeSend(u, k) \/ SgwRecvFromInternet(u, k)
      PROVE  TrafficInv'
  BY <1>1, <1>9, UeSendTraffic, SgwRecvFromInternetTraffic
<1>10. CASE UNCHANGED vars
  <2>1. UNCHANGED <<session, appVars, ulq, nasVars, dlq, s1uDown>>
    BY <1>10 DEF vars
  <2> QED BY <1>2, <2>1
<1> QED BY <1>3, <1>4, <1>5, <1>6, <1>7, <1>8, <1>9, <1>10 DEF Next

\* What is on the air towards a device is meant for it or for a device behind
\* it, in every deployment: RecvFromS1uSocket takes the GTP header off exactly
\* where the serving cell is reached.
THEOREM ReachesRightBranch == Spec => []DownlinkReachesRightBranch
<1>1. Init => TrafficInv
  BY InitTrafficInv
<1>2. TrafficInv /\ [Next]_vars => TrafficInv'
  BY TrafficInvStep
<1>3. TrafficInv => DownlinkReachesRightBranch
  <2> SUFFICES ASSUME TrafficInv, NEW d \in Devices, NEW i \in DOMAIN dlq[d]
               PROVE  RightBranch(d, dlq[d][i].pkt)
    BY DEF DownlinkReachesRightBranch, RightBranch
  <2>1. dlq[d] \in Seq(RightFrame(d))
    BY DEF TrafficInv, DownInv, RightQueues
  <2>2. dlq[d][i] \in RightFrame(d)
    BY <2>1, LenProperties, ElementOfSeq
  <2> QED BY <2>2 DEF RightFrame
<1> QED BY <1>1, <1>2, <1>3, PTL DEF Spec

\* Data an IAB node has on the air is in the tunnel of the UE and bearer it
\* came from, in every deployment: RecvFromLteSocket of the serving cell took
\* the TEID of the bearer, and no cell after it changed it.
THEOREM InOwnTunnel == Spec => []UplinkInOwnTunnel
<1>1. Init => TrafficInv
  BY InitTrafficInv
<1>2. TrafficInv /\ [Next]_vars => TrafficInv'
  BY TrafficInvStep
<1>3. TrafficInv => UplinkInOwnTunnel
  <2> SUFFICES ASSUME TrafficInv, NEW i \in Iab, NEW n \in DOMAIN ulq[i],
                      ulq[i][n].pkt.type = "Data"
               PROVE  InTunnel(ulq[i][n].pkt)
    BY DEF UplinkInOwnTunnel, InTunnel
  <2>1. ulq[i] \in Seq(OwnFrameOf(i))
    BY Topology DEF TrafficInv, UpInv, OwnQueues
  <2>2. ulq[i][n] \in OwnFrameOf(i)
    BY <2>1, LenProperties, ElementOfSeq
  <2> QED BY <2>2 DEF OwnFrameOf
<1> QED BY <1>1, <1>2, <1>3, PTL DEF Spec

(***************************************************************************)
(* Tunnels.                                                                *)
(***************************************************************************)

(***************************************************************************)
(* The tree.                                                               *)
(***************************************************************************)

\* A device behind an IAB node is not attached to the parent of that node.
LEMMA NotAttachedAbove ==
    ASSUME NEW i \in Iab, NEW d \in Devices, d \in Below[i]
    PROVE  Parent[d] # Parent[i]
BY TopologyAssumption DEF Stations, Devices

\* What is behind a node is behind its parent, and so is the node.
LEMMA MoreAbove ==
    ASSUME NEW e \in Iab
    PROVE  Below[e] \subseteq Below[Parent[e]] /\ e \in Below[Parent[e]] /\ e \notin Below[e]
<1>1. e \in Devices /\ e \in Stations /\ Parent[e] \in Stations
  BY Topology
<1>2. ASSUME NEW z \in Below[e] PROVE z \in Below[Parent[e]]
  <2>1. z \in Devices
    BY <1>1, Topology
  <2> QED BY <1>1, <2>1, TopologyAssumption
<1>3. e \in Below[Parent[e]] /\ e \notin Below[e]
  BY <1>1, TopologyAssumption
<1> QED BY <1>2, <1>3

\* Going up from IAB node to IAB node ends: the nodes not below get fewer.
LEMMA AscentEnds ==
    ASSUME NEW S \in SUBSET Iab, \A e \in S : Parent[e] \in S
    PROVE  S = {}
<1> SUFFICES ASSUME S # {} PROVE FALSE
  OBVIOUS
<1> DEFINE Rest(e) == Iab \ Below[e]
           T == {Rest(e) : e \in S}
<1>1. T # {}
  OBVIOUS
<1>2. T \subseteq FiniteSubsetsOf(Iab)
  <2> SUFFICES ASSUME NEW e \in S PROVE Rest(e) \in FiniteSubsetsOf(Iab)
    OBVIOUS
  <2>1. IsFiniteSet(Rest(e))
    BY Topology, FS_Difference
  <2> QED BY <2>1 DEF FiniteSubsetsOf
<1>3. IsWellFoundedOn(StrictSubsetOrdering(Iab), FiniteSubsetsOf(Iab))
  BY FS_StrictSubsetOrderingWellFounded
<1> HIDE DEF T
<1>4. PICK least \in T : \A s \in T : <<s, least>> \notin StrictSubsetOrdering(Iab)
  BY <1>1, <1>2, <1>3, WFMin
<1>5. PICK e \in S : least = Rest(e)
  BY DEF T
<1> DEFINE p == Parent[e]
<1>6. p \in S /\ Below[e] \subseteq Below[p] /\ e \in Below[p] /\ e \notin Below[e]
  BY MoreAbove
<1>7. Rest(p) \subseteq Rest(e) /\ Rest(p) # Rest(e) /\ Rest(p) \in T
  BY <1>6 DEF T
<1>8. <<Rest(p), Rest(e)>> \in StrictSubsetOrdering(Iab)
  BY <1>7 DEF StrictSubsetOrdering
<1> QED BY <1>4, <1>5, <1>7, <1>8

\* No device is behind two children of one cell.  If one were, so would be its
\* parent, and the parent of that.
LEMMA OneBranch ==
    ASSUME NEW x \in Iab, NEW y \in Iab, Parent[x] = Parent[y],
           NEW d \in Devices, d \in Below[x], d \in Below[y]
    PROVE  x = y
<1> SUFFICES ASSUME x # y PROVE FALSE
  OBVIOUS
<1> DEFINE Both == {e \in Iab : e \in Below[x] /\ e \in Below[y]}
<1>1. ASSUME NEW e \in Devices, e \in Below[x], e \in Below[y] PROVE Parent[e] \in Both
  <2>1. x \in Devices /\ y \in Devices /\ x \in Stations /\ y \in Stations
    BY Topology
  <2>2. Parent[e] \in Below[x] \cup {x} /\ Parent[e] \in Below[y] \cup {y}
    BY <1>1, <2>1, TopologyAssumption
  <2>3. x \notin Below[y] /\ y \notin Below[x]
    BY <2>1, NotAttachedAbove
  <2>4. Parent[e] \in Below[x] /\ Parent[e] \in Below[y] /\ Parent[e] \in Stations
    BY <2>2, <2>3, Topology
  <2>5. Parent[e] \in Devices /\ Parent[e] \in Iab
    BY <2>1, <2>4, TopologyAssumption DEF Stations, Devices
  <2> QED BY <2>4, <2>5
<1>2. Both \in SUBSET Iab /\ \A e \in Both : Parent[e] \in Both
  BY <1>1, Topology
<1>3. Both = {}
  <2> HIDE DEF Both
  <2> QED BY <1>2, AscentEnds
<1> QED BY <1>1, <1>3

(***************************************************************************)
(* The inductive invariant.                                                *)
(***************************************************************************)

\* The parent of IAB node i forwards TEID t to it.
RoutedVia(i, t) ==
    HasTeid(Parent[i], t) /\ t \in teidRemote[Parent[i]] /\ NextHop(Parent[i], t) = i

\* A request on the air towards an IAB node went through the parent, which has
\* its TEIDs since.
GrantedFrame(d) ==
    {f \in DownlinkFrame :
        d \in Iab /\ f.pkt.type = "InitialContextSetupRequest" =>
            \A t \in Teids : t \in TeidsOf(f.pkt) => RoutedVia(d, t)}

GrantedQueues ==
    {f \in [Devices -> Seq(DownlinkFrame)] : \A d \in Devices : f[d] \in Seq(GrantedFrame(d))}

\* RouteClosedUpstream speaks of routes; a route is written from a request, so
\* the requests that are still on their way have to be spoken of as well.
ClosedInv == TrafficInv /\ RouteClosedUpstream /\ dlq \in GrantedQueues

LEMMA ClosedIsRoutedVia ==
    RouteClosedUpstream <=> \A i \in Iab, t \in Teids : HasTeid(i, t) => RoutedVia(i, t)
BY DEF RouteClosedUpstream, RoutedVia

LEMMA InitClosedInv == Init => ClosedInv
<1> SUFFICES ASSUME Init PROVE ClosedInv
  OBVIOUS
<1>1. TrafficInv
  BY InitTrafficInv
<1>2. RouteClosedUpstream
  BY Topology DEF Init, RouteClosedUpstream, HasTeid
<1>3. dlq \in GrantedQueues
  BY EmptyQueues DEF Init, GrantedQueues
<1> QED BY <1>1, <1>2, <1>3 DEF ClosedInv

LEMMA GrantedQueueStep ==
    ASSUME NEW f \in GrantedQueues, NEW d \in Devices
    PROVE  /\ f[d] # <<>> => /\ Head(f[d]) \in GrantedFrame(d)
                             /\ [f EXCEPT ![d] = Tail(@)] \in GrantedQueues
           /\ \A e \in GrantedFrame(d) : [f EXCEPT ![d] = Append(@, e)] \in GrantedQueues
<1>1. f \in [Devices -> Seq(DownlinkFrame)] /\ f[d] \in Seq(GrantedFrame(d))
  BY DEF GrantedQueues
<1>2. ASSUME NEW q \in Seq(GrantedFrame(d)) PROVE [f EXCEPT ![d] = q] \in GrantedQueues
  <2>1. q \in Seq(DownlinkFrame)
    BY SeqMonotonic DEF GrantedFrame
  <2> QED BY <1>1, <2>1 DEF GrantedQueues
<1> QED BY <1>1, <1>2, TakeQueue, AppendQueue

(***************************************************************************)
(* Routes through a cell stay.                                             *)
(***************************************************************************)

\* No route through a cell ends or turns.
ViaStays == \A i \in Iab, t \in Teids : RoutedVia(i, t) => RoutedVia(i, t)'

LEMMA GrantedStays ==
    ASSUME ViaStays PROVE GrantedQueues \subseteq GrantedQueues'
<1>1. \A d \in Devices : GrantedFrame(d) \subseteq GrantedFrame(d)'
  BY DEF ViaStays, GrantedFrame
<1> QED BY <1>1, SeqMonotonic DEF GrantedQueues

LEMMA ClosedStep ==
    ASSUME ClosedInv, TrafficInv', ViaStays, dlq' \in GrantedQueues',
           \A i \in Iab, t \in Teids : HasTeid(i, t)' => HasTeid(i, t) \/ RoutedVia(i, t)
    PROVE  ClosedInv'
<1>1. ASSUME NEW i \in Iab, NEW t \in Teids, HasTeid(i, t)' PROVE RoutedVia(i, t)'
  BY <1>1, ClosedIsRoutedVia DEF ClosedInv, ViaStays
<1>2. RouteClosedUpstream'
  BY <1>1 DEF RouteClosedUpstream, RoutedVia
<1> QED BY <1>2 DEF ClosedInv

\* Steps that leave the routes alone.
LEMMA SameRoutesVia ==
    ASSUME ClosedInv, Keeps, UNCHANGED <<teidRbid, teidRemote>>
    PROVE  /\ ViaStays
           /\ \A i \in Iab, t \in Teids : HasTeid(i, t)' => HasTeid(i, t)
<1> SUFFICES ASSUME NEW i \in Iab, NEW t \in Teids, RoutedVia(i, t) PROVE RoutedVia(i, t)'
  BY DEF ViaStays, HasTeid
<1>1. Parent[i] \in Stations /\ i \in Devices
  BY Topology
<1>2. teidRbid[Parent[i]][t].rnti \in Rntis
  BY <1>1 DEF RoutedVia, HasTeid, ClosedInv, TrafficInv, RouteInv, TypeInv, TypeOK, AppTypes, Rbid
<1> QED BY <1>1, <1>2 DEF RoutedVia, HasTeid, NextHop, Keeps

LEMMA SameTunnels ==
    ASSUME ClosedInv, TrafficInv', Keeps, UNCHANGED <<teidRbid, teidRemote>>,
           dlq' \in GrantedQueues
    PROVE  ClosedInv'
BY SameRoutesVia, GrantedStays, ClosedStep

LEMMA QuietTunnels ==
    ASSUME ClosedInv, TrafficInv', UNCHANGED <<session, appVars>>, dlq' \in GrantedQueues
    PROVE  ClosedInv'
<1>1. Keeps
  BY DEF Keeps, Allocated, appVars
<1> QED BY <1>1, SameTunnels DEF appVars

\* A device of a cell does not own a TEID the cell forwards.
LEMMA RemoteIsNotOwn ==
    ASSUME ClosedInv, NEW i \in Iab, NEW t \in Teids, RoutedVia(i, t)
    PROVE  /\ Owner(t) \in Below[i] /\ Owner(t) \in Devices
           /\ Parent[Owner(t)] # Parent[i] /\ Owner(t) \in remoteImsi[Parent[i]]
<1>1. Parent[i] \in Stations /\ i \in Devices /\ i \in Stations
  BY Topology
<1>2. Routed(Parent[i], t)
  BY <1>1, RoutedIsRoute DEF ClosedInv, TrafficInv, RouteInv
<1>3. Owner(t) \in Below[i]
  BY <1>2 DEF RoutedVia, Routed
<1>4. Owner(t) \in Devices
  BY <1>1, <1>3, Topology
<1>5. Owner(t) \in remoteImsi[Parent[i]]
  BY <1>1 DEF RoutedVia, ClosedInv, TrafficInv, RouteInv, MapInv, RemoteOwner
<1> QED BY <1>3, <1>4, <1>5, NotAttachedAbove

\* A route through a cell that is written again, or not at all.
LEMMA ViaKept ==
    ASSUME ClosedInv, Keeps, NEW i \in Iab, NEW t \in Teids, RoutedVia(i, t),
           teidRbid'[Parent[i]][t] = teidRbid[Parent[i]][t],
           teidRemote[Parent[i]] \subseteq teidRemote'[Parent[i]]
    PROVE  RoutedVia(i, t)'
<1>1. Parent[i] \in Stations /\ i \in Devices
  BY Topology
<1>2. teidRbid[Parent[i]][t].rnti \in Rntis
  BY <1>1 DEF RoutedVia, HasTeid, ClosedInv, TrafficInv, RouteInv, TypeInv, TypeOK, AppTypes, Rbid
<1> QED BY <1>1, <1>2 DEF RoutedVia, HasTeid, NextHop, Keeps

(***************************************************************************)
(* Packets.                                                                *)
(***************************************************************************)

\* Queues that hold what G allows each device.
QueuesOf(G) ==
    {f \in [Devices -> Seq(DownlinkFrame)] : \A d \in Devices : f[d] \in Seq(G[d])}

\* What a cell sends on a bearer goes to the device of its RNTI, or nowhere.
LEMMA SendWithin ==
    ASSUME ClosedInv, NEW b \in Stations, NEW rb \in Rbid, NEW p, NEW G, NEW q \in QueuesOf(G),
           \A d \in Devices : UeOf(b, rb.rnti) = d /\ rb.rnti \in Rntis /\ rb.bid \in Bids =>
               Frame(rb.rnti, rb.bid, p) \in G[d] \cap DownlinkFrame
    PROVE  SendToLteSocket(b, rb, p, q) \in QueuesOf(G)
<1> DEFINE u == ueMap[b][rb.rnti]
           e == Frame(rb.rnti, rb.bid, p)
<1>1. CASE SendToLteSocket(b, rb, p, q) = q
  BY <1>1
<1>2. CASE /\ u.state \in {"CONNECTED_NORMALLY", "CONNECTION_RECONFIGURATION"}
           /\ rb.bid \in 1 .. u.drbs
           /\ SendToLteSocket(b, rb, p, q) = [q EXCEPT ![u.ue] = Append(@, e)]
  <2>1. rb.rnti \in Rntis /\ rb.bid \in Bids
    <3>1. rb # NoRbid
      BY <1>2 DEF NoRbid
    <3> QED BY <3>1 DEF Rbid
  <2>2. u.ue \in Devices
    <3>1. UeKnown(b, rb.rnti) /\ u \in UeManager
      BY <2>1 DEF ClosedInv, TrafficInv, RouteInv, TypeInv, UeMapInv, TypeOK, CellTypes
    <3>2. u.ue # None
      BY <1>2, <3>1 DEF UeKnown, UeOf
    <3> HIDE DEF u
    <3> QED BY <3>1, <3>2 DEF UeManager
  <2>3. e \in G[u.ue] /\ e \in DownlinkFrame
    BY <2>1, <2>2 DEF UeOf
  <2> DEFINE d == u.ue
  <2>4. d \in Devices /\ e \in G[d] /\ e \in DownlinkFrame
    BY <2>2, <2>3
  <2>5. SendToLteSocket(b, rb, p, q) = [q EXCEPT ![d] = Append(@, e)]
    BY <1>2
  <2> HIDE DEF u, e, d
  <2>6. [q EXCEPT ![d] = Append(@, e)] \in QueuesOf(G)
    <3>1. q \in [Devices -> Seq(DownlinkFrame)] /\ q[d] \in Seq(G[d])
      BY <2>4 DEF QueuesOf
    <3>2. Append(q[d], e) \in Seq(DownlinkFrame) /\ Append(q[d], e) \in Seq(G[d])
      BY <2>4, <3>1, AppendProperties
    <3> QED BY <2>4, <3>1, <3>2 DEF QueuesOf
  <2> QED BY <2>5, <2>6
<1> QED BY <1>1, <1>2 DEF SendToLteSocket

LEMMA GrantedAreQueues ==
    /\ GrantedQueues = QueuesOf([d \in Devices |-> GrantedFrame(d)])
    /\ GrantedQueues' = QueuesOf([d \in Devices |-> GrantedFrame(d)'])
BY DEF GrantedQueues, QueuesOf

\* Data is no request.
LEMMA ForwardDownGranted ==
    ASSUME ClosedInv, NEW b \in Stations, NEW p \in DataPacket, NEW q \in GrantedQueues,
           ForwardDown(b, p, q)
    PROVE  dlq' \in GrantedQueues
<1> DEFINE t == p.teid
           p2 == [p EXCEPT !.teid = HeaderTeid(b, t)]
<1>1. CASE dlq' = q
  BY <1>1
<1>2. CASE /\ t \in Teids /\ teidRbid[b][t] # NoRbid
           /\ dlq' = SendToLteSocket(b, teidRbid[b][t], p2, q)
  <2>1. p2 \in DataPacket
    BY <1>2 DEF DataPacket, HeaderTeid
  <2>2. teidRbid[b][t] \in Rbid
    BY <1>2 DEF ClosedInv, TrafficInv, RouteInv, TypeInv, TypeOK, AppTypes
  <2> DEFINE rb == teidRbid[b][t]
  <2>3. rb \in Rbid /\ dlq' = SendToLteSocket(b, rb, p2, q)
    BY <1>2, <2>2
  <2> HIDE DEF p2, t, rb
  <2>4. ASSUME NEW d \in Devices, rb.rnti \in Rntis, rb.bid \in Bids
        PROVE  Frame(rb.rnti, rb.bid, p2) \in GrantedFrame(d)
    BY <2>1, <2>4 DEF Frame, GrantedFrame, DownlinkFrame, DownlinkPacket, DataPacket
  <2>5. SendToLteSocket(b, rb, p2, q) \in GrantedQueues
    <3> DEFINE G == [d \in Devices |-> GrantedFrame(d)]
    <3>1. q \in QueuesOf(G)
      BY GrantedAreQueues
    <3>2. ASSUME NEW d \in Devices, rb.rnti \in Rntis, rb.bid \in Bids
          PROVE  Frame(rb.rnti, rb.bid, p2) \in G[d] \cap DownlinkFrame
      BY <2>4, <3>2 DEF GrantedFrame
    <3> HIDE DEF G
    <3>3. SendToLteSocket(b, rb, p2, q) \in QueuesOf(G)
      BY <2>3, <3>1, <3>2, SendWithin
    <3> QED BY <3>3, GrantedAreQueues DEF G
  <2> QED BY <2>3, <2>5
<1> QED BY <1>1, <1>2 DEF ForwardDown, RecvFromS1uSocket

LEMMA HeadGranted ==
    ASSUME ClosedInv, NEW d \in Devices, dlq[d] # <<>>
    PROVE  /\ Head(dlq[d]) \in GrantedFrame(d) /\ Head(dlq[d]) \in RightFrame(d)
           /\ Head(dlq[d]) \in RequestFrame
           /\ [dlq EXCEPT ![d] = Tail(@)] \in GrantedQueues
BY HeadRight, GrantedQueueStep DEF ClosedInv

LEMMA TakenDownlinkTunnels ==
    ASSUME ClosedInv, TrafficInv', NEW d \in Devices,
           DropDownlink(d) \/ DeliverToUe(d) \/ LoseDownlink(d)
    PROVE  ClosedInv'
<1>1. /\ dlq[d] # <<>> /\ dlq' = [dlq EXCEPT ![d] = Tail(@)]
      /\ UNCHANGED <<appVars, coreVars>>
  BY DEF DropDownlink, DeliverToUe, LoseDownlink, Downlink
<1> QED BY <1>1, HeadGranted, QuietTunnels DEF coreVars

LEMMA IabRecvDataTunnels ==
    ASSUME ClosedInv, TrafficInv', NEW i \in Iab, IabRecvData(i)
    PROVE  ClosedInv'
<1> DEFINE p == Head(dlq[i]).pkt
           q == [dlq EXCEPT ![i] = Tail(@)]
<1>1. /\ dlq[i] # <<>> /\ p.type = "Data" /\ ForwardDown(i, p, q)
      /\ UNCHANGED <<appVars, coreVars>>
  BY DEF IabRecvData
<1>2. i \in Stations /\ i \in Devices
  BY Topology
<1>3. p \in DataPacket /\ q \in GrantedQueues
  BY <1>1, <1>2, HeadGranted DEF RequestFrame, Request, InitialContextSetupRequest
<1> HIDE DEF p, q
<1> QED BY <1>1, <1>2, <1>3, ForwardDownGranted, QuietTunnels DEF coreVars

LEMMA WiredRecvDataTunnels ==
    ASSUME ClosedInv, TrafficInv', NEW w \in Wired, WiredRecvData(w)
    PROVE  ClosedInv'
<1> DEFINE p == Head(s1uDown[w])
<1>1. /\ s1uDown[w] # <<>> /\ ForwardDown(w, p, dlq)
      /\ UNCHANGED <<appVars, session>>
  BY DEF WiredRecvData
<1>2. w \in Stations /\ s1uDown \in [Wired -> Seq(DataPacket)] /\ dlq \in GrantedQueues
  BY Topology DEF ClosedInv, TrafficInv, RouteInv, TypeInv, TypeOK, CoreTypes
<1>3. p \in DataPacket
  BY <1>1, <1>2, TakeQueue
<1> HIDE DEF p
<1> QED BY <1>1, <1>2, <1>3, ForwardDownGranted, QuietTunnels

(***************************************************************************)
(* Context setup and release, with the step of TunnelTree they take.       *)
(***************************************************************************)

\* The TEIDs of a request are all those of one request of TunnelTree.
LEMMA RequestOfTree ==
    ASSUME TypeInv, NEW m \in Request
    PROVE  Tunnels!IsRequest(m.imsi, TeidsOf(m)) /\ TeidsOf(m) \in SUBSET Teids
<1> USE Topology
<1>1. PICK first \in 0 .. Len(session) : Granted(m, first)
  BY DEF Request
<1> DEFINE n == NumBearers[m.imsi]
<1>2. m.imsi \in Devices
  BY DEF Request, InitialContextSetupRequest
<1>3. n \in Nat /\ Len(session) \in Nat /\ first \in Nat
  BY <1>2, LenProperties DEF Bids, TypeInv, TypeOK, CoreTypes
<1>4. /\ first + n <= Len(session) /\ m.erabs = {<<j, first + j>> : j \in 1 .. n}
      /\ \A j \in 1 .. n : session[first + j] = [imsi |-> m.imsi, bid |-> j]
  BY <1>1 DEF Granted
<1>5. TeidsOf(m) \in SUBSET Teids
  BY RequestBearers
<1> HIDE DEF n
<1>6. TeidsOf(m) = first + 1 .. first + n
  <2>1. ASSUME NEW t \in TeidsOf(m) PROVE t \in first + 1 .. first + n
    <3>1. PICK j \in 1 .. n : t = first + j
      BY <1>4 DEF TeidsOf
    <3> QED BY <1>3, <3>1
  <2>2. ASSUME NEW t \in first + 1 .. first + n PROVE t \in TeidsOf(m)
    <3>1. t - first \in 1 .. n /\ t = first + (t - first)
      BY <1>3
    <3>2. <<t - first, t>> \in m.erabs
      BY <1>4, <3>1
    <3> QED BY <3>2 DEF TeidsOf
  <2> QED BY <2>1, <2>2
<1>7. ASSUME NEW t \in TeidsOf(m)
      PROVE  t <= Len(session) /\ session[t] = [imsi |-> m.imsi, bid |-> t - first]
  <2>1. t - first \in 1 .. n /\ t = first + (t - first)
    BY <1>3, <1>6
  <2> QED BY <1>3, <1>4, <2>1
<1> QED BY <1>5, <1>6, <1>7 DEF Tunnels!IsRequest, n

\* The two modules speak of the same tree.
LEMMA SameTree ==
    /\ Tunnels!Stations = Stations /\ Tunnels!Devices = Devices /\ Tunnels!Teids = Teids
BY DEF Tunnels!Stations, Stations, Tunnels!Devices, Devices, Tunnels!Teids, Teids

\* A step of the program is a step of TunnelTree, or leaves the tunnels alone.
TreeStep == [Tunnels!Next]_(Tunnels!vars)

LEMMA TreeSame ==
    ASSUME UNCHANGED <<session, teidRbid>> PROVE TreeStep
BY DEF TreeStep, Tunnels!vars, HasTeid

LEMMA TreeOpen ==
    ASSUME UNCHANGED teidRbid, NEW d \in Devices,
           session' = session \o [k \in 1 .. NumBearers[d] |-> [imsi |-> d, bid |-> k]]
    PROVE  TreeStep
<1>1. Tunnels!Open(d)
  BY DEF Tunnels!Open, HasTeid
<1> QED BY <1>1, SameTree DEF TreeStep, Tunnels!Next

LEMMA TreeExtend ==
    ASSUME UNCHANGED session, NEW b \in Stations, NEW d \in Below[b], d \in Devices,
           NEW S \in SUBSET Teids, Tunnels!IsRequest(d, S),
           b \in Iab => \A t \in S : HasTeid(Parent[b], t),
           \A x \in Stations, t \in Teids : HasTeid(x, t)' <=> HasTeid(x, t) \/ (x = b /\ t \in S)
    PROVE  TreeStep
<1> DEFINE Held(x) == {t \in Teids : HasTeid(x, t)}
<1>1. b \in Iab => S \subseteq [x \in Stations |-> Held(x)][Parent[b]]
  BY Topology
<1>2. \A x \in Stations : Held(x)' = IF x = b THEN Held(x) \cup S ELSE Held(x)
  OBVIOUS
<1>3. [x \in Stations |-> Held(x)'] =
         [[x \in Stations |-> Held(x)] EXCEPT ![b] = @ \cup S]
  <2> HIDE DEF Held
  <2> QED BY <1>2
<1>4. Tunnels!Extend(b, d, S)
  BY <1>1, <1>3 DEF Tunnels!Extend
<1> QED BY <1>4, SameTree DEF TreeStep, Tunnels!Next

LEMMA TreeWithdraw ==
    ASSUME UNCHANGED session, NEW b \in Stations, NEW S \in SUBSET Teids,
           \A t \in S : HasTeid(b, t) /\ Parent[Owner(t)] = b,
           \A x \in Stations, t \in Teids : HasTeid(x, t)' <=> HasTeid(x, t) /\ ~(x = b /\ t \in S)
    PROVE  TreeStep
<1> DEFINE Held(x) == {t \in Teids : HasTeid(x, t)}
<1>1. S \in SUBSET [x \in Stations |-> Held(x)][b]
  OBVIOUS
<1>2. \A x \in Stations : Held(x)' = IF x = b THEN Held(x) \ S ELSE Held(x)
  OBVIOUS
<1>3. [x \in Stations |-> Held(x)'] =
         [[x \in Stations |-> Held(x)] EXCEPT ![b] = @ \ S]
  <2> HIDE DEF Held
  <2> QED BY <1>2
<1>4. \A t \in S : Parent[Tunnels!Owner(t)] = b
  BY DEF Tunnels!Owner, Owner
<1>5. Tunnels!Withdraw(b, S)
  BY <1>3, <1>4 DEF Tunnels!Withdraw
<1> QED BY <1>1, <1>5, SameTree DEF TreeStep, Tunnels!Next

\* A cell that serves the device writes routes of its own.
LEMMA SetupContextTunnels ==
    ASSUME ClosedInv, TrafficInv', NEW b \in Stations, NEW m \in Request,
           m.imsi \notin remoteImsi[b], NEW q \in GrantedQueues, UNCHANGED session,
           b \in Iab => \A t \in Teids : t \in TeidsOf(m) => RoutedVia(b, t),
           SetupContext(b, m, q)
    PROVE  ClosedInv' /\ TreeStep
<1> DEFINE d == m.imsi
           r == imsiRnti[b][d]
           S == TeidsOf(m)
           routes == [t \in Teids |-> IF t \in S THEN [rnti |-> r, bid |-> BidOf(m, t)]
                                      ELSE teidRbid[b][t]]
<1> USE Topology
<1>1. CASE dlq' = q /\ UNCHANGED appVars
  BY <1>1, QuietTunnels, TreeSame DEF appVars
<1>2. CASE /\ r # 0 /\ dlq' = q
           /\ teidRbid' = [teidRbid EXCEPT ![b] = routes]
           /\ UNCHANGED <<rntiLocalImsi, teidRemote>>
  <2>1. d \in Devices /\ Tunnels!IsRequest(d, S) /\ S \in SUBSET Teids
    BY RequestBearers, RequestOfTree DEF ClosedInv, TrafficInv, RouteInv, Request
  <2>2. \A t \in S : t \in Teids /\ Owner(t) = d
    BY RequestOwner DEF ClosedInv, TrafficInv, RouteInv
  <2>3. r \in Rntis /\ Parent[d] = b
    <3>1. r \in Rntis /\ rntiLocalImsi[b][r] = d
      <4>1. imsiRnti \in [Stations -> [Devices -> Rntis \cup {0}]]
        BY DEF ClosedInv, TrafficInv, RouteInv, TypeInv, TypeOK, AppTypes
      <4>2. Mapped(b, d)
        BY <2>1 DEF ClosedInv, TrafficInv, RouteInv, MapInv
      <4>3. r = imsiRnti[b][d] /\ d \notin remoteImsi[b]
        OBVIOUS
      <4> HIDE DEF r, d, S, routes
      <4>4. r # 0
        BY <1>2
      <4> QED BY <2>1, <4>1, <4>2, <4>3, <4>4 DEF Mapped
    <3> HIDE DEF r, d
    <3>2. UeKnown(b, r)
      BY <3>1 DEF ClosedInv, TrafficInv, RouteInv, TypeInv, UeMapInv
    <3> QED BY <2>1, <3>1, <3>2 DEF UeKnown
  <2>4. d \in Below[b]
    BY <2>1, <2>3, TopologyAssumption
  <2>5. Keeps
    BY <1>2 DEF Keeps, Allocated
  <2>6. teidRbid \in [Stations -> [Teids -> Rbid]]
    BY DEF ClosedInv, TrafficInv, RouteInv, TypeInv, TypeOK, AppTypes
  <2>7. \A x \in Stations, t \in Teids :
           teidRbid'[x][t] = IF x = b /\ t \in S
                             THEN [rnti |-> r, bid |-> BidOf(m, t)] ELSE teidRbid[x][t]
    BY <1>2, <2>6
  <2> HIDE DEF routes, d, S, r
  <2>8. \A x \in Stations, t \in Teids : HasTeid(x, t)' <=> HasTeid(x, t) \/ (x = b /\ t \in S)
    <3>1. \A t \in Teids : [rnti |-> r, bid |-> BidOf(m, t)] # NoRbid
      <4>1. r # 0
        BY <1>2
      <4> QED BY <4>1 DEF NoRbid
    <3> SUFFICES ASSUME NEW x \in Stations, NEW t \in Teids
                 PROVE  HasTeid(x, t)' <=> HasTeid(x, t) \/ (x = b /\ t \in S)
      OBVIOUS
    <3>2. CASE x = b /\ t \in S
      <4>1. teidRbid'[x][t] = [rnti |-> r, bid |-> BidOf(m, t)]
        BY <2>7, <3>2
      <4>2. teidRbid'[x][t] # NoRbid
        BY <3>1, <4>1
      <4> QED BY <3>2, <4>2 DEF HasTeid
    <3>3. CASE ~(x = b /\ t \in S)
      <4>1. teidRbid'[x][t] = teidRbid[x][t]
        BY <2>7, <3>3
      <4> QED BY <3>3, <4>1 DEF HasTeid
    <3> QED BY <3>2, <3>3
  <2>9. ViaStays
    <3> SUFFICES ASSUME NEW i \in Iab, NEW t \in Teids, RoutedVia(i, t) PROVE RoutedVia(i, t)'
      BY DEF ViaStays
    <3>1. ~(Parent[i] = b /\ t \in S)
      BY <2>2, RemoteIsNotOwn DEF d
    <3>2. teidRbid'[Parent[i]][t] = teidRbid[Parent[i]][t]
      BY <2>7, <3>1
    <3> QED BY <1>2, <2>5, <3>2, ViaKept
  <2>10. b \in Iab => \A t \in S : RoutedVia(b, t)
    BY <2>1 DEF S
  <2>11. \A i \in Iab, t \in Teids : HasTeid(i, t)' => HasTeid(i, t) \/ RoutedVia(i, t)
    BY <2>8, <2>10
  <2>12. ClosedInv'
    BY <1>2, <2>9, <2>11, GrantedStays, ClosedStep
  <2>13. TreeStep
    BY <2>1, <2>4, <2>8, <2>10, TreeExtend DEF RoutedVia
  <2> QED BY <2>12, <2>13
<1> QED BY <1>1, <1>2 DEF SetupContext, AbortContextSetup

\* A cell that is on the way routes the TEIDs to its child, and passes the
\* request on with them.
LEMMA ForwardIabS1apReplyTunnels ==
    ASSUME ClosedInv, TrafficInv', NEW b \in Stations, NEW m \in Request,
           NEW q \in GrantedQueues, UNCHANGED session,
           b \in Iab => \A t \in Teids : t \in TeidsOf(m) => RoutedVia(b, t),
           ForwardIabS1apReply(b, m, q)
    PROVE  ClosedInv' /\ TreeStep
<1> DEFINE d  == m.imsi
           S  == TeidsOf(m)
           rb == imsiLocalRbid[b][d]
           routes == [t \in Teids |-> IF t \in ForwardedTeids(m) THEN rb ELSE teidRbid[b][t]]
<1> USE Topology
<1>1. CASE dlq' = q /\ UNCHANGED appVars
  BY <1>1, QuietTunnels, TreeSame DEF appVars
<1>2. CASE /\ rb # NoRbid
           /\ teidRbid' = [teidRbid EXCEPT ![b] = routes]
           /\ teidRemote' = [teidRemote EXCEPT ![b] = MarkedRemote(b, m)]
           /\ dlq' = SendToLteSocket(b, rb, m, q)
           /\ UNCHANGED rntiLocalImsi
  <2>1. d \in Devices /\ Tunnels!IsRequest(d, S) /\ S \in SUBSET Teids
    BY RequestBearers, RequestOfTree DEF ClosedInv, TrafficInv, RouteInv, Request
  <2>2. \A t \in S : t \in Teids /\ Owner(t) = d
    BY RequestOwner DEF ClosedInv, TrafficInv, RouteInv
  <2>3. PICK c \in Iab : c = rntiLocalImsi[b][rb.rnti] /\ Parent[c] = b /\ d \in Below[c]
    <3>1. Mapped(b, d)
      BY <2>1 DEF ClosedInv, TrafficInv, RouteInv, MapInv
    <3> HIDE DEF routes, S, d
    <3> QED BY <1>2, <3>1 DEF Mapped
  <2>4. d \in Below[b]
    BY <2>1, <2>3, BelowClosed
  <2>5. Keeps
    BY <1>2 DEF Keeps, Allocated
  <2>6. /\ teidRbid \in [Stations -> [Teids -> Rbid]]
        /\ teidRemote \in [Stations -> SUBSET Teids] /\ rb \in Rbid
    BY <2>1 DEF ClosedInv, TrafficInv, RouteInv, TypeInv, TypeOK, AppTypes
  <2>7. \A x \in Stations, t \in Teids :
           IF x = b /\ t \in S
           THEN teidRbid'[x][t] = rb /\ t \in teidRemote'[x]
           ELSE teidRbid'[x][t] = teidRbid[x][t] /\ (t \in teidRemote'[x] <=> t \in teidRemote[x])
    BY <1>2, <2>6 DEF ForwardedTeids, MarkedRemote
  <2> HIDE DEF routes, d, S, rb
  <2>8. \A x \in Stations, t \in Teids : HasTeid(x, t)' <=> HasTeid(x, t) \/ (x = b /\ t \in S)
    BY <1>2, <2>7 DEF HasTeid
  <2>9. ASSUME NEW t \in S PROVE RoutedVia(c, t)'
    <3>1. teidRbid'[b][t] = rb /\ t \in teidRemote'[b] /\ HasTeid(b, t)'
      BY <2>2, <2>7, <2>8
    <3>2. NextHop(b, t)' = c
      BY <1>2, <2>3, <3>1 DEF NextHop
    <3> QED BY <2>3, <3>1, <3>2 DEF RoutedVia, HasTeid, NextHop
  <2>10. ViaStays
    <3> SUFFICES ASSUME NEW i \in Iab, NEW t \in Teids, RoutedVia(i, t) PROVE RoutedVia(i, t)'
      BY DEF ViaStays
    <3>1. CASE Parent[i] = b /\ t \in S
      <4>1. d \in Below[i]
        BY <2>2, <3>1, RemoteIsNotOwn
      <4>2. i = c
        BY <2>1, <2>3, <3>1, <4>1, OneBranch
      <4> QED BY <2>9, <3>1, <4>2
    <3>2. CASE ~(Parent[i] = b /\ t \in S)
      <4>1. teidRbid'[Parent[i]][t] = teidRbid[Parent[i]][t]
        BY <2>7, <3>2
      <4>2. teidRemote[Parent[i]] \subseteq teidRemote'[Parent[i]]
        BY <2>6, <2>7
      <4> QED BY <2>5, <4>1, <4>2, ViaKept
    <3> QED BY <3>1, <3>2
  <2>11. b \in Iab => \A t \in S : RoutedVia(b, t)
    BY <2>1 DEF S
  <2>12. \A i \in Iab, t \in Teids : HasTeid(i, t)' => HasTeid(i, t) \/ RoutedVia(i, t)
    BY <2>8, <2>11
  <2>13. dlq' \in GrantedQueues'
    <3> DEFINE G == [x \in Devices |-> GrantedFrame(x)']
    <3>1. q \in QueuesOf(G)
      BY <2>10, GrantedStays, GrantedAreQueues
    <3>2. ASSUME NEW x \in Devices, UeOf(b, rb.rnti) = x, rb.rnti \in Rntis, rb.bid \in Bids
          PROVE  Frame(rb.rnti, rb.bid, m) \in G[x] \cap DownlinkFrame
      <4>1. x = c
        <5>1. UeKnown(b, rb.rnti)
          BY <3>2 DEF ClosedInv, TrafficInv, RouteInv, TypeInv, UeMapInv
        <5> QED BY <2>3, <3>2, <5>1 DEF UeKnown
      <4>2. Frame(rb.rnti, rb.bid, m) \in DownlinkFrame
        BY <3>2 DEF Frame, DownlinkFrame, DownlinkPacket, Request
      <4>3. Frame(rb.rnti, rb.bid, m).pkt = m
        BY DEF Frame
      <4>4. Frame(rb.rnti, rb.bid, m) \in GrantedFrame(c)'
        BY <2>9, <4>2, <4>3 DEF GrantedFrame, S
      <4> QED BY <4>1, <4>2, <4>4
    <3> HIDE DEF G
    <3>3. SendToLteSocket(b, rb, m, q) \in QueuesOf(G)
      BY <2>6, <3>1, <3>2, SendWithin
    <3> QED BY <1>2, <3>3, GrantedAreQueues DEF G
  <2>14. ClosedInv'
    BY <2>10, <2>12, <2>13, ClosedStep
  <2>15. TreeStep
    BY <2>1, <2>4, <2>8, <2>11, TreeExtend DEF RoutedVia
  <2> QED BY <2>14, <2>15
<1> QED BY <1>1, <1>2 DEF ForwardIabS1apReply, AbortContextSetup

LEMMA RecvFromS1apSocketTunnels ==
    ASSUME ClosedInv, TrafficInv', NEW b \in Stations, NEW m \in Request,
           NEW q \in GrantedQueues, UNCHANGED session,
           b \in Iab => \A t \in Teids : t \in TeidsOf(m) => RoutedVia(b, t),
           RecvFromS1apSocket(b, m, q)
    PROVE  ClosedInv' /\ TreeStep
BY ForwardIabS1apReplyTunnels, SetupContextTunnels DEF RecvFromS1apSocket

LEMMA WiredRecvS1apTunnels ==
    ASSUME ClosedInv, TrafficInv', NEW w \in Wired, WiredRecvS1ap(w)
    PROVE  ClosedInv' /\ TreeStep
<1> DEFINE m == Head(s1Down[w])
<1>1. s1Down[w] # <<>> /\ RecvFromS1apSocket(w, m, dlq) /\ UNCHANGED session
  BY DEF WiredRecvS1ap
<1>2. /\ w \in Stations /\ w \notin Iab
      /\ s1Down \in [Wired -> Seq(Request)] /\ dlq \in GrantedQueues
  BY Topology DEF ClosedInv, TrafficInv, RouteInv, TypeInv, QueueInv, Requests
<1>3. m \in Request
  BY <1>1, <1>2, TakeQueue
<1> HIDE DEF m
<1> QED BY <1>1, <1>2, <1>3, RecvFromS1apSocketTunnels

LEMMA IabRecvS1apTunnels ==
    ASSUME ClosedInv, TrafficInv', NEW i \in Iab, IabRecvS1ap(i)
    PROVE  ClosedInv' /\ TreeStep
<1> DEFINE f == Head(dlq[i])
           m == f.pkt
           q == [dlq EXCEPT ![i] = Tail(@)]
<1>1. /\ dlq[i] # <<>> /\ m.type = "InitialContextSetupRequest"
      /\ RecvFromS1apSocket(i, m, q) /\ UNCHANGED session
  BY DEF IabRecvS1ap, coreVars
<1>2. i \in Stations /\ i \in Devices
  BY Topology
<1>3. f \in RequestFrame /\ f \in GrantedFrame(i) /\ q \in GrantedQueues
  BY <1>1, <1>2, HeadGranted
<1>4. m \in Request
  BY <1>1, <1>3 DEF RequestFrame, DataPacket
<1>5. \A t \in Teids : t \in TeidsOf(m) => RoutedVia(i, t)
  BY <1>1, <1>3 DEF GrantedFrame
<1> HIDE DEF f, m, q
<1> QED BY <1>1, <1>2, <1>3, <1>4, <1>5, RecvFromS1apSocketTunnels

\* A cell that releases a context forgets TEIDs of its own devices.
LEMMA RemoveUeTunnels ==
    ASSUME ClosedInv, TrafficInv', NEW b \in Stations, NEW r \in Rntis, RemoveUe(b, r)
    PROVE  ClosedInv' /\ TreeStep
<1> DEFINE S == {t \in Teids : HasTeid(b, t) /\ t \in ReleasedTeids(b, r)}
<1>1. /\ teidRbid' = [teidRbid EXCEPT ![b] =
                        [t \in Teids |-> IF t \in ReleasedTeids(b, r) THEN NoRbid ELSE @[t]]]
      /\ UNCHANGED <<session, rntiLocalImsi, teidRemote, dlq>>
  BY DEF RemoveUe, coreVars
<1>2. teidRbid \in [Stations -> [Teids -> Rbid]]
  BY DEF ClosedInv, TrafficInv, RouteInv, TypeInv, TypeOK, AppTypes
<1>3. \A x \in Stations, t \in Teids :
         teidRbid'[x][t] = IF x = b /\ t \in ReleasedTeids(b, r) THEN NoRbid ELSE teidRbid[x][t]
  BY <1>1, <1>2
<1>4. ASSUME NEW t \in Teids, t \in ReleasedTeids(b, r) PROVE Parent[Owner(t)] = b
  <2>1. PICK k \in Bids : t = rbidTeid[b][r][k]
    BY <1>4 DEF ReleasedTeids
  <2>2. t # 0
    BY Topology DEF Teids
  <2>3. Tunnelled(b, r, k) /\ UeKnown(b, r)
    BY DEF ClosedInv, TrafficInv, TunnelInv, RouteInv, TypeInv, UeMapInv
  <2>4. rntiLocalImsi[b][r] \in Devices /\ session[t] = [imsi |-> rntiLocalImsi[b][r], bid |-> k]
    BY <2>1, <2>2, <2>3 DEF Tunnelled
  <2>5. Owner(t) = rntiLocalImsi[b][r]
    BY <2>4 DEF Owner
  <2> QED BY <2>3, <2>4, <2>5, Topology DEF UeKnown
<1>5. Keeps
  BY <1>1 DEF Keeps, Allocated
<1>6. ViaStays
  <2> SUFFICES ASSUME NEW i \in Iab, NEW t \in Teids, RoutedVia(i, t) PROVE RoutedVia(i, t)'
    BY DEF ViaStays
  <2>1. ~(Parent[i] = b /\ t \in ReleasedTeids(b, r))
    BY <1>4, RemoteIsNotOwn
  <2>2. Parent[i] \in Stations
    BY Topology
  <2>3. teidRbid'[Parent[i]][t] = teidRbid[Parent[i]][t]
    BY <1>3, <2>1, <2>2
  <2> QED BY <1>1, <1>5, <2>3, ViaKept
<1>7. \A x \in Stations, t \in Teids : HasTeid(x, t)' <=> HasTeid(x, t) /\ ~(x = b /\ t \in S)
  BY <1>3 DEF HasTeid
<1>8. ClosedInv'
  <2>1. Iab \subseteq Stations
    BY Topology
  <2>2. dlq' \in GrantedQueues'
    BY <1>1, <1>6, GrantedStays DEF ClosedInv
  <2> QED BY <1>6, <1>7, <2>1, <2>2, ClosedStep
<1>9. S \in SUBSET Teids /\ \A t \in S : HasTeid(b, t) /\ Parent[Owner(t)] = b
  BY <1>4
<1> HIDE DEF S
<1>10. TreeStep
  BY <1>1, <1>7, <1>9, TreeWithdraw, SMTT(30)
<1> QED BY <1>8, <1>10

\* The SGW allocates TEIDs nobody routes.
LEMMA MmeRecvInitialUeMessageTunnels ==
    ASSUME ClosedInv, TrafficInv', NEW w \in Wired, MmeRecvInitialUeMessage(w)
    PROVE  ClosedInv' /\ TreeStep
<1> DEFINE d == Head(s1Up[w]).imsi
           n == NumBearers[d]
<1>1. /\ s1Up[w] # <<>> /\ UNCHANGED <<appVars, dlq>>
      /\ \/ session' = session
         \/ session' = session \o [k \in 1 .. n |-> [imsi |-> d, bid |-> k]]
  BY DEF MmeRecvInitialUeMessage
<1>2. dlq' \in GrantedQueues
  BY <1>1 DEF ClosedInv
<1>3. CASE session' = session
  BY <1>1, <1>2, <1>3, QuietTunnels, TreeSame DEF appVars
<1>4. CASE session' = session \o [k \in 1 .. n |-> [imsi |-> d, bid |-> k]]
  <2>1. d \in Devices
    <3>1. Head(s1Up[w]) \in InitialUeMessage
      BY <1>1, TakeQueue DEF ClosedInv, TrafficInv, RouteInv, TypeInv, TypeOK, CoreTypes
    <3> QED BY <3>1 DEF InitialUeMessage
  <2> HIDE DEF d
  <2>2. TreeStep
    BY <1>1, <1>4, <2>1, TreeOpen DEF appVars
  <2>3. Keeps
    BY MmeRecvInitialUeMessageKeeps DEF ClosedInv, TrafficInv, RouteInv
  <2>4. ClosedInv'
    BY <1>1, <1>2, <2>3, SameTunnels DEF appVars
  <2> QED BY <2>2, <2>4
<1> QED BY <1>1, <1>3, <1>4

LEMMA ClosedInvStep == ClosedInv /\ [Next]_vars => ClosedInv' /\ TreeStep
<1> SUFFICES ASSUME ClosedInv, [Next]_vars PROVE ClosedInv' /\ TreeStep
  OBVIOUS
<1>1. TrafficInv'
  BY TrafficInvStep DEF ClosedInv
<1>2. ASSUME UNCHANGED <<session, appVars, dlq>> PROVE ClosedInv' /\ TreeStep
  BY <1>1, <1>2, QuietTunnels, TreeSame DEF appVars, ClosedInv
<1>3. ASSUME NEW d \in Devices, Connect(d) PROVE ClosedInv' /\ TreeStep
  <2>1. CASE RecvConnectionRequest(d)
    <3>1. Keeps
      BY <2>1, RecvConnectionRequestKeeps DEF ClosedInv, TrafficInv, RouteInv
    <3>2. UNCHANGED <<session, teidRbid, teidRemote, dlq>>
      BY <2>1 DEF RecvConnectionRequest
    <3> QED BY <1>1, <3>1, <3>2, SameTunnels, TreeSame DEF ClosedInv
  <2>2. CASE \/ RandomAccess(d) \/ RecvConnectionSetup(d) \/ RecvConnectionSetupCompleted(d)
             \/ RecvReconfiguration(d) \/ RecvReconfigurationCompleted(d)
    <3>1. UNCHANGED <<session, appVars, dlq>>
      BY <2>2 DEF RandomAccess, RecvConnectionSetup, RecvConnectionSetupCompleted,
                  RecvReconfiguration, RecvReconfigurationCompleted, coreVars
    <3> QED BY <1>2, <3>1
  <2> QED BY <1>3, <2>1, <2>2 DEF Connect
<1>4. ASSUME NEW d \in Devices, Uplink(d) PROVE ClosedInv' /\ TreeStep
  <2>1. CASE RelayInitialUeMessage(d)
    <3>1. UNCHANGED <<session, rntiLocalImsi, teidRbid, teidRemote, dlq>>
      BY <2>1 DEF RelayInitialUeMessage
    <3>2. Keeps
      BY <3>1 DEF Keeps, Allocated
    <3> QED BY <1>1, <3>1, <3>2, SameTunnels, TreeSame DEF ClosedInv
  <2>2. CASE RelayData(d) \/ RecvUeData(d)
    <3>1. UNCHANGED <<session, appVars, dlq>>
      BY <2>2 DEF RelayData, RecvUeData, coreVars
    <3> QED BY <1>2, <3>1
  <2> QED BY <1>4, <2>1, <2>2 DEF Uplink
<1>5. ASSUME NEW d \in Devices, DownlinkStep(d) \/ LoseDownlink(d)
      PROVE  ClosedInv' /\ TreeStep
  <2>1. CASE DropDownlink(d) \/ DeliverToUe(d) \/ LoseDownlink(d)
    <3>1. UNCHANGED <<session, teidRbid>>
      BY <2>1 DEF DropDownlink, DeliverToUe, LoseDownlink, coreVars, appVars
    <3> QED BY <1>1, <2>1, <3>1, TakenDownlinkTunnels, TreeSame
  <2>2. CASE IabRecvS1ap(d)
    BY <1>1, <2>2, IabRecvS1apTunnels DEF IabRecvS1ap
  <2>3. CASE IabRecvData(d)
    <3>1. d \in Iab /\ UNCHANGED <<session, teidRbid>>
      BY <2>3 DEF IabRecvData, coreVars, appVars
    <3> QED BY <1>1, <2>3, <3>1, IabRecvDataTunnels, TreeSame
  <2> QED BY <1>5, <2>1, <2>2, <2>3 DEF DownlinkStep
<1>6. ASSUME NEW d \in Devices, ConnectionTimeout(d) \/ LoseUplink(d)
      PROVE  ClosedInv' /\ TreeStep
  <2>1. UNCHANGED <<session, appVars, dlq>>
    BY <1>6 DEF ConnectionTimeout, LoseUplink, coreVars
  <2> QED BY <1>2, <2>1
<1>7. ASSUME NEW w \in Wired, Wireline(w) \/ MmeRecvInitialUeMessage(w)
      PROVE  ClosedInv' /\ TreeStep
  <2>1. CASE WiredRecvData(w)
    <3>1. UNCHANGED <<session, teidRbid>>
      BY <2>1 DEF WiredRecvData, appVars
    <3> QED BY <1>1, <2>1, <3>1, WiredRecvDataTunnels, TreeSame
  <2>2. CASE WiredRecvS1ap(w) \/ MmeRecvInitialUeMessage(w)
    BY <1>1, <2>2, WiredRecvS1apTunnels, MmeRecvInitialUeMessageTunnels
  <2> QED BY <1>7, <2>1, <2>2 DEF Wireline
<1>8. ASSUME NEW b \in Stations, NEW r \in Rntis, RemoveUe(b, r) PROVE ClosedInv' /\ TreeStep
  BY <1>1, <1>8, RemoveUeTunnels
<1>9. ASSUME NEW u \in Ue, NEW k \in Bids, UeSend(u, k) \/ SgwRecvFromInternet(u, k)
      PROVE  ClosedInv' /\ TreeStep
  <2>1. UNCHANGED <<session, appVars, dlq>>
    BY <1>9 DEF UeSend, SgwRecvFromInternet, coreVars
  <2> QED BY <1>2, <2>1
<1>10. CASE UNCHANGED vars
  <2>1. UNCHANGED <<session, appVars, dlq>>
    BY <1>10 DEF vars, coreVars
  <2> QED BY <1>2, <2>1
<1> QED BY <1>3, <1>4, <1>5, <1>6, <1>7, <1>8, <1>9, <1>10 DEF Next

(***************************************************************************)
(* The theorems.                                                           *)
(***************************************************************************)

\* RouteClosedUpstream in every deployment: the tunnel of a TEID is whole from
\* the cell that has it to the wired gNB, because a request is passed on only
\* by a cell that has just written its routes (DoForwardIabS1apReply), and no
\* cell ever unwrites or turns a route to a child.
THEOREM WholeUpstream == Spec => []RouteClosedUpstream
<1>1. Init => ClosedInv
  BY InitClosedInv
<1>2. ClosedInv /\ [Next]_vars => ClosedInv'
  BY ClosedInvStep
<1>3. ClosedInv => RouteClosedUpstream
  BY DEF ClosedInv
<1> QED BY <1>1, <1>2, <1>3, PTL DEF Spec

\* TunnelsGrowDownwards in every deployment: seen through the TEIDs its cells
\* route, the program is TunnelTree, whose tunnels grow from the wired gNB
\* down, a request at a time (InitialContextSetupRequest hop by hop), and lose
\* only TEIDs at the cell that serves the device (UeContextRelease).
THEOREM ImplementsTunnelTree == Spec => TunnelsGrowDownwards
<1>1. Init => ClosedInv
  BY InitClosedInv
<1>2. ClosedInv /\ [Next]_vars => ClosedInv' /\ [Tunnels!Next]_(Tunnels!vars)
  BY ClosedInvStep DEF TreeStep
<1>3. Init => Tunnels!Init
  BY DEF Init, Tunnels!Init, HasTeid, Tunnels!Stations, Stations
<1> QED BY <1>1, <1>2, <1>3, PTL DEF Spec, TunnelsGrowDownwards, Tunnels!Spec

(***************************************************************************)
(* Branches.                                                               *)
(***************************************************************************)

\* A device whose requests cell b forwards: its RNTI is that of an IAB child
\* it is behind, which the cell has counted.
Forwarded(b, d) ==
    LET r == imsiRnti[b][d]
        c == rntiLocalImsi[b][r]
    IN  d \in remoteImsi[b] =>
           /\ r \in Rntis /\ imsiLocalRbid[b][d].rnti = r
           /\ c \in Iab /\ Parent[c] = b /\ d \in Below[c]
           /\ c \in children[b][r]

\* ChildrenAreDownstream for one RNTI.
Counted(b, r) ==
    LET c == rntiLocalImsi[b][r] IN
    children[b][r] # {} => /\ c \in children[b][r]
                           /\ children[b][r] \ {c} \subseteq Below[c]

\* The notes are written from an InitialUeMessage on the air, so its parents
\* have to be right (OnBranch, in TrafficInv), and from the RNTI it came on.
BranchInv ==
    /\ TrafficInv
    /\ \A b \in Stations, d \in Devices : Forwarded(b, d)
    /\ \A b \in Stations, r \in Rntis : Counted(b, r)

LEMMA InitBranchInv == Init => BranchInv
<1> SUFFICES ASSUME Init PROVE BranchInv
  OBVIOUS
<1>1. TrafficInv
  BY InitTrafficInv
<1>2. ASSUME NEW b \in Stations, NEW d \in Devices PROVE Forwarded(b, d)
  BY DEF Init, Forwarded
<1>3. ASSUME NEW b \in Stations, NEW r \in Rntis PROVE Counted(b, r)
  BY DEF Init, Counted
<1> QED BY <1>1, <1>2, <1>3 DEF BranchInv

\* A note stays while the maps it speaks of do, and children are added.
LEMMA ForwardedStays ==
    ASSUME BranchInv, Keeps, NEW b \in Stations, NEW d \in Devices,
           d \in remoteImsi'[b] => d \in remoteImsi[b],
           d \in remoteImsi[b] => /\ imsiRnti'[b][d] = imsiRnti[b][d]
                                  /\ imsiLocalRbid'[b][d] = imsiLocalRbid[b][d],
           \A r \in Rntis : children[b][r] \subseteq children'[b][r]
    PROVE  Forwarded(b, d)'
<1> SUFFICES ASSUME d \in remoteImsi[b] PROVE Forwarded(b, d)'
  BY DEF Forwarded
<1> DEFINE r == imsiRnti[b][d]
           c == rntiLocalImsi[b][r]
<1>1. /\ r \in Rntis /\ imsiLocalRbid[b][d].rnti = r
      /\ c \in Iab /\ Parent[c] = b /\ d \in Below[c] /\ c \in children[b][r]
  BY DEF BranchInv, Forwarded
<1>2. rntiLocalImsi'[b][r] = c
  BY <1>1, Topology DEF Keeps
<1>3. imsiRnti'[b][d] = r /\ imsiLocalRbid'[b][d].rnti = r /\ c \in children'[b][r]
  BY <1>1
<1> HIDE DEF r, c
<1> QED BY <1>1, <1>2, <1>3 DEF Forwarded

LEMMA CountedStays ==
    ASSUME BranchInv, Keeps, NEW b \in Stations, NEW r \in Rntis,
           children'[b][r] = children[b][r]
    PROVE  Counted(b, r)'
<1>1. Counted(b, r)
  BY DEF BranchInv
<1>2. children[b][r] # {} => rntiLocalImsi'[b][r] = rntiLocalImsi[b][r]
  <2>1. children[b][r] \subseteq Iab
    BY DEF BranchInv, TrafficInv, RouteInv, TypeInv, TypeOK, AppTypes
  <2> QED BY <1>1, <2>1, Topology DEF Counted, Keeps
<1> QED BY <1>1, <1>2 DEF Counted

LEMMA SameBranches ==
    ASSUME BranchInv, TrafficInv', Keeps,
           UNCHANGED <<imsiRnti, imsiLocalRbid, remoteImsi>>,
           \A b \in Stations, r \in Rntis : children'[b][r] = children[b][r]
    PROVE  BranchInv'
<1>1. ASSUME NEW b \in Stations, NEW d \in Devices PROVE Forwarded(b, d)'
  BY ForwardedStays
<1>2. ASSUME NEW b \in Stations, NEW r \in Rntis PROVE Counted(b, r)'
  BY CountedStays
<1> QED BY <1>1, <1>2 DEF BranchInv

LEMMA QuietBranches ==
    ASSUME BranchInv, TrafficInv', UNCHANGED <<session, appVars>>
    PROVE  BranchInv'
<1>1. Keeps
  BY DEF Keeps, Allocated, appVars
<1> QED BY <1>1, SameBranches DEF appVars

\* A device of the cell is none whose requests the cell forwards.
LEMMA RecvConnectionRequestBranches ==
    ASSUME BranchInv, TrafficInv', NEW d \in Devices, RecvConnectionRequest(d)
    PROVE  BranchInv'
<1> DEFINE b == Parent[d]
           r == Head(srbUl[d]).rnti
<1>1. /\ srbUl[d] # <<>> /\ imsiRnti' = [imsiRnti EXCEPT ![b][d] = r]
      /\ UNCHANGED <<imsiLocalRbid, remoteImsi, children>>
  BY DEF RecvConnectionRequest
<1>2. b \in Stations /\ r \in Rntis \cup {0}
  BY <1>1, HeadRnti, Topology DEF BranchInv, TrafficInv, RouteInv
<1>3. Keeps
  BY RecvConnectionRequestKeeps DEF BranchInv, TrafficInv, RouteInv
<1>4. d \notin remoteImsi[b]
  <2> SUFFICES ASSUME d \in remoteImsi[b] PROVE FALSE
    OBVIOUS
  <2> DEFINE c == rntiLocalImsi[b][imsiRnti[b][d]]
  <2>1. c \in Iab /\ Parent[c] = b /\ d \in Below[c]
    BY <1>2 DEF BranchInv, Forwarded
  <2> HIDE DEF c
  <2> QED BY <2>1, NotAttachedAbove
<1> HIDE DEF b, r
<1>5. \A x \in Stations, y \in Devices :
         imsiRnti'[x][y] = IF x = b /\ y = d THEN r ELSE imsiRnti[x][y]
  <2>1. imsiRnti \in [Stations -> [Devices -> Rntis \cup {0}]]
    BY DEF BranchInv, TrafficInv, RouteInv, TypeInv, TypeOK, AppTypes
  <2> QED BY <1>1, <1>2, <2>1, UpdateTwice
<1>6. ASSUME NEW x \in Stations, NEW y \in Devices PROVE Forwarded(x, y)'
  BY <1>1, <1>3, <1>4, <1>5, ForwardedStays
<1>7. ASSUME NEW x \in Stations, NEW k \in Rntis PROVE Counted(x, k)'
  BY <1>1, <1>3, CountedStays
<1> QED BY <1>6, <1>7 DEF BranchInv

\* The child that relays a request is one of its parents.
LEMMA RelayInitialUeMessageBranches ==
    ASSUME BranchInv, TrafficInv', NEW d \in Devices, RelayInitialUeMessage(d)
    PROVE  BranchInv'
<1> DEFINE b == Parent[d]
           f == Head(ulq[d])
           m == f.pkt
           e == m.imsi
           rb == [rnti |-> f.rnti, bid |-> f.bid]
<1>1. /\ ulq[d] # <<>> /\ SenderKind(b, f) = "iab" /\ m.type = "InitialUeMessage"
      /\ children' = [children EXCEPT ![b][f.rnti] = @ \cup m.parents]
      /\ imsiRnti' = [imsiRnti EXCEPT ![b][e] = f.rnti]
      /\ imsiLocalRbid' = [imsiLocalRbid EXCEPT ![b][e] = rb]
      /\ remoteImsi' = [remoteImsi EXCEPT ![b] = @ \cup {e}]
      /\ UNCHANGED <<session, rntiLocalImsi>>
  BY DEF RelayInitialUeMessage, NodesBehind
<1>2. /\ b \in Stations /\ f.rnti \in Rntis /\ f.bid \in Bids
      /\ m \in UplinkPacketOf(d) /\ f \in OwnFrameOf(d)
  BY <1>1, HeadOwn, Topology DEF BranchInv, OwnFrameOf, UplinkFrame
<1>3. m \in InitialUeMessage /\ d \in Iab /\ e \in Below[d] /\ e \in Devices /\ OnBranch(d, m)
  <2>1. m \in InitialUeMessage /\ d \in Iab /\ e \in Below[d]
    BY <1>1, <1>2 DEF UplinkPacketOf, UplinkPacket, DataPacket
  <2>2. OnBranch(d, m)
    BY <1>1, <1>2 DEF OwnFrameOf
  <2> QED BY <2>1, <2>2, BelowClosed
<1>4. rntiLocalImsi[b][f.rnti] = d
  BY <1>1, RelayedBy DEF BranchInv, TrafficInv
<1> DEFINE k == f.rnti
           ps == m.parents
<1>5. /\ rb \in Rbid /\ rb.rnti = k /\ k \in Rntis /\ k \in Rntis \cup {0}
      /\ ps \in SUBSET Iab /\ d \in ps /\ ps \ {d} \subseteq Below[d]
  BY <1>2, <1>3 DEF Rbid, InitialUeMessage, OnBranch
<1>6. /\ imsiRnti \in [Stations -> [Devices -> Rntis \cup {0}]]
      /\ imsiLocalRbid \in [Stations -> [Devices -> Rbid]]
      /\ children \in [Stations -> [Rntis -> SUBSET Iab]]
      /\ remoteImsi \in [Stations -> SUBSET Devices]
  BY DEF BranchInv, TrafficInv, RouteInv, TypeInv, TypeOK, AppTypes
<1> HIDE DEF b, m, e, rb, k, ps
<1>7. \A x \in Stations, y \in Devices :
         imsiRnti'[x][y] = IF x = b /\ y = e THEN k ELSE imsiRnti[x][y]
  <2>1. imsiRnti' = [imsiRnti EXCEPT ![b][e] = k]
    BY <1>1 DEF k
  <2>2. b \in Stations /\ e \in Devices
    BY <1>2, <1>3
  <2> QED BY <1>5, <1>6, <2>1, <2>2
<1>8. \A x \in Stations, y \in Devices :
         imsiLocalRbid'[x][y] = IF x = b /\ y = e THEN rb ELSE imsiLocalRbid[x][y]
  <2>1. imsiLocalRbid' = [imsiLocalRbid EXCEPT ![b][e] = rb]
    BY <1>1
  <2>2. b \in Stations /\ e \in Devices
    BY <1>2, <1>3
  <2> QED BY <1>5, <1>6, <2>1, <2>2
<1>9. \A x \in Stations, y \in Rntis :
         children'[x][y] = IF x = b /\ y = k THEN children[x][y] \cup ps ELSE children[x][y]
  <2> DEFINE new == children[b][k] \cup ps
  <2>1. children' = [children EXCEPT ![b][k] = new]
    BY <1>1 DEF k, ps
  <2>2. new \in SUBSET Iab
    BY <1>2, <1>5, <1>6
  <2> HIDE DEF new
  <2>3. \A x \in Stations, y \in Rntis :
           children'[x][y] = IF x = b /\ y = k THEN new ELSE children[x][y]
    BY <1>2, <1>5, <1>6, <2>1, <2>2
  <2> QED BY <2>3 DEF new
<1>10. \A x \in Stations, y \in Devices :
          y \in remoteImsi'[x] <=> y \in remoteImsi[x] \/ (x = b /\ y = e)
  BY <1>1, <1>2, <1>6
<1>11. Keeps
  BY <1>1 DEF Keeps, Allocated
<1>12. rntiLocalImsi'[b][k] = d /\ rntiLocalImsi[b][k] = d /\ b = Parent[d]
  BY <1>1, <1>4 DEF k, b
<1>13. ASSUME NEW x \in Stations, NEW y \in Devices PROVE Forwarded(x, y)'
  <2>1. CASE x = b /\ y = e
    <3>1. imsiRnti'[b][e] = k /\ imsiLocalRbid'[b][e] = rb
      BY <1>2, <1>3, <1>7, <1>8
    <3>2. d \in children'[b][k]
      BY <1>2, <1>5, <1>9
    <3> QED BY <1>3, <1>5, <1>12, <2>1, <3>1, <3>2 DEF Forwarded
  <2>2. CASE ~(x = b /\ y = e)
    <3>1. /\ imsiRnti'[x][y] = imsiRnti[x][y] /\ imsiLocalRbid'[x][y] = imsiLocalRbid[x][y]
          /\ y \in remoteImsi'[x] => y \in remoteImsi[x]
      BY <1>7, <1>8, <1>10, <2>2
    <3>2. \A r \in Rntis : children[x][r] \subseteq children'[x][r]
      BY <1>9
    <3> QED BY <1>11, <3>1, <3>2, ForwardedStays
  <2> QED BY <2>1, <2>2
<1>14. ASSUME NEW x \in Stations, NEW y \in Rntis PROVE Counted(x, y)'
  <2>1. CASE x = b /\ y = k
    <3>1. Counted(b, k)
      BY <1>2, <1>5 DEF BranchInv
    <3>2. children'[b][k] = children[b][k] \cup ps
      BY <1>2, <1>5, <1>9
    <3> QED BY <1>5, <1>12, <2>1, <3>1, <3>2 DEF Counted
  <2>2. CASE ~(x = b /\ y = k)
    BY <1>9, <1>11, <2>2, CountedStays
  <2> QED BY <2>1, <2>2
<1> QED BY <1>13, <1>14 DEF BranchInv

\* The answer removes from the children of an RNTI only what is none of them.
LEMMA RecvFromS1apSocketBranches ==
    ASSUME BranchInv, TrafficInv', NEW b \in Stations, NEW m \in Request, NEW q,
           UNCHANGED session, RecvFromS1apSocket(b, m, q)
    PROVE  BranchInv'
<1> DEFINE d == m.imsi
           r == imsiRnti[b][d]
           ch == children[b][r] \ (IF m.iab THEN {} ELSE {d})
<1>1. CASE UNCHANGED appVars
  BY <1>1, QuietBranches
<1>2. CASE /\ children' = [children EXCEPT ![b][r] = ch] /\ r # 0
           /\ UNCHANGED <<imsiRnti, rntiLocalImsi, imsiLocalRbid, remoteImsi>>
  <2>1. d \in Devices /\ (m.iab <=> d \in Iab)
    BY RequestBearers DEF BranchInv, TrafficInv, RouteInv, Request
  <2>2. /\ children \in [Stations -> [Rntis -> SUBSET Iab]]
        /\ imsiRnti \in [Stations -> [Devices -> Rntis \cup {0}]]
    BY DEF BranchInv, TrafficInv, RouteInv, TypeInv, TypeOK, AppTypes
  <2>3. r \in Rntis
    BY <1>2, <2>1, <2>2
  <2>4. ch = children[b][r]
    BY <2>1, <2>2, <2>3
  <2> HIDE DEF ch, r
  <2>5. \A x \in Stations, y \in Rntis : children'[x][y] = children[x][y]
    BY <1>2, <2>2, <2>3, <2>4
  <2>6. Keeps
    BY <1>2 DEF Keeps, Allocated
  <2> QED BY <1>2, <2>5, <2>6, SameBranches
<1>3. CASE UNCHANGED <<imsiRnti, rntiLocalImsi, imsiLocalRbid, remoteImsi, children>>
  <2>1. Keeps
    BY <1>3 DEF Keeps, Allocated
  <2> QED BY <1>3, <2>1, SameBranches
<1> QED BY <1>1, <1>2, <1>3
        DEF RecvFromS1apSocket, ForwardIabS1apReply, SetupContext, AbortContextSetup

LEMMA WiredRecvS1apBranches ==
    ASSUME BranchInv, TrafficInv', NEW w \in Wired, WiredRecvS1ap(w)
    PROVE  BranchInv'
<1> DEFINE m == Head(s1Down[w])
<1>1. s1Down[w] # <<>> /\ RecvFromS1apSocket(w, m, dlq) /\ UNCHANGED session
  BY DEF WiredRecvS1ap
<1>2. w \in Stations /\ s1Down \in [Wired -> Seq(Request)]
  BY Topology DEF BranchInv, TrafficInv, RouteInv, TypeInv, QueueInv, Requests
<1>3. m \in Request
  BY <1>1, <1>2, TakeQueue
<1> HIDE DEF m
<1> QED BY <1>1, <1>2, <1>3, RecvFromS1apSocketBranches

LEMMA IabRecvS1apBranches ==
    ASSUME BranchInv, TrafficInv', NEW i \in Iab, IabRecvS1ap(i)
    PROVE  BranchInv'
<1> DEFINE m == Head(dlq[i]).pkt
           q == [dlq EXCEPT ![i] = Tail(@)]
<1>1. /\ dlq[i] # <<>> /\ m.type = "InitialContextSetupRequest"
      /\ RecvFromS1apSocket(i, m, q) /\ UNCHANGED session
  BY DEF IabRecvS1ap, coreVars
<1>2. i \in Stations /\ i \in Devices
  BY Topology
<1>3. m \in Request
  BY <1>1, <1>2, HeadRight DEF BranchInv, RequestFrame, DataPacket
<1> HIDE DEF m, q
<1> QED BY <1>1, <1>2, <1>3, RecvFromS1apSocketBranches

LEMMA MmeRecvInitialUeMessageBranches ==
    ASSUME BranchInv, TrafficInv', NEW w \in Wired, MmeRecvInitialUeMessage(w)
    PROVE  BranchInv'
<1>1. UNCHANGED appVars
  BY DEF MmeRecvInitialUeMessage
<1>2. Keeps
  BY MmeRecvInitialUeMessageKeeps DEF BranchInv, TrafficInv, RouteInv
<1> QED BY <1>1, <1>2, SameBranches DEF appVars

LEMMA BranchInvStep == BranchInv /\ [Next]_vars => BranchInv'
<1> SUFFICES ASSUME BranchInv, [Next]_vars PROVE BranchInv'
  OBVIOUS
<1> USE DEF coreVars
<1>1. TrafficInv'
  BY TrafficInvStep DEF BranchInv
<1>2. ASSUME UNCHANGED <<session, appVars>> PROVE BranchInv'
  BY <1>1, <1>2, QuietBranches
<1>3. ASSUME NEW d \in Devices, Connect(d) PROVE BranchInv'
  <2>1. CASE RecvConnectionRequest(d)
    BY <1>1, <2>1, RecvConnectionRequestBranches
  <2>2. CASE \/ RandomAccess(d) \/ RecvConnectionSetup(d) \/ RecvConnectionSetupCompleted(d)
             \/ RecvReconfiguration(d) \/ RecvReconfigurationCompleted(d)
    <3>1. UNCHANGED <<session, appVars>>
      BY <2>2 DEF RandomAccess, RecvConnectionSetup, RecvConnectionSetupCompleted,
                  RecvReconfiguration, RecvReconfigurationCompleted
    <3> QED BY <1>2, <3>1
  <2> QED BY <1>3, <2>1, <2>2 DEF Connect
<1>4. ASSUME NEW d \in Devices, Uplink(d) PROVE BranchInv'
  <2>1. CASE RelayInitialUeMessage(d)
    BY <1>1, <2>1, RelayInitialUeMessageBranches
  <2>2. CASE RelayData(d) \/ RecvUeData(d)
    <3>1. UNCHANGED <<session, appVars>>
      BY <2>2 DEF RelayData, RecvUeData
    <3> QED BY <1>2, <3>1
  <2> QED BY <1>4, <2>1, <2>2 DEF Uplink
<1>5. ASSUME NEW d \in Devices, DownlinkStep(d) PROVE BranchInv'
  <2>1. CASE IabRecvS1ap(d)
    BY <1>1, <2>1, IabRecvS1apBranches DEF IabRecvS1ap
  <2>2. CASE DropDownlink(d) \/ DeliverToUe(d) \/ IabRecvData(d)
    <3>1. UNCHANGED <<session, appVars>>
      BY <2>2 DEF DropDownlink, DeliverToUe, IabRecvData
    <3> QED BY <1>2, <3>1
  <2> QED BY <1>5, <2>1, <2>2 DEF DownlinkStep
<1>6. ASSUME NEW d \in Devices,
             ConnectionTimeout(d) \/ LoseUplink(d) \/ LoseDownlink(d)
      PROVE  BranchInv'
  <2>1. UNCHANGED <<session, appVars>>
    BY <1>6 DEF ConnectionTimeout, LoseUplink, LoseDownlink
  <2> QED BY <1>2, <2>1
<1>7. ASSUME NEW w \in Wired, Wireline(w) \/ MmeRecvInitialUeMessage(w) PROVE BranchInv'
  <2>1. CASE WiredRecvData(w)
    <3>1. UNCHANGED <<session, appVars>>
      BY <2>1 DEF WiredRecvData
    <3> QED BY <1>2, <3>1
  <2>2. CASE WiredRecvS1ap(w) \/ MmeRecvInitialUeMessage(w)
    BY <1>1, <2>2, WiredRecvS1apBranches, MmeRecvInitialUeMessageBranches
  <2> QED BY <1>7, <2>1, <2>2 DEF Wireline
<1>8. ASSUME NEW b \in Stations, NEW r \in Rntis, RemoveUe(b, r) PROVE BranchInv'
  <2>1. UNCHANGED <<session, rntiLocalImsi, imsiRnti, imsiLocalRbid, children, remoteImsi>>
    BY <1>8 DEF RemoveUe
  <2>2. Keeps
    BY <2>1 DEF Keeps, Allocated
  <2> QED BY <1>1, <2>1, <2>2, SameBranches
<1>9. ASSUME NEW u \in Ue, NEW k \in Bids, UeSend(u, k) \/ SgwRecvFromInternet(u, k)
      PROVE  BranchInv'
  <2>1. UNCHANGED <<session, appVars>>
    BY <1>9 DEF UeSend, SgwRecvFromInternet
  <2> QED BY <1>2, <2>1
<1>10. CASE UNCHANGED vars
  <2>1. UNCHANGED <<session, appVars>>
    BY <1>10 DEF vars
  <2> QED BY <1>2, <2>1
<1> QED BY <1>3, <1>4, <1>5, <1>6, <1>7, <1>8, <1>9, <1>10 DEF Next

(***************************************************************************)
(* The theorems.                                                           *)
(***************************************************************************)

\* RemoteImsiIsForwarded in every deployment: m_remoteImsiRequestMap holds
\* devices behind IAB children only, and the maps DoForwardIabS1apReply looks
\* them up in (RNTI, bearer, children) have their entries and agree.
THEOREM ForwardsForChildren == Spec => []RemoteImsiIsForwarded
<1>1. Init => BranchInv
  BY InitBranchInv
<1>2. BranchInv /\ [Next]_vars => BranchInv'
  BY BranchInvStep
<1>3. BranchInv => RemoteImsiIsForwarded
  <2> SUFFICES ASSUME BranchInv, NEW b \in Stations, NEW d \in remoteImsi[b]
               PROVE  LET r == imsiRnti[b][d] IN
                      /\ Parent[d] # b /\ d \in Below[b]
                      /\ r # 0 /\ imsiLocalRbid[b][d].rnti = r
                      /\ children[b][r] # {}
                      /\ rntiLocalImsi[b][r] \in Iab /\ d \in Below[rntiLocalImsi[b][r]]
    BY DEF RemoteImsiIsForwarded
  <2>1. d \in Devices
    BY DEF BranchInv, TrafficInv, RouteInv, TypeInv, TypeOK, AppTypes
  <2> DEFINE r == imsiRnti[b][d]
             c == rntiLocalImsi[b][r]
  <2>2. /\ r \in Rntis /\ imsiLocalRbid[b][d].rnti = r
        /\ c \in Iab /\ Parent[c] = b /\ d \in Below[c] /\ c \in children[b][r]
    BY <2>1 DEF BranchInv, Forwarded
  <2> HIDE DEF c
  <2>3. Parent[d] # b
    BY <2>1, <2>2, NotAttachedAbove
  <2>4. d \in Below[b]
    BY <2>2, BelowClosed, Topology
  <2>5. r # 0
    BY <2>2, Topology DEF Rntis
  <2> QED BY <2>2, <2>3, <2>4, <2>5 DEF c
<1> QED BY <1>1, <1>2, <1>3, PTL DEF Spec

\* ChildrenAreDownstream in every deployment: m_rntiImsiChildrenMap counts,
\* behind an RNTI, the IAB child of that RNTI and nodes of its branch only.
THEOREM CountsOwnBranch == Spec => []ChildrenAreDownstream
<1>1. Init => BranchInv
  BY InitBranchInv
<1>2. BranchInv /\ [Next]_vars => BranchInv'
  BY BranchInvStep
<1>3. BranchInv => ChildrenAreDownstream
  BY DEF BranchInv, ChildrenAreDownstream, Counted
<1> QED BY <1>1, <1>2, <1>3, PTL DEF Spec
=============================================================================
