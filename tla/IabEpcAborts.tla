---------------------------- MODULE IabEpcAborts ------------------------------
(***************************************************************************)
(* Why the program stops: every cell on the way knows a device before the  *)
(* MME answers it, a device that connects once asks once, and so the       *)
(* assertions and fatal errors that are left need a second attempt or a    *)
(* second use of a packet.                                                 *)
(***************************************************************************)
EXTENDS IabEpcLive

(***************************************************************************)
(* The tree, and the walk of the MME over it.                              *)
(***************************************************************************)

\* Going down ends as well: the nodes below get fewer.
LEMMA DescentEnds ==
    ASSUME NEW S \in SUBSET Iab, \A e \in S : \E i \in S : Parent[i] = e
    PROVE  S = {}
<1> SUFFICES ASSUME S # {} PROVE FALSE
  OBVIOUS
<1> DEFINE Rest(e) == Iab \cap Below[e]
           T == {Rest(e) : e \in S}
<1>1. T # {}
  OBVIOUS
<1>2. T \subseteq FiniteSubsetsOf(Iab)
  <2> SUFFICES ASSUME NEW e \in S PROVE Rest(e) \in FiniteSubsetsOf(Iab)
    OBVIOUS
  <2>1. IsFiniteSet(Rest(e))
    BY Topology, FS_Subset
  <2> QED BY <2>1 DEF FiniteSubsetsOf
<1>3. IsWellFoundedOn(StrictSubsetOrdering(Iab), FiniteSubsetsOf(Iab))
  BY FS_StrictSubsetOrderingWellFounded
<1> HIDE DEF T
<1>4. PICK least \in T : \A s \in T : <<s, least>> \notin StrictSubsetOrdering(Iab)
  BY <1>1, <1>2, <1>3, WFMin
<1>5. PICK e \in S : least = Rest(e)
  BY DEF T
<1>6. PICK i \in S : Parent[i] = e
  OBVIOUS
<1>7. Below[i] \subseteq Below[e] /\ i \in Below[e] /\ i \notin Below[i]
  BY <1>6, MoreAbove
<1>8. Rest(i) \subseteq Rest(e) /\ Rest(i) # Rest(e) /\ Rest(i) \in T
  BY <1>7 DEF T
<1>9. <<Rest(i), Rest(e)>> \in StrictSubsetOrdering(Iab)
  BY <1>8 DEF StrictSubsetOrdering
<1> QED BY <1>4, <1>5, <1>8, <1>9

\* A device is behind one wired gNB, and every node it is behind is below that.
LEMMA OneWired ==
    ASSUME NEW w \in Wired, NEW d \in Devices, d \in Below[w], NEW c \in Stations, d \in Below[c]
    PROVE  c = w \/ c \in Below[w]
<1> DEFINE Off(x) == x # w /\ x \notin Below[w]
           S == {x \in Iab : d \in Below[x] /\ Off(x)}
<1>1. ASSUME NEW x \in Stations, d \in Below[x], Off(x)
      PROVE  \E i \in S : Parent[i] = x
  <2>1. Parent[d] \in Below[w] \cup {w}
    BY Topology, TopologyAssumption
  <2>2. PICK i \in Iab : Parent[i] = x /\ d \in Below[i]
    BY <1>1, <2>1, TopologyAssumption
  <2>3. i \in Devices /\ w \in Stations /\ i # w
    BY Topology
  <2>4. i \in Below[w] => Parent[i] \in Below[w] \cup {w}
    BY <2>3, TopologyAssumption
  <2> QED BY <1>1, <2>2, <2>3, <2>4
<1>2. S \in SUBSET Iab /\ \A x \in S : \E i \in S : Parent[i] = x
  BY <1>1, Topology
<1>3. S = {}
  <2> HIDE DEF S
  <2> QED BY <1>2, DescentEnds
<1> QED BY <1>1, <1>3

\* A nonempty set of natural numbers has a smallest element.
LEMMA SmallestOf ==
    ASSUME NEW T \in SUBSET Nat, T # {}
    PROVE  \E x \in T : \A y \in T : x <= y
<1> DEFINE Upto(n) == 0 .. n - 1
           F == {Upto(n) : n \in T}
<1>1. IsWellFoundedOn(StrictSubsetOrdering(Nat), FiniteSubsetsOf(Nat))
  BY FS_StrictSubsetOrderingWellFounded
<1>2. F \subseteq FiniteSubsetsOf(Nat) /\ F # {}
  <2>1. ASSUME NEW n \in T PROVE Upto(n) \in FiniteSubsetsOf(Nat)
    <3>1. n \in Nat /\ Upto(n) \subseteq Nat
      OBVIOUS
    <3>2. IsFiniteSet(Upto(n))
      BY <3>1, FS_Interval
    <3> QED BY <3>1, <3>2 DEF FiniteSubsetsOf
  <2> QED BY <2>1
<1> HIDE DEF F
<1>3. PICK X \in F : \A Y \in F : <<Y, X>> \notin StrictSubsetOrdering(Nat)
  BY <1>1, <1>2, WFMin
<1>4. PICK x \in T : X = Upto(x)
  BY DEF F
<1>5. ASSUME NEW y \in T, y < x PROVE FALSE
  <2>1. Upto(y) \in F /\ Upto(y) \subseteq Upto(x) /\ y \in Upto(x) /\ y \notin Upto(y)
    BY <1>5 DEF F
  <2>2. <<Upto(y), Upto(x)>> \in StrictSubsetOrdering(Nat)
    BY <2>1 DEF StrictSubsetOrdering
  <2> QED BY <1>3, <1>4, <2>1, <2>2
<1> QED BY <1>5

\* The walk of the MME over the donors ends at the wired gNB the device is
\* behind, when it knows the cell of each IAB node on the way.
LEMMA DonorFound ==
    ASSUME NEW d \in Devices,
           \A c \in Iab : d \in Below[c] => mmeCell[c] = Parent[c]
    PROVE  WiredDonor(Parent[d]) \in Wired /\ d \in Below[WiredDonor(Parent[d])]
<1> DEFINE N == Cardinality(Iab)
           g == Parent[d]
           Walk(f, m) == f = [n \in 0 .. m |->
                                 IF n = 0 THEN g
                                 ELSE IF f[n - 1] \in Iab THEN mmeCell[f[n - 1]] ELSE f[n - 1]]
           walk[n \in 0 .. N] ==
               IF n = 0 THEN g
               ELSE IF walk[n - 1] \in Iab THEN mmeCell[walk[n - 1]] ELSE walk[n - 1]
           On(c, n) == /\ c \in Stations /\ d \in Below[c]
                       /\ c \in Iab => n <= Cardinality(Below[c] \cap Iab)
<1>1. WiredDonor(g) = walk[N]
  BY DEF WiredDonor
<1>2. N \in Nat
  BY Topology, FS_CardinalityType
<1>3. \A m \in Nat : \E f : Walk(f, m)
  <2> DEFINE Bad == {m \in Nat : ~\E f : Walk(f, m)}
  <2> SUFFICES ASSUME Bad # {} PROVE FALSE
    OBVIOUS
  <2>1. PICK m \in Bad : \A y \in Bad : m <= y
    BY SmallestOf
  <2>2. m # 0
    <3> DEFINE f == [n \in 0 .. 0 |-> g]
    <3>1. Walk(f, 0)
      OBVIOUS
    <3> QED BY <3>1
  <2>3. m \in Nat /\ m - 1 \in Nat /\ m - 1 \notin Bad
    <3>1. m \in Nat
      BY <2>1
    <3> HIDE DEF Bad
    <3> QED BY <2>1, <2>2, <3>1
  <2>4. PICK f : Walk(f, m - 1)
    BY <2>3
  <2> DEFINE h == [n \in 0 .. m |->
                      IF n = 0 THEN g
                      ELSE IF f[n - 1] \in Iab THEN mmeCell[f[n - 1]] ELSE f[n - 1]]
  <2>5. \A n \in 0 .. m - 1 : h[n] = f[n]
    BY <2>3, <2>4
  <2>6. Walk(h, m)
    <3> HIDE DEF Bad
    <3>1. ASSUME NEW n \in 0 .. m, n # 0 PROVE h[n - 1] = f[n - 1]
      <4> HIDE DEF h
      <4>1. n - 1 \in 0 .. m - 1
        BY <2>3, <3>1
      <4> QED BY <2>5, <4>1
    <3> DEFINE hh == [n \in 0 .. m |->
                         IF n = 0 THEN g
                         ELSE IF h[n - 1] \in Iab THEN mmeCell[h[n - 1]] ELSE h[n - 1]]
    <3>2. \A n \in 0 .. m : hh[n] = h[n]
      BY <3>1
    <3>3. h = hh
      BY <3>2
    <3> QED BY <3>3
  <2> QED BY <2>1, <2>6
<1>4. Walk(walk, N)
  <2>1. \E f : Walk(f, N)
    BY <1>2, <1>3
  <2>2. walk = CHOOSE f : Walk(f, N)
    BY DEF walk
  <2> QED BY <2>1, <2>2
<1> HIDE DEF walk
<1>5. ASSUME NEW c \in Iab, NEW n \in Nat, On(c, n) PROVE On(mmeCell[c], n + 1)
  <2> DEFINE p == Parent[c]
  <2>1. mmeCell[c] = p /\ p \in Stations /\ c \in Devices /\ d \in Below[p]
    BY <1>5, MoreAbove, Topology
  <2>2. n + 1 <= Cardinality(Below[p] \cap Iab)
    <3> DEFINE A == Below[c] \cap Iab
               B == Below[p] \cap Iab
    <3>1. A \cup {c} \subseteq B /\ c \notin A
      BY MoreAbove
    <3>2. IsFiniteSet(A) /\ IsFiniteSet(B)
      BY Topology, FS_Subset
    <3>3. Cardinality(A \cup {c}) = Cardinality(A) + 1
      BY <3>1, <3>2, FS_AddElement
    <3>4. Cardinality(A \cup {c}) <= Cardinality(B)
      BY <3>1, <3>2, FS_Subset
    <3>5. Cardinality(A) \in Nat /\ Cardinality(B) \in Nat
      BY <3>2, FS_CardinalityType
    <3> HIDE DEF A, B
    <3>6. n <= Cardinality(A)
      BY <1>5 DEF A
    <3>7. n + 1 <= Cardinality(B)
      BY <3>3, <3>4, <3>5, <3>6
    <3> QED BY <3>7 DEF B
  <2> QED BY <2>1, <2>2
<1>6. \A n \in 0 .. N : On(walk[n], n)
  <2> DEFINE Bad == {n \in 0 .. N : ~On(walk[n], n)}
  <2> HIDE DEF On
  <2> SUFFICES ASSUME Bad # {} PROVE FALSE
    OBVIOUS
  <2>1. Bad \in SUBSET Nat
    BY <1>2
  <2>2. PICK m \in Bad : \A y \in Bad : m <= y
    BY <2>1, SmallestOf
  <2>3. On(walk[0], 0)
    <3>1. walk[0] = g
      BY <1>2, <1>4
    <3>2. g \in Stations /\ d \in Below[g]
      BY Topology, TopologyAssumption
    <3>3. Cardinality(Below[g] \cap Iab) \in Nat
      BY Topology, FS_Subset, FS_CardinalityType
    <3> QED BY <3>1, <3>2, <3>3 DEF On
  <2>4. m # 0 /\ m \in 0 .. N /\ m - 1 \in 0 .. N /\ m - 1 \in Nat
    BY <1>2, <2>2, <2>3
  <2>5. On(walk[m - 1], m - 1)
    BY <2>2, <2>4
  <2>6. walk[m] = IF walk[m - 1] \in Iab THEN mmeCell[walk[m - 1]] ELSE walk[m - 1]
    BY <1>4, <2>4
  <2>7. On(walk[m], m)
    <3>1. CASE walk[m - 1] \in Iab
      <4>1. On(mmeCell[walk[m - 1]], m - 1 + 1)
        BY <1>5, <2>4, <2>5, <3>1
      <4> QED BY <2>4, <2>6, <3>1, <4>1
    <3>2. CASE walk[m - 1] \notin Iab
      BY <2>5, <2>6, <3>2 DEF On
    <3> QED BY <3>1, <3>2
  <2> QED BY <2>2, <2>7
<1> DEFINE c == walk[N]
<1>7. c \in Stations /\ d \in Below[c] /\ (c \in Iab => N <= Cardinality(Below[c] \cap Iab))
  BY <1>2, <1>6
<1>8. c \notin Iab
  <2> SUFFICES ASSUME c \in Iab PROVE FALSE
    OBVIOUS
  <2> DEFINE A == Below[c] \cap Iab
  <2>1. A \subseteq Iab /\ A # Iab
    BY MoreAbove
  <2>2. Cardinality(A) < N
    <3>1. IsFiniteSet(A) /\ Cardinality(A) <= N /\ (N = Cardinality(A) => Iab = A)
      BY <2>1, Topology, FS_Subset
    <3>2. Cardinality(A) \in Nat
      BY <3>1, FS_CardinalityType
    <3> QED BY <1>2, <2>1, <3>1, <3>2
  <2>3. Cardinality(A) \in Nat
    BY Topology, FS_Subset, FS_CardinalityType
  <2> QED BY <1>2, <1>7, <2>2, <2>3
<1> QED BY <1>1, <1>7, <1>8, Topology

(***************************************************************************)
(* Notes: what the cells on the way of a request know of it.               *)
(***************************************************************************)

\* Cell b has seen a request of d, a device in its branch.
Noted(b, d) == IF Parent[d] = b THEN imsiRnti[b][d] # 0 ELSE d \in remoteImsi[b]

\* An InitialUeMessage that cell b may have sent.
Told(b) ==
    {m \in InitialUeMessage :
        m.gci = Parent[m.imsi] /\ m.imsi \in Below[b] /\ Noted(b, m.imsi)}
Tells == [i \in Devices |->
             {p \in UplinkPacket : p.type = "InitialUeMessage" => i \in Iab /\ p \in Told(i)}]

\* Buffers and uplink queues in which a device d has packets of P[d] only.
BuffersOf(P) ==
    {f \in [Devices -> Seq(UplinkPacket)] : \A d \in Devices : f[d] \in Seq(P[d])}
FramesOf(S) == {f \in UplinkFrame : f.pkt \in S}
UplinksOf(P) ==
    {f \in [Devices -> Seq(UplinkFrame)] : \A d \in Devices : f[d] \in Seq(FramesOf(P[d]))}
RequestOf(w) == {m \in InitialContextSetupRequest : m.imsi \in Below[w]}

\* The cells between a device and the core know it, and the MME knows them.
Known(d) ==
    mmeCell[d] = Parent[d] /\ \A b \in Stations : d \in Below[b] => Noted(b, d)

\* A cell notes a device behind a child after the child has, and after the
\* child has attached; the SGW opens a session of a device after every cell on
\* the way has noted it.
NotedInv ==
    /\ ulq \in UplinksOf(Tells) /\ nasBuffer \in BuffersOf(Tells)
    /\ \A w \in Wired : s1Up[w] \in Seq(Told(w)) /\ s1Down[w] \in Seq(RequestOf(w))
    /\ \A i \in Iab, d \in Devices :
          d \in remoteImsi[Parent[i]] /\ d \in Below[i] => Noted(i, d) /\ mmeCell[i] = Parent[i]
    /\ \A t \in 1 .. Len(session) : Known(Owner(t))

LEMMA InitNotedInv == Init => NotedInv
<1> SUFFICES ASSUME Init PROVE NotedInv
  OBVIOUS
<1>1. ulq \in UplinksOf(Tells) /\ nasBuffer \in BuffersOf(Tells)
  BY EmptyQueues DEF Init, UplinksOf, BuffersOf
<1>2. \A w \in Wired : s1Up[w] \in Seq(Told(w)) /\ s1Down[w] \in Seq(RequestOf(w))
  BY EmptyQueues DEF Init
<1>3. \A i \in Iab : remoteImsi[Parent[i]] = {}
  BY Topology DEF Init
<1>4. Len(session) = 0
  BY EmptyQueues DEF Init
<1> QED BY <1>1, <1>2, <1>3, <1>4 DEF NotedInv

LEMMA CarryMore ==
    ASSUME NEW P, NEW Q, \A d \in Devices : P[d] \subseteq Q[d]
    PROVE  BuffersOf(P) \subseteq BuffersOf(Q) /\ UplinksOf(P) \subseteq UplinksOf(Q)
<1>1. ASSUME NEW d \in Devices
      PROVE  Seq(P[d]) \subseteq Seq(Q[d]) /\ Seq(FramesOf(P[d])) \subseteq Seq(FramesOf(Q[d]))
  <2>1. FramesOf(P[d]) \subseteq FramesOf(Q[d])
    BY DEF FramesOf
  <2> QED BY <2>1, SeqMonotonic
<1> QED BY <1>1 DEF BuffersOf, UplinksOf

LEMMA CarryStep ==
    ASSUME NEW P, NEW f \in UplinksOf(P), NEW d \in Devices
    PROVE  /\ f[d] # <<>> => /\ Head(f[d]) \in FramesOf(P[d])
                             /\ [f EXCEPT ![d] = Tail(@)] \in UplinksOf(P)
           /\ \A e \in FramesOf(P[d]) : [f EXCEPT ![d] = Append(@, e)] \in UplinksOf(P)
           /\ \A s \in Seq(FramesOf(P[d])) : [f EXCEPT ![d] = @ \o s] \in UplinksOf(P)
<1>1. \A s \in Seq(FramesOf(P[d])) : [f EXCEPT ![d] = s] \in UplinksOf(P)
  <2>1. Seq(FramesOf(P[d])) \subseteq Seq(UplinkFrame)
    BY SeqMonotonic DEF FramesOf
  <2> QED BY <2>1 DEF UplinksOf
<1>2. f[d] \in Seq(FramesOf(P[d]))
  BY DEF UplinksOf
<1>3. f[d] # <<>> => Head(f[d]) \in FramesOf(P[d]) /\ Tail(f[d]) \in Seq(FramesOf(P[d]))
  BY <1>2, TakeQueue
<1>4. \A e \in FramesOf(P[d]) : Append(f[d], e) \in Seq(FramesOf(P[d]))
  BY <1>2, AppendQueue
<1>5. \A s \in Seq(FramesOf(P[d])) : f[d] \o s \in Seq(FramesOf(P[d]))
  BY <1>2, ConcatProperties
<1>6. DOMAIN f = Devices
  BY DEF UplinksOf
<1> QED BY <1>1, <1>3, <1>4, <1>5, <1>6

\* A NAS sends, keeps or drops one of the packets it may have.
LEMMA NasSendCarries ==
    ASSUME LiveInv, NEW P, NEW d \in Devices, NEW k \in Bids, NEW p \in UplinkPacket, p \in P[d],
           nasBuffer \in BuffersOf(P), NEW q \in UplinksOf(P), NasSend(d, p, k, q)
    PROVE  ulq' \in UplinksOf(P) /\ nasBuffer' \in BuffersOf(P)
<1>1. CASE ulq' = q /\ UNCHANGED nasBuffer
  BY <1>1
<1>2. CASE ulq' = q /\ nasBuffer' = [nasBuffer EXCEPT ![d] = Append(@, p)]
  <2>1. Append(nasBuffer[d], p) \in Seq(P[d]) /\ Append(nasBuffer[d], p) \in Seq(UplinkPacket)
    BY AppendQueue DEF BuffersOf
  <2>2. [nasBuffer EXCEPT ![d] = Append(@, p)] \in BuffersOf(P)
    BY <2>1 DEF BuffersOf
  <2> QED BY <1>2, <2>2
<1>3. CASE /\ k <= drbs[d] /\ UNCHANGED nasBuffer
           /\ ulq' = [q EXCEPT ![d] = Append(@, Frame(rnti[d], k, p))]
  <2>1. rnti[d] \in Rntis
    <3>1. k \in Nat \ {0} /\ drbs[d] \in Nat
      BY LiveParts, Topology DEF Bids, TypeInv, TypeOK, DeviceTypes
    <3>2. Linked(d)
      BY LiveParts DEF TypeInv, LinkInv
    <3> QED BY <1>3, <3>1, <3>2 DEF Linked
  <2>2. Frame(rnti[d], k, p) \in FramesOf(P[d])
    BY <2>1 DEF Frame, FramesOf, UplinkFrame
  <2> QED BY <1>3, <2>2, CarryStep
<1> QED BY <1>1, <1>2, <1>3 DEF NasSend

LEMMA SendUpCarries ==
    ASSUME LiveInv, NEW P, NEW b \in Stations, NEW p \in UplinkPacket, b \in Iab => p \in P[b],
           nasBuffer \in BuffersOf(P), NEW q \in UplinksOf(P),
           SendS1ap(b, p, q) \/ SendDataUp(b, p, q)
    PROVE  ulq' \in UplinksOf(P) /\ nasBuffer' \in BuffersOf(P)
<1>1. CASE ulq' = q /\ UNCHANGED nasVars
  BY <1>1 DEF nasVars
<1>2. CASE b \in Iab /\ NasSend(b, p, 1, q)
  <2>1. b \in Devices /\ 1 \in Bids
    BY <1>2, Topology DEF Bids
  <2> QED BY <1>2, <2>1, NasSendCarries
<1> QED BY <1>1, <1>2 DEF SendS1ap, SendDataUp

\* The SGW has a session of device d.
HasSession(d) == \E t \in 1 .. Len(session) : Owner(t) = d

\* Steps that leave the notes and the sessions alone.
LEMMA SameNotes ==
    ASSUME NotedInv, UNCHANGED <<imsiRnti, remoteImsi, mmeCell, session, s1Up>>,
           ulq' \in UplinksOf(Tells), nasBuffer' \in BuffersOf(Tells),
           \A w \in Wired : s1Down'[w] \in Seq(RequestOf(w))
    PROVE  NotedInv'
<1>1. /\ \A b \in Stations, d \in Devices : Noted(b, d)' = Noted(b, d)
      /\ \A b \in Stations : Told(b)' = Told(b)
      /\ Tells' = Tells
  BY DEF Noted, Told, Tells
<1>2. \A w \in Wired : s1Up'[w] \in Seq(Told(w)')
  BY <1>1, Topology DEF NotedInv
<1>3. \A w \in Wired : RequestOf(w)' = RequestOf(w)
  BY DEF RequestOf
<1>4. \A t \in 1 .. Len(session) : Known(Owner(t))'
  BY DEF NotedInv, Owner, Known, Noted
<1>5. ulq' \in UplinksOf(Tells)' /\ nasBuffer' \in BuffersOf(Tells)'
  BY <1>1 DEF UplinksOf, BuffersOf
<1>6. \A i \in Iab, d \in Devices :
         d \in remoteImsi'[Parent[i]] /\ d \in Below[i] => Noted(i, d)' /\ mmeCell'[i] = Parent[i]
  BY <1>1, Topology DEF NotedInv
<1> QED BY <1>2, <1>3, <1>4, <1>5, <1>6 DEF NotedInv, Owner

LEMMA QuietNotes ==
    ASSUME NotedInv,
           UNCHANGED <<imsiRnti, remoteImsi, mmeCell, session, s1Up, s1Down, nasBuffer>>,
           ulq' \in UplinksOf(Tells)
    PROVE  NotedInv'
BY SameNotes DEF NotedInv

LEMMA HeadTold ==
    ASSUME NotedInv, NEW d \in Devices, ulq[d] # <<>>
    PROVE  Head(ulq[d]).pkt \in Tells[d] /\ [ulq EXCEPT ![d] = Tail(@)] \in UplinksOf(Tells)
BY CarryStep DEF NotedInv, FramesOf

\* Data tells nothing.
LEMMA SendDataUpNoted ==
    ASSUME LiveInv, NotedInv, NEW b \in Stations, NEW p \in DataPacket,
           NEW q \in UplinksOf(Tells), SendDataUp(b, p, q),
           UNCHANGED <<imsiRnti, remoteImsi, mmeCell, session, s1Up, s1Down>>
    PROVE  NotedInv'
<1>1. p \in UplinkPacket /\ p.type # "InitialUeMessage"
  BY DEF UplinkPacket, DataPacket
<1>2. b \in Iab => p \in Tells[b]
  BY <1>1, Topology DEF Tells
<1>3. nasBuffer \in BuffersOf(Tells)
  BY DEF NotedInv
<1>4. ulq' \in UplinksOf(Tells) /\ nasBuffer' \in BuffersOf(Tells)
  BY <1>1, <1>2, <1>3, SendUpCarries
<1> QED BY <1>4, SameNotes DEF NotedInv

LEMMA RelayDataNoted ==
    ASSUME LiveInv, NotedInv, NEW d \in Devices, RelayData(d)
    PROVE  NotedInv'
<1> DEFINE f == Head(ulq[d])
           q == [ulq EXCEPT ![d] = Tail(@)]
<1>1. /\ ulq[d] # <<>> /\ f.pkt.type = "Data" /\ SendDataUp(Parent[d], f.pkt, q)
      /\ UNCHANGED <<imsiRnti, remoteImsi, mmeCell, session, s1Up, s1Down>>
  BY DEF RelayData, appVars, coreVars
<1>2. f.pkt \in UplinkPacket /\ q \in UplinksOf(Tells) /\ Parent[d] \in Stations
  BY <1>1, HeadTold, Topology DEF Tells
<1>3. f.pkt \in DataPacket
  BY <1>1, <1>2 DEF UplinkPacket, InitialUeMessage
<1> HIDE DEF f, q
<1> QED BY <1>1, <1>2, <1>3, SendDataUpNoted

LEMMA RecvUeDataNoted ==
    ASSUME LiveInv, NotedInv, NEW d \in Devices, RecvUeData(d)
    PROVE  NotedInv'
<1> DEFINE b == Parent[d]
           f == Head(ulq[d])
           q == [ulq EXCEPT ![d] = Tail(@)]
           t == TunnelOf(b, f)
           p == [f.pkt EXCEPT !.teid = t]
<1>1. /\ ulq[d] # <<>> /\ SenderKind(b, f) # "iab"
      /\ \/ SenderKind(b, f) = "ue" /\ SendDataUp(b, p, q)
         \/ ulq' = q /\ UNCHANGED nasVars
      /\ UNCHANGED <<imsiRnti, remoteImsi, mmeCell, session, s1Up, s1Down>>
  BY DEF RecvUeData, appVars, coreVars
<1>2. q \in UplinksOf(Tells) /\ b \in Stations
  BY <1>1, HeadTold, Topology
<1>3. CASE ulq' = q /\ UNCHANGED nasVars
  BY <1>1, <1>2, <1>3, QuietNotes DEF nasVars
<1>4. CASE SenderKind(b, f) = "ue" /\ SendDataUp(b, p, q)
  <2>1. f \in UplinkFrameOf(d) /\ f.rnti \in Rntis /\ f.bid \in Bids
    BY <1>1, LiveParts, HeadUplink
  <2>2. rntiLocalImsi[b][f.rnti] = d
    BY <1>1, <1>4, LiveParts, RelayedBy
  <2>3. d \notin Iab
    BY <1>2, <1>4, <2>2, LiveParts DEF SenderKind, TrafficInv, KindInv
  <2>4. f.pkt \in DataPacket
    BY <2>1, <2>3 DEF UplinkFrameOf, UplinkPacketOf, UplinkPacket, InitialUeMessage
  <2>5. t \in Teids \cup {0}
    <3>1. rbidTeid \in [Stations -> [Rntis -> [Bids -> Teids \cup {0}]]]
      BY LiveTypes
    <3> HIDE DEF f, b
    <3> QED BY <1>2, <2>1, <3>1 DEF TunnelOf
  <2> HIDE DEF t, f, b, q
  <2>6. p \in DataPacket
    BY <2>4, <2>5 DEF DataPacket
  <2> HIDE DEF p
  <2> QED BY <1>1, <1>2, <1>4, <2>6, SendDataUpNoted
<1> QED BY <1>1, <1>3, <1>4

LEMMA UeSendNoted ==
    ASSUME LiveInv, NotedInv, NEW u \in Ue, NEW k \in Bids, UeSend(u, k)
    PROVE  NotedInv'
<1> DEFINE p == [type |-> "Data", ue |-> u, bid |-> k, teid |-> 0]
<1>1. NasSend(u, p, k, ulq) /\ UNCHANGED <<imsiRnti, remoteImsi, mmeCell, session, s1Up, s1Down>>
  BY DEF UeSend, appVars, coreVars
<1>2. u \in Devices /\ p \in UplinkPacket /\ p \in Tells[u]
  BY Topology DEF Tells, UplinkPacket, DataPacket
<1> HIDE DEF p
<1>3. ulq' \in UplinksOf(Tells) /\ nasBuffer' \in BuffersOf(Tells)
  BY <1>1, <1>2, NasSendCarries DEF NotedInv
<1> QED BY <1>1, <1>3, SameNotes DEF NotedInv

LEMMA LoseUplinkNoted ==
    ASSUME NotedInv, NEW d \in Devices, LoseUplink(d)
    PROVE  NotedInv'
<1>1. /\ ulq[d] # <<>> /\ ulq' = [ulq EXCEPT ![d] = Tail(@)]
      /\ UNCHANGED <<imsiRnti, remoteImsi, mmeCell, session, s1Up, s1Down, nasBuffer>>
  BY DEF LoseUplink, nasVars, appVars, coreVars
<1> QED BY <1>1, HeadTold, QuietNotes

\* A NAS flushes packets it has buffered, each as it is.
LEMMA RecvReconfigurationNoted ==
    ASSUME LiveInv, NotedInv, NEW d \in Devices, RecvReconfiguration(d)
    PROVE  NotedInv'
<1> DEFINE n     == Head(srbDl[d]).drbs
           flush == IF n > drbs[d] THEN nasBuffer[d] ELSE <<>>
           sent  == {i \in DOMAIN flush : BearerOf(d, flush[i]) <= n}
           frame(p) == Frame(rnti[d], BearerOf(d, p), p)
           frames(order) == [x \in DOMAIN order |-> frame(flush[order[x]])]
<1> USE Topology
<1>1. /\ rrc[d] = "CONNECTED"
      /\ \/ UNCHANGED ulq
         \/ \E order \in [1 .. Cardinality(sent) -> sent] :
               ulq' = [ulq EXCEPT ![d] = @ \o frames(order)]
      /\ UNCHANGED <<imsiRnti, remoteImsi, mmeCell, session, s1Up, s1Down, nasBuffer>>
  BY DEF RecvReconfiguration, nasVars, appVars, coreVars
<1>2. rnti[d] \in Rntis
  BY <1>1, LiveParts DEF TypeInv, LinkInv, Linked
<1>3. flush \in Seq(Tells[d]) /\ flush \in Seq(UplinkPacketOf(d))
  BY EmptyQueues, LiveParts DEF NotedInv, BuffersOf, TypeInv, QueueInv, NasBuffers
<1>4. ASSUME NEW order \in [1 .. Cardinality(sent) -> sent]
      PROVE  frames(order) \in Seq(FramesOf(Tells[d]))
  <2>1. Cardinality(sent) \in Nat
    <3>1. DOMAIN flush = 1 .. Len(flush) /\ Len(flush) \in Nat
      BY <1>3, LenProperties
    <3>2. IsFiniteSet(DOMAIN flush)
      BY <3>1, FS_Interval
    <3> QED BY <3>2, FS_Subset, FS_CardinalityType
  <2>2. ASSUME NEW x \in 1 .. Cardinality(sent)
        PROVE  frame(flush[order[x]]) \in FramesOf(Tells[d])
    <3> DEFINE p == flush[order[x]]
    <3>1. order[x] \in 1 .. Len(flush)
      BY <1>3, LenProperties
    <3>2. p \in Tells[d] /\ p \in UplinkPacketOf(d) /\ p \in UplinkPacket
      <4>1. p \in Tells[d] /\ p \in UplinkPacketOf(d)
        BY <1>3, <3>1, ElementOfSeq
      <4> QED BY <4>1 DEF UplinkPacketOf
    <3> HIDE DEF p
    <3>3. BearerOf(d, p) \in Bids
      <4>1. CASE d \in Iab
        BY <4>1 DEF BearerOf, Bids
      <4>2. CASE d \notin Iab
        BY <3>2, <4>2 DEF BearerOf, UplinkPacketOf, UplinkPacket, InitialUeMessage, DataPacket
      <4> QED BY <4>1, <4>2
    <3>4. frame(p) \in FramesOf(Tells[d])
      BY <1>2, <3>2, <3>3 DEF Frame, FramesOf, UplinkFrame
    <3> QED BY <3>4 DEF p
  <2>3. frames(order) \in [1 .. Cardinality(sent) -> FramesOf(Tells[d])]
    BY <2>2
  <2> HIDE DEF frames, sent
  <2> QED BY <2>1, <2>3, FunctionIsSeq
<1> HIDE DEF n, flush, sent, frames
<1>5. ulq' \in UplinksOf(Tells)
  <2>1. ulq \in UplinksOf(Tells)
    BY DEF NotedInv
  <2>2. ASSUME NEW order \in [1 .. Cardinality(sent) -> sent],
               ulq' = [ulq EXCEPT ![d] = @ \o frames(order)]
        PROVE  ulq' \in UplinksOf(Tells)
    BY <1>4, <2>1, <2>2, CarryStep
  <2> QED BY <1>1, <2>1, <2>2
<1> QED BY <1>1, <1>5, QuietNotes

LEMMA WiredRecvS1apNoted ==
    ASSUME NotedInv, NEW w \in Wired, WiredRecvS1ap(w)
    PROVE  NotedInv'
<1>1. /\ s1Down[w] # <<>> /\ s1Down' = [s1Down EXCEPT ![w] = Tail(@)]
      /\ UNCHANGED <<imsiRnti, remoteImsi, mmeCell, session, s1Up, ulq, nasBuffer>>
  BY DEF WiredRecvS1ap, RecvFromS1apSocket, ForwardIabS1apReply, SetupContext,
         AbortContextSetup, appVars, nasVars
<1>2. \A x \in Wired : s1Down'[x] \in Seq(RequestOf(x))
  <2> SUFFICES ASSUME NEW x \in Wired PROVE s1Down'[x] \in Seq(RequestOf(x))
    OBVIOUS
  <2>1. s1Down[x] \in Seq(RequestOf(x))
    BY DEF NotedInv
  <2>2. s1Down'[x] = s1Down[x] \/ (x = w /\ s1Down'[x] = Tail(s1Down[x]))
    BY <1>1
  <2> QED BY <1>1, <2>1, <2>2, TakeQueue
<1> QED BY <1>1, <1>2, SameNotes DEF NotedInv

LEMMA IabRecvS1apNoted ==
    ASSUME NotedInv, NEW i \in Iab, IabRecvS1ap(i)
    PROVE  NotedInv'
<1>1. UNCHANGED <<imsiRnti, remoteImsi, mmeCell, session, s1Up, s1Down, ulq, nasBuffer>>
  BY DEF IabRecvS1ap, RecvFromS1apSocket, ForwardIabS1apReply, SetupContext,
         AbortContextSetup, appVars, nasVars, coreVars
<1> QED BY <1>1, QuietNotes DEF NotedInv

\* What a cell has noted it does not forget.
NotesGrow ==
    \A b \in Stations :
        /\ remoteImsi[b] \subseteq remoteImsi'[b]
        /\ \A d \in Devices : imsiRnti[b][d] # 0 => imsiRnti'[b][d] # 0

LEMMA NotesStay ==
    ASSUME NotesGrow
    PROVE  /\ \A b \in Stations, d \in Devices : Noted(b, d) => Noted(b, d)'
           /\ \A b \in Stations : Told(b) \subseteq Told(b)'
           /\ \A d \in Devices : Tells[d] \subseteq Tells'[d]
           /\ \A d \in Devices : Known(d) /\ mmeCell'[d] = mmeCell[d] => Known(d)'
<1>1. \A b \in Stations, d \in Devices : Noted(b, d) => Noted(b, d)'
  BY DEF NotesGrow, Noted
<1>2. \A b \in Stations : Told(b) \subseteq Told(b)'
  BY <1>1 DEF Told, InitialUeMessage
<1>3. \A d \in Devices : Tells[d] \subseteq Tells'[d]
  <2> SUFFICES ASSUME NEW d \in Devices PROVE Tells[d] \subseteq Tells'[d]
    OBVIOUS
  <2>1. d \in Iab => Told(d) \subseteq Told(d)'
    BY <1>2, Topology
  <2> HIDE DEF Told
  <2> QED BY <2>1 DEF Tells
<1>4. \A d \in Devices : Known(d) /\ mmeCell'[d] = mmeCell[d] => Known(d)'
  BY <1>1 DEF Known
<1> QED BY <1>1, <1>2, <1>3, <1>4

\* A cell that has noted a device passes its request on.
LEMMA SendS1apNoted ==
    ASSUME LiveInv, NotedInv, NotesGrow, NEW b \in Stations, NEW m \in InitialUeMessage,
           m \in Told(b)', NEW q \in UplinksOf(Tells), SendS1ap(b, m, q)
    PROVE  /\ ulq' \in UplinksOf(Tells)' /\ nasBuffer' \in BuffersOf(Tells)'
           /\ \A w \in Wired : s1Up'[w] \in Seq(Told(w)')
<1>1. PICK P : P = Tells'
  OBVIOUS
<1>2. q \in UplinksOf(P) /\ nasBuffer \in BuffersOf(P)
  <2>1. \A d \in Devices : Tells[d] \subseteq P[d]
    BY <1>1, NotesStay
  <2>2. PICK O : O = Tells
    OBVIOUS
  <2>3. BuffersOf(O) \subseteq BuffersOf(P) /\ UplinksOf(O) \subseteq UplinksOf(P)
    BY <2>1, <2>2, CarryMore
  <2> QED BY <2>2, <2>3 DEF NotedInv
<1>3. m \in UplinkPacket /\ (b \in Iab => m \in P[b])
  BY <1>1, Topology DEF Tells, UplinkPacket
<1>4. ulq' \in UplinksOf(P) /\ nasBuffer' \in BuffersOf(P)
  BY <1>2, <1>3, SendUpCarries
<1>5. ulq' \in UplinksOf(Tells)' /\ nasBuffer' \in BuffersOf(Tells)'
  BY <1>1, <1>4 DEF UplinksOf, BuffersOf
<1>6. ASSUME NEW w \in Wired PROVE s1Up'[w] \in Seq(Told(w)')
  <2>1. w \in Stations
    BY Topology
  <2>2. s1Up[w] \in Seq(Told(w)')
    <3>1. Seq(Told(w)) \subseteq Seq(Told(w)')
      BY <2>1, NotesStay, SeqMonotonic
    <3> QED BY <3>1 DEF NotedInv
  <2>3. s1Up'[w] = s1Up[w] \/ (b = w /\ s1Up'[w] = Append(s1Up[w], m))
    <3>1. DOMAIN s1Up = Wired
      BY LiveParts DEF TypeInv, TypeOK, CoreTypes
    <3> QED BY <3>1 DEF SendS1ap
  <2> QED BY <2>2, <2>3, AppendQueue
<1> QED BY <1>5, <1>6

\* What a step that notes a device has to show.
LEMMA NewNotes ==
    ASSUME LiveInv, NotedInv, NotesGrow, UNCHANGED <<mmeCell, session, s1Down>>,
           ulq' \in UplinksOf(Tells)', nasBuffer' \in BuffersOf(Tells)',
           \A w \in Wired : s1Up'[w] \in Seq(Told(w)'),
           \A i \in Iab, d \in Devices :
               d \in remoteImsi'[Parent[i]] /\ d \in Below[i] =>
                   d \in remoteImsi[Parent[i]] \/ (Noted(i, d) /\ mmeCell[i] = Parent[i])
    PROVE  NotedInv'
<1>1. \A b \in Stations, d \in Devices : Noted(b, d) => Noted(b, d)'
  BY NotesStay
<1>2. \A i \in Iab, d \in Devices :
         d \in remoteImsi'[Parent[i]] /\ d \in Below[i] => Noted(i, d)' /\ mmeCell'[i] = Parent[i]
  BY <1>1, Topology DEF NotedInv
<1>3. ASSUME NEW t \in 1 .. Len(session) PROVE Known(Owner(t))'
  <2>1. Owner(t) \in Devices
    <3>1. session \in Seq([imsi : Devices, bid : Bids])
      BY LiveParts DEF TypeInv, TypeOK, CoreTypes
    <3>2. session[t] \in [imsi : Devices, bid : Bids]
      BY <3>1, ElementOfSeq
    <3> QED BY <3>2 DEF Owner
  <2>2. Known(Owner(t)) /\ Owner(t)' = Owner(t)
    BY DEF NotedInv, Owner
  <2>3. PICK d \in Devices : d = Owner(t)
    BY <2>1
  <2>4. Known(d)'
    BY <2>2, <2>3, NotesStay
  <2> QED BY <2>2, <2>3, <2>4 DEF Known, Noted
<1>4. \A w \in Wired : s1Down'[w] \in Seq(RequestOf(w)')
  BY DEF NotedInv, RequestOf
<1> QED BY <1>2, <1>3, <1>4 DEF NotedInv

LEMMA RecvConnectionRequestNoted ==
    ASSUME LiveInv, NotedInv, NEW d \in Devices, RecvConnectionRequest(d)
    PROVE  NotedInv'
<1> DEFINE b == Parent[d]
           r == Head(srbUl[d]).rnti
           m == [type |-> "InitialUeMessage", imsi |-> d, gci |-> b, parents |-> AddParent(b)]
<1>1. /\ srbUl[d] # <<>> /\ SendS1ap(b, m, ulq)
      /\ imsiRnti' = [imsiRnti EXCEPT ![b][d] = r]
      /\ UNCHANGED <<remoteImsi, mmeCell, session, s1Down>>
  BY DEF RecvConnectionRequest
<1>2. b \in Stations /\ r \in Rntis /\ d \in Below[b] /\ r # 0
  BY <1>1, HeadRnti, LiveParts, Topology, TopologyAssumption DEF Rntis
<1>3. m \in InitialUeMessage /\ m.gci = Parent[m.imsi] /\ m.imsi = d
  BY <1>2 DEF InitialUeMessage, AddParent
<1> HIDE DEF r, m
<1>4. \A x \in Stations, y \in Devices :
         imsiRnti'[x][y] = IF x = b /\ y = d THEN r ELSE imsiRnti[x][y]
  <2>1. imsiRnti \in [Stations -> [Devices -> Rntis \cup {0}]]
    BY LiveTypes
  <2> QED BY <1>1, <1>2, <2>1, UpdateTwice
<1>5. NotesGrow
  BY <1>1, <1>2, <1>4 DEF NotesGrow
<1>6. m \in Told(b)'
  BY <1>2, <1>3, <1>4 DEF Told, Noted
<1> HIDE DEF b
<1>7. ulq \in UplinksOf(Tells)
  BY DEF NotedInv
<1>8. /\ ulq' \in UplinksOf(Tells)' /\ nasBuffer' \in BuffersOf(Tells)'
      /\ \A w \in Wired : s1Up'[w] \in Seq(Told(w)')
  BY <1>1, <1>2, <1>3, <1>5, <1>6, <1>7, SendS1apNoted
<1> QED BY <1>1, <1>5, <1>8, NewNotes

\* A device that has something on the air has attached.
LEMMA SenderIsKnown ==
    ASSUME LiveInv, NotedInv, NEW d \in Devices, ulq[d] # <<>>
    PROVE  Known(d) /\ HasSession(d)
<1> DEFINE b == Parent[d]
           r == rnti[d]
           k == Head(ulq[d]).bid
           t == rbidTeid[b][r][k]
<1>1. Head(ulq[d]) \in CurrentFrame(d) /\ b \in Stations
  BY HeadFrame, Topology
<1>2. /\ rrc[d] = "CONNECTED" /\ r \in Rntis /\ k \in Bids
      /\ k \in 1 .. ueMap[b][r].drbs
  BY <1>1 DEF CurrentFrame, UplinkFrame, Served
<1>3. ueMap[b][r].state # "NONE" /\ rntiLocalImsi[b][r] = d
  BY <1>2 DEF LiveInv, AttachedInv, Attached, Served
<1> HIDE DEF k
<1>4. t # 0
  <2>1. ueMap[b][r].drbs # 0
    BY <1>2
  <2> QED BY <1>1, <1>2, <1>3, <2>1 DEF LiveInv, ContextInv, Contexts
<1>5. Tunnelled(b, r, k)
  BY <1>1, <1>2, LiveParts DEF TrafficInv, TunnelInv
<1>6. t \in Teids
  BY <1>1, <1>2, <1>4, LiveTypes
<1>7. Allocated(t) /\ session[t] = [imsi |-> d, bid |-> k]
  BY <1>3, <1>4, <1>5 DEF Tunnelled
<1> HIDE DEF t
<1> QED BY <1>7 DEF NotedInv, Allocated, Owner, HasSession

\* A cell takes a request from a child it has been told by, and notes it.
LEMMA RelayInitialUeMessageNoted ==
    ASSUME LiveInv, NotedInv, NEW d \in Devices, RelayInitialUeMessage(d)
    PROVE  NotedInv'
<1> DEFINE b == Parent[d]
           f == Head(ulq[d])
           m == f.pkt
           e == m.imsi
           p == [m EXCEPT !.parents = @ \cup AddParent(b)]
           q == [ulq EXCEPT ![d] = Tail(@)]
<1>1. /\ ulq[d] # <<>> /\ m.type = "InitialUeMessage" /\ SendS1ap(b, p, q)
      /\ imsiRnti' = [imsiRnti EXCEPT ![b][e] = f.rnti]
      /\ remoteImsi' = [remoteImsi EXCEPT ![b] = @ \cup {e}]
      /\ UNCHANGED <<mmeCell, session, s1Down>>
  BY DEF RelayInitialUeMessage
<1>2. m \in Tells[d] /\ q \in UplinksOf(Tells) /\ f \in CurrentFrame(d) /\ Known(d)
  BY <1>1, HeadTold, HeadFrame, SenderIsKnown
<1>3. m \in InitialUeMessage /\ d \in Iab /\ m \in Told(d) /\ f.rnti \in Rntis /\ f.rnti # 0
  <2>1. f.rnti \in Rntis /\ 0 \notin Rntis
    BY <1>2 DEF CurrentFrame, UplinkFrame, Rntis
  <2>2. d \in Iab /\ m \in Told(d)
    BY <1>1, <1>2, Topology DEF Tells
  <2> QED BY <2>1, <2>2 DEF Told
<1>4. e \in Devices /\ m.gci = Parent[e] /\ e \in Below[d] /\ Noted(d, e)
  BY <1>3 DEF Told, InitialUeMessage
<1>5. b \in Stations /\ e \in Below[b] /\ Parent[e] # b
  BY <1>3, <1>4, MoreAbove, NotAttachedAbove, Topology
<1>6. p \in InitialUeMessage /\ p.gci = m.gci /\ p.imsi = e
  BY <1>3 DEF InitialUeMessage, AddParent
<1> HIDE DEF b, f, m, e, p, q
<1>7. NotesGrow
  <2>1. /\ imsiRnti \in [Stations -> [Devices -> Rntis \cup {0}]]
        /\ imsiRnti' = [imsiRnti EXCEPT ![b][e] = f.rnti]
    BY <1>1, LiveTypes
  <2>2. \A x \in Stations, y \in Devices :
           imsiRnti'[x][y] = IF x = b /\ y = e THEN f.rnti ELSE imsiRnti[x][y]
    BY <1>3, <1>4, <1>5, <2>1, UpdateTwice
  <2> QED BY <1>1, <1>3, <2>2 DEF NotesGrow
<1>8. \A x \in Stations : remoteImsi'[x] = IF x = b THEN remoteImsi[b] \cup {e} ELSE remoteImsi[x]
  <2>1. DOMAIN remoteImsi = Stations
    BY LiveParts DEF TypeInv, TypeOK, AppTypes
  <2> QED BY <1>1, <1>5, <2>1
<1>9. p \in Told(b)'
  BY <1>4, <1>5, <1>6, <1>8 DEF Told, Noted
<1>10. /\ ulq' \in UplinksOf(Tells)' /\ nasBuffer' \in BuffersOf(Tells)'
       /\ \A w \in Wired : s1Up'[w] \in Seq(Told(w)')
  BY <1>1, <1>2, <1>5, <1>6, <1>7, <1>9, SendS1apNoted
<1>11. ASSUME NEW i \in Iab, NEW x \in Devices, x \in remoteImsi'[Parent[i]], x \in Below[i]
       PROVE  x \in remoteImsi[Parent[i]] \/ (Noted(i, x) /\ mmeCell[i] = Parent[i])
  <2>1. CASE Parent[i] = b /\ x = e
    <3>1. i = d
      BY <1>3, <1>4, <1>11, <2>1, OneBranch DEF b
    <3> QED BY <1>2, <1>4, <2>1, <3>1 DEF Known
  <2>2. CASE ~(Parent[i] = b /\ x = e)
    BY <1>8, <1>11, <2>2, Topology
  <2> QED BY <2>1, <2>2
<1> QED BY <1>1, <1>7, <1>10, <1>11, NewNotes

\* A request that has reached the core went by every cell on its way.
LEMMA NoteReaches ==
    ASSUME NotedInv, NEW w \in Wired, NEW d \in Devices, d \in Below[w], Noted(w, d)
    PROVE  /\ \A b \in Stations : d \in Below[b] => Noted(b, d)
           /\ \A i \in Iab : d \in Below[i] => mmeCell[i] = Parent[i]
<1> DEFINE S == {i \in Iab : d \in Below[i] /\ ~Noted(i, d)}
<1>1. ASSUME NEW b \in Stations, d \in Below[b], ~Noted(b, d) PROVE b \in S
  <2>1. b \in Wired => b = w
    <3>1. w \in Stations /\ b # w => b \in Below[w]
      BY <1>1, OneWired
    <3>2. b \in Wired => b \notin Devices
      BY TopologyAssumption DEF Devices
    <3> QED BY <3>1, <3>2, Topology
  <2> QED BY <1>1, <2>1, Topology
<1>2. ASSUME NEW i \in Iab, d \in Below[i]
      PROVE  /\ d \in Below[Parent[i]] /\ Parent[i] \in Stations /\ i \in Devices
             /\ Noted(Parent[i], d) => Noted(i, d) /\ mmeCell[i] = Parent[i]
  <2>1. d \in Below[Parent[i]] /\ Parent[i] \in Stations /\ i \in Devices
    BY <1>2, MoreAbove, Topology
  <2>2. Parent[d] # Parent[i]
    BY <1>2, NotAttachedAbove
  <2> QED BY <1>2, <2>1, <2>2 DEF Noted, NotedInv
<1>3. S \in SUBSET Iab /\ \A i \in S : Parent[i] \in S
  BY <1>1, <1>2
<1>4. S = {}
  <2> HIDE DEF S
  <2> QED BY <1>3, AscentEnds
<1>5. \A b \in Stations : d \in Below[b] => Noted(b, d)
  BY <1>1, <1>4
<1> QED BY <1>2, <1>5

\* What the MME does with a request: it finds the wired gNB of the device.
Answer(d) ==
    [type |-> "InitialContextSetupRequest", imsi |-> d,
     erabs |-> {<<k, Len(session) + k>> : k \in 1 .. NumBearers[d]}, iab |-> (d \in Iab)]

LEMMA MmeAnswers ==
    ASSUME LiveInv, NotedInv, NEW w \in Wired, MmeRecvInitialUeMessage(w)
    PROVE  LET m     == Head(s1Up[w])
               d     == m.imsi
               wired == WiredDonor(m.gci)
           IN  /\ s1Up[w] # <<>> /\ m \in Told(w) /\ d \in Devices
               /\ wired \in Wired /\ d \in Below[wired]
               /\ \A b \in Stations : d \in Below[b] => Noted(b, d)
               /\ mmeCell' = [mmeCell EXCEPT ![d] = Parent[d]]
               /\ session' = session \o [k \in 1 .. NumBearers[d] |-> [imsi |-> d, bid |-> k]]
               /\ s1Down' = [s1Down EXCEPT ![wired] = Append(@, Answer(d))]
               /\ Answer(d) \in InitialContextSetupRequest
               /\ s1Up' = [s1Up EXCEPT ![w] = Tail(@)]
               /\ UNCHANGED <<imsiRnti, remoteImsi, ulq, nasBuffer, fatal>>
<1> DEFINE m     == Head(s1Up[w])
           d     == m.imsi
           wired == WiredDonor(m.gci)
           n     == NumBearers[d]
           first == Len(session)
<1>1. s1Up[w] # <<>> /\ first + n <= MaxTeid
  BY DEF MmeRecvInitialUeMessage
<1>2. m \in Told(w)
  BY <1>1, TakeQueue DEF NotedInv
<1>3. d \in Devices /\ m.gci = Parent[d] /\ d \in Below[w] /\ Noted(w, d)
  BY <1>2 DEF Told, InitialUeMessage
<1>4. /\ \A b \in Stations : d \in Below[b] => Noted(b, d)
      /\ \A i \in Iab : d \in Below[i] => mmeCell[i] = Parent[i]
  <2> HIDE DEF d
  <2> QED BY <1>3, NoteReaches
<1>5. wired \in Wired /\ d \in Below[wired]
  <2>1. WiredDonor(Parent[d]) \in Wired /\ d \in Below[WiredDonor(Parent[d])]
    <3> HIDE DEF d
    <3> QED BY <1>3, <1>4, DonorFound
  <2> QED BY <1>3, <2>1
<1>6. /\ mmeCell' = [mmeCell EXCEPT ![d] = m.gci]
      /\ session' = session \o [k \in 1 .. n |-> [imsi |-> d, bid |-> k]]
      /\ s1Down' = [s1Down EXCEPT ![wired] = Append(@, Answer(d))]
      /\ s1Up' = [s1Up EXCEPT ![w] = Tail(@)]
      /\ UNCHANGED <<imsiRnti, remoteImsi, ulq, nasBuffer, fatal>>
  BY <1>5 DEF MmeRecvInitialUeMessage, Answer, appVars, nasVars
<1> HIDE DEF d, wired
<1>7. Answer(d) \in InitialContextSetupRequest
  <2>1. n \in Bids /\ first \in Nat /\ session \in Seq([imsi : Devices, bid : Bids])
    BY <1>3, LiveParts, Topology, LenProperties DEF TypeInv, TypeOK, CoreTypes
  <2>2. \A k \in 1 .. n : k \in Bids /\ first + k \in Teids
    <3>1. MaxBearers \in Nat /\ MaxTeid \in Nat
      BY Topology
    <3>2. n \in Nat /\ n <= MaxBearers
      BY <2>1, <3>1 DEF Bids
    <3> HIDE DEF n, first
    <3> QED BY <1>1, <2>1, <3>1, <3>2 DEF Bids, Teids
  <2>3. {<<k, first + k>> : k \in 1 .. n} \in SUBSET (Bids \X Teids)
    <3> HIDE DEF n, first
    <3> QED BY <2>2
  <2> QED BY <1>3, <2>3 DEF Answer, InitialContextSetupRequest
<1> QED BY <1>1, <1>2, <1>3, <1>4, <1>5, <1>6, <1>7 DEF d, wired

LEMMA MmeRecvInitialUeMessageNoted ==
    ASSUME LiveInv, NotedInv, NEW w \in Wired, MmeRecvInitialUeMessage(w)
    PROVE  NotedInv'
<1>1. PICK d \in Devices, wired \in Wired :
      /\ s1Up[w] # <<>> /\ d \in Below[wired]
      /\ \A b \in Stations : d \in Below[b] => Noted(b, d)
      /\ mmeCell' = [mmeCell EXCEPT ![d] = Parent[d]]
      /\ session' = session \o [k \in 1 .. NumBearers[d] |-> [imsi |-> d, bid |-> k]]
      /\ s1Down' = [s1Down EXCEPT ![wired] = Append(@, Answer(d))]
      /\ Answer(d) \in InitialContextSetupRequest
      /\ s1Up' = [s1Up EXCEPT ![w] = Tail(@)]
      /\ UNCHANGED <<imsiRnti, remoteImsi, ulq, nasBuffer>>
  BY MmeAnswers
<1> DEFINE n == NumBearers[d]
<1>2. /\ \A b \in Stations, x \in Devices : Noted(b, x)' = Noted(b, x)
      /\ \A b \in Stations : Told(b)' = Told(b)
      /\ Tells' = Tells
  BY <1>1 DEF Noted, Told, Tells
<1>3. ulq' \in UplinksOf(Tells)' /\ nasBuffer' \in BuffersOf(Tells)'
  BY <1>1, <1>2 DEF NotedInv, UplinksOf, BuffersOf
<1>4. ASSUME NEW x \in Wired PROVE s1Up'[x] \in Seq(Told(x)')
  <2>1. s1Up'[x] = s1Up[x] \/ (x = w /\ s1Up'[x] = Tail(s1Up[x]))
    BY <1>1
  <2>2. s1Up[x] \in Seq(Told(x)) /\ Told(x)' = Told(x)
    BY <1>2, Topology DEF NotedInv
  <2> QED BY <1>1, <2>1, <2>2, TakeQueue
<1>5. ASSUME NEW x \in Wired PROVE s1Down'[x] \in Seq(RequestOf(x))
  <2>1. s1Down'[x] = s1Down[x] \/ (x = wired /\ s1Down'[x] = Append(s1Down[x], Answer(d)))
    BY <1>1
  <2>2. s1Down[x] \in Seq(RequestOf(x))
    BY DEF NotedInv
  <2>3. Answer(d) \in RequestOf(wired)
    BY <1>1 DEF RequestOf, Answer
  <2> QED BY <2>1, <2>2, <2>3, AppendQueue
<1>6. \A x \in Devices : mmeCell'[x] = IF x = d THEN Parent[d] ELSE mmeCell[x]
  <2>1. mmeCell \in [Devices -> Stations \cup {None}]
    BY LiveParts DEF TypeInv, TypeOK, CoreTypes
  <2> QED BY <1>1, <2>1
<1>7. ASSUME NEW i \in Iab, NEW x \in Devices, x \in remoteImsi'[Parent[i]], x \in Below[i]
      PROVE  Noted(i, x)' /\ mmeCell'[i] = Parent[i]
  <2>1. Noted(i, x) /\ mmeCell[i] = Parent[i] /\ i \in Stations /\ i \in Devices
    BY <1>1, <1>7, Topology DEF NotedInv
  <2> QED BY <1>1, <1>2, <1>6, <2>1
<1>8. ASSUME NEW t \in 1 .. Len(session') PROVE Known(Owner(t))'
  <2>1. n \in Bids /\ n \in Nat
    BY <1>1, Topology DEF Bids
  <2>2. /\ Len(session) \in Nat /\ Len(session') = Len(session) + n
        /\ \A s \in 1 .. Len(session) : session'[s] = session[s]
        /\ \A k \in 1 .. n : session'[Len(session) + k] = [imsi |-> d, bid |-> k]
    BY <1>1, <2>1, LiveParts, Allocation
  <2>3. CASE t \in 1 .. Len(session)
    <3>1. Known(Owner(t)) /\ Owner(t)' = Owner(t)
      BY <2>2, <2>3 DEF NotedInv, Owner
    <3>2. Owner(t) \in Devices
      <4>1. session \in Seq([imsi : Devices, bid : Bids])
        BY LiveParts DEF TypeInv, TypeOK, CoreTypes
      <4>2. session[t] \in [imsi : Devices, bid : Bids]
        BY <2>3, <4>1, ElementOfSeq
      <4> QED BY <4>2 DEF Owner
    <3>3. PICK x \in Devices : x = Owner(t)
      BY <3>2
    <3>4. Known(x)'
      BY <1>1, <1>2, <1>6, <3>1, <3>3 DEF Known
    <3> QED BY <3>1, <3>3, <3>4 DEF Known, Noted
  <2>4. CASE t \notin 1 .. Len(session)
    <3>1. PICK k \in 1 .. n : t = Len(session) + k
      <4>1. t - Len(session) \in 1 .. n /\ t = Len(session) + (t - Len(session))
        BY <2>1, <2>2, <2>4
      <4> QED BY <4>1
    <3>2. Owner(t)' = d
      <4>1. session'[t] = [imsi |-> d, bid |-> k]
        BY <2>2, <3>1
      <4> QED BY <4>1 DEF Owner
    <3>3. mmeCell'[d] = Parent[d] /\ \A b \in Stations : d \in Below[b] => Noted(b, d)'
      <4> QED BY <1>1, <1>2, <1>6
    <3> QED BY <3>2, <3>3 DEF Known, Noted
  <2> QED BY <2>3, <2>4
<1> QED BY <1>3, <1>4, <1>5, <1>7, <1>8 DEF NotedInv, Owner, RequestOf

LEMMA NotedInvStep == LiveInv /\ NotedInv /\ [Next]_vars => NotedInv'
<1> SUFFICES ASSUME LiveInv, NotedInv, [Next]_vars PROVE NotedInv'
  OBVIOUS
<1> USE DEF appVars, nasVars, coreVars
<1>1. ASSUME UNCHANGED <<imsiRnti, remoteImsi, mmeCell, session, s1Up, s1Down, nasBuffer, ulq>>
      PROVE  NotedInv'
  BY <1>1, QuietNotes DEF NotedInv
<1>2. ASSUME NEW d \in Devices, Connect(d) PROVE NotedInv'
  <2>1. CASE RandomAccess(d) \/ RecvConnectionSetup(d)
    BY <1>1, <2>1 DEF RandomAccess, RecvConnectionSetup
  <2>2. CASE RecvConnectionSetupCompleted(d) \/ RecvReconfigurationCompleted(d)
    BY <1>1, <2>2 DEF RecvConnectionSetupCompleted, RecvReconfigurationCompleted
  <2> QED BY <1>2, <2>1, <2>2, RecvConnectionRequestNoted, RecvReconfigurationNoted DEF Connect
<1>3. ASSUME NEW d \in Devices, Uplink(d) PROVE NotedInv'
  BY <1>3, RelayInitialUeMessageNoted, RelayDataNoted, RecvUeDataNoted DEF Uplink
<1>4. ASSUME NEW d \in Devices, DownlinkStep(d) PROVE NotedInv'
  <2>1. CASE IabRecvS1ap(d)
    BY <2>1, IabRecvS1apNoted DEF IabRecvS1ap
  <2>2. CASE DropDownlink(d) \/ DeliverToUe(d)
    BY <1>1, <2>2 DEF DropDownlink, DeliverToUe
  <2>3. CASE IabRecvData(d)
    BY <1>1, <2>3 DEF IabRecvData
  <2> QED BY <1>4, <2>1, <2>2, <2>3 DEF DownlinkStep
<1>5. ASSUME NEW d \in Devices, ConnectionTimeout(d) \/ LoseUplink(d) \/ LoseDownlink(d)
      PROVE  NotedInv'
  <2>1. CASE ConnectionTimeout(d) \/ LoseDownlink(d)
    BY <1>1, <2>1 DEF ConnectionTimeout, LoseDownlink
  <2> QED BY <1>5, <2>1, LoseUplinkNoted
<1>6. ASSUME NEW w \in Wired, Wireline(w) \/ MmeRecvInitialUeMessage(w) PROVE NotedInv'
  <2>1. CASE WiredRecvData(w)
    BY <1>1, <2>1 DEF WiredRecvData
  <2> QED BY <1>6, <2>1, WiredRecvS1apNoted, MmeRecvInitialUeMessageNoted DEF Wireline
<1>7. ASSUME NEW b \in Stations, NEW r \in Rntis, RemoveUe(b, r) PROVE NotedInv'
  BY <1>1, <1>7 DEF RemoveUe
<1>8. ASSUME NEW u \in Ue, NEW k \in Bids, UeSend(u, k) \/ SgwRecvFromInternet(u, k)
      PROVE  NotedInv'
  <2>1. CASE SgwRecvFromInternet(u, k)
    BY <1>1, <2>1 DEF SgwRecvFromInternet
  <2> QED BY <1>8, <2>1, UeSendNoted
<1>9. CASE UNCHANGED vars
  BY <1>1, <1>9 DEF vars
<1> QED BY <1>2, <1>3, <1>4, <1>5, <1>6, <1>7, <1>8, <1>9 DEF Next

(***************************************************************************)
(* A device that connects once is asked for once.                          *)
(***************************************************************************)

For(d, m)   == m.type = "InitialUeMessage" /\ m.imsi = d
Names(d, q) == {n \in DOMAIN q : For(d, q[n])}

\* d is named in queue q at most once, and not at all if past.
OneFor(d, q, past) ==
    /\ \A n, k \in Names(d, q) : n = k
    /\ past => Names(d, q) = {}

\* What an IAB node has still to relay, when the uplink queues are q: its NAS
\* keeps what it has flushed.
Packets(q)  == [n \in DOMAIN q |-> q[n].pkt]
Left(i, q)  == IF drbs[i] = 0 THEN nasBuffer[i] ELSE Packets(q[i])
Pending(i)  == Left(i, ulq)

\* The request of a device that has used one RNTI is in one place only: not yet
\* sent, with one of the nodes, with the MME, or in its session.
AsksFirst(d) == \A b \in Stations, r \in Rntis : UeOf(b, r) = d =>
    /\ attempts[d] = 1 /\ \A s \in Rntis : UeOf(b, s) = d => s = r
    /\ ueMap[b][r].state = "INITIAL_RANDOM_ACCESS" => imsiRnti[b][d] = 0

Asks(d) ==
    /\ AsksFirst(d)
    /\ \A i \in Iab : OneFor(d, Pending(i), d \in remoteImsi[Parent[i]])
    /\ \A w \in Wired : OneFor(d, s1Up[w], HasSession(d))
    /\ \A t, s \in 1 .. Len(session) : Owner(t) = d /\ session[s] = session[t] => s = t

OnceInv == \A d \in Devices : attempts[d] <= 1 => Asks(d)

\* A device without bearers has nothing on the air.
EmptyInv == \A d \in Devices : drbs[d] = 0 => ulq[d] = <<>>

\* Queue q names d no more often than p.
NoMore(d, q, p) ==
    /\ Names(d, p) = {} => Names(d, q) = {}
    /\ (\A n, k \in Names(d, p) : n = k) => \A n, k \in Names(d, q) : n = k

LEMMA NamesTail ==
    ASSUME NEW M, NEW q \in Seq(M), q # <<>>, NEW d
    PROVE  /\ NoMore(d, Tail(q), q)
           /\ For(d, Head(q)) /\ OneFor(d, q, FALSE) => Names(d, Tail(q)) = {}
<1> DEFINE n0 == Len(q)
<1>1. /\ n0 \in Nat /\ n0 # 0 /\ DOMAIN q = 1 .. n0 /\ DOMAIN Tail(q) = 1 .. n0 - 1
      /\ Head(q) = q[1] /\ \A n \in 1 .. n0 - 1 : Tail(q)[n] = q[n + 1]
  BY HeadTailProperties
<1> HIDE DEF n0
<1>2. \A n \in Names(d, Tail(q)) : n \in 1 .. n0 - 1 /\ n + 1 \in Names(d, q)
  BY <1>1 DEF Names
<1>3. For(d, Head(q)) => 1 \in Names(d, q)
  BY <1>1 DEF Names
<1>4. NoMore(d, Tail(q), q)
  BY <1>1, <1>2 DEF NoMore
<1>5. ASSUME For(d, Head(q)), OneFor(d, q, FALSE) PROVE Names(d, Tail(q)) = {}
  BY <1>1, <1>2, <1>3, <1>5 DEF OneFor
<1> QED BY <1>4, <1>5

LEMMA NamesAppend ==
    ASSUME NEW M, NEW q \in Seq(M), NEW e, NEW d
    PROVE  /\ ~For(d, e) => NoMore(d, Append(q, e), q)
           /\ Names(d, q) = {} => OneFor(d, Append(q, e), FALSE)
<1> DEFINE n0 == Len(q)
<1>1. /\ n0 \in Nat /\ DOMAIN q = 1 .. n0 /\ DOMAIN Append(q, e) = 1 .. n0 + 1
      /\ Append(q, e)[n0 + 1] = e /\ \A n \in 1 .. n0 : Append(q, e)[n] = q[n]
  OBVIOUS
<1> HIDE DEF n0
<1>2. \A n \in Names(d, Append(q, e)) : n \in Names(d, q) \/ (n = n0 + 1 /\ For(d, e))
  BY <1>1 DEF Names
<1> QED BY <1>2 DEF NoMore, OneFor

(***************************************************************************)
(* Steps that start no request and move none from a node to another.       *)
(***************************************************************************)

LEMMA NoMoreSame ==
    ASSUME NEW d, NEW q PROVE NoMore(d, q, q)
BY DEF NoMore

LEMMA SameAsks ==
    ASSUME NEW d \in Devices, Asks(d), AsksFirst(d)',
           \A i \in Iab : NoMore(d, Pending(i)', Pending(i)),
           UNCHANGED <<remoteImsi, session, s1Up>>
    PROVE  Asks(d)'
<1>1. \A i \in Iab : OneFor(d, Pending(i)', d \in remoteImsi[Parent[i]])
  BY DEF Asks, OneFor, NoMore
<1>2. /\ \A w \in Wired : OneFor(d, s1Up'[w], HasSession(d)')
      /\ \A t, s \in 1 .. Len(session') : Owner(t)' = d /\ session'[s] = session'[t] => s = t
  BY DEF Asks, HasSession, Owner
<1> QED BY <1>1, <1>2 DEF Asks, OneFor, Names

\* A cell that gives out no RNTI takes no request for a first one.
OldRequests ==
    /\ SameUes /\ UNCHANGED <<attempts, imsiRnti, remoteImsi, session, s1Up>>
    /\ \A b \in Stations, r \in Rntis :
          ueMap'[b][r].state = "INITIAL_RANDOM_ACCESS" =>
              ueMap[b][r].state = "INITIAL_RANDOM_ACCESS"

LEMMA SameOnce ==
    ASSUME OnceInv, OldRequests,
           \A d \in Devices, i \in Iab : NoMore(d, Pending(i)', Pending(i))
    PROVE  OnceInv'
<1> SUFFICES ASSUME NEW d \in Devices, attempts'[d] <= 1 PROVE Asks(d)'
  BY DEF OnceInv
<1>1. Asks(d)
  BY DEF OnceInv, OldRequests
<1>2. AsksFirst(d)'
  BY <1>1 DEF Asks, AsksFirst, OldRequests, SameUes, UeOf
<1> QED BY <1>1, <1>2, SameAsks DEF OldRequests

LEMMA QuietOnce ==
    ASSUME OnceInv, EmptyInv, OldRequests, UNCHANGED <<drbs, nasBuffer, ulq>>
    PROVE  OnceInv' /\ EmptyInv'
<1>1. \A d \in Devices, i \in Iab : NoMore(d, Pending(i)', Pending(i))
  <2>1. \A i \in Iab : Pending(i)' = Pending(i)
    BY DEF Pending, Left
  <2> QED BY <2>1, NoMoreSame
<1> QED BY <1>1, SameOnce DEF EmptyInv

\* A cell puts UeManager v in the place of another of the same device.
LEMMA ReplaceOld ==
    ASSUME TypeInv, NEW b \in Stations, NEW r \in Rntis, NEW v \in UeManager,
           ueMap' = [ueMap EXCEPT ![b][r] = v], v.ue = ueMap[b][r].ue,
           v.state = "INITIAL_RANDOM_ACCESS" => ueMap[b][r].state = "INITIAL_RANDOM_ACCESS",
           UNCHANGED <<attempts, imsiRnti, remoteImsi, session, s1Up>>
    PROVE  OldRequests
<1>1. ueMap \in [Stations -> [Rntis -> UeManager]]
  BY DEF TypeInv, TypeOK, CellTypes
<1>2. \A x \in Stations, y \in Rntis :
         ueMap'[x][y] = IF x = b /\ y = r THEN v ELSE ueMap[x][y]
  BY <1>1, UpdateTwice
<1> QED BY <1>2 DEF OldRequests, SameUes

LEMMA ConnectedOnce ==
    ASSUME LiveInv, OnceInv, EmptyInv, NEW d \in Devices,
           RecvConnectionSetupCompleted(d) \/ RecvReconfigurationCompleted(d)
    PROVE  OnceInv' /\ EmptyInv'
<1> DEFINE b == Parent[d]
           r == Head(srbUl[d]).rnti
           u == ueMap[b][r]
<1>1. /\ srbUl[d] # <<>>
      /\ ueMap' = [ueMap EXCEPT ![b][r] = ConnectedNormally(u)]
         \/ ueMap' = [ueMap EXCEPT ![b][r] = Reconfigured(u)]
      /\ UNCHANGED <<attempts, imsiRnti, remoteImsi, session, s1Up, drbs, nasBuffer, ulq>>
  BY DEF RecvConnectionSetupCompleted, RecvReconfigurationCompleted, ueVars, nasVars, appVars,
         coreVars
<1>2. b \in Stations /\ r \in Rntis /\ u \in UeManager
  BY <1>1, HeadRnti, LiveParts, Topology
<1> HIDE DEF b, r, u
<1>3. /\ ConnectedNormally(u) \in UeManager /\ ConnectedNormally(u).ue = u.ue
      /\ ConnectedNormally(u).state # "INITIAL_RANDOM_ACCESS"
  BY <1>2, ConnectedNormallyUe DEF ConnectedNormally, UeManager
<1>4. /\ Reconfigured(u) \in UeManager /\ Reconfigured(u).ue = u.ue
      /\ Reconfigured(u).state # "INITIAL_RANDOM_ACCESS"
  BY <1>3 DEF Reconfigured, UeManager
<1>5. OldRequests
  <2>1. u = ueMap[b][r]
    BY DEF u
  <2> QED BY <1>1, <1>2, <1>3, <1>4, <2>1, ReplaceOld, LiveParts
<1> QED BY <1>1, <1>5, QuietOnce

LEMMA RemoveUeOnce ==
    ASSUME LiveInv, OnceInv, EmptyInv, NEW b \in Stations, NEW r \in Rntis, RemoveUe(b, r)
    PROVE  OnceInv' /\ EmptyInv'
<1> DEFINE v == [ueMap[b][r] EXCEPT !.state = "NONE"]
<1>1. /\ ueMap' = [ueMap EXCEPT ![b][r] = v]
      /\ UNCHANGED <<attempts, imsiRnti, remoteImsi, session, s1Up, drbs, nasBuffer, ulq>>
  BY DEF RemoveUe, ueVars, nasVars, coreVars
<1>2. ueMap[b][r] \in UeManager
  BY LiveTypes
<1>3. v \in UeManager /\ v.ue = ueMap[b][r].ue /\ v.state = "NONE"
  BY <1>2 DEF UeManager, UeManagerState
<1> HIDE DEF v
<1>4. OldRequests
  BY <1>1, <1>3, ReplaceOld, LiveParts
<1> QED BY <1>1, <1>4, QuietOnce

\* A cell sets up the bearers of a request.
LEMMA RecvFromS1apSocketOnce ==
    ASSUME LiveInv, OnceInv, EmptyInv, NEW b \in Stations, NEW m \in Request, NEW q,
           RecvFromS1apSocket(b, m, q),
           UNCHANGED <<attempts, session, s1Up, drbs, nasBuffer, ulq>>
    PROVE  OnceInv' /\ EmptyInv'
<1> DEFINE d == m.imsi
           r == imsiRnti[b][d]
           u == ueMap[b][r]
           n == Cardinality(children[b][r] \ (IF m.iab THEN {} ELSE {d}))
<1>1. d \in Devices
  BY RequestBearers, LiveParts
<1>2. \/ UNCHANGED <<ueMap, imsiRnti, remoteImsi>>
      \/ /\ r # 0 /\ u.state # "NONE" /\ UNCHANGED <<imsiRnti, remoteImsi>>
         /\ \/ ueMap' = [ueMap EXCEPT ![b][r] = [@ EXCEPT !.numIab = n]]
            \/ ueMap' = [ueMap EXCEPT ![b][r] = WithBearers(u, m)]
  BY DEF RecvFromS1apSocket, ForwardIabS1apReply, SetupContext, AbortContextSetup, cellVars,
         appVars
<1>3. CASE UNCHANGED <<ueMap, imsiRnti, remoteImsi>>
  <2>1. OldRequests
    BY <1>3 DEF OldRequests, SameUes
  <2> QED BY <2>1, QuietOnce
<1>4. CASE /\ r # 0 /\ u.state # "NONE" /\ UNCHANGED <<imsiRnti, remoteImsi>>
           /\ ueMap' = [ueMap EXCEPT ![b][r] = WithBearers(u, m)]
  <2>1. r \in Rntis
    BY <1>1, <1>4, LiveTypes
  <2>2. u \in UeManager
    BY <2>1, LiveTypes
  <2>3. WithBearers(u, m) \in UeManager /\ WithBearers(u, m).ue = u.ue
    BY <1>4, <2>2, WithBearersUe, LiveParts
  <2>4. WithBearers(u, m).state = "INITIAL_RANDOM_ACCESS" => u.state = "INITIAL_RANDOM_ACCESS"
    BY <2>2 DEF WithBearers, UeManager
  <2>5. OldRequests
    BY <1>4, <2>1, <2>3, <2>4, ReplaceOld, LiveParts
  <2> QED BY <2>5, QuietOnce
<1>5. CASE /\ r # 0 /\ u.state # "NONE" /\ UNCHANGED <<imsiRnti, remoteImsi>>
           /\ ueMap' = [ueMap EXCEPT ![b][r] = [@ EXCEPT !.numIab = n]]
  <2>1. r \in Rntis
    BY <1>1, <1>5, LiveTypes
  <2>2. \A x \in Stations, y \in Rntis :
           ueMap'[x][y].ue = ueMap[x][y].ue /\ ueMap'[x][y].state = ueMap[x][y].state
    <3>1. ueMap \in [Stations -> [Rntis -> UeManager]]
      BY LiveTypes
    <3>2. \A w \in UeManager : [w EXCEPT !.numIab = n].ue = w.ue
                               /\ [w EXCEPT !.numIab = n].state = w.state
      BY DEF UeManager
    <3> HIDE DEF n, r
    <3>3. \A x \in Stations, y \in Rntis :
             ueMap'[x][y] \in {ueMap[x][y], [ueMap[x][y] EXCEPT !.numIab = n]}
      BY <1>5, <2>1, <3>1
    <3>4. ASSUME NEW x \in Stations, NEW y \in Rntis
          PROVE  ueMap'[x][y].ue = ueMap[x][y].ue /\ ueMap'[x][y].state = ueMap[x][y].state
      <4>1. PICK w \in UeManager : w = ueMap[x][y]
        BY <3>1
      <4>2. [w EXCEPT !.numIab = n].ue = w.ue /\ [w EXCEPT !.numIab = n].state = w.state
        BY <3>2
      <4>3. ueMap'[x][y] \in {w, [w EXCEPT !.numIab = n]}
        BY <3>3, <4>1
      <4> QED BY <4>1, <4>2, <4>3
    <3> QED BY <3>4
  <2>3. OldRequests
    BY <1>5, <2>2 DEF OldRequests, SameUes
  <2> QED BY <2>3, QuietOnce
<1> QED BY <1>2, <1>3, <1>4, <1>5

\* A request that reaches a cell is one of the SGW's.
LEMMA RequestsAreGranted ==
    ASSUME LiveInv
    PROVE  /\ \A w \in Wired : s1Down[w] # <<>> => Head(s1Down[w]) \in Request
           /\ \A i \in Iab : dlq[i] # <<>> /\ Head(dlq[i]).pkt.type = "InitialContextSetupRequest"
                                => Head(dlq[i]).pkt \in Request
<1>1. s1Down \in [Wired -> Seq(Request)]
  BY LiveParts DEF TypeInv, QueueInv, Requests
<1>2. \A w \in Wired : s1Down[w] # <<>> => Head(s1Down[w]) \in Request
  BY <1>1, TakeQueue
<1>3. ASSUME NEW i \in Iab, dlq[i] # <<>>, Head(dlq[i]).pkt.type = "InitialContextSetupRequest"
      PROVE  Head(dlq[i]).pkt \in Request
  <2>1. Head(dlq[i]) \in RequestFrame
    BY <1>3, HeadDownlink, LiveParts, Topology
  <2>2. Head(dlq[i]).pkt \in Request \cup DataPacket
    BY <2>1 DEF RequestFrame
  <2> QED BY <1>3, <2>2 DEF DataPacket
<1> QED BY <1>2, <1>3

LEMMA RecvS1apOnce ==
    ASSUME LiveInv, OnceInv, EmptyInv, NEW b \in Stations,
           (b \in Wired /\ WiredRecvS1ap(b)) \/ IabRecvS1ap(b)
    PROVE  OnceInv' /\ EmptyInv'
<1>1. CASE b \in Wired /\ WiredRecvS1ap(b)
  <2>1. /\ s1Down[b] # <<>> /\ RecvFromS1apSocket(b, Head(s1Down[b]), dlq)
        /\ UNCHANGED <<attempts, session, s1Up, drbs, nasBuffer, ulq>>
    BY <1>1 DEF WiredRecvS1ap, ueVars, nasVars
  <2>2. Head(s1Down[b]) \in Request
    BY <1>1, <2>1, RequestsAreGranted
  <2> QED BY <2>1, <2>2, RecvFromS1apSocketOnce
<1>2. CASE IabRecvS1ap(b)
  <2>1. /\ b \in Iab /\ dlq[b] # <<>> /\ Head(dlq[b]).pkt.type = "InitialContextSetupRequest"
        /\ RecvFromS1apSocket(b, Head(dlq[b]).pkt, [dlq EXCEPT ![b] = Tail(@)])
        /\ UNCHANGED <<attempts, session, s1Up, drbs, nasBuffer, ulq>>
    BY <1>2 DEF IabRecvS1ap, ueVars, nasVars, coreVars
  <2>2. Head(dlq[b]).pkt \in Request
    BY <2>1, RequestsAreGranted
  <2> QED BY <2>1, <2>2, RecvFromS1apSocketOnce
<1> QED BY <1>1, <1>2

(***************************************************************************)
(* Packets.                                                                *)
(***************************************************************************)

LEMMA PacketsOf ==
    ASSUME NEW q \in Seq(UplinkFrame)
    PROVE  /\ Packets(q) \in Seq(UplinkPacket) /\ Packets(<<>>) = <<>>
           /\ q # <<>> => Packets(Tail(q)) = Tail(Packets(q))
                          /\ Packets(q) # <<>> /\ Head(Packets(q)) = Head(q).pkt
           /\ \A f \in UplinkFrame : Packets(Append(q, f)) = Append(Packets(q), f.pkt)
<1>1. \A f \in UplinkFrame : f.pkt \in UplinkPacket
  BY DEF UplinkFrame
<1>2. Len(q) \in Nat /\ DOMAIN q = 1 .. Len(q) /\ \A n \in 1 .. Len(q) : q[n] \in UplinkFrame
  BY LenProperties, ElementOfSeq
<1>3. /\ Packets(q) \in [1 .. Len(q) -> UplinkPacket] /\ DOMAIN Packets(q) = 1 .. Len(q)
      /\ \A n \in 1 .. Len(q) : Packets(q)[n] = q[n].pkt
  BY <1>1, <1>2 DEF Packets
<1>4. Packets(q) \in Seq(UplinkPacket) /\ Len(Packets(q)) = Len(q)
  BY <1>2, <1>3, FunctionIsSeq, LenProperties
<1>5. Packets(<<>>) = <<>>
  BY DEF Packets
<1>6. ASSUME q # <<>>
      PROVE  /\ Packets(Tail(q)) = Tail(Packets(q))
             /\ Packets(q) # <<>> /\ Head(Packets(q)) = Head(q).pkt
  <2>1. Len(q) # 0 /\ Head(q) = q[1]
    BY <1>2, <1>6
  <2>2. Packets(q) # <<>> /\ Head(Packets(q)) = Packets(q)[1]
    BY <1>4, <2>1
  <2>3. /\ DOMAIN Tail(q) = 1 .. Len(q) - 1
        /\ \A n \in 1 .. Len(q) - 1 : Tail(q)[n] = q[n + 1]
    BY <1>2, <1>6, HeadTailProperties
  <2>4. /\ Tail(Packets(q)) \in Seq(UplinkPacket) /\ Len(Tail(Packets(q))) = Len(q) - 1
        /\ \A n \in 1 .. Len(q) - 1 : Tail(Packets(q))[n] = Packets(q)[n + 1]
    BY <1>4, <2>2, HeadTailProperties
  <2>5. /\ Tail(Packets(q)) = [n \in 1 .. Len(q) - 1 |-> Tail(Packets(q))[n]]
    BY <2>4, LenProperties
  <2>6. \A n \in 1 .. Len(q) - 1 : Tail(Packets(q))[n] = Tail(q)[n].pkt
    <3>1. \A n \in 1 .. Len(q) - 1 : n + 1 \in 1 .. Len(q)
      BY <1>2
    <3> QED BY <1>3, <2>3, <2>4, <3>1
  <2>7. Packets(Tail(q)) = [n \in 1 .. Len(q) - 1 |-> Tail(q)[n].pkt]
    BY <2>3 DEF Packets
  <2>8. Packets(Tail(q)) = Tail(Packets(q))
    BY <2>5, <2>6, <2>7, Zenon
  <2> QED BY <1>2, <1>3, <2>1, <2>2, <2>8
<1>7. ASSUME NEW f \in UplinkFrame PROVE Packets(Append(q, f)) = Append(Packets(q), f.pkt)
  <2>1. /\ DOMAIN Append(q, f) = 1 .. Len(q) + 1 /\ Append(q, f)[Len(q) + 1] = f
        /\ \A n \in 1 .. Len(q) : Append(q, f)[n] = q[n]
    BY <1>2, AppendProperties
  <2>2. /\ Append(Packets(q), f.pkt) \in Seq(UplinkPacket)
        /\ Len(Append(Packets(q), f.pkt)) = Len(q) + 1
        /\ Append(Packets(q), f.pkt)[Len(q) + 1] = f.pkt
        /\ \A n \in 1 .. Len(q) : Append(Packets(q), f.pkt)[n] = Packets(q)[n]
    BY <1>1, <1>4, AppendProperties
  <2>3. Append(Packets(q), f.pkt) = [n \in 1 .. Len(q) + 1 |-> Append(Packets(q), f.pkt)[n]]
    BY <2>2, LenProperties
  <2>4. \A n \in 1 .. Len(q) + 1 : Append(Packets(q), f.pkt)[n] = Append(q, f)[n].pkt
    <3>1. \A n \in 1 .. Len(q) + 1 : n \in 1 .. Len(q) \/ n = Len(q) + 1
      BY <1>2
    <3> QED BY <1>3, <2>1, <2>2, <3>1
  <2>5. Packets(Append(q, f)) = [n \in 1 .. Len(q) + 1 |-> Append(q, f)[n].pkt]
    BY <2>1 DEF Packets
  <2> QED BY <2>3, <2>4, <2>5, Zenon
<1> QED BY <1>4, <1>5, <1>6, <1>7

\* A device without bearers has nothing in the uplink queues q.
Fits(q) == \A d \in Devices : drbs[d] = 0 => q[d] = <<>>

\* What a node sends is one thing more for it to relay, or is lost.
LEMMA NasSendPending ==
    ASSUME LiveInv, NEW i \in Devices, NEW k \in Bids, NEW p \in UplinkPacket,
           NEW q \in CurrentQueues, Fits(q), UNCHANGED drbs, NasSend(i, p, k, q)
    PROVE  /\ EmptyInv'
           /\ \A j \in Devices : \/ Pending(j)' = Left(j, q)
                                 \/ j = i /\ Pending(j)' = Append(Left(j, q), p)
<1>1. /\ nasBuffer \in [Devices -> Seq(UplinkPacket)]
      /\ q \in [Devices -> Seq(UplinkFrame)] /\ drbs \in [Devices -> Bids \cup {0}]
      /\ rnti \in [Devices -> Rntis \cup {0}]
  BY LiveParts DEF TypeInv, TypeOK, NasTypes, DeviceTypes, CurrentQueues
<1>2. CASE /\ nasBuffer' = [nasBuffer EXCEPT ![i] = Append(@, p)] /\ ulq' = q
  <2>1. \A j \in Devices : ulq'[j] = q[j] /\ nasBuffer'[j] =
            IF j = i THEN Append(nasBuffer[j], p) ELSE nasBuffer[j]
    BY <1>1, <1>2
  <2> QED BY <2>1 DEF EmptyInv, Fits, Pending, Left
<1>3. CASE /\ nas[i] = "ACTIVE" /\ k <= drbs[i]
           /\ ulq' = [q EXCEPT ![i] = Append(@, Frame(rnti[i], k, p))]
           /\ UNCHANGED nasBuffer
  <2>1. drbs[i] # 0
    BY <1>1, <1>3 DEF Bids
  <2>2. rnti[i] \in Rntis
    BY <1>3, LiveParts DEF LiveInv, AttachedInv, Attached, TypeInv, LinkInv, Linked
  <2>3. Frame(rnti[i], k, p) \in UplinkFrame /\ Frame(rnti[i], k, p).pkt = p
    BY <2>2 DEF Frame, UplinkFrame
  <2> DEFINE f == Frame(rnti[i], k, p)
  <2> HIDE DEF f
  <2>4. \A j \in Devices : ulq'[j] = IF j = i THEN Append(q[j], f) ELSE q[j]
    BY <1>1, <1>3 DEF f
  <2>5. EmptyInv'
    BY <2>1, <2>4 DEF EmptyInv, Fits
  <2>6. Packets(Append(q[i], f)) = Append(Packets(q[i]), p)
    BY <1>1, <2>3, PacketsOf DEF f
  <2>7. \A j \in Devices : j # i => Pending(j)' = Left(j, q)
    BY <1>3, <2>4 DEF Pending, Left
  <2>8. Pending(i)' = Append(Left(i, q), p)
    BY <1>3, <2>1, <2>4, <2>6 DEF Pending, Left
  <2> QED BY <2>5, <2>7, <2>8
<1>4. CASE ulq' = q /\ UNCHANGED nasBuffer
  BY <1>4 DEF EmptyInv, Fits, Pending, Left
<1> QED BY <1>2, <1>3, <1>4 DEF NasSend

\* The first packet on the air of a device is the first it has to relay.
LEMMA HeadPending ==
    ASSUME LiveInv, EmptyInv, NEW d \in Devices, ulq[d] # <<>>,
           NEW q, q = [ulq EXCEPT ![d] = Tail(@)]
    PROVE  /\ q \in CurrentQueues /\ Fits(q)
           /\ Pending(d) # <<>> /\ Head(Pending(d)) = Head(ulq[d]).pkt
           /\ \A j \in Devices : Left(j, q) = IF j = d THEN Tail(Pending(j)) ELSE Pending(j)
<1>1. ulq \in [Devices -> Seq(UplinkFrame)] /\ q \in CurrentQueues /\ drbs[d] # 0
  BY HeadFrame DEF LiveInv, CurrentInv, CurrentQueues, EmptyInv
<1>2. \A j \in Devices : q[j] = IF j = d THEN Tail(ulq[j]) ELSE ulq[j]
  BY <1>1
<1>3. Fits(q)
  BY <1>1, <1>2 DEF EmptyInv, Fits
<1>4. /\ Packets(Tail(ulq[d])) = Tail(Packets(ulq[d]))
      /\ Packets(ulq[d]) # <<>> /\ Head(Packets(ulq[d])) = Head(ulq[d]).pkt
  BY <1>1, PacketsOf
<1>5. \A j \in Devices : Left(j, q) = IF j = d THEN Tail(Pending(j)) ELSE Pending(j)
  BY <1>1, <1>2, <1>4 DEF Left, Pending
<1> QED BY <1>1, <1>3, <1>4, <1>5 DEF Left, Pending

LEMMA PendingTypes ==
    ASSUME LiveInv
    PROVE  \A j \in Devices : Pending(j) \in Seq(UplinkPacket)
<1>1. ulq \in [Devices -> Seq(UplinkFrame)] /\ nasBuffer \in [Devices -> Seq(UplinkPacket)]
  BY LiveParts DEF LiveInv, CurrentInv, CurrentQueues, TypeInv, TypeOK, NasTypes
<1> QED BY <1>1, PacketsOf DEF Pending, Left

\* A device sends or loses no request.
LEMMA DataOnce ==
    ASSUME LiveInv, OnceInv, EmptyInv, UNCHANGED <<drbs, ueMap, session>>,
           UNCHANGED <<attempts, imsiRnti, remoteImsi, s1Up>>,
           NEW q \in CurrentQueues, Fits(q),
           \A e \in Devices, j \in Iab : NoMore(e, Left(j, q), Pending(j)),
           \A j \in Devices : Left(j, q) \in Seq(UplinkPacket),
           \/ ulq' = q /\ UNCHANGED nasVars
           \/ \E i \in Devices, k \in Bids, p \in DataPacket : NasSend(i, p, k, q)
    PROVE  OnceInv' /\ EmptyInv'
<1>1. OldRequests
  BY DEF OldRequests, SameUes
<1>2. CASE ulq' = q /\ UNCHANGED nasVars
  <2>1. \A j \in Devices : Pending(j)' = Left(j, q)
    BY <1>2 DEF Pending, Left, nasVars
  <2>2. EmptyInv'
    BY <1>2 DEF EmptyInv, Fits
  <2>3. Iab \subseteq Devices
    BY Topology
  <2> QED BY <1>1, <2>1, <2>2, <2>3, SameOnce
<1>3. CASE \E i \in Devices, k \in Bids, p \in DataPacket : NasSend(i, p, k, q)
  <2>1. PICK i \in Devices, k \in Bids, p \in DataPacket : NasSend(i, p, k, q)
    BY <1>3
  <2>2. p \in UplinkPacket /\ p.type = "Data"
    BY DEF UplinkPacket, DataPacket
  <2>3. /\ EmptyInv'
        /\ \A j \in Devices : \/ Pending(j)' = Left(j, q)
                              \/ Pending(j)' = Append(Left(j, q), p)
    BY <2>1, <2>2, NasSendPending
  <2>4. ASSUME NEW e \in Devices, NEW j \in Iab PROVE NoMore(e, Pending(j)', Pending(j))
    <3>1. j \in Devices /\ ~For(e, p)
      BY <2>2, Topology DEF For
    <3>2. NoMore(e, Append(Left(j, q), p), Left(j, q))
      BY <3>1, NamesAppend
    <3> QED BY <2>3, <3>1, <3>2 DEF NoMore
  <2> QED BY <1>1, <2>3, <2>4, SameOnce
<1> QED BY <1>2, <1>3

LEMMA HeadTakenOnce ==
    ASSUME LiveInv, OnceInv, EmptyInv, UNCHANGED <<drbs, ueMap, session>>,
           UNCHANGED <<attempts, imsiRnti, remoteImsi, s1Up>>,
           NEW d \in Devices, ulq[d] # <<>>, NEW q, q = [ulq EXCEPT ![d] = Tail(@)],
           \/ ulq' = q /\ UNCHANGED nasVars
           \/ \E b \in Stations, p \in DataPacket : SendDataUp(b, p, q)
    PROVE  OnceInv' /\ EmptyInv'
<1>1. /\ q \in CurrentQueues /\ Fits(q) /\ Pending(d) # <<>>
      /\ \A j \in Devices : Left(j, q) = IF j = d THEN Tail(Pending(j)) ELSE Pending(j)
  BY HeadPending
<1>2. \A j \in Devices : Pending(j) \in Seq(UplinkPacket)
  BY PendingTypes
<1>3. \A j \in Devices : Left(j, q) \in Seq(UplinkPacket)
  BY <1>1, <1>2, TakeQueue
<1>4. \A e \in Devices, j \in Iab : NoMore(e, Left(j, q), Pending(j))
  <2>1. \A e, j : j \in Devices => NoMore(e, Left(j, q), Pending(j))
    <3>1. SUFFICES ASSUME NEW e, NEW j, j \in Devices PROVE NoMore(e, Left(j, q), Pending(j))
      OBVIOUS
    <3>2. CASE j = d
      BY <1>1, <1>2, <3>2, NamesTail
    <3>3. CASE j # d
      BY <1>1, <3>1, <3>3, NoMoreSame
    <3> QED BY <3>2, <3>3
  <2> QED BY <2>1, Topology
<1>5. \/ ulq' = q /\ UNCHANGED nasVars
      \/ \E i \in Devices, k \in Bids, p \in DataPacket : NasSend(i, p, k, q)
  <2>1. 1 \in Bids /\ Iab \subseteq Devices
    BY Topology DEF Bids
  <2>2. ASSUME NEW b \in Stations, NEW p \in DataPacket, SendDataUp(b, p, q)
        PROVE  \/ ulq' = q /\ UNCHANGED nasVars
               \/ b \in Devices /\ NasSend(b, p, 1, q)
    BY <2>1, <2>2 DEF SendDataUp
  <2> QED BY <2>1, <2>2
<1> QED BY <1>1, <1>3, <1>4, <1>5, DataOnce

LEMMA PacketsOnce ==
    ASSUME LiveInv, OnceInv, EmptyInv, NEW d \in Devices,
           LoseUplink(d) \/ RelayData(d) \/ RecvUeData(d)
    PROVE  OnceInv' /\ EmptyInv'
<1> DEFINE b == Parent[d]
           q == [ulq EXCEPT ![d] = Tail(@)]
<1>1. /\ ulq[d] # <<>> /\ UNCHANGED <<drbs, ueMap, session>>
      /\ UNCHANGED <<attempts, imsiRnti, remoteImsi, s1Up>>
  BY DEF LoseUplink, RelayData, RecvUeData, ueVars, cellVars, coreVars, appVars
<1>2. b \in Stations /\ Head(ulq[d]).pkt \in UplinkPacket /\ d \in Devices
  BY <1>1, HeadUplink, LiveParts, Topology DEF UplinkPacketOf
<1>3. ASSUME RelayData(d) PROVE \E c \in Stations, p \in DataPacket : SendDataUp(c, p, q)
  BY <1>2, <1>3 DEF RelayData, UplinkPacket, DataPacket, InitialUeMessage
<1>4. ASSUME RecvUeData(d)
      PROVE  \/ ulq' = q /\ UNCHANGED nasVars
             \/ \E c \in Stations, p \in DataPacket : SendDataUp(c, p, q)
  <2> DEFINE f == Head(ulq[d])
             t == TunnelOf(b, f)
  <2>1. \/ ulq' = q /\ UNCHANGED nasVars
        \/ SenderKind(b, f) = "ue" /\ t # 0 /\ SendDataUp(b, [f.pkt EXCEPT !.teid = t], q)
    BY <1>4 DEF RecvUeData
  <2>2. CASE ulq' = q /\ UNCHANGED nasVars
    BY <2>2
  <2>3. CASE /\ SenderKind(b, f) = "ue" /\ t # 0
             /\ SendDataUp(b, [f.pkt EXCEPT !.teid = t], q)
    <3>1. rntiLocalImsi[b][f.rnti] = d /\ imsiIab[b][d] = "ue"
      BY <1>1, <2>3, RelayedBy, LiveParts DEF SenderKind
    <3>2. d \notin Iab
      BY <1>2, <3>1, LiveParts DEF TrafficInv, KindInv
    <3>3. f.pkt \in DataPacket
      <4>1. f.pkt \in UplinkPacketOf(d)
        BY <1>1, HeadUplink, LiveParts
      <4> QED BY <3>2, <4>1 DEF UplinkPacketOf, UplinkPacket, InitialUeMessage
    <3>4. t \in Teids \cup {0}
      <4>1. f.rnti \in Rntis /\ f.bid \in Bids
        BY <1>1, HeadUplink, LiveParts
      <4> QED BY <1>2, <4>1, LiveTypes DEF TunnelOf
    <3> HIDE DEF t
    <3>5. [f.pkt EXCEPT !.teid = t] \in DataPacket
      BY <3>3, <3>4 DEF DataPacket
    <3> QED BY <1>2, <2>3, <3>5
  <2> QED BY <2>1, <2>2, <2>3
<1>5. LoseUplink(d) => ulq' = q /\ UNCHANGED nasVars
  BY DEF LoseUplink
<1>6. PICK qq : qq = q
  OBVIOUS
<1>7. \/ ulq' = qq /\ UNCHANGED nasVars
      \/ \E c \in Stations, p \in DataPacket : SendDataUp(c, p, qq)
  BY <1>3, <1>4, <1>5, <1>6
<1> QED BY <1>1, <1>6, <1>7, HeadTakenOnce

LEMMA UeSendOnce ==
    ASSUME LiveInv, OnceInv, EmptyInv, NEW u \in Ue, NEW k \in Bids, UeSend(u, k)
    PROVE  OnceInv' /\ EmptyInv'
<1> DEFINE p == [type |-> "Data", ue |-> u, bid |-> k, teid |-> 0]
<1>1. /\ NasSend(u, p, k, ulq)
      /\ UNCHANGED <<drbs, ueMap, session>>
      /\ UNCHANGED <<attempts, imsiRnti, remoteImsi, s1Up>>
  BY DEF UeSend, ueVars, cellVars, appVars, coreVars
<1>2. p \in DataPacket /\ u \in Devices
  BY Topology DEF DataPacket
<1>3. ulq \in CurrentQueues /\ Fits(ulq)
  BY DEF LiveInv, CurrentInv, EmptyInv, Fits
<1>4. \A e \in Devices, j \in Iab : NoMore(e, Left(j, ulq), Pending(j))
  BY NoMoreSame DEF Pending
<1>5. \A j \in Devices : Left(j, ulq) \in Seq(UplinkPacket)
  BY PendingTypes DEF Pending
<1> QED BY <1>1, <1>2, <1>3, <1>4, <1>5, DataOnce

\* A queue made of different members of another names d no more often.
LEMMA NamesSome ==
    ASSUME NEW q, NEW p, NEW g, NEW d,
           \A x \in DOMAIN q : g[x] \in DOMAIN p /\ q[x] = p[g[x]],
           \A x, y \in DOMAIN q : g[x] = g[y] => x = y
    PROVE  NoMore(d, q, p)
<1>1. \A x \in Names(d, q) : x \in DOMAIN q /\ g[x] \in Names(d, p)
  BY DEF Names
<1> QED BY <1>1 DEF NoMore

\* The first flush sends what was buffered, in order; another sends nothing
\* more, or ends the program.
LEMMA FlushPending ==
    ASSUME LiveInv, EmptyInv, NEW d \in Iab, RecvReconfiguration(d), NEW e
    PROVE  NoMore(e, Pending(d)', Pending(d))
<1> DEFINE n     == Head(srbDl[d]).drbs
           flush == IF n > drbs[d] THEN nasBuffer[d] ELSE <<>>
           twice == \E i \in DOMAIN flush : BearerOf(d, flush[i]) <= drbs[d]
           sent  == {i \in DOMAIN flush : BearerOf(d, flush[i]) <= n}
           frame(p) == Frame(rnti[d], BearerOf(d, p), p)
           frames(order) == [x \in DOMAIN order |-> frame(flush[order[x]])]
<1>1. /\ srbDl[d] # <<>> /\ Head(srbDl[d]).type = "ConnectionReconfiguration"
      /\ drbs' = [drbs EXCEPT ![d] = n] /\ UNCHANGED nasBuffer
      /\ \/ twice /\ UNCHANGED ulq
         \/ /\ ~twice
            /\ \E order \in [1 .. Cardinality(sent) -> sent] :
                  /\ \A x, y \in DOMAIN order : x < y => order[x] < order[y]
                  /\ ulq' = [ulq EXCEPT ![d] = @ \o frames(order)]
  BY DEF RecvReconfiguration, nasVars
<1>2. /\ d \in Devices /\ n \in Nat /\ n # 0 /\ drbs[d] \in Nat /\ nasBuffer[d] \in Seq(UplinkPacket)
      /\ ulq[d] \in Seq(UplinkFrame) /\ d \in DOMAIN ulq /\ d \in DOMAIN drbs
  <2>1. d \in Devices
    BY Topology
  <2>2. n \in 1 .. Served(d).drbs
    BY <1>1, <2>1, HeadSrb DEF CurrentDl
  <2>3. drbs \in [Devices -> Bids \cup {0}] /\ nasBuffer \in [Devices -> Seq(UplinkPacket)]
    BY LiveParts DEF TypeInv, TypeOK, DeviceTypes, NasTypes
  <2>4. ulq \in [Devices -> Seq(UplinkFrame)]
    BY DEF LiveInv, CurrentInv, CurrentQueues
  <2>5. drbs[d] \in Nat
    BY <2>1, <2>3 DEF Bids
  <2> QED BY <2>1, <2>2, <2>3, <2>4, <2>5
<1>3. \A p : BearerOf(d, p) = 1
  BY DEF BearerOf
<1>4. /\ flush \in Seq(UplinkPacket) /\ DOMAIN flush = 1 .. Len(flush) /\ Len(flush) \in Nat
      /\ IsFiniteSet(DOMAIN flush) /\ Cardinality(sent) \in Nat
  <2>1. flush \in Seq(UplinkPacket)
    BY <1>2, EmptyQueues
  <2>2. DOMAIN flush = 1 .. Len(flush) /\ Len(flush) \in Nat
    BY <2>1, LenProperties
  <2>3. IsFiniteSet(DOMAIN flush)
    BY <2>2, FS_Interval
  <2> HIDE DEF flush
  <2> QED BY <2>1, <2>2, <2>3, FS_Subset, FS_CardinalityType
<1>5. CASE drbs[d] = 0
  <2>1. flush = nasBuffer[d] /\ ~twice /\ ulq[d] = <<>> /\ Pending(d) = nasBuffer[d]
    BY <1>2, <1>3, <1>5 DEF EmptyInv, Pending, Left
  <2>2. PICK order \in [1 .. Cardinality(sent) -> sent] :
            /\ \A x, y \in DOMAIN order : x < y => order[x] < order[y]
            /\ ulq' = [ulq EXCEPT ![d] = @ \o frames(order)]
    BY <1>1, <2>1
  <2> DEFINE S == {frame(flush[order[x]]) : x \in DOMAIN order}
  <2>3. frames(order) \in [1 .. Cardinality(sent) -> S]
    BY <2>2
  <2>4. frames(order) \in Seq(S)
    <3> HIDE DEF frames, S, sent
    <3> QED BY <1>4, <2>3, FunctionIsSeq
  <2>5. ulq'[d] = frames(order)
    <3> HIDE DEF frames, S, sent
    <3> QED BY <1>2, <2>1, <2>2, <2>4, ConcatEmptySeq
  <2>6. Pending(d)' = Packets(frames(order))
    <3> HIDE DEF frames, S, sent, n
    <3> QED BY <1>1, <1>2, <2>5 DEF Pending, Left
  <2>7. /\ DOMAIN Packets(frames(order)) = 1 .. Cardinality(sent)
        /\ \A x \in 1 .. Cardinality(sent) :
              Packets(frames(order))[x] = flush[order[x]] /\ order[x] \in DOMAIN flush
    BY <2>2 DEF Packets, Frame
  <2>8. \A x, y \in 1 .. Cardinality(sent) : order[x] = order[y] => x = y
    <3>2. DOMAIN order = 1 .. Cardinality(sent)
      BY <2>2
    <3> HIDE DEF sent, frames, frame, flush, n, S
    <3>3. PICK c \in Nat, l \in Nat : c = Cardinality(sent) /\ DOMAIN flush = 1 .. l
      BY <1>4
    <3>4. ASSUME NEW x \in 1 .. c, NEW y \in 1 .. c, order[x] = order[y] PROVE x = y
      <4>1. x \in DOMAIN order /\ y \in DOMAIN order
        BY <3>2, <3>3
      <4>2. /\ x < y => order[x] < order[y]
            /\ y < x => order[y] < order[x]
        BY <2>2, <4>1
      <4>3. order[x] \in 1 .. l
        BY <2>7, <3>3
      <4> QED BY <3>4, <4>2, <4>3
    <3> QED BY <3>3, <3>4
  <2> DEFINE q == Packets(frames(order))
  <2>9. /\ \A x \in DOMAIN q : order[x] \in DOMAIN flush /\ q[x] = flush[order[x]]
        /\ \A x, y \in DOMAIN q : order[x] = order[y] => x = y
    <3> HIDE DEF sent, frames, flush
    <3> QED BY <2>7, <2>8
  <2> HIDE DEF sent, flush, q
  <2>10. NoMore(e, q, flush)
    BY <2>9, NamesSome
  <2> QED BY <2>1, <2>6, <2>10 DEF q
<1>6. CASE drbs[d] # 0
  <2>1. ulq'[d] = ulq[d]
    <3>1. CASE twice
      BY <1>1, <3>1
    <3>2. CASE ~twice
      <4>1. DOMAIN flush = {}
        BY <1>2, <1>3, <1>6, <3>2
      <4>2. sent = {} /\ Cardinality(sent) = 0
        BY <4>1, FS_EmptySet
      <4>3. PICK order \in [1 .. Cardinality(sent) -> sent] :
                ulq' = [ulq EXCEPT ![d] = @ \o frames(order)]
        BY <1>1, <3>2
      <4>4. DOMAIN order = {}
        BY <4>2, <4>3
      <4>5. frames(order) = <<>>
        BY <4>4
      <4> HIDE DEF frames
      <4> QED BY <1>2, <4>3, <4>5, ConcatEmptySeq
    <3> QED BY <3>1, <3>2
  <2>2. Pending(d)' = Pending(d)
    <3> HIDE DEF n
    <3> QED BY <1>1, <1>2, <1>6, <2>1 DEF Pending, Left
  <2> QED BY <2>2, NoMoreSame
<1> QED BY <1>5, <1>6

LEMMA RecvReconfigurationOnce ==
    ASSUME LiveInv, OnceInv, EmptyInv, NEW d \in Devices, RecvReconfiguration(d)
    PROVE  OnceInv' /\ EmptyInv'
<1> DEFINE n == Head(srbDl[d]).drbs
<1>1. /\ srbDl[d] # <<>> /\ Head(srbDl[d]).type = "ConnectionReconfiguration"
      /\ drbs' = [drbs EXCEPT ![d] = n] /\ UNCHANGED nasBuffer
      /\ \E q : ulq' = [ulq EXCEPT ![d] = q]
      /\ UNCHANGED <<attempts, imsiRnti, remoteImsi, s1Up>>
      /\ UNCHANGED <<session, ueMap>>
  <2>1. ulq = [ulq EXCEPT ![d] = @]
    BY DEF LiveInv, CurrentInv, CurrentQueues
  <2> QED BY <2>1 DEF RecvReconfiguration, nasVars, cellVars, appVars, coreVars
<1>2. OldRequests
  BY <1>1 DEF OldRequests, SameUes
<1>3. \A e \in Devices \ {d} : ulq'[e] = ulq[e] /\ drbs'[e] = drbs[e]
  <2>1. ulq \in [Devices -> Seq(UplinkFrame)] /\ drbs \in [Devices -> Bids \cup {0}]
    BY LiveParts DEF LiveInv, CurrentInv, CurrentQueues, TypeInv, TypeOK, DeviceTypes
  <2> HIDE DEF n
  <2> QED BY <1>1, <2>1
<1>4. drbs'[d] # 0
  <2>1. n \in 1 .. Served(d).drbs
    BY <1>1, HeadSrb DEF CurrentDl
  <2>2. n # 0
    BY <2>1
  <2>3. d \in DOMAIN drbs
    BY LiveParts DEF TypeInv, TypeOK, DeviceTypes
  <2> HIDE DEF n
  <2> QED BY <1>1, <2>2, <2>3
<1>5. EmptyInv'
  BY <1>3, <1>4 DEF EmptyInv
<1>6. ASSUME NEW e \in Devices, NEW j \in Iab PROVE NoMore(e, Pending(j)', Pending(j))
  <2>1. CASE j = d
    BY <2>1, FlushPending
  <2>2. CASE j # d
    <3>1. Pending(j)' = Pending(j)
      BY <1>1, <1>3, <2>2, Topology DEF Pending, Left
    <3> QED BY <3>1, NoMoreSame
  <2> QED BY <2>1, <2>2
<1> QED BY <1>2, <1>5, <1>6, SameOnce

(***************************************************************************)
(* A device asks once.                                                     *)
(***************************************************************************)

\* A cell forwards nothing for a device of its own.
LEMMA NotForwarded ==
    ASSUME LiveInv, NEW d \in Devices PROVE d \notin remoteImsi[Parent[d]]
<1>1. Forwarded(Parent[d], d)
  BY LiveParts, Topology DEF BranchInv
<1> QED BY <1>1, NotAttachedAbove DEF Forwarded

\* A device that starts has not been noted by its cell.
LEMMA RandomAccessOnce ==
    ASSUME LiveInv, OnceInv, EmptyInv, NEW d \in Devices, RandomAccess(d)
    PROVE  OnceInv' /\ EmptyInv'
<1> DEFINE b == Parent[d]
           r == lastRnti[b] + 1
<1>1. /\ r \in Rntis /\ attempts' = [attempts EXCEPT ![d] = @ + 1]
      /\ ueMap' = [ueMap EXCEPT ![b][r] = NewUeManager(d)]
      /\ UNCHANGED <<drbs, ulq, nasBuffer, imsiRnti, remoteImsi, session, s1Up>>
  BY DEF RandomAccess, nasVars, appVars, coreVars
<1>2. b \in Stations /\ attempts \in [Devices -> Nat]
  BY Topology, LiveParts DEF TypeInv, TypeOK, DeviceTypes
<1>3. \A x \in Stations, y \in Rntis :
         /\ UeOf(x, y)' = IF x = b /\ y = r THEN d ELSE UeOf(x, y)
         /\ ~(x = b /\ y = r) => ueMap'[x][y] = ueMap[x][y]
  <2>1. ueMap \in [Stations -> [Rntis -> UeManager]]
    BY LiveTypes
  <2>2. NewUeManager(d).ue = d /\ NewUeManager(d) \in UeManager
    BY DEF NewUeManager, NoUeManager, UeManager, UeManagerState
  <2> HIDE DEF b, r
  <2>3. \A x \in Stations, y \in Rntis :
           ueMap'[x][y] = IF x = b /\ y = r THEN NewUeManager(d) ELSE ueMap[x][y]
    BY <1>1, <1>2, <2>1, <2>2, UpdateTwice
  <2> QED BY <2>2, <2>3 DEF UeOf
<1> SUFFICES ASSUME NEW e \in Devices, attempts'[e] <= 1 PROVE Asks(e)'
  BY <1>1 DEF OnceInv, EmptyInv
<1> HIDE DEF b, r
<1>4. Asks(e) /\ attempts'[e] = IF e = d THEN attempts[e] + 1 ELSE attempts[e]
  <2>1. attempts'[e] = IF e = d THEN attempts[e] + 1 ELSE attempts[e]
    BY <1>1, <1>2
  <2>2. attempts[e] <= 1
    BY <1>2, <2>1
  <2> QED BY <2>1, <2>2 DEF OnceInv
<1>5. AsksFirst(e)'
  <2>1. CASE e # d
    BY <1>1, <1>3, <1>4, <2>1 DEF Asks, AsksFirst
  <2>2. CASE e = d
    <3>1. attempts[d] = 0 /\ attempts'[d] = 1
      BY <1>2, <1>4, <2>2
    <3>2. \A x \in Stations, y \in Rntis : UeOf(x, y) # d
      BY <1>4, <2>2, <3>1 DEF Asks, AsksFirst
    <3>3. imsiRnti[b][d] = 0
      <4>1. d \notin remoteImsi[b]
        BY NotForwarded DEF b
      <4>2. imsiRnti[b][d] \in Rntis \cup {0}
        BY <1>2, LiveTypes
      <4> QED BY <1>2, <3>2, <4>1, <4>2, LiveParts DEF TypeInv, OwnInv
    <3> QED BY <1>1, <1>3, <2>2, <3>1, <3>2, <3>3 DEF AsksFirst
  <2> QED BY <2>1, <2>2
<1>6. \A i \in Iab : NoMore(e, Pending(i)', Pending(i))
  BY <1>1, NoMoreSame DEF Pending, Left
<1> QED BY <1>1, <1>4, <1>5, <1>6, SameAsks

LEMMA PendingTold ==
    ASSUME NotedInv, NEW i \in Iab, NEW e \in Devices, Names(e, Pending(i)) # {}
    PROVE  e \in Below[i] /\ Noted(i, e)
<1>1. i \in Devices
  BY Topology
<1>2. PICK n \in DOMAIN Pending(i) : For(e, Pending(i)[n])
  BY DEF Names
<1>3. Pending(i)[n] \in Tells[i]
  <2>1. CASE drbs[i] = 0
    <3>1. nasBuffer[i] \in Seq(Tells[i])
      BY <1>1 DEF NotedInv, BuffersOf
    <3> QED BY <1>2, <2>1, <3>1, ElementOfSeq, LenProperties DEF Pending, Left
  <2>2. CASE drbs[i] # 0
    <3>1. ulq[i] \in Seq(FramesOf(Tells[i]))
      BY <1>1 DEF NotedInv, UplinksOf
    <3>2. Pending(i) = Packets(ulq[i])
      BY <2>2 DEF Pending, Left
    <3>3. n \in DOMAIN ulq[i] /\ Pending(i)[n] = ulq[i][n].pkt
      BY <1>2, <3>2 DEF Packets
    <3>4. ulq[i][n] \in FramesOf(Tells[i])
      BY <3>1, <3>3, ElementOfSeq, LenProperties
    <3> QED BY <3>3, <3>4 DEF FramesOf
  <2> QED BY <2>1, <2>2
<1> QED BY <1>1, <1>2, <1>3 DEF Tells, Told, For

\* What a cell has not noted is not known further up.
LEMMA Unnoted ==
    ASSUME NotedInv, NEW b \in Stations, NEW e \in Devices, e \in Below[b], ~Noted(b, e)
    PROVE  /\ b \in Iab => Names(e, Pending(b)) = {} /\ e \notin remoteImsi[Parent[b]]
           /\ b \in Wired => Names(e, s1Up[b]) = {}
           /\ ~HasSession(e)
<1>1. ASSUME b \in Wired PROVE Names(e, s1Up[b]) = {}
  <2>1. s1Up[b] \in Seq(Told(b))
    BY <1>1 DEF NotedInv
  <2>2. \A n \in DOMAIN s1Up[b] : s1Up[b][n] \in Told(b)
    BY <2>1, ElementOfSeq, LenProperties
  <2> QED BY <2>2 DEF Names, For, Told
<1>2. ~HasSession(e)
  BY DEF HasSession, NotedInv, Known
<1>3. b \in Iab => e \notin remoteImsi[Parent[b]]
  BY DEF NotedInv
<1> QED BY <1>1, <1>2, <1>3, PendingTold

\* A cell passes a request on: it is one thing more for one node to relay, is
\* lost, or has reached the core.
LEMMA SendS1apPending ==
    ASSUME LiveInv, NEW b \in Stations, NEW m \in InitialUeMessage,
           NEW q \in CurrentQueues, Fits(q), UNCHANGED drbs, SendS1ap(b, m, q)
    PROVE  /\ EmptyInv'
           /\ \A i \in Iab : \/ Pending(i)' = Left(i, q)
                             \/ i = b /\ Pending(i)' = Append(Left(i, q), m)
           /\ \A w \in Wired : s1Up'[w] = IF w = b THEN Append(s1Up[w], m) ELSE s1Up[w]
<1>1. CASE b \in Wired /\ s1Up' = [s1Up EXCEPT ![b] = Append(@, m)]
           /\ ulq' = q /\ UNCHANGED nasVars
  <2>1. s1Up \in [Wired -> Seq(InitialUeMessage)]
    BY LiveParts DEF TypeInv, TypeOK, CoreTypes
  <2> QED BY <1>1, <2>1 DEF EmptyInv, Fits, Pending, Left, nasVars
<1>2. CASE b \in Iab /\ NasSend(b, m, 1, q) /\ UNCHANGED s1Up
  <2>1. b \in Devices /\ 1 \in Bids /\ b \notin Wired /\ Iab \subseteq Devices
    BY <1>2, Topology DEF Bids
  <2>2. m \in UplinkPacket
    BY DEF UplinkPacket
  <2> QED BY <1>2, <2>1, <2>2, NasSendPending
<1> QED BY <1>1, <1>2 DEF SendS1ap

\* Cell b passes on a request m that is not for e.
LEMMA OtherAsks ==
    ASSUME NEW e \in Devices, Asks(e), AsksFirst(e)', NEW m, ~For(e, m),
           NEW b \in Stations, NEW q, UNCHANGED session, s1Up \in [Wired -> Seq(InitialUeMessage)],
           \A x \in Stations : e \in remoteImsi'[x] <=> e \in remoteImsi[x],
           \A i \in Iab : Left(i, q) \in Seq(UplinkPacket) /\ NoMore(e, Left(i, q), Pending(i)),
           \A i \in Iab : \/ Pending(i)' = Left(i, q)
                          \/ i = b /\ Pending(i)' = Append(Left(i, q), m),
           \A w \in Wired : s1Up'[w] = IF w = b THEN Append(s1Up[w], m) ELSE s1Up[w]
    PROVE  Asks(e)'
<1>1. ASSUME NEW i \in Iab PROVE OneFor(e, Pending(i), e \in remoteImsi[Parent[i]])'
  <2>1. NoMore(e, Append(Left(i, q), m), Left(i, q))
    BY NamesAppend
  <2>2. NoMore(e, Pending(i)', Pending(i))
    BY <2>1 DEF NoMore
  <2>3. OneFor(e, Pending(i)', e \in remoteImsi[Parent[i]])
    BY <2>2 DEF NoMore, OneFor, Asks
  <2>4. Parent[i] \in Stations
    BY Topology
  <2> QED BY <2>3, <2>4 DEF OneFor, Names
<1>2. ASSUME NEW w \in Wired PROVE OneFor(e, s1Up[w], HasSession(e))'
  <2>1. NoMore(e, Append(s1Up[w], m), s1Up[w])
    BY NamesAppend
  <2>2. NoMore(e, s1Up'[w], s1Up[w])
    BY <2>1, NoMoreSame
  <2>3. OneFor(e, s1Up'[w], HasSession(e))
    BY <2>2 DEF NoMore, OneFor, Asks
  <2> QED BY <2>3 DEF OneFor, Names, HasSession, Owner
<1>3. \A t, s \in 1 .. Len(session') : Owner(t)' = e /\ session'[s] = session'[t] => s = t
  BY DEF Asks, Owner
<1> QED BY <1>1, <1>2, <1>3 DEF Asks

\* Cell b passes on the request m of e, which neither it nor anybody further up
\* has had before.
LEMMA MovedOn ==
    ASSUME NEW e \in Devices, Asks(e), AsksFirst(e)', NEW m, For(e, m),
           NEW b \in Stations, NEW q, UNCHANGED session, ~HasSession(e),
           s1Up \in [Wired -> Seq(InitialUeMessage)],
           \A i \in Iab : Left(i, q) \in Seq(UplinkPacket),
           b \in Iab => Names(e, Left(b, q)) = {} /\ e \notin remoteImsi'[Parent[b]],
           b \in Wired => Names(e, s1Up[b]) = {},
           \A i \in Iab \ {b} : OneFor(e, Left(i, q), e \in remoteImsi'[Parent[i]]),
           \A i \in Iab : \/ Pending(i)' = Left(i, q)
                          \/ i = b /\ Pending(i)' = Append(Left(i, q), m),
           \A w \in Wired : s1Up'[w] = IF w = b THEN Append(s1Up[w], m) ELSE s1Up[w]
    PROVE  Asks(e)'
<1>1. ASSUME NEW i \in Iab PROVE OneFor(e, Pending(i), e \in remoteImsi[Parent[i]])'
  <2>1. CASE i # b
    BY <2>1 DEF OneFor, Names
  <2>2. CASE i = b
    <3>1. OneFor(e, Append(Left(i, q), m), FALSE) /\ OneFor(e, Left(i, q), FALSE)
      BY <2>2, NamesAppend DEF OneFor
    <3> QED BY <2>2, <3>1 DEF OneFor, Names
  <2> QED BY <2>1, <2>2
<1>2. ASSUME NEW w \in Wired PROVE OneFor(e, s1Up[w], HasSession(e))'
  <2>1. ~HasSession(e)'
    BY DEF HasSession, Owner
  <2>2. CASE w # b
    BY <2>1, <2>2 DEF OneFor, Names, Asks
  <2>3. CASE w = b
    <3>1. OneFor(e, Append(s1Up[w], m), FALSE)
      BY <2>3, NamesAppend
    <3> QED BY <2>1, <2>3, <3>1 DEF OneFor, Names
  <2> QED BY <2>2, <2>3
<1>3. \A t, s \in 1 .. Len(session') : Owner(t)' = e /\ session'[s] = session'[t] => s = t
  BY DEF Asks, Owner
<1> QED BY <1>1, <1>2, <1>3 DEF Asks

\* A cell asks for a device whose request it takes for the first time.
LEMMA RecvConnectionRequestOnce ==
    ASSUME LiveInv, NotedInv, OnceInv, EmptyInv, NEW d \in Devices, RecvConnectionRequest(d)
    PROVE  OnceInv' /\ EmptyInv'
<1> DEFINE r == Head(srbUl[d]).rnti
<1>1. PICK b, m : /\ b = Parent[d]
                  /\ m = [type |-> "InitialUeMessage", imsi |-> d, gci |-> b, parents |-> AddParent(b)]
  OBVIOUS
<1>2. /\ srbUl[d] # <<>> /\ SendS1ap(b, m, ulq)
      /\ ueMap[b][r].state = "INITIAL_RANDOM_ACCESS"
      /\ imsiRnti' = [imsiRnti EXCEPT ![b][d] = r]
      /\ ueMap' = [ueMap EXCEPT ![b][r] = [@ EXCEPT !.state = "CONNECTION_SETUP"]]
      /\ UNCHANGED <<attempts, drbs, remoteImsi, session>>
  BY <1>1 DEF RecvConnectionRequest, ueVars
<1>3. /\ b \in Stations /\ r \in Rntis /\ d \in Below[b] /\ UeOf(b, r) = d
      /\ ueMap[b][r] \in UeManager
  BY <1>1, <1>2, HeadRnti, LiveParts, Topology, TopologyAssumption
<1>4. m \in InitialUeMessage /\ m.imsi = d /\ m.type = "InitialUeMessage"
  BY <1>1, <1>3 DEF InitialUeMessage, AddParent
<1> HIDE DEF r
<1>5. \A x \in Stations, y \in Devices :
         imsiRnti'[x][y] = IF x = b /\ y = d THEN r ELSE imsiRnti[x][y]
  <2>1. imsiRnti \in [Stations -> [Devices -> Rntis \cup {0}]]
    BY LiveTypes
  <2> QED BY <1>2, <1>3, <2>1, UpdateTwice
<1>6. \A x \in Stations, y \in Rntis :
         /\ UeOf(x, y)' = UeOf(x, y)
         /\ ueMap'[x][y].state = IF x = b /\ y = r THEN "CONNECTION_SETUP" ELSE ueMap[x][y].state
  <2> DEFINE v == [ueMap[b][r] EXCEPT !.state = "CONNECTION_SETUP"]
  <2>1. ueMap \in [Stations -> [Rntis -> UeManager]]
    BY LiveTypes
  <2>2. v.ue = ueMap[b][r].ue /\ v.state = "CONNECTION_SETUP" /\ v \in UeManager
    BY <1>3 DEF UeManager, UeManagerState
  <2>3. ueMap' = [ueMap EXCEPT ![b][r] = v]
    BY <1>2
  <2> HIDE DEF v
  <2>4. \A x \in Stations, y \in Rntis :
           ueMap'[x][y] = IF x = b /\ y = r THEN v ELSE ueMap[x][y]
    BY <1>3, <2>1, <2>2, <2>3, UpdateTwice
  <2> QED BY <2>2, <2>4 DEF UeOf
<1>7. /\ ulq \in CurrentQueues /\ Fits(ulq) /\ s1Up \in [Wired -> Seq(InitialUeMessage)]
      /\ \A i \in Iab : Left(i, ulq) = Pending(i) /\ Left(i, ulq) \in Seq(UplinkPacket)
                        /\ \A e : NoMore(e, Left(i, ulq), Pending(i))
  BY LiveParts, PendingTypes, NoMoreSame, Topology
     DEF LiveInv, CurrentInv, EmptyInv, Fits, TypeInv, TypeOK, CoreTypes, Pending
<1>8. /\ EmptyInv'
      /\ \A i \in Iab : \/ Pending(i)' = Left(i, ulq)
                        \/ i = b /\ Pending(i)' = Append(Left(i, ulq), m)
      /\ \A w \in Wired : s1Up'[w] = IF w = b THEN Append(s1Up[w], m) ELSE s1Up[w]
  BY <1>2, <1>3, <1>4, <1>7, SendS1apPending
<1>9. ASSUME NEW e \in Devices, attempts'[e] <= 1 PROVE Asks(e)'
  <2>1. Asks(e) /\ attempts'[e] = attempts[e]
    BY <1>2, <1>9 DEF OnceInv
  <2>2. AsksFirst(e)'
    <3>1. \A x \in Stations, y \in Rntis : UeOf(x, y) = d => x = b
      BY <1>1, LiveParts, Topology DEF TypeInv, UeMapInv, UeKnown
    <3>2. AsksFirst(e)
      BY <2>1 DEF Asks
    <3>3. ASSUME NEW x \in Stations, NEW y \in Rntis, UeOf(x, y)' = e
          PROVE  /\ attempts'[e] = 1 /\ \A s \in Rntis : UeOf(x, s)' = e => s = y
                 /\ ueMap'[x][y].state = "INITIAL_RANDOM_ACCESS" => imsiRnti'[x][e] = 0
      BY <1>3, <1>5, <1>6, <2>1, <3>1, <3>2, <3>3 DEF AsksFirst
    <3> QED BY <3>3 DEF AsksFirst
  <2>3. CASE e # d
    <3>1. ~For(e, m)
      BY <1>4, <2>3 DEF For
    <3> QED BY <1>2, <1>3, <1>7, <1>8, <2>1, <2>2, <3>1, OtherAsks
  <2>4. CASE e = d
    <3>1. ~Noted(b, d)
      BY <1>1, <1>2, <1>3, <2>1, <2>4 DEF Asks, AsksFirst, Noted
    <3>2. For(e, m)
      BY <1>4, <2>4 DEF For
    <3>3. /\ b \in Iab => Names(e, Left(b, ulq)) = {} /\ e \notin remoteImsi'[Parent[b]]
          /\ b \in Wired => Names(e, s1Up[b]) = {}
          /\ ~HasSession(e)
      BY <1>2, <1>3, <1>7, <2>4, <3>1, Unnoted
    <3>4. \A i \in Iab : OneFor(e, Left(i, ulq), e \in remoteImsi'[Parent[i]])
      BY <1>2, <1>7, <2>1 DEF Asks
    <3> QED BY <1>2, <1>3, <1>7, <1>8, <2>1, <2>2, <3>2, <3>3, <3>4, MovedOn
  <2> QED BY <2>3, <2>4
<1> QED BY <1>8, <1>9 DEF OnceInv

\* A request goes from a node to its parent, which takes it for the first time.
LEMMA RelayInitialUeMessageOnce ==
    ASSUME LiveInv, NotedInv, OnceInv, EmptyInv, NEW d \in Devices, RelayInitialUeMessage(d)
    PROVE  OnceInv' /\ EmptyInv'
<1>1. PICK b, f, m, x, q :
         /\ b = Parent[d] /\ f = Head(ulq[d]) /\ q = [ulq EXCEPT ![d] = Tail(@)] /\ x = f.pkt.imsi
         /\ m = [f.pkt EXCEPT !.parents = @ \cup AddParent(b)]
  OBVIOUS
<1>2. /\ ulq[d] # <<>> /\ f.pkt.type = "InitialUeMessage" /\ SendS1ap(b, m, q)
      /\ imsiRnti' = [imsiRnti EXCEPT ![b][x] = f.rnti]
      /\ remoteImsi' = [remoteImsi EXCEPT ![b] = @ \cup {x}]
      /\ UNCHANGED <<attempts, drbs, ueMap, session>>
  BY <1>1 DEF RelayInitialUeMessage, ueVars, cellVars
<1>3. b \in Stations /\ f.rnti \in Rntis /\ f.pkt \in Tells[d] /\ f.pkt \in UplinkPacket
  BY <1>1, <1>2, HeadUplink, HeadTold, LiveParts, Topology DEF UplinkPacketOf
<1>4. d \in Iab /\ f.pkt \in InitialUeMessage /\ x \in Devices /\ x \in Below[d]
  <2>1. d \in Iab /\ f.pkt \in Told(d)
    BY <1>2, <1>3 DEF Tells
  <2>2. f.pkt \in InitialUeMessage /\ f.pkt.imsi \in Below[d]
    BY <2>1 DEF Told
  <2>3. f.pkt.imsi \in Devices
    BY <2>2 DEF InitialUeMessage
  <2> QED BY <1>1, <2>1, <2>2, <2>3
<1>5. x \in Below[b] /\ Parent[x] # b /\ b # d /\ b \notin {d}
  BY <1>1, <1>4, NotAttachedAbove, MoreAbove
<1>6. m \in InitialUeMessage /\ m.imsi = x /\ m.type = "InitialUeMessage"
  BY <1>1, <1>4 DEF InitialUeMessage, AddParent
<1>7. /\ q \in CurrentQueues /\ Fits(q) /\ Pending(d) # <<>> /\ Head(Pending(d)) = f.pkt
      /\ \A j \in Devices : Left(j, q) = IF j = d THEN Tail(Pending(j)) ELSE Pending(j)
  BY <1>1, <1>2, HeadPending
<1>8. /\ s1Up \in [Wired -> Seq(InitialUeMessage)]
      /\ \A j \in Devices : Pending(j) \in Seq(UplinkPacket)
  BY LiveParts, PendingTypes DEF TypeInv, TypeOK, CoreTypes
<1>9. ASSUME NEW i \in Iab
      PROVE  Left(i, q) \in Seq(UplinkPacket) /\ \A e : NoMore(e, Left(i, q), Pending(i))
  <2>1. i \in Devices
    BY Topology
  <2>2. CASE i = d
    <3>1. PICK p \in Seq(UplinkPacket) :
            p = Pending(i) /\ p # <<>> /\ Left(i, q) = Tail(p)
      BY <1>7, <1>8, <2>1, <2>2
    <3>2. Tail(p) \in Seq(UplinkPacket)
      BY <3>1, TakeQueue
    <3>3. \A e : NoMore(e, Tail(p), p)
      BY <3>1, NamesTail
    <3> QED BY <3>1, <3>2, <3>3
  <2>3. CASE i # d
    <3>1. Left(i, q) = Pending(i) /\ Pending(i) \in Seq(UplinkPacket)
      BY <1>7, <1>8, <2>1, <2>3
    <3> QED BY <3>1, NoMoreSame
  <2> QED BY <2>2, <2>3
<1>10. /\ EmptyInv'
       /\ \A i \in Iab : \/ Pending(i)' = Left(i, q)
                         \/ i = b /\ Pending(i)' = Append(Left(i, q), m)
       /\ \A w \in Wired : s1Up'[w] = IF w = b THEN Append(s1Up[w], m) ELSE s1Up[w]
  BY <1>2, <1>3, <1>6, <1>7, SendS1apPending
<1>11. \A c \in Stations, e \in Devices :
          /\ e \in remoteImsi'[c] <=> e \in remoteImsi[c] \/ (c = b /\ e = x)
          /\ imsiRnti'[c][e] = IF c = b /\ e = x THEN f.rnti ELSE imsiRnti[c][e]
  <2>1. imsiRnti \in [Stations -> [Devices -> Rntis \cup {0}]]
    BY LiveTypes
  <2>2. f.rnti \in Rntis \cup {0}
    BY <1>3
  <2>3. \A c \in Stations, e \in Devices :
           imsiRnti'[c][e] = IF c = b /\ e = x THEN f.rnti ELSE imsiRnti[c][e]
    BY <1>2, <1>3, <1>4, <2>1, <2>2, UpdateTwice
  <2>4. remoteImsi \in [Stations -> SUBSET Devices]
    BY LiveParts DEF TypeInv, TypeOK, AppTypes
  <2> QED BY <1>2, <1>3, <2>3, <2>4
<1>12. ASSUME NEW e \in Devices, attempts'[e] <= 1 PROVE Asks(e)'
  <2>1. Asks(e) /\ attempts'[e] = attempts[e]
    BY <1>2, <1>12 DEF OnceInv
  <2>2. AsksFirst(e)'
    <3>1. \A c \in Stations, y \in Rntis : UeOf(c, y) = x => c # b
      BY <1>4, <1>5, LiveParts, Topology DEF TypeInv, UeMapInv, UeKnown
    <3>2. AsksFirst(e)
      BY <2>1 DEF Asks
    <3> QED BY <1>2, <1>11, <2>1, <3>1, <3>2 DEF AsksFirst, UeOf
  <2>3. CASE e # x
    <3>1. ~For(e, m)
      BY <1>6, <2>3 DEF For
    <3>2. \A c \in Stations : e \in remoteImsi'[c] <=> e \in remoteImsi[c]
      BY <1>11, <2>3
    <3> QED BY <1>2, <1>3, <1>8, <1>9, <1>10, <2>1, <2>2, <3>1, <3>2, OtherAsks
  <2>4. CASE e = x
    <3>1. For(e, m) /\ For(e, Head(Pending(d)))
      BY <1>1, <1>2, <1>6, <1>7, <2>4 DEF For
    <3>2. OneFor(e, Pending(d), e \in remoteImsi[b])
      BY <1>1, <1>4, <2>1 DEF Asks
    <3>3. Names(e, Pending(d)) # {}
      <4>1. 1 \in DOMAIN Pending(d) /\ Head(Pending(d)) = Pending(d)[1]
        BY <1>4, <1>7, <1>8, Topology
      <4> QED BY <3>1, <4>1 DEF Names
    <3>4. ~Noted(b, e)
      BY <1>5, <2>4, <3>2, <3>3 DEF OneFor, Noted
    <3>5. /\ b \in Iab => Names(e, Pending(b)) = {} /\ e \notin remoteImsi[Parent[b]]
          /\ b \in Wired => Names(e, s1Up[b]) = {}
          /\ ~HasSession(e)
      BY <1>3, <1>5, <2>4, <3>4, Unnoted
    <3>6. b \in Iab => Names(e, Left(b, q)) = {} /\ e \notin remoteImsi'[Parent[b]]
      <4>1. ASSUME b \in Iab PROVE Parent[b] \in Stations /\ Parent[b] # b
        BY <4>1, MoreAbove, Topology
      <4> QED BY <1>9, <1>11, <3>5, <4>1 DEF NoMore
    <3>7. ASSUME NEW i \in Iab \ {b} PROVE OneFor(e, Left(i, q), e \in remoteImsi'[Parent[i]])
      <4>1. i \in Devices /\ Parent[i] \in Stations
        BY Topology
      <4>2. OneFor(e, Pending(i), e \in remoteImsi[Parent[i]])
        BY <2>1 DEF Asks
      <4>3. CASE i = d
        <5>1. Names(e, Left(i, q)) = {}
          BY <1>7, <1>8, <3>1, <3>2, <4>1, <4>3, NamesTail DEF OneFor
        <5> QED BY <5>1 DEF OneFor
      <4>4. CASE i # d /\ Parent[i] # b
        BY <1>7, <1>11, <4>1, <4>2, <4>4
      <4>5. CASE i # d /\ Parent[i] = b
        <5>1. Left(i, q) = Pending(i)
          BY <1>7, <4>1, <4>5
        <5>2. e \notin Below[i]
          BY <1>1, <1>4, <2>4, <4>5, OneBranch
        <5>3. Names(e, Pending(i)) = {}
          BY <5>2, PendingTold
        <5> QED BY <5>1, <5>3 DEF OneFor
      <4> QED BY <4>3, <4>4, <4>5
    <3> QED BY <1>2, <1>3, <1>8, <1>9, <1>10, <2>1, <2>2, <3>1, <3>5, <3>6, <3>7, MovedOn
  <2> QED BY <2>3, <2>4
<1> QED BY <1>10, <1>12 DEF OnceInv

\* The MME takes the one request of a device, and the SGW opens its session.
LEMMA MmeRecvInitialUeMessageOnce ==
    ASSUME LiveInv, NotedInv, OnceInv, EmptyInv, NEW w \in Wired, MmeRecvInitialUeMessage(w)
    PROVE  OnceInv' /\ EmptyInv'
<1>1. PICK m, d, n, l : m = Head(s1Up[w]) /\ d = m.imsi /\ n = NumBearers[d] /\ l = Len(session)
  OBVIOUS
<1>2. /\ s1Up[w] # <<>> /\ m \in Told(w) /\ d \in Devices
      /\ session' = session \o [k \in 1 .. n |-> [imsi |-> d, bid |-> k]]
      /\ s1Up' = [s1Up EXCEPT ![w] = Tail(@)]
      /\ UNCHANGED <<imsiRnti, remoteImsi, ulq, nasBuffer>>
  BY <1>1, MmeAnswers
<1>3. UNCHANGED <<attempts, drbs, ueMap>>
  BY DEF MmeRecvInitialUeMessage, ueVars, cellVars
<1>4. d \in Below[w] /\ For(d, m) /\ n \in Bids
  BY <1>1, <1>2, Topology DEF Told, InitialUeMessage, For
<1>5. /\ session \in Seq([imsi : Devices, bid : Bids])
      /\ l \in Nat /\ n \in Nat /\ Len(session') = l + n
      /\ \A t \in 1 .. l : session'[t] = session[t]
      /\ \A k \in 1 .. n : session'[l + k] = [imsi |-> d, bid |-> k]
  <2>1. TypeInv /\ session \in Seq([imsi : Devices, bid : Bids]) /\ n \in Nat
    BY <1>4, LiveParts DEF Bids, TypeInv, TypeOK, CoreTypes
  <2> QED BY <1>1, <1>2, <1>4, <2>1, Allocation
<1>6. ASSUME NEW t \in 1 .. l + n, t \notin 1 .. l
      PROVE  session'[t].imsi = d /\ session'[t].bid = t - l
  <2>1. t - l \in 1 .. n /\ t = l + (t - l)
    BY <1>5, <1>6
  <2>2. session'[l + (t - l)] = [imsi |-> d, bid |-> t - l]
    BY <1>5, <2>1
  <2> QED BY <2>1, <2>2
<1>7. \A t \in 1 .. l + n : Owner(t)' = IF t \in 1 .. l THEN Owner(t) ELSE d
  <2>1. SUFFICES ASSUME NEW t \in 1 .. l + n
                 PROVE  Owner(t)' = IF t \in 1 .. l THEN Owner(t) ELSE d
    OBVIOUS
  <2>2. t \in 1 .. l => session'[t] = session[t]
    BY <1>5
  <2>3. t \notin 1 .. l => session'[t].imsi = d
    BY <1>6
  <2> QED BY <2>2, <2>3 DEF Owner
<1>8. s1Up \in [Wired -> Seq(InitialUeMessage)]
  BY LiveParts DEF TypeInv, TypeOK, CoreTypes
<1>9. \A v \in Wired : s1Up'[v] = IF v = w THEN Tail(s1Up[v]) ELSE s1Up[v]
  BY <1>2, <1>8
<1>10. \A i \in Iab : Pending(i)' = Pending(i)
  BY <1>2, <1>3 DEF Pending, Left
<1>11. ASSUME NEW e \in Devices, attempts'[e] <= 1 PROVE Asks(e)'
  <2>1. Asks(e) /\ attempts'[e] = attempts[e]
    BY <1>3, <1>11 DEF OnceInv
  <2>2. AsksFirst(e)'
    BY <1>2, <1>3, <2>1 DEF Asks, AsksFirst, UeOf
  <2>3. \A i \in Iab : OneFor(e, Pending(i), e \in remoteImsi[Parent[i]])'
    BY <1>2, <1>10, <2>1 DEF Asks, OneFor, Names
  <2>4. CASE e # d
    <3>1. HasSession(e)' <=> HasSession(e)
      <4>1. Len(session') = l + n /\ 1 .. l \subseteq 1 .. l + n
        BY <1>5
      <4>2. HasSession(e)' <=> \E t \in 1 .. l + n : Owner(t)' = e
        BY <4>1 DEF HasSession
      <4>3. HasSession(e) <=> \E t \in 1 .. l : Owner(t) = e
        BY <1>1 DEF HasSession
      <4> QED BY <1>7, <2>4, <4>1, <4>2, <4>3
    <3>2. ASSUME NEW v \in Wired PROVE OneFor(e, s1Up[v], HasSession(e))'
      <4>1. NoMore(e, s1Up'[v], s1Up[v])
        BY <1>2, <1>8, <1>9, NamesTail, NoMoreSame
      <4> QED BY <2>1, <3>1, <4>1 DEF Asks, OneFor, NoMore, Names
    <3>3. ASSUME NEW t \in 1 .. Len(session'), NEW s \in 1 .. Len(session'),
                 Owner(t)' = e, session'[s] = session'[t]
          PROVE  s = t
      <4>1. Owner(s)' = e
        BY <3>3 DEF Owner
      <4>2. s \in 1 .. l /\ t \in 1 .. l
        BY <1>5, <1>7, <2>4, <3>3, <4>1
      <4>3. session[s] = session[t] /\ Owner(t) = e
        BY <1>5, <1>7, <3>3, <4>2
      <4> QED BY <1>1, <2>1, <4>2, <4>3 DEF Asks
    <3> QED BY <2>2, <2>3, <3>2, <3>3 DEF Asks
  <2>5. CASE e = d
    <3>1. OneFor(d, s1Up[w], HasSession(d))
      BY <2>1, <2>5 DEF Asks
    <3>2. Names(d, s1Up[w]) # {}
      <4>1. s1Up[w] \in Seq(InitialUeMessage)
        BY <1>8
      <4>2. 1 \in DOMAIN s1Up[w] /\ Head(s1Up[w]) = s1Up[w][1]
        BY <1>2, <4>1
      <4> QED BY <1>1, <1>4, <4>2 DEF Names
    <3>3. ~HasSession(d)
      BY <3>1, <3>2 DEF OneFor
    <3>4. ASSUME NEW v \in Wired PROVE OneFor(e, s1Up[v], HasSession(e))'
      <4>1. CASE v = w
        <5>1. Names(d, Tail(s1Up[w])) = {}
          BY <1>1, <1>2, <1>4, <1>8, <3>1, NamesTail DEF OneFor
        <5> QED BY <1>9, <2>5, <4>1, <5>1 DEF OneFor, Names
      <4>2. CASE v # w
        <5>1. Names(d, s1Up[v]) = {}
          <6>1. s1Up[v] \in Seq(Told(v))
            BY DEF NotedInv
          <6>2. \A k \in Names(d, s1Up[v]) : d \in Below[v]
            BY <6>1, ElementOfSeq, LenProperties DEF Names, For, Told
          <6>3. d \notin Below[v]
            BY <1>2, <1>4, <4>2, OneWired, Topology, TopologyAssumption DEF Devices
          <6> QED BY <6>2, <6>3
        <5> QED BY <1>9, <2>5, <4>2, <5>1 DEF OneFor, Names
      <4> QED BY <4>1, <4>2
    <3>5. ASSUME NEW t \in 1 .. Len(session'), NEW s \in 1 .. Len(session'),
                 Owner(t)' = e, session'[s] = session'[t]
          PROVE  s = t
      <4>1. \A z \in 1 .. l : Owner(z)' # d
        BY <1>1, <1>5, <1>7, <3>3 DEF HasSession
      <4>2. Owner(s)' = d /\ Owner(t)' = d
        BY <2>5, <3>5 DEF Owner
      <4>3. t \notin 1 .. l /\ s \notin 1 .. l
        BY <4>1, <4>2
      <4>4. t \in 1 .. l + n /\ s \in 1 .. l + n
        BY <1>5, <3>5
      <4>5. session'[t].bid = t - l /\ session'[s].bid = s - l
        BY <1>6, <4>3, <4>4
      <4> QED BY <1>5, <3>5, <4>4, <4>5
    <3> QED BY <2>2, <2>3, <3>4, <3>5 DEF Asks
  <2> QED BY <2>4, <2>5
<1> QED BY <1>2, <1>3, <1>11 DEF OnceInv, EmptyInv

LEMMA OnceInvStep ==
    LiveInv /\ NotedInv /\ OnceInv /\ EmptyInv /\ [Next]_vars => OnceInv' /\ EmptyInv'
<1> SUFFICES ASSUME LiveInv, NotedInv, OnceInv, EmptyInv, [Next]_vars
             PROVE  OnceInv' /\ EmptyInv'
  OBVIOUS
<1> USE DEF ueVars, cellVars, appVars, nasVars, coreVars
<1>1. ASSUME UNCHANGED <<attempts, imsiRnti, remoteImsi, session, s1Up, ueMap>>,
             UNCHANGED <<drbs, nasBuffer, ulq>>
      PROVE  OnceInv' /\ EmptyInv'
  BY <1>1, QuietOnce DEF OldRequests, SameUes
<1>2. ASSUME NEW d \in Devices, Connect(d) PROVE OnceInv' /\ EmptyInv'
  <2>1. CASE RecvConnectionSetup(d)
    BY <1>1, <2>1 DEF RecvConnectionSetup
  <2> QED BY <1>2, <2>1, RandomAccessOnce, RecvConnectionRequestOnce, RecvReconfigurationOnce,
             ConnectedOnce DEF Connect
<1>3. ASSUME NEW d \in Devices, Uplink(d) \/ LoseUplink(d) PROVE OnceInv' /\ EmptyInv'
  BY <1>3, RelayInitialUeMessageOnce, PacketsOnce DEF Uplink
<1>4. ASSUME NEW d \in Devices, DownlinkStep(d) PROVE OnceInv' /\ EmptyInv'
  <2>1. CASE IabRecvS1ap(d)
    BY <2>1, RecvS1apOnce, Topology DEF IabRecvS1ap
  <2>2. CASE DropDownlink(d) \/ DeliverToUe(d) \/ IabRecvData(d)
    BY <1>1, <2>2 DEF DropDownlink, DeliverToUe, IabRecvData
  <2> QED BY <1>4, <2>1, <2>2 DEF DownlinkStep
<1>5. ASSUME NEW d \in Devices, ConnectionTimeout(d) \/ LoseDownlink(d)
      PROVE  OnceInv' /\ EmptyInv'
  BY <1>1, <1>5 DEF ConnectionTimeout, LoseDownlink
<1>6. ASSUME NEW w \in Wired, Wireline(w) \/ MmeRecvInitialUeMessage(w)
      PROVE  OnceInv' /\ EmptyInv'
  <2>1. CASE WiredRecvData(w)
    BY <1>1, <2>1 DEF WiredRecvData
  <2>2. w \in Stations
    BY Topology
  <2> QED BY <1>6, <2>1, <2>2, RecvS1apOnce, MmeRecvInitialUeMessageOnce DEF Wireline
<1>7. ASSUME NEW b \in Stations, NEW r \in Rntis, RemoveUe(b, r) PROVE OnceInv' /\ EmptyInv'
  BY <1>7, RemoveUeOnce
<1>8. ASSUME NEW u \in Ue, NEW k \in Bids, UeSend(u, k) \/ SgwRecvFromInternet(u, k)
      PROVE  OnceInv' /\ EmptyInv'
  <2>1. CASE SgwRecvFromInternet(u, k)
    BY <1>1, <2>1 DEF SgwRecvFromInternet
  <2> QED BY <1>8, <2>1, UeSendOnce
<1>9. CASE UNCHANGED vars
  BY <1>1, <1>9 DEF vars
<1> QED BY <1>2, <1>3, <1>4, <1>5, <1>6, <1>7, <1>8, <1>9 DEF Next

LEMMA InitOnceInv == Init => OnceInv /\ EmptyInv
<1> SUFFICES ASSUME Init PROVE OnceInv /\ EmptyInv
  OBVIOUS
<1>1. EmptyInv
  BY DEF Init, EmptyInv
<1>2. ASSUME NEW d \in Devices PROVE Asks(d)
  <2>1. AsksFirst(d)
    BY Topology DEF Init, AsksFirst, UeOf, NoUeManager
  <2>2. \A i \in Iab : Pending(i) = <<>>
    BY Topology DEF Init, Pending, Left
  <2>3. \A w \in Wired : s1Up[w] = <<>>
    BY DEF Init
  <2>4. Names(d, <<>>) = {}
    BY DEF Names
  <2>5. \A t \in 1 .. Len(session) : FALSE
    BY DEF Init
  <2> QED BY <2>1, <2>2, <2>3, <2>4, <2>5 DEF Asks, OneFor
<1> QED BY <1>1, <1>2 DEF OnceInv

(***************************************************************************)
(* Why the program stops.                                                  *)
(***************************************************************************)

\* All that is known of a run, but why it stopped.
KnownInv == LiveInv /\ StableInv /\ NotedInv /\ OnceInv /\ EmptyInv

LEMMA KnownInvStep == KnownInv /\ [Next]_vars => KnownInv'
BY LiveInvStep, StableInvStep, NotedInvStep, OnceInvStep DEF KnownInv

LEMMA InitKnownInv == Init => KnownInv
BY InitLiveInv, InitStableInv, InitNotedInv, InitOnceInv DEF KnownInv

\* A route never leads to a UeManager that is gone: GetUeManager does not
\* assert on a packet.
LEMMA ForwardDownRuns ==
    ASSUME LiveInv, NEW b \in Stations, NEW p, NEW q, ForwardDown(b, p, q), fatal = "no"
    PROVE  fatal' = "no"
<1>1. ~RouteIsStale(b, p.teid)
  BY LiveRoutes DEF RouteIsStale, RouteIsLive, HasTeid
<1> QED BY <1>1 DEF ForwardDown

\* RecvFromLteSocket finds the context of the sender and of its bearer.
LEMMA RecvUeDataRuns ==
    ASSUME LiveInv, NEW d \in Devices, RecvUeData(d), fatal = "no"
    PROVE  fatal' = "no"
<1> DEFINE b == Parent[d]
           f == Head(ulq[d])
<1>1. ulq[d] # <<>> /\ SenderKind(b, f) # "iab"
  BY DEF RecvUeData
<1>2. 1 \in DOMAIN ulq[d] /\ f = ulq[d][1]
  <2>1. ulq \in [Devices -> Seq(UplinkFrame)]
    BY DEF LiveInv, CurrentInv, CurrentQueues
  <2>2. ulq[d] \in Seq(UplinkFrame)
    BY <2>1
  <2> QED BY <1>1, <2>2
<1>3. /\ rntiLocalImsi[b][f.rnti] = d
      /\ imsiIab[b][d] = IF d \in Iab THEN "iab" ELSE "ue"
      /\ d \in Ue => rbidTeid[b][f.rnti][f.bid] # 0
  <2>1. UplinkFindsContext
    BY FoundContexts
  <2> HIDE DEF f
  <2> QED BY <1>2, <2>1 DEF UplinkFindsContext
<1>4. d \notin Iab /\ d \in Ue /\ SenderKind(b, f) = "ue" /\ TunnelOf(b, f) # 0
  <2>1. d # None
    BY Topology
  <2> QED BY <1>1, <1>3, <2>1 DEF SenderKind, TunnelOf, Devices
<1> QED BY <1>4 DEF RecvUeData

\* Only a device with a further bearer puts a packet it has flushed on the air
\* again.
LEMMA RecvReconfigurationCause ==
    ASSUME LiveInv, NEW d \in Devices, RecvReconfiguration(d), fatal = "no"
    PROVE  AbortsHaveACause'
<1> DEFINE n     == Head(srbDl[d]).drbs
           flush == IF n > drbs[d] THEN nasBuffer[d] ELSE <<>>
           twice == \E i \in DOMAIN flush : BearerOf(d, flush[i]) <= drbs[d]
<1>1. /\ srbDl[d] # <<>> /\ Head(srbDl[d]).type = "ConnectionReconfiguration"
      /\ rrc[d] = "CONNECTED" /\ UNCHANGED nasBuffer
      /\ (twice /\ fatal' = "same tag twice") \/ UNCHANGED fatal
  BY DEF RecvReconfiguration, nasVars
<1>2. CASE twice /\ fatal' = "same tag twice"
  <2>1. n \in 1 .. Served(d).drbs
    BY <1>1, HeadSrb DEF CurrentDl
  <2>2. Served(d).drbs = NumBearers[d]
    <3> DEFINE r == rnti[d]
    <3>1. r \in Rntis /\ UeOf(Parent[d], r) = d
      BY <1>1, LiveParts DEF TypeInv, LinkInv, Linked
    <3>2. Served(d).drbs # 0
      BY <2>1
    <3>3. Contexts(Parent[d], r)
      BY <3>1, Topology DEF LiveInv, ContextInv
    <3> QED BY <3>1, <3>2, <3>3 DEF Contexts, Served, UeOf
  <2>3. NumBearers[d] \in Nat /\ drbs[d] \in Nat /\ nasBuffer[d] \in Seq(UplinkPacket)
    <3>1. drbs[d] \in Bids \cup {0} /\ nasBuffer[d] \in Seq(UplinkPacket)
      BY LiveParts DEF TypeInv, TypeOK, DeviceTypes, NasTypes
    <3> QED BY <3>1, Topology DEF Bids
  <2>4. n > drbs[d] /\ nasBuffer[d] # <<>>
    <3>1. DOMAIN flush # {}
      BY <1>2
    <3>2. DOMAIN <<>> = {}
      OBVIOUS
    <3>3. flush # <<>>
      <4> HIDE DEF flush
      <4> QED BY <3>1, <3>2
    <3> QED BY <3>3
  <2>5. drbs[d] >= 1
    <3>1. PICK i \in DOMAIN nasBuffer[d] : BearerOf(d, nasBuffer[d][i]) <= drbs[d]
      BY <1>2, <2>4
    <3>2. nasBuffer[d] \in Seq(UplinkPacketOf(d))
      BY LiveParts DEF TypeInv, QueueInv, NasBuffers
    <3>3. nasBuffer[d][i] \in UplinkPacketOf(d)
      BY <3>1, <3>2, ElementOfSeq, LenProperties
    <3>4. BearerOf(d, nasBuffer[d][i]) \in Bids
      <4>1. CASE d \in Iab
        BY <4>1, Topology DEF BearerOf, Bids
      <4>2. CASE d \notin Iab
        BY <3>3, <4>2 DEF BearerOf, UplinkPacketOf, UplinkPacket, InitialUeMessage, DataPacket
      <4> QED BY <4>1, <4>2
    <3> QED BY <2>3, <3>1, <3>4 DEF Bids
  <2>6. NumBearers[d] > 1
    <3> HIDE DEF n
    <3> QED BY <2>1, <2>2, <2>3, <2>4, <2>5
  <2> QED BY <1>1, <1>2, <2>4, <2>6 DEF AbortsHaveACause
<1>3. CASE UNCHANGED fatal
  BY <1>3 DEF AbortsHaveACause
<1> QED BY <1>1, <1>2, <1>3

\* A request that reaches a cell is for a device of its branch.
LEMMA RequestIsKnown ==
    ASSUME LiveInv, NotedInv, NEW b \in Stations, NEW m \in Request, m.imsi \in Below[b]
    PROVE  m.imsi \in Devices /\ Noted(b, m.imsi)
<1>1. m.imsi \in Devices /\ NumBearers[m.imsi] \in Nat /\ NumBearers[m.imsi] >= 1
  BY RequestBearers, LiveParts, Topology DEF Bids
<1>2. PICK first \in 0 .. Len(session) : Granted(m, first)
  BY DEF Request
<1>3. /\ first + 1 \in 1 .. Len(session)
      /\ session[first + 1] = [imsi |-> m.imsi, bid |-> 1]
  <2>1. Len(session) \in Nat
    BY LiveParts, LenProperties DEF TypeInv, TypeOK, CoreTypes
  <2>2. 1 \in 1 .. NumBearers[m.imsi] /\ first + NumBearers[m.imsi] <= Len(session)
    BY <1>1, <1>2 DEF Granted
  <2> QED BY <1>1, <1>2, <2>1, <2>2 DEF Granted
<1>4. Owner(first + 1) = m.imsi
  BY <1>3 DEF Owner
<1> QED BY <1>1, <1>3, <1>4 DEF NotedInv, Known

\* DoForwardIabS1apReply finds its maps filled.
LEMMA ForwardRuns ==
    ASSUME LiveInv, NEW b \in Stations, NEW m \in Request, m.imsi \in remoteImsi[b], NEW q,
           ForwardIabS1apReply(b, m, q), fatal = "no"
    PROVE  fatal' = "no"
<1> DEFINE d  == m.imsi
           rb == imsiLocalRbid[b][d]
           r  == imsiRnti[b][d]
<1>1. d \in Devices
  BY RequestBearers, LiveParts
<1>2. r \in Rntis /\ rb.rnti = r /\ r # 0
  BY <1>1, LiveParts DEF BranchInv, Forwarded, Rntis
<1>3. rb # NoRbid
  BY <1>2 DEF NoRbid
<1>4. Permanent(b, rb)
  BY <1>1, <1>3 DEF LiveInv, ChildInv
<1>5. ueMap[b][r].state # "NONE"
  <2> DEFINE c == ueMap[b][r].ue
  <2>1. c \in Devices /\ rrc[c] = "CONNECTED" /\ rnti[c] = r
    BY <1>2, <1>4 DEF Permanent
  <2>2. Parent[c] = b
    BY <1>2, <2>1, LiveParts, Topology DEF TypeInv, UeMapInv, UeKnown, UeOf
  <2> HIDE DEF c, r
  <2> QED BY <2>1, <2>2 DEF LiveInv, AttachedInv, Attached, Served
<1> QED BY <1>2, <1>3, <1>5 DEF ForwardIabS1apReply

\* A second request for a device brings TEIDs its cell does not have, so the
\* SGW has opened two sessions for it, and it has asked twice.
LEMMA SetupCause ==
    ASSUME KnownInv, NEW b \in Stations, NEW m \in Request, m.imsi \in Below[b],
           m.imsi \notin remoteImsi[b], TeidsOf(m) \cap TeidsAt(b) = {}, NEW q,
           SetupContext(b, m, q), fatal = "no", UNCHANGED attempts
    PROVE  AbortsHaveACause'
<1> DEFINE d == m.imsi
           r == imsiRnti[b][d]
           u == ueMap[b][r]
<1> USE DEF KnownInv
<1>1. d \in Devices /\ Noted(b, d) /\ Parent[d] = b
  <2>1. d \in Devices /\ Noted(b, d)
    BY RequestIsKnown
  <2> QED BY <2>1 DEF Noted
<1>2. r # 0 /\ r \in Rntis
  <2>1. r \in Rntis \cup {0}
    BY <1>1, LiveTypes
  <2> QED BY <1>1, <2>1 DEF Noted
<1>3. UeOf(b, r) = d /\ rntiLocalImsi[b][r] = d /\ r <= lastRnti[b]
  <2>1. UeOf(b, r) = d
    BY <1>1, <1>2, LiveParts DEF TypeInv, OwnInv
  <2>2. rntiLocalImsi[b][r] = d
    BY <1>1, <1>2, LiveParts DEF RouteInv, MapInv, Mapped
  <2>3. d # None
    BY <1>1, Topology
  <2> QED BY <1>2, <2>1, <2>2, <2>3, LiveParts DEF TypeInv, UeMapInv, UeKnown
<1>4. CASE UNCHANGED fatal
  BY <1>4 DEF AbortsHaveACause
<1>5. CASE u.state = "NONE" /\ fatal' = "RNTI not found" /\ UNCHANGED <<lastRnti, ueMap>>
  BY <1>2, <1>3, <1>5 DEF AbortsHaveACause
<1>6. CASE u.state # "NONE" /\ u.drbs # 0 /\ fatal' = "bearer ID mismatch"
  <2> DEFINE t == rbidTeid[b][r][1]
             s == TeidFor(m, 1)
  <2>1. u.drbs = NumBearers[d] /\ NumBearers[d] \in Nat /\ 1 \in 1 .. NumBearers[d] /\ 1 \in Bids
    <3>1. Contexts(b, r)
      BY <1>2 DEF LiveInv, ContextInv
    <3>2. u.drbs = NumBearers[d]
      BY <1>3, <1>6, <3>1 DEF Contexts, UeOf
    <3>3. NumBearers[d] \in Nat /\ 1 \in 1 .. NumBearers[d] /\ 1 \in Bids
      BY <1>1, Topology DEF Bids
    <3> QED BY <3>2, <3>3
  <2>2. t # 0
    <3>1. Contexts(b, r)
      BY <1>2 DEF LiveInv, ContextInv
    <3> QED BY <1>6, <2>1, <3>1 DEF Contexts
  <2>3. t \in Teids
    BY <1>2, <2>1, <2>2, LiveTypes
  <2>4. Allocated(t) /\ session[t] = [imsi |-> d, bid |-> 1]
    <3>1. Tunnelled(b, r, 1)
      BY <1>2, <2>1, LiveParts DEF TrafficInv, TunnelInv
    <3> QED BY <1>3, <2>2, <3>1 DEF Tunnelled
  <2>5. t \in TeidsAt(b)
    <3>1. teidRbid[b][t] = [rnti |-> r, bid |-> 1]
      BY <1>2, <2>1, <2>2 DEF StableInv, WrittenInv, Written
    <3> HIDE DEF KnownInv, t, r
    <3>2. teidRbid[b][t] # NoRbid
      BY <1>2, <3>1 DEF NoRbid
    <3> QED BY <2>3, <3>2 DEF TeidsAt, HasTeid
  <2>6. s \in TeidsOf(m) /\ Allocated(s) /\ session[s] = [imsi |-> d, bid |-> 1]
    <3>1. 1 \in BidsOf(m)
      BY <2>1, RequestExact, LiveParts
    <3> QED BY <3>1, RequestTeid, RequestTunnel, LiveParts
  <2>7. s # t
    BY <2>5, <2>6
  <2>8. Owner(t) = d
    <3> HIDE DEF KnownInv, t, d
    <3> QED BY <2>4 DEF Owner
  <2>9. ~Asks(d)
    <3> HIDE DEF s, t, d
    <3> QED BY <2>4, <2>6, <2>7, <2>8 DEF Asks, Allocated
  <2>10. attempts[d] \in Nat
    BY <1>1, LiveParts DEF TypeInv, TypeOK, DeviceTypes
  <2>11. attempts[d] > 1
    BY <1>1, <2>9, <2>10 DEF OnceInv
  <2> QED BY <1>1, <1>6, <2>11 DEF AbortsHaveACause
<1> QED BY <1>2, <1>4, <1>5, <1>6 DEF SetupContext, AbortContextSetup, cellVars

LEMMA RecvFromS1apSocketCause ==
    ASSUME KnownInv, NEW b \in Stations, NEW m \in Request, m.imsi \in Below[b],
           TeidsOf(m) \cap TeidsAt(b) = {}, NEW q,
           RecvFromS1apSocket(b, m, q), fatal = "no", UNCHANGED attempts
    PROVE  AbortsHaveACause'
BY ForwardRuns, SetupCause DEF RecvFromS1apSocket, AbortsHaveACause, KnownInv

LEMMA WiredRecvS1apCause ==
    ASSUME KnownInv, NEW w \in Wired, WiredRecvS1ap(w), fatal = "no"
    PROVE  AbortsHaveACause'
<1> DEFINE m == Head(s1Down[w])
<1> USE DEF KnownInv
<1>1. s1Down[w] # <<>> /\ RecvFromS1apSocket(w, m, dlq) /\ UNCHANGED attempts
  BY DEF WiredRecvS1ap, ueVars
<1>2. w \in Stations /\ m \in Request /\ m \in RequestOf(w) /\ m \in InitialContextSetupRequest
  <2>1. s1Down[w] \in Seq(RequestOf(w))
    BY DEF NotedInv
  <2>2. m \in RequestOf(w)
    BY <1>1, <2>1, TakeQueue
  <2> QED BY <1>1, <2>2, RequestsAreGranted, Topology DEF RequestOf
<1>3. TeidsOf(m) \cap TeidsAt(w) = {}
  <2>1. Once(s1Down[w], Asked, TeidsAt(w))
    BY DEF StableInv, FreshInv
  <2>2. 1 \in DOMAIN s1Down[w] /\ m = s1Down[w][1]
    <3>1. s1Down[w] \in Seq(RequestOf(w))
      BY DEF NotedInv
    <3> QED BY <1>1, <3>1
  <2> HIDE DEF m
  <2>3. Asked[m] \cap TeidsAt(w) = {}
    BY <2>1, <2>2 DEF Once
  <2> QED BY <1>2, <2>3 DEF Asked
<1>4. m.imsi \in Below[w]
  BY <1>2 DEF RequestOf
<1> HIDE DEF m, KnownInv
<1> QED BY <1>1, <1>2, <1>3, <1>4, RecvFromS1apSocketCause

LEMMA IabRecvS1apCause ==
    ASSUME KnownInv, NEW i \in Iab, IabRecvS1ap(i), fatal = "no"
    PROVE  AbortsHaveACause'
<1> DEFINE f == Head(dlq[i])
<1> USE DEF KnownInv
<1>1. PICK q : /\ dlq[i] # <<>> /\ f.pkt.type = "InitialContextSetupRequest"
               /\ RecvFromS1apSocket(i, f.pkt, q) /\ UNCHANGED attempts
  BY DEF IabRecvS1ap, ueVars
<1>2. i \in Stations /\ i \in Devices
  BY Topology
<1>3. f \in RightFrame(i) /\ f \in DownlinkFrame /\ f.pkt \in Request
  <2>1. f \in RightFrame(i)
    BY <1>1, <1>2, HeadGranted DEF StableInv
  <2> QED BY <1>1, <2>1, RequestsAreGranted DEF RightFrame
<1>4. TeidsOf(f.pkt) \cap TeidsAt(i) = {}
  <2>1. Once(dlq[i], AskedOn, TeidsAt(i))
    BY DEF StableInv, FreshInv
  <2>2. 1 \in DOMAIN dlq[i] /\ f = dlq[i][1]
    <3>1. dlq \in [Devices -> Seq(RequestFrame)]
      BY LiveParts DEF TypeInv, QueueInv, DownlinkQueues
    <3>2. dlq[i] \in Seq(RequestFrame)
      BY <1>2, <3>1
    <3> QED BY <1>1, <3>2
  <2> HIDE DEF f
  <2>3. AskedOn[f] \cap TeidsAt(i) = {}
    BY <2>1, <2>2 DEF Once
  <2> QED BY <1>1, <1>3, <2>3 DEF AskedOn
<1>5. f.pkt.imsi \in Below[i]
  BY <1>1, <1>3 DEF RightFrame, RightBranch
<1> HIDE DEF f, KnownInv
<1> QED BY <1>1, <1>2, <1>3, <1>4, <1>5, RecvFromS1apSocketCause

LEMMA CauseStep ==
    KnownInv /\ AbortsHaveACause /\ [Next]_vars => AbortsHaveACause'
<1> SUFFICES ASSUME KnownInv, AbortsHaveACause, [Next]_vars PROVE AbortsHaveACause'
  OBVIOUS
<1>0. KnownInv => LiveInv /\ NotedInv
  BY DEF KnownInv
<1>1. ASSUME UNCHANGED vars PROVE AbortsHaveACause'
  BY <1>1 DEF AbortsHaveACause, vars, ueVars, nasVars, cellVars
<1>2. ASSUME fatal' = "no" PROVE AbortsHaveACause'
  BY <1>2 DEF AbortsHaveACause
<1>3. Next => fatal = "no"
  <2> HIDE <1>0, <1>1, <1>2
  <2>1. ASSUME NEW d \in Devices, Connect(d) PROVE fatal = "no"
    <3>1. RandomAccess(d) => Running
      BY DEF RandomAccess
    <3>2. RecvConnectionRequest(d) => Running
      BY DEF RecvConnectionRequest
    <3>3. RecvConnectionSetup(d) => Running
      BY DEF RecvConnectionSetup
    <3>4. RecvConnectionSetupCompleted(d) => Running
      BY DEF RecvConnectionSetupCompleted
    <3>5. RecvReconfiguration(d) => Running
      BY DEF RecvReconfiguration
    <3>6. RecvReconfigurationCompleted(d) => Running
      BY DEF RecvReconfigurationCompleted
    <3> QED BY <2>1, <3>1, <3>2, <3>3, <3>4, <3>5, <3>6 DEF Connect, Running
  <2>2. ASSUME NEW d \in Devices, Uplink(d) PROVE fatal = "no"
    <3>1. RelayInitialUeMessage(d) => Running
      BY DEF RelayInitialUeMessage
    <3>2. RelayData(d) => Running
      BY DEF RelayData
    <3>3. RecvUeData(d) => Running
      BY DEF RecvUeData
    <3> QED BY <2>2, <3>1, <3>2, <3>3 DEF Uplink, Running
  <2>3. ASSUME NEW d \in Devices, DownlinkStep(d) PROVE fatal = "no"
    <3>1. DropDownlink(d) => Running
      BY DEF DropDownlink
    <3>2. DeliverToUe(d) => Running
      BY DEF DeliverToUe
    <3>3. IabRecvS1ap(d) => Running
      BY DEF IabRecvS1ap
    <3>4. IabRecvData(d) => Running
      BY DEF IabRecvData
    <3> QED BY <2>3, <3>1, <3>2, <3>3, <3>4 DEF DownlinkStep, Running
  <2>4. ASSUME NEW d \in Devices,
               ConnectionTimeout(d) \/ LoseUplink(d) \/ LoseDownlink(d)
        PROVE  fatal = "no"
    BY <2>4 DEF ConnectionTimeout, LoseUplink, LoseDownlink, Running
  <2>5. ASSUME NEW w \in Wired, Wireline(w) PROVE fatal = "no"
    BY <2>5 DEF Wireline, WiredRecvS1ap, WiredRecvData, Running
  <2>6. ASSUME NEW w \in Wired, MmeRecvInitialUeMessage(w) PROVE fatal = "no"
    BY <2>6 DEF MmeRecvInitialUeMessage, Running
  <2>7. ASSUME NEW b \in Stations, NEW r \in Rntis, RemoveUe(b, r) PROVE fatal = "no"
    BY <2>7 DEF RemoveUe, Running
  <2>8. ASSUME NEW u \in Ue, NEW k \in Bids, UeSend(u, k) \/ SgwRecvFromInternet(u, k)
        PROVE  fatal = "no"
    BY <2>8 DEF UeSend, SgwRecvFromInternet, Running
  <2> QED BY <2>1, <2>2, <2>3, <2>4, <2>5, <2>6, <2>7, <2>8 DEF Next
<1>4. ASSUME fatal = "no", NEW d \in Devices, Connect(d) PROVE AbortsHaveACause'
  <2>1. CASE RecvReconfiguration(d)
    BY <1>0, <1>4, <2>1, RecvReconfigurationCause
  <2> QED BY <1>2, <1>4, <2>1
          DEF Connect, RandomAccess, RecvConnectionRequest, RecvConnectionSetup,
              RecvConnectionSetupCompleted, RecvReconfigurationCompleted
<1>5. ASSUME fatal = "no", NEW d \in Devices, Uplink(d) PROVE AbortsHaveACause'
  BY <1>0, <1>2, <1>5, RecvUeDataRuns DEF Uplink, RelayInitialUeMessage, RelayData
<1>6. ASSUME fatal = "no", NEW d \in Devices, DownlinkStep(d) PROVE AbortsHaveACause'
  <2>1. CASE IabRecvS1ap(d)
    BY <1>6, <2>1, IabRecvS1apCause DEF IabRecvS1ap
  <2>2. CASE IabRecvData(d)
    BY <1>0, <1>2, <1>6, <2>2, ForwardDownRuns, Topology DEF IabRecvData
  <2> QED BY <1>2, <1>6, <2>1, <2>2 DEF DownlinkStep, DropDownlink, DeliverToUe
<1>7. ASSUME fatal = "no", NEW d \in Devices,
             ConnectionTimeout(d) \/ LoseUplink(d) \/ LoseDownlink(d)
      PROVE  AbortsHaveACause'
  BY <1>2, <1>7 DEF ConnectionTimeout, LoseUplink, LoseDownlink
<1>8. ASSUME fatal = "no", NEW w \in Wired, Wireline(w) \/ MmeRecvInitialUeMessage(w)
      PROVE  AbortsHaveACause'
  <2>1. CASE WiredRecvData(w)
    BY <1>0, <1>2, <1>8, <2>1, ForwardDownRuns, Topology DEF WiredRecvData
  <2>2. CASE MmeRecvInitialUeMessage(w)
    BY <1>0, <1>2, <1>8, <2>2, MmeAnswers
  <2> QED BY <1>8, <2>1, <2>2, WiredRecvS1apCause DEF Wireline
<1>9. ASSUME fatal = "no", NEW b \in Stations, NEW r \in Rntis, RemoveUe(b, r)
      PROVE  AbortsHaveACause'
  BY <1>2, <1>9 DEF RemoveUe, coreVars
<1>10. ASSUME fatal = "no", NEW u \in Ue, NEW k \in Bids, UeSend(u, k) \/ SgwRecvFromInternet(u, k)
       PROVE  AbortsHaveACause'
  BY <1>2, <1>10 DEF UeSend, SgwRecvFromInternet
<1> QED BY <1>1, <1>3, <1>4, <1>5, <1>6, <1>7, <1>8, <1>9, <1>10 DEF Next

\* The program stops only where the code lets two attempts of a device, or two
\* uses of a packet, meet: SetupDataRadioBearer, GetUeManager after RemoveUe
\* and PacketTagList::Add.  The assertions of DoForwardIabS1apReply, of the
\* MME's walk over donors, on unknown IMSIs and on unknown uplink contexts
\* never fail, in any deployment and under any loss.
THEOREM OnlyKnownAborts == Spec => []AbortsHaveACause
<1>1. Init => KnownInv /\ AbortsHaveACause
  BY InitKnownInv DEF Init, AbortsHaveACause
<1>2. KnownInv /\ AbortsHaveACause /\ [Next]_vars => (KnownInv /\ AbortsHaveACause)'
  BY KnownInvStep, CauseStep
<1> QED BY <1>1, <1>2, PTL DEF Spec

(***************************************************************************)
(* Without retries and with one bearer for each device.                    *)
(***************************************************************************)

\* An RNTI a cell has given out is the RNTI of a device that still uses it.
Kept(b, r) ==
    LET d == UeOf(b, r) IN d \in Devices /\ rrc[d] # "IDLE" /\ rnti[d] = r

FirstInv ==
    /\ \A d \in Devices : /\ attempts[d] <= MaxAttempts[d]
                          /\ rrc[d] # "IDLE" => attempts[d] >= 1
    /\ \A b \in Stations, r \in Rntis : r <= lastRnti[b] => Kept(b, r)

LEMMA FirstStays ==
    ASSUME FirstInv, UNCHANGED <<rnti, attempts, lastRnti>>,
           \A d \in Devices : rrc'[d] = "IDLE" <=> rrc[d] = "IDLE",
           \A b \in Stations, r \in Rntis : ueMap'[b][r].ue = ueMap[b][r].ue
    PROVE  FirstInv'
BY DEF FirstInv, Kept, UeOf

LEMMA ReplaceFirst ==
    ASSUME TypeInv, FirstInv, NEW b \in Stations, NEW r \in Rntis, NEW v \in UeManager,
           ueMap' = [ueMap EXCEPT ![b][r] = v], v.ue = ueMap[b][r].ue,
           UNCHANGED <<rrc, rnti, attempts, lastRnti>>
    PROVE  FirstInv'
<1>1. ueMap \in [Stations -> [Rntis -> UeManager]]
  BY DEF TypeInv, TypeOK, CellTypes
<1>2. \A x \in Stations, y \in Rntis :
         ueMap'[x][y] = IF x = b /\ y = r THEN v ELSE ueMap[x][y]
  BY <1>1, UpdateTwice
<1> QED BY <1>2, FirstStays

LEMMA RandomAccessFirst ==
    ASSUME TypeInv, FirstInv, NEW d \in Devices, MaxAttempts[d] <= 1, RandomAccess(d)
    PROVE  FirstInv'
<1> DEFINE b == Parent[d]
           r == lastRnti[b] + 1
<1>1. /\ rrc[d] = "IDLE" /\ attempts[d] < MaxAttempts[d] /\ r \in Rntis
      /\ rrc' = [rrc EXCEPT ![d] = "CONNECTING"] /\ rnti' = [rnti EXCEPT ![d] = r]
      /\ attempts' = [attempts EXCEPT ![d] = @ + 1]
      /\ lastRnti' = [lastRnti EXCEPT ![b] = r]
      /\ ueMap' = [ueMap EXCEPT ![b][r] = NewUeManager(d)]
  BY DEF RandomAccess
<1>2. /\ b \in Stations /\ d \in Devices /\ MaxAttempts[d] \in Nat
      /\ rrc \in [Devices -> {"IDLE", "CONNECTING", "CONNECTED"}]
      /\ rnti \in [Devices -> Rntis \cup {0}] /\ attempts \in [Devices -> Nat]
      /\ lastRnti \in [Stations -> Rntis \cup {0}]
      /\ ueMap \in [Stations -> [Rntis -> UeManager]]
  BY Topology, AttemptsAssumption DEF TypeInv, TypeOK, DeviceTypes, CellTypes
<1>3. NewUeManager(d) \in UeManager /\ NewUeManager(d).ue = d
  BY DEF NewUeManager, NoUeManager, UeManager, UeManagerState
<1>4. \A x \in Stations, y \in Rntis :
         ueMap'[x][y] = IF x = b /\ y = r THEN NewUeManager(d) ELSE ueMap[x][y]
  BY <1>1, <1>2, <1>3, UpdateTwice
<1> HIDE DEF b, r
<1>5. \A x \in Devices : /\ attempts'[x] <= MaxAttempts[x]
                         /\ rrc'[x] # "IDLE" => attempts'[x] >= 1
  BY <1>1, <1>2 DEF FirstInv
<1>6. ASSUME NEW x \in Stations, NEW y \in Rntis, y <= lastRnti'[x] PROVE Kept(x, y)'
  <2>1. CASE x = b /\ y = r
    <3>1. ueMap'[x][y].ue = d
      BY <1>3, <1>4, <2>1
    <3>2. rrc'[d] = "CONNECTING" /\ rnti'[d] = r
      BY <1>1, <1>2
    <3> QED BY <2>1, <3>1, <3>2 DEF Kept, UeOf
  <2>2. CASE ~(x = b /\ y = r)
    <3>1. y <= lastRnti[x]
      <4>1. lastRnti[x] \in Nat /\ lastRnti[b] \in Nat /\ y \in Nat /\ r = lastRnti[b] + 1
        BY <1>2 DEF Rntis, r
      <4>2. lastRnti'[x] = IF x = b THEN r ELSE lastRnti[x]
        BY <1>1, <1>2
      <4> QED BY <1>6, <2>2, <4>1, <4>2
    <3>2. Kept(x, y)
      BY <3>1 DEF FirstInv
    <3>3. ueMap'[x][y].ue = ueMap[x][y].ue /\ UeOf(x, y) # d
      BY <1>1, <1>4, <2>2, <3>2 DEF Kept
    <3> QED BY <1>1, <1>2, <3>2, <3>3 DEF Kept, UeOf
  <2> QED BY <2>1, <2>2
<1> QED BY <1>5, <1>6 DEF FirstInv

LEMMA RecvS1apFirst ==
    ASSUME TypeInv, FirstInv, NEW b \in Stations, NEW m \in Request, NEW q \in DownlinkQueues,
           RecvFromS1apSocket(b, m, q), UNCHANGED <<session, ueVars>>
    PROVE  FirstInv'
<1>1. SameUes
  BY RecvFromS1apSocketTypes DEF ContextSet
<1>2. UNCHANGED lastRnti
  BY DEF RecvFromS1apSocket, ForwardIabS1apReply, SetupContext, AbortContextSetup, cellVars
<1> QED BY <1>1, <1>2, FirstStays DEF SameUes, ueVars

LEMMA FirstInvStep ==
    ASSUME \A d \in Devices : MaxAttempts[d] <= 1, TypeInv, FirstInv, [Next]_vars
    PROVE  FirstInv'
<1>1. CASE UNCHANGED <<rrc, rnti, attempts, cellVars>>
  BY <1>1, FirstStays DEF cellVars
<1>2. ASSUME NEW d \in Devices, Connect(d) PROVE FirstInv'
  <2>1. CASE RandomAccess(d)
    BY <2>1, RandomAccessFirst
  <2>2. CASE RecvConnectionRequest(d)
    <3> DEFINE b == Parent[d]
               r == Head(srbUl[d]).rnti
               v == [ueMap[b][r] EXCEPT !.state = "CONNECTION_SETUP"]
    <3>1. b \in Stations /\ r \in Rntis /\ ueMap[b][r] \in UeManager
      BY <2>2, HeadRnti, Topology DEF RecvConnectionRequest
    <3>2. v \in UeManager /\ v.ue = ueMap[b][r].ue
      BY <3>1 DEF UeManager, UeManagerState
    <3>3. ueMap' = [ueMap EXCEPT ![b][r] = v] /\ UNCHANGED <<rrc, rnti, attempts, lastRnti>>
      BY <2>2 DEF RecvConnectionRequest, ueVars
    <3> HIDE DEF b, r, v
    <3> QED BY <3>1, <3>2, <3>3, ReplaceFirst
  <2>3. CASE RecvConnectionSetup(d)
    <3>1. /\ rrc[d] = "CONNECTING" /\ rrc' = [rrc EXCEPT ![d] = "CONNECTED"]
          /\ UNCHANGED <<rnti, attempts, lastRnti, ueMap>>
      BY <2>3 DEF RecvConnectionSetup, cellVars
    <3>2. rrc \in [Devices -> {"IDLE", "CONNECTING", "CONNECTED"}]
      BY DEF TypeInv, TypeOK, DeviceTypes
    <3> QED BY <3>1, <3>2, FirstStays
  <2>4. CASE RecvConnectionSetupCompleted(d) \/ RecvReconfigurationCompleted(d)
    <3> DEFINE b == Parent[d]
               r == Head(srbUl[d]).rnti
               u == ueMap[b][r]
    <3>1. b \in Stations /\ r \in Rntis /\ u \in UeManager
      BY <2>4, HeadRnti, Topology
      DEF RecvConnectionSetupCompleted, RecvReconfigurationCompleted
    <3>2. PICK v \in {ConnectedNormally(u), Reconfigured(u)} :
             ueMap' = [ueMap EXCEPT ![b][r] = v]
      BY <2>4 DEF RecvConnectionSetupCompleted, RecvReconfigurationCompleted
    <3>3. v \in UeManager /\ v.ue = u.ue
      <4> DEFINE c == ConnectedNormally(u)
      <4>1. c \in UeManager /\ c.ue = u.ue
        BY <3>1, ConnectedNormallyUe
      <4>2. Reconfigured(u) = [c EXCEPT !.numIab = IF u.needIab THEN 1 ELSE @]
        BY DEF Reconfigured
      <4> HIDE DEF c, u
      <4>3. Reconfigured(u) \in UeManager /\ Reconfigured(u).ue = c.ue
        BY <4>1, <4>2 DEF UeManager
      <4> QED BY <3>2, <4>1, <4>3 DEF c
    <3>4. UNCHANGED <<rrc, rnti, attempts, lastRnti>>
      BY <2>4 DEF RecvConnectionSetupCompleted, RecvReconfigurationCompleted, ueVars
    <3> HIDE DEF b, r
    <3> QED BY <3>1, <3>2, <3>3, <3>4, ReplaceFirst
  <2>5. CASE RecvReconfiguration(d)
    BY <1>1, <2>5 DEF RecvReconfiguration
  <2> QED BY <1>2, <2>1, <2>2, <2>3, <2>4, <2>5 DEF Connect
<1>3. ASSUME NEW d \in Devices, ConnectionTimeout(d) PROVE FirstInv'
  <2>1. attempts[d] \in Nat /\ MaxAttempts[d] \in Nat /\ MaxAttempts[d] <= 1
    BY AttemptsAssumption DEF TypeInv, TypeOK, DeviceTypes
  <2>2. attempts[d] < MaxAttempts[d] /\ attempts[d] >= 1
    BY <1>3 DEF ConnectionTimeout, FirstInv
  <2> QED BY <2>1, <2>2
<1>4. ASSUME NEW b \in Stations, NEW r \in Rntis, RemoveUe(b, r) PROVE FirstInv'
  <2> DEFINE v == [ueMap[b][r] EXCEPT !.state = "NONE"]
  <2>1. ueMap[b][r] \in UeManager
    BY DEF TypeInv, TypeOK, CellTypes
  <2>2. v \in UeManager /\ v.ue = ueMap[b][r].ue
    BY <2>1 DEF UeManager, UeManagerState
  <2>3. ueMap' = [ueMap EXCEPT ![b][r] = v] /\ UNCHANGED <<rrc, rnti, attempts, lastRnti>>
    BY <1>4 DEF RemoveUe, ueVars
  <2> HIDE DEF v
  <2> QED BY <2>2, <2>3, ReplaceFirst
<1>5. ASSUME NEW w \in Wired, WiredRecvS1ap(w) PROVE FirstInv'
  <2>1. w \in Stations /\ dlq \in DownlinkQueues /\ s1Down[w] \in Seq(Request)
    BY Topology DEF TypeInv, QueueInv, Requests
  <2>2. /\ s1Down[w] # <<>> /\ RecvFromS1apSocket(w, Head(s1Down[w]), dlq)
        /\ UNCHANGED <<session, ueVars>>
    BY <1>5 DEF WiredRecvS1ap
  <2> QED BY <2>1, <2>2, TakeQueue, RecvS1apFirst
<1>6. ASSUME NEW i \in Devices, IabRecvS1ap(i) PROVE FirstInv'
  <2> DEFINE f == Head(dlq[i])
             q == [dlq EXCEPT ![i] = Tail(@)]
  <2>1. /\ i \in Iab /\ dlq[i] # <<>> /\ f.pkt.type = "InitialContextSetupRequest"
        /\ RecvFromS1apSocket(i, f.pkt, q) /\ UNCHANGED <<session, ueVars>>
    BY <1>6 DEF IabRecvS1ap, coreVars
  <2>2. f \in RequestFrame /\ q \in DownlinkQueues /\ i \in Stations
    BY <2>1, HeadDownlink, Topology
  <2> HIDE DEF f, q
  <2>3. f.pkt \in Request
    BY <2>1, <2>2 DEF RequestFrame, DataPacket
  <2> QED BY <2>1, <2>2, <2>3, RecvS1apFirst
<1>7. ASSUME NEW d \in Devices, Uplink(d) PROVE FirstInv'
  BY <1>1, <1>7 DEF Uplink, RelayInitialUeMessage, RelayData, RecvUeData, ueVars
<1>8. ASSUME NEW d \in Devices, DropDownlink(d) \/ DeliverToUe(d) \/ IabRecvData(d)
                                \/ LoseUplink(d) \/ LoseDownlink(d)
      PROVE  FirstInv'
  BY <1>1, <1>8 DEF DropDownlink, DeliverToUe, IabRecvData, LoseUplink, LoseDownlink, ueVars
<1>9. ASSUME NEW w \in Wired, WiredRecvData(w) \/ MmeRecvInitialUeMessage(w) PROVE FirstInv'
  BY <1>1, <1>9 DEF WiredRecvData, MmeRecvInitialUeMessage, ueVars
<1>10. ASSUME NEW u \in Ue, NEW k \in Bids, UeSend(u, k) \/ SgwRecvFromInternet(u, k)
       PROVE  FirstInv'
  BY <1>1, <1>10 DEF UeSend, SgwRecvFromInternet, ueVars
<1>11. CASE UNCHANGED vars
  BY <1>1, <1>11 DEF vars, ueVars
<1> QED BY <1>2, <1>3, <1>4, <1>5, <1>6, <1>7, <1>8, <1>9, <1>10, <1>11
        DEF Next, DownlinkStep, Wireline

\* None of the causes is there: nobody tries twice, a UeManager whose device is
\* not idle is not removed, and nobody has a second bearer.
LEMMA NoCause ==
    ASSUME \A d \in Devices : MaxAttempts[d] <= 1 /\ NumBearers[d] = 1,
           KnownInv, AbortsHaveACause, FirstInv
    PROVE  NoAbort
<1>1. LiveInv /\ TypeInv
  BY LiveParts DEF KnownInv
<1>2. ASSUME NEW d \in Devices, attempts[d] > 1 PROVE FALSE
  <2>1. attempts[d] \in Nat /\ MaxAttempts[d] \in Nat /\ MaxAttempts[d] <= 1
    BY <1>1, AttemptsAssumption DEF TypeInv, TypeOK, DeviceTypes
  <2> QED BY <1>2, <2>1 DEF FirstInv
<1>3. ASSUME NEW b \in Stations, NEW r \in Rntis, r <= lastRnti[b] PROVE ueMap[b][r].state # "NONE"
  <2> DEFINE d == UeOf(b, r)
  <2>1. d \in Devices /\ rrc[d] # "IDLE" /\ rnti[d] = r
    BY <1>3 DEF FirstInv, Kept
  <2>2. Parent[d] = b
    BY <1>1, <2>1, Topology DEF TypeInv, UeMapInv, UeKnown
  <2> HIDE DEF d
  <2> QED BY <1>1, <2>1, <2>2 DEF LiveInv, AttachedInv, Attached, Served
<1>4. ASSUME NEW d \in Devices, NumBearers[d] > 1 PROVE FALSE
  BY <1>4
<1> QED BY <1>2, <1>3, <1>4 DEF AbortsHaveACause, NoAbort

\* While nobody has to connect a second time and every device has the default
\* bearer only, no assertion or fatal error is reached: whatever the tree of
\* IAB nodes, the order in which they attach and the packets RLC UM loses.
THEOREM FirstAttachDoesNotAbort ==
    ASSUME \A d \in Devices : MaxAttempts[d] <= 1 /\ NumBearers[d] = 1
    PROVE  Spec => []NoAbort
<1>1. Init => KnownInv /\ AbortsHaveACause /\ FirstInv
  <2>1. Init => FirstInv
    BY AttemptsAssumption, Topology DEF Init, FirstInv, Rntis
  <2> QED BY <2>1, InitKnownInv DEF Init, AbortsHaveACause
<1>2. KnownInv /\ AbortsHaveACause /\ FirstInv /\ [Next]_vars
      => (KnownInv /\ AbortsHaveACause /\ FirstInv)'
  BY KnownInvStep, CauseStep, FirstInvStep, LiveParts DEF KnownInv
<1>3. KnownInv /\ AbortsHaveACause /\ FirstInv => NoAbort
  BY NoCause
<1> QED BY <1>1, <1>2, <1>3, PTL DEF Spec
=============================================================================
