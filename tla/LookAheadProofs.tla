-------------------------- MODULE LookAheadProofs --------------------------
(***************************************************************************)
(* Proofs that an IAB node is half duplex and that both ends of a backhaul *)
(* link agree, for every tree whose look-aheads the ring can hold.         *)
(*                                                                         *)
(* Time is a frame and an index, never a product: no plan reaches further  *)
(* than one frame, so the next occurrence of an index is in this frame or  *)
(* in the next one.                                                        *)
(***************************************************************************)
EXTENDS LookAhead, TLAPS

\* The next occurrence of index k, for cell c: its frame, and how far it is.
InThisFrame(c, k) == k > sf \/ (k = sf /\ c \notin started)
NextFrame(c, k)   == IF InThisFrame(c, k) THEN frame ELSE frame + 1
Until(c, k)       == IF InThisFrame(c, k) THEN k - sf ELSE SubframesPerFrame + k - sf

\* How far the last subframe c planned is.
LastPlanned(c) == IF c \in started THEN ahead[c] ELSE ahead[c] - 1

\* The announcement of index k is in the control symbol, undecoded by i.
InAir(i, k) == /\ ParentOf[i] \in started /\ i \notin heard
               /\ k = AnnouncedAt(ParentOf[i])

\* What c executes in this subframe, and what the UE PHY of i listens to.
Executes(c)   == IF c \in started THEN now[c] ELSE Taken(c)
Listens(i)    == IF i \in started THEN ueNow[i] ELSE ueRing[i][sf]

Clash(i, down, up) == To(down.plan, i) \cap Used(up.plan) # {}

Heard == heard # {} => started = Cells

Aheads == \A c \in Cells :
    /\ ahead[c] \in L1L2CtrlLatency + 1 .. SubframesPerFrame
    /\ ahead[c] <= L1L2CtrlLatency + delay[c]

Rings == \A c \in Cells, k \in Index : ring[c][k].valid =>
    /\ ring[c][k].frame = NextFrame(c, k)
    /\ Until(c, k) <= ring[c][k].made
    /\ Until(c, k) <= LastPlanned(c)

JustPlanned == \A c \in started :
    /\ ring[c][AnnouncedAt(c)].valid
    /\ ring[c][AnnouncedAt(c)].made = ahead[c]

\* An entry of a mask is about a subframe that has been announced.
MaskFrames == \A i \in Relays, k \in Index :
    LET last == IF i \in heard THEN ahead[ParentOf[i]] ELSE ahead[ParentOf[i]] - 1
    IN  /\ mask[i][k].frame <= frame + 1
        /\ mask[i][k].frame = frame => k - sf <= last
        /\ mask[i][k].frame = frame + 1 => SubframesPerFrame + k - sf <= last

\* What was announced for a subframe i has yet to plan is in its mask.
MasksCover == \A i \in Relays, k \in Index :
    LET p == ParentOf[i] IN
    /\ ring[p][k].valid /\ ~InAir(i, k) /\ To(ring[p][k].plan, i) # {}
    /\ Until(p, k) > LastPlanned(i)
    => /\ mask[i][k].valid /\ To(ring[p][k].plan, i) \subseteq mask[i][k].busy

PlansFit == \A i \in Relays, k \in Index :
    LET p == ParentOf[i] IN
    /\ ring[p][k].valid /\ ring[i][k].valid
    /\ ring[p][k].frame = ring[i][k].frame /\ ring[p][k].made > ring[i][k].made
    => ~Clash(i, ring[p][k], ring[i][k])

ExecutedFit == \A i \in Relays :
    LET p == ParentOf[i] IN
    Executes(p).made > Executes(i).made => ~Clash(i, Executes(p), Executes(i))

EndsAgreeLater == \A i \in Relays, k \in Index :
    LET p == ParentOf[i] IN
    k # sf \/ i \in started =>
        ueRing[i][k] = IF ring[p][k].valid /\ ~InAir(i, k) /\ (k # sf \/ p \in started)
                       THEN To(ring[p][k].plan, i) ELSE {}

EndsAgreeNow == \A i \in Relays : Listens(i) = To(Executes(ParentOf[i]).plan, i)

Inv == /\ TypeOK /\ Heard /\ Aheads /\ Rings /\ JustPlanned /\ MaskFrames
       /\ MasksCover /\ PlansFit /\ ExecutedFit /\ EndsAgreeLater /\ EndsAgreeNow
       /\ ~aborted
-----------------------------------------------------------------------------
Place(d) == IF sf + d < SubframesPerFrame THEN sf + d ELSE sf + d - SubframesPerFrame
Date(d)  == IF sf + d < SubframesPerFrame THEN frame ELSE frame + 1

\* An index wraps at most once.
LEMMA Carry ==
    ASSUME NEW s \in 0 .. SubframesPerFrame - 1, NEW e \in 0 .. SubframesPerFrame
    PROVE  (s + e) % SubframesPerFrame =
               IF s + e < SubframesPerFrame THEN s + e ELSE s + e - SubframesPerFrame
  <1>1. /\ SubframesPerFrame \in Nat \ {0} /\ s + e \in Nat
        /\ s + e < 2 * SubframesPerFrame
    BY TimeAssumption
  <1> QED BY <1>1, Z3

\* Two carries reach the subframe the scheduling delay and the latency add up
\* to, and the gNB PHY finds that distance again.
LEMMA TargetIsAhead ==
    ASSUME LookAheadFits, TypeOK, NEW c \in Cells
    PROVE  LET a == L1L2CtrlLatency + delay[c]
           IN  /\ a \in L1L2CtrlLatency + 1 .. SubframesPerFrame
               /\ Target(c) = [frame |-> Date(a), sf |-> Place(a)]
               /\ Distance(Target(c)) = a
               /\ Place(a) \in Index /\ Date(a) \in Nat
  <1> DEFINE N == SubframesPerFrame
             L == L1L2CtrlLatency
             d == delay[c]
             m == Later([frame |-> frame, sf |-> sf], L1L2CtrlLatency)
  <1>1. /\ N \in Nat \ {0} /\ L \in 0 .. N /\ sf \in 0 .. N - 1 /\ frame \in Nat
        /\ d \in Nat \ {0} /\ L + d <= N
    BY TimeAssumption DEF LookAheadFits, TypeOK, Index
  <1>2. m = [frame |-> IF sf + L >= N THEN frame + 1 ELSE frame,
             sf |-> IF sf + L < N THEN sf + L ELSE sf + L - N]
    BY <1>1, Carry DEF Later
  <1>3. m.sf \in 0 .. N - 1 /\ m.frame \in Nat
    BY <1>1, <1>2
  <1>4. Target(c) = [frame |-> IF m.sf + d >= N THEN m.frame + 1 ELSE m.frame,
                     sf |-> IF m.sf + d < N THEN m.sf + d ELSE m.sf + d - N]
    <2>1. d \in 0 .. N /\ Target(c) = Later(m, d)
      BY <1>1 DEF Target
    <2> HIDE DEF m, d
    <2> QED BY <1>3, <2>1, Carry DEF Later
  <1>5. Target(c) = [frame |-> Date(L + d), sf |-> Place(L + d)]
    <2> HIDE DEF m, d, L, N
    <2>1. CASE sf + L < N
      BY <2>1, <1>1, <1>2, <1>3, <1>4 DEF Date, Place, N
    <2>2. CASE ~(sf + L < N)
      BY <2>2, <1>1, <1>2, <1>3, <1>4 DEF Date, Place, N
    <2> QED BY <2>1, <2>2
  <1>6. Distance(Target(c)) = L + d
    <2> HIDE DEF d, L
    <2> QED BY <1>1, <1>5 DEF Date, Place, Distance
  <1>7. Place(L + d) \in Index /\ Date(L + d) \in Nat
    <2> HIDE DEF d, L
    <2> QED BY <1>1 DEF Date, Place, Index
  <1> QED BY <1>1, <1>5, <1>6, <1>7

\* The DCIs a gNB PHY sends are those of the subframe it planned last.
LEMMA AnnouncedPlace ==
    ASSUME sf \in Index, NEW p \in Cells, ahead[p] \in 1 .. SubframesPerFrame
    PROVE  AnnouncedAt(p) = Place(ahead[p]) /\ AnnouncedAt(p) \in Index
  <1>1. sf \in 0 .. SubframesPerFrame - 1 /\ ahead[p] \in 0 .. SubframesPerFrame
    BY TimeAssumption DEF Index
  <1>2. AnnouncedAt(p) = Place(ahead[p])
    BY <1>1, Carry DEF AnnouncedAt, Place
  <1> QED BY <1>1, <1>2, TimeAssumption DEF Place, Index

LEMMA InitInv == LookAheadFits /\ Init => Inv
  <1> SUFFICES ASSUME LookAheadFits, Init PROVE Inv
    OBVIOUS
  <1>1. /\ SubframesPerFrame \in Nat \ {0} /\ Behind \in [Cells -> Nat]
        /\ L1L2CtrlLatency \in Nat /\ L1L2CtrlLatency + 1 <= SubframesPerFrame
        /\ \A i \in Relays : i \in Cells /\ ParentOf[i] \in Cells
    BY TimeAssumption, TreeAssumption DEF LookAheadFits, Relays
  <1>2. FreePlan \in Plan /\ Used(FreePlan) = {}
    BY DEF FreePlan, Plan, Used
  <1>3. \A i \in Relays : To(FreePlan, i) = {}
    BY TreeAssumption DEF FreePlan, To, Relays
  <1>i. /\ frame = 1 /\ sf = 0 /\ started = {} /\ heard = {} /\ aborted = FALSE
        /\ \A c \in Cells : delay[c] = 1 /\ ahead[c] = L1L2CtrlLatency + 1
    BY DEF Init
  <1>r. \A c \in Cells, k \in Index :
           /\ ring[c][k].frame = IF k <= L1L2CtrlLatency THEN 1 ELSE 0
           /\ (ring[c][k].valid <=> k <= L1L2CtrlLatency)
           /\ ring[c][k].made = L1L2CtrlLatency + 1
           /\ ring[c][k].plan = FreePlan
    BY DEF Init
  <1>u. \A i \in Relays, k \in Index : ueRing[i][k] = {} /\ mask[i][k].frame = 0
    BY DEF Init
  <1>4. TypeOK
    <2>1. ring \in [Cells -> [Index -> Entry]]
      <3>1. \A k \in Index : [frame |-> IF k <= L1L2CtrlLatency THEN 1 ELSE 0,
                              valid |-> k <= L1L2CtrlLatency,
                              made  |-> L1L2CtrlLatency + 1, plan |-> FreePlan] \in Entry
        BY <1>1, <1>2 DEF Entry
      <3> QED BY <3>1 DEF Init
    <2>2. now \in [Cells -> Current]
      BY <1>1, <1>2 DEF Init, Current
    <2>3. mask \in [Relays -> [Index -> Busy]]
      BY DEF Init, Busy
    <2>4. /\ ueRing \in [Relays -> [Index -> SUBSET Symbols]]
          /\ ueNow \in [Relays -> SUBSET Symbols]
      BY DEF Init
    <2>5. delay \in [Cells -> Nat \ {0}] /\ ahead \in [Cells -> Nat]
      BY <1>1 DEF Init
    <2>6. \A c \in Cells : delay[c] <= Behind[c] + 1
      <3> SUFFICES ASSUME NEW c \in Cells PROVE delay[c] <= Behind[c] + 1
        OBVIOUS
      <3>1. delay[c] = 1 /\ Behind[c] \in Nat
        BY <1>1, <1>i
      <3> QED BY <3>1
    <2>7. frame \in Nat /\ sf \in Index
      BY <1>1, <1>i DEF Index
    <2>8. started \subseteq Cells /\ heard \subseteq Relays /\ aborted \in BOOLEAN
      BY <1>i
    <2> QED BY <2>1, <2>2, <2>3, <2>4, <2>5, <2>6, <2>7, <2>8 DEF TypeOK
  <1>5. Heard /\ Aheads /\ JustPlanned /\ MaskFrames /\ ~aborted
    BY <1>1, <1>i, <1>u DEF Heard, Aheads, JustPlanned, MaskFrames, Index
  <1>6. Rings
    BY <1>1, <1>i, <1>r DEF Rings, NextFrame, Until, InThisFrame, LastPlanned, Index
  <1>8. MasksCover
    BY <1>1, <1>3, <1>r DEF MasksCover
  <1>9. PlansFit
    BY <1>1, <1>r DEF PlansFit
  <1>10. \A c \in Cells : Executes(c).plan = FreePlan
    <2>1. sf \in Index /\ started = {}
      BY <1>1, <1>i DEF Index
    <2>2. \A c \in Cells : Taken(c).plan = FreePlan
      BY <2>1, <1>r DEF Taken
    <2> QED BY <2>1, <2>2 DEF Executes
  <1>11. ExecutedFit
    BY <1>1, <1>2, <1>10 DEF ExecutedFit, Clash
  <1>12. EndsAgreeLater
    BY <1>1, <1>3, <1>r, <1>u DEF EndsAgreeLater
  <1>13. EndsAgreeNow
    <2>1. sf \in Index /\ started = {}
      BY <1>1, <1>i DEF Index
    <2>2. \A i \in Relays : Listens(i) = {}
      BY <2>1, <1>u DEF Listens
    <2> QED BY <2>2, <1>1, <1>3, <1>10 DEF EndsAgreeNow
  <1> QED BY <1>4, <1>5, <1>6, <1>8, <1>9, <1>11, <1>12, <1>13 DEF Inv

\* What StartSubFrame changes, with the planned subframe as a place and a date.
StartedWith(c, a, plan) ==
    /\ started' = started \cup {c} /\ heard = {} /\ c \notin started
    /\ ring'[c][Place(a)] = [frame |-> Date(a), valid |-> TRUE, made |-> a, plan |-> plan]
    /\ \A k \in Index : k # Place(a) /\ k # sf => ring'[c][k] = ring[c][k]
    /\ Place(a) # sf => ring'[c][sf] = TakenOut(ring[c][sf])
    /\ \A b \in Cells : b # c => ring'[b] = ring[b]
    /\ ahead'[c] = a /\ \A b \in Cells : b # c => ahead'[b] = ahead[b]
    /\ now'[c] = Taken(c) /\ \A b \in Cells : b # c => now'[b] = now[b]
    /\ \A i \in Relays, k \in Index :
           /\ mask'[i][k].frame = mask[i][k].frame
           /\ i # c \/ k # Place(a) => mask'[i][k] = mask[i][k]
    /\ \A i \in Relays :
           IF i = c
           THEN /\ ueNow'[i] = ueRing[i][sf] /\ ueRing'[i][sf] = {}
                /\ \A k \in Index : k # sf => ueRing'[i][k] = ueRing[i][k]
           ELSE ueNow'[i] = ueNow[i] /\ ueRing'[i] = ueRing[i]
    /\ aborted' = (ring[c][sf].valid /\ ring[c][sf].frame # frame)
    /\ UNCHANGED <<frame, sf, heard, delay>>

LEMMA StartEffect ==
    ASSUME LookAheadFits, Inv, NEW c \in Cells, StartSubFrame(c)
    PROVE  LET a == L1L2CtrlLatency + delay[c]
           IN  \E plan \in Plans(c, BusyIn(c, Place(a))) : StartedWith(c, a, plan) /\ TypeOK'
  <1> DEFINE a == L1L2CtrlLatency + delay[c]
             t == Target(c)
  <1>1. TypeOK /\ Heard
    BY DEF Inv
  <1>2. /\ t = [frame |-> Date(a), sf |-> Place(a)] /\ Distance(t) = a
        /\ Place(a) \in Index /\ Date(a) \in Nat /\ a \in Nat
    BY <1>1, TargetIsAhead, TimeAssumption
  <1>3. t.sf = Place(a) /\ t.frame = Date(a)
    BY <1>2
  <1> HIDE DEF t, a
  <1>s. /\ \E p \in Plans(c, BusyIn(c, t.sf)) : ring' = [ring EXCEPT ![c] = Replanned(c, t, p)]
        /\ ahead' = [ahead EXCEPT ![c] = Distance(t)] /\ now' = [now EXCEPT ![c] = Taken(c)]
        /\ IF c \in Relays
           THEN /\ mask' = [mask EXCEPT ![c][t.sf] = Consumed(@)]
                /\ ueNow' = [ueNow EXCEPT ![c] = ueRing[c][sf]]
                /\ ueRing' = [ueRing EXCEPT ![c][sf] = {}]
           ELSE mask' = mask /\ ueNow' = ueNow /\ ueRing' = ueRing
    BY DEF StartSubFrame, t
  <1>4. PICK plan \in Plans(c, BusyIn(c, Place(a))) :
           ring' = [ring EXCEPT ![c] = Replanned(c, t, plan)]
    BY <1>3, <1>s
  <1> DEFINE new == [frame |-> Date(a), valid |-> TRUE, made |-> a, plan |-> plan]
  <1>p. \A k \in Index : Replanned(c, t, plan)[k] =
            IF k = Place(a) THEN new
            ELSE IF k = sf THEN TakenOut(ring[c][k]) ELSE ring[c][k]
    BY <1>2, <1>3 DEF Replanned
  <1> HIDE DEF new
  <1>5. /\ ring \in [Cells -> [Index -> Entry]] /\ now \in [Cells -> Current]
        /\ ahead \in [Cells -> Nat] /\ mask \in [Relays -> [Index -> Busy]]
        /\ ueRing \in [Relays -> [Index -> SUBSET Symbols]]
        /\ ueNow \in [Relays -> SUBSET Symbols]
        /\ sf \in Index /\ frame \in Nat
    BY <1>1 DEF TypeOK
  <1>6. heard = {} /\ c \notin started
    BY <1>1 DEF StartSubFrame, Heard
  <1>7. /\ ring'[c][Place(a)] = [frame |-> Date(a), valid |-> TRUE, made |-> a, plan |-> plan]
        /\ \A k \in Index : k # Place(a) /\ k # sf => ring'[c][k] = ring[c][k]
        /\ Place(a) # sf => ring'[c][sf] = TakenOut(ring[c][sf])
        /\ \A b \in Cells : b # c => ring'[b] = ring[b]
    BY <1>2, <1>4, <1>5, <1>p DEF new
  <1>8. /\ ahead'[c] = a /\ \A b \in Cells : b # c => ahead'[b] = ahead[b]
        /\ now'[c] = Taken(c) /\ \A b \in Cells : b # c => now'[b] = now[b]
    BY <1>2, <1>5, <1>s
  <1>9. \A i \in Relays, k \in Index :
           /\ mask'[i][k].frame = mask[i][k].frame
           /\ i # c \/ k # Place(a) => mask'[i][k] = mask[i][k]
    <2>1. CASE c \in Relays
      <3>1. mask' = [mask EXCEPT ![c][Place(a)] = Consumed(@)]
        BY <2>1, <1>3, <1>s
      <3> QED BY <3>1, <1>2, <1>5, <2>1 DEF Busy, Consumed
    <2>2. CASE c \notin Relays
      BY <2>2, <1>s
    <2> QED BY <2>1, <2>2
  <1>10. \A i \in Relays :
           IF i = c
           THEN /\ ueNow'[i] = ueRing[i][sf] /\ ueRing'[i][sf] = {}
                /\ \A k \in Index : k # sf => ueRing'[i][k] = ueRing[i][k]
           ELSE ueNow'[i] = ueNow[i] /\ ueRing'[i] = ueRing[i]
    BY <1>5, <1>s
  <1>11. StartedWith(c, a, plan)
    BY <1>6, <1>7, <1>8, <1>9, <1>10 DEF StartSubFrame, StartedWith
  <1>12. TypeOK'
    <2>1. plan \in Plan
      <3>1. Served[c] \subseteq Users
        BY DEF Users
      <3> QED BY <3>1 DEF Plans, Plan
    <2>2. ring' \in [Cells -> [Index -> Entry]]
      <3>1. new \in Entry
        BY <2>1, <1>2 DEF Entry, new
      <3>2. \A k \in Index : ring[c][k] \in Entry /\ TakenOut(ring[c][k]) \in Entry
        BY <1>5 DEF Entry, TakenOut
      <3>3. Replanned(c, t, plan) \in [Index -> Entry]
        <4>1. Replanned(c, t, plan) = [k \in Index |-> Replanned(c, t, plan)[k]]
          BY DEF Replanned
        <4> QED BY <4>1, <3>1, <3>2, <1>p
      <3> QED BY <3>3, <1>4, <1>5
    <2>3. now' \in [Cells -> Current]
      <3>1. FreePlan \in Plan
        BY DEF FreePlan, Plan
      <3>2. Taken(c) \in Current
        BY <3>1, <1>5 DEF Taken, Current, Entry
      <3> QED BY <3>2, <1>5, <1>s
    <2>4. ahead' \in [Cells -> Nat]
      BY <1>2, <1>5, <1>s
    <2>5. mask' \in [Relays -> [Index -> Busy]]
      <3>1. CASE c \in Relays
        <4>1. Consumed(mask[c][Place(a)]) \in Busy
          BY <3>1, <1>2, <1>5 DEF Busy, Consumed
        <4>2. mask' = [mask EXCEPT ![c][Place(a)] = Consumed(@)]
          BY <3>1, <1>3, <1>s
        <4> QED BY <4>1, <4>2, <1>2, <1>5, <3>1
      <3>2. CASE c \notin Relays
        BY <3>2, <1>5, <1>s
      <3> QED BY <3>1, <3>2
    <2>6. /\ ueRing' \in [Relays -> [Index -> SUBSET Symbols]]
          /\ ueNow' \in [Relays -> SUBSET Symbols]
      <3>1. CASE c \in Relays
        <4>1. ueRing[c][sf] \in SUBSET Symbols /\ {} \in SUBSET Symbols
          BY <3>1, <1>5
        <4>2. [ueRing[c] EXCEPT ![sf] = {}] \in [Index -> SUBSET Symbols]
          BY <3>1, <4>1, <1>5
        <4> QED BY <3>1, <4>1, <4>2, <1>5, <1>s
      <3>2. CASE c \notin Relays
        BY <3>2, <1>5, <1>s
      <3> QED BY <3>1, <3>2
    <2>7. /\ frame' \in Nat /\ sf' \in Index /\ started' \subseteq Cells /\ heard' \subseteq Relays
          /\ aborted' \in BOOLEAN
          /\ delay' \in [Cells -> Nat \ {0}] /\ \A b \in Cells : delay'[b] <= Behind[b] + 1
      BY <1>1 DEF StartSubFrame, TypeOK
    <2> QED BY <2>2, <2>3, <2>4, <2>5, <2>6, <2>7 DEF TypeOK
  <1> QED BY <1>11, <1>12 DEF a

LEMMA StartKeeps ==
    ASSUME LookAheadFits, Inv, NEW c \in Cells, StartSubFrame(c)
    PROVE  Inv'
  <1> DEFINE a == L1L2CtrlLatency + delay[c]
             T == Place(a)
  <1>1. PICK plan \in Plans(c, BusyIn(c, T)) : StartedWith(c, a, plan) /\ TypeOK'
    BY StartEffect
  <1>2. /\ a \in L1L2CtrlLatency + 1 .. SubframesPerFrame /\ T \in Index
    BY TargetIsAhead DEF Inv
  <1> HIDE DEF a
  <1>3. /\ SubframesPerFrame \in Nat \ {0} /\ sf \in 0 .. SubframesPerFrame - 1
        /\ L1L2CtrlLatency \in Nat /\ a \in 1 .. SubframesPerFrame /\ frame \in Nat
        /\ \A b \in Cells, k \in Index : ring[b][k].made \in Nat /\ ring[b][k].frame \in Nat
        /\ started \subseteq Cells
    <2>1. TypeOK
      BY DEF Inv
    <2>2. SubframesPerFrame \in Nat \ {0} /\ L1L2CtrlLatency \in Nat
      BY TimeAssumption
    <2>3. sf \in 0 .. SubframesPerFrame - 1 /\ frame \in Nat /\ started \subseteq Cells
      BY <2>1 DEF TypeOK, Index
    <2>4. a \in 1 .. SubframesPerFrame
      BY <1>2, <2>2
    <2>5. ASSUME NEW b \in Cells, NEW k \in Index
          PROVE  ring[b][k].made \in Nat /\ ring[b][k].frame \in Nat
      BY <2>1 DEF TypeOK, Entry
    <2> QED BY <2>2, <2>3, <2>4, <2>5
  <1>4. \A i \in Relays : i \in Cells /\ ParentOf[i] \in Cells /\ ParentOf[i] # i
    BY TreeAssumption DEF Relays
  <1>5. \A b \in Cells : /\ ahead[b] \in 1 .. SubframesPerFrame
                         /\ ahead'[b] \in 1 .. SubframesPerFrame
                         /\ ahead[b] <= ahead'[b]
    <2>1. ahead[c] <= a
      BY DEF Inv, Aheads, a
    <2> QED BY <1>1, <1>3, <2>1 DEF Inv, Aheads, StartedWith
  <1>6. \A b \in Cells : AnnouncedAt(b) = Place(ahead[b]) /\ AnnouncedAt(b) \in Index
    BY <1>3, <1>5, AnnouncedPlace DEF Index
  <1>7. \A b \in Cells : AnnouncedAt(b)' = Place(ahead'[b])
    <2> SUFFICES ASSUME NEW b \in Cells PROVE (sf' + ahead'[b]) % SubframesPerFrame = Place(ahead'[b])
      BY DEF AnnouncedAt
    <2>1. sf' = sf /\ ahead'[b] \in 0 .. SubframesPerFrame
      BY <1>1, <1>3, <1>5 DEF StartedWith
    <2> QED BY <1>3, <2>1, Carry DEF Place
  <1>8. /\ frame' = frame /\ sf' = sf /\ heard' = {} /\ heard = {} /\ c \notin started
        /\ started' = started \cup {c} /\ ahead'[c] = a
        /\ \A b \in Cells : b # c => ahead'[b] = ahead[b] /\ ring'[b] = ring[b] /\ now'[b] = now[b]
    BY <1>1 DEF StartedWith
  <1>9. /\ ring'[c][T].frame = Date(a) /\ ring'[c][T].valid /\ ring'[c][T].made = a
        /\ ring'[c][T].plan = plan
        /\ T # sf => ~ring'[c][sf].valid
        /\ \A k \in Index : k # T /\ k # sf => ring'[c][k] = ring[c][k]
    BY <1>1 DEF StartedWith, TakenOut
  <1>10. Heard'
    BY <1>8 DEF Heard
  <1>11. Aheads'
    BY <1>1, <1>2, <1>8 DEF Inv, Aheads, StartedWith, a
  <1>12. Rings'
    <2> SUFFICES ASSUME NEW b \in Cells, NEW k \in Index, ring'[b][k].valid
                 PROVE  /\ ring'[b][k].frame = NextFrame(b, k)'
                        /\ Until(b, k)' <= ring'[b][k].made
                        /\ Until(b, k)' <= LastPlanned(b)'
      BY DEF Rings
    <2>1. Rings
      BY DEF Inv
    <2>2. CASE b # c
      BY <2>1, <2>2, <1>8 DEF Rings, NextFrame, Until, InThisFrame, LastPlanned
    <2>3. CASE b = c /\ k = T
      BY <2>3, <1>3, <1>8, <1>9 DEF Date, Place, NextFrame, Until, InThisFrame, LastPlanned
    <2>4. CASE b = c /\ k # T
      <3>1. k # sf /\ ring'[c][k] = ring[c][k]
        BY <2>4, <1>9
      <3>2. k \in 0 .. SubframesPerFrame - 1 /\ ahead[c] - 1 <= a /\ ahead[c] \in Nat
        BY <1>3, <1>5, <1>8 DEF Index
      <3> QED BY <2>1, <2>4, <3>1, <3>2, <1>3, <1>8
              DEF Rings, NextFrame, Until, InThisFrame, LastPlanned
    <2> QED BY <2>2, <2>3, <2>4
  <1>13. JustPlanned'
    <2> SUFFICES ASSUME NEW b \in started'
                 PROVE  ring'[b][AnnouncedAt(b)'].valid /\ ring'[b][AnnouncedAt(b)'].made = ahead'[b]
      BY DEF JustPlanned
    <2>1. CASE b = c
      BY <2>1, <1>7, <1>8, <1>9
    <2>2. CASE b # c
      <3>1. b \in started /\ b \in Cells /\ ring'[b] = ring[b] /\ ahead'[b] = ahead[b]
        BY <2>2, <1>3, <1>8
      <3>2. AnnouncedAt(b)' = AnnouncedAt(b)
        BY <3>1, <1>6, <1>7
      <3> QED BY <3>1, <3>2 DEF Inv, JustPlanned
    <2> QED BY <2>1, <2>2
  <1>14. MaskFrames'
    <2> SUFFICES ASSUME NEW i \in Relays, NEW k \in Index
                 PROVE  LET last == IF i \in heard' THEN ahead'[ParentOf[i]] ELSE ahead'[ParentOf[i]] - 1
                        IN  /\ mask'[i][k].frame <= frame + 1
                            /\ mask'[i][k].frame = frame => k - sf <= last
                            /\ mask'[i][k].frame = frame + 1 => SubframesPerFrame + k - sf <= last
      BY <1>8 DEF MaskFrames
    <2>1. mask'[i][k].frame = mask[i][k].frame /\ k \in 0 .. SubframesPerFrame - 1
      BY <1>1 DEF StartedWith, Index
    <2>2. ahead[ParentOf[i]] <= ahead'[ParentOf[i]]
          /\ ahead[ParentOf[i]] \in Nat /\ ahead'[ParentOf[i]] \in Nat
      BY <1>3, <1>4, <1>5
    <2> QED BY <2>1, <2>2, <1>3, <1>8 DEF Inv, MaskFrames
  <1>15. \A i \in Relays, k \in Index :
            ring'[ParentOf[i]][k].valid /\ ~InAir(i, k)'
            => /\ ring'[ParentOf[i]][k] = ring[ParentOf[i]][k] /\ ~InAir(i, k)
               /\ k # sf \/ c # ParentOf[i]
    BY <1>4, <1>6, <1>7, <1>8, <1>9 DEF InAir
  <1>16. MasksCover'
    <2> SUFFICES ASSUME NEW i \in Relays, NEW k \in Index,
                        ring'[ParentOf[i]][k].valid, ~InAir(i, k)',
                        To(ring'[ParentOf[i]][k].plan, i) # {},
                        Until(ParentOf[i], k)' > LastPlanned(i)'
                 PROVE  mask'[i][k].valid /\ To(ring'[ParentOf[i]][k].plan, i) \subseteq mask'[i][k].busy
      BY DEF MasksCover
    <2>1. /\ ring'[ParentOf[i]][k] = ring[ParentOf[i]][k] /\ ~InAir(i, k)
          /\ k # sf \/ c # ParentOf[i]
      BY <1>15
    <2>2. Until(ParentOf[i], k)' = Until(ParentOf[i], k)
      BY <2>1, <1>4, <1>8 DEF Until, InThisFrame
    <2>3. k \in 0 .. SubframesPerFrame - 1 /\ ahead[i] \in Nat /\ ahead'[i] \in Nat /\ ahead[i] <= ahead'[i]
      BY <1>3, <1>4, <1>5 DEF Index
    <2>4. Until(ParentOf[i], k) > LastPlanned(i)
      BY <2>2, <2>3, <1>3, <1>8 DEF Until, InThisFrame, LastPlanned
    <2>5. mask[i][k].valid /\ To(ring[ParentOf[i]][k].plan, i) \subseteq mask[i][k].busy
      BY <2>1, <2>4 DEF Inv, MasksCover
    <2>6. ~(i = c /\ k = T)
      BY <2>2, <2>3, <1>3, <1>8 DEF Until, InThisFrame, LastPlanned, Place
    <2> QED BY <2>1, <2>5, <2>6, <1>1 DEF StartedWith
  <1>17. PlansFit'
    <2> SUFFICES ASSUME NEW i \in Relays, NEW k \in Index,
                        ring'[ParentOf[i]][k].valid, ring'[i][k].valid,
                        ring'[ParentOf[i]][k].frame = ring'[i][k].frame,
                        ring'[ParentOf[i]][k].made > ring'[i][k].made
                 PROVE  To(ring'[ParentOf[i]][k].plan, i) \cap Used(ring'[i][k].plan) = {}
      BY DEF PlansFit, Clash
    <2> DEFINE p == ParentOf[i]
    <2>k. k \in 0 .. SubframesPerFrame - 1 /\ p \in Cells /\ i \in Cells /\ p # i
      BY <1>4 DEF Index
    <2>1. CASE i = c /\ k = T
      <3>1. /\ ring'[p] = ring[p] /\ ring[p][k].valid /\ ring[p][k].frame = Date(a)
            /\ ring[p][k].made > a /\ ring'[i][k].plan = plan
        BY <2>1, <2>k, <1>8, <1>9
      <3>2. Until(p, k) = a
        <4>1. NextFrame(p, k) = Date(a)
          BY <2>k, <3>1 DEF Inv, Rings
        <4> QED BY <4>1, <2>1, <2>k, <1>3 DEF NextFrame, Until, InThisFrame, Date, Place
      <3>3. CASE InAir(i, k)
        <4>1. p \in started /\ k = AnnouncedAt(p) /\ ring[p][k].made = ahead[p]
          BY <3>3 DEF InAir, Inv, JustPlanned
        <4>2. Until(p, k) = ahead[p]
          BY <4>1, <2>k, <1>3, <1>5, <1>6 DEF Until, InThisFrame, Place
        <4> QED BY <3>1, <3>2, <4>1, <4>2, <1>3
      <3>4. CASE ~InAir(i, k)
        <4>1. CASE To(ring[p][k].plan, i) = {}
          BY <4>1, <3>1
        <4>2. CASE To(ring[p][k].plan, i) # {}
          <5>1. Until(p, k) > LastPlanned(i)
            BY <3>2, <2>1, <2>k, <1>3, <1>5, <1>8 DEF LastPlanned
          <5>2. mask[i][k].valid /\ To(ring[p][k].plan, i) \subseteq mask[i][k].busy
            BY <3>1, <3>4, <4>2, <5>1 DEF Inv, MasksCover
          <5>3. Used(plan) \cap mask[i][k].busy = {}
            BY <5>2, <2>1, <1>1 DEF Plans, BusyIn
          <5> QED BY <5>2, <5>3, <3>1
        <4> QED BY <4>1, <4>2
      <3> QED BY <3>3, <3>4
    <2>2. CASE p = c /\ k = T
      <3>1. /\ ring'[i] = ring[i] /\ ring[i][k].valid /\ ring[i][k].frame = Date(a)
            /\ a > ring[i][k].made
        BY <2>2, <2>k, <1>8, <1>9
      <3>2. NextFrame(i, k) = Date(a) /\ Until(i, k) <= ring[i][k].made
        BY <2>k, <3>1 DEF Inv, Rings
      <3>3. Until(i, k) = a
        BY <3>2, <2>2, <2>k, <1>3 DEF NextFrame, Until, InThisFrame, Date, Place
      <3> QED BY <3>1, <3>2, <3>3, <1>3, <2>k
    <2>3. CASE k # T \/ (i # c /\ p # c)
      <3>1. ring'[p][k] = ring[p][k] /\ ring'[i][k] = ring[i][k]
        BY <2>3, <2>k, <1>8, <1>9
      <3> QED BY <3>1 DEF Inv, PlansFit, Clash
    <2> QED BY <2>1, <2>2, <2>3
  <1>18. \A b \in Cells : Executes(b)' = Executes(b)
    BY <1>1, <1>8 DEF Executes, Taken, StartedWith
  <1>19. ExecutedFit'
    BY <1>4, <1>18 DEF Inv, ExecutedFit, Clash
  <1>20. EndsAgreeLater'
    <2> SUFFICES ASSUME NEW i \in Relays, NEW k \in Index, k # sf \/ i \in started'
                 PROVE  ueRing'[i][k] =
                            IF ring'[ParentOf[i]][k].valid /\ ~InAir(i, k)' /\ (k # sf \/ ParentOf[i] \in started')
                            THEN To(ring'[ParentOf[i]][k].plan, i) ELSE {}
      BY <1>8 DEF EndsAgreeLater
    <2> DEFINE p == ParentOf[i]
    <2>k. k \in 0 .. SubframesPerFrame - 1 /\ p \in Cells /\ i \in Cells /\ p # i
      BY <1>4 DEF Index
    <2>1. CASE i = c /\ k = sf
      <3>1. ueRing'[i][k] = {}
        BY <2>1, <1>1 DEF StartedWith
      <3>2. p \in started /\ ring[p][k].valid => k = AnnouncedAt(p)
        <4> SUFFICES ASSUME p \in started, ring[p][k].valid PROVE k = Place(ahead[p])
          BY <1>6, <2>k
        <4>1. Until(p, k) <= ahead[p]
          BY <2>k DEF Inv, Rings, LastPlanned
        <4> QED BY <4>1, <2>1, <2>k, <1>3, <1>5 DEF Until, InThisFrame, Place
      <3>3. p \in started /\ ring[p][k].valid => InAir(i, k)'
        <4>1. AnnouncedAt(p)' = AnnouncedAt(p)
          BY <1>6, <1>7, <1>8, <2>1, <2>k
        <4> QED BY <3>2, <4>1, <1>8 DEF InAir
      <3> QED BY <3>1, <3>3, <2>1, <2>k, <1>8
    <2>2. CASE ~(i = c /\ k = sf)
      <3>1. ueRing'[i][k] = ueRing[i][k] /\ (k # sf \/ i \in started)
        BY <2>2, <2>k, <1>1, <1>8 DEF StartedWith
      <3>2. ueRing[i][k] = IF ring[p][k].valid /\ ~InAir(i, k) /\ (k # sf \/ p \in started)
                           THEN To(ring[p][k].plan, i) ELSE {}
        BY <3>1 DEF Inv, EndsAgreeLater
      <3>3. CASE p # c
        <4>1. InAir(i, k)' <=> InAir(i, k)
          BY <3>3, <2>k, <1>6, <1>7, <1>8 DEF InAir
        <4> QED BY <3>1, <3>2, <3>3, <4>1, <2>k, <1>8
      <3>4. CASE p = c /\ k = T
        <4>1. InAir(i, k)'
          BY <3>4, <2>k, <1>7, <1>8 DEF InAir
        <4>2. ring[p][k].valid => k = sf
          <5> SUFFICES ASSUME ring[p][k].valid, k # sf PROVE FALSE
            OBVIOUS
          <5>1. Until(p, k) <= ahead[p] - 1 /\ ahead[p] <= a
            BY <2>k, <3>4, <1>5, <1>8 DEF Inv, Rings, LastPlanned
          <5> QED BY <5>1, <3>4, <2>k, <1>3, <1>5, <1>8 DEF Until, InThisFrame, Place
        <4> QED BY <3>1, <3>2, <3>4, <4>1, <4>2, <1>8
      <3>5. CASE p = c /\ k # T /\ k = sf
        BY <3>1, <3>2, <3>5, <1>8, <1>9
      <3>6. CASE p = c /\ k # T /\ k # sf
        <4>1. ~InAir(i, k) /\ ~InAir(i, k)'
          BY <3>6, <2>k, <1>7, <1>8 DEF InAir
        <4> QED BY <3>1, <3>2, <3>6, <4>1, <1>9
      <3> QED BY <3>3, <3>4, <3>5, <3>6
    <2> QED BY <2>1, <2>2
  <1>21. EndsAgreeNow'
    <2>1. \A i \in Relays : Listens(i)' = Listens(i)
      BY <1>1, <1>8 DEF Listens, StartedWith
    <2> QED BY <2>1, <1>4, <1>18 DEF Inv, EndsAgreeNow
  <1>22. ~aborted'
    <2>1. ring[c][sf].valid => ring[c][sf].frame = frame
      BY <1>3, <1>8 DEF Inv, Rings, NextFrame, InThisFrame, Index
    <2> QED BY <2>1, <1>1 DEF StartedWith
  <1> QED BY <1>1, <1>10, <1>11, <1>12, <1>13, <1>14, <1>16, <1>17, <1>19, <1>20, <1>21, <1>22 DEF Inv

\* Decoding one announcement: the entry it marks is a new one of the mask.
LEMMA HearKeeps ==
    ASSUME Inv, NEW i \in Relays, ReceiveControlMessageList(i)
    PROVE  Inv'
  <1> DEFINE p == ParentOf[i]
             a == ahead[p]
             n == AnnouncedAt(p)
             syms == To(ring[p][n].plan, i)
             f == ring[p][n].frame
  <1>1. /\ started = Cells /\ i \notin heard /\ heard' = heard \cup {i}
        /\ ueRing' = [ueRing EXCEPT ![i][n] = @ \cup syms]
        /\ mask' = [mask EXCEPT ![i][n] = Marked(@, f, syms)]
        /\ aborted' = (mask[i][n].frame = f /\ mask[i][n].busy \cap syms # {})
        /\ UNCHANGED <<frame, sf, started, delay, ahead, ring, now, ueNow>>
    BY DEF ReceiveControlMessageList
  <1>2. TypeOK /\ \A j \in Relays : j \in Cells /\ ParentOf[j] \in Cells
    BY TreeAssumption DEF Inv, Relays
  <1>3. /\ SubframesPerFrame \in Nat \ {0} /\ sf \in 0 .. SubframesPerFrame - 1
        /\ frame \in Nat /\ a \in 1 .. SubframesPerFrame
    <2>1. a \in L1L2CtrlLatency + 1 .. SubframesPerFrame
      BY <1>2 DEF Inv, Aheads
    <2> QED BY <1>2, <2>1, TimeAssumption DEF TypeOK, Index
  <1>4. n = Place(a) /\ n \in Index
    BY <1>2, <1>3, AnnouncedPlace DEF Index
  <1> HIDE DEF a, n, f, syms
  <1>5. ring[p][n].valid /\ f = Date(a)
    <2>1. ring[p][n].valid
      BY <1>1, <1>2 DEF Inv, JustPlanned, n
    <2>2. f = NextFrame(p, n)
      BY <1>2, <1>4, <2>1 DEF Inv, Rings, f
    <2>3. NextFrame(p, n) = Date(a)
      BY <1>1, <1>2, <1>3, <1>4 DEF NextFrame, InThisFrame, Place, Date
    <2> QED BY <2>1, <2>2, <2>3
  <1>6. mask[i][n].frame # f
    <2>1. /\ mask[i][n].frame = frame => n - sf <= a - 1
          /\ mask[i][n].frame = frame + 1 => SubframesPerFrame + n - sf <= a - 1
      BY <1>1, <1>4 DEF Inv, MaskFrames, a
    <2>2. CASE sf + a < SubframesPerFrame
      <3>1. f = frame /\ n = sf + a
        BY <2>2, <1>4, <1>5 DEF Place, Date
      <3> QED BY <3>1, <2>1, <1>3
    <2>3. CASE ~(sf + a < SubframesPerFrame)
      <3>1. f = frame + 1 /\ n = sf + a - SubframesPerFrame
        BY <2>3, <1>4, <1>5 DEF Place, Date
      <3> QED BY <3>1, <2>1, <1>3
    <2> QED BY <2>2, <2>3
  <1>7. syms \in SUBSET Symbols /\ f \in Nat
    BY <1>3, <1>5 DEF To, Date, syms
  <1>8. /\ mask \in [Relays -> [Index -> Busy]]
        /\ ueRing \in [Relays -> [Index -> SUBSET Symbols]]
    BY <1>2 DEF TypeOK
  <1>9. Marked(mask[i][n], f, syms) =
            IF syms = {} THEN mask[i][n] ELSE [frame |-> f, valid |-> TRUE, busy |-> syms]
    BY <1>6 DEF Marked
  <1>10. \A j \in Relays, k \in Index : j # i \/ k # n =>
            mask'[j][k] = mask[j][k] /\ ueRing'[j][k] = ueRing[j][k]
    BY <1>1, <1>8
  <1>11. /\ mask'[i][n] = Marked(mask[i][n], f, syms)
         /\ ueRing'[i][n] = ueRing[i][n] \cup syms
    BY <1>1, <1>4, <1>8
  <1>12. TypeOK'
    <2>1. Marked(mask[i][n], f, syms) \in Busy
      BY <1>4, <1>7, <1>8, <1>9 DEF Busy
    <2>2. mask' \in [Relays -> [Index -> Busy]]
      <3>1. [mask[i] EXCEPT ![n] = Marked(@, f, syms)] \in [Index -> Busy]
        BY <2>1, <1>4, <1>8
      <3> QED BY <3>1, <1>1, <1>8
    <2>3. ueRing' \in [Relays -> [Index -> SUBSET Symbols]]
      <3>1. ueRing[i][n] \cup syms \in SUBSET Symbols
        BY <1>4, <1>7, <1>8
      <3>2. [ueRing[i] EXCEPT ![n] = @ \cup syms] \in [Index -> SUBSET Symbols]
        BY <3>1, <1>4, <1>8
      <3> QED BY <3>2, <1>1, <1>8
    <2>4. heard' \subseteq Relays /\ aborted' \in BOOLEAN
      BY <1>1, <1>2 DEF TypeOK
    <2> QED BY <2>2, <2>3, <2>4, <1>1, <1>2 DEF TypeOK
  <1>13. Heard' /\ Aheads' /\ PlansFit' /\ ExecutedFit'
    <2>1. /\ UNCHANGED <<frame, sf, started, delay, ahead, ring, now>>
          /\ Heard' /\ Aheads /\ PlansFit /\ ExecutedFit
      BY <1>1 DEF Inv, Heard
    <2>2. Aheads' /\ PlansFit'
      BY <2>1 DEF Aheads, PlansFit, Clash
    <2>3. \A c \in Cells : Executes(c)' = Executes(c)
      BY <2>1 DEF Executes, Taken
    <2> QED BY <2>1, <2>2, <2>3, <1>2 DEF ExecutedFit, Clash
  <1>14. Rings' /\ JustPlanned'
    <2>1. UNCHANGED <<frame, sf, started, ahead, ring>> /\ Rings /\ JustPlanned
      BY <1>1 DEF Inv
    <2>2. Rings'
      BY <2>1 DEF Rings, NextFrame, Until, InThisFrame, LastPlanned
    <2> QED BY <2>1, <2>2 DEF JustPlanned, AnnouncedAt
  <1>15. MaskFrames'
    <2> SUFFICES ASSUME NEW j \in Relays, NEW k \in Index
                 PROVE  LET last == IF j \in heard' THEN ahead[ParentOf[j]] ELSE ahead[ParentOf[j]] - 1
                        IN  /\ mask'[j][k].frame <= frame + 1
                            /\ mask'[j][k].frame = frame => k - sf <= last
                            /\ mask'[j][k].frame = frame + 1 => SubframesPerFrame + k - sf <= last
      BY <1>1 DEF MaskFrames
    <2>m. LET last == IF j \in heard THEN ahead[ParentOf[j]] ELSE ahead[ParentOf[j]] - 1
          IN  /\ mask[j][k].frame <= frame + 1
              /\ mask[j][k].frame = frame => k - sf <= last
              /\ mask[j][k].frame = frame + 1 => SubframesPerFrame + k - sf <= last
      BY DEF Inv, MaskFrames
    <2>1. CASE j # i
      BY <2>1, <2>m, <1>1, <1>10
    <2>2. CASE j = i /\ mask'[j][k] = mask[j][k]
      <3>1. k \in 0 .. SubframesPerFrame - 1 /\ ahead[ParentOf[j]] \in Nat
        BY <2>2, <1>3 DEF Index, a
      <3> QED BY <2>2, <2>m, <3>1, <1>1, <1>3
    <2>3. CASE j = i /\ mask'[j][k] # mask[j][k]
      <3>1. k = n /\ mask'[j][k].frame = f /\ j \in heard' /\ ahead[ParentOf[j]] = a
        BY <2>3, <1>1, <1>9, <1>10, <1>11 DEF a
      <3> QED BY <3>1, <1>3, <1>4, <1>5 DEF Place, Date
    <2> QED BY <2>1, <2>2, <2>3
  <1>16. \A j \in Relays, k \in Index : InAir(j, k)' <=> InAir(j, k) /\ (j # i \/ k # n)
    BY <1>1, <1>2 DEF InAir, AnnouncedAt, n
  <1>17. MasksCover'
    <2> SUFFICES ASSUME NEW j \in Relays, NEW k \in Index,
                        ring[ParentOf[j]][k].valid, ~InAir(j, k)',
                        To(ring[ParentOf[j]][k].plan, j) # {},
                        Until(ParentOf[j], k) > LastPlanned(j)
                 PROVE  mask'[j][k].valid /\ To(ring[ParentOf[j]][k].plan, j) \subseteq mask'[j][k].busy
      BY <1>1 DEF MasksCover, Until, InThisFrame, LastPlanned
    <2>1. CASE j # i \/ k # n
      BY <2>1, <1>10, <1>16 DEF Inv, MasksCover
    <2>2. CASE j = i /\ k = n
      BY <2>2, <1>9, <1>11 DEF syms
    <2> QED BY <2>1, <2>2
  <1>18. EndsAgreeLater'
    <2> SUFFICES ASSUME NEW j \in Relays, NEW k \in Index
                 PROVE  ueRing'[j][k] = IF ring[ParentOf[j]][k].valid /\ ~InAir(j, k)'
                                        THEN To(ring[ParentOf[j]][k].plan, j) ELSE {}
      <3>1. ring' = ring /\ sf' = sf /\ started' = Cells
        BY <1>1
      <3> QED BY <3>1, <1>2 DEF EndsAgreeLater
    <2>1. ueRing[j][k] = IF ring[ParentOf[j]][k].valid /\ ~InAir(j, k)
                         THEN To(ring[ParentOf[j]][k].plan, j) ELSE {}
      BY <1>1, <1>2 DEF Inv, EndsAgreeLater
    <2>2. CASE j # i \/ k # n
      BY <2>1, <2>2, <1>10, <1>16
    <2>3. CASE j = i /\ k = n
      <3>1. InAir(i, n)
        BY <1>1, <1>2 DEF InAir, n
      <3> QED BY <2>1, <2>3, <3>1, <1>5, <1>11, <1>16 DEF syms
    <2> QED BY <2>2, <2>3
  <1>19. EndsAgreeNow'
    <2>1. \A c \in Cells : Executes(c)' = Executes(c)
      BY <1>1 DEF Executes, Taken
    <2>2. \A j \in Relays : Listens(j)' = Listens(j)
      BY <1>1, <1>2 DEF Listens
    <2> QED BY <2>1, <2>2, <1>2 DEF Inv, EndsAgreeNow
  <1>20. ~aborted'
    BY <1>1, <1>6
  <1> QED BY <1>12, <1>13, <1>14, <1>15, <1>17, <1>18, <1>19, <1>20 DEF Inv

\* A longer look-ahead is used by the next plan, not by the plans made.
LEMMA ReconfigureKeeps ==
    ASSUME Inv, NEW c \in Cells, NEW n \in 1 .. Behind[c], ReconfigureUe(c, n)
    PROVE  Inv'
  <1>1. /\ n + 1 > delay[c] /\ delay' = [delay EXCEPT ![c] = n + 1]
        /\ UNCHANGED <<frame, sf, started, heard, ahead, ring, now, mask, ueRing, ueNow, aborted>>
    BY DEF ReconfigureUe
  <1>2. /\ delay \in [Cells -> Nat \ {0}] /\ Behind[c] \in Nat /\ L1L2CtrlLatency \in Nat
        /\ ahead \in [Cells -> Nat]
    BY TimeAssumption DEF Inv, TypeOK
  <1>3. \A b \in Cells : delay[b] <= delay'[b] /\ delay'[b] \in Nat
    BY <1>1, <1>2
  <1>4. TypeOK'
    <2>1. delay' \in [Cells -> Nat \ {0}] /\ \A b \in Cells : delay'[b] <= Behind[b] + 1
      BY <1>1, <1>2 DEF Inv, TypeOK
    <2> QED BY <2>1, <1>1 DEF Inv, TypeOK
  <1>5. Aheads'
    <2> SUFFICES ASSUME NEW b \in Cells
                 PROVE  /\ ahead[b] \in L1L2CtrlLatency + 1 .. SubframesPerFrame
                        /\ ahead[b] <= L1L2CtrlLatency + delay'[b]
      BY <1>1 DEF Aheads
    <2>1. /\ ahead[b] \in L1L2CtrlLatency + 1 .. SubframesPerFrame
          /\ ahead[b] <= L1L2CtrlLatency + delay[b]
      BY DEF Inv, Aheads
    <2> QED BY <2>1, <1>2, <1>3
  <1>6. Heard' /\ Rings' /\ JustPlanned' /\ MaskFrames' /\ ~aborted'
    BY <1>1 DEF Inv, Heard, Rings, JustPlanned, MaskFrames, NextFrame, Until, InThisFrame,
                LastPlanned, AnnouncedAt
  <1>7. MasksCover' /\ PlansFit' /\ EndsAgreeLater'
    <2>1. MasksCover'
      BY <1>1 DEF Inv, MasksCover, InAir, AnnouncedAt, Until, InThisFrame, LastPlanned
    <2>2. PlansFit'
      BY <1>1 DEF Inv, PlansFit, Clash, InAir, AnnouncedAt
    <2>3. EndsAgreeLater'
      BY <1>1 DEF Inv, EndsAgreeLater, InAir, AnnouncedAt
    <2> QED BY <2>1, <2>2, <2>3
  <1>8. ExecutedFit' /\ EndsAgreeNow'
    BY <1>1 DEF Inv, ExecutedFit, Clash, EndsAgreeNow, Executes, Taken, Listens
  <1> QED BY <1>4, <1>5, <1>6, <1>7, <1>8 DEF Inv

\* At the end of a subframe every next occurrence comes one subframe closer.
LEMMA EndKeeps ==
    ASSUME Inv, EndSubFrame
    PROVE  Inv'
  <1>1. /\ started = Cells /\ heard = Relays /\ started' = {} /\ heard' = {}
        /\ UNCHANGED <<delay, ahead, ring, now, mask, ueRing, ueNow, aborted>>
        /\ IF sf = SubframesPerFrame - 1
           THEN frame' = frame + 1 /\ sf' = 0
           ELSE frame' = frame /\ sf' = sf + 1
    BY DEF EndSubFrame
  <1>2. TypeOK /\ \A j \in Relays : j \in Cells /\ ParentOf[j] \in Cells
    BY TreeAssumption DEF Inv, Relays
  <1>3. /\ SubframesPerFrame \in Nat \ {0} /\ sf \in 0 .. SubframesPerFrame - 1 /\ frame \in Nat
        /\ \A b \in Cells : ahead[b] \in Nat
        /\ \A b \in Cells, k \in Index : ring[b][k].made \in Nat
    BY <1>2, TimeAssumption DEF TypeOK, Index, Entry
  <1>4. sf' \in 0 .. SubframesPerFrame - 1 /\ frame' \in Nat
    BY <1>1, <1>3
  <1>5. \A b \in Cells, k \in Index :
           /\ NextFrame(b, k)' = NextFrame(b, k) /\ Until(b, k)' = Until(b, k) - 1
           /\ Until(b, k) \in Nat
    BY <1>1, <1>3 DEF NextFrame, Until, InThisFrame, Index
  <1>6. \A b \in Cells : LastPlanned(b)' = LastPlanned(b) - 1 /\ LastPlanned(b) \in Nat
    BY <1>1, <1>3 DEF LastPlanned
  <1>7. \A j \in Relays, k \in Index : ~InAir(j, k) /\ ~InAir(j, k)'
    BY <1>1, <1>2 DEF InAir
  <1>8. TypeOK'
    BY <1>1, <1>2, <1>4 DEF TypeOK, Index
  <1>9. Heard' /\ Aheads' /\ JustPlanned' /\ PlansFit' /\ ~aborted'
    BY <1>1 DEF Inv, Heard, Aheads, JustPlanned, PlansFit, Clash
  <1>10. Rings'
    <2> SUFFICES ASSUME NEW b \in Cells, NEW k \in Index, ring[b][k].valid
                 PROVE  /\ ring[b][k].frame = NextFrame(b, k)'
                        /\ Until(b, k)' <= ring[b][k].made
                        /\ Until(b, k)' <= LastPlanned(b)'
      BY <1>1 DEF Rings
    <2>1. /\ ring[b][k].frame = NextFrame(b, k) /\ Until(b, k) <= ring[b][k].made
          /\ Until(b, k) <= LastPlanned(b) /\ ring[b][k].made \in Nat
      BY <1>3 DEF Inv, Rings
    <2> QED BY <2>1, <1>5, <1>6
  <1>11. MaskFrames'
    <2> SUFFICES ASSUME NEW j \in Relays, NEW k \in Index
                 PROVE  /\ mask[j][k].frame <= frame' + 1
                        /\ mask[j][k].frame = frame' => k - sf' <= ahead[ParentOf[j]] - 1
                        /\ mask[j][k].frame = frame' + 1
                           => SubframesPerFrame + k - sf' <= ahead[ParentOf[j]] - 1
      BY <1>1 DEF MaskFrames
    <2>1. /\ mask[j][k].frame <= frame + 1
          /\ mask[j][k].frame = frame => k - sf <= ahead[ParentOf[j]]
          /\ mask[j][k].frame = frame + 1 => SubframesPerFrame + k - sf <= ahead[ParentOf[j]]
      BY <1>1 DEF Inv, MaskFrames
    <2>2. /\ mask[j][k].frame \in Nat /\ ahead[ParentOf[j]] \in Nat
          /\ k \in 0 .. SubframesPerFrame - 1
      BY <1>2, <1>3 DEF TypeOK, Busy, Index
    <2> QED BY <2>1, <2>2, <1>1, <1>3
  <1>12. MasksCover'
    <2> SUFFICES ASSUME NEW j \in Relays, NEW k \in Index,
                        ring[ParentOf[j]][k].valid, To(ring[ParentOf[j]][k].plan, j) # {},
                        Until(ParentOf[j], k)' > LastPlanned(j)'
                 PROVE  mask[j][k].valid /\ To(ring[ParentOf[j]][k].plan, j) \subseteq mask[j][k].busy
      BY <1>1 DEF MasksCover
    <2>1. Until(ParentOf[j], k) > LastPlanned(j)
      BY <1>2, <1>5, <1>6
    <2> QED BY <2>1, <1>7 DEF Inv, MasksCover
  <1> DEFINE n == sf'
  <1>13. \A b \in Cells : Executes(b)' = IF ring[b][n].valid
                                         THEN [made |-> ring[b][n].made, plan |-> ring[b][n].plan]
                                         ELSE [made |-> 0, plan |-> FreePlan]
    BY <1>1 DEF Executes, Taken
  <1>14. n \in Index /\ \A b \in Cells : ring[b][n].valid => ring[b][n].frame = frame'
    <2>1. n \in Index
      BY <1>4 DEF Index
    <2>2. ASSUME NEW b \in Cells, NEW k \in Index, k = sf', ring[b][k].valid
          PROVE  ring[b][k].frame = frame'
      <3>1. ring[b][k].frame = NextFrame(b, k)'
        BY <2>2, <1>5 DEF Inv, Rings
      <3>2. NextFrame(b, k)' = frame'
        BY <2>2, <1>1, <1>3 DEF NextFrame, InThisFrame
      <3> QED BY <3>1, <3>2
    <2> QED BY <2>1, <2>2
  <1>15. /\ Used(FreePlan) = {}
         /\ \A j \in Relays : To(FreePlan, j) = {}
    BY TreeAssumption DEF Used, To, FreePlan, Relays
  <1> HIDE DEF n
  <1>16. ExecutedFit'
    <2> SUFFICES ASSUME NEW j \in Relays,
                        Executes(ParentOf[j])'.made > Executes(j)'.made
                 PROVE  To(Executes(ParentOf[j])'.plan, j) \cap Used(Executes(j)'.plan) = {}
      BY DEF ExecutedFit, Clash
    <2>1. CASE ~ring[j][n].valid
      BY <2>1, <1>2, <1>13, <1>15
    <2>2. CASE ~ring[ParentOf[j]][n].valid
      BY <2>2, <1>2, <1>13, <1>15
    <2>3. CASE ring[j][n].valid /\ ring[ParentOf[j]][n].valid
      <3>1. ring[ParentOf[j]][n].made > ring[j][n].made
        BY <2>3, <1>2, <1>13
      <3>2. To(ring[ParentOf[j]][n].plan, j) \cap Used(ring[j][n].plan) = {}
        BY <2>3, <3>1, <1>2, <1>14 DEF Inv, PlansFit, Clash
      <3> QED BY <2>3, <3>2, <1>2, <1>13
    <2> QED BY <2>1, <2>2, <2>3
  <1>17. \A j \in Relays, k \in Index :
            ueRing[j][k] = IF ring[ParentOf[j]][k].valid
                           THEN To(ring[ParentOf[j]][k].plan, j) ELSE {}
    BY <1>1, <1>2, <1>7 DEF Inv, EndsAgreeLater
  <1>18. EndsAgreeLater'
    BY <1>1, <1>7, <1>17 DEF EndsAgreeLater
  <1>19. EndsAgreeNow'
    <2> SUFFICES ASSUME NEW j \in Relays
                 PROVE  ueRing[j][n] = To(Executes(ParentOf[j])'.plan, j)
      BY <1>1 DEF EndsAgreeNow, Listens, n
    <2> DEFINE e == ring[ParentOf[j]][n]
    <2>1. ueRing[j][n] = IF e.valid THEN To(e.plan, j) ELSE {}
      BY <1>14, <1>17
    <2>2. Executes(ParentOf[j])'.plan = IF e.valid THEN e.plan ELSE FreePlan
      BY <1>2, <1>13
    <2> QED BY <2>1, <2>2, <1>15
  <1> QED BY <1>8, <1>9, <1>10, <1>11, <1>12, <1>16, <1>18, <1>19 DEF Inv
-----------------------------------------------------------------------------
LEMMA Invariance == LookAheadFits => (Spec => []Inv)
  <1> SUFFICES ASSUME LookAheadFits PROVE Spec => []Inv
    OBVIOUS
  <1>1. Inv /\ [Next]_vars => Inv'
    <2> SUFFICES ASSUME Inv, [Next]_vars PROVE Inv'
      OBVIOUS
    <2>1. ASSUME NEW c \in Cells, StartSubFrame(c) PROVE Inv'
      BY <2>1, StartKeeps
    <2>2. ASSUME NEW i \in Relays, ReceiveControlMessageList(i) PROVE Inv'
      BY <2>2, HearKeeps
    <2>3. ASSUME NEW c \in Cells, NEW n \in 1 .. Behind[c], ReconfigureUe(c, n) PROVE Inv'
      BY <2>3, ReconfigureKeeps
    <2>4. CASE EndSubFrame
      BY <2>4, EndKeeps
    <2>5. CASE UNCHANGED vars
      <3>1. /\ UNCHANGED <<frame, sf, started, heard, delay, ahead>>
            /\ UNCHANGED <<ring, now, mask, ueRing, ueNow, aborted>>
        BY <2>5 DEF vars
      <3>2. TypeOK' /\ Heard' /\ Aheads' /\ ~aborted'
        BY <3>1 DEF Inv, TypeOK, Heard, Aheads
      <3>3. Rings' /\ JustPlanned' /\ MaskFrames'
        BY <3>1 DEF Inv, Rings, JustPlanned, MaskFrames, NextFrame, Until, InThisFrame,
                    LastPlanned, AnnouncedAt
      <3>4. MasksCover' /\ PlansFit' /\ EndsAgreeLater'
        <4>1. MasksCover'
          BY <3>1 DEF Inv, MasksCover, InAir, AnnouncedAt, Until, InThisFrame, LastPlanned
        <4>2. PlansFit'
          BY <3>1 DEF Inv, PlansFit, Clash, InAir, AnnouncedAt
        <4>3. EndsAgreeLater'
          BY <3>1 DEF Inv, EndsAgreeLater, InAir, AnnouncedAt
        <4> QED BY <4>1, <4>2, <4>3
      <3>5. ExecutedFit' /\ EndsAgreeNow'
        BY <3>1 DEF Inv, ExecutedFit, Clash, EndsAgreeNow, Executes, Taken, Listens
      <3> QED BY <3>2, <3>3, <3>4, <3>5 DEF Inv
    <2> QED BY <2>1, <2>2, <2>3, <2>4, <2>5 DEF Next
  <1>2. Init => Inv
    BY InitInv
  <1> QED BY <1>1, <1>2, PTL DEF Spec

\* Every variable keeps its type: a look-ahead never leaves the ring and a
\* plan names devices of its own cell.
THEOREM LookAheadTyping == LookAheadFits => (Spec => []TypeOK)
  <1>1. Inv => TypeOK
    BY DEF Inv
  <1> QED BY <1>1, Invariance, PTL

\* An IAB node never serves its devices in a symbol its parent, planning
\* further ahead, uses with it (DoIabBackhaulSchedNotify and
\* UpdateBusySymbolsForIab against SetDlSfAllocInfo and the PHY's frame ring).
THEOREM HalfDuplexHolds == LookAheadFits => (Spec => []HalfDuplex)
  <1>1. Inv => HalfDuplex
    <2> SUFFICES ASSUME ExecutedFit PROVE HalfDuplex
      BY DEF Inv
    <2> QED BY DEF ExecutedFit, Executes, Clash, HalfDuplex
  <1> QED BY <1>1, Invariance, PTL

\* The UE PHY of an IAB node listens exactly in the symbols its parent's PHY
\* uses with it (ReceiveControlMessageList against StartSubFrame).
THEOREM BothEndsAgreeHolds == LookAheadFits => (Spec => []BothEndsAgree)
  <1>1. Inv => BothEndsAgree
    <2> SUFFICES ASSUME EndsAgreeNow PROVE BothEndsAgree
      BY DEF Inv
    <2> QED BY DEF EndsAgreeNow, Listens, Executes, BothEndsAgree
  <1> QED BY <1>1, Invariance, PTL

\* The assertions of StartSubFrame and DoIabBackhaulSchedNotify hold as long
\* as the ring holds the furthest look-ahead.
THEOREM NoAssertionFailsHolds == LookAheadFits => (Spec => []NoAssertionFails)
  <1>1. Inv => NoAssertionFails
    BY DEF Inv, NoAssertionFails
  <1> QED BY <1>1, Invariance, PTL
=============================================================================
