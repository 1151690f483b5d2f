-------------------------- MODULE TunnelTreeProofs --------------------------
(***************************************************************************)
(* A tunnel is never broken between the cell that routes it and the core.  *)
(***************************************************************************)
EXTENDS TunnelTree, TLAPS, SequenceTheorems

Typed ==
    /\ session \in Seq([imsi : Devices, bid : Bids])
    /\ holds \in [Stations -> SUBSET Teids]

TreeInv == Typed /\ WholeTunnels

LEMMA Tree ==
    /\ Parent \in [Devices -> Stations] /\ NumBearers \in [Devices -> Bids]
    /\ Iab \subseteq Devices /\ Iab \subseteq Stations
    /\ \A i \in Iab : Parent[i] # i
    /\ \A i \in Iab : \A d \in Below[i] : Parent[d] # Parent[i]
<1> USE TopologyAssumption DEF Stations, Devices
<1>1. ASSUME NEW i \in Iab PROVE Parent[i] # i
  OBVIOUS
<1>2. ASSUME NEW i \in Iab, NEW d \in Below[i], Parent[d] = Parent[i] PROVE FALSE
  <2>1. d \in Devices
    OBVIOUS
  <2>2. Parent[i] \in Below[i] \cup {i}
    BY <1>2, <2>1
  <2>3. i \in Below[i]
    BY <2>2
  <2> QED BY <2>3
<1> QED BY <1>1, <1>2, BoundsAssumption

LEMMA OpenTree ==
    ASSUME TreeInv, NEW d \in Devices, Open(d) PROVE TreeInv'
<1> DEFINE S   == [imsi : Devices, bid : Bids]
           n   == NumBearers[d]
           new == [k \in 1 .. n |-> [imsi |-> d, bid |-> k]]
<1>1. n \in Nat /\ 1 .. n \subseteq Bids
  BY Tree, BoundsAssumption DEF Bids
<1>2. new \in [1 .. n -> S]
  BY <1>1
<1>3. session \in Seq(S) /\ session' = session \o new /\ holds' = holds
  BY DEF TreeInv, Typed, Open
<1> HIDE DEF new, S, n
<1>4. new \in Seq(S)
  BY <1>1, <1>2, SeqDef
<1>5. /\ session' \in Seq(S) /\ Len(session') = Len(session) + Len(new)
      /\ \A t \in 1 .. Len(session) + Len(new) :
            session'[t] = IF t <= Len(session) THEN session[t] ELSE new[t - Len(session)]
  BY <1>3, <1>4, ConcatProperties
<1>6. Len(session) \in Nat /\ Len(new) \in Nat
  BY <1>3, <1>4, LenProperties
<1>7. ASSUME NEW t \in 1 .. Len(session)
      PROVE  t \in 1 .. Len(session') /\ session'[t] = session[t]
  <2>1. t \in 1 .. Len(session) + Len(new) /\ t <= Len(session)
    BY <1>6
  <2> QED BY <1>5, <2>1
<1>8. WholeTunnels'
  BY <1>3, <1>7 DEF TreeInv, WholeTunnels, Owner
<1> QED BY <1>3, <1>5, <1>8 DEF TreeInv, Typed, S

LEMMA ExtendTree ==
    ASSUME TreeInv, NEW b \in Stations, NEW d \in Devices, NEW S \in SUBSET Teids,
           Extend(b, d, S)
    PROVE  TreeInv'
<1> USE Tree
<1>1. /\ holds' = [holds EXCEPT ![b] = @ \cup S] /\ session' = session
      /\ d \in Below[b] /\ (b \in Iab => S \subseteq holds[Parent[b]])
      /\ holds \in [Stations -> SUBSET Teids]
  BY DEF Extend, TreeInv, Typed
<1>2. \A x \in Stations : holds'[x] = IF x = b THEN holds[x] \cup S ELSE holds[x]
  BY <1>1
<1>3. ASSUME NEW t \in S PROVE t \in 1 .. Len(session) /\ Owner(t) = d
  <2>1. PICK first \in 0 .. Len(session) :
           /\ S = first + 1 .. first + NumBearers[d]
           /\ \A x \in S : x <= Len(session) /\ session[x] = [imsi |-> d, bid |-> x - first]
    BY DEF Extend, IsRequest
  <2>2. Len(session) \in Nat /\ NumBearers[d] \in Nat
    BY LenProperties, BoundsAssumption DEF TreeInv, Typed, Bids
  <2>3. t \in first + 1 .. first + NumBearers[d] /\ t <= Len(session)
    BY <2>1
  <2>4. session[t] = [imsi |-> d, bid |-> t - first]
    BY <2>1
  <2> QED BY <2>2, <2>3, <2>4 DEF Owner
<1>4. ASSUME NEW x \in Stations, NEW t \in holds'[x]
      PROVE  t \in 1 .. Len(session') /\ Owner(t)' \in Below[x]
  BY <1>1, <1>2, <1>3, <1>4 DEF TreeInv, WholeTunnels, Owner
<1>5. ASSUME NEW i \in Iab PROVE holds'[i] \subseteq holds'[Parent[i]]
  <2>1. holds[i] \subseteq holds[Parent[i]] /\ holds[Parent[i]] \subseteq holds'[Parent[i]]
    BY <1>2 DEF TreeInv, WholeTunnels
  <2> QED BY <1>1, <1>2, <2>1
<1> QED BY <1>1, <1>4, <1>5 DEF TreeInv, Typed, WholeTunnels

\* Nothing below b holds a TEID of a device of b, so withdrawing it is safe.
LEMMA WithdrawTree ==
    ASSUME TreeInv, NEW b \in Stations, NEW S \in SUBSET holds[b], Withdraw(b, S)
    PROVE  TreeInv'
<1> USE Tree
<1>1. /\ holds' = [holds EXCEPT ![b] = @ \ S] /\ session' = session
      /\ \A t \in S : Parent[Owner(t)] = b
      /\ holds \in [Stations -> SUBSET Teids]
  BY DEF Withdraw, TreeInv, Typed
<1>2. \A x \in Stations : holds'[x] = IF x = b THEN holds[x] \ S ELSE holds[x]
  BY <1>1
<1>3. ASSUME NEW x \in Stations, NEW t \in holds'[x]
      PROVE  t \in 1 .. Len(session') /\ Owner(t)' \in Below[x]
  BY <1>1, <1>2, <1>3 DEF TreeInv, WholeTunnels, Owner
<1>4. ASSUME NEW i \in Iab PROVE holds'[i] \subseteq holds'[Parent[i]]
  <2> SUFFICES ASSUME NEW t \in holds'[i] PROVE t \in holds'[Parent[i]]
    OBVIOUS
  <2>1. t \in holds[i]
    BY <1>2
  <2>2. t \in holds[Parent[i]] /\ Owner(t) \in Below[i]
    BY <2>1 DEF TreeInv, WholeTunnels
  <2>3. Parent[Owner(t)] # Parent[i]
    BY <2>2
  <2> QED BY <1>1, <1>2, <2>2, <2>3
<1> QED BY <1>1, <1>3, <1>4 DEF TreeInv, Typed, WholeTunnels

LEMMA TreeInvStep == TreeInv /\ [Next]_vars => TreeInv'
<1> SUFFICES ASSUME TreeInv, [Next]_vars PROVE TreeInv'
  OBVIOUS
<1>1. CASE Next
  BY <1>1, OpenTree, ExtendTree, WithdrawTree DEF Next
<1>2. CASE UNCHANGED vars
  BY <1>2 DEF vars, TreeInv, Typed, WholeTunnels, Owner
<1> QED BY <1>1, <1>2

\* WholeTunnels in every deployment and however requests, retries and releases
\* interleave: what EpcIabApplication routes, every cell above it routes too.
THEOREM TunnelsAreWhole == Spec => []WholeTunnels
<1>1. Init => TreeInv
  BY Tree, EmptySeq DEF Init, TreeInv, Typed, WholeTunnels
<1>2. TreeInv /\ [Next]_vars => TreeInv'
  BY TreeInvStep
<1>3. TreeInv => WholeTunnels
  BY DEF TreeInv
<1> QED BY <1>1, <1>2, <1>3, PTL DEF Spec
=============================================================================
