---------------------------- MODULE RlcAmProofs ----------------------------
(***************************************************************************)
(* The windows of RlcAm and what it delivers, for every window size, SDU   *)
(* size and bound.                                                         *)
(*                                                                         *)
(* The history variables nAcked, nRcvd and nSent number PDUs from the      *)
(* start; the invariant says which number each sequence number stands for, *)
(* and what the STATUS PDUs on the radio may still claim.                  *)
(***************************************************************************)
EXTENDS RlcAm, TLAPS, SequenceTheorems, FiniteSetTheorems, WellFoundedInduction

PduRecs == [num : Nat, lo : Nat, hi : Nat]
Entries == [pdu : PduRecs, seg : BOOLEAN, data : Seq(Nat), complete : BOOLEAN]

\* TypeOK without what ReassembleAndDeliver computes.
Shape ==
    /\ submitted \in Nat /\ taken \in Nat /\ vtA \in SNs /\ vtS \in SNs
    /\ pdu \in [SNs -> PduRecs]
    /\ txed \subseteq SNs /\ retx \subseteq SNs /\ retxSeg \in [SNs -> Nat]
    /\ vrR \in SNs /\ vrX \in SNs /\ vrMs \in SNs /\ vrH \in SNs
    /\ rxon \in [SNs -> Entries]
    /\ reordering \in BOOLEAN
    /\ dataCh \in Seq(DataPdus) /\ statusCh \in Seq(StatusPdus)
    /\ nSent \in Nat /\ nAcked \in Nat /\ nRcvd \in Nat

Messages(ch) == {ch[i] : i \in DOMAIN ch}

\* Value v stands for number u where the values are counted from b, number n.
Stands(v, u, b, n) == Off(v, b) = IF u >= n THEN u - n ELSE u - n + 2 * W

\* VT(A) <= VR(R) <= VT(S) <= VT(MS), as numbers and as sequence numbers.
Windows ==
    /\ nAcked <= nRcvd /\ nRcvd <= nSent /\ nSent <= nAcked + W
    /\ Off(vtS, vtA) = nSent - nAcked
    /\ Off(vrR, vtA) = nRcvd - nAcked

Numbered ==
    /\ \A v \in Interval(vtA, vtS) : pdu[v].num = nAcked + Off(v, vtA)
    /\ \A v \in SNs : pdu[v].lo <= pdu[v].hi

\* The reception buffer and the four variables that point into it.
Reception ==
    /\ RightPdus
    /\ \A v \in SNs : rxon[v] # NoEntry => Off(v, vrR) < Off(vrH, vrR)
    /\ Off(vrMs, vrR) <= Off(vrH, vrR)
    /\ Off(vrH, vrR) <= nSent - nRcvd
    /\ ~rxon[vrR].complete /\ ~rxon[vrMs].complete
    /\ reordering =>
         /\ vrX # vrR
         /\ Off(vrX, vrR) <= Off(vrH, vrR)
         /\ \A v \in SNs : Off(vrX, vrR) <= Off(v, vrR) /\ Off(v, vrR) < Off(vrMs, vrR)
                             => rxon[v].complete

DataInAir ==
    \A m \in Messages(dataCh) :
        /\ m.pdu.num < nSent /\ nSent <= m.pdu.num + W
        /\ Stands(m.sn, m.pdu.num, vtA, nAcked)

\* The number a STATUS PDU means by v, and the numbers beyond the first
\* missing one that it acknowledges.
NumberIn(m, v) == m.num - Off(m.ack, v)
Covers(m, v)   == 0 < Off(m.ack, v) /\ Off(m.ack, v) <= m.num - m.low
Acks(m, v)     == Covers(m, v) /\ v \notin m.nacks

StatusInAir ==
    \A m \in Messages(statusCh) :
        /\ m.low <= nRcvd /\ m.low <= m.num /\ m.num <= m.low + W
        /\ m.num <= nSent /\ nSent <= m.num + W
        /\ Stands(m.ack, m.num, vtA, nAcked)
        /\ \A v \in m.nacks : Covers(m, v)
        /\ \A v \in SNs : Covers(m, v) /\ NumberIn(m, v) = m.low => v \in m.nacks
        /\ \A v \in SNs : Acks(m, v) => Received(NumberIn(m, v))

\* Every number that was ever the first one missing, VT(A) among them, is not
\* acknowledged beyond a gap by a STATUS PDU that is older.
Gaps ==
    /\ \A m, k \in Messages(statusCh), v \in SNs :
          Acks(m, v) => NumberIn(m, v) # k.low
    /\ \A m \in Messages(statusCh), v \in SNs :
          Acks(m, v) /\ NumberIn(m, v) = nAcked => m.low > nAcked
    /\ \A m \in Messages(statusCh), v \in Interval(vtA, vtS) \ (txed \cup retx) :
          nAcked + Off(v, vtA) # m.low

Inv == Shape /\ Windows /\ Numbered /\ BuffersAgree /\ ReleasedIsReceived
       /\ Reception /\ DataInAir /\ StatusInAir /\ Gaps

-----------------------------------------------------------------------------
(***************************************************************************)
(* Arithmetic of sequence numbers.                                         *)
(***************************************************************************)
LEMMA OffRange ==
  ASSUME NEW v \in SNs, NEW b \in SNs
  PROVE  /\ Off(v, b) \in Nat /\ Off(v, b) < 2 * W
         /\ Off(v, b) = 0 <=> v = b
BY ParametersAssumption DEF SNs, Off

LEMMA AddRange ==
  ASSUME NEW v \in SNs, NEW k \in Nat, k < 2 * W
  PROVE  /\ Add(v, k) \in SNs
         /\ Off(Add(v, k), v) = k
         /\ Add(v, 0) = v
BY ParametersAssumption DEF SNs, Off, Add

LEMMA AddOff ==
  ASSUME NEW v \in SNs, NEW b \in SNs
  PROVE  Add(b, Off(v, b)) = v
BY ParametersAssumption DEF SNs, Off, Add

LEMMA OffInjective ==
  ASSUME NEW u \in SNs, NEW v \in SNs, NEW b \in SNs, Off(u, b) = Off(v, b)
  PROVE  u = v
BY ParametersAssumption DEF SNs, Off

\* Distances add up, round the ring once at most.
LEMMA Chain ==
  ASSUME NEW a \in SNs, NEW b \in SNs, NEW c \in SNs
  PROVE  Off(c, a) = IF Off(c, b) + Off(b, a) < 2 * W
                     THEN Off(c, b) + Off(b, a)
                     ELSE Off(c, b) + Off(b, a) - 2 * W
BY ParametersAssumption DEF SNs, Off

LEMMA IntervalMember ==
  ASSUME NEW a \in SNs, NEW b \in SNs, NEW v
  PROVE  v \in Interval(a, b) <=> v \in SNs /\ Off(v, a) < Off(b, a)
BY DEF Interval

\* What v stands for does not depend on the base, while that is within reach.
LEMMA StandsRebased ==
  ASSUME NEW v \in SNs, NEW b \in SNs, NEW c \in SNs,
         NEW u \in Nat, NEW n \in Nat, NEW k \in Nat,
         Stands(v, u, b, n), Off(c, b) = k - n, n <= k,
         u < k + 2 * W, k < u + 2 * W, u < n + 2 * W, n < u + 2 * W
  PROVE  Stands(v, u, c, k)
BY ParametersAssumption, Chain DEF SNs, Off, Stands

\* A nonempty set of natural numbers has a smallest element.
LEMMA Smallest ==
  ASSUME NEW T, T \subseteq Nat, T # {}
  PROVE  \E x \in T : \A y \in T : x <= y
<1> DEFINE Below(n) == 0 .. n - 1
           R == StrictSubsetOrdering(Nat)
           F == {Below(n) : n \in T}
<1>1. IsWellFoundedOn(R, FiniteSubsetsOf(Nat))
  BY FS_StrictSubsetOrderingWellFounded
<1>2. F \subseteq FiniteSubsetsOf(Nat) /\ F # {}
  <2>1. ASSUME NEW n \in T PROVE Below(n) \in FiniteSubsetsOf(Nat)
    <3>1. n \in Nat OBVIOUS
    <3>2. IsFiniteSet(Below(n)) BY <3>1, FS_Interval
    <3>3. Below(n) \subseteq Nat BY <3>1
    <3>. QED BY <3>2, <3>3 DEF FiniteSubsetsOf
  <2>. QED BY <2>1
<1> HIDE DEF F, R
<1>3. PICK X \in F : \A Y \in F : ~ (<<Y, X>> \in R)
  BY <1>1, <1>2, WFMin
<1>4. PICK x \in T : X = Below(x)
  BY DEF F
<1>5. ASSUME NEW y \in T, y < x PROVE FALSE
  <2>1. Below(y) \in F BY DEF F
  <2>2. Below(y) \subseteq Below(x) /\ Below(y) # Below(x)
    <3>1. y \in Below(x) /\ y \notin Below(y) BY <1>5
    <3>. QED BY <3>1, <1>5
  <2>3. <<Below(y), Below(x)>> \in R
    BY <2>2 DEF R, StrictSubsetOrdering
  <2>. QED BY <1>3, <1>4, <2>1, <2>3
<1>6. QED BY <1>5

\* CompleteFrom counts up to the first PDU that is not complete.
LEMMA CompleteFromStops ==
  ASSUME NEW rx \in [SNs -> Entries], NEW v \in SNs,
         NEW u \in SNs, ~rx[u].complete
  PROVE  /\ CompleteFrom(rx, v) \in Nat
         /\ CompleteFrom(rx, v) <= Off(u, v)
         /\ ~rx[Add(v, CompleteFrom(rx, v))].complete
         /\ \A w \in SNs : Off(w, v) < CompleteFrom(rx, v) => rx[w].complete
<1> DEFINE T == {k \in 0 .. 2 * W - 1 : ~rx[Add(v, k)].complete}
           c == CompleteFrom(rx, v)
<1>1. Off(u, v) \in T
  BY OffRange, AddOff, ParametersAssumption
<1>2. T \subseteq Nat BY ParametersAssumption
<1>3. PICK x \in T : \A y \in T : x <= y
  BY <1>1, <1>2, Smallest
<1>4. /\ x \in 0 .. 2 * W - 1 /\ ~rx[Add(v, x)].complete
      /\ \A j \in 0 .. x - 1 : rx[Add(v, j)].complete
  BY <1>3, ParametersAssumption
<1>5. /\ c \in 0 .. 2 * W - 1 /\ ~rx[Add(v, c)].complete
      /\ \A j \in 0 .. c - 1 : rx[Add(v, j)].complete
  BY <1>4 DEF CompleteFrom
<1>6. c \in Nat /\ c < 2 * W BY <1>5, ParametersAssumption
<1>7. ASSUME NEW w \in SNs, Off(w, v) < c PROVE rx[w].complete
  <2>1. Off(w, v) \in 0 .. c - 1 BY <1>6, <1>7, OffRange
  <2>. QED BY <2>1, <1>5, AddOff
<1>8. c <= Off(u, v)
  BY <1>6, <1>7, OffRange
<1>. QED BY <1>5, <1>6, <1>7, <1>8

\* What is left of a channel when a message is taken out or put in.
LEMMA ChannelWithout ==
  ASSUME NEW S, NEW ch \in Seq(S), NEW i \in DOMAIN ch
  PROVE  /\ Without(ch, i) \in Seq(S)
         /\ Messages(Without(ch, i)) \subseteq Messages(ch)
         /\ ch[i] \in S /\ ch[i] \in Messages(ch)
<1>1. Len(ch) \in Nat /\ DOMAIN ch = 1 .. Len(ch) /\ Len(ch) - 1 \in Nat
  OBVIOUS
<1>2. \A j \in 1 .. Len(ch) - 1 :
        /\ Without(ch, i)[j] \in S
        /\ \E k \in DOMAIN ch : Without(ch, i)[j] = ch[k]
  BY <1>1 DEF Without
<1>3. Without(ch, i) \in [1 .. Len(ch) - 1 -> S]
  BY <1>2 DEF Without
<1>4. Without(ch, i) \in Seq(S)
  BY <1>1, <1>3
<1>5. Messages(Without(ch, i)) \subseteq Messages(ch)
  BY <1>2, <1>3 DEF Messages
<1>. QED BY <1>4, <1>5 DEF Messages

LEMMA ChannelAppend ==
  ASSUME NEW S, NEW ch \in Seq(S), NEW e \in S
  PROVE  /\ Append(ch, e) \in Seq(S)
         /\ Messages(Append(ch, e)) = Messages(ch) \cup {e}
<1> DEFINE new == Append(ch, e)
<1>1. new \in Seq(S) OBVIOUS
<1>2. /\ Len(ch) \in Nat /\ DOMAIN ch = 1 .. Len(ch)
      /\ Len(new) = Len(ch) + 1 /\ DOMAIN new = 1 .. Len(ch) + 1
      /\ new[Len(ch) + 1] = e /\ \A j \in 1 .. Len(ch) : new[j] = ch[j]
  OBVIOUS
<1> HIDE DEF new
<1>3. Messages(new) \subseteq Messages(ch) \cup {e}
  <2>1. ASSUME NEW j \in 1 .. Len(ch) + 1 PROVE new[j] \in Messages(ch) \cup {e}
    <3>1. CASE j = Len(ch) + 1 BY <3>1, <1>2
    <3>2. CASE j # Len(ch) + 1
      <4>1. j \in 1 .. Len(ch) BY <3>2, <1>2
      <4>. QED BY <4>1, <1>2 DEF Messages
    <3>. QED BY <3>1, <3>2
  <2>. QED BY <2>1, <1>2 DEF Messages
<1>4. Messages(ch) \subseteq Messages(new)
  <2>1. ASSUME NEW j \in 1 .. Len(ch) PROVE ch[j] \in Messages(new)
    <3>1. j \in 1 .. Len(ch) + 1 BY <1>2
    <3>. QED BY <3>1, <1>2 DEF Messages
  <2>. QED BY <2>1, <1>2 DEF Messages
<1>5. e \in Messages(new)
  <2>1. Len(ch) + 1 \in 1 .. Len(ch) + 1 BY <1>2
  <2>. QED BY <2>1, <1>2 DEF Messages
<1>. QED BY <1>1, <1>3, <1>4, <1>5 DEF new

LEMMA WIsPositive == W \in Nat /\ W > 0
BY ParametersAssumption

\* Moving the base from b forward to c, both within reach of v.
LEMMA Rebase ==
  ASSUME NEW b \in SNs, NEW c \in SNs, NEW v \in SNs
  PROVE  /\ Off(c, b) <= Off(v, b) => Off(v, c) = Off(v, b) - Off(c, b)
         /\ Off(v, b) < Off(c, b) => Off(v, c) = Off(v, b) - Off(c, b) + 2 * W
BY ParametersAssumption DEF SNs, Off

-----------------------------------------------------------------------------
(***************************************************************************)
(* The initial state, and the steps that touch little of the invariant.    *)
(***************************************************************************)
LEMMA InitInv ==
  ASSUME Init
  PROVE  Inv
<1>1. 0 \in SNs /\ Off(0, 0) = 0 /\ Interval(0, 0) = {}
  BY ParametersAssumption DEF SNs, Off, Interval
<1>2. NoPdu \in PduRecs /\ NoEntry \in Entries /\ ~NoEntry.complete
  BY DEF NoPdu, NoEntry, PduRecs, Entries
<1>3. Messages(<<>>) = {}
  BY DEF Messages
<1>4. Shape
  BY <1>1, <1>2 DEF Init, Shape
<1>5. Windows
  BY <1>1, ParametersAssumption DEF Init, Windows
<1>6. Numbered
  BY <1>1 DEF Init, Numbered, NoPdu
<1>7. BuffersAgree /\ ReleasedIsReceived
  BY <1>1 DEF Init, BuffersAgree, ReleasedIsReceived
<1>8. Reception
  BY <1>1, <1>2 DEF Init, Reception, RightPdus
<1>9. DataInAir /\ StatusInAir /\ Gaps
  BY <1>1, <1>3 DEF Init, DataInAir, StatusInAir, Gaps
<1>. QED BY <1>4, <1>5, <1>6, <1>7, <1>8, <1>9 DEF Inv

\* What the invariant says of the channels holds for fewer messages too.
LEMMA FewerMessages ==
  ASSUME Inv, dataCh' \in Seq(DataPdus), statusCh' \in Seq(StatusPdus),
         Messages(dataCh') \subseteq Messages(dataCh),
         Messages(statusCh') \subseteq Messages(statusCh),
         UNCHANGED <<vtA, vtS, pdu, txed, retx, retxSeg, vrR, vrX, vrMs, vrH,
                     rxon, reordering, nSent, nAcked, nRcvd>>,
         submitted' \in Nat, taken' \in Nat
  PROVE  Inv'
<1>1. Shape' BY DEF Inv, Shape
<1>2. Windows' BY DEF Inv, Windows
<1>3. Numbered' BY DEF Inv, Numbered
<1>4. BuffersAgree' BY DEF Inv, BuffersAgree
<1>5. ReleasedIsReceived' BY DEF Inv, ReleasedIsReceived, Received
<1>6. Reception' BY DEF Inv, Reception, RightPdus, NumberOf
<1>7. DataInAir' BY DEF Inv, DataInAir
<1>8. StatusInAir' BY DEF Inv, StatusInAir, Received
<1>9. Gaps' BY DEF Inv, Gaps
<1>. QED BY <1>1, <1>2, <1>3, <1>4, <1>5, <1>6, <1>7, <1>8, <1>9 DEF Inv

LEMMA QuietStep ==
  ASSUME Inv,
         \/ TransmitPdcpPdu
         \/ RetransmitNothing
         \/ ExpireStatusProhibitTimer
         \/ UNCHANGED vars
  PROVE  Inv'
<1>1. /\ submitted' \in Nat /\ taken' \in Nat
      /\ UNCHANGED <<vtA, vtS, pdu, txed, retx, retxSeg, vrR, vrX, vrMs, vrH,
                     rxon, reordering, nSent, nAcked, nRcvd, dataCh, statusCh>>
  <2>1. submitted \in Nat /\ taken \in Nat
    BY DEF Inv, Shape
  <2>2. CASE TransmitPdcpPdu
    BY <2>1, <2>2 DEF TransmitPdcpPdu, receiverVars, radioVars
  <2>3. CASE RetransmitNothing \/ ExpireStatusProhibitTimer
    BY <2>1, <2>3 DEF RetransmitNothing, ExpireStatusProhibitTimer, senderVars, receiverVars,
                      radioVars
  <2>4. CASE UNCHANGED vars
    BY <2>1, <2>4 DEF vars, senderVars, receiverVars, radioVars
  <2> QED BY <2>2, <2>3, <2>4
<1>2. dataCh' \in Seq(DataPdus) /\ statusCh' \in Seq(StatusPdus)
  BY <1>1 DEF Inv, Shape
<1>. QED BY <1>1, <1>2, FewerMessages

LEMMA LossStep ==
  ASSUME Inv,
         \/ \E i \in DOMAIN dataCh : LoseData(i)
         \/ \E i \in DOMAIN statusCh : LoseStatus(i)
  PROVE  Inv'
<1>1. /\ UNCHANGED <<vtA, vtS, pdu, txed, retx, retxSeg, vrR, vrX, vrMs, vrH,
                     rxon, reordering, nSent, nAcked, nRcvd>>
      /\ submitted' \in Nat /\ taken' \in Nat
  BY DEF Inv, Shape, LoseData, LoseStatus, senderVars, receiverVars
<1>2. dataCh \in Seq(DataPdus) /\ statusCh \in Seq(StatusPdus)
  BY DEF Inv, Shape
<1>3. CASE \E i \in DOMAIN dataCh : LoseData(i)
  BY <1>1, <1>2, <1>3, ChannelWithout, FewerMessages DEF LoseData
<1>4. CASE \E i \in DOMAIN statusCh : LoseStatus(i)
  BY <1>1, <1>2, <1>4, ChannelWithout, FewerMessages DEF LoseStatus
<1>. QED BY <1>3, <1>4

LEMMA PollTimerStep ==
  ASSUME Inv, ExpirePollRetransmitTimer
  PROVE  Inv'
<1>1. /\ UNCHANGED <<submitted, taken, vtA, vtS, pdu, retxSeg, vrR, vrX, vrMs, vrH,
                     rxon, reordering, nSent, nAcked, nRcvd, dataCh, statusCh>>
      /\ txed' \cup retx' = txed \cup retx
      /\ txed' \cap retx' = {} /\ retx \subseteq retx'
      /\ txed' \subseteq SNs /\ retx' \subseteq SNs
  BY DEF Inv, Shape, BuffersAgree, ExpirePollRetransmitTimer, receiverVars, radioVars
<1>2. Shape' BY <1>1 DEF Inv, Shape
<1>3. Windows' BY <1>1 DEF Inv, Windows
<1>4. Numbered' BY <1>1 DEF Inv, Numbered
<1>5. BuffersAgree' BY <1>1 DEF Inv, BuffersAgree
<1>6. ReleasedIsReceived' BY <1>1 DEF Inv, ReleasedIsReceived, Received
<1>7. Reception' BY <1>1 DEF Inv, Reception, RightPdus, NumberOf
<1>8. DataInAir' /\ StatusInAir' BY <1>1 DEF Inv, DataInAir, StatusInAir, Received
<1>9. Gaps' BY <1>1 DEF Inv, Gaps
<1>. QED BY <1>2, <1>3, <1>4, <1>5, <1>6, <1>7, <1>8, <1>9 DEF Inv

-----------------------------------------------------------------------------
(***************************************************************************)
(* Sending data.                                                           *)
(***************************************************************************)
\* A message with data of a PDU of the window is what DataInAir asks for.
LEMMA NewPdu ==
  ASSUME Inv, NEW n \in Nat, TransmitNew(n)
  PROVE  Inv'
<1> DEFINE p == [num |-> nSent, lo |-> taken, hi |-> taken + n]
           e == [sn |-> vtS, pdu |-> p, from |-> 0, to |-> n,
                 seg |-> FALSE, last |-> TRUE, poll |-> TRUE]
<1>1. /\ pdu' = [pdu EXCEPT ![vtS] = p] /\ txed' = txed \cup {vtS}
      /\ vtS' = Add(vtS, 1) /\ taken' = taken + n /\ nSent' = nSent + 1
      /\ dataCh' = Append(dataCh, e) /\ ~Stalled /\ DelaysAreShort
      /\ retx = {}
      /\ UNCHANGED <<submitted, vtA, retx, retxSeg, nAcked, vrR, vrX, vrMs, vrH,
                     rxon, reordering, nRcvd, statusCh>>
  BY DEF TransmitNew, receiverVars
<1>2. /\ vtA \in SNs /\ vtS \in SNs /\ vrR \in SNs /\ vrH \in SNs
      /\ nSent \in Nat /\ nAcked \in Nat /\ nRcvd \in Nat /\ taken \in Nat
      /\ dataCh \in Seq(DataPdus) /\ pdu \in [SNs -> PduRecs]
  BY DEF Inv, Shape
<1>3. p \in PduRecs /\ e \in DataPdus
  BY <1>2 DEF PduRecs, DataPdus
<1>8. /\ p.num = nSent /\ p.lo <= p.hi /\ e.sn = vtS /\ e.pdu = p
  BY <1>2
<1> HIDE DEF p, e
<1>4. /\ dataCh' \in Seq(DataPdus)
      /\ Messages(dataCh') = Messages(dataCh) \cup {e}
  BY <1>1, <1>2, <1>3, ChannelAppend
<1>5. /\ vtS' \in SNs /\ Off(vtS', vtA) = Off(vtS, vtA) + 1
      /\ Off(vtS, vtA) = nSent - nAcked /\ nSent - nAcked < W
  <2>1. Off(vtS, vtA) = nSent - nAcked /\ nSent - nAcked <= W
    BY <1>2, WIsPositive DEF Inv, Windows
  <2>2. Off(vtS, vtA) # W
    BY <1>1, <1>2, AddOff DEF Stalled
  <2>3. vtS' \in SNs /\ Off(vtS', vtS) = 1
    BY <1>1, <1>2, AddRange, WIsPositive
  <2>4. Off(vtS, vtA) \in Nat /\ Off(vtS, vtA) + 1 < 2 * W
    BY <1>2, <2>1, <2>2, OffRange, WIsPositive
  <2>5. Off(vtS', vtA) = Off(vtS', vtS) + Off(vtS, vtA)
    BY <1>2, <2>3, <2>4, Chain
  <2>. QED BY <1>2, <2>1, <2>2, <2>3, <2>4, <2>5, WIsPositive
<1>6. Interval(vtA, vtS') = Interval(vtA, vtS) \cup {vtS}
  <2>1. ASSUME NEW v \in SNs
        PROVE  Off(v, vtA) < Off(vtS', vtA) <=> Off(v, vtA) < Off(vtS, vtA) \/ v = vtS
    <3>1. Off(v, vtA) \in Nat /\ Off(vtS, vtA) \in Nat
      BY <1>2, OffRange
    <3>2. Off(v, vtA) = Off(vtS, vtA) => v = vtS
      BY <1>2, OffInjective
    <3>. QED BY <1>5, <3>1, <3>2
  <2>. QED BY <1>2, <2>1 DEF Interval
<1>7. vtS \notin Interval(vtA, vtS)
  BY <1>2, <1>5, IntervalMember
<1>9. Shape'
  BY <1>1, <1>2, <1>3, <1>4, <1>5 DEF Inv, Shape
<1>10. Windows'
  BY <1>1, <1>2, <1>5, WIsPositive DEF Inv, Windows
<1>11. Numbered'
  <2>1. ASSUME NEW v \in Interval(vtA', vtS')
        PROVE  pdu'[v].num = nAcked' + Off(v, vtA')
    <3>1. CASE v = vtS
      BY <1>1, <1>2, <1>5, <1>8, <3>1
    <3>2. CASE v # vtS
      <4>1. v \in Interval(vtA, vtS) BY <1>1, <1>6, <3>2
      <4>2. pdu'[v] = pdu[v] BY <1>1, <1>2, <3>2, <4>1 DEF Interval
      <4>. QED BY <1>1, <4>1, <4>2 DEF Inv, Numbered
    <3>. QED BY <3>1, <3>2
  <2>2. \A v \in SNs : pdu'[v].lo <= pdu'[v].hi
    BY <1>1, <1>2, <1>8 DEF Inv, Numbered
  <2>. QED BY <2>1, <2>2 DEF Numbered
<1>12. BuffersAgree'
  BY <1>1, <1>2, <1>5, <1>6, <1>7, OffRange DEF Inv, BuffersAgree
<1>13. ReleasedIsReceived'
  BY <1>1, <1>6 DEF Inv, ReleasedIsReceived, Received
<1>14. Reception'
  <2>1. Off(vrH, vrR) \in Nat BY <1>2, OffRange
  <2>. QED BY <1>1, <1>2, <2>1 DEF Inv, Reception, RightPdus, NumberOf
<1>15. DataInAir'
  <2>1. \A m \in Messages(dataCh) : m.pdu.num + W > nSent /\ m.pdu.num \in Nat
    <3>1. ASSUME NEW i \in DOMAIN dataCh
          PROVE  dataCh[i].pdu.num + W > nSent /\ dataCh[i].pdu.num \in Nat
      <4>1. dataCh[i] \in DataPdus BY <1>2
      <4>. QED BY <1>1, <4>1 DEF DelaysAreShort, DataPdus
    <3>. QED BY <3>1 DEF Messages
  <2>2. ASSUME NEW m \in Messages(dataCh')
        PROVE  /\ m.pdu.num < nSent' /\ nSent' <= m.pdu.num + W
               /\ Stands(m.sn, m.pdu.num, vtA', nAcked')
    <3>1. CASE m \in Messages(dataCh)
      BY <1>1, <1>2, <2>1, <3>1, WIsPositive DEF Inv, DataInAir
    <3>2. CASE m = e
      BY <1>1, <1>2, <1>5, <1>8, <3>2, WIsPositive DEF Stands, Inv, Windows
    <3>. QED BY <1>4, <3>1, <3>2
  <2>. QED BY <2>2 DEF DataInAir
<1>16. StatusInAir'
  <2>1. \A m \in Messages(statusCh) : m.num + W > nSent /\ m.num \in Nat
    <3>1. ASSUME NEW i \in DOMAIN statusCh
          PROVE  statusCh[i].num + W > nSent /\ statusCh[i].num \in Nat
      <4>1. statusCh[i] \in StatusPdus BY DEF Inv, Shape
      <4>. QED BY <1>1, <4>1 DEF DelaysAreShort, StatusPdus
    <3>. QED BY <3>1 DEF Messages
  <2>. QED BY <1>1, <1>2, <2>1, WIsPositive DEF Inv, StatusInAir, Received
<1>17. Gaps'
  BY <1>1, <1>6 DEF Inv, Gaps
<1>. QED BY <1>9, <1>10, <1>11, <1>12, <1>13, <1>14, <1>15, <1>16, <1>17 DEF Inv

\* There is a first PDU to retransmit, and it lies before the others.
LEMMA FirstRetxExists ==
  ASSUME Inv, retx # {}
  PROVE  /\ FirstRetx \in retx /\ FirstRetx \in Interval(vtA, vtS)
         /\ \A u \in retx : Off(FirstRetx, vtA) <= Off(u, vtA)
<1>1. Pending = retx
  BY DEF Pending, Inv, BuffersAgree, Interval
<1>2. retx \subseteq SNs /\ vtA \in SNs
  BY DEF Inv, Shape
<1> DEFINE T == {Off(v, vtA) : v \in retx}
<1>3. T \subseteq Nat /\ T # {}
  BY <1>2, OffRange
<1>4. PICK x \in T : \A y \in T : x <= y
  BY <1>3, Smallest
<1>5. PICK v \in retx : \A u \in retx : Off(v, vtA) <= Off(u, vtA)
  BY <1>4
<1>6. FirstRetx \in retx /\ \A u \in retx : Off(FirstRetx, vtA) <= Off(u, vtA)
  BY <1>1, <1>5 DEF FirstRetx
<1>. QED BY <1>6 DEF Inv, BuffersAgree

LEMMA RetransmitStep ==
  ASSUME Inv, NEW n \in Nat, RetransmitRest(n) \/ RetransmitSegment(n)
  PROVE  Inv'
<1> DEFINE v == FirstRetx
<1>1. v \in retx /\ v \in Interval(vtA, vtS)
  BY FirstRetxExists DEF RetransmitRest, RetransmitSegment
<1>2. /\ vtA \in SNs /\ vtS \in SNs /\ vrR \in SNs /\ v \in SNs
      /\ nSent \in Nat /\ nAcked \in Nat /\ nRcvd \in Nat
      /\ dataCh \in Seq(DataPdus) /\ pdu \in [SNs -> PduRecs]
      /\ retxSeg \in [SNs -> Nat] /\ txed \subseteq SNs /\ retx \subseteq SNs
  BY <1>1 DEF Inv, Shape, Interval
<1>3. /\ pdu[v] \in PduRecs /\ PduLen(pdu[v]) \in Nat /\ retxSeg[v] \in Nat
      /\ pdu[v].num = nAcked + Off(v, vtA)
  <2>1. pdu[v] \in PduRecs /\ retxSeg[v] \in Nat
    BY <1>2
  <2>2. pdu[v].num = nAcked + Off(v, vtA) /\ pdu[v].lo <= pdu[v].hi
    BY <1>1, <1>2 DEF Inv, Numbered
  <2>3. pdu[v].lo \in Nat /\ pdu[v].hi \in Nat
    BY <2>1 DEF PduRecs
  <2> HIDE DEF v
  <2>4. PduLen(pdu[v]) \in Nat
    BY <2>2, <2>3 DEF PduLen
  <2> QED BY <2>1, <2>2, <2>4
<1>4. PICK from \in Nat, to \in Nat, seg \in BOOLEAN, last \in BOOLEAN, poll \in BOOLEAN :
        dataCh' = Append(dataCh, [sn |-> v, pdu |-> pdu[v], from |-> from, to |-> to,
                                  seg |-> seg, last |-> last, poll |-> poll])
  <2>1. RetxPolls(v) \in BOOLEAN /\ (retxSeg[v] > 0) \in BOOLEAN
    BY DEF RetxPolls
  <2>2. retxSeg[v] + n \in Nat BY <1>3
  <2>3. CASE RetransmitRest(n)
    BY <1>3, <2>1, <2>3 DEF RetransmitRest
  <2>4. CASE RetransmitSegment(n)
    BY <1>3, <2>1, <2>2, <2>4 DEF RetransmitSegment
  <2>. QED BY <2>3, <2>4
<1>5. /\ UNCHANGED <<submitted, taken, vtA, vtS, pdu, vrR, vrX, vrMs, vrH,
                     rxon, reordering, nSent, nAcked, nRcvd, statusCh>>
      /\ txed' \cup retx' = txed \cup retx /\ txed' \cap retx' = {}
      /\ txed' \subseteq SNs /\ retx' \subseteq SNs
      /\ retxSeg' \in [SNs -> Nat]
      /\ \A u \in SNs : retxSeg'[u] > 0 => u \in retx'
  <2>1. CASE RetransmitRest(n)
    BY <1>1, <1>2, <1>3, <2>1 DEF RetransmitRest, receiverVars, Inv, BuffersAgree
  <2>2. CASE RetransmitSegment(n)
    BY <1>1, <1>2, <1>3, <2>2 DEF RetransmitSegment, receiverVars, Inv, BuffersAgree
  <2>. QED BY <2>1, <2>2
<1> DEFINE e == [sn |-> v, pdu |-> pdu[v], from |-> from, to |-> to,
                 seg |-> seg, last |-> last, poll |-> poll]
<1>6. e \in DataPdus
  BY <1>2, <1>3 DEF DataPdus, PduRecs
<1>7. /\ dataCh' \in Seq(DataPdus)
      /\ Messages(dataCh') = Messages(dataCh) \cup {e}
  BY <1>2, <1>4, <1>6, ChannelAppend
<1>8. /\ e.pdu.num < nSent /\ nSent <= e.pdu.num + W
      /\ Stands(e.sn, e.pdu.num, vtA, nAcked)
  <2>1. Off(v, vtA) \in Nat /\ Off(v, vtA) < nSent - nAcked /\ nSent <= nAcked + W
    BY <1>1, <1>2, OffRange DEF Interval, Inv, Windows
  <2>. QED BY <1>2, <1>3, <2>1, WIsPositive DEF Stands
<1> HIDE DEF e, v
<1>9. Shape' BY <1>5, <1>7 DEF Inv, Shape
<1>10. Windows' BY <1>5 DEF Inv, Windows
<1>11. Numbered' BY <1>5 DEF Inv, Numbered
<1>12. BuffersAgree' BY <1>5 DEF Inv, BuffersAgree
<1>13. ReleasedIsReceived' BY <1>5 DEF Inv, ReleasedIsReceived, Received
<1>14. Reception' BY <1>5 DEF Inv, Reception, RightPdus, NumberOf
<1>15. DataInAir' BY <1>5, <1>7, <1>8 DEF Inv, DataInAir
<1>16. StatusInAir' BY <1>5 DEF Inv, StatusInAir, Received
<1>17. Gaps' BY <1>5 DEF Inv, Gaps
<1>. QED BY <1>9, <1>10, <1>11, <1>12, <1>13, <1>14, <1>15, <1>16, <1>17 DEF Inv

-----------------------------------------------------------------------------
(***************************************************************************)
(* The reception buffer.                                                   *)
(***************************************************************************)
\* What the steps of the receiving side use of the invariant.
LEMMA ReceptionFacts ==
  ASSUME Inv
  PROVE  /\ vtA \in SNs /\ vtS \in SNs
         /\ vrR \in SNs /\ vrX \in SNs /\ vrMs \in SNs /\ vrH \in SNs
         /\ nSent \in Nat /\ nAcked \in Nat /\ nRcvd \in Nat
         /\ rxon \in [SNs -> Entries]
         /\ nAcked <= nRcvd /\ nRcvd <= nSent /\ nSent <= nAcked + W
         /\ Off(vrMs, vrR) \in Nat /\ Off(vrH, vrR) \in Nat
         /\ Off(vrMs, vrR) <= Off(vrH, vrR) /\ Off(vrH, vrR) <= nSent - nRcvd
         /\ Off(vrH, vrR) <= W
         /\ ~rxon[vrR].complete /\ ~rxon[vrMs].complete /\ ~rxon[vrH].complete
<1>1. /\ vtA \in SNs /\ vtS \in SNs
      /\ vrR \in SNs /\ vrX \in SNs /\ vrMs \in SNs /\ vrH \in SNs
      /\ nSent \in Nat /\ nAcked \in Nat /\ nRcvd \in Nat
      /\ rxon \in [SNs -> Entries]
  BY DEF Inv, Shape
<1>2. nAcked <= nRcvd /\ nRcvd <= nSent /\ nSent <= nAcked + W
  BY DEF Inv, Windows
<1>3. /\ Off(vrMs, vrR) <= Off(vrH, vrR) /\ Off(vrH, vrR) <= nSent - nRcvd
      /\ ~rxon[vrR].complete /\ ~rxon[vrMs].complete
  BY DEF Inv, Reception
<1>4. Off(vrMs, vrR) \in Nat /\ Off(vrH, vrR) \in Nat
  BY <1>1, OffRange
<1>5. Off(vrH, vrR) <= W
  BY <1>1, <1>2, <1>3, <1>4, WIsPositive
<1>6. rxon[vrH] = NoEntry
  BY <1>1, <1>4 DEF Inv, Reception
<1>7. ~rxon[vrH].complete
  BY <1>6 DEF NoEntry
<1>. QED BY <1>1, <1>2, <1>3, <1>4, <1>5, <1>7

\* How far a search for the first incomplete PDU gets from v on.
LEMMA SearchStops ==
  ASSUME NEW rx \in [SNs -> Entries], NEW b \in SNs, NEW v \in SNs, NEW h \in SNs,
         ~rx[h].complete, Off(v, b) <= Off(h, b)
  PROVE  LET ms == Add(v, CompleteFrom(rx, v)) IN
         /\ ms \in SNs /\ ~rx[ms].complete
         /\ Off(v, b) <= Off(ms, b) /\ Off(ms, b) <= Off(h, b)
         /\ \A u \in SNs : Off(v, b) <= Off(u, b) /\ Off(u, b) < Off(ms, b)
                             => rx[u].complete
<1> DEFINE c == CompleteFrom(rx, v)
           ms == Add(v, c)
<1>1. /\ c \in Nat /\ c <= Off(h, v) /\ ~rx[ms].complete
      /\ \A w \in SNs : Off(w, v) < c => rx[w].complete
  BY CompleteFromStops
<1>2. /\ Off(h, b) \in Nat /\ Off(v, b) \in Nat /\ Off(h, b) < 2 * W
      /\ Off(h, v) \in Nat /\ Off(h, v) < 2 * W
  BY OffRange
<1>3. Off(h, v) = Off(h, b) - Off(v, b)
  BY Rebase
<1>4. ms \in SNs /\ Off(ms, v) = c
  BY <1>1, <1>2, AddRange, WIsPositive
<1> HIDE DEF c, ms
<1>5. Off(ms, b) = Off(v, b) + c
  <2>1. c + Off(v, b) < 2 * W
    BY <1>1, <1>2, <1>3, WIsPositive
  <2>. QED BY <1>1, <1>2, <1>4, <2>1, Chain
<1>6. ASSUME NEW u \in SNs, Off(v, b) <= Off(u, b), Off(u, b) < Off(ms, b)
      PROVE  rx[u].complete
  <2>1. Off(u, v) = Off(u, b) - Off(v, b)
    BY <1>6, Rebase
  <2>2. Off(u, b) \in Nat BY OffRange
  <2>. QED BY <1>1, <1>2, <1>5, <1>6, <2>1, <2>2
<1>7. Off(v, b) <= Off(ms, b) /\ Off(ms, b) <= Off(h, b)
  BY <1>1, <1>2, <1>3, <1>5
<1>. QED BY <1>1, <1>4, <1>6, <1>7 DEF c, ms

LEMMA ReorderingStep ==
  ASSUME Inv, ExpireReorderingTimer
  PROVE  /\ Inv'
         /\ Off(vrMs, vrR) <= Off(vrMs', vrR)
<1> DEFINE ms == Add(vrX, CompleteFrom(rxon, vrX))
<1>1. /\ reordering /\ vrMs' = ms
      /\ reordering' = (Off(vrH, vrR) > Off(ms, vrR))
      /\ vrX' = IF Off(vrH, vrR) > Off(ms, vrR) THEN vrH ELSE vrX
      /\ UNCHANGED <<submitted, taken, vtA, vtS, pdu, txed, retx, retxSeg, vrR, vrH,
                     rxon, nSent, nAcked, nRcvd, dataCh, statusCh>>
  BY DEF ExpireReorderingTimer, senderVars, radioVars
<1>2. /\ Off(vrX, vrR) <= Off(vrH, vrR)
      /\ \A v \in SNs : Off(vrX, vrR) <= Off(v, vrR) /\ Off(v, vrR) < Off(vrMs, vrR)
                          => rxon[v].complete
  BY <1>1 DEF Inv, Reception
<1>3. /\ ms \in SNs /\ ~rxon[ms].complete
      /\ Off(vrX, vrR) <= Off(ms, vrR) /\ Off(ms, vrR) <= Off(vrH, vrR)
  BY <1>2, ReceptionFacts, SearchStops
<1> HIDE DEF ms
<1>4. Off(vrMs, vrR) \in Nat /\ Off(ms, vrR) \in Nat /\ Off(vrH, vrR) \in Nat
  BY <1>3, ReceptionFacts, OffRange
<1>5. Off(vrMs, vrR) <= Off(ms, vrR)
  BY <1>2, <1>3, <1>4
<1>6. vrX' \in SNs /\ reordering' \in BOOLEAN
  BY <1>1, ReceptionFacts
<1>7. Reception'
  <2>1. RightPdus' BY <1>1 DEF Inv, Reception, RightPdus, NumberOf
  <2>2. ASSUME reordering' PROVE vrX' = vrH /\ vrH # vrR
    <3>1. Off(vrH, vrR) > Off(ms, vrR) BY <1>1, <2>2
    <3>2. Off(vrH, vrR) # 0 BY <1>4, <3>1
    <3>3. vrH # vrR BY <3>2, ReceptionFacts, OffRange
    <3>. QED BY <1>1, <3>1, <3>3
  <2>3. ASSUME reordering', NEW v \in SNs, Off(vrX', vrR) <= Off(v, vrR)
        PROVE  ~(Off(v, vrR) < Off(vrMs', vrR))
    <3>1. Off(v, vrR) \in Nat BY ReceptionFacts, OffRange
    <3>. QED BY <1>1, <1>3, <1>4, <2>2, <2>3, <3>1
  <2>. QED BY <1>1, <1>3, <1>4, <2>1, <2>2, <2>3 DEF Inv, Reception
<1>8. Shape' BY <1>1, <1>3, <1>6 DEF Inv, Shape
<1>9. Windows' BY <1>1 DEF Inv, Windows
<1>10. Numbered' BY <1>1 DEF Inv, Numbered
<1>11. BuffersAgree' BY <1>1 DEF Inv, BuffersAgree
<1>12. ReleasedIsReceived' BY <1>1 DEF Inv, ReleasedIsReceived, Received
<1>13. DataInAir' BY <1>1 DEF Inv, DataInAir
<1>14. StatusInAir' BY <1>1 DEF Inv, StatusInAir, Received
<1>15. Gaps' BY <1>1 DEF Inv, Gaps
<1>. QED BY <1>1, <1>5, <1>7, <1>8, <1>9, <1>10, <1>11, <1>12, <1>13, <1>14, <1>15
     DEF Inv

-----------------------------------------------------------------------------
(***************************************************************************)
(* STATUS PDUs.                                                            *)
(***************************************************************************)
\* The search for PDUs to report missing ends between VR(R) and VR(MS), past
\* VR(R) when anything is reported, and ACK_SN is at most VR(MS).
LEMMA EndAndAck ==
  ASSUME Inv, NEW room \in Nat, NEW end \in EndsOfNacks(room)
  PROVE  /\ end \in SNs /\ Off(end, vrR) <= Off(vrMs, vrR)
         /\ AckSn(end) \in SNs
         /\ Off(end, vrR) <= Off(AckSn(end), vrR)
         /\ Off(AckSn(end), vrR) <= Off(vrMs, vrR)
         /\ \A u \in SNs : Off(end, vrR) <= Off(u, vrR)
                           /\ Off(u, vrR) < Off(AckSn(end), vrR) => rxon[u].complete
<1>1. /\ vrR \in SNs /\ vrMs \in SNs /\ rxon \in [SNs -> Entries]
      /\ ~rxon[vrMs].complete
      /\ Off(vrMs, vrR) \in Nat /\ Off(vrMs, vrR) <= W
  BY ReceptionFacts, WIsPositive
<1>2. end \in SNs /\ Off(end, vrR) <= Off(vrMs, vrR)
  <2>1. CASE end = vrMs BY <1>1, <2>1
  <2>2. CASE \E v \in Missing : end = Add(v, 1)
    <3>1. PICK v \in SNs : Off(v, vrR) < Off(vrMs, vrR) /\ end = Add(v, 1)
      BY <2>2 DEF Missing, Interval
    <3>2. Off(v, vrR) \in Nat BY <1>1, OffRange
    <3>3. end \in SNs /\ Off(end, v) = 1 BY <3>1, AddRange, WIsPositive
    <3>4. Off(end, v) + Off(v, vrR) < 2 * W
      BY <1>1, <3>1, <3>2, <3>3, WIsPositive
    <3>5. Off(end, vrR) = Off(v, vrR) + 1
      BY <1>1, <3>2, <3>3, <3>4, Chain
    <3>. QED BY <1>1, <3>1, <3>2, <3>3, <3>5
  <2>. QED BY <2>1, <2>2 DEF EndsOfNacks
<1>. QED BY <1>1, <1>2, SearchStops DEF AckSn

\* In terms of VR(R), a STATUS PDU made now speaks about the sequence numbers
\* before its ACK_SN.
LEMMA CoveredNow ==
  ASSUME Inv, NEW ack \in SNs, Off(ack, vrR) <= W,
         NEW m, m.ack = ack, m.low = nRcvd, m.num = nRcvd + Off(ack, vrR),
         NEW v \in SNs
  PROVE  /\ Covers(m, v) <=> Off(v, vrR) < Off(ack, vrR)
         /\ Covers(m, v) => NumberIn(m, v) = nRcvd + Off(v, vrR)
<1>1. vrR \in SNs /\ nRcvd \in Nat BY ReceptionFacts
<1>2. /\ Off(v, vrR) \in Nat /\ Off(v, vrR) < 2 * W
      /\ Off(ack, vrR) \in Nat /\ Off(ack, v) \in Nat /\ Off(ack, v) < 2 * W
  BY <1>1, OffRange
<1>3. Off(v, vrR) <= Off(ack, vrR) => Off(ack, v) = Off(ack, vrR) - Off(v, vrR)
  BY <1>1, Rebase
<1>4. Off(ack, vrR) < Off(v, vrR) => Off(ack, v) = Off(ack, vrR) - Off(v, vrR) + 2 * W
  BY <1>1, Rebase
<1>5. Covers(m, v) <=> 0 < Off(ack, v) /\ Off(ack, v) <= Off(ack, vrR)
  BY <1>1, <1>2 DEF Covers
<1>6. Covers(m, v) <=> Off(v, vrR) < Off(ack, vrR)
  BY <1>2, <1>3, <1>4, <1>5, WIsPositive
<1>7. Covers(m, v) => NumberIn(m, v) = nRcvd + Off(v, vrR)
  BY <1>1, <1>2, <1>3, <1>6 DEF NumberIn
<1>. QED BY <1>6, <1>7

LEMMA StatusStep ==
  ASSUME Inv, NEW room \in Nat, TransmitStatus(room)
  PROVE  Inv'
<1>1. PICK end \in EndsOfNacks(room) :
        statusCh' = Append(statusCh,
          [ack |-> AckSn(end), nacks |-> Missing \cap Interval(vrR, end),
           low |-> nRcvd, num |-> nRcvd + Off(AckSn(end), vrR)])
  BY DEF TransmitStatus
<1> DEFINE ack == AckSn(end)
           nacks == Missing \cap Interval(vrR, end)
           m == [ack |-> ack, nacks |-> nacks, low |-> nRcvd,
                 num |-> nRcvd + Off(ack, vrR)]
<1>2. UNCHANGED <<submitted, taken, vtA, vtS, pdu, txed, retx, retxSeg, vrR, vrX, vrMs,
                  vrH, rxon, reordering, nSent, nAcked, nRcvd, dataCh>>
  BY DEF TransmitStatus, senderVars
<1>3. /\ vtA \in SNs /\ vtS \in SNs /\ vrR \in SNs /\ vrMs \in SNs
      /\ nSent \in Nat /\ nAcked \in Nat /\ nRcvd \in Nat
      /\ nAcked <= nRcvd /\ nRcvd <= nSent /\ nSent <= nAcked + W
      /\ Off(vrMs, vrR) \in Nat /\ Off(vrMs, vrR) <= nSent - nRcvd
      /\ ~rxon[vrR].complete
  BY ReceptionFacts
<1>4. /\ end \in SNs /\ Off(end, vrR) <= Off(vrMs, vrR)
      /\ ack \in SNs /\ Off(end, vrR) <= Off(ack, vrR)
      /\ Off(ack, vrR) <= Off(vrMs, vrR)
      /\ \A u \in SNs : Off(end, vrR) <= Off(u, vrR) /\ Off(u, vrR) < Off(ack, vrR)
                          => rxon[u].complete
  BY EndAndAck
<1>5. Off(ack, vrR) \in Nat /\ Off(end, vrR) \in Nat /\ Off(ack, vrR) <= W
  <2>1. Off(ack, vrR) \in Nat /\ Off(end, vrR) \in Nat
    BY <1>3, <1>4, OffRange
  <2>. QED BY <1>3, <1>4, <2>1, WIsPositive
<1>6. nacks \subseteq SNs
  BY DEF Missing, Interval
<1> HIDE DEF ack, nacks
<1>7. /\ m \in StatusPdus
      /\ m.ack = ack /\ m.nacks = nacks /\ m.low = nRcvd
      /\ m.num = nRcvd + Off(ack, vrR)
  BY <1>3, <1>4, <1>5, <1>6 DEF StatusPdus
<1>8. statusCh' = Append(statusCh, m)
  BY <1>1 DEF ack, nacks
<1> HIDE DEF m
<1>9. /\ statusCh' \in Seq(StatusPdus)
      /\ Messages(statusCh') = Messages(statusCh) \cup {m}
  <2>1. statusCh \in Seq(StatusPdus) BY DEF Inv, Shape
  <2>. QED BY <1>7, <1>8, <2>1, ChannelAppend
<1>10. \A v \in SNs :
         /\ Covers(m, v) <=> Off(v, vrR) < Off(ack, vrR)
         /\ Covers(m, v) => NumberIn(m, v) = nRcvd + Off(v, vrR)
  BY <1>4, <1>5, <1>7, CoveredNow
\* What it does not acknowledge holds the first missing PDU, and all it
\* acknowledges is there.
<1>11. ASSUME NEW v \in SNs, Covers(m, v), NumberIn(m, v) = nRcvd
       PROVE  v \in nacks
  <2>1. Off(v, vrR) \in Nat BY <1>3, OffRange
  <2>2. Off(v, vrR) = 0 /\ 0 < Off(ack, vrR)
    BY <1>3, <1>10, <1>11, <2>1
  <2>3. v = vrR BY <1>3, <2>2, OffRange
  <2>4. Off(end, vrR) # 0
    <3>1. ASSUME Off(end, vrR) = 0 PROVE FALSE
      <4>1. rxon[vrR].complete BY <1>3, <1>4, <2>2, <2>3, <3>1
      <4>. QED BY <1>3, <4>1
    <3>. QED BY <3>1
  <2>5. 0 < Off(end, vrR) /\ 0 < Off(vrMs, vrR) BY <1>3, <1>4, <1>5, <2>4
  <2>6. vrR \in Missing /\ vrR \in Interval(vrR, end)
    BY <1>3, <2>2, <2>3, <2>5 DEF Missing, Interval
  <2>. QED BY <2>3, <2>6 DEF nacks
<1>12. ASSUME NEW v \in SNs, Acks(m, v)
       PROVE  /\ rxon[v].complete
              /\ Off(v, vrR) \in Nat /\ Off(v, vrR) < W
              /\ NumberIn(m, v) = nRcvd + Off(v, vrR)
  <2>1. /\ Off(v, vrR) \in Nat /\ Off(v, vrR) < Off(ack, vrR) /\ v \notin nacks
        /\ NumberIn(m, v) = nRcvd + Off(v, vrR)
    BY <1>3, <1>7, <1>10, <1>12, OffRange DEF Acks
  <2>2. CASE Off(v, vrR) < Off(end, vrR)
    <3>1. Off(v, vrR) < Off(vrMs, vrR) BY <1>3, <1>4, <1>5, <2>1, <2>2
    <3>2. v \in Interval(vrR, end) /\ v \in Interval(vrR, vrMs)
      BY <2>2, <3>1 DEF Interval
    <3>3. rxon[v].complete BY <2>1, <3>2 DEF nacks, Missing
    <3>. QED BY <1>5, <2>1, <3>3, WIsPositive
  <2>3. CASE Off(end, vrR) <= Off(v, vrR)
    BY <1>4, <1>5, <2>1, <2>3, WIsPositive
  <2>. QED BY <1>5, <2>1, <2>2, <2>3
<1>13. ASSUME NEW v \in SNs, Acks(m, v)
       PROVE  Received(NumberIn(m, v)) /\ NumberIn(m, v) \in Nat /\ NumberIn(m, v) > nRcvd
  <2>1. /\ rxon[v].complete /\ Off(v, vrR) \in Nat /\ Off(v, vrR) < W
        /\ NumberIn(m, v) = nRcvd + Off(v, vrR)
    BY <1>12, <1>13
  <2>2. Off(v, vrR) # 0
    <3>1. v # vrR BY <1>3, <2>1
    <3>. QED BY <1>3, <3>1, OffRange
  <2>3. NumberIn(m, v) - nRcvd = Off(v, vrR) BY <1>3, <2>1
  <2>4. Add(vrR, Off(v, vrR)) = v BY <1>3, AddOff
  <2>. QED BY <1>3, <2>1, <2>2, <2>3, <2>4 DEF Received
<1>14. ~Received(nRcvd)
  <2>1. Add(vrR, 0) = vrR /\ nRcvd - nRcvd = 0 /\ ~(nRcvd < nRcvd)
    BY <1>3, AddRange, WIsPositive
  <2>. QED BY <1>3, <2>1 DEF Received
<1>15. StatusInAir'
  <2>1. Off(ack, vtA) = m.num - nAcked
    <3>1. Off(vrR, vtA) = nRcvd - nAcked BY DEF Inv, Windows
    <3>2. Off(ack, vrR) + Off(vrR, vtA) < 2 * W
      BY <1>3, <1>4, <1>5, <3>1, WIsPositive
    <3>3. Off(ack, vtA) = Off(ack, vrR) + Off(vrR, vtA)
      BY <1>3, <1>4, <3>2, Chain
    <3>. QED BY <1>3, <1>5, <1>7, <3>1, <3>3
  <2>2. /\ m.low <= nRcvd /\ m.low <= m.num /\ m.num <= m.low + W
        /\ m.num <= nSent /\ nSent <= m.num + W /\ m.num >= nAcked
    BY <1>3, <1>4, <1>5, <1>7, WIsPositive
  <2>3. Stands(m.ack, m.num, vtA, nAcked)
    BY <1>7, <2>1, <2>2 DEF Stands
  <2>4. \A v \in m.nacks : Covers(m, v)
    <3>1. ASSUME NEW v \in nacks PROVE Covers(m, v)
      <4>1. v \in SNs /\ Off(v, vrR) < Off(end, vrR) BY DEF nacks, Interval
      <4>2. Off(v, vrR) \in Nat BY <1>3, <4>1, OffRange
      <4>. QED BY <1>4, <1>5, <1>10, <4>1, <4>2
    <3>. QED BY <1>7, <3>1
  <2>5. \A v \in SNs : Covers(m, v) /\ NumberIn(m, v) = m.low => v \in m.nacks
    BY <1>7, <1>11
  <2>6. \A v \in SNs : Acks(m, v) => Received(NumberIn(m, v))
    BY <1>13
  <2>. QED BY <1>2, <1>9, <2>2, <2>3, <2>4, <2>5, <2>6 DEF Inv, StatusInAir, Received
<1>16. Gaps'
  <2>1. \A k \in Messages(statusCh) : k.low <= nRcvd /\ k.low \in Nat
    <3>1. \A k \in Messages(statusCh) : k \in StatusPdus
      BY DEF Messages, Inv, Shape
    <3>. QED BY <3>1 DEF Inv, StatusInAir, StatusPdus
  <2>2. ASSUME NEW x \in Messages(statusCh'), NEW k \in Messages(statusCh'),
               NEW v \in SNs, Acks(x, v)
        PROVE  NumberIn(x, v) # k.low
    <3>1. CASE x = m
      BY <1>3, <1>7, <1>9, <1>13, <2>1, <2>2, <3>1
    <3>2. CASE x # m /\ k = m
      <4>1. Received(NumberIn(x, v))
        BY <1>9, <2>2, <3>2 DEF Inv, StatusInAir
      <4>. QED BY <1>7, <1>14, <3>2, <4>1
    <3>3. CASE x # m /\ k # m
      BY <1>9, <2>2, <3>3 DEF Inv, Gaps
    <3>. QED BY <3>1, <3>2, <3>3
  <2>3. ASSUME NEW x \in Messages(statusCh'), NEW v \in SNs,
               Acks(x, v), NumberIn(x, v) = nAcked
        PROVE  x.low > nAcked
    <3>1. CASE x = m BY <1>3, <1>13, <2>3, <3>1
    <3>2. CASE x # m BY <1>9, <2>3, <3>2 DEF Inv, Gaps
    <3>. QED BY <3>1, <3>2
  <2>4. ASSUME NEW x \in Messages(statusCh'),
               NEW v \in Interval(vtA, vtS) \ (txed \cup retx)
        PROVE  nAcked + Off(v, vtA) # x.low
    <3>1. CASE x = m
      <4>1. Received(nAcked + Off(v, vtA)) BY DEF Inv, ReleasedIsReceived
      <4>. QED BY <1>7, <1>14, <3>1, <4>1
    <3>2. CASE x # m BY <1>9, <3>2 DEF Inv, Gaps
    <3>. QED BY <3>1, <3>2
  <2>. QED BY <1>2, <2>2, <2>3, <2>4 DEF Gaps
<1>17. Shape' BY <1>2, <1>9 DEF Inv, Shape
<1>18. Windows' BY <1>2 DEF Inv, Windows
<1>19. Numbered' BY <1>2 DEF Inv, Numbered
<1>20. BuffersAgree' BY <1>2 DEF Inv, BuffersAgree
<1>21. ReleasedIsReceived' BY <1>2 DEF Inv, ReleasedIsReceived, Received
<1>22. Reception' BY <1>2 DEF Inv, Reception, RightPdus, NumberOf
<1>23. DataInAir' BY <1>2 DEF Inv, DataInAir
<1>. QED BY <1>15, <1>16, <1>17, <1>18, <1>19, <1>20, <1>21, <1>22, <1>23 DEF Inv

\* A STATUS PDU whose ACK_SN is in the transmitting window speaks about the
\* PDUs from VT(A) to its num, and moves VT(A) to the first PDU that was
\* missing when it was made, unless VT(A) is there already.
LEMMA StatusMeans ==
  ASSUME Inv, NEW m \in Messages(statusCh), InTransmittingWindow(m.ack)
  PROVE  LET n == IF m.low > nAcked THEN m.low ELSE nAcked IN
         /\ m.low \in Nat /\ m.num \in Nat /\ m.low <= m.num /\ m.low <= nRcvd
         /\ nAcked <= m.num /\ m.num <= nSent
         /\ Reported(m) = {v \in SNs : Off(v, vtA) < m.num - nAcked}
         /\ \A v \in Reported(m) :
              /\ NumberIn(m, v) = nAcked + Off(v, vtA)
              /\ v \in m.nacks => m.low <= nAcked + Off(v, vtA)
              /\ v \notin m.nacks /\ m.low <= nAcked + Off(v, vtA) => Acks(m, v)
              /\ nAcked + Off(v, vtA) = n => v \in m.nacks
         /\ NewVtA(m) \in SNs /\ Off(NewVtA(m), vtA) = n - nAcked
<1> DEFINE D == m.num - nAcked
           n == IF m.low > nAcked THEN m.low ELSE nAcked
<1>1. /\ m.ack \in SNs /\ m.low \in Nat /\ m.num \in Nat
      /\ vtA \in SNs /\ vtS \in SNs
      /\ nSent \in Nat /\ nAcked \in Nat /\ nRcvd \in Nat
      /\ nAcked <= nRcvd /\ nRcvd <= nSent /\ nSent <= nAcked + W
  <2>1. m \in StatusPdus BY DEF Messages, Inv, Shape
  <2>. QED BY <2>1, ReceptionFacts DEF StatusPdus
<1>2. /\ m.low <= nRcvd /\ m.low <= m.num /\ m.num <= m.low + W
      /\ m.num <= nSent /\ nSent <= m.num + W
      /\ Stands(m.ack, m.num, vtA, nAcked)
      /\ \A v \in m.nacks : Covers(m, v)
      /\ \A v \in SNs : Covers(m, v) /\ NumberIn(m, v) = m.low => v \in m.nacks
  BY DEF Inv, StatusInAir
<1>3. nAcked <= m.num /\ Off(m.ack, vtA) = D
  <2>1. Off(m.ack, vtA) < W BY DEF InTransmittingWindow
  <2>. QED BY <1>1, <1>2, <2>1, WIsPositive DEF Stands
<1>4. D \in Nat /\ D < 2 * W /\ D < W
  BY <1>1, <1>3, WIsPositive DEF InTransmittingWindow
<1>5. Off(vtS, vtA) = nSent - nAcked
  BY DEF Inv, Windows
<1>6. Reported(m) = {v \in SNs : Off(v, vtA) < D}
  <2>1. ASSUME NEW v \in SNs, Off(v, vtA) < D PROVE Off(v, vtA) < Off(vtS, vtA)
    <3>1. Off(v, vtA) \in Nat BY <1>1, OffRange
    <3>. QED BY <1>1, <1>2, <1>4, <1>5, <2>1, <3>1
  <2>. QED BY <1>3, <2>1 DEF Reported, Interval
<1>7. ASSUME NEW v \in Reported(m)
      PROVE  /\ v \in SNs /\ Off(v, vtA) \in Nat /\ Off(v, vtA) < D
             /\ NumberIn(m, v) = nAcked + Off(v, vtA)
             /\ v \in m.nacks => m.low <= nAcked + Off(v, vtA)
             /\ m.low <= nAcked + Off(v, vtA) => Covers(m, v)
  <2>1. v \in SNs /\ Off(v, vtA) < D BY <1>6
  <2>2. Off(v, vtA) \in Nat BY <1>1, <2>1, OffRange
  <2>3. Off(m.ack, v) = D - Off(v, vtA)
    BY <1>1, <1>3, <1>4, <2>1, <2>2, Rebase
  <2>4. NumberIn(m, v) = nAcked + Off(v, vtA)
    BY <1>1, <2>2, <2>3 DEF NumberIn
  <2>5. m.low <= nAcked + Off(v, vtA) => Covers(m, v)
    BY <1>1, <1>4, <2>1, <2>2, <2>3 DEF Covers
  <2>6. v \in m.nacks => m.low <= nAcked + Off(v, vtA)
    BY <1>1, <1>2, <1>4, <2>1, <2>2, <2>3 DEF Covers
  <2>. QED BY <2>1, <2>2, <2>4, <2>5, <2>6
<1>8. n \in Nat /\ nAcked <= n /\ m.low <= n /\ n <= m.num
  BY <1>1, <1>2, <1>3
<1>9. ASSUME NEW v \in Reported(m), nAcked + Off(v, vtA) = n
      PROVE  v \in m.nacks
  <2>1. /\ v \in SNs /\ Covers(m, v) /\ NumberIn(m, v) = n
    BY <1>1, <1>7, <1>8, <1>9
  <2>2. CASE m.low > nAcked BY <1>2, <2>1, <2>2
  <2>3. CASE ~(m.low > nAcked)
    BY <2>1, <2>3 DEF Acks, Inv, Gaps
  <2>. QED BY <2>2, <2>3
<1>10. NewVtA(m) \in SNs /\ Off(NewVtA(m), vtA) = n - nAcked
  <2> DEFINE stop == {v \in Reported(m) \cap m.nacks :
                        \A u \in Reported(m) \cap m.nacks : Off(v, vtA) <= Off(u, vtA)}
             f == Add(vtA, n - nAcked)
  <2>1. f \in SNs /\ Off(f, vtA) = n - nAcked
    <3>1. n - nAcked \in Nat /\ n - nAcked < 2 * W
      BY <1>1, <1>4, <1>8, WIsPositive
    <3>. QED BY <1>1, <3>1, AddRange
  <2>2. CASE n < m.num
    <3>1. f \in Reported(m) BY <1>1, <1>6, <1>8, <2>1, <2>2
    <3>2. f \in m.nacks BY <1>1, <1>8, <1>9, <2>1, <3>1
    <3>3. ASSUME NEW u \in Reported(m) \cap m.nacks
          PROVE  Off(f, vtA) <= Off(u, vtA)
      <4>1. Off(u, vtA) \in Nat /\ m.low <= nAcked + Off(u, vtA)
        BY <1>7
      <4>. QED BY <1>1, <2>1, <4>1
    <3>4. f \in stop BY <3>1, <3>2, <3>3
    <3>5. \A v \in stop : v = f
      <4>1. ASSUME NEW v \in stop PROVE v = f
        <5>1. v \in SNs /\ Off(v, vtA) \in Nat /\ Off(v, vtA) <= Off(f, vtA)
              /\ Off(f, vtA) <= Off(v, vtA)
          BY <1>7, <3>1, <3>2, <3>3
        <5>2. Off(f, vtA) \in Nat BY <1>1, <2>1, OffRange
        <5>3. Off(v, vtA) = Off(f, vtA) BY <5>1, <5>2
        <5>. QED BY <1>1, <2>1, <5>1, <5>3, OffInjective
      <4>. QED BY <4>1
    <3> HIDE DEF f, stop
    <3>6. NewVtA(m) = f
      BY <3>4, <3>5 DEF NewVtA, stop
    <3>. QED BY <2>1, <3>6
  <2>3. CASE n = m.num
    <3>1. Reported(m) \cap m.nacks = {}
      <4>1. ASSUME NEW v \in Reported(m) \cap m.nacks PROVE FALSE
        <5>1. /\ Off(v, vtA) \in Nat /\ Off(v, vtA) < D
              /\ m.low <= nAcked + Off(v, vtA)
          BY <1>7
        <5>2. nAcked < m.num BY <1>1, <1>4, <5>1
        <5>3. m.low = m.num BY <1>1, <2>3, <5>2
        <5>. QED BY <1>1, <5>1, <5>3
      <4>. QED BY <4>1
    <3>2. Off(m.ack, vtA) <= Off(vtS, vtA) BY <1>1, <1>2, <1>3, <1>5
    <3>3. NewVtA(m) = m.ack BY <3>1, <3>2 DEF NewVtA
    <3>. QED BY <1>1, <1>3, <2>3, <3>3
  <2>. QED BY <1>1, <1>8, <2>2, <2>3
<1>. QED BY <1>1, <1>2, <1>3, <1>6, <1>7, <1>9, <1>10 DEF Acks

LEMMA ReceiveStatusStep ==
  ASSUME Inv, NEW i \in DOMAIN statusCh, ReceiveStatus(i)
  PROVE  Inv'
<1> DEFINE m == statusCh[i]
           nacked == Reported(m) \cap m.nacks
           acked  == Reported(m) \ m.nacks
<1>1. /\ statusCh' \in Seq(StatusPdus)
      /\ Messages(statusCh') \subseteq Messages(statusCh)
      /\ m \in Messages(statusCh)
  <2>1. statusCh \in Seq(StatusPdus) BY DEF Inv, Shape
  <2>. QED BY <2>1, ChannelWithout DEF ReceiveStatus
<1>2. CASE ~InTransmittingWindow(m.ack)
  <2>1. UNCHANGED <<submitted, taken, vtA, vtS, pdu, txed, retx, retxSeg, vrR, vrX,
                    vrMs, vrH, rxon, reordering, nSent, nAcked, nRcvd, dataCh>>
    BY <1>2 DEF ReceiveStatus, senderVars, receiverVars
  <2>2. submitted' \in Nat /\ taken' \in Nat /\ dataCh' \in Seq(DataPdus)
    BY <2>1 DEF Inv, Shape
  <2>. QED BY <1>1, <2>1, <2>2, FewerMessages
<1>3. CASE InTransmittingWindow(m.ack)
  <2> DEFINE n == IF m.low > nAcked THEN m.low ELSE nAcked
             N == NewVtA(m)
  <2>1. /\ vtA' = N /\ nAcked' = nAcked + Off(N, vtA)
        /\ retx' = (retx \ acked) \cup (txed \cap nacked)
        /\ txed' = txed \ Reported(m)
        /\ retxSeg' = RestsWithout(acked)
        /\ UNCHANGED <<submitted, taken, vtS, pdu, nSent, vrR, vrX, vrMs, vrH,
                       rxon, reordering, nRcvd, dataCh>>
    BY <1>3 DEF ReceiveStatus, receiverVars
  <2>2. /\ vtA \in SNs /\ vtS \in SNs /\ vrR \in SNs
        /\ nSent \in Nat /\ nAcked \in Nat /\ nRcvd \in Nat
        /\ nAcked <= nRcvd /\ nRcvd <= nSent /\ nSent <= nAcked + W
        /\ Off(vtS, vtA) = nSent - nAcked /\ Off(vrR, vtA) = nRcvd - nAcked
    BY ReceptionFacts DEF Inv, Windows
  <2>3. /\ m.low \in Nat /\ m.num \in Nat /\ m.low <= m.num /\ m.low <= nRcvd
        /\ nAcked <= m.num /\ m.num <= nSent
        /\ Reported(m) = {v \in SNs : Off(v, vtA) < m.num - nAcked}
        /\ \A v \in Reported(m) :
             /\ NumberIn(m, v) = nAcked + Off(v, vtA)
             /\ v \in m.nacks => m.low <= nAcked + Off(v, vtA)
             /\ v \notin m.nacks /\ m.low <= nAcked + Off(v, vtA) => Acks(m, v)
             /\ nAcked + Off(v, vtA) = n => v \in m.nacks
        /\ N \in SNs /\ Off(N, vtA) = n - nAcked
    BY <1>1, <1>3, StatusMeans
  <2> HIDE DEF m, N
  <2>4. /\ n \in Nat /\ nAcked <= n /\ m.low <= n /\ n <= nRcvd /\ n <= m.num
        /\ n = nAcked \/ n = m.low
        /\ nAcked' = n
    BY <2>1, <2>2, <2>3
  <2>5. n = m.low \/ (n = nAcked /\ m.low < nAcked)
    BY <2>2, <2>3
  <2> HIDE DEF n
  \* Where the window begins now, in terms of where it began.
  <2>6. ASSUME NEW v \in SNs
        PROVE  /\ Off(v, vtA) \in Nat
               /\ Off(v, N) < Off(vtS, N) <=>
                    Off(v, vtA) < Off(vtS, vtA) /\ n <= nAcked + Off(v, vtA)
               /\ Off(v, N) < Off(vtS, N) => n + Off(v, N) = nAcked + Off(v, vtA)
    <3>1. Off(v, vtA) \in Nat /\ Off(v, vtA) < 2 * W BY <2>2, OffRange
    <3>2. Off(vtS, N) = nSent - n
      <4>1. Off(N, vtA) <= Off(vtS, vtA) BY <2>2, <2>3, <2>4
      <4>2. Off(vtS, N) = Off(vtS, vtA) - Off(N, vtA) BY <2>2, <2>3, <4>1, Rebase
      <4>. QED BY <2>2, <2>3, <2>4, <4>2
    <3>3. CASE Off(N, vtA) <= Off(v, vtA)
      <4>1. Off(v, N) = Off(v, vtA) - Off(N, vtA) BY <2>2, <2>3, <3>3, Rebase
      <4>. QED BY <2>2, <2>3, <2>4, <3>1, <3>2, <3>3, <4>1
    <3>4. CASE Off(v, vtA) < Off(N, vtA)
      <4>1. Off(v, N) = Off(v, vtA) - Off(N, vtA) + 2 * W
        BY <2>2, <2>3, <3>4, Rebase
      <4>2. Off(N, vtA) \in Nat /\ Off(N, vtA) <= W /\ nSent - n <= W
        BY <2>2, <2>3, <2>4, WIsPositive
      <4>3. ~(Off(v, N) < Off(vtS, N))
        BY <2>2, <2>4, <3>1, <3>2, <4>1, <4>2, WIsPositive
      <4>4. ~(n <= nAcked + Off(v, vtA))
        <5>1. n \in Nat /\ nAcked \in Nat /\ Off(N, vtA) = n - nAcked
          BY <2>2, <2>3, <2>4
        <5>. QED BY <3>1, <3>4, <5>1
      <4>. QED BY <3>1, <4>3, <4>4
    <3>5. Off(N, vtA) <= Off(v, vtA) \/ Off(v, vtA) < Off(N, vtA)
      BY <2>2, <2>3, <2>4, <3>1
    <3>. QED BY <3>1, <3>3, <3>4, <3>5
  <2>7. \A v \in SNs : v \in Interval(N, vtS) <=>
          v \in Interval(vtA, vtS) /\ n <= nAcked + Off(v, vtA)
    BY <2>6 DEF Interval
  <2>8. \A v \in Interval(N, vtS) :
          v \in Interval(vtA, vtS) /\ n + Off(v, N) = nAcked + Off(v, vtA)
    BY <2>6 DEF Interval
  <2>9. /\ txed' \cup retx' = (txed \cup retx) \ acked
        /\ txed' \cap retx' = {} /\ txed' \subseteq SNs /\ retx' \subseteq SNs
    BY <2>1 DEF Inv, Shape, BuffersAgree
  \* What the new window has left is acknowledged by this STATUS PDU or was
  \* before.
  <2>10. ASSUME NEW v \in acked, n <= nAcked + Off(v, vtA)
         PROVE  Acks(m, v) /\ NumberIn(m, v) = nAcked + Off(v, vtA)
    <3>1. v \in Reported(m) /\ v \in SNs /\ v \notin m.nacks BY <2>3
    <3>2. Off(v, vtA) \in Nat BY <2>6, <3>1
    <3>3. m.low <= nAcked + Off(v, vtA) BY <2>2, <2>3, <2>4, <2>10, <3>2
    <3>. QED BY <2>3, <3>1, <3>3
  <2>11. Shape'
    <3>1. retxSeg' \in [SNs -> Nat]
      BY <2>1 DEF RestsWithout, Inv, Shape
    <3>. QED BY <1>1, <2>1, <2>3, <2>4, <2>9, <3>1 DEF Inv, Shape
  <2>12. Windows'
    <3>1. Off(N, vtA) <= Off(vtS, vtA) /\ Off(N, vtA) <= Off(vrR, vtA)
      BY <2>2, <2>3, <2>4
    <3>2. Off(vtS, N) = Off(vtS, vtA) - Off(N, vtA) /\ Off(vrR, N) = Off(vrR, vtA) - Off(N, vtA)
      BY <2>2, <2>3, <3>1, Rebase
    <3>3. Off(vtS, N) = nSent - n /\ Off(vrR, N) = nRcvd - n
      BY <2>2, <2>3, <2>4, <3>2
    <3>. QED BY <2>1, <2>2, <2>4, <3>3, WIsPositive DEF Windows
  <2>13. Numbered'
    BY <2>1, <2>4, <2>8 DEF Inv, Numbered
  <2>14. BuffersAgree'
    <3>1. ASSUME N # vtS PROVE N \in (txed \cup retx) \ acked
      <4>1. nAcked + Off(N, vtA) = n BY <2>2, <2>3, <2>4
      <4>2. N \notin acked BY <2>3, <4>1
      <4>3. N \in Interval(vtA, vtS)
        <5>1. Off(N, vtA) # Off(vtS, vtA) BY <2>2, <2>3, <3>1, OffInjective
        <5>2. Off(N, vtA) < Off(vtS, vtA) BY <2>2, <2>3, <2>4, <5>1
        <5>. QED BY <2>3, <5>2 DEF Interval
      <4>4. N \in txed \cup retx
        <5>1. CASE n = m.low
          BY <1>1, <4>1, <4>3, <5>1 DEF Inv, Gaps
        <5>2. CASE n = nAcked
          <6>1. Off(N, vtA) = 0 BY <2>2, <2>3, <5>2
          <6>2. N = vtA BY <2>2, <2>3, <6>1, OffRange
          <6>. QED BY <3>1, <6>2 DEF Inv, BuffersAgree
        <5>. QED BY <2>4, <5>1, <5>2
      <4>. QED BY <4>2, <4>4
    <3>2. ASSUME NEW v \in (txed \cup retx) \ acked PROVE v \in Interval(N, vtS)
      <4>1. v \in Interval(vtA, vtS) /\ v \in SNs
        BY DEF Inv, BuffersAgree, Interval
      <4>2. n <= nAcked + Off(v, vtA)
        <5>1. ASSUME nAcked + Off(v, vtA) < n PROVE FALSE
          <6>1. Off(v, vtA) \in Nat BY <2>6, <4>1
          <6>2. v \in Reported(m) BY <2>2, <2>3, <2>4, <4>1, <5>1, <6>1
          <6>3. n = m.low BY <2>2, <2>4, <5>1, <6>1
          <6>4. v \notin m.nacks BY <2>2, <2>3, <5>1, <6>1, <6>2, <6>3
          <6>. QED BY <6>2, <6>4
        <5>2. Off(v, vtA) \in Nat BY <2>6, <4>1
        <5>. QED BY <2>2, <2>4, <5>1, <5>2
      <4>. QED BY <2>7, <4>1, <4>2
    <3>3. ASSUME NEW v \in SNs, retxSeg'[v] > 0 PROVE v \in retx'
      <4>1. retxSeg[v] > 0 /\ ~(v \in acked \cap retx)
        BY <2>1, <3>3 DEF RestsWithout
      <4>. QED BY <2>1, <4>1 DEF Inv, BuffersAgree
    <3>. QED BY <2>1, <2>9, <3>1, <3>2, <3>3 DEF BuffersAgree
  <2>15. ReleasedIsReceived'
    <3>1. ASSUME NEW v \in Interval(N, vtS), v \notin (txed \cup retx) \ acked
          PROVE  Received(n + Off(v, N))
      <4>1. /\ v \in Interval(vtA, vtS) /\ n + Off(v, N) = nAcked + Off(v, vtA)
            /\ v \in SNs /\ n <= nAcked + Off(v, vtA)
        BY <2>7, <2>8 DEF Interval
      <4>2. CASE v \in acked
        <5>1. Acks(m, v) /\ NumberIn(m, v) = nAcked + Off(v, vtA)
          BY <2>10, <4>1, <4>2
        <5>. QED BY <1>1, <4>1, <5>1 DEF Inv, StatusInAir
      <4>3. CASE v \notin txed \cup retx
        BY <4>1, <4>3 DEF Inv, ReleasedIsReceived
      <4>. QED BY <3>1, <4>2, <4>3
    <3>. QED BY <2>1, <2>4, <2>9, <3>1 DEF ReleasedIsReceived, Received
  <2>16. Reception'
    BY <2>1 DEF Inv, Reception, RightPdus, NumberOf
  <2>17. DataInAir'
    <3>1. ASSUME NEW d \in Messages(dataCh)
          PROVE  Stands(d.sn, d.pdu.num, N, n)
      <4>1. d \in DataPdus BY DEF Messages, Inv, Shape
      <4>2. /\ d.sn \in SNs /\ d.pdu.num \in Nat
            /\ d.pdu.num < nSent /\ nSent <= d.pdu.num + W
            /\ Stands(d.sn, d.pdu.num, vtA, nAcked)
        BY <4>1 DEF DataPdus, Inv, DataInAir
      <4>3. /\ d.pdu.num < n + 2 * W /\ n < d.pdu.num + 2 * W
            /\ d.pdu.num < nAcked + 2 * W /\ nAcked < d.pdu.num + 2 * W
        BY <2>2, <2>4, <4>2, WIsPositive
      <4>. QED BY <2>2, <2>3, <2>4, <4>2, <4>3, StandsRebased
    <3>. QED BY <2>1, <2>4, <3>1 DEF Inv, DataInAir
  <2>18. StatusInAir'
    <3>1. ASSUME NEW d \in Messages(statusCh)
          PROVE  Stands(d.ack, d.num, N, n)
      <4>1. d \in StatusPdus BY DEF Messages, Inv, Shape
      <4>2. /\ d.ack \in SNs /\ d.num \in Nat
            /\ d.num <= nSent /\ nSent <= d.num + W
            /\ Stands(d.ack, d.num, vtA, nAcked)
        BY <4>1 DEF StatusPdus, Inv, StatusInAir
      <4>3. /\ d.num < n + 2 * W /\ n < d.num + 2 * W
            /\ d.num < nAcked + 2 * W /\ nAcked < d.num + 2 * W
        BY <2>2, <2>4, <4>2, WIsPositive
      <4>. QED BY <2>2, <2>3, <2>4, <4>2, <4>3, StandsRebased
    <3>. QED BY <1>1, <2>1, <2>4, <3>1 DEF Inv, StatusInAir, Received
  <2>19. Gaps'
    <3>1. ASSUME NEW x \in Messages(statusCh'), NEW v \in SNs,
                 Acks(x, v), NumberIn(x, v) = n
          PROVE  x.low > n
      <4>1. CASE n = m.low BY <1>1, <3>1, <4>1 DEF Inv, Gaps
      <4>2. CASE n = nAcked BY <1>1, <3>1, <4>2 DEF Inv, Gaps
      <4>. QED BY <2>4, <4>1, <4>2
    <3>2. ASSUME NEW x \in Messages(statusCh'), NEW v \in Interval(N, vtS),
                 v \notin (txed \cup retx) \ acked
          PROVE  n + Off(v, N) # x.low
      <4>1. /\ v \in Interval(vtA, vtS) /\ n + Off(v, N) = nAcked + Off(v, vtA)
            /\ v \in SNs /\ n <= nAcked + Off(v, vtA)
        BY <2>7, <2>8 DEF Interval
      <4>2. CASE v \in acked
        <5>1. Acks(m, v) /\ NumberIn(m, v) = nAcked + Off(v, vtA)
          BY <2>10, <4>1, <4>2
        <5>. QED BY <1>1, <4>1, <5>1 DEF Inv, Gaps
      <4>3. CASE v \notin txed \cup retx
        BY <1>1, <4>1, <4>3 DEF Inv, Gaps
      <4>. QED BY <3>2, <4>2, <4>3
    <3>3. \A x, k \in Messages(statusCh'), v \in SNs :
            Acks(x, v) => NumberIn(x, v) # k.low
      BY <1>1 DEF Inv, Gaps
    <3>. QED BY <2>1, <2>4, <2>9, <3>1, <3>2, <3>3 DEF Gaps
  <2>. QED BY <2>11, <2>12, <2>13, <2>14, <2>15, <2>16, <2>17, <2>18, <2>19 DEF Inv
<1>. QED BY <1>2, <1>3

-----------------------------------------------------------------------------
(***************************************************************************)
(* Receiving data.                                                         *)
(***************************************************************************)
\* A PDU in the receiving window has the number its sequence number stands
\* for there.
LEMMA DataMeans ==
  ASSUME Inv, NEW m \in Messages(dataCh), InReceivingWindow(m.sn, vrR)
  PROVE  /\ m \in DataPdus
         /\ m.pdu.num = nRcvd + Off(m.sn, vrR)
         /\ Off(m.sn, vrR) \in Nat /\ Off(m.sn, vrR) < nSent - nRcvd
<1>1. m \in DataPdus BY DEF Messages, Inv, Shape
<1>2. m.sn \in SNs /\ m.pdu.num \in Nat BY <1>1 DEF DataPdus
<1>3. /\ m.pdu.num < nSent /\ nSent <= m.pdu.num + W
      /\ Stands(m.sn, m.pdu.num, vtA, nAcked)
  BY DEF Inv, DataInAir
<1>4. /\ vtA \in SNs /\ vrR \in SNs
      /\ nSent \in Nat /\ nAcked \in Nat /\ nRcvd \in Nat
      /\ nAcked <= nRcvd /\ nRcvd <= nSent /\ nSent <= nAcked + W
      /\ Off(vrR, vtA) = nRcvd - nAcked
  BY ReceptionFacts DEF Inv, Windows
<1>5. /\ m.pdu.num < nRcvd + 2 * W /\ nRcvd < m.pdu.num + 2 * W
      /\ m.pdu.num < nAcked + 2 * W /\ nAcked < m.pdu.num + 2 * W
  BY <1>2, <1>3, <1>4, WIsPositive
<1>6. Stands(m.sn, m.pdu.num, vrR, nRcvd)
  BY <1>2, <1>3, <1>4, <1>5, StandsRebased
<1>7. Off(m.sn, vrR) \in Nat /\ Off(m.sn, vrR) < W
  BY <1>2, <1>4, OffRange DEF InReceivingWindow
<1>8. nRcvd <= m.pdu.num
  <2>1. ASSUME m.pdu.num < nRcvd PROVE FALSE
    <3>1. Off(m.sn, vrR) = m.pdu.num - nRcvd + 2 * W
      BY <1>2, <1>4, <1>6, <2>1 DEF Stands
    <3>. QED BY <1>2, <1>3, <1>4, <1>7, <3>1, WIsPositive
  <2>. QED BY <1>2, <1>4, <2>1
<1>9. Off(m.sn, vrR) = m.pdu.num - nRcvd
  BY <1>2, <1>4, <1>6, <1>8 DEF Stands
<1>. QED BY <1>1, <1>2, <1>3, <1>4, <1>7, <1>9

\* Placing a PDU keeps what was complete, and an entry it leaves or makes is
\* one for this PDU.
LEMMA PlacedEntry ==
  ASSUME NEW m \in DataPdus, NEW e \in Entries
  PROVE  /\ Placed(m, e) \in Entries
         /\ e.complete => Placed(m, e).complete
         /\ Placed(m, e) # NoEntry =>
              Placed(m, e).pdu = m.pdu \/ (e # NoEntry /\ Placed(m, e).pdu = e.pdu)
<1>1. /\ m.pdu \in PduRecs /\ m.from \in Nat /\ m.to \in Nat
      /\ m.seg \in BOOLEAN /\ m.last \in BOOLEAN
  BY DEF DataPdus, PduRecs
<1>2. Units(m.pdu.lo + m.from, m.pdu.lo + m.to) \in Seq(Nat)
  <2> DEFINE k == (m.pdu.lo + m.to) - (m.pdu.lo + m.from)
             l == m.pdu.lo + m.from
             u == [j \in 1 .. k |-> l + j]
  <2>1. k \in Int /\ l \in Nat BY <1>1 DEF PduRecs
  <2> HIDE DEF k, l
  <2>2. u \in Seq(Nat)
    <3>1. CASE k \in Nat
      <4>1. u \in [1 .. k -> Nat] BY <2>1, <3>1
      <4>. QED BY <3>1, <4>1
    <3>2. CASE k \notin Nat
      <4>1. 1 .. k = 1 .. 0 BY <2>1, <3>2
      <4>2. u \in [1 .. k -> Nat] BY <2>1, <3>2
      <4> HIDE DEF u
      <4>3. u \in [1 .. 0 -> Nat] BY <4>1, <4>2
      <4>. QED BY <4>3
    <3>. QED BY <3>1, <3>2
  <2>. QED BY <2>2 DEF Units, k, l
<1> DEFINE payload == Units(m.pdu.lo + m.from, m.pdu.lo + m.to)
<1>3. NoEntry \in Entries /\ ~NoEntry.complete
  BY DEF NoPdu, NoEntry, PduRecs, Entries
<1>4. /\ e.pdu \in PduRecs /\ e.seg \in BOOLEAN /\ e.data \in Seq(Nat)
      /\ e.complete \in BOOLEAN
  BY DEF Entries
<1>5. CASE e = NoEntry /\ m.from = 0
  <2>1. Placed(m, e) = [pdu |-> m.pdu, seg |-> m.seg, data |-> payload,
                        complete |-> ~m.seg]
    BY <1>5 DEF Placed
  <2>. QED BY <1>1, <1>2, <1>3, <1>5, <2>1 DEF Entries
<1>6. CASE e = NoEntry /\ m.from # 0
  <2>1. Placed(m, e) = NoEntry BY <1>6 DEF Placed
  <2>. QED BY <1>3, <1>6, <2>1
<1>7. CASE e # NoEntry /\ Continues(m, e)
  <2> DEFINE data == e.data \o payload
             all  == e.complete \/ m.last
  <2>1. Placed(m, e) = [e EXCEPT !.data = data, !.complete = all]
    BY <1>7 DEF Placed
  <2>2. data \in Seq(Nat) BY <1>2, <1>4
  <2>3. all \in BOOLEAN /\ (e.complete => all) BY <1>1, <1>4
  <2> HIDE DEF payload, data, all
  <2>4. Placed(m, e) = [pdu |-> e.pdu, seg |-> e.seg, data |-> data, complete |-> all]
    BY <2>1 DEF Entries
  <2>. QED BY <1>4, <1>7, <2>2, <2>3, <2>4 DEF Entries
<1>8. CASE e # NoEntry /\ ~Continues(m, e)
  <2>1. Placed(m, e) = IF e.complete THEN e ELSE NoEntry BY <1>8 DEF Placed
  <2>. QED BY <1>3, <1>8, <2>1
<1>. QED BY <1>5, <1>6, <1>7, <1>8

LEMMA ReceiveDataStep ==
  ASSUME Inv, NEW i \in DOMAIN dataCh, ReceiveData(i)
  PROVE  /\ Inv'
         /\ nRcvd + Off(vrMs, vrR) <= nRcvd' + Off(vrMs', vrR')
         /\ \A num \in Nat : Received(num) => Received(num)'
<1> DEFINE m  == dataCh[i]
           rx == [rxon EXCEPT ![m.sn] = Placed(m, @)]
           h  == IF Off(m.sn, vrR) >= Off(vrH, vrR) THEN Add(m.sn, 1) ELSE vrH
           ms == Add(vrMs, CompleteFrom(rx, vrMs))
           n  == IF m.sn = vrR THEN CompleteFrom(rx, vrR) ELSE 0
           r  == Add(vrR, n)
           runs == /\ reordering /\ vrX # r
                   /\ InReceivingWindow(vrX, r) \/ vrX = Add(r, W)
<1>1. /\ dataCh' \in Seq(DataPdus)
      /\ Messages(dataCh') \subseteq Messages(dataCh)
      /\ m \in Messages(dataCh)
  <2>1. dataCh \in Seq(DataPdus) BY DEF Inv, Shape
  <2>. QED BY <2>1, ChannelWithout DEF ReceiveData
<1>2. /\ vtA \in SNs /\ vtS \in SNs
      /\ vrR \in SNs /\ vrX \in SNs /\ vrMs \in SNs /\ vrH \in SNs
      /\ nSent \in Nat /\ nAcked \in Nat /\ nRcvd \in Nat
      /\ rxon \in [SNs -> Entries]
      /\ nAcked <= nRcvd /\ nRcvd <= nSent /\ nSent <= nAcked + W
      /\ Off(vrMs, vrR) \in Nat /\ Off(vrH, vrR) \in Nat
      /\ Off(vrMs, vrR) <= Off(vrH, vrR) /\ Off(vrH, vrR) <= nSent - nRcvd
      /\ Off(vrH, vrR) <= W
      /\ ~rxon[vrR].complete
  BY ReceptionFacts
<1>3. CASE ~InReceivingWindow(m.sn, vrR)
  <2>1. UNCHANGED <<submitted, taken, vtA, vtS, pdu, txed, retx, retxSeg, vrR, vrX,
                    vrMs, vrH, rxon, reordering, nSent, nAcked, nRcvd, statusCh>>
    BY <1>3 DEF ReceiveData, senderVars
  <2>2. submitted' \in Nat /\ taken' \in Nat /\ statusCh' \in Seq(StatusPdus)
    BY <2>1 DEF Inv, Shape
  <2>3. \A num \in Nat : Received(num) => Received(num)'
    BY <2>1 DEF Received
  <2>4. Inv' BY <1>1, <2>1, <2>2, FewerMessages
  <2>. QED BY <1>2, <2>1, <2>3, <2>4
<1>4. CASE InReceivingWindow(m.sn, vrR)
  <2>1. /\ vrH' = h /\ vrMs' = ms /\ vrR' = r /\ nRcvd' = nRcvd + n
        /\ rxon' = [v \in SNs |-> IF Off(v, vrR) < n THEN NoEntry ELSE rx[v]]
        /\ reordering' = (runs \/ h # r)
        /\ vrX' = IF ~runs /\ h # r THEN h ELSE vrX
        /\ UNCHANGED <<submitted, taken, vtA, vtS, pdu, txed, retx, retxSeg,
                       nSent, nAcked, statusCh>>
    BY <1>4 DEF ReceiveData, senderVars
  <2>2. /\ m \in DataPdus /\ m.sn \in SNs
        /\ m.pdu.num = nRcvd + Off(m.sn, vrR)
        /\ Off(m.sn, vrR) \in Nat /\ Off(m.sn, vrR) < nSent - nRcvd
    BY <1>1, <1>4, DataMeans DEF DataPdus
  <2> HIDE DEF m
  \* The buffer with the PDU in it.
  <2>3. /\ rx \in [SNs -> Entries]
        /\ \A v \in SNs : rxon[v].complete => rx[v].complete
        /\ \A v \in SNs : v # m.sn => rx[v] = rxon[v]
        /\ rx[m.sn] # NoEntry =>
             \/ rx[m.sn].pdu = m.pdu
             \/ rxon[m.sn] # NoEntry /\ rx[m.sn].pdu = rxon[m.sn].pdu
    <3>1. rxon[m.sn] \in Entries BY <1>2, <2>2
    <3>2. rx[m.sn] = Placed(m, rxon[m.sn]) BY <1>2, <2>2
    <3>. QED BY <1>2, <2>2, <3>1, <3>2, PlacedEntry
  <2> HIDE DEF rx
  <2>4. /\ h \in SNs /\ Off(h, vrR) \in Nat /\ Off(h, vrR) <= nSent - nRcvd
        /\ Off(vrH, vrR) <= Off(h, vrR) /\ Off(m.sn, vrR) < Off(h, vrR)
        /\ Off(h, vrR) <= W
    <3>1. nSent - nRcvd <= W BY <1>2, WIsPositive
    <3>2. CASE Off(m.sn, vrR) >= Off(vrH, vrR)
      <4>1. h = Add(m.sn, 1) BY <3>2
      <4>2. h \in SNs /\ Off(h, m.sn) = 1 BY <2>2, <4>1, AddRange, WIsPositive
      <4>3. Off(h, m.sn) + Off(m.sn, vrR) < 2 * W
        BY <1>2, <2>2, <3>1, <4>2, WIsPositive
      <4>4. Off(h, vrR) = Off(m.sn, vrR) + 1
        BY <1>2, <2>2, <4>2, <4>3, Chain
      <4>. QED BY <1>2, <2>2, <3>1, <3>2, <4>2, <4>4, WIsPositive
    <3>3. CASE ~(Off(m.sn, vrR) >= Off(vrH, vrR))
      <4>1. h = vrH BY <3>3
      <4>. QED BY <1>2, <2>2, <3>3, <4>1
    <3>. QED BY <3>2, <3>3
  <2> HIDE DEF h
  <2>5. ASSUME NEW v \in SNs, rx[v] # NoEntry
        PROVE  /\ Off(v, vrR) < Off(h, vrR)
               /\ rx[v].pdu.num = nRcvd + Off(v, vrR)
    <3>1. Off(v, vrR) \in Nat BY <1>2, OffRange
    <3>2. ASSUME rxon[v] # NoEntry
          PROVE  /\ Off(v, vrR) < Off(vrH, vrR)
                 /\ rxon[v].pdu.num = nRcvd + Off(v, vrR)
      BY <3>2 DEF Inv, Reception, RightPdus, NumberOf
    <3>3. CASE v = m.sn BY <1>2, <2>2, <2>3, <2>4, <2>5, <3>1, <3>2, <3>3
    <3>4. CASE v # m.sn BY <1>2, <2>3, <2>4, <2>5, <3>1, <3>2, <3>4
    <3>. QED BY <3>3, <3>4
  <2>6. ~rx[h].complete /\ Off(vrMs, vrR) <= Off(h, vrR)
    <3>1. rx[h] = NoEntry BY <2>4, <2>5
    <3>2. ~NoEntry.complete BY DEF NoEntry
    <3>. QED BY <1>2, <2>4, <3>1, <3>2
  <2>7. /\ ms \in SNs /\ ~rx[ms].complete
        /\ Off(vrMs, vrR) <= Off(ms, vrR) /\ Off(ms, vrR) <= Off(h, vrR)
        /\ Off(ms, vrR) \in Nat
        /\ \A u \in SNs : Off(vrMs, vrR) <= Off(u, vrR) /\ Off(u, vrR) < Off(ms, vrR)
                            => rx[u].complete
    BY <1>2, <2>3, <2>4, <2>6, SearchStops, OffRange
  <2> HIDE DEF ms
  \* How far VR(R) moves.
  <2>8. /\ n \in Nat /\ n <= Off(h, vrR) /\ r \in SNs /\ Off(r, vrR) = n
        /\ ~rx[r].complete
        /\ \A u \in SNs : Off(u, vrR) < n => rx[u].complete
    <3>1. CASE m.sn = vrR
      <4>1. n = CompleteFrom(rx, vrR) BY <3>1
      <4>2. /\ n \in Nat /\ n <= Off(h, vrR) /\ ~rx[r].complete
            /\ \A u \in SNs : Off(u, vrR) < n => rx[u].complete
        BY <1>2, <2>3, <2>4, <2>6, <4>1, CompleteFromStops
      <4> HIDE DEF n
      <4>3. n < 2 * W BY <2>4, <4>2, WIsPositive
      <4>. QED BY <1>2, <4>2, <4>3, AddRange
    <3>2. CASE m.sn # vrR
      <4>1. n = 0 /\ r = vrR BY <1>2, <3>2, AddRange, WIsPositive
      <4>2. Off(vrR, vrR) = 0 BY <1>2, OffRange
      <4>3. \A u \in SNs : ~(Off(u, vrR) < 0) BY <1>2, OffRange
      <4>4. rx[vrR] = rxon[vrR] BY <1>2, <2>3, <3>2
      <4>. QED BY <1>2, <2>4, <4>1, <4>2, <4>3, <4>4
    <3>. QED BY <3>1, <3>2
  <2> HIDE DEF n, r
  <2>9. n <= Off(ms, vrR) /\ n <= W
    BY <2>4, <2>7, <2>8, WIsPositive
  \* Distances from the new VR(R).
  <2>10. ASSUME NEW v \in SNs
         PROVE  /\ Off(v, vrR) \in Nat
                /\ n <= Off(v, vrR) => Off(v, r) = Off(v, vrR) - n
                /\ Off(v, vrR) < n => Off(v, r) = Off(v, vrR) - n + 2 * W
    BY <1>2, <2>8, Rebase, OffRange
  <2>11. /\ Off(h, r) = Off(h, vrR) - n /\ Off(ms, r) = Off(ms, vrR) - n
    BY <2>4, <2>7, <2>8, <2>9, <2>10
  <2>12. ASSUME NEW v \in SNs
         PROVE  /\ rxon'[v] = IF Off(v, vrR) < n THEN NoEntry ELSE rx[v]
                /\ rxon'[v] \in Entries
    <3>1. NoEntry \in Entries BY DEF NoPdu, NoEntry, PduRecs, Entries
    <3>. QED BY <2>1, <2>3, <3>1
  <2>13. ~NoEntry.complete BY DEF NoEntry
  \* The reordering timer, when it goes on running, still guards a gap.
  <2>14. ASSUME runs
         PROVE  /\ vrX # r /\ n <= Off(vrX, vrR) /\ Off(vrX, vrR) <= Off(vrH, vrR)
                /\ \A v \in SNs : Off(vrX, vrR) <= Off(v, vrR)
                                  /\ Off(v, vrR) < Off(vrMs, vrR) => rxon[v].complete
    <3>1. /\ vrX # vrR /\ Off(vrX, vrR) <= Off(vrH, vrR)
          /\ \A v \in SNs : Off(vrX, vrR) <= Off(v, vrR)
                            /\ Off(v, vrR) < Off(vrMs, vrR) => rxon[v].complete
      BY <2>14 DEF Inv, Reception
    <3>2. Off(vrX, vrR) # 0 BY <1>2, <3>1, OffRange
    <3>3. ASSUME Off(vrX, vrR) < n PROVE FALSE
      <4>1. Off(vrX, vrR) \in Nat /\ Off(vrX, r) = Off(vrX, vrR) - n + 2 * W
        BY <1>2, <2>10, <3>3
      <4>2. Off(vrX, r) > W BY <2>8, <2>9, <3>2, <4>1, WIsPositive
      <4>3. Off(vrX, r) < W \/ Off(vrX, r) = W
        <5>1. CASE InReceivingWindow(vrX, r) BY <5>1 DEF InReceivingWindow
        <5>2. CASE vrX = Add(r, W) BY <2>8, <5>2, AddRange, WIsPositive
        <5>. QED BY <2>14, <5>1, <5>2
      <4>4. Off(vrX, r) \in Nat BY <1>2, <2>8, OffRange
      <4>. QED BY <4>2, <4>3, <4>4, WIsPositive
    <3>4. Off(vrX, vrR) \in Nat BY <1>2, OffRange
    <3>. QED BY <2>8, <2>14, <3>1, <3>3, <3>4
  <2>15. Reception'
    <3>1. \A v \in SNs : rxon'[v] # NoEntry =>
            /\ Off(v, r) < Off(h, r) /\ Off(v, r) < W
            /\ rxon'[v].pdu.num = nRcvd' + Off(v, r)
      <4>1. ASSUME NEW v \in SNs, rxon'[v] # NoEntry
            PROVE  /\ Off(v, r) < Off(h, r) /\ Off(v, r) < W
                   /\ rxon'[v].pdu.num = nRcvd' + Off(v, r)
        <5>1. n <= Off(v, vrR) /\ rxon'[v] = rx[v]
          BY <2>8, <2>10, <2>12, <4>1
        <5>2. /\ Off(v, vrR) < Off(h, vrR)
              /\ rx[v].pdu.num = nRcvd + Off(v, vrR)
          BY <2>5, <4>1, <5>1
        <5>3. Off(v, r) = Off(v, vrR) - n /\ Off(v, vrR) \in Nat
          BY <2>10, <5>1
        <5>. QED BY <1>2, <2>1, <2>4, <2>8, <2>11, <5>1, <5>2, <5>3, WIsPositive
      <4>. QED BY <4>1
    <3>2. /\ Off(ms, r) <= Off(h, r) /\ Off(h, r) <= nSent - nRcvd'
      BY <1>2, <2>1, <2>4, <2>7, <2>8, <2>11
    <3>3. ~rxon'[r].complete /\ ~rxon'[ms].complete
      BY <2>7, <2>8, <2>12, <2>13
    <3>4. ASSUME reordering'
          PROVE  /\ vrX' # r /\ Off(vrX', r) <= Off(h, r)
                 /\ \A v \in SNs : Off(vrX', r) <= Off(v, r) /\ Off(v, r) < Off(ms, r)
                                     => rxon'[v].complete
      <4>1. CASE runs
        <5>1. vrX' = vrX /\ Off(vrX, r) = Off(vrX, vrR) - n
          BY <1>2, <2>1, <2>10, <2>14, <4>1
        <5>2. Off(vrX, vrR) \in Nat BY <1>2, OffRange
        <5>3. Off(vrX, r) <= Off(h, r)
          BY <1>2, <2>4, <2>8, <2>11, <2>14, <4>1, <5>1, <5>2
        <5>4. ASSUME NEW v \in SNs, Off(vrX, r) <= Off(v, r), Off(v, r) < Off(ms, r)
              PROVE  rxon'[v].complete
          <6>1. Off(v, vrR) \in Nat BY <2>10
          <6>2. n <= Off(v, vrR)
            <7>1. ASSUME Off(v, vrR) < n PROVE FALSE
              <8>1. Off(v, r) = Off(v, vrR) - n + 2 * W BY <2>10, <7>1
              <8>. QED BY <2>4, <2>7, <2>8, <2>9, <2>11, <5>4, <6>1, <8>1, WIsPositive
            <7>. QED BY <2>8, <6>1, <7>1
          <6>3. Off(v, r) = Off(v, vrR) - n BY <2>10, <6>2
          <6>4. Off(vrX, vrR) <= Off(v, vrR) /\ Off(v, vrR) < Off(ms, vrR)
            BY <2>7, <2>8, <2>11, <5>1, <5>2, <5>4, <6>1, <6>3
          <6>5. rx[v].complete
            <7>1. CASE Off(v, vrR) < Off(vrMs, vrR)
              BY <2>3, <2>14, <4>1, <6>4, <7>1
            <7>2. CASE ~(Off(v, vrR) < Off(vrMs, vrR))
              BY <1>2, <2>7, <6>1, <6>4, <7>2
            <7>. QED BY <7>1, <7>2
          <6>. QED BY <2>8, <2>12, <6>1, <6>2, <6>5
        <5>. QED BY <2>14, <4>1, <5>1, <5>3, <5>4
      <4>2. CASE ~runs
        <5>1. vrX' = h /\ h # r BY <2>1, <3>4, <4>2
        <5>2. \A v \in SNs : Off(v, r) \in Nat BY <2>8, OffRange
        <5>. QED BY <2>4, <2>7, <3>2, <5>1, <5>2
      <4>. QED BY <4>1, <4>2
    <3> HIDE DEF runs
    <3>. QED BY <2>1, <3>1, <3>2, <3>3, <3>4
         DEF Reception, RightPdus, NumberOf, InReceivingWindow
  <2>16. Windows'
    <3>1. Off(vrR, vtA) = nRcvd - nAcked BY DEF Inv, Windows
    <3>2. Off(r, vrR) + Off(vrR, vtA) < 2 * W
      BY <1>2, <2>4, <2>8, <3>1, WIsPositive
    <3>3. Off(r, vtA) = Off(r, vrR) + Off(vrR, vtA)
      BY <1>2, <2>8, <3>2, Chain
    <3>. QED BY <1>2, <2>1, <2>4, <2>8, <3>1, <3>3, WIsPositive DEF Inv, Windows
  \* What was received stays received.
  <2>17. ASSUME NEW num \in Nat, Received(num) PROVE Received(num)'
    <3>1. CASE num < nRcvd + n BY <2>1, <3>1 DEF Received
    <3>2. CASE ~(num < nRcvd + n)
      <4> DEFINE v == Add(vrR, num - nRcvd)
      <4>1. num - nRcvd \in Nat /\ num - nRcvd < W /\ rxon[v].complete
        BY <1>2, <2>8, <2>17, <3>2 DEF Received
      <4>2. v \in SNs /\ Off(v, vrR) = num - nRcvd
        BY <1>2, <4>1, AddRange, WIsPositive
      <4> HIDE DEF v
      <4>3. n <= Off(v, vrR) /\ Off(v, r) = num - nRcvd'
        BY <1>2, <2>1, <2>8, <2>10, <3>2, <4>2
      <4>4. Add(r, num - nRcvd') = v BY <2>8, <4>2, <4>3, AddOff
      <4>5. rxon'[v].complete
        BY <2>3, <2>8, <2>10, <2>12, <4>1, <4>2, <4>3
      <4>6. num - nRcvd' < W BY <1>2, <2>1, <2>8, <4>1, WIsPositive
      <4>. QED BY <2>1, <4>4, <4>5, <4>6 DEF Received
    <3>. QED BY <3>1, <3>2
  <2>18. Shape'
    <3>1. rxon' \in [SNs -> Entries] BY <2>1, <2>12
    <3>2. vrX' \in SNs BY <1>2, <2>1, <2>4
    <3>3. reordering' \in BOOLEAN BY <2>1
    <3>4. nRcvd' \in Nat BY <1>2, <2>1, <2>8
    <3>. QED BY <1>1, <2>1, <2>4, <2>7, <2>8, <3>1, <3>2, <3>3, <3>4 DEF Inv, Shape
  <2>19. Numbered' BY <2>1 DEF Inv, Numbered
  <2>20. BuffersAgree' BY <2>1 DEF Inv, BuffersAgree
  <2>21. ReleasedIsReceived'
    <3>1. ASSUME NEW v \in Interval(vtA, vtS) \ (txed \cup retx)
          PROVE  Received(nAcked + Off(v, vtA))'
      <4>1. nAcked + Off(v, vtA) \in Nat BY <1>2, OffRange DEF Interval
      <4>2. Received(nAcked + Off(v, vtA)) BY DEF Inv, ReleasedIsReceived
      <4>. QED BY <2>1, <2>17, <4>1, <4>2
    <3>2. nAcked' <= nRcvd' BY <1>2, <2>1, <2>8
    <3>. QED BY <2>1, <3>1, <3>2 DEF ReleasedIsReceived
  <2>22. DataInAir' BY <1>1, <2>1 DEF Inv, DataInAir
  <2>23. StatusInAir'
    <3>1. ASSUME NEW x \in Messages(statusCh)
          PROVE  x.low <= nRcvd' /\ \A v \in SNs : Acks(x, v) => Received(NumberIn(x, v))'
      <4>1. x \in StatusPdus BY DEF Messages, Inv, Shape
      <4>2. x.low \in Nat /\ x.num \in Nat /\ x.ack \in SNs /\ x.low <= nRcvd
        BY <4>1 DEF StatusPdus, Inv, StatusInAir
      <4>3. ASSUME NEW v \in SNs, Acks(x, v) PROVE Received(NumberIn(x, v))'
        <5>1. Received(NumberIn(x, v)) BY <4>3 DEF Inv, StatusInAir
        <5>2. NumberIn(x, v) \in Nat
          BY <4>2, <4>3, OffRange DEF Acks, Covers, NumberIn
        <5>3. NumberIn(x, v) \in Nat /\ Received(NumberIn(x, v)) BY <5>1, <5>2
        <5>. QED BY <2>17, <5>3
      <4>. QED BY <1>2, <2>1, <2>8, <4>2, <4>3
    <3>. QED BY <2>1, <3>1 DEF Inv, StatusInAir
  <2>24. Gaps' BY <2>1 DEF Inv, Gaps
  <2>25. nRcvd + Off(vrMs, vrR) <= nRcvd' + Off(vrMs', vrR')
    BY <1>2, <2>1, <2>7, <2>8, <2>11
  <2>26. \A num \in Nat : Received(num) => Received(num)' BY <2>17
  <2>27. Inv'
    BY <2>15, <2>16, <2>18, <2>19, <2>20, <2>21, <2>22, <2>23, <2>24 DEF Inv
  <2>. QED BY <2>25, <2>26, <2>27
<1>. QED BY <1>3, <1>4

-----------------------------------------------------------------------------
(***************************************************************************)
(* The theorems.                                                           *)
(***************************************************************************)
LEMMA Preserved ==
  ASSUME Inv, [Next]_vars
  PROVE  Inv'
<1>1. CASE TransmitPdcpPdu \/ ExpireStatusProhibitTimer \/ UNCHANGED vars
  BY <1>1, QuietStep
<1>2. CASE \E n \in 1 .. MaxPduUnits : TransmitNew(n)
  BY <1>2, NewPdu
<1>3. CASE Retransmit
  <2>1. CASE RetransmitNothing BY <2>1, QuietStep
  <2>2. CASE \E n \in 1 .. MaxPduUnits : RetransmitRest(n) \/ RetransmitSegment(n)
    BY <2>2, RetransmitStep
  <2>. QED BY <1>3, <2>1, <2>2 DEF Retransmit
<1>4. CASE ExpirePollRetransmitTimer BY <1>4, PollTimerStep
<1>5. CASE \E i \in DOMAIN statusCh : ReceiveStatus(i) BY <1>5, ReceiveStatusStep
<1>6. CASE \E i \in DOMAIN dataCh : ReceiveData(i) BY <1>6, ReceiveDataStep
<1>7. CASE ExpireReorderingTimer BY <1>7, ReorderingStep
<1>8. CASE \E room \in 1 .. W : TransmitStatus(room)
  BY <1>8, StatusStep, WIsPositive
<1>9. CASE \/ \E i \in DOMAIN dataCh : LoseData(i)
           \/ \E i \in DOMAIN statusCh : LoseStatus(i)
  BY <1>9, LossStep
<1>. QED BY <1>1, <1>2, <1>3, <1>4, <1>5, <1>6, <1>7, <1>8, <1>9 DEF Next

LEMMA InvAlways == Spec => []Inv
<1>1. Init => Inv BY InitInv
<1>2. Inv /\ [Next]_vars => Inv' BY Preserved
<1>. QED BY <1>1, <1>2, PTL DEF Spec

\* VR(MS) moves in two steps only, on a data PDU and when the reordering timer
\* expires.
LEMMA VrMsStep ==
  ASSUME Inv, [Next]_vars
  PROVE  nRcvd' + Off(vrMs', vrR') >= nRcvd + Off(vrMs, vrR)
<1>1. /\ nRcvd \in Nat /\ Off(vrMs, vrR) \in Nat
  BY ReceptionFacts
<1>2. CASE UNCHANGED <<vrR, vrMs, nRcvd>>
  BY <1>1, <1>2
<1>3. CASE \E i \in DOMAIN dataCh : ReceiveData(i)
  <2>1. Inv' /\ nRcvd + Off(vrMs, vrR) <= nRcvd' + Off(vrMs', vrR')
    BY <1>3, ReceiveDataStep
  <2>2. nRcvd' \in Nat /\ vrMs' \in SNs /\ vrR' \in SNs BY <2>1 DEF Inv, Shape
  <2>3. Off(vrMs', vrR') \in Nat BY <2>2, OffRange
  <2>. QED BY <1>1, <2>1, <2>2, <2>3
<1>4. CASE ExpireReorderingTimer
  <2>1. Inv' /\ Off(vrMs, vrR) <= Off(vrMs', vrR) BY <1>4, ReorderingStep
  <2>2. vrMs' \in SNs /\ vrR' = vrR /\ nRcvd' = nRcvd
    BY <1>4, <2>1 DEF Inv, Shape, ExpireReorderingTimer
  <2>3. vrR \in SNs BY ReceptionFacts
  <2>4. Off(vrMs', vrR) \in Nat BY <2>2, <2>3, OffRange
  <2>. QED BY <1>1, <2>1, <2>2, <2>4
<1>5. CASE \/ TransmitPdcpPdu \/ \E n \in 1 .. MaxPduUnits : TransmitNew(n)
           \/ Retransmit \/ ExpirePollRetransmitTimer
           \/ \E i \in DOMAIN statusCh : ReceiveStatus(i)
  BY <1>2, <1>5 DEF TransmitPdcpPdu, TransmitNew, Retransmit, RetransmitRest,
    RetransmitSegment, RetransmitNothing, ExpirePollRetransmitTimer,
    ReceiveStatus, receiverVars
<1>6. CASE \/ ExpireStatusProhibitTimer
           \/ \E room \in 1 .. W : TransmitStatus(room)
           \/ \E i \in DOMAIN dataCh : LoseData(i)
           \/ \E i \in DOMAIN statusCh : LoseStatus(i)
           \/ UNCHANGED vars
  BY <1>2, <1>6 DEF ExpireStatusProhibitTimer, TransmitStatus, LoseData,
    LoseStatus, receiverVars, vars
<1>. QED BY <1>3, <1>4, <1>5, <1>6 DEF Next

\* DoReceivePdu frees a PDU of the transmitting side only when the peer has all
\* of it, for every window size, workload and number of losses: a late or cut
\* STATUS PDU, or a sequence number that came round again, frees none too early.
THEOREM NothingReleasedEarly == Spec => []ReleasedIsReceived
<1>1. Inv => ReleasedIsReceived BY DEF Inv
<1>. QED BY <1>1, InvAlways, PTL

\* The PDU DoReportBufferStatus dereferences is in one of the two buffers, and
\* the assertions of DoReceivePdu that a PDU is in one only hold.
THEOREM OneCopyKept == Spec => []BuffersAgree
<1>1. Inv => BuffersAgree BY DEF Inv
<1>. QED BY <1>1, InvAlways, PTL

\* The receiving window of DoReceivePdu takes no PDU for another one that has
\* the same sequence number.
THEOREM NoPduMistaken == Spec => []RightPdus
<1>1. Inv => RightPdus BY DEF Inv, Reception
<1>. QED BY <1>1, InvAlways, PTL

\* The assertion of DoNotifyTxOpportunity on ACK_SN holds, wherever the list of
\* missing PDUs is cut.
THEOREM AckSnInReach == Spec => []AckSnIsReported
<1>1. Inv => AckSnIsReported
  BY EndAndAck DEF AckSnIsReported
<1>. QED BY <1>1, InvAlways, PTL

\* ExpireReorderingTimer and DoReceivePdu only move VR(MS) forward.
THEOREM VrMsForward == Spec => VrMsOnlyAdvances
<1>1. Inv /\ [Next]_vars => [nRcvd' + Off(vrMs', vrR') >= nRcvd + Off(vrMs, vrR)]_vars
  BY VrMsStep
<1>. QED BY <1>1, InvAlways, PTL DEF Spec, VrMsOnlyAdvances

-----------------------------------------------------------------------------
(***************************************************************************)
(* The bearer is a pipe: RlcAm implements SduPipe.                         *)
(***************************************************************************)
\* Where SDU n + 1 begins in the stream: a multiple the provers need not look into.
At(n) == n * SduUnits

\* Where the PDU of v begins in the stream of units.
Start(v) == IF v = vtS THEN taken ELSE pdu[v].lo

\* The PDUs of the window take the stream without a gap, and only as far as
\* PDCP has filled it; the rest of a segmented PDU is not empty.
Framed ==
    /\ taken <= At(submitted)
    /\ \A v \in Interval(vtA, vtS) :
          /\ pdu[v].lo < pdu[v].hi /\ pdu[v].hi = Start(Add(v, 1)) /\ pdu[v].hi <= taken
          /\ retxSeg[v] < PduLen(pdu[v])

\* A message has what is under its sequence number, unless that was
\* acknowledged; one that is no segment has all of it.
Carries(m) ==
    /\ m.pdu = pdu[m.sn] /\ m.from < m.to /\ m.to <= PduLen(m.pdu)
    /\ m.last => m.to = PduLen(m.pdu)
    /\ ~m.seg => m.from = 0 /\ m.last
Carried == \A m \in Messages(dataCh) : m.pdu.num >= nAcked => Carries(m)

\* What is in the reception buffer is the front of a PDU, or all of it.
Holds(e, p) ==
    /\ e.pdu = p /\ e.data # <<>> /\ e.data = Units(p.lo, p.lo + Len(e.data))
    /\ e.complete => Len(e.data) = PduLen(p)
Stored == \A v \in SNs : rxon[v] # NoEntry => Holds(rxon[v], pdu[v])

\* The first n SDUs.
Sdus(n) == [s \in 1 .. n |-> WholeSdu(s)]

\* ReassembleAndDeliver has come to unit x of the stream: it has delivered the
\* n SDUs before it and keeps what it has of the next one.
Reached(r, x) ==
    \E n \in 0 .. x :
        /\ At(n) <= x /\ x < At(n) + SduUnits
        /\ r = [out |-> Sdus(n), keep |-> Units(At(n), x), error |-> FALSE]
Assembled ==
    Reached([out |-> delivered, keep |-> keepS0, error |-> noTransition], Start(vrR))

PipeInv == Framed /\ Carried /\ Stored /\ Assembled

-----------------------------------------------------------------------------
(***************************************************************************)
(* The stream of units.                                                    *)
(***************************************************************************)
LEMMA Multiples ==
  ASSUME NEW n \in Nat
  PROVE  /\ At(n) \in Nat /\ At(n + 1) = At(n) + SduUnits /\ At(0) = 0
<1>1. SduUnits \in Nat /\ SduUnits > 0
  BY ParametersAssumption
<1> QED BY <1>1 DEF At

LEMMA AtOrder ==
  ASSUME NEW n \in Nat, NEW k \in Nat
  PROVE  (n <= k => At(n) <= At(k)) /\ (n < k => At(n) + SduUnits <= At(k))
<1>1. SduUnits \in Nat /\ SduUnits > 0
  BY ParametersAssumption
<1>2. ASSUME n <= k PROVE At(n) <= At(k)
  BY <1>1, <1>2 DEF At
<1>3. ASSUME n < k PROVE At(n) + SduUnits <= At(k)
  BY <1>1, <1>3 DEF At
<1> QED BY <1>2, <1>3

LEMMA SduAt ==
  ASSUME NEW x \in Nat
  PROVE  \E n \in 0 .. x : At(n) <= x /\ x < At(n) + SduUnits
<1>1. SduUnits \in Nat /\ SduUnits > 0
  BY ParametersAssumption
<1>2. (x \div SduUnits) \in 0 .. x
  BY <1>1
<1>3. At(x \div SduUnits) <= x /\ x < At(x \div SduUnits) + SduUnits
  BY <1>1 DEF At
<1> QED BY <1>2, <1>3

LEMMA InSdu ==
  ASSUME NEW x \in Nat, NEW n \in Nat, At(n) <= x, x < At(n) + SduUnits
  PROVE  x \div SduUnits = n /\ (x % SduUnits = 0 <=> x = At(n))
<1>1. SduUnits \in Nat /\ SduUnits > 0
  BY ParametersAssumption
<1>2. x \div SduUnits = n
  BY <1>1 DEF At
<1>3. x % SduUnits = x - At(n)
  BY <1>1, <1>2 DEF At
<1> QED BY <1>2, <1>3, Multiples

LEMMA UnitsAre ==
  ASSUME NEW a \in Nat, NEW b \in Nat, a <= b
  PROVE  /\ Units(a, b) \in Seq(Nat) /\ Len(Units(a, b)) = b - a
         /\ DOMAIN Units(a, b) = 1 .. b - a
         /\ \A k \in 1 .. b - a : Units(a, b)[k] = a + k
         /\ Units(a, b) = <<>> <=> a = b
<1>1. b - a \in Nat
  OBVIOUS
<1>2. Units(a, b) = [k \in 1 .. b - a |-> a + k]
  BY DEF Units
<1>3. Units(a, b) \in Seq(Nat) /\ Len(Units(a, b)) = b - a
  BY <1>1, <1>2
<1> QED BY <1>1, <1>2, <1>3

LEMMA UnitsJoin ==
  ASSUME NEW a \in Nat, NEW b \in Nat, NEW c \in Nat, a <= b, b <= c
  PROVE  Units(a, b) \o Units(b, c) = Units(a, c)
<1> DEFINE u == Units(a, b)
           v == Units(b, c)
           w == Units(a, c)
<1>0. a <= c
  OBVIOUS
<1>1. /\ u \in Seq(Nat) /\ Len(u) = b - a /\ \A k \in 1 .. b - a : u[k] = a + k
      /\ v \in Seq(Nat) /\ Len(v) = c - b /\ \A k \in 1 .. c - b : v[k] = b + k
      /\ w \in Seq(Nat) /\ Len(w) = c - a /\ \A k \in 1 .. c - a : w[k] = a + k
  BY <1>0, UnitsAre
<1> HIDE DEF u, v, w
<1>2. u \o v \in Seq(Nat) /\ Len(u \o v) = c - a
  BY <1>1, ConcatProperties
<1>3. \A k \in 1 .. c - a : (u \o v)[k] = w[k]
  <2> SUFFICES ASSUME NEW k \in 1 .. c - a PROVE (u \o v)[k] = w[k]
    OBVIOUS
  <2>1. k \in Nat /\ (k <= b - a \/ k > b - a)
    OBVIOUS
  <2>2. (u \o v)[k] = IF k <= b - a THEN u[k] ELSE v[k - (b - a)]
    <3>1. \A i \in 1 .. Len(u) + Len(v) : (u \o v)[i] = IF i <= Len(u) THEN u[i] ELSE v[i - Len(u)]
      BY <1>1, ConcatProperties
    <3>2. k \in 1 .. Len(u) + Len(v)
      BY <1>1
    <3> QED BY <1>1, <3>1, <3>2
  <2>3. CASE k <= b - a
    <3>1. k \in 1 .. b - a
      BY <2>3
    <3>2. u[k] = a + k /\ w[k] = a + k
      BY <1>1, <3>1
    <3> QED BY <2>2, <2>3, <3>2
  <2>4. CASE k > b - a
    <3>1. k - (b - a) \in 1 .. c - b
      BY <2>4
    <3>2. v[k - (b - a)] = b + (k - (b - a)) /\ w[k] = a + k
      BY <1>1, <3>1
    <3>3. b + (k - (b - a)) = a + k
      OBVIOUS
    <3> QED BY <2>1, <2>2, <2>4, <3>2, <3>3
  <2> QED BY <2>1, <2>3, <2>4
<1>4. u \o v = w
  BY <1>1, <1>2, <1>3, SeqEqual
<1> QED BY <1>4 DEF u, v, w

LEMMA UnitsPart ==
  ASSUME NEW a \in Nat, NEW b \in Nat, NEW c \in Nat, NEW d \in Nat,
         a <= b, b <= c, c <= d
  PROVE  SubSeq(Units(a, d), b - a + 1, c - a) = Units(b, c)
<1>1. /\ Units(a, d) \in Seq(Nat) /\ Len(Units(a, d)) = d - a
      /\ \A k \in 1 .. d - a : Units(a, d)[k] = a + k
      /\ Units(b, c) = [k \in 1 .. c - b |-> b + k]
  BY UnitsAre DEF Units
<1> DEFINE u == Units(a, d)
<1> HIDE DEF u
<1>2. SubSeq(u, b - a + 1, c - a) = [k \in 1 .. (c - a) - (b - a + 1) + 1 |-> u[(b - a + 1) + k - 1]]
  OBVIOUS
<1>3. \A k \in 1 .. c - b : u[(b - a + 1) + k - 1] = b + k
  BY <1>1 DEF u
<1>4. (c - a) - (b - a + 1) + 1 = c - b
  OBVIOUS
<1> QED BY <1>1, <1>2, <1>3, <1>4 DEF u

LEMMA SdusAre ==
  ASSUME NEW n \in Nat
  PROVE  /\ Sdus(n) \in Seq(Seq(Nat)) /\ Len(Sdus(n)) = n
         /\ \A s \in 1 .. n : /\ WholeSdu(s) = Units(At(s - 1), At(s))
                             /\ WholeSdu(s) \in Seq(Nat) /\ Sdus(n)[s] = WholeSdu(s)
<1>1. ASSUME NEW s \in 1 .. n
      PROVE  WholeSdu(s) = Units(At(s - 1), At(s)) /\ WholeSdu(s) \in Seq(Nat)
  <2>1. s - 1 \in Nat /\ s \in Nat /\ s - 1 <= s
    OBVIOUS
  <2>2. At(s - 1) \in Nat /\ At(s) \in Nat /\ At(s - 1) <= At(s)
    <3>1. At(s - 1) \in Nat /\ At(s) \in Nat
      BY <2>1, Multiples
    <3> QED BY <2>1, <3>1, AtOrder
  <2>3. WholeSdu(s) = Units(At(s - 1), At(s))
    BY DEF WholeSdu, At
  <2> QED BY <2>2, <2>3, UnitsAre
<1>2. Sdus(n) = [s \in 1 .. n |-> WholeSdu(s)]
  BY DEF Sdus
<1>3. Sdus(n) \in Seq(Seq(Nat)) /\ Len(Sdus(n)) = n
  BY <1>1, <1>2
<1> QED BY <1>1, <1>2, <1>3

LEMMA SdusJoin ==
  ASSUME NEW n \in Nat, NEW k \in Nat, n <= k
  PROVE  Sdus(n) \o [i \in 1 .. k - n |-> WholeSdu(n + i)] = Sdus(k)
<1> DEFINE u == Sdus(n)
           v == [i \in 1 .. k - n |-> WholeSdu(n + i)]
           w == Sdus(k)
<1>1. /\ u \in Seq(Seq(Nat)) /\ Len(u) = n
      /\ w \in Seq(Seq(Nat)) /\ Len(w) = k /\ \A i \in 1 .. k : w[i] = WholeSdu(i)
      /\ \A i \in 1 .. k : WholeSdu(i) \in Seq(Nat)
      /\ \A i \in 1 .. n : u[i] = WholeSdu(i)
  BY SdusAre
<1>2. \A i \in 1 .. k - n : n + i \in 1 .. k
  OBVIOUS
<1>3. v \in Seq(Seq(Nat)) /\ Len(v) = k - n /\ \A i \in 1 .. k - n : v[i] = WholeSdu(n + i)
  <2>1. \A i \in 1 .. k - n : WholeSdu(n + i) \in Seq(Nat)
    BY <1>1, <1>2
  <2> QED BY <2>1
<1> HIDE DEF u, v, w
<1>4. /\ u \o v \in Seq(Seq(Nat)) /\ Len(u \o v) = k
      /\ \A i \in 1 .. k : (u \o v)[i] = IF i <= n THEN u[i] ELSE v[i - n]
  <2>1. /\ u \o v \in Seq(Seq(Nat)) /\ Len(u \o v) = Len(u) + Len(v)
        /\ \A i \in 1 .. Len(u) + Len(v) :
              (u \o v)[i] = IF i <= Len(u) THEN u[i] ELSE v[i - Len(u)]
    BY <1>1, <1>3, ConcatProperties
  <2>2. Len(u) + Len(v) = k
    BY <1>1, <1>3
  <2> QED BY <1>1, <2>1, <2>2
<1>5. \A i \in 1 .. k : (u \o v)[i] = w[i]
  <2> SUFFICES ASSUME NEW i \in 1 .. k PROVE (u \o v)[i] = w[i]
    OBVIOUS
  <2>1. CASE i <= n
    BY <1>1, <1>4, <2>1
  <2>2. CASE ~(i <= n)
    <3>1. i - n \in 1 .. k - n /\ n + (i - n) = i
      BY <2>2
    <3> QED BY <1>1, <1>3, <1>4, <2>2, <3>1
  <2> QED BY <2>1, <2>2
<1>6. u \o v = w
  BY <1>1, <1>4, <1>5, SeqEqual
<1> QED BY <1>6 DEF u, v, w

-----------------------------------------------------------------------------
(***************************************************************************)
(* Reassembly.                                                             *)
(***************************************************************************)
\* One PDU that begins where ReassembleAndDeliver is takes it to its end.
LEMMA ReassembleOne ==
  ASSUME NEW p \in PduRecs, p.lo < p.hi,
         NEW e, e.pdu = p, e.data = Units(p.lo, p.hi),
         NEW r, Reached(r, p.lo)
  PROVE  Reached(Reassemble(r, e), p.hi)
<1>1. PICK lo \in Nat, hi \in Nat : lo = p.lo /\ hi = p.hi /\ lo < hi
  BY DEF PduRecs
<1>2. PICK n \in 0 .. lo :
        /\ At(n) <= lo /\ lo < At(n) + SduUnits
        /\ r = [out |-> Sdus(n), keep |-> Units(At(n), lo), error |-> FALSE]
  BY <1>1 DEF Reached
<1>3. PICK k \in 0 .. hi : At(k) <= hi /\ hi < At(k) + SduUnits
  BY <1>1, SduAt
<1>4. PICK q \in 0 .. hi - 1 : At(q) <= hi - 1 /\ hi - 1 < At(q) + SduUnits
  <2>1. hi - 1 \in Nat
    BY <1>1
  <2> QED BY <2>1, SduAt
<1>5. SduUnits \in Nat /\ SduUnits > 0
  BY ParametersAssumption
<1>6. n \in Nat /\ k \in Nat /\ q \in Nat /\ hi - 1 \in Nat
  BY <1>1
<1>7. /\ At(n) \in Nat /\ At(k) \in Nat /\ At(q) \in Nat
      /\ At(n + 1) = At(n) + SduUnits /\ At(q + 1) = At(q) + SduUnits
  BY <1>6, Multiples

\* The last unit of the PDU is in SDU q + 1.
<1>8. n <= q /\ n <= k
  <2>1. ASSUME q < n PROVE FALSE
    BY <1>1, <1>2, <1>4, <1>5, <1>6, <1>7, <2>1, AtOrder
  <2>2. ASSUME k < n PROVE FALSE
    BY <1>1, <1>2, <1>3, <1>5, <1>6, <1>7, <2>2, AtOrder
  <2> QED BY <1>6, <2>1, <2>2
<1>9. IF hi = At(k) THEN q + 1 = k ELSE q = k
  <2>1. CASE hi = At(k)
    <3>1. ASSUME k <= q PROVE FALSE
      BY <1>4, <1>6, <1>7, <2>1, <3>1, AtOrder
    <3>2. ASSUME q + 1 < k PROVE FALSE
      <4>1. q + 1 \in Nat
        BY <1>6
      <4>2. At(q + 1) + SduUnits <= At(k)
        BY <1>6, <3>2, <4>1, AtOrder
      <4> QED BY <1>4, <1>5, <1>7, <2>1, <4>2
    <3> QED BY <1>6, <2>1, <3>1, <3>2
  <2>2. CASE hi # At(k)
    <3>1. At(k) <= hi - 1 /\ hi - 1 < At(k) + SduUnits
      BY <1>1, <1>3, <1>5, <1>7, <2>2
    <3>2. (hi - 1) \div SduUnits = k
      BY <1>6, <3>1, InSdu
    <3>3. (hi - 1) \div SduUnits = q
      BY <1>4, <1>6, InSdu
    <3> QED BY <2>2, <3>2, <3>3
  <2> QED BY <2>1, <2>2
<1>part. ASSUME NEW a \in Nat, NEW b \in Nat, lo <= a, a <= b, b <= hi
         PROVE  SubSeq(Units(lo, hi), a - lo + 1, b - lo) = Units(a, b)
  BY <1>part, UnitsPart
<1> DEFINE N == q - n + 1
           L(j) == IF j = 1 THEN lo ELSE At(n + j - 1)
           H(j) == IF j = N THEN hi ELSE At(n + j)
           edge(j) == ((p.lo \div SduUnits) + j) * SduUnits - p.lo
           pieces == PiecesOf(e.pdu, e.data)
<1>10. N \in Nat /\ N >= 1
  BY <1>6, <1>8
<1>11. lo \div SduUnits = n /\ (FirstByte(p) <=> lo = At(n)) /\ NumSdus(p) = N
  <2>1. lo \div SduUnits = n /\ (lo % SduUnits = 0 <=> lo = At(n))
    BY <1>1, <1>2, <1>6, InSdu
  <2>2. (hi - 1) \div SduUnits = q
    BY <1>4, <1>6, InSdu
  <2> QED BY <1>1, <2>1, <2>2 DEF FirstByte, NumSdus
<1>12. LastByte(p) <=> hi = At(k)
  BY <1>1, <1>3, <1>6, InSdu DEF LastByte
<1>13. ASSUME NEW j \in 1 .. N
       PROVE  L(j) \in Nat /\ H(j) \in Nat /\ lo <= L(j) /\ L(j) <= H(j) /\ H(j) <= hi
  <2>1. j \in Nat /\ n + j \in Nat /\ n + j - 1 \in Nat /\ n + 1 \in Nat
    BY <1>6
  <2>2. /\ At(n + j) \in Nat /\ At(n + j - 1) \in Nat
        /\ At(n + j - 1) <= At(n + j)
    BY <2>1, Multiples, AtOrder
  <2>3. L(j) \in Nat /\ lo <= L(j) /\ L(j) < hi
    <3>1. CASE j = 1
      BY <1>1, <3>1
    <3>2. CASE j # 1
      <4>1. n + 1 <= n + j - 1 /\ n + j - 1 <= q
        BY <1>6, <3>2
      <4>2. At(n + 1) <= At(n + j - 1) /\ At(n + j - 1) <= At(q)
        BY <1>6, <2>1, <4>1, AtOrder
      <4>3. L(j) = At(n + j - 1)
        BY <3>2
      <4> HIDE DEF L
      <4> QED BY <1>1, <1>2, <1>4, <1>5, <1>7, <2>2, <4>2, <4>3
    <3> QED BY <3>1, <3>2
  <2>4. H(j) \in Nat /\ L(j) <= H(j) /\ H(j) <= hi
    <3>1. CASE j = N
      BY <1>1, <2>3, <3>1
    <3>2. CASE j # N
      <4>1. n + j <= q /\ n + 1 <= n + j
        BY <1>6, <3>2
      <4>2. At(n + j) <= At(q) /\ At(n + 1) <= At(n + j)
        BY <1>6, <2>1, <4>1, AtOrder
      <4>3. H(j) = At(n + j)
        BY <3>2
      <4> QED BY <1>1, <1>2, <1>4, <1>5, <1>7, <2>2, <2>3, <4>2, <4>3
    <3> QED BY <3>1, <3>2
  <2> QED BY <2>3, <2>4
<1>14. pieces = [j \in 1 .. N |-> Units(L(j), H(j))]
  <2>1. pieces = [j \in 1 .. N |-> SubSeq(e.data, IF j = 1 THEN 1 ELSE edge(j - 1) + 1,
                                                  IF j = N THEN Len(e.data) ELSE edge(j))]
    BY <1>11 DEF PiecesOf
  <2>2. e.data = Units(lo, hi) /\ Len(e.data) = hi - lo
    <3>1. lo <= hi /\ e.data = Units(lo, hi)
      BY <1>1
    <3> QED BY <3>1, UnitsAre
  <2>3. ASSUME NEW j \in 1 .. N
        PROVE  SubSeq(e.data, IF j = 1 THEN 1 ELSE edge(j - 1) + 1,
                              IF j = N THEN Len(e.data) ELSE edge(j)) = Units(L(j), H(j))
    <3>1. edge(j) = At(n + j) - lo /\ (j # 1 => edge(j - 1) = At(n + j - 1) - lo)
      <4>1. edge(j) = At(n + j) - lo
        BY <1>1, <1>11 DEF At
      <4>2. edge(j - 1) = At(n + (j - 1)) - lo
        BY <1>1, <1>11 DEF At
      <4>3. n + (j - 1) = n + j - 1
        BY <1>6
      <4> QED BY <4>1, <4>2, <4>3
    <3> HIDE DEF edge
    <3>2. (IF j = 1 THEN 1 ELSE edge(j - 1) + 1) = L(j) - lo + 1
      <4>1. CASE j = 1
        BY <1>1, <4>1
      <4>2. CASE j # 1
        BY <3>1, <4>2
      <4> QED BY <4>1, <4>2
    <3>3. (IF j = N THEN Len(e.data) ELSE edge(j)) = H(j) - lo
      BY <2>2, <3>1
    <3>4. SubSeq(Units(lo, hi), L(j) - lo + 1, H(j) - lo) = Units(L(j), H(j))
      <4>1. PICK x \in Nat, y \in Nat : x = L(j) /\ y = H(j) /\ lo <= x /\ x <= y /\ y <= hi
        BY <1>13
      <4>2. SubSeq(Units(lo, hi), x - lo + 1, y - lo) = Units(x, y)
        <5> HIDE DEF L, H, N, pieces
        <5>1. lo <= x /\ x <= y /\ y <= hi
          BY <4>1
        <5> QED BY <1>part, <5>1
      <4> HIDE DEF L, H, N
      <4> QED BY <4>1, <4>2
    <3> QED BY <2>2, <3>2, <3>3, <3>4
  <2> HIDE DEF N, L, H, edge, pieces
  <2> QED BY <2>1, <2>3

\* Whole SDUs, and the beginning of one in the end.
<1> DEFINE joined == [j \in 1 .. N |-> Units(At(n + j - 1), H(j))]
<1>15. /\ r.out = Sdus(n) /\ r.error = FALSE
       /\ r.keep = Units(At(n), lo) /\ (r.keep = <<>> <=> At(n) = lo)
  <2>1. r.out = Sdus(n) /\ r.error = FALSE /\ r.keep = Units(At(n), lo)
    BY <1>2
  <2> HIDE DEF N, L, H, edge, pieces
  <2>2. PICK a \in Nat : a = At(n) /\ a <= lo
    BY <1>2, <1>7
  <2>3. Units(a, lo) = <<>> <=> a = lo
    BY <2>2, UnitsAre
  <2> QED BY <2>1, <2>2, <2>3
<1>16. (IF r.keep = <<>> THEN pieces ELSE [pieces EXCEPT ![1] = r.keep \o @]) = joined
  <2>1. r.keep = Units(At(n), lo) /\ (r.keep = <<>> <=> At(n) = lo)
    BY <1>15
  <2>2. L(1) = lo /\ lo <= H(1) /\ H(1) \in Nat /\ 1 \in 1 .. N /\ At(n + 1 - 1) = At(n)
    <3>1. 1 \in 1 .. N
      BY <1>10
    <3>2. lo <= L(1) /\ L(1) <= H(1) /\ H(1) \in Nat
      BY <1>13, <3>1
    <3>3. L(1) = lo
      OBVIOUS
    <3>4. n + 1 - 1 = n
      BY <1>6
    <3> QED BY <3>1, <3>2, <3>3, <3>4
  <2>3. \A j \in 1 .. N : j # 1 => L(j) = At(n + j - 1)
    OBVIOUS
  <2> HIDE DEF N, L, H, pieces
  <2>4. CASE r.keep = <<>>
    BY <1>14, <2>1, <2>2, <2>3, <2>4
  <2>5. CASE r.keep # <<>>
    <3>1. r.keep \o Units(lo, H(1)) = Units(At(n), H(1))
      <4>1. PICK a \in Nat, b \in Nat : a = At(n) /\ b = H(1) /\ a <= lo /\ lo <= b
        BY <1>2, <1>7, <2>2
      <4>2. Units(a, lo) \o Units(lo, b) = Units(a, b)
        BY <4>1, UnitsJoin
      <4> QED BY <2>1, <4>1, <4>2
    <3>2. pieces[1] = Units(lo, H(1))
      BY <1>14, <2>2
    <3> QED BY <1>14, <2>2, <2>3, <2>5, <3>1, <3>2
  <2> QED BY <2>4, <2>5
<1> DEFINE whole == IF LastByte(p) THEN Len(joined) ELSE Len(joined) - 1
<1>17. Len(joined) = N /\ whole = k - n
  <2>1. Len(joined) = N
    BY <1>10
  <2> HIDE DEF joined
  <2> QED BY <1>6, <1>9, <1>12, <2>1
<1>18. SubSeq(joined, 1, k - n) = [i \in 1 .. k - n |-> WholeSdu(n + i)]
  <2>1. k - n \in Nat /\ k - n <= N
    BY <1>6, <1>8, <1>9
  <2>2. SubSeq(joined, 1, k - n) = [i \in 1 .. k - n |-> joined[i]]
    <3> HIDE DEF joined, N
    <3>1. (k - n) - 1 + 1 = k - n /\ \A i \in 1 .. k - n : 1 + i - 1 = i
      BY <2>1
    <3> QED BY <2>1, <3>1
  <2>3. ASSUME NEW i \in 1 .. k - n PROVE joined[i] = WholeSdu(n + i)
    <3>1. i \in 1 .. N /\ n + i \in 1 .. k
      BY <1>6, <1>10, <2>1
    <3>2. joined[i] = Units(At(n + i - 1), H(i))
      BY <3>1
    <3>3. H(i) = At(n + i)
      BY <1>6, <1>9, <3>1
    <3>4. WholeSdu(n + i) = Units(At(n + i - 1), At(n + i))
      BY <1>6, <3>1, SdusAre
    <3> QED BY <3>2, <3>3, <3>4
  <2> HIDE DEF joined, N
  <2> QED BY <2>2, <2>3
<1>19. (IF LastByte(p) THEN <<>> ELSE joined[Len(joined)]) = Units(At(k), hi)
  <2>1. CASE hi = At(k)
    <3> HIDE DEF joined, N
    <3>1. Units(hi, hi) = <<>>
      BY <1>1, UnitsAre
    <3> QED BY <1>12, <2>1, <3>1
  <2>2. CASE hi # At(k)
    <3>1. joined[N] = Units(At(n + N - 1), H(N)) /\ H(N) = hi
      BY <1>10
    <3>2. n + N - 1 = k
      BY <1>6, <1>9, <2>2
    <3> HIDE DEF joined, N
    <3> QED BY <1>12, <1>17, <2>2, <3>1, <3>2
  <2> QED BY <2>1, <2>2
<1>20. Reassemble(r, e) = [out |-> Sdus(k), keep |-> Units(At(k), hi), error |-> FALSE]
  <2>1. FirstByte(e.pdu) <=> r.keep = <<>>
    BY <1>11, <1>15
  <2>2. (FirstByte(e.pdu) # (r.keep = <<>>)) = FALSE
    BY <2>1 DEF FirstByte
  <2>3. r.out \o SubSeq(joined, 1, whole) = Sdus(k)
    <3> DEFINE more == [i \in 1 .. k - n |-> WholeSdu(n + i)]
    <3>1. Sdus(n) \o more = Sdus(k)
      BY <1>6, <1>8, SdusJoin
    <3> HIDE DEF joined, whole, more
    <3>2. SubSeq(joined, 1, whole) = more
      BY <1>17, <1>18 DEF more
    <3> QED BY <1>15, <3>1, <3>2
  <2>4. r.error = FALSE
    BY <1>15
  <2> HIDE DEF joined, pieces
  <2> QED BY <1>16, <1>19, <2>2, <2>3, <2>4 DEF Reassemble, pieces
<1> QED BY <1>1, <1>3, <1>20 DEF Reached

\* The k-th of the n entries from VR(R) on holds the units from pos[k - 1] to
\* pos[k].
Consecutive(rx, n, pos) ==
    \A k \in 1 .. n : \E p \in PduRecs :
        /\ p.lo = pos[k - 1] /\ p.hi = pos[k] /\ p.lo < p.hi
        /\ rx[Add(vrR, k - 1)].pdu = p
        /\ rx[Add(vrR, k - 1)].data = Units(p.lo, p.hi)

\* So do PDUs that follow each other, with ReassembleAndDeliver called for one
\* after the other.
LEMMA DeliveryRuns ==
  ASSUME NEW rx, NEW n \in Nat, NEW pos \in [0 .. n -> Nat],
         Reached([out |-> delivered, keep |-> keepS0, error |-> noTransition], pos[0]),
         Consecutive(rx, n, pos)
  PROVE  Reached(Delivery(rx, n), pos[n]) /\ pos[0] <= pos[n]
<1> DEFINE first == [out |-> delivered, keep |-> keepS0, error |-> noTransition]
           Runs(f, m) == f = [k \in 0 .. m |->
                                 IF k = 0 THEN first
                                 ELSE Reassemble(f[k - 1], rx[Add(vrR, k - 1)])]
           after[k \in 0 .. n] ==
               IF k = 0 THEN first ELSE Reassemble(after[k - 1], rx[Add(vrR, k - 1)])
<1>1. Delivery(rx, n) = after[n]
  BY DEF Delivery
<1>2. \A m \in Nat : \E f : Runs(f, m)
  <2> DEFINE Bad == {m \in Nat : ~\E f : Runs(f, m)}
  <2> SUFFICES ASSUME Bad # {} PROVE FALSE
    OBVIOUS
  <2>1. PICK m \in Bad : \A y \in Bad : m <= y
    BY Smallest
  <2>2. m # 0
    <3> DEFINE f == [k \in 0 .. 0 |-> first]
    <3>1. Runs(f, 0)
      OBVIOUS
    <3> QED BY <3>1
  <2>3. m \in Nat /\ m - 1 \in Nat /\ m - 1 \notin Bad
    <3>1. m \in Nat
      BY <2>1
    <3> HIDE DEF Bad
    <3> QED BY <2>1, <2>2, <3>1
  <2>4. PICK f : Runs(f, m - 1)
    BY <2>3
  <2> DEFINE g == [k \in 0 .. m |->
                      IF k = 0 THEN first
                      ELSE Reassemble(f[k - 1], rx[Add(vrR, k - 1)])]
  <2>5. \A k \in 0 .. m - 1 : g[k] = f[k]
    BY <2>3, <2>4
  <2>6. Runs(g, m)
    <3> HIDE DEF Bad
    <3>1. ASSUME NEW k \in 0 .. m, k # 0 PROVE g[k - 1] = f[k - 1]
      <4> HIDE DEF g
      <4>1. k - 1 \in 0 .. m - 1
        BY <2>3, <3>1
      <4> QED BY <2>5, <4>1
    <3> DEFINE h == [k \in 0 .. m |->
                        IF k = 0 THEN first
                        ELSE Reassemble(g[k - 1], rx[Add(vrR, k - 1)])]
    <3>2. ASSUME NEW k \in 0 .. m PROVE h[k] = g[k]
      <4>1. /\ h[k] = IF k = 0 THEN first ELSE Reassemble(g[k - 1], rx[Add(vrR, k - 1)])
            /\ g[k] = IF k = 0 THEN first ELSE Reassemble(f[k - 1], rx[Add(vrR, k - 1)])
        OBVIOUS
      <4> HIDE DEF g, h, first
      <4> QED BY <3>1, <4>1
    <3>3. g = [k \in 0 .. m |-> g[k]] /\ h = [k \in 0 .. m |-> h[k]]
      OBVIOUS
    <3>4. g = h
      <4> HIDE DEF g, h
      <4> QED BY <3>2, <3>3
    <3> QED BY <3>4
  <2> QED BY <2>1, <2>6
<1>3. Runs(after, n)
  <2>1. \E f : Runs(f, n)
    BY <1>2
  <2>2. after = CHOOSE f : Runs(f, n)
    BY DEF after
  <2> QED BY <2>1, <2>2
<1> HIDE DEF after
<1>4. \A k \in 0 .. n : Reached(after[k], pos[k]) /\ pos[0] <= pos[k]
  <2> DEFINE Bad == {k \in 0 .. n : ~(Reached(after[k], pos[k]) /\ pos[0] <= pos[k])}
  <2> SUFFICES ASSUME Bad # {} PROVE FALSE
    OBVIOUS
  <2>1. Bad \subseteq Nat
    OBVIOUS
  <2>2. PICK m \in Bad : \A y \in Bad : m <= y
    BY <2>1, Smallest
  <2>3. Reached(after[0], pos[0]) /\ pos[0] <= pos[0]
    <3>1. after[0] = first
      BY <1>3
    <3> QED BY <3>1
  <2>4. m # 0 /\ m \in 1 .. n /\ m - 1 \in 0 .. n /\ m - 1 \in Nat
    BY <2>2, <2>3
  <2>5. Reached(after[m - 1], pos[m - 1]) /\ pos[0] <= pos[m - 1]
    BY <2>2, <2>4
  <2>6. after[m] = Reassemble(after[m - 1], rx[Add(vrR, m - 1)])
    BY <1>3, <2>4
  <2>7. PICK p \in PduRecs :
             /\ p.lo = pos[m - 1] /\ p.hi = pos[m] /\ p.lo < p.hi
             /\ rx[Add(vrR, m - 1)].pdu = p
             /\ rx[Add(vrR, m - 1)].data = Units(p.lo, p.hi)
    BY <2>4 DEF Consecutive
  <2>8. Reached(Reassemble(after[m - 1], rx[Add(vrR, m - 1)]), p.hi)
    BY <2>5, <2>7, ReassembleOne
  <2>9. pos[0] <= pos[m]
    BY <2>4, <2>5, <2>7
  <2> QED BY <2>2, <2>6, <2>7, <2>8, <2>9
<1> QED BY <1>1, <1>4

-----------------------------------------------------------------------------
(***************************************************************************)
(* What is sent and what arrives.                                          *)
(***************************************************************************)
LEMMA InitPipeInv ==
  ASSUME Init
  PROVE  PipeInv
<1>1. 0 \in SNs /\ Interval(vtA, vtS) = {}
  <2>1. 0 \in SNs
    BY WIsPositive DEF SNs
  <2>2. vtA = 0 /\ vtS = 0
    BY DEF Init
  <2> QED BY <2>1, <2>2, OffRange DEF Interval
<1>2. Framed
  <2>1. taken <= At(submitted)
    BY Multiples DEF Init
  <2> QED BY <1>1, <2>1 DEF Framed
<1>3. Carried
  BY DEF Init, Carried, Messages
<1>4. Stored
  BY DEF Init, Stored
<1>5. Assembled
  <2>1. Start(vrR) = 0
    BY DEF Init, Start
  <2>2. Units(At(0), 0) = <<>> /\ Sdus(0) = <<>>
    BY Multiples, UnitsAre DEF Sdus
  <2>3. At(0) <= 0 /\ 0 < At(0) + SduUnits
    BY Multiples, ParametersAssumption
  <2>4. [out |-> delivered, keep |-> keepS0, error |-> noTransition] =
            [out |-> Sdus(0), keep |-> Units(At(0), 0), error |-> FALSE]
    BY <2>2 DEF Init
  <2> QED BY <2>1, <2>3, <2>4 DEF Assembled, Reached
<1> QED BY <1>2, <1>3, <1>4, <1>5 DEF PipeInv

\* VT(S) seen from VR(R), and what was sent but not received yet.
LEMMA SentNotReceived ==
  ASSUME Inv
  PROVE  /\ Off(vtS, vrR) = nSent - nRcvd
         /\ \A v \in SNs : Off(v, vrR) < nSent - nRcvd =>
               v \in Interval(vtA, vtS) /\ v # vtS
<1>1. /\ vtA \in SNs /\ vtS \in SNs /\ vrR \in SNs
      /\ nSent \in Nat /\ nAcked \in Nat /\ nRcvd \in Nat
      /\ nAcked <= nRcvd /\ nRcvd <= nSent /\ nSent <= nAcked + W
      /\ Off(vtS, vtA) = nSent - nAcked /\ Off(vrR, vtA) = nRcvd - nAcked
  BY DEF Inv, Shape, Windows
<1>2. Off(vtS, vrR) = nSent - nRcvd
  BY <1>1, Rebase
<1>3. ASSUME NEW v \in SNs, Off(v, vrR) < nSent - nRcvd
      PROVE  v \in Interval(vtA, vtS) /\ v # vtS
  <2>1. Off(v, vrR) \in Nat
    BY <1>1, OffRange
  <2>2. Off(v, vrR) + Off(vrR, vtA) < 2 * W
    BY <1>1, <1>3, <2>1, WIsPositive
  <2>3. Off(v, vtA) = Off(v, vrR) + Off(vrR, vtA)
    BY <1>1, <2>2, Chain
  <2>4. Off(v, vtA) < Off(vtS, vtA)
    BY <1>1, <1>3, <2>1, <2>3
  <2>5. v # vtS
    BY <1>1, <1>2, <1>3
  <2> QED BY <2>4, <2>5 DEF Interval
<1> QED BY <1>2, <1>3

\* A step that sends, frees and receives no data.
LEMMA QuietPipe ==
  ASSUME PipeInv, submitted \in Nat, submitted' \in Nat, submitted <= submitted', taken \in Nat,
         Messages(dataCh') \subseteq Messages(dataCh),
         UNCHANGED <<taken, vtA, vtS, pdu, retxSeg, nAcked, rxon, vrR, delivered,
                     keepS0, noTransition>>
  PROVE  PipeInv'
<1>1. At(submitted) \in Nat /\ At(submitted') \in Nat /\ At(submitted) <= At(submitted')
  BY Multiples, AtOrder
<1>2. taken' <= At(submitted')
  BY <1>1 DEF PipeInv, Framed
<1>3. At(submitted)' = At(submitted')
  BY DEF At
<1>4. Framed'
  BY <1>2, <1>3 DEF PipeInv, Framed, Start
<1>5. Carried'
  BY DEF PipeInv, Carried, Carries
<1>6. Stored'
  BY DEF PipeInv, Stored
<1>7. Assembled'
  BY DEF PipeInv, Assembled, Start
<1> QED BY <1>4, <1>5, <1>6, <1>7 DEF PipeInv

\* A new PDU takes the next units, and nothing else is under its sequence
\* number any more.
LEMMA NewPduPipe ==
  ASSUME Inv, PipeInv, NEW n \in Nat \ {0}, TransmitNew(n)
  PROVE  PipeInv'
<1>1. /\ vtA \in SNs /\ vtS \in SNs /\ vrR \in SNs /\ taken \in Nat
      /\ nSent \in Nat /\ nAcked \in Nat /\ nRcvd \in Nat
      /\ nAcked <= nRcvd /\ nRcvd <= nSent /\ nSent <= nAcked + W
      /\ Off(vtS, vtA) = nSent - nAcked /\ Off(vrR, vtA) = nRcvd - nAcked
      /\ pdu \in [SNs -> PduRecs] /\ dataCh \in Seq(DataPdus)
      /\ retxSeg \in [SNs -> Nat]
  BY DEF Inv, Shape, Windows
<1> DEFINE p == [num |-> nSent, lo |-> taken, hi |-> taken + n]
           m == [sn |-> vtS, pdu |-> p, from |-> 0, to |-> n,
                 seg |-> FALSE, last |-> TRUE, poll |-> TRUE]
<1>2. /\ vtS # Add(vtA, W) /\ retx = {}
      /\ taken + n <= submitted * SduUnits
      /\ pdu' = [pdu EXCEPT ![vtS] = p]
      /\ vtS' = Add(vtS, 1) /\ taken' = taken + n
      /\ dataCh' = Append(dataCh, m)
      /\ UNCHANGED <<submitted, vtA, retxSeg, nAcked, rxon, vrR, delivered,
                     keepS0, noTransition>>
  BY DEF TransmitNew, Stalled, receiverVars
<1>3. p \in PduRecs /\ p.lo = taken /\ p.hi = taken + n /\ p.num = nSent
  BY <1>1 DEF PduRecs
<1>4. m \in DataPdus
  BY <1>1, <1>3 DEF DataPdus, PduRecs
<1>5. Messages(dataCh') = Messages(dataCh) \cup {m}
  <2> HIDE DEF m
  <2>1. dataCh \in Seq(DataPdus)
    BY <1>1
  <2>2. dataCh' = Append(dataCh, m)
    BY <1>2
  <2> QED BY <1>4, <2>1, <2>2, ChannelAppend
<1> HIDE DEF p
<1>6. \A v \in SNs : pdu'[v] = IF v = vtS THEN p ELSE pdu[v]
  BY <1>1, <1>2
<1>7. vtS' \in SNs /\ vtS' # vtS /\ Off(vtS', vtA) = Off(vtS, vtA) + 1
  <2>1. vtS' \in SNs /\ Off(vtS', vtS) = 1
    BY <1>1, <1>2, AddRange, WIsPositive
  <2>2. vtS' # vtS
    BY <1>1, <2>1, OffRange
  <2>3. Off(vtS, vtA) < W
    <3>1. Off(Add(vtA, W), vtA) = W
      BY <1>1, AddRange, WIsPositive
    <3>2. Off(vtS, vtA) # W
      <4>1. Add(vtA, Off(vtS, vtA)) = vtS
        BY <1>1, AddOff
      <4> QED BY <1>2, <4>1
    <3> QED BY <1>1, <3>2, WIsPositive
  <2> QED BY <1>1, <2>1, <2>2, <2>3, Chain, WIsPositive
<1>8. ASSUME NEW v \in SNs
      PROVE  (v \in Interval(vtA', vtS')) <=> (v \in Interval(vtA, vtS) \/ v = vtS)
  <2>1. Off(v, vtA) \in Nat /\ Off(vtS, vtA) \in Nat
    BY <1>1, OffRange
  <2>2. Off(v, vtA) = Off(vtS, vtA) => v = vtS
    BY <1>1, OffInjective
  <2> QED BY <1>1, <1>2, <1>7, <2>1, <2>2 DEF Interval
<1>9. \A v \in Interval(vtA, vtS) : v \in SNs /\ v # vtS /\ v # vtS'
  <2>1. Off(vtS, vtA) \in Nat
    BY <1>1, OffRange
  <2> QED BY <1>7, <2>1 DEF Interval

\* What began somewhere still begins there.
<1>10. ASSUME NEW v \in SNs, v = vtS \/ v \in Interval(vtA, vtS)
       PROVE  Start(v)' = Start(v)
  <2>1. v # vtS' /\ Start(v)' = pdu'[v].lo
    BY <1>7, <1>9, <1>10 DEF Start
  <2>2. CASE v = vtS
    BY <1>3, <1>6, <2>1, <2>2 DEF Start
  <2>3. CASE v # vtS
    BY <1>6, <2>1, <2>3 DEF Start
  <2> QED BY <2>2, <2>3
<1>11. ASSUME NEW v \in Interval(vtA, vtS)
       PROVE  Add(v, 1) \in SNs /\ (Add(v, 1) = vtS \/ Add(v, 1) \in Interval(vtA, vtS))
  <2>1. v \in SNs /\ Off(v, vtA) < Off(vtS, vtA) /\ Off(v, vtA) \in Nat
    BY <1>1, OffRange DEF Interval
  <2>2. Add(v, 1) \in SNs /\ Off(Add(v, 1), v) = 1
    BY <2>1, AddRange, WIsPositive
  <2>3. Off(Add(v, 1), vtA) = Off(v, vtA) + 1
    BY <1>1, <2>1, <2>2, Chain, WIsPositive
  <2>4. CASE Off(Add(v, 1), vtA) = Off(vtS, vtA)
    BY <1>1, <2>2, <2>4, OffInjective
  <2>5. CASE Off(Add(v, 1), vtA) # Off(vtS, vtA)
    <3>1. Off(Add(v, 1), vtA) < Off(vtS, vtA)
      BY <1>1, <2>1, <2>3, <2>5
    <3> QED BY <2>2, <3>1 DEF Interval
  <2> QED BY <2>4, <2>5
<1>12. Framed'
  <2>1. taken' <= At(submitted)'
    BY <1>2 DEF At
  <2>2. ASSUME NEW v \in Interval(vtA', vtS')
        PROVE  /\ pdu'[v].lo < pdu'[v].hi /\ pdu'[v].hi = Start(Add(v, 1))'
               /\ pdu'[v].hi <= taken' /\ retxSeg'[v] < PduLen(pdu'[v])
    <3>0. v \in SNs /\ (v \in Interval(vtA, vtS) \/ v = vtS)
      <4>1. v \in SNs
        BY DEF Interval
      <4> QED BY <1>8, <4>1
    <3>1. CASE v = vtS
      <4>1. retxSeg[v] = 0
        BY <1>1, <1>2, <3>0 DEF Inv, BuffersAgree
      <4>2. pdu'[v] = p /\ Start(Add(v, 1))' = taken'
        BY <1>2, <1>6, <3>0, <3>1 DEF Start
      <4> QED BY <1>1, <1>2, <1>3, <4>1, <4>2 DEF PduLen
    <3>2. CASE v # vtS
      <4>1. v \in Interval(vtA, vtS)
        BY <3>0, <3>2
      <4>2. /\ pdu[v].lo < pdu[v].hi /\ pdu[v].hi = Start(Add(v, 1))
            /\ pdu[v].hi <= taken' /\ retxSeg[v] < PduLen(pdu[v])
        <5>1. /\ pdu[v].lo < pdu[v].hi /\ pdu[v].hi = Start(Add(v, 1))
              /\ pdu[v].hi <= taken /\ retxSeg[v] < PduLen(pdu[v])
          BY <4>1 DEF PipeInv, Framed
        <5>2. pdu[v].hi \in Nat
          BY <1>1, <3>0 DEF PduRecs
        <5> QED BY <1>1, <1>2, <5>1, <5>2
      <4>3. Start(Add(v, 1))' = Start(Add(v, 1))
        <5> DEFINE w == Add(v, 1)
        <5>1. w \in SNs /\ (w = vtS \/ w \in Interval(vtA, vtS))
          BY <1>11, <4>1
        <5>2. Add(v, 1)' = w
          BY DEF Add
        <5> HIDE DEF w
        <5>3. Start(w)' = Start(w)
          BY <1>10, <5>1
        <5> QED BY <5>3 DEF w
      <4> QED BY <1>2, <1>6, <3>0, <3>2, <4>2, <4>3
    <3> QED BY <3>1, <3>2
  <2> QED BY <2>1, <2>2 DEF Framed
<1>13. Carried'
  <2> SUFFICES ASSUME NEW x \in Messages(dataCh'), x.pdu.num >= nAcked PROVE Carries(x)'
    BY <1>2 DEF Carried
  <2>1. CASE x = m
    <3>1. pdu'[vtS] = p
      BY <1>1, <1>6
    <3>2. x.sn = vtS /\ x.pdu = p /\ x.from = 0 /\ x.to = n /\ ~x.seg /\ x.last
      BY <2>1
    <3> QED BY <1>1, <1>3, <3>1, <3>2 DEF Carries, PduLen
  <2>2. CASE x # m
    <3>1. x \in Messages(dataCh) /\ Carries(x)
      BY <1>5, <2>2 DEF PipeInv, Carried
    <3>2. x \in DataPdus
      BY <1>1, <3>1 DEF Messages
    <3>3. x.sn \in SNs /\ x.pdu.num \in Nat /\ x.pdu.num < nSent
      BY <3>1, <3>2 DEF Inv, DataInAir, DataPdus
    <3>4. x.sn # vtS
      <4>1. Off(x.sn, vtA) = x.pdu.num - nAcked
        BY <1>1, <3>1, <3>3 DEF Inv, DataInAir, Stands
      <4> QED BY <1>1, <3>3, <4>1
    <3> QED BY <1>6, <3>1, <3>3, <3>4 DEF Carries
  <2> QED BY <2>1, <2>2
<1>14. Stored'
  <2> SUFFICES ASSUME NEW v \in SNs, rxon[v] # NoEntry PROVE Holds(rxon[v], pdu'[v])
    BY <1>2 DEF Stored
  <2>1. Off(v, vrR) < nSent - nRcvd
    <3>1. Off(v, vrR) < Off(vrH, vrR) /\ Off(vrH, vrR) <= nSent - nRcvd
      BY DEF Inv, Reception
    <3>2. Off(v, vrR) \in Nat /\ Off(vrH, vrR) \in Nat
      BY <1>1, OffRange, ReceptionFacts
    <3> QED BY <1>1, <3>1, <3>2
  <2>2. v # vtS
    BY <2>1, SentNotReceived
  <2> QED BY <1>6, <2>2 DEF PipeInv, Stored
<1>15. Assembled'
  <2>1. vrR = vtS \/ vrR \in Interval(vtA, vtS)
    <3>1. CASE nRcvd = nSent
      BY <1>1, <3>1, OffInjective
    <3>2. CASE nRcvd # nSent
      BY <1>1, <3>2 DEF Interval
    <3> QED BY <3>1, <3>2
  <2>2. Start(vrR)' = Start(vrR)
    <3>1. Start(vrR)' = IF vrR = vtS' THEN taken' ELSE pdu'[vrR].lo
      BY <1>2 DEF Start
    <3>2. vrR # vtS'
      BY <1>7, <1>9, <2>1
    <3>3. CASE vrR = vtS
      BY <1>1, <1>3, <1>6, <3>1, <3>2, <3>3 DEF Start
    <3>4. CASE vrR # vtS
      BY <1>1, <1>6, <3>1, <3>2, <3>4 DEF Start
    <3> QED BY <3>3, <3>4
  <2> QED BY <1>2, <2>2 DEF PipeInv, Assembled
<1> QED BY <1>12, <1>13, <1>14, <1>15 DEF PipeInv

\* A retransmission is a copy, or a part, of what is under its number.
LEMMA RetransmitPipe ==
  ASSUME Inv, PipeInv, NEW n \in Nat \ {0}, RetransmitRest(n) \/ RetransmitSegment(n)
  PROVE  PipeInv'
<1> DEFINE v == FirstRetx
           p == pdu[v]
<1>1. /\ dataCh \in Seq(DataPdus) /\ pdu \in [SNs -> PduRecs] /\ retxSeg \in [SNs -> Nat]
      /\ v \in SNs /\ v \in Interval(vtA, vtS)
  <2>1. retx # {}
    BY DEF RetransmitRest, RetransmitSegment
  <2>2. v \in Interval(vtA, vtS)
    BY <2>1, FirstRetxExists
  <2> QED BY <2>2 DEF Inv, Shape, Interval
<1>2. /\ p \in PduRecs /\ p.lo < p.hi /\ retxSeg[v] \in Nat /\ retxSeg[v] < PduLen(p)
      /\ PduLen(p) \in Nat
  <2>1. p \in PduRecs /\ retxSeg[v] \in Nat
    BY <1>1
  <2>2. p.lo < p.hi /\ retxSeg[v] < PduLen(p)
    BY <1>1 DEF PipeInv, Framed
  <2>3. p.lo \in Nat /\ p.hi \in Nat
    BY <2>1 DEF PduRecs
  <2> HIDE DEF p
  <2> QED BY <2>1, <2>2, <2>3 DEF PduLen
<1>3. UNCHANGED <<submitted, taken, vtA, vtS, pdu, nAcked, rxon, vrR, delivered,
                  keepS0, noTransition>>
  BY DEF RetransmitRest, RetransmitSegment, receiverVars
<1> HIDE DEF v, p
<1>4. PICK m \in DataPdus, k \in Nat :
        /\ dataCh' = Append(dataCh, m) /\ retxSeg' = [retxSeg EXCEPT ![v] = k]
        /\ k < PduLen(p) /\ m.sn = v /\ m.pdu = p /\ m.from < m.to /\ m.to <= PduLen(p)
        /\ (m.last => m.to = PduLen(p)) /\ (~m.seg => m.from = 0 /\ m.last)
  <2>1. CASE RetransmitRest(n)
    <3> DEFINE m == [sn |-> v, pdu |-> p, from |-> retxSeg[v], to |-> PduLen(p),
                     seg |-> retxSeg[v] > 0, last |-> TRUE, poll |-> RetxPolls(v)]
    <3>1. dataCh' = Append(dataCh, m) /\ retxSeg' = [retxSeg EXCEPT ![v] = 0]
      BY <2>1 DEF RetransmitRest, v, p
    <3>2. m \in DataPdus
      <4>1. RetxPolls(v) \in BOOLEAN
        BY DEF RetxPolls
      <4> QED BY <1>1, <1>2, <4>1 DEF DataPdus, PduRecs
    <3>3. /\ m.sn = v /\ m.pdu = p /\ m.from = retxSeg[v] /\ m.to = PduLen(p)
          /\ (m.seg <=> retxSeg[v] > 0) /\ m.last
      OBVIOUS
    <3> HIDE DEF m
    <3>4. /\ 0 < PduLen(p) /\ m.from < m.to /\ m.to <= PduLen(p)
          /\ (m.last => m.to = PduLen(p)) /\ (~m.seg => m.from = 0 /\ m.last)
      BY <1>2, <3>3
    <3> QED BY <3>1, <3>2, <3>3, <3>4
  <2>2. CASE RetransmitSegment(n)
    <3> DEFINE m == [sn |-> v, pdu |-> p, from |-> retxSeg[v], to |-> retxSeg[v] + n,
                     seg |-> TRUE, last |-> FALSE, poll |-> RetxPolls(v)]
               k == retxSeg[v] + n
    <3>1. /\ dataCh' = Append(dataCh, m) /\ n < PduLen(p) - retxSeg[v]
          /\ retxSeg' = [retxSeg EXCEPT ![v] = k]
      BY <1>1, <2>2 DEF RetransmitSegment, v, p
    <3>2. m \in DataPdus
      <4>1. RetxPolls(v) \in BOOLEAN
        BY DEF RetxPolls
      <4> QED BY <1>1, <1>2, <4>1 DEF DataPdus, PduRecs
    <3>3. /\ m.sn = v /\ m.pdu = p /\ m.from = retxSeg[v] /\ m.to = k /\ m.seg /\ ~m.last
      OBVIOUS
    <3> HIDE DEF m
    <3>4. k \in Nat /\ k < PduLen(p) /\ m.from < m.to /\ m.to <= PduLen(p)
      BY <1>2, <3>1, <3>3
    <3> QED BY <3>1, <3>2, <3>3, <3>4
  <2> QED BY <2>1, <2>2
<1>5. Messages(dataCh') = Messages(dataCh) \cup {m}
  BY <1>1, <1>4, ChannelAppend
<1>6. Carries(m)'
  BY <1>3, <1>4 DEF Carries, p
<1>7. Framed'
  <2>1. ASSUME NEW x \in Interval(vtA, vtS)
        PROVE  /\ pdu[x].lo < pdu[x].hi /\ pdu[x].hi = Start(Add(x, 1)) /\ pdu[x].hi <= taken
               /\ retxSeg'[x] < PduLen(pdu[x])
    <3>1. /\ pdu[x].lo < pdu[x].hi /\ pdu[x].hi = Start(Add(x, 1)) /\ pdu[x].hi <= taken
          /\ retxSeg[x] < PduLen(pdu[x]) /\ x \in SNs
      BY DEF PipeInv, Framed, Interval
    <3>2. retxSeg'[x] = IF x = v THEN k ELSE retxSeg[x]
      BY <1>1, <1>4, <3>1
    <3> QED BY <1>4, <3>1, <3>2 DEF p
  <2>2. taken <= At(submitted)
    BY DEF PipeInv, Framed
  <2> QED BY <1>3, <2>1, <2>2 DEF Framed, Start
<1>8. Carried'
  <2> SUFFICES ASSUME NEW x \in Messages(dataCh'), x.pdu.num >= nAcked PROVE Carries(x)'
    BY <1>3 DEF Carried
  <2>1. CASE x = m
    BY <1>6, <2>1
  <2>2. CASE x # m
    BY <1>3, <1>5, <2>2 DEF PipeInv, Carried, Carries
  <2> QED BY <2>1, <2>2
<1>9. Stored' /\ Assembled'
  BY <1>3 DEF PipeInv, Stored, Assembled, Start
<1> QED BY <1>7, <1>8, <1>9 DEF PipeInv

\* A STATUS PDU takes PDUs out of the window.
LEMMA ReceiveStatusPipe ==
  ASSUME Inv, PipeInv, NEW i \in DOMAIN statusCh, ReceiveStatus(i)
  PROVE  PipeInv'
<1>1. Inv'
  BY ReceiveStatusStep
<1>2. UNCHANGED <<submitted, taken, vtS, pdu, dataCh, rxon, vrR, delivered, keepS0,
                  noTransition>>
  BY DEF ReceiveStatus, receiverVars, senderVars
<1>3. /\ vtA \in SNs /\ vtS \in SNs /\ vtA' \in SNs
      /\ nSent \in Nat /\ nAcked \in Nat /\ nAcked' \in Nat /\ nSent <= nAcked + W
      /\ Off(vtS, vtA) = nSent - nAcked
      /\ retxSeg \in [SNs -> Nat]
  BY <1>1 DEF Inv, Shape, Windows
<1>4. Off(vtS, vtA') = nSent - nAcked'
  <2>1. Off(vtS', vtA') = nSent' - nAcked' /\ nSent' = nSent
    BY <1>1 DEF Inv, Windows, ReceiveStatus, senderVars
  <2> QED BY <1>2, <2>1
<1>5. /\ nAcked' = nAcked + Off(vtA', vtA)
      /\ \A v \in SNs : retxSeg'[v] = retxSeg[v] \/ retxSeg'[v] = 0
  <2>1. CASE ~InTransmittingWindow(statusCh[i].ack)
    <3>1. vtA' = vtA /\ nAcked' = nAcked /\ retxSeg' = retxSeg
      BY <2>1 DEF ReceiveStatus, senderVars
    <3>2. Off(vtA, vtA) = 0
      BY <1>3, OffRange
    <3> QED BY <1>3, <3>1, <3>2
  <2>2. CASE InTransmittingWindow(statusCh[i].ack)
    <3>1. /\ vtA' = NewVtA(statusCh[i]) /\ nAcked' = nAcked + Off(NewVtA(statusCh[i]), vtA)
          /\ retxSeg' = RestsWithout(Reported(statusCh[i]) \ statusCh[i].nacks)
      BY <2>2 DEF ReceiveStatus
    <3> QED BY <3>1 DEF RestsWithout
  <2> QED BY <2>1, <2>2
<1>6. Off(vtA', vtA) \in Nat
  BY <1>3, OffRange
<1>7. ASSUME NEW v \in Interval(vtA', vtS) PROVE v \in Interval(vtA, vtS)
  <2>1. v \in SNs /\ Off(v, vtA') < nSent - nAcked' /\ Off(v, vtA') \in Nat
    BY <1>3, <1>4, OffRange DEF Interval
  <2>2. Off(v, vtA') + Off(vtA', vtA) < nSent - nAcked
    BY <1>3, <1>5, <1>6, <2>1
  <2>3. Off(v, vtA) = Off(v, vtA') + Off(vtA', vtA)
    BY <1>3, <1>6, <2>1, <2>2, Chain, WIsPositive
  <2> QED BY <1>3, <2>1, <2>2, <2>3 DEF Interval
<1>8. Framed'
  <2>1. taken <= At(submitted)
    BY DEF PipeInv, Framed
  <2>2. ASSUME NEW v \in Interval(vtA', vtS)
        PROVE  /\ pdu[v].lo < pdu[v].hi /\ pdu[v].hi = Start(Add(v, 1)) /\ pdu[v].hi <= taken
               /\ retxSeg'[v] < PduLen(pdu[v])
    <3>1. /\ pdu[v].lo < pdu[v].hi /\ pdu[v].hi = Start(Add(v, 1)) /\ pdu[v].hi <= taken
          /\ retxSeg[v] < PduLen(pdu[v])
      BY <1>7 DEF PipeInv, Framed
    <3>2. v \in SNs
      BY DEF Interval
    <3>3. pdu[v] \in PduRecs
      BY <3>2 DEF Inv, Shape
    <3>4. pdu[v].lo \in Nat /\ pdu[v].hi \in Nat
      BY <3>3 DEF PduRecs
    <3>5. 0 < PduLen(pdu[v])
      BY <3>1, <3>4 DEF PduLen
    <3> QED BY <1>5, <3>1, <3>2, <3>5
  <2> QED BY <1>2, <2>1, <2>2 DEF Framed, Start
<1>9. Carried'
  <2> SUFFICES ASSUME NEW m \in Messages(dataCh), m.pdu.num >= nAcked' PROVE Carries(m)
    BY <1>2 DEF Carried, Carries
  <2>1. m.pdu.num \in Nat
    <3>1. m \in DataPdus
      BY DEF Inv, Shape, Messages
    <3> QED BY <3>1 DEF DataPdus
  <2> QED BY <1>3, <1>5, <1>6, <2>1 DEF PipeInv, Carried
<1>10. Stored' /\ Assembled'
  BY <1>2 DEF PipeInv, Stored, Assembled, Start
<1> QED BY <1>8, <1>9, <1>10 DEF PipeInv

\* What the buffer has of a PDU stays the front of it, or becomes all of it.
LEMMA PlacedHolds ==
  ASSUME NEW m \in DataPdus, Carries(m), NEW e \in Entries,
         e = NoEntry \/ Holds(e, m.pdu), Placed(m, e) # NoEntry
  PROVE  Holds(Placed(m, e), m.pdu)
<1>1. PICK p \in PduRecs : p = m.pdu
  BY DEF DataPdus, PduRecs
<1>2. PICK lo \in Nat, hi \in Nat, from \in Nat, to \in Nat :
        lo = p.lo /\ hi = p.hi /\ from = m.from /\ to = m.to
  BY DEF DataPdus, PduRecs
<1>3. /\ from < to /\ to <= hi - lo /\ PduLen(p) = hi - lo
      /\ (m.last => to = hi - lo) /\ (~m.seg => from = 0 /\ m.last)
  <2>1. PduLen(p) = hi - lo
    BY <1>2 DEF PduLen
  <2> QED BY <1>1, <1>2, <2>1 DEF Carries
<1> DEFINE payload == Units(lo + from, lo + to)
<1>4. payload \in Seq(Nat) /\ Len(payload) = to - from /\ payload # <<>>
  <2>1. lo + from \in Nat /\ lo + to \in Nat /\ lo + from <= lo + to
        /\ (lo + to) - (lo + from) = to - from /\ lo + from # lo + to
    BY <1>3
  <2>2. /\ payload \in Seq(Nat) /\ Len(payload) = (lo + to) - (lo + from)
        /\ (payload = <<>> <=> lo + from = lo + to)
    <3> HIDE DEF payload
    <3>1. Units(lo + from, lo + to) \in Seq(Nat)
          /\ Len(Units(lo + from, lo + to)) = (lo + to) - (lo + from)
          /\ (Units(lo + from, lo + to) = <<>> <=> lo + from = lo + to)
      BY <2>1, UnitsAre
    <3> QED BY <3>1 DEF payload
  <2> HIDE DEF payload
  <2> QED BY <2>1, <2>2
<1>5. Units(m.pdu.lo + m.from, m.pdu.lo + m.to) = payload
  BY <1>1, <1>2
<1> HIDE DEF payload
<1>6. CASE e = NoEntry /\ m.from = 0
  <2> DEFINE x == [pdu |-> m.pdu, seg |-> m.seg, data |-> payload, complete |-> ~m.seg]
  <2>1. Placed(m, e) = x
    BY <1>5, <1>6 DEF Placed
  <2>2. x.pdu = p /\ x.data = payload /\ (x.complete <=> ~m.seg)
    BY <1>1, Zenon
  <2> HIDE DEF x
  <2>3. Len(payload) = to /\ payload = Units(lo, lo + to)
    <3>1. from = 0 /\ lo + from = lo
      BY <1>2, <1>6
    <3> QED BY <1>4, <3>1 DEF payload
  <2> QED BY <1>1, <1>2, <1>3, <1>4, <2>1, <2>2, <2>3 DEF Holds
<1>7. CASE e # NoEntry /\ Continues(m, e)
  <2> DEFINE x == [e EXCEPT !.data = @ \o payload, !.complete = @ \/ m.last]
  <2>1. Placed(m, e) = x
    BY <1>5, <1>7 DEF Placed
  <2>2. x.pdu = e.pdu /\ x.data = e.data \o payload /\ (x.complete <=> e.complete \/ m.last)
    BY DEF Entries
  <2> HIDE DEF x
  <2>3. /\ e.pdu = p /\ e.data = Units(lo, lo + Len(e.data))
        /\ (e.complete => Len(e.data) = hi - lo)
    BY <1>1, <1>2, <1>3, <1>7 DEF Holds
  <2>4. Len(e.data) = from /\ ~e.complete /\ e.data \in Seq(Nat)
    <3>1. Len(e.data) = from /\ e.data \in Seq(Nat)
      BY <1>2, <1>7 DEF Continues, Entries
    <3> QED BY <1>3, <2>3, <3>1
  <2>5. e.data \o payload = Units(lo, lo + to)
    <3>1. lo + from \in Nat /\ lo + to \in Nat /\ lo <= lo + from /\ lo + from <= lo + to
      BY <1>3
    <3>2. Units(lo, lo + from) \o Units(lo + from, lo + to) = Units(lo, lo + to)
      BY <3>1, UnitsJoin
    <3> QED BY <2>3, <2>4, <3>2 DEF payload
  <2>6. Len(Units(lo, lo + to)) = to /\ Units(lo, lo + to) # <<>>
    <3>1. lo + to \in Nat /\ lo <= lo + to /\ lo # lo + to /\ (lo + to) - lo = to
      BY <1>3
    <3> QED BY <3>1, UnitsAre
  <2> QED BY <1>1, <1>2, <1>3, <2>1, <2>2, <2>3, <2>4, <2>5, <2>6 DEF Holds
<1>8. CASE e # NoEntry /\ ~Continues(m, e)
  BY <1>8 DEF Placed
<1>9. CASE e = NoEntry /\ m.from # 0
  BY <1>9 DEF Placed
<1> QED BY <1>6, <1>7, <1>8, <1>9

\* The PDUs that VR(R) passes go through ReassembleAndDeliver in the order of
\* the stream.
LEMMA RunDelivered ==
  ASSUME Inv, PipeInv, NEW rx \in [SNs -> Entries],
         NEW n \in Nat, n <= nSent - nRcvd,
         \A v \in SNs : Off(v, vrR) < n => rx[v].complete /\ Holds(rx[v], pdu[v])
  PROVE  Reached(Delivery(rx, n), Start(Add(vrR, n))) /\ Start(vrR) <= Start(Add(vrR, n))
<1>1. /\ vtS \in SNs /\ vrR \in SNs /\ pdu \in [SNs -> PduRecs] /\ taken \in Nat
      /\ nSent - nRcvd \in Nat /\ nSent - nRcvd <= W
  BY WIsPositive DEF Inv, Shape, Windows
<1> DEFINE pos == [k \in 0 .. n |-> Start(Add(vrR, k))]
<1>2. ASSUME NEW k \in 0 .. n
      PROVE  Add(vrR, k) \in SNs /\ Off(Add(vrR, k), vrR) = k /\ Start(Add(vrR, k)) \in Nat
  <2>1. k \in Nat /\ k < 2 * W
    BY <1>1, WIsPositive
  <2>2. Add(vrR, k) \in SNs /\ Off(Add(vrR, k), vrR) = k
    BY <1>1, <2>1, AddRange
  <2>3. \A v \in SNs : Start(v) \in Nat
    BY <1>1 DEF Start, PduRecs
  <2> QED BY <2>2, <2>3
<1>3. pos \in [0 .. n -> Nat]
  BY <1>2
<1>4. /\ Reached([out |-> delivered, keep |-> keepS0, error |-> noTransition], pos[0])
      /\ pos[0] = Start(vrR)
  <2>1. Add(vrR, 0) = vrR
    BY <1>1, AddRange, WIsPositive
  <2>2. pos[0] = Start(vrR)
    BY <2>1
  <2> HIDE DEF pos
  <2> QED BY <2>2 DEF PipeInv, Assembled
<1>5. ASSUME NEW k \in 1 .. n
      PROVE  \E p \in PduRecs :
               /\ p.lo = pos[k - 1] /\ p.hi = pos[k] /\ p.lo < p.hi
               /\ rx[Add(vrR, k - 1)].pdu = p
               /\ rx[Add(vrR, k - 1)].data = Units(p.lo, p.hi)
  <2>1. k - 1 \in 0 .. n /\ k \in 0 .. n /\ k - 1 < n
    OBVIOUS
  <2>2. PICK v \in SNs : v = Add(vrR, k - 1) /\ Off(v, vrR) = k - 1
    BY <1>2, <2>1
  <2>3. v \in Interval(vtA, vtS) /\ v # vtS
    <3>1. Off(v, vrR) < nSent - nRcvd
      BY <1>1, <2>1, <2>2
    <3> QED BY <3>1, SentNotReceived
  <2>4. Add(v, 1) = Add(vrR, k)
    <3>1. Add(v, 1) \in SNs /\ Off(Add(v, 1), v) = 1
      BY AddRange, WIsPositive
    <3>2. Off(Add(v, 1), vrR) = k
      BY <1>1, <2>1, <2>2, <3>1, Chain, WIsPositive
    <3>3. Off(Add(vrR, k), vrR) = k /\ Add(vrR, k) \in SNs
      BY <1>2, <2>1
    <3> QED BY <1>1, <3>1, <3>2, <3>3, OffInjective
  <2>5. pos[k - 1] = Start(v) /\ pos[k] = Start(Add(v, 1))
    BY <2>1, <2>2, <2>4
  <2> HIDE DEF pos
  <2>6. PICK p \in PduRecs : p = pdu[v]
    BY <1>1
  <2>7. p.lo = pos[k - 1] /\ p.hi = pos[k] /\ p.lo < p.hi
    BY <2>3, <2>5, <2>6 DEF PipeInv, Framed, Start
  <2>8. rx[v].complete /\ Holds(rx[v], p)
    BY <2>1, <2>2, <2>6
  <2>9. /\ rx[v].pdu = p /\ rx[v].data = Units(p.lo, p.lo + Len(rx[v].data))
        /\ Len(rx[v].data) = PduLen(p)
    BY <2>8 DEF Holds
  <2>10. p.lo + PduLen(p) = p.hi
    BY <2>6 DEF PduLen, PduRecs
  <2> QED BY <2>2, <2>6, <2>7, <2>9, <2>10
<1>6. Reached(Delivery(rx, n), pos[n]) /\ Start(vrR) <= pos[n]
  <2> HIDE DEF pos
  <2>1. Reached(Delivery(rx, n), pos[n]) /\ pos[0] <= pos[n]
    <3>1. Reached([out |-> delivered, keep |-> keepS0, error |-> noTransition], pos[0])
      BY <1>4
    <3>2. Consecutive(rx, n, pos)
      BY <1>5 DEF Consecutive
    <3> QED BY <1>1, <1>3, <3>1, <3>2, DeliveryRuns
  <2> QED BY <1>4, <2>1
<1> QED BY <1>6

\* A data PDU fills the reception buffer and may let VR(R) pass.
LEMMA ReceiveDataPipe ==
  ASSUME Inv, PipeInv, NEW i \in DOMAIN dataCh, ReceiveData(i)
  PROVE  PipeInv' /\ Start(vrR) <= Start(vrR)'
<1> DEFINE m  == dataCh[i]
           rx == [rxon EXCEPT ![m.sn] = Placed(m, @)]
           n  == IF m.sn = vrR THEN CompleteFrom(rx, vrR) ELSE 0
           r  == Add(vrR, n)
<1>1. /\ Messages(dataCh') \subseteq Messages(dataCh) /\ m \in Messages(dataCh)
      /\ UNCHANGED <<submitted, taken, vtA, vtS, pdu, retxSeg, nSent, nAcked>>
  <2>1. dataCh \in Seq(DataPdus)
    BY DEF Inv, Shape
  <2> QED BY <2>1, ChannelWithout DEF ReceiveData, senderVars
<1>2. /\ vtA \in SNs /\ vtS \in SNs /\ vrR \in SNs /\ submitted \in Nat /\ taken \in Nat
      /\ nSent \in Nat /\ nRcvd \in Nat /\ nAcked \in Nat
      /\ nAcked <= nRcvd /\ nRcvd <= nSent /\ nSent <= nAcked + W
      /\ rxon \in [SNs -> Entries] /\ pdu \in [SNs -> PduRecs]
      /\ ~rxon[vrR].complete
  BY DEF Inv, Shape, Windows, Reception
<1>3. CASE ~InReceivingWindow(m.sn, vrR)
  <2>1. UNCHANGED <<rxon, vrR, delivered, keepS0, noTransition>>
    BY <1>3 DEF ReceiveData
  <2>2. Start(vrR) \in Nat /\ Start(vrR)' = Start(vrR)
    BY <1>1, <1>2, <2>1 DEF Start, PduRecs
  <2> QED BY <1>1, <1>2, <2>1, <2>2, QuietPipe
<1>4. CASE InReceivingWindow(m.sn, vrR)
  <2>1. /\ vrR' = r
        /\ rxon' = [v \in SNs |-> IF Off(v, vrR) < n THEN NoEntry ELSE rx[v]]
        /\ delivered' = Delivery(rx, n).out /\ keepS0' = Delivery(rx, n).keep
        /\ noTransition' = Delivery(rx, n).error
    BY <1>4 DEF ReceiveData
  <2>2. /\ m \in DataPdus /\ m.sn \in SNs
        /\ m.pdu.num = nRcvd + Off(m.sn, vrR)
        /\ Off(m.sn, vrR) \in Nat /\ Off(m.sn, vrR) < nSent - nRcvd
    BY <1>1, <1>4, DataMeans DEF DataPdus
  <2>3. Carries(m)
    <3>1. m.pdu.num >= nAcked
      BY <1>2, <2>2
    <3> QED BY <1>1, <3>1 DEF PipeInv, Carried
  <2> HIDE DEF m
  <2>4. /\ rx \in [SNs -> Entries] /\ rx[m.sn] = Placed(m, rxon[m.sn])
        /\ \A v \in SNs : v # m.sn => rx[v] = rxon[v]
    <3>1. rxon[m.sn] \in Entries
      BY <1>2, <2>2
    <3> QED BY <1>2, <2>2, <3>1, PlacedEntry
  <2> HIDE DEF rx
  <2>5. ASSUME NEW v \in SNs, rx[v] # NoEntry PROVE Holds(rx[v], pdu[v])
    <3>1. rxon[v] # NoEntry => Holds(rxon[v], pdu[v])
      BY DEF PipeInv, Stored
    <3>2. CASE v = m.sn
      <4>1. m.pdu = pdu[v] /\ rxon[v] \in Entries
        BY <1>2, <2>3, <3>2 DEF Carries
      <4>2. Holds(Placed(m, rxon[v]), m.pdu)
        BY <2>2, <2>3, <2>4, <2>5, <3>1, <3>2, <4>1, PlacedHolds
      <4> QED BY <2>4, <3>2, <4>1, <4>2
    <3>3. CASE v # m.sn
      BY <2>4, <2>5, <3>1, <3>3
    <3> QED BY <3>2, <3>3
  \* VR(R) stops at VT(S): nothing is stored there.
  <2>6. /\ n \in Nat /\ n <= nSent - nRcvd
        /\ \A v \in SNs : Off(v, vrR) < n => rx[v].complete
    <3>1. CASE m.sn = vrR
      <4>1. Off(vtS, vrR) = nSent - nRcvd
        BY SentNotReceived
      <4>2. rxon[vtS] = NoEntry
        <5>1. Off(vrH, vrR) <= nSent - nRcvd /\ vrH \in SNs
          BY DEF Inv, Shape, Reception
        <5>2. Off(vrH, vrR) \in Nat
          BY <1>2, <5>1, OffRange
        <5>3. ~(Off(vtS, vrR) < Off(vrH, vrR))
          BY <1>2, <4>1, <5>1, <5>2
        <5> QED BY <1>2, <5>3 DEF Inv, Reception
      <4>3. ~rx[vtS].complete
        <5>1. vtS # m.sn
          BY <1>2, <2>2, <4>1
        <5> QED BY <1>2, <2>4, <4>2, <5>1 DEF NoEntry
      <4>4. n = CompleteFrom(rx, vrR)
        BY <3>1
      <4> HIDE DEF n
      <4> QED BY <1>2, <2>4, <4>1, <4>3, <4>4, CompleteFromStops
    <3>2. CASE m.sn # vrR
      <4>1. n = 0
        BY <3>2
      <4> HIDE DEF n
      <4> QED BY <1>2, <4>1, OffRange
    <3> QED BY <3>1, <3>2
  <2> HIDE DEF n
  <2>7. Reached(Delivery(rx, n), Start(r)) /\ Start(vrR) <= Start(r)
    <3>1. \A v \in SNs : Off(v, vrR) < n => rx[v].complete /\ Holds(rx[v], pdu[v])
      <4>1. ~NoEntry.complete
        BY DEF NoEntry
      <4> QED BY <2>5, <2>6, <4>1
    <3> QED BY <2>4, <2>6, <3>1, RunDelivered
  <2>8. Assembled' /\ Start(vrR) <= Start(vrR)'
    <3>1. PICK out : out = Delivery(rx, n)
      OBVIOUS
    <3>2. out = [out |-> out.out, keep |-> out.keep, error |-> out.error]
      BY <2>7, <3>1 DEF Reached
    <3>3. Start(vrR)' = Start(r)
      <4>1. Start(vrR)' = IF r = vtS THEN taken ELSE pdu[r].lo
        BY <1>1, <2>1 DEF Start
      <4> QED BY <4>1 DEF Start
    <3> QED BY <2>1, <2>7, <3>1, <3>2, <3>3 DEF Assembled, Reached
  <2>9. Stored'
    <3> SUFFICES ASSUME NEW v \in SNs, rxon'[v] # NoEntry PROVE Holds(rxon'[v], pdu'[v])
      BY DEF Stored
    <3>1. rxon'[v] = IF Off(v, vrR) < n THEN NoEntry ELSE rx[v]
      BY <2>1
    <3> QED BY <1>1, <2>5, <3>1
  <2>10. Framed' /\ Carried'
    BY <1>1 DEF PipeInv, Framed, Carried, Carries, Start, At
  <2> QED BY <2>8, <2>9, <2>10 DEF PipeInv
<1> QED BY <1>3, <1>4

-----------------------------------------------------------------------------
(***************************************************************************)
(* The theorems.                                                           *)
(***************************************************************************)
LEMMA PipeStep ==
  ASSUME Inv, PipeInv, [Next]_vars
  PROVE  PipeInv'
<1>1. submitted \in Nat /\ taken \in Nat /\ dataCh \in Seq(DataPdus)
  BY DEF Inv, Shape
<1>2. CASE \/ TransmitPdcpPdu \/ RetransmitNothing \/ ExpirePollRetransmitTimer
           \/ ExpireReorderingTimer \/ ExpireStatusProhibitTimer
           \/ \E room \in 1 .. W : TransmitStatus(room)
           \/ \E i \in DOMAIN statusCh : LoseStatus(i)
           \/ UNCHANGED vars
  <2>1. /\ submitted' \in Nat /\ submitted <= submitted' /\ dataCh' = dataCh
        /\ UNCHANGED <<taken, vtA, vtS, pdu, retxSeg, nAcked, rxon, vrR, delivered,
                       keepS0, noTransition>>
    <3>1. CASE TransmitPdcpPdu
      BY <1>1, <3>1 DEF TransmitPdcpPdu, receiverVars, radioVars
    <3>2. CASE RetransmitNothing
      BY <1>1, <3>2 DEF RetransmitNothing, receiverVars, radioVars
    <3>3. CASE ExpirePollRetransmitTimer
      BY <1>1, <3>3 DEF ExpirePollRetransmitTimer, receiverVars, radioVars
    <3>4. CASE ExpireReorderingTimer \/ ExpireStatusProhibitTimer
      BY <1>1, <3>4 DEF ExpireReorderingTimer, ExpireStatusProhibitTimer, senderVars, radioVars
    <3>5. CASE \/ \E room \in 1 .. W : TransmitStatus(room)
               \/ \E i \in DOMAIN statusCh : LoseStatus(i)
      <4>1. CASE \E room \in 1 .. W : TransmitStatus(room)
        BY <1>1, <4>1 DEF TransmitStatus, senderVars
      <4>2. CASE \E i \in DOMAIN statusCh : LoseStatus(i)
        BY <1>1, <4>2 DEF LoseStatus, senderVars, receiverVars
      <4> QED BY <3>5, <4>1, <4>2
    <3>6. CASE UNCHANGED vars
      BY <1>1, <3>6 DEF vars, senderVars, receiverVars, radioVars
    <3> QED BY <1>2, <3>1, <3>2, <3>3, <3>4, <3>5, <3>6
  <2> QED BY <1>1, <2>1, QuietPipe
<1>3. CASE \E i \in DOMAIN dataCh : LoseData(i)
  <2>1. PICK i \in DOMAIN dataCh : LoseData(i)
    BY <1>3
  <2>2. Messages(dataCh') \subseteq Messages(dataCh)
    BY <1>1, <2>1, ChannelWithout DEF LoseData
  <2>3. UNCHANGED <<submitted, taken, vtA, vtS, pdu, retxSeg, nAcked, rxon, vrR, delivered,
                    keepS0, noTransition>>
    BY <2>1 DEF LoseData, senderVars, receiverVars
  <2> QED BY <1>1, <2>2, <2>3, QuietPipe
<1>4. CASE \E n \in 1 .. MaxPduUnits : TransmitNew(n)
  BY <1>4, NewPduPipe
<1>5. CASE \E n \in 1 .. MaxPduUnits : RetransmitRest(n) \/ RetransmitSegment(n)
  BY <1>5, RetransmitPipe
<1>6. CASE \E i \in DOMAIN statusCh : ReceiveStatus(i)
  BY <1>6, ReceiveStatusPipe
<1>7. CASE \E i \in DOMAIN dataCh : ReceiveData(i)
  BY <1>7, ReceiveDataPipe
<1> QED BY <1>2, <1>3, <1>4, <1>5, <1>6, <1>7 DEF Next, Retransmit

LEMMA PipeAlways == Spec => []PipeInv
<1>1. Init => PipeInv
  BY InitPipeInv
<1>2. Inv /\ PipeInv /\ [Next]_vars => PipeInv'
  BY PipeStep
<1> QED BY <1>1, <1>2, InvAlways, PTL DEF Spec

\* The variables no proof above looks at.
Switches ==
    /\ pollSn \in SNs /\ pollTimer \in BOOLEAN /\ pollExpired \in BOOLEAN
    /\ statusRequested \in BOOLEAN /\ prohibit \in BOOLEAN /\ grant \in BOOLEAN
    /\ losses \in Nat

LEMMA SwitchesStep ==
  ASSUME Inv, Switches, [Next]_vars
  PROVE  Switches'
<1>1. vtS \in SNs /\ W \in Nat /\ W > 0
  BY WIsPositive DEF Inv, Shape
<1>2. Add(vtS, 2 * W - 1) \in SNs
  <2>1. 2 * W - 1 \in Nat /\ 2 * W - 1 < 2 * W
    BY <1>1
  <2> QED BY <1>1, <2>1, AddRange
<1>3. CASE TransmitPdcpPdu \/ ExpirePollRetransmitTimer \/ UNCHANGED vars
  BY <1>3 DEF Switches, TransmitPdcpPdu, ExpirePollRetransmitTimer, senderVars,
     receiverVars, radioVars, vars
<1>4. CASE \E n \in 1 .. MaxPduUnits : TransmitNew(n)
  BY <1>1, <1>4 DEF Switches, TransmitNew, SetPoll, receiverVars
<1>5. CASE Retransmit
  <2>1. UNCHANGED <<statusRequested, prohibit, grant, losses>>
    BY <1>5 DEF Retransmit, RetransmitRest, RetransmitSegment, RetransmitNothing,
       receiverVars, radioVars
  <2>2. PollFromRetx(FirstRetx)
    BY <1>5 DEF Retransmit, RetransmitRest, RetransmitSegment, RetransmitNothing
  <2>3. pollSn' \in SNs /\ pollTimer' \in BOOLEAN /\ pollExpired' \in BOOLEAN
    BY <1>2, <2>2 DEF PollFromRetx, SetPoll, Switches
  <2> QED BY <2>1, <2>3 DEF Switches
<1>6. CASE \E i \in DOMAIN statusCh : ReceiveStatus(i)
  <2>1. PICK i \in DOMAIN statusCh : ReceiveStatus(i)
    BY <1>6
  <2>2. UNCHANGED <<statusRequested, prohibit, grant, losses, pollSn, pollExpired>>
    BY <2>1 DEF ReceiveStatus, senderVars, receiverVars
  <2>3. pollTimer' \in BOOLEAN
    <3>1. CASE InTransmittingWindow(statusCh[i].ack)
      <4>1. pollTimer' = (pollTimer /\ pollSn \notin Reported(statusCh[i]))
        BY <2>1, <3>1 DEF ReceiveStatus
      <4> QED BY <4>1
    <3>2. CASE ~InTransmittingWindow(statusCh[i].ack)
      BY <2>1, <3>2 DEF ReceiveStatus, senderVars, Switches
    <3> QED BY <3>1, <3>2
  <2> QED BY <2>2, <2>3 DEF Switches
<1>7. CASE \E i \in DOMAIN dataCh : ReceiveData(i)
  <2>1. PICK i \in DOMAIN dataCh : ReceiveData(i)
    BY <1>7
  <2>2. UNCHANGED <<pollSn, pollTimer, pollExpired, prohibit, losses>>
    BY <2>1 DEF ReceiveData, senderVars
  <2>3. statusRequested' \in BOOLEAN /\ grant' \in BOOLEAN
    BY <2>1, Zenon DEF ReceiveData
  <2> QED BY <2>2, <2>3 DEF Switches
<1>8. CASE \/ ExpireReorderingTimer \/ ExpireStatusProhibitTimer
           \/ \E room \in 1 .. W : TransmitStatus(room)
  BY <1>8 DEF Switches, ExpireReorderingTimer, ExpireStatusProhibitTimer, TransmitStatus,
     senderVars, radioVars
<1>9. CASE \/ \E i \in DOMAIN dataCh : LoseData(i)
           \/ \E i \in DOMAIN statusCh : LoseStatus(i)
  BY <1>9 DEF Switches, LoseData, LoseStatus, senderVars, receiverVars
<1> QED BY <1>3, <1>4, <1>5, <1>6, <1>7, <1>8, <1>9 DEF Next

\* Every variable of the bearer keeps its type: ReassembleAndDeliver, with the
\* data it cuts and joins, included.
THEOREM TypeCorrect == Spec => []TypeOK
<1>1. Init => Switches
  BY WIsPositive DEF Init, Switches, SNs
<1>2. Inv /\ Switches /\ [Next]_vars => Switches'
  BY SwitchesStep
<1>3. Inv /\ PipeInv /\ Switches => TypeOK
  <2> SUFFICES ASSUME Inv, PipeInv, Switches PROVE TypeOK
    OBVIOUS
  <2>1. PICK x : Reached([out |-> delivered, keep |-> keepS0, error |-> noTransition], x)
                 /\ x \in Nat
    <3>1. Start(vrR) \in Nat
      BY DEF Inv, Shape, Start, PduRecs
    <3> QED BY <3>1 DEF PipeInv, Assembled
  <2>2. PICK n \in 0 .. x :
          At(n) <= x /\ delivered = Sdus(n) /\ keepS0 = Units(At(n), x) /\ noTransition = FALSE
    BY <2>1 DEF Reached
  <2>3. delivered \in Seq(Seq(Nat)) /\ keepS0 \in Seq(Nat) /\ noTransition \in BOOLEAN
    <3>1. At(n) \in Nat /\ Sdus(n) \in Seq(Seq(Nat))
      <4>1. n \in Nat
        BY <2>1
      <4> QED BY <4>1, Multiples, SdusAre
    <3>2. Units(At(n), x) \in Seq(Nat)
      BY <2>1, <2>2, <3>1, UnitsAre
    <3> QED BY <2>2, <3>1, <3>2
  <2> QED BY <2>3 DEF Inv, Shape, Switches, TypeOK, PduRecs, Entries
<1> QED BY <1>1, <1>2, <1>3, InvAlways, PipeAlways, PTL DEF Spec

\* No two SDUs hold the same units.
LEMMA SdusDiffer ==
  ASSUME NEW s \in Nat, NEW t \in Nat, s > 0, t > 0, WholeSdu(s) = WholeSdu(t)
  PROVE  s = t
<1>1. s - 1 \in Nat /\ t - 1 \in Nat /\ SduUnits \in Nat /\ SduUnits > 0
  BY ParametersAssumption
<1>2. /\ At(s - 1) \in Nat /\ At((s - 1) + 1) = At(s - 1) + SduUnits
      /\ At(t - 1) \in Nat /\ At((t - 1) + 1) = At(t - 1) + SduUnits
  BY <1>1, Multiples
<1>3. (s - 1) + 1 = s /\ (t - 1) + 1 = t
  OBVIOUS
<1>4. WholeSdu(s) = Units(At(s - 1), At(s)) /\ WholeSdu(t) = Units(At(t - 1), At(t))
  BY DEF WholeSdu, At
<1>5. At(s - 1) + 1 = At(t - 1) + 1
  <2>1. ASSUME NEW u \in Nat, At(u) \in Nat, At(u + 1) = At(u) + SduUnits
        PROVE  Units(At(u), At(u + 1))[1] = At(u) + 1
    <3>1. PICK a \in Nat, b \in Nat : a = At(u) /\ b = At(u + 1) /\ b = a + SduUnits
      BY <1>1, <2>1
    <3>2. a <= b /\ 1 \in 1 .. b - a
      BY <1>1, <3>1
    <3>3. Units(a, b)[1] = a + 1
      BY <3>2, UnitsAre
    <3> QED BY <3>1, <3>3
  <2>2. WholeSdu(s)[1] = At(s - 1) + 1
    BY <1>1, <1>2, <1>3, <1>4, <2>1
  <2>3. WholeSdu(t)[1] = At(t - 1) + 1
    BY <1>1, <1>2, <1>3, <1>4, <2>1
  <2> QED BY <2>2, <2>3
<1>6. ASSUME NEW a \in Nat, NEW b \in Nat, At(a) = At(b) PROVE a = b
  <2>1. At(a) \in Nat /\ At(b) \in Nat
    BY Multiples
  <2>2. ~(a < b) /\ ~(b < a)
    BY <1>1, <1>6, <2>1, AtOrder
  <2> QED BY <2>2
<1>7. s - 1 = t - 1
  <2>1. At(s - 1) = At(t - 1)
    BY <1>2, <1>5
  <2> QED BY <1>1, <1>6, <2>1
<1> QED BY <1>7

\* What the refinement mapping makes of the first n SDUs.
LEMMA MappedSdus ==
  ASSUME NEW s \in Nat, NEW n \in 0 .. s
  PROVE  [k \in DOMAIN Sdus(n) |->
            IF \E t \in 1 .. s : Sdus(n)[k] = WholeSdu(t)
            THEN CHOOSE t \in 1 .. s : Sdus(n)[k] = WholeSdu(t) ELSE 0] = [k \in 1 .. n |-> k]
<1>1. DOMAIN Sdus(n) = 1 .. n /\ \A k \in 1 .. n : Sdus(n)[k] = WholeSdu(k)
  BY DEF Sdus
<1>2. ASSUME NEW k \in 1 .. n
      PROVE  (IF \E t \in 1 .. s : Sdus(n)[k] = WholeSdu(t)
              THEN CHOOSE t \in 1 .. s : Sdus(n)[k] = WholeSdu(t) ELSE 0) = k
  <2>1. k \in 1 .. s /\ Sdus(n)[k] = WholeSdu(k)
    BY <1>1
  <2>2. \A t \in 1 .. s : Sdus(n)[k] = WholeSdu(t) => t = k
    <3> SUFFICES ASSUME NEW t \in 1 .. s, WholeSdu(k) = WholeSdu(t) PROVE t = k
      BY <2>1
    <3>1. k \in Nat /\ k > 0 /\ t \in Nat /\ t > 0
      OBVIOUS
    <3> QED BY <3>1, SdusDiffer
  <2> QED BY <2>1, <2>2
<1> QED BY <1>1, <1>2

\* PDCP has been given the first SDUs, and of those no more than were handed over.
Delivered == \E n \in 0 .. submitted : delivered = Sdus(n)

LEMMA OnlySubmitted ==
  ASSUME Inv, PipeInv
  PROVE  Delivered
<1>1. /\ submitted \in Nat /\ taken \in Nat /\ vtA \in SNs /\ vtS \in SNs /\ vrR \in SNs
      /\ pdu \in [SNs -> PduRecs]
  BY DEF Inv, Shape
<1>2. PICK x \in Nat : x = Start(vrR) /\ x <= taken
  <2>1. CASE vrR = vtS
    BY <1>1, <2>1 DEF Start
  <2>2. CASE vrR # vtS
    <3>1. Off(vrR, vtA) < Off(vtS, vtA)
      <4>1. /\ nSent \in Nat /\ nAcked \in Nat /\ nRcvd \in Nat /\ nRcvd <= nSent
            /\ Off(vtS, vtA) = nSent - nAcked /\ Off(vrR, vtA) = nRcvd - nAcked
        BY DEF Inv, Shape, Windows
      <4>2. Off(vrR, vtA) # Off(vtS, vtA)
        BY <1>1, <2>2, OffInjective
      <4> QED BY <4>1, <4>2
    <3>2. vrR \in Interval(vtA, vtS)
      BY <1>1, <3>1 DEF Interval
    <3>3. pdu[vrR].lo < pdu[vrR].hi /\ pdu[vrR].hi <= taken
      BY <3>2 DEF PipeInv, Framed
    <3>4. pdu[vrR].lo \in Nat /\ pdu[vrR].hi \in Nat
      BY <1>1 DEF PduRecs
    <3> QED BY <1>1, <2>2, <3>3, <3>4 DEF Start
  <2> QED BY <2>1, <2>2
<1>3. PICK n \in 0 .. x : At(n) <= x /\ delivered = Sdus(n)
  BY <1>2 DEF PipeInv, Assembled, Reached
<1>4. n <= submitted
  <2>1. taken <= At(submitted)
    BY DEF PipeInv, Framed
  <2>2. n \in Nat /\ At(n) \in Nat /\ At(submitted) \in Nat
    <3>1. n \in Nat
      BY <1>2
    <3> QED BY <1>1, <3>1, Multiples
  <2>3. ASSUME submitted < n PROVE FALSE
    <3>1. At(submitted) + SduUnits <= At(n)
      BY <1>1, <2>2, <2>3, AtOrder
    <3> QED BY <1>1, <1>2, <1>3, <2>1, <2>2, <3>1, ParametersAssumption
  <2> QED BY <1>1, <2>2, <2>3
<1> QED BY <1>1, <1>3, <1>4 DEF Delivered

\* What was delivered stays delivered.
LEMMA DeliveredGrows ==
  ASSUME Inv, PipeInv, [Next]_vars
  PROVE  \E n \in Nat, k \in Nat : n <= k /\ delivered = Sdus(n) /\ delivered' = Sdus(k)
<1>1. PICK x \in Nat : x = Start(vrR)
  BY DEF Inv, Shape, Start, PduRecs
<1>2. PICK n \in Nat : At(n) <= x /\ x < At(n) + SduUnits /\ delivered = Sdus(n)
  BY <1>1 DEF PipeInv, Assembled, Reached
<1>3. CASE UNCHANGED delivered
  BY <1>2, <1>3
<1>4. CASE \E i \in DOMAIN dataCh : ReceiveData(i)
  <2>1. Inv' /\ PipeInv' /\ Start(vrR) <= Start(vrR)'
    BY <1>4, ReceiveDataStep, ReceiveDataPipe
  <2>2. PICK y \in Nat : y = Start(vrR)'
    BY <2>1 DEF Inv, Shape, Start, PduRecs
  <2>3. PICK k \in Nat : At(k) <= y /\ y < At(k) + SduUnits /\ delivered' = Sdus(k)
    BY <2>1, <2>2 DEF PipeInv, Assembled, Reached
  <2>4. ASSUME k < n PROVE FALSE
    <3>1. At(k) + SduUnits <= At(n)
      BY <2>4, AtOrder
    <3>2. At(k) \in Nat /\ At(n) \in Nat /\ SduUnits \in Nat
      BY Multiples, ParametersAssumption
    <3> QED BY <1>1, <1>2, <2>1, <2>2, <2>3, <3>1, <3>2
  <2> QED BY <1>2, <2>3, <2>4
<1>5. CASE \/ TransmitPdcpPdu \/ \E size \in 1 .. MaxPduUnits : TransmitNew(size)
           \/ Retransmit \/ ExpirePollRetransmitTimer
           \/ \E i \in DOMAIN statusCh : ReceiveStatus(i)
  BY <1>3, <1>5 DEF TransmitPdcpPdu, TransmitNew, Retransmit, RetransmitRest,
    RetransmitSegment, RetransmitNothing, ExpirePollRetransmitTimer, ReceiveStatus, receiverVars
<1>6. CASE \/ ExpireReorderingTimer \/ ExpireStatusProhibitTimer
           \/ \E room \in 1 .. W : TransmitStatus(room)
           \/ \E i \in DOMAIN dataCh : LoseData(i)
           \/ \E i \in DOMAIN statusCh : LoseStatus(i)
           \/ UNCHANGED vars
  BY <1>3, <1>6 DEF ExpireReorderingTimer, ExpireStatusProhibitTimer, TransmitStatus,
    LoseData, LoseStatus, receiverVars, vars
<1> QED BY <1>4, <1>5, <1>6 DEF Next

\* A step of the bearer is a step of the pipe, or none.
LEMMA PipeRefined ==
  ASSUME Inv, PipeInv, Delivered, Delivered', submitted' \in Nat, [Next]_vars
  PROVE  [Pipe!Next]_(Pipe!vars)
<1> DEFINE Out == [k \in DOMAIN delivered |-> SduOf(delivered[k])]
<1>1. submitted \in Nat
  BY DEF Inv, Shape
<1>2. PICK n \in Nat, k \in Nat : n <= k /\ delivered = Sdus(n) /\ delivered' = Sdus(k)
  BY DeliveredGrows
<1>3. n <= submitted /\ k <= submitted'
  <2>1. ASSUME NEW a \in Nat, NEW b \in Nat, Sdus(a) = Sdus(b) PROVE a = b
    BY <2>1, SdusAre
  <2>2. PICK a \in 0 .. submitted : delivered = Sdus(a)
    BY DEF Delivered
  <2>3. PICK b \in 0 .. submitted' : delivered' = Sdus(b)
    BY DEF Delivered
  <2>4. a \in Nat /\ b \in Nat
    BY <1>1
  <2>5. a = n /\ b = k
    BY <1>2, <2>1, <2>2, <2>3, <2>4
  <2> QED BY <1>1, <2>2, <2>3, <2>5
<1>4. Out = [s \in 1 .. n |-> s]
  <2>1. n \in 0 .. submitted
    BY <1>1, <1>2, <1>3
  <2>2. Out = [s \in DOMAIN Sdus(n) |->
                 IF \E t \in 1 .. submitted : Sdus(n)[s] = WholeSdu(t)
                 THEN CHOOSE t \in 1 .. submitted : Sdus(n)[s] = WholeSdu(t) ELSE 0]
    BY <1>2 DEF SduOf, WholeSdu, Units
  <2> QED BY <1>1, <2>1, <2>2, MappedSdus
<1>5. Out' = [s \in 1 .. k |-> s]
  <2>1. k \in 0 .. submitted'
    BY <1>1, <1>2, <1>3
  <2>2. Out' = [s \in DOMAIN Sdus(k) |->
                  IF \E t \in 1 .. submitted' : Sdus(k)[s] = WholeSdu(t)
                  THEN CHOOSE t \in 1 .. submitted' : Sdus(k)[s] = WholeSdu(t) ELSE 0]
    BY <1>2 DEF SduOf, WholeSdu, Units
  <2> QED BY <2>1, <2>2, MappedSdus
<1> HIDE DEF Out
<1>6. Len(Out) = n
  BY <1>2, <1>4
<1>7. CASE TransmitPdcpPdu
  <2>1. submitted' = submitted + 1 /\ delivered' = delivered
    BY <1>7 DEF TransmitPdcpPdu, receiverVars
  <2>2. Out' = Out
    <3>1. n = k
      BY <1>2, <2>1, SdusAre
    <3> QED BY <1>4, <1>5, <3>1
  <2> QED BY <2>1, <2>2 DEF Pipe!Next, Pipe!Submit, Out
<1>8. CASE submitted' = submitted
  <2>1. CASE n = k
    <3>1. Out' = Out
      BY <1>4, <1>5, <2>1
    <3> QED BY <1>8, <3>1 DEF Pipe!vars, Out
  <2>2. CASE n # k
    <3>1. k \in Len(Out) + 1 .. submitted
      BY <1>1, <1>2, <1>3, <1>6, <1>8, <2>2
    <3> QED BY <1>5, <1>8, <3>1 DEF Pipe!Next, Pipe!Deliver, Out
  <2> QED BY <2>1, <2>2
<1>9. CASE \/ \E j \in 1 .. MaxPduUnits : TransmitNew(j)
           \/ Retransmit \/ ExpirePollRetransmitTimer
           \/ \E i \in DOMAIN statusCh : ReceiveStatus(i)
  <2>1. submitted' = submitted
    <3>1. CASE \E i \in DOMAIN statusCh : ReceiveStatus(i)
      BY <3>1 DEF ReceiveStatus, senderVars
    <3> QED BY <1>9, <3>1 DEF TransmitNew, Retransmit, RetransmitRest, RetransmitSegment,
               RetransmitNothing, ExpirePollRetransmitTimer
  <2> QED BY <1>8, <2>1
<1>10. CASE \/ \E i \in DOMAIN dataCh : ReceiveData(i)
            \/ ExpireReorderingTimer \/ ExpireStatusProhibitTimer
            \/ \E room \in 1 .. W : TransmitStatus(room)
            \/ \E i \in DOMAIN dataCh : LoseData(i)
            \/ \E i \in DOMAIN statusCh : LoseStatus(i)
            \/ UNCHANGED vars
  <2>1. submitted' = submitted
    <3>1. CASE \E i \in DOMAIN dataCh : ReceiveData(i)
      BY <3>1 DEF ReceiveData, senderVars
    <3> QED BY <1>10, <3>1 DEF ExpireReorderingTimer, ExpireStatusProhibitTimer,
               TransmitStatus, LoseData, LoseStatus, senderVars, vars
  <2> QED BY <1>8, <2>1
<1> QED BY <1>7, <1>8, <1>9, <1>10 DEF Next

\* ImplementsPipe for every window size, SDU size, workload and number of losses:
\* PDCP gets the SDUs whole, once and in order, because the PDUs of the window
\* take the stream without a gap, a message and the reception buffer only ever
\* hold the front of the PDU with their number, and ReassembleAndDeliver is
\* always at the unit where the PDU of VR(R) begins.
THEOREM BearerIsPipe == Spec => ImplementsPipe
<1>1. Inv /\ PipeInv => Delivered
  BY OnlySubmitted
<1>2. Inv => submitted \in Nat
  BY DEF Inv, Shape
<1>3. Inv /\ PipeInv /\ Delivered /\ Delivered' /\ (submitted \in Nat)' /\ [Next]_vars
        => [Pipe!Next]_(Pipe!vars)
  BY PipeRefined
<1>4. Init => Pipe!Init
  BY DEF Init, Pipe!Init
<1> QED BY <1>1, <1>2, <1>3, <1>4, InvAlways, PipeAlways, PTL DEF Spec, ImplementsPipe, Pipe!Spec

-----------------------------------------------------------------------------
(***************************************************************************)
(* What is left when nothing runs any more.  While the peer misses a PDU,  *)
(* the poll timer runs, or there is something to send that the peer misses *)
(* too or that carries a poll.                                             *)
(***************************************************************************)
\* No more than two PDUs are unacknowledged.  With three the poll can be lost for
\* good: it is left to a PDU that is acknowledged before it is sent again.
TwoPdus == nSent <= nAcked + 2

\* The last PDU sent, and which of two PDUs was sent later.
LastSn       == Add(vtS, 2 * W - 1)
Beyond(u, v) == Off(u, vtA) > Off(v, vtA)

\* Where a PDU always fits, none is ever sent or stored in part.
NoSegments ==
    /\ \A v \in SNs : retxSeg[v] = 0
    /\ \A m \in Messages(dataCh) : ~m.seg /\ m.from = 0
    /\ \A v \in SNs : rxon[v] # NoEntry => rxon[v].complete

\* VR(H) is behind a PDU that is there.
HighestIsThere == vrH # vrR => rxon[Add(vrH, 2 * W - 1)].complete

\* A PDU is reported missing when a later one is there.
HasSuccessor(u) == u + 1 < nSent /\ Received(u + 1)
NacksHaveASuccessor ==
    \A m \in Messages(statusCh) : \A v \in m.nacks : HasSuccessor(NumberIn(m, v))

\* The poll timer waits for an answer about the last PDU sent.
PollIsLast == pollTimer => pollSn = LastSn

\* A PDU that is not to be sent again, beyond one that is, has arrived.
RetxFirst ==
    \A v \in retx, u \in txed : Beyond(u, v) => Received(nAcked + Off(u, vtA))

\* The last PDU sent waits to be sent again only because the timer expired,
\* or another poll has gone out since.
LastInRetx == LastSn \in retx => pollTimer \/ pollExpired

\* The next PDU sent again polls, and there will be one: it lies beyond the
\* first missing one, and a STATUS PDU that acknowledges it reports that one.
PollToCome == pollExpired /\ \E v \in retx : Beyond(v, vrR)
Watched == nRcvd < nSent => pollTimer \/ ~TxonEmpty \/ vrR \in retx \/ PollToCome

\* A full window has the poll timer running or a PDU to send again.
FullWindowPolls == nSent = nAcked + W => pollTimer \/ retx # {}

RestInv == NoSegments /\ HighestIsThere /\ NacksHaveASuccessor /\ PollIsLast
           /\ RetxFirst /\ LastInRetx /\ Watched /\ FullWindowPolls

LEMMA Predecessor ==
  ASSUME NEW v \in SNs, NEW b \in SNs
  PROVE  /\ Add(v, 2 * W - 1) \in SNs
         /\ v # b => Off(Add(v, 2 * W - 1), b) = Off(v, b) - 1
         /\ Add(Add(v, 1), 2 * W - 1) = v
BY ParametersAssumption DEF SNs, Off, Add

\* The last PDU sent, while one is unacknowledged.
LEMMA LastIs ==
  ASSUME Inv, nAcked < nSent
  PROVE  LastSn \in Interval(vtA, vtS) /\ nAcked + Off(LastSn, vtA) = nSent - 1
<1>1. /\ vtA \in SNs /\ vtS \in SNs /\ nSent \in Nat /\ nAcked \in Nat
      /\ Off(vtS, vtA) = nSent - nAcked
  BY ReceptionFacts DEF Inv, Windows
<1>2. vtS # vtA BY <1>1, OffRange
<1>3. LastSn \in SNs /\ Off(LastSn, vtA) = Off(vtS, vtA) - 1
  BY <1>1, <1>2, Predecessor DEF LastSn
<1>. QED BY <1>1, <1>3 DEF Interval

\* The number of a PDU of the window.
LEMMA InWindow ==
  ASSUME Inv, NEW v \in Interval(vtA, vtS)
  PROVE  /\ v \in SNs /\ Off(v, vtA) \in Nat
         /\ nAcked + Off(v, vtA) < nSent
         /\ nAcked \in Nat /\ nSent \in Nat /\ nRcvd \in Nat
<1>1. /\ vtA \in SNs /\ vtS \in SNs /\ nSent \in Nat /\ nAcked \in Nat /\ nRcvd \in Nat
      /\ Off(vtS, vtA) = nSent - nAcked
  BY ReceptionFacts DEF Inv, Windows
<1>2. v \in SNs /\ Off(v, vtA) < Off(vtS, vtA) BY DEF Interval
<1>3. Off(v, vtA) \in Nat BY <1>1, <1>2, OffRange
<1>. QED BY <1>1, <1>2, <1>3

\* The first PDU that is missing is kept by the transmitting side.
Waiting == /\ vrR \in Interval(vtA, vtS) /\ vrR \in txed \cup retx
           /\ ~Received(nRcvd) /\ nAcked + Off(vrR, vtA) = nRcvd
LEMMA FirstMissing == Inv /\ nRcvd < nSent => Waiting
<1> SUFFICES ASSUME Inv, nRcvd < nSent PROVE Waiting
  OBVIOUS
<1>1. /\ vtA \in SNs /\ vtS \in SNs /\ vrR \in SNs
      /\ nSent \in Nat /\ nAcked \in Nat /\ nRcvd \in Nat
      /\ Off(vtS, vtA) = nSent - nAcked /\ Off(vrR, vtA) = nRcvd - nAcked
      /\ ~rxon[vrR].complete
  BY ReceptionFacts DEF Inv, Windows
<1>2. vrR \in Interval(vtA, vtS) /\ nAcked + Off(vrR, vtA) = nRcvd
  BY <1>1 DEF Interval
<1>3. ~Received(nRcvd)
  <2>1. nRcvd - nRcvd = 0 /\ ~(nRcvd < nRcvd) BY <1>1
  <2>2. Add(vrR, 0) = vrR BY <1>1, AddRange, WIsPositive
  <2>. QED BY <1>1, <2>1, <2>2 DEF Received
<1>4. vrR \in txed \cup retx
  BY <1>2, <1>3 DEF Inv, ReleasedIsReceived
<1>. QED BY <1>2, <1>3, <1>4 DEF Waiting

LEMMA RestInit ==
  ASSUME Init
  PROVE  TwoPdus /\ RestInv
<1>1. Messages(<<>>) = {} BY DEF Messages
<1>2. NoSegments /\ NacksHaveASuccessor
  BY <1>1 DEF Init, NoSegments, NacksHaveASuccessor
<1>3. HighestIsThere /\ PollIsLast /\ RetxFirst /\ LastInRetx
  BY DEF Init, HighestIsThere, PollIsLast, RetxFirst, LastInRetx
<1>4. Watched /\ TwoPdus /\ FullWindowPolls
  BY WIsPositive DEF Init, Watched, TwoPdus, FullWindowPolls
<1>. QED BY <1>2, <1>3, <1>4 DEF RestInv

\* Fewer messages, and more to send, leave it as it is.
LEMMA RestFewer ==
  ASSUME RestInv,
         Messages(dataCh') \subseteq Messages(dataCh),
         Messages(statusCh') \subseteq Messages(statusCh),
         TxonEmpty' => TxonEmpty,
         UNCHANGED <<vtA, vtS, txed, retx, retxSeg, pollSn, pollTimer, pollExpired,
                     nSent, nAcked, vrR, vrH, rxon, nRcvd>>
  PROVE  RestInv'
<1>1. NoSegments' BY DEF RestInv, NoSegments
<1>2. HighestIsThere' BY DEF RestInv, HighestIsThere
<1>3. NacksHaveASuccessor'
  BY DEF RestInv, NacksHaveASuccessor, HasSuccessor, Received
<1>4. PollIsLast' /\ LastInRetx' BY DEF RestInv, PollIsLast, LastInRetx, LastSn
<1>5. RetxFirst' BY DEF RestInv, RetxFirst, Beyond, Received
<1>6. Watched'
  <2>1. PollToCome => PollToCome' BY DEF PollToCome, Beyond
  <2>. QED BY <2>1 DEF RestInv, Watched
<1>7. FullWindowPolls' BY DEF RestInv, FullWindowPolls
<1>. QED BY <1>1, <1>2, <1>3, <1>4, <1>5, <1>6, <1>7 DEF RestInv

LEMMA RestQuiet ==
  ASSUME Inv, PipeInv, RestInv,
         \/ TransmitPdcpPdu
         \/ ExpireReorderingTimer
         \/ ExpireStatusProhibitTimer
         \/ \E i \in DOMAIN dataCh : LoseData(i)
         \/ \E i \in DOMAIN statusCh : LoseStatus(i)
         \/ UNCHANGED vars
  PROVE  RestInv'
<1>1. dataCh \in Seq(DataPdus) /\ statusCh \in Seq(StatusPdus)
  BY DEF Inv, Shape
<1>2. CASE TransmitPdcpPdu
  <2>1. UNCHANGED <<vtA, vtS, txed, retx, retxSeg, pollSn, pollTimer, pollExpired,
                    nSent, nAcked, vrR, vrH, rxon, nRcvd, dataCh, statusCh, taken>>
    BY <1>2 DEF TransmitPdcpPdu, receiverVars, radioVars
  <2>2. submitted \in Nat /\ taken \in Nat /\ taken <= At(submitted)
    BY DEF Inv, Shape, PipeInv, Framed
  <2>3. submitted' = submitted + 1 BY <1>2 DEF TransmitPdcpPdu
  <2>4. taken' # At(submitted')
    <3>1. At(submitted + 1) = At(submitted) + SduUnits /\ At(submitted) \in Nat
      BY <2>2, Multiples
    <3>. QED BY <2>1, <2>2, <2>3, <3>1, ParametersAssumption
  <2>5. ~TxonEmpty' BY <2>4 DEF TxonEmpty, At
  <2>. QED BY <2>1, <2>5, RestFewer
<1>3. CASE ExpireReorderingTimer \/ ExpireStatusProhibitTimer \/ UNCHANGED vars
  <2>1. /\ UNCHANGED <<vtA, vtS, txed, retx, retxSeg, pollSn, pollTimer, pollExpired,
                       nSent, nAcked, vrR, vrH, rxon, nRcvd, dataCh, statusCh>>
        /\ UNCHANGED <<taken, submitted>>
    BY <1>3 DEF ExpireReorderingTimer, ExpireStatusProhibitTimer, senderVars,
       receiverVars, radioVars, vars
  <2>2. TxonEmpty' => TxonEmpty BY <2>1 DEF TxonEmpty
  <2>. QED BY <2>1, <2>2, RestFewer
<1>4. CASE \/ \E i \in DOMAIN dataCh : LoseData(i)
           \/ \E i \in DOMAIN statusCh : LoseStatus(i)
  <2>1. /\ UNCHANGED <<vtA, vtS, txed, retx, retxSeg, pollSn, pollTimer, pollExpired,
                       nSent, nAcked, vrR, vrH, rxon, nRcvd>>
        /\ UNCHANGED <<taken, submitted>>
    BY <1>4 DEF LoseData, LoseStatus, senderVars, receiverVars
  <2>2. TxonEmpty' => TxonEmpty BY <2>1 DEF TxonEmpty
  <2>3. /\ Messages(dataCh') \subseteq Messages(dataCh)
        /\ Messages(statusCh') \subseteq Messages(statusCh)
    BY <1>1, <1>4, ChannelWithout DEF LoseData, LoseStatus
  <2>. QED BY <2>1, <2>2, <2>3, RestFewer
<1>. QED BY <1>2, <1>3, <1>4

LEMMA RestNew ==
  ASSUME Inv, RestInv, NEW n \in Nat, TransmitNew(n)
  PROVE  RestInv'
<1> DEFINE p == [num |-> nSent, lo |-> taken, hi |-> taken + n]
           e == [sn |-> vtS, pdu |-> p, from |-> 0, to |-> n,
                 seg |-> FALSE, last |-> TRUE, poll |-> TRUE]
<1>1. /\ dataCh' = Append(dataCh, e)
      /\ retx = {} /\ retx' = {} /\ nSent' = nSent + 1 /\ vtS' = Add(vtS, 1)
      /\ pollTimer' = TRUE /\ pollSn' = vtS
      /\ UNCHANGED <<vtA, retxSeg, nAcked, vrR, vrH, rxon, nRcvd, statusCh>>
  BY DEF TransmitNew, SetPoll, receiverVars
<1>2. dataCh \in Seq(DataPdus) /\ vtS \in SNs /\ nSent \in Nat /\ taken \in Nat
  BY DEF Inv, Shape
<1>3. e \in DataPdus BY <1>2 DEF DataPdus
<1>4. ~e.seg /\ e.from = 0 OBVIOUS
<1> HIDE DEF e
<1>5. Messages(dataCh') = Messages(dataCh) \cup {e}
  BY <1>1, <1>2, <1>3, ChannelAppend
<1>6. NoSegments' BY <1>1, <1>4, <1>5 DEF RestInv, NoSegments
<1>7. HighestIsThere' BY <1>1 DEF RestInv, HighestIsThere
<1>8. NacksHaveASuccessor'
  <2>1. ASSUME NEW m \in Messages(statusCh), NEW v \in m.nacks
        PROVE  HasSuccessor(NumberIn(m, v))'
    <3>1. HasSuccessor(NumberIn(m, v)) BY DEF RestInv, NacksHaveASuccessor
    <3>2. m \in StatusPdus BY DEF Messages, Inv, Shape
    <3>3. NumberIn(m, v) \in Int
      <4>1. m.ack \in SNs /\ v \in SNs /\ m.num \in Nat BY <3>2 DEF StatusPdus
      <4>2. Off(m.ack, v) \in Nat BY <4>1, OffRange
      <4>. QED BY <4>1, <4>2 DEF NumberIn
    <3>. QED BY <1>1, <1>2, <3>1, <3>3 DEF HasSuccessor, Received
  <2>. QED BY <1>1, <2>1 DEF NacksHaveASuccessor
<1>9. PollIsLast' BY <1>1, <1>2, Predecessor DEF PollIsLast, LastSn
<1>10. RetxFirst' /\ LastInRetx' /\ Watched' /\ FullWindowPolls'
  BY <1>1 DEF RetxFirst, LastInRetx, Watched, FullWindowPolls
<1>. QED BY <1>6, <1>7, <1>8, <1>9, <1>10 DEF RestInv

LEMMA FullWindow ==
  ASSUME Inv
  PROVE  /\ Stalled <=> nSent = nAcked + W
         /\ Stalled => vtA \in txed \cup retx
<1>1. /\ vtA \in SNs /\ vtS \in SNs /\ nSent \in Nat /\ nAcked \in Nat
      /\ Off(vtS, vtA) = nSent - nAcked
  BY ReceptionFacts DEF Inv, Windows
<1>2. Add(vtA, W) \in SNs /\ Off(Add(vtA, W), vtA) = W
  BY <1>1, AddRange, WIsPositive
<1>3. Stalled <=> nSent = nAcked + W
  <2>1. Stalled => Off(vtS, vtA) = W BY <1>2 DEF Stalled
  <2>2. Off(vtS, vtA) = W => Stalled BY <1>1, <1>2, OffInjective DEF Stalled
  <2>. QED BY <1>1, <2>1, <2>2, WIsPositive
<1>4. nSent = nAcked + W => vtA # vtS BY <1>1, OffRange, WIsPositive
<1>. QED BY <1>3, <1>4 DEF Inv, BuffersAgree

LEMMA RestAgain ==
  ASSUME Inv, RestInv, TwoPdus, AlwaysBigEnough, NEW n \in Nat, RetransmitRest(n)
  PROVE  RestInv'
<1> DEFINE v == FirstRetx
           e == [sn |-> v, pdu |-> pdu[v], from |-> retxSeg[v], to |-> PduLen(pdu[v]),
                 seg |-> retxSeg[v] > 0, last |-> TRUE, poll |-> RetxPolls(v)]
<1>1. /\ dataCh' = Append(dataCh, e) /\ PollFromRetx(v) /\ retx # {}
      /\ txed' = txed \cup {v} /\ retx' = retx \ {v}
      /\ retxSeg' = [retxSeg EXCEPT ![v] = 0]
      /\ UNCHANGED <<submitted, taken, vtA, vtS, nSent, nAcked, vrR, vrH, rxon, nRcvd,
                     statusCh>>
  BY DEF RetransmitRest, receiverVars
<1>2. v \in retx /\ v \in Interval(vtA, vtS)
  BY <1>1, FirstRetxExists
<1>3. \A u \in retx : Off(v, vtA) <= Off(u, vtA)
  BY <1>1, FirstRetxExists
<1>4. /\ dataCh \in Seq(DataPdus) /\ pdu \in [SNs -> PduRecs] /\ retxSeg \in [SNs -> Nat]
      /\ retx \subseteq Interval(vtA, vtS)
  BY DEF Inv, Shape, BuffersAgree
<1>5. v \in SNs /\ Off(v, vtA) \in Nat BY <1>2, InWindow
<1>6. retxSeg[v] = 0 BY <1>5 DEF RestInv, NoSegments
<1>7. e \in DataPdus
  <2>1. pdu[v] \in PduRecs BY <1>4, <1>5
  <2>2. pdu[v].lo \in Nat /\ pdu[v].hi \in Nat /\ pdu[v].lo <= pdu[v].hi
    BY <1>5, <2>1 DEF PduRecs, Inv, Numbered
  <2>3. PduLen(pdu[v]) \in Nat BY <2>2 DEF PduLen
  <2>4. RetxPolls(v) \in BOOLEAN BY DEF RetxPolls
  <2> HIDE DEF v
  <2>. QED BY <1>5, <1>6, <2>1, <2>3, <2>4 DEF DataPdus, PduRecs
<1>8. ~e.seg /\ e.from = 0
  <2> HIDE DEF v
  <2>1. e.seg = (retxSeg[v] > 0) BY Zenon
  <2>2. e.from = retxSeg[v] BY Zenon
  <2>3. ~(retxSeg[v] > 0) BY <1>6
  <2>. QED BY <1>6, <2>1, <2>2, <2>3, Zenon
<1> HIDE DEF e, v
<1>9. Messages(dataCh') = Messages(dataCh) \cup {e}
  BY <1>1, <1>4, <1>7, ChannelAppend
<1>10. NoSegments' BY <1>1, <1>4, <1>8, <1>9 DEF RestInv, NoSegments
<1>11. HighestIsThere' BY <1>1 DEF RestInv, HighestIsThere
<1>12. NacksHaveASuccessor'
  BY <1>1 DEF RestInv, NacksHaveASuccessor, HasSuccessor, Received
<1>13. /\ LastSn' = LastSn
       /\ RetxPolls(v) => pollTimer' = TRUE /\ pollSn' = LastSn
       /\ ~RetxPolls(v) => /\ UNCHANGED <<pollSn, pollTimer, pollExpired>> /\ ~pollExpired
  BY <1>1 DEF PollFromRetx, SetPoll, LastSn, RetxPolls
<1>14. PollIsLast' /\ LastInRetx'
  BY <1>1, <1>13 DEF RestInv, PollIsLast, LastInRetx
<1>15. RetxFirst'
  <2>1. ASSUME NEW w \in retx, NEW u \in txed \cup {v}, Beyond(u, w)
        PROVE  Received(nAcked + Off(u, vtA))
    <3>1. u # v
      <4>1. Off(w, vtA) \in Nat BY <1>4, InWindow
      <4>. QED BY <1>3, <1>5, <2>1, <4>1 DEF Beyond
    <3>. QED BY <2>1, <3>1 DEF RestInv, RetxFirst
  <2>2. \A u, w : Beyond(u, w)' <=> Beyond(u, w) BY <1>1 DEF Beyond
  <2>. QED BY <1>1, <2>1, <2>2 DEF RetxFirst, Received
<1>16. Watched'
  <2> SUFFICES ASSUME nRcvd < nSent, ~pollTimer', TxonEmpty PROVE vrR \in retx'
    BY <1>1 DEF Watched, TxonEmpty
  <2>1. ~RetxPolls(v) /\ ~pollTimer /\ ~pollExpired BY <1>13
  <2>2. vrR \in retx BY <2>1 DEF RestInv, Watched, PollToCome
  <2>3. ASSUME vrR = v PROVE FALSE
    \* Another one is to be sent again: it is the last one, and polled for.
    <3>1. PICK w \in retx : w # v BY <1>2, <1>6, <2>1 DEF RetxPolls
    <3>2. /\ w \in SNs /\ Off(w, vtA) \in Nat /\ nAcked + Off(w, vtA) < nSent
          /\ nAcked \in Nat /\ nSent \in Nat /\ vtA \in SNs
      BY <1>4, InWindow DEF Inv, Shape
    <3>3. Off(w, vtA) # Off(v, vtA) /\ Off(v, vtA) <= Off(w, vtA)
      BY <1>3, <1>5, <3>1, <3>2, OffInjective
    <3>4. Off(w, vtA) = 1 /\ nSent = nAcked + 2
      BY <1>5, <3>2, <3>3 DEF TwoPdus
    <3>5. LastSn \in SNs /\ nAcked + Off(LastSn, vtA) = nSent - 1 /\ Off(LastSn, vtA) \in Nat
      <4>1. nAcked < nSent BY <3>2, <3>4
      <4>. QED BY <4>1, LastIs, InWindow
    <3>6. LastSn = w
      <4>1. Off(LastSn, vtA) = Off(w, vtA) BY <3>2, <3>4, <3>5
      <4>. QED BY <3>2, <3>5, <4>1, OffInjective
    <3>. QED BY <2>1, <3>1, <3>6 DEF RestInv, LastInRetx
  <2>. QED BY <1>1, <2>2, <2>3
<1>17. FullWindowPolls'
  <2>1. nSent = nAcked + W => RetxPolls(v) BY FullWindow DEF RetxPolls
  <2>. QED BY <1>1, <1>13, <2>1 DEF FullWindowPolls
<1>. QED BY <1>10, <1>11, <1>12, <1>14, <1>15, <1>16, <1>17 DEF RestInv

LEMMA RestExpiry ==
  ASSUME Inv, RestInv, ExpirePollRetransmitTimer
  PROVE  RestInv'
<1>1. /\ pollExpired' = TRUE /\ pollTimer' = FALSE
      /\ UNCHANGED <<submitted, taken, vtA, vtS, retxSeg, pollSn, nSent, nAcked, vrR, vrH,
                     rxon, nRcvd, dataCh, statusCh>>
  BY DEF ExpirePollRetransmitTimer, receiverVars, radioVars
<1>2. txed \cup retx \subseteq Interval(vtA, vtS) BY DEF Inv, BuffersAgree
<1>3. \/ txed' = {} /\ retx' = retx \cup txed
      \/ txed' = txed /\ retx' = retx /\ ~(TxonEmpty /\ retx = {}) /\ ~Stalled
  <2>1. CASE (TxonEmpty /\ retx = {}) \/ Stalled
    BY <1>2, <2>1 DEF ExpirePollRetransmitTimer
  <2>2. CASE ~((TxonEmpty /\ retx = {}) \/ Stalled)
    BY <2>2 DEF ExpirePollRetransmitTimer
  <2>. QED BY <2>1, <2>2
<1>4. NoSegments' BY <1>1 DEF RestInv, NoSegments
<1>5. HighestIsThere' BY <1>1 DEF RestInv, HighestIsThere
<1>6. NacksHaveASuccessor'
  BY <1>1 DEF RestInv, NacksHaveASuccessor, HasSuccessor, Received
<1>7. PollIsLast' /\ LastInRetx' BY <1>1 DEF PollIsLast, LastInRetx
<1>8. RetxFirst'
  <2>1. \A u, w : Beyond(u, w)' <=> Beyond(u, w) BY <1>1 DEF Beyond
  <2>. QED BY <1>1, <1>3, <2>1 DEF RestInv, RetxFirst, Received
<1>9. Watched'
  <2> SUFFICES ASSUME nRcvd < nSent, TxonEmpty, vrR \notin retx'
               PROVE  \E v \in retx' : Beyond(v, vrR)
    BY <1>1 DEF Watched, TxonEmpty, PollToCome, Beyond
  <2>1. Waiting BY FirstMissing
  <2>2. retx' = retx /\ retx # {} /\ vrR \in txed /\ vrR \in Interval(vtA, vtS)
    BY <1>3, <2>1 DEF Waiting
  <2>3. PICK w \in retx : TRUE BY <2>2
  <2>4. /\ Off(w, vtA) \in Nat /\ Off(vrR, vtA) \in Nat /\ w \in SNs /\ vrR \in SNs
        /\ vtA \in SNs
    BY <1>2, <2>2, InWindow DEF Inv, Shape
  <2>5. ~Beyond(vrR, w) BY <2>1, <2>2 DEF Waiting, RestInv, RetxFirst
  <2>6. Off(w, vtA) # Off(vrR, vtA)
    <3>1. w # vrR BY <2>2
    <3>. QED BY <2>4, <3>1, OffInjective
  <2>7. Beyond(w, vrR) BY <2>4, <2>5, <2>6 DEF Beyond
  <2>. QED BY <2>2, <2>7
<1>10. FullWindowPolls' BY <1>1, <1>3, FullWindow DEF FullWindowPolls
<1>. QED BY <1>4, <1>5, <1>6, <1>7, <1>8, <1>9, <1>10 DEF RestInv

\* A STATUS PDU is built while at most the first of two PDUs is missing.
LEMMA RestReport ==
  ASSUME Inv, RestInv, TwoPdus, NEW room \in Nat, TransmitStatus(room)
  PROVE  RestInv'
<1>1. PICK end \in EndsOfNacks(room) :
        statusCh' = Append(statusCh,
          [ack |-> AckSn(end), nacks |-> Missing \cap Interval(vrR, end),
           low |-> nRcvd, num |-> nRcvd + Off(AckSn(end), vrR)])
  BY DEF TransmitStatus
<1> DEFINE ack == AckSn(end)
           nacks == Missing \cap Interval(vrR, end)
           m == [ack |-> ack, nacks |-> nacks, low |-> nRcvd,
                 num |-> nRcvd + Off(ack, vrR)]
<1>2. UNCHANGED <<submitted, taken, vtA, vtS, txed, retx, retxSeg, pollSn, pollTimer,
                  pollExpired, vrR, vrH, rxon, nSent, nAcked, nRcvd, dataCh>>
  BY DEF TransmitStatus, senderVars
<1>3. /\ vrR \in SNs /\ vrMs \in SNs /\ vrH \in SNs /\ rxon \in [SNs -> Entries]
      /\ nSent \in Nat /\ nAcked \in Nat /\ nRcvd \in Nat /\ nAcked <= nRcvd
      /\ nSent <= nAcked + W
      /\ Off(vrMs, vrR) <= Off(vrH, vrR) /\ Off(vrH, vrR) <= nSent - nRcvd
      /\ Off(vrMs, vrR) \in Nat /\ Off(vrH, vrR) \in Nat
  BY ReceptionFacts
<1>4. ack \in SNs /\ statusCh \in Seq(StatusPdus)
  BY <1>1, EndAndAck DEF Inv, Shape
<1>5. Off(ack, vrR) \in Nat BY <1>3, <1>4, OffRange
<1>6. nacks \subseteq SNs BY DEF Missing, Interval
<1>7. m \in StatusPdus
  <2> HIDE DEF ack, nacks
  <2>. QED BY <1>3, <1>4, <1>5, <1>6 DEF StatusPdus
<1>8. statusCh' = Append(statusCh, m) BY <1>1
<1>9. m.nacks = nacks /\ NumberIn(m, vrR) = nRcvd
  <2> HIDE DEF ack, nacks
  <2>1. m.ack = ack /\ m.num = nRcvd + Off(ack, vrR) OBVIOUS
  <2> HIDE DEF m
  <2>2. NumberIn(m, vrR) = (nRcvd + Off(ack, vrR)) - Off(ack, vrR) BY <2>1 DEF NumberIn
  <2>3. NumberIn(m, vrR) = nRcvd BY <1>3, <1>5, <2>2
  <2>4. m.nacks = nacks BY DEF m
  <2>. QED BY <2>3, <2>4
<1>10. ASSUME NEW v \in nacks PROVE v = vrR /\ HasSuccessor(nRcvd)
  <2>1. v \in SNs /\ Off(v, vrR) < Off(vrMs, vrR) /\ ~rxon[v].complete
    BY DEF Missing, Interval
  <2>2. Off(v, vrR) \in Nat BY <1>3, <2>1, OffRange
  <2>3. Off(vrH, vrR) > Off(v, vrR) /\ Off(vrH, vrR) <= 2
    BY <1>3, <2>1, <2>2 DEF TwoPdus
  <2> DEFINE u == Add(vrH, 2 * W - 1)
  <2>4. vrH # vrR
    <3>1. Off(vrR, vrR) = 0 BY <1>3, OffRange
    <3>. QED BY <1>3, <2>2, <2>3, <3>1
  <2>5. u \in SNs /\ Off(u, vrR) = Off(vrH, vrR) - 1 BY <1>3, <2>4, Predecessor
  <2>6. rxon[u].complete BY <2>4 DEF RestInv, HighestIsThere
  <2> HIDE DEF u
  <2>7. Off(v, vrR) # Off(u, vrR)
    <3>1. u # v BY <2>1, <2>6
    <3>. QED BY <1>3, <2>1, <2>5, <3>1, OffInjective
  <2>8. Off(v, vrR) = 0 /\ Off(u, vrR) = 1 /\ nSent = nRcvd + 2
    BY <1>3, <2>2, <2>3, <2>5, <2>7 DEF TwoPdus
  <2>9. v = vrR BY <1>3, <2>1, <2>8, OffRange
  <2>10. Add(vrR, 1) = u BY <1>3, <2>5, <2>8, AddOff
  <2>11. Received(nRcvd + 1)
    <3>1. (nRcvd + 1) - nRcvd = 1 /\ 1 < W BY <1>3, <2>8, WIsPositive
    <3>2. rxon[Add(vrR, (nRcvd + 1) - nRcvd)].complete BY <2>6, <2>10, <3>1
    <3>. QED BY <3>1, <3>2 DEF Received
  <2>. QED BY <1>3, <2>8, <2>9, <2>11 DEF HasSuccessor
<1> HIDE DEF m, nacks
<1>11. Messages(statusCh') = Messages(statusCh) \cup {m}
  BY <1>4, <1>7, <1>8, ChannelAppend
<1>12. \A x \in Messages(statusCh') : \A v \in x.nacks : HasSuccessor(NumberIn(x, v))
  BY <1>9, <1>10, <1>11 DEF RestInv, NacksHaveASuccessor
<1>13. NacksHaveASuccessor'
  BY <1>2, <1>12 DEF NacksHaveASuccessor, HasSuccessor, Received
<1>14. NoSegments' BY <1>2 DEF RestInv, NoSegments
<1>15. HighestIsThere' BY <1>2 DEF RestInv, HighestIsThere
<1>16. PollIsLast' /\ LastInRetx' BY <1>2 DEF RestInv, PollIsLast, LastInRetx, LastSn
<1>17. RetxFirst' BY <1>2 DEF RestInv, RetxFirst, Beyond, Received
<1>18. Watched'
  <2>1. PollToCome => PollToCome' BY <1>2 DEF PollToCome, Beyond
  <2>2. TxonEmpty' <=> TxonEmpty BY <1>2 DEF TxonEmpty
  <2>. QED BY <1>2, <2>1, <2>2 DEF RestInv, Watched
<1>19. FullWindowPolls' BY <1>2 DEF RestInv, FullWindowPolls
<1>. QED BY <1>13, <1>14, <1>15, <1>16, <1>17, <1>18, <1>19 DEF RestInv

LEMMA RestStatus ==
  ASSUME Inv, Inv', RestInv, TwoPdus, NEW i \in DOMAIN statusCh, ReceiveStatus(i)
  PROVE  RestInv'
<1> DEFINE m == statusCh[i]
           nacked == Reported(m) \cap m.nacks
           acked  == Reported(m) \ m.nacks
<1>1. /\ Messages(statusCh') \subseteq Messages(statusCh)
      /\ m \in Messages(statusCh) /\ m \in StatusPdus
  <2>1. statusCh \in Seq(StatusPdus) BY DEF Inv, Shape
  <2>. QED BY <2>1, ChannelWithout DEF ReceiveStatus
<1>2. CASE ~InTransmittingWindow(m.ack)
  <2>1. /\ UNCHANGED <<vtA, vtS, txed, retx, retxSeg, pollSn, pollTimer, pollExpired,
                       nSent, nAcked, vrR, vrH, rxon, nRcvd, dataCh>>
        /\ UNCHANGED <<taken, submitted>>
    BY <1>2 DEF ReceiveStatus, senderVars, receiverVars
  <2>2. TxonEmpty' => TxonEmpty BY <2>1 DEF TxonEmpty
  <2>. QED BY <1>1, <2>1, <2>2, RestFewer
<1>3. CASE InTransmittingWindow(m.ack)
  <2>1. /\ retx' = (retx \ acked) \cup (txed \cap nacked)
        /\ txed' = txed \ Reported(m)
        /\ retxSeg' = RestsWithout(acked)
        /\ pollTimer' = (pollTimer /\ pollSn \notin Reported(m))
        /\ vtA' = NewVtA(m) /\ nAcked' = nAcked + Off(NewVtA(m), vtA)
        /\ UNCHANGED <<submitted, taken, vtS, pollSn, pollExpired, nSent, vrR, vrH, rxon,
                       nRcvd, dataCh>>
    BY <1>3 DEF ReceiveStatus, receiverVars
  <2>2. /\ vtA \in SNs /\ vtS \in SNs /\ vtA' \in SNs
        /\ nSent \in Nat /\ nAcked \in Nat /\ nRcvd \in Nat /\ nAcked' \in Nat
        /\ txed \cap retx = {} /\ txed \cup retx \subseteq Interval(vtA, vtS)
        /\ txed' \cup retx' \subseteq Interval(vtA', vtS)
    BY <2>1 DEF Inv, Shape, BuffersAgree
  <2>3. /\ m.num \in Nat
        /\ Reported(m) = {v \in SNs : Off(v, vtA) < m.num - nAcked}
        /\ \A v \in Reported(m) : NumberIn(m, v) = nAcked + Off(v, vtA)
        /\ \A v \in Reported(m) :
             nAcked + Off(v, vtA) = (IF m.low > nAcked THEN m.low ELSE nAcked) => v \in m.nacks
        /\ Off(vtA', vtA) = nAcked' - nAcked /\ nAcked <= nAcked'
        /\ nAcked' = IF m.low > nAcked THEN m.low ELSE nAcked
    BY <1>1, <1>3, <2>1, <2>2, StatusMeans
  <2>16. Off(m.ack, vtA) < W BY <1>3 DEF InTransmittingWindow
  <2> HIDE DEF m
  \* The number of a PDU is the same in the new window.
  <2>4. ASSUME NEW v \in Interval(vtA', vtS)
        PROVE  nAcked' + Off(v, vtA') = nAcked + Off(v, vtA)
    <3>1. v \in SNs /\ Off(v, vtA') \in Nat /\ Off(v, vtA') < Off(vtS, vtA')
      BY <2>2, OffRange DEF Interval
    <3>2. Off(vtS, vtA') = nSent - nAcked' /\ nSent <= nAcked + W
      BY <2>1, ReceptionFacts DEF Inv, Windows
    <3>3. Off(v, vtA') + Off(vtA', vtA) < 2 * W
      BY <2>2, <2>3, <3>1, <3>2, WIsPositive
    <3>4. Off(v, vtA) = Off(v, vtA') + Off(vtA', vtA)
      BY <2>2, <3>1, <3>3, Chain
    <3>. QED BY <2>2, <2>3, <3>1, <3>4
  \* Only the first of two PDUs is reported missing.
  <2>5. ASSUME NEW v \in nacked
        PROVE  /\ nSent = nAcked + 2 /\ Off(v, vtA) = 0
               /\ Received(nAcked + 1)
    <3>1. HasSuccessor(nAcked + Off(v, vtA)) /\ v \in SNs
      BY <1>1, <2>3 DEF RestInv, NacksHaveASuccessor
    <3>2. Off(v, vtA) \in Nat BY <2>2, <3>1, OffRange
    <3>3. nSent = nAcked + 2 /\ Off(v, vtA) = 0
      BY <2>2, <3>1, <3>2 DEF HasSuccessor, TwoPdus
    <3>. QED BY <2>2, <3>1, <3>3 DEF HasSuccessor
  <2>6. ASSUME NEW v \in retx' PROVE v \in Interval(vtA, vtS) /\ (v \in retx \/ v \in nacked)
    BY <2>1, <2>2
  <2>7. NoSegments' BY <2>1 DEF RestInv, NoSegments, RestsWithout
  <2>8. HighestIsThere' BY <2>1 DEF RestInv, HighestIsThere
  <2>9. NacksHaveASuccessor'
    BY <1>1, <2>1 DEF RestInv, NacksHaveASuccessor, HasSuccessor, Received
  <2>10. PollIsLast' BY <2>1 DEF RestInv, PollIsLast, LastSn
  <2>11. LastSn' = LastSn BY <2>1 DEF LastSn
  <2>12. ASSUME LastSn \in retx' PROVE pollTimer' \/ pollExpired'
    <3>1. LastSn \in Interval(vtA, vtS) BY <2>6, <2>12
    <3>2. nAcked + Off(LastSn, vtA) = nSent - 1
      <4>1. nAcked < nSent BY <3>1, InWindow
      <4>. QED BY <4>1, LastIs
    <3>3. LastSn \notin nacked
      <4>1. ASSUME LastSn \in nacked PROVE FALSE
        <5>1. nSent = nAcked + 2 /\ Off(LastSn, vtA) = 0 BY <2>5, <4>1
        <5>. QED BY <2>2, <3>2, <5>1
      <4>. QED BY <4>1
    <3>4. LastSn \in retx /\ LastSn \notin Reported(m)
      BY <2>1, <2>12, <3>3
    <3>. QED BY <2>1, <3>4 DEF RestInv, LastInRetx, PollIsLast
  <2>13. LastInRetx' BY <2>11, <2>12 DEF LastInRetx
  <2>14. RetxFirst'
    <3>1. ASSUME NEW v \in retx', NEW u \in txed', Off(u, vtA') > Off(v, vtA')
          PROVE  Received(nAcked' + Off(u, vtA'))
      <4>1. /\ u \in Interval(vtA', vtS) /\ v \in Interval(vtA', vtS)
            /\ u \in txed /\ u \in Interval(vtA, vtS) /\ v \in Interval(vtA, vtS)
        BY <2>1, <2>2, <2>6
      <4>2. /\ Off(u, vtA) \in Nat /\ Off(v, vtA) \in Nat
            /\ nAcked + Off(u, vtA) < nSent
        BY <4>1, InWindow
      <4>3. /\ Off(u, vtA') \in Nat /\ Off(v, vtA') \in Nat
        BY <2>2, <4>1, OffRange DEF Interval
      <4>4. nAcked' + Off(u, vtA') = nAcked + Off(u, vtA) /\ nAcked' + Off(v, vtA') = nAcked + Off(v, vtA)
        BY <2>4, <4>1
      <4>5. Off(u, vtA) > Off(v, vtA) BY <2>2, <3>1, <4>2, <4>3, <4>4
      <4>6. Received(nAcked + Off(u, vtA))
        <5>1. CASE v \in retx BY <4>1, <4>5, <5>1 DEF RestInv, RetxFirst, Beyond
        <5>2. CASE v \in nacked
          <6>1. nSent = nAcked + 2 /\ Off(v, vtA) = 0 /\ Received(nAcked + 1)
            BY <2>5, <5>2
          <6>2. Off(u, vtA) = 1 BY <2>2, <4>2, <4>5, <6>1
          <6>. QED BY <6>1, <6>2
        <5>. QED BY <2>6, <5>1, <5>2
      <4>. QED BY <4>4, <4>6
    <3>. QED BY <2>1, <3>1 DEF RetxFirst, Beyond, Received
  <2>15. Watched'
    <3> SUFFICES ASSUME nRcvd < nSent, ~pollTimer', TxonEmpty, vrR \notin retx'
                 PROVE  pollExpired /\ \E v \in retx' : Off(v, vtA') > Off(vrR, vtA')
      BY <2>1 DEF Watched, TxonEmpty, PollToCome, Beyond
    <3>1. (Inv /\ nRcvd < nSent => Waiting)' BY FirstMissing, PTL
    <3>2. /\ vrR \in Interval(vtA, vtS) /\ nAcked + Off(vrR, vtA) = nRcvd
          /\ vrR \in Interval(vtA', vtS) /\ vrR \in txed'
      BY <2>1, <3>1, FirstMissing DEF Waiting
    <3>3. /\ Off(vrR, vtA) \in Nat /\ vrR \in txed /\ vrR \notin Reported(m)
          /\ vrR \in SNs /\ vrR \notin retx
      BY <2>1, <2>2, <3>2, InWindow
    \* What is beyond it is not reported either.
    <3>4. ASSUME NEW v \in SNs, Off(v, vtA) > Off(vrR, vtA) PROVE v \notin Reported(m)
      <4>1. Off(v, vtA) \in Nat BY <2>2, OffRange
      <4>. QED BY <2>2, <2>3, <3>3, <3>4, <4>1
    <3>5. ~pollTimer
      <4>1. ASSUME pollTimer, pollSn \in Reported(m) PROVE FALSE
        <5>1. LastSn \in Reported(m) /\ nAcked < nSent
          BY <3>2, <4>1, InWindow DEF RestInv, PollIsLast
        <5>2. LastSn \in Interval(vtA, vtS) /\ nAcked + Off(LastSn, vtA) = nSent - 1
          BY <5>1, LastIs
        <5>3. LastSn \in SNs /\ Off(LastSn, vtA) \in Nat BY <5>2, InWindow
        <5>4. ~(Off(LastSn, vtA) > Off(vrR, vtA)) BY <3>4, <5>1, <5>3
        <5>5. Off(LastSn, vtA) = Off(vrR, vtA) BY <2>2, <3>2, <3>3, <5>2, <5>3, <5>4
        <5>6. LastSn = vrR BY <2>2, <3>3, <5>3, <5>5, OffInjective
        <5>. QED BY <3>3, <5>1, <5>6
      <4>. QED BY <2>1, <4>1
    <3>6. PollToCome BY <3>3, <3>5 DEF RestInv, Watched
    <3>7. PICK v \in retx : Off(v, vtA) > Off(vrR, vtA) BY <3>6 DEF PollToCome, Beyond
    <3>8. v \in SNs /\ Off(v, vtA) \in Nat BY <2>2, InWindow
    <3>9. v \in retx' BY <2>1, <3>4, <3>7, <3>8
    <3>10. /\ nAcked' + Off(v, vtA') = nAcked + Off(v, vtA)
           /\ nAcked' + Off(vrR, vtA') = nAcked + Off(vrR, vtA)
      BY <2>2, <2>4, <3>2, <3>9
    <3>11. Off(v, vtA') \in Nat /\ Off(vrR, vtA') \in Nat
      BY <2>2, <3>3, <3>8, OffRange
    <3>12. Off(v, vtA') > Off(vrR, vtA') BY <2>2, <3>3, <3>7, <3>8, <3>10, <3>11
    <3>. QED BY <3>6, <3>9, <3>12 DEF PollToCome
  <2>17. FullWindowPolls'
    <3> SUFFICES ASSUME nSent = nAcked' + W, ~pollTimer' PROVE retx' # {}
      BY <2>1 DEF FullWindowPolls
    <3>1. nAcked' = nAcked /\ nSent = nAcked + W
      BY <2>1, <2>2, <2>3, WIsPositive DEF Inv, Windows
    \* A report about the whole window is not within it.
    <3>2. ~pollTimer
      <4>1. ASSUME pollTimer, pollSn \in Reported(m) PROVE FALSE
        <5>1. LastSn \in Reported(m) /\ nAcked < nSent
          BY <2>2, <3>1, <4>1, WIsPositive DEF RestInv, PollIsLast
        <5>2. LastSn \in Interval(vtA, vtS) /\ nAcked + Off(LastSn, vtA) = nSent - 1
          BY <5>1, LastIs
        <5>3. Off(LastSn, vtA) \in Nat BY <5>2, InWindow
        <5>4. Off(LastSn, vtA) < Off(m.ack, vtA) BY <5>1 DEF Reported
        <5>5. Off(m.ack, vtA) \in Nat
          <6>1. m.ack \in SNs BY <1>1 DEF StatusPdus
          <6>. QED BY <2>2, <6>1, OffRange
        <5>. QED BY <2>2, <2>16, <3>1, <5>2, <5>3, <5>4, <5>5, WIsPositive
      <4>. QED BY <2>1, <4>1
    <3>3. retx # {} BY <3>1, <3>2 DEF RestInv, FullWindowPolls
    <3>4. CASE Reported(m) = {} BY <2>1, <3>3, <3>4
    <3>5. CASE Reported(m) # {}
      <4>1. PICK v \in Reported(m) : TRUE BY <3>5
      <4>2. v \in SNs /\ Off(v, vtA) \in Nat /\ Off(v, vtA) < m.num - nAcked
        BY <2>2, <2>3, <4>1, OffRange
      <4>3. Off(vtA, vtA) = 0 BY <2>2, OffRange
      <4>4. vtA \in Reported(m) BY <2>2, <2>3, <4>2, <4>3
      <4>5. vtA \in m.nacks BY <2>2, <2>3, <3>1, <4>3, <4>4
      <4>6. vtA \in txed \cup retx BY <3>1, FullWindow
      <4>. QED BY <2>1, <4>4, <4>5, <4>6
    <3>. QED BY <3>4, <3>5
  <2>. QED BY <2>7, <2>8, <2>9, <2>10, <2>13, <2>14, <2>15, <2>17 DEF RestInv
<1>. QED BY <1>2, <1>3

LEMMA RestData ==
  ASSUME Inv, RestInv, TwoPdus, NEW i \in DOMAIN dataCh, ReceiveData(i)
  PROVE  RestInv'
<1> DEFINE m  == dataCh[i]
           rx == [rxon EXCEPT ![m.sn] = Placed(m, @)]
           h  == IF Off(m.sn, vrR) >= Off(vrH, vrR) THEN Add(m.sn, 1) ELSE vrH
           n  == IF m.sn = vrR THEN CompleteFrom(rx, vrR) ELSE 0
           r  == Add(vrR, n)
<1>1. /\ Messages(dataCh') \subseteq Messages(dataCh)
      /\ m \in Messages(dataCh)
  <2>1. dataCh \in Seq(DataPdus) BY DEF Inv, Shape
  <2>. QED BY <2>1, ChannelWithout DEF ReceiveData
<1>2. /\ UNCHANGED <<submitted, taken, vtA, vtS, txed, retx, retxSeg, pollSn, pollTimer,
                     pollExpired, nSent, nAcked, statusCh>>
      /\ Inv' /\ \A num \in Nat : Received(num) => Received(num)'
  BY ReceiveDataStep DEF ReceiveData, senderVars
<1>3. CASE ~InReceivingWindow(m.sn, vrR)
  <2>1. UNCHANGED <<vrR, vrH, rxon, nRcvd>>
    BY <1>3 DEF ReceiveData
  <2>2. TxonEmpty' => TxonEmpty BY <1>2 DEF TxonEmpty
  <2>. QED BY <1>1, <1>2, <2>1, <2>2, RestFewer
<1>4. CASE InReceivingWindow(m.sn, vrR)
  <2>1. /\ vrH' = h /\ vrR' = r /\ nRcvd' = nRcvd + n
        /\ rxon' = [v \in SNs |-> IF Off(v, vrR) < n THEN NoEntry ELSE rx[v]]
    BY <1>4 DEF ReceiveData
  <2>2. /\ m \in DataPdus /\ m.sn \in SNs
        /\ Off(m.sn, vrR) \in Nat /\ Off(m.sn, vrR) < nSent - nRcvd
    BY <1>1, <1>4, DataMeans DEF DataPdus
  <2>3. ~m.seg /\ m.from = 0 BY <1>1 DEF RestInv, NoSegments
  <2>4. /\ vrR \in SNs /\ vrH \in SNs /\ vtA \in SNs /\ rxon \in [SNs -> Entries]
        /\ nSent \in Nat /\ nAcked \in Nat /\ nRcvd \in Nat
        /\ nAcked <= nRcvd /\ nRcvd <= nSent /\ nSent <= nAcked + W
        /\ Off(vrH, vrR) \in Nat /\ Off(vrH, vrR) <= W
    BY ReceptionFacts
  <2> HIDE DEF m
  \* A PDU is stored as a whole.
  <2>5. /\ rx \in [SNs -> Entries] /\ rx[m.sn].complete
        /\ \A v \in SNs : v # m.sn => rx[v] = rxon[v]
        /\ \A v \in SNs : rx[v] # NoEntry => rx[v].complete
    <3>1. rxon[m.sn] \in Entries BY <2>2, <2>4
    <3>2. rx[m.sn] = Placed(m, rxon[m.sn]) BY <2>2, <2>4
    <3>3. rxon[m.sn] # NoEntry => rxon[m.sn].complete
      BY <2>2 DEF RestInv, NoSegments
    <3>4. Placed(m, rxon[m.sn]).complete
      <4>1. CASE rxon[m.sn] = NoEntry BY <2>3, <4>1 DEF Placed
      <4>2. CASE rxon[m.sn] # NoEntry BY <2>2, <3>1, <3>3, <4>2, PlacedEntry
      <4>. QED BY <4>1, <4>2
    <3>5. rx \in [SNs -> Entries]
      <4>1. Placed(m, rxon[m.sn]) \in Entries BY <2>2, <3>1, PlacedEntry
      <4>. QED BY <2>2, <2>4, <4>1
    <3>6. \A v \in SNs : v # m.sn => rx[v] = rxon[v] BY <2>2, <2>4
    <3> HIDE DEF rx
    <3>7. ASSUME NEW v \in SNs, rx[v] # NoEntry PROVE rx[v].complete
      BY <3>2, <3>4, <3>6, <3>7 DEF RestInv, NoSegments
    <3>. QED BY <3>2, <3>4, <3>5, <3>6, <3>7
  <2> HIDE DEF rx
  <2>6. /\ h \in SNs /\ Off(h, vrR) \in Nat /\ Off(vrH, vrR) <= Off(h, vrR)
        /\ Off(m.sn, vrR) < Off(h, vrR) /\ Off(h, vrR) <= W
    <3>1. CASE Off(m.sn, vrR) >= Off(vrH, vrR)
      <4>1. h = Add(m.sn, 1) BY <3>1
      <4>2. h \in SNs /\ Off(h, m.sn) = 1 BY <2>2, <4>1, AddRange, WIsPositive
      <4>3. Off(h, m.sn) + Off(m.sn, vrR) < 2 * W
        BY <2>2, <2>4, <4>2, WIsPositive
      <4>4. Off(h, vrR) = Off(m.sn, vrR) + 1
        BY <2>2, <2>4, <4>2, <4>3, Chain
      <4>. QED BY <2>2, <2>4, <3>1, <4>2, <4>4, WIsPositive
    <3>2. CASE ~(Off(m.sn, vrR) >= Off(vrH, vrR))
      <4>1. h = vrH BY <3>2
      <4>. QED BY <2>2, <2>4, <3>2, <4>1
    <3>. QED BY <3>1, <3>2
  <2>7. rx[Add(h, 2 * W - 1)].complete
    <3>1. CASE Off(m.sn, vrR) >= Off(vrH, vrR)
      <4>1. Add(h, 2 * W - 1) = m.sn BY <2>2, <3>1, Predecessor
      <4>. QED BY <2>5, <4>1
    <3>2. CASE ~(Off(m.sn, vrR) >= Off(vrH, vrR))
      <4>1. h = vrH BY <3>2
      <4>2. vrH # vrR
        <5>1. Off(vrR, vrR) = 0 BY <2>4, OffRange
        <5>. QED BY <2>2, <3>2, <5>1
      <4>3. rxon[Add(h, 2 * W - 1)].complete BY <4>1, <4>2 DEF RestInv, HighestIsThere
      <4>4. Add(h, 2 * W - 1) \in SNs BY <2>4, <4>1, Predecessor
      <4>. QED BY <2>5, <4>3, <4>4
    <3>. QED BY <3>1, <3>2
  <2>8. ~rx[h].complete
    <3>1. h # m.sn BY <2>2, <2>6
    <3>2. rxon[h] = NoEntry BY <2>4, <2>6 DEF Inv, Reception
    <3>3. ~NoEntry.complete BY DEF NoEntry
    <3>. QED BY <2>5, <2>6, <3>1, <3>2, <3>3
  <2> HIDE DEF h
  <2>9. n \in Nat /\ n <= Off(h, vrR) /\ r \in SNs /\ Off(r, vrR) = n
    <3>1. n \in Nat /\ n <= Off(h, vrR)
      <4>1. CASE m.sn = vrR BY <2>4, <2>5, <2>6, <2>8, <4>1, CompleteFromStops
      <4>2. CASE m.sn # vrR BY <2>6, <4>2
      <4>. QED BY <4>1, <4>2
    <3> HIDE DEF n
    <3>2. n < 2 * W BY <2>6, <3>1, WIsPositive
    <3>. QED BY <2>4, <3>1, <3>2, AddRange
  <2> HIDE DEF n, r
  <2>10. NoSegments'
    <3>1. ASSUME NEW v \in SNs, rxon'[v] # NoEntry PROVE rxon'[v].complete
      BY <2>1, <2>5, <3>1
    <3>. QED BY <1>1, <1>2, <3>1 DEF RestInv, NoSegments
  <2>11. HighestIsThere'
    <3> SUFFICES ASSUME h # r PROVE rxon'[Add(h, 2 * W - 1)].complete
      BY <2>1 DEF HighestIsThere
    <3>1. Off(h, vrR) # n BY <2>4, <2>6, <2>9, OffInjective
    <3>2. h # vrR
      <4>1. Off(vrR, vrR) = 0 BY <2>4, OffRange
      <4>. QED BY <2>2, <2>6, <4>1
    <3>3. /\ Add(h, 2 * W - 1) \in SNs
          /\ Off(Add(h, 2 * W - 1), vrR) = Off(h, vrR) - 1
      BY <2>4, <2>6, <3>2, Predecessor
    <3>4. ~(Off(Add(h, 2 * W - 1), vrR) < n) BY <2>6, <2>9, <3>1, <3>3
    <3>. QED BY <2>1, <2>7, <3>3, <3>4
  <2>12. NacksHaveASuccessor'
    <3>1. ASSUME NEW x \in Messages(statusCh), NEW v \in x.nacks
          PROVE  HasSuccessor(NumberIn(x, v))'
      <4>1. HasSuccessor(NumberIn(x, v)) BY DEF RestInv, NacksHaveASuccessor
      <4>2. NumberIn(x, v) + 1 \in Nat
        <5>1. Covers(x, v) BY DEF Inv, StatusInAir
        <5>2. x.ack \in SNs /\ v \in SNs /\ x.num \in Nat /\ x.low \in Nat
          <6>1. x \in StatusPdus BY DEF Messages, Inv, Shape
          <6>. QED BY <6>1 DEF StatusPdus
        <5>3. Off(x.ack, v) \in Nat BY <5>2, OffRange
        <5>. QED BY <5>1, <5>2, <5>3 DEF NumberIn, Covers
      <4>. QED BY <1>2, <4>1, <4>2 DEF HasSuccessor
    <3>. QED BY <1>2, <3>1 DEF NacksHaveASuccessor
  <2>13. PollIsLast' /\ LastInRetx' BY <1>2 DEF RestInv, PollIsLast, LastInRetx, LastSn
  <2>14. RetxFirst'
    <3>1. ASSUME NEW v \in retx, NEW u \in txed, Beyond(u, v)
          PROVE  Received(nAcked + Off(u, vtA))'
      <4>1. u \in SNs BY DEF Inv, Shape
      <4>2. Received(nAcked + Off(u, vtA)) BY <3>1 DEF RestInv, RetxFirst
      <4>3. nAcked + Off(u, vtA) \in Nat BY <2>4, <4>1, OffRange
      <4>. QED BY <1>2, <4>2, <4>3
    <3>2. \A u, w : Beyond(u, w)' <=> Beyond(u, w) BY <1>2 DEF Beyond
    <3>. QED BY <1>2, <3>1, <3>2 DEF RetxFirst, Received
  <2>15. Watched'
    <3> SUFFICES ASSUME nRcvd' < nSent, ~pollTimer, TxonEmpty PROVE vrR' \in retx \/ PollToCome'
      BY <1>2 DEF Watched, TxonEmpty
    <3>1. vrR \in retx \/ PollToCome
      BY <2>1, <2>4, <2>9 DEF RestInv, Watched
    <3>2. CASE n = 0
      <4>1. vrR' = vrR BY <2>1, <2>4, <2>9, <3>2, OffRange
      <4>. QED BY <1>2, <3>1, <4>1 DEF PollToCome, Beyond
    <3>3. CASE n # 0
      <4>1. (Inv /\ nRcvd < nSent => Waiting)' BY FirstMissing, PTL
      <4>2. /\ vrR' \in SNs /\ vrR' \in txed \cup retx
            /\ nAcked + Off(vrR', vtA) = nRcvd'
        BY <1>2, <4>1 DEF Waiting, Interval
      <4>3. /\ Off(vrR', vtA) \in Nat /\ Off(vrR, vtA) = nRcvd - nAcked
        BY <2>4, <4>2, OffRange DEF Inv, Windows
      \* The first of two PDUs has come, and the second is missing.
      <4>4. /\ nRcvd' = nAcked + 1 /\ Off(vrR, vtA) = 0 /\ Off(vrR', vtA) = 1
            /\ nSent = nAcked + 2
        BY <2>1, <2>4, <2>9, <3>3, <4>2, <4>3 DEF TwoPdus
      <4>5. ~Received(nAcked + 1)
        <5>1. PICK k \in Nat : k = nAcked + 1 BY <2>4
        <5>2. nRcvd' = k BY <4>4, <5>1
        <5>3. ~Received(k)' BY <1>2, <4>1, <5>2 DEF Waiting, Received
        <5>. QED BY <1>2, <5>1, <5>3
      <4>6. CASE vrR \in retx
        <5>1. Beyond(vrR', vrR) BY <4>4 DEF Beyond
        <5>2. vrR' \notin txed
          BY <4>4, <4>5, <4>6, <5>1 DEF RestInv, RetxFirst
        <5>. QED BY <4>2, <5>2
      <4>7. CASE PollToCome
        <5>1. PICK v \in retx : Off(v, vtA) > 0
          BY <4>4, <4>7 DEF PollToCome, Beyond
        <5>2. v \in Interval(vtA, vtS) BY DEF Inv, BuffersAgree
        <5>3. v \in SNs /\ Off(v, vtA) = 1
          BY <2>4, <4>4, <5>1, <5>2, InWindow
        <5>4. v = vrR' BY <2>4, <4>2, <4>4, <5>3, OffInjective
        <5>. QED BY <5>4
      <4>. QED BY <3>1, <4>6, <4>7
    <3>. QED BY <3>2, <3>3
  <2>16. FullWindowPolls' BY <1>2 DEF RestInv, FullWindowPolls
  <2>. QED BY <2>10, <2>11, <2>12, <2>13, <2>14, <2>15, <2>16 DEF RestInv
<1>. QED BY <1>3, <1>4

LEMMA RestStep ==
  ASSUME Inv, PipeInv, RestInv, TwoPdus, AlwaysBigEnough, [Next]_vars
  PROVE  RestInv'
<1>1. CASE \/ TransmitPdcpPdu \/ ExpireReorderingTimer \/ ExpireStatusProhibitTimer
           \/ \E i \in DOMAIN dataCh : LoseData(i)
           \/ \E i \in DOMAIN statusCh : LoseStatus(i)
           \/ UNCHANGED vars
  BY <1>1, RestQuiet
<1>2. CASE \E n \in 1 .. MaxPduUnits : TransmitNew(n)
  BY <1>2, RestNew
<1>3. CASE Retransmit
  <2>1. PICK n \in 1 .. MaxPduUnits : RetransmitRest(n)
    BY <1>3 DEF Retransmit, RetransmitSegment, RetransmitNothing
  <2>. QED BY <2>1, RestAgain
<1>4. CASE ExpirePollRetransmitTimer BY <1>4, RestExpiry
<1>5. CASE \E i \in DOMAIN statusCh : ReceiveStatus(i)
  <2>1. Inv' BY Preserved
  <2>. QED BY <1>5, <2>1, RestStatus
<1>6. CASE \E i \in DOMAIN dataCh : ReceiveData(i)
  BY <1>6, RestData
<1>7. CASE \E room \in 1 .. W : TransmitStatus(room)
  BY <1>7, RestReport, WIsPositive
<1>. QED BY <1>1, <1>2, <1>3, <1>4, <1>5, <1>6, <1>7 DEF Next

\* Nothing that the transmitting side could still do is left undone.
LEMMA RestDelivers ==
  ASSUME Inv, PipeInv, RestInv
  PROVE  DeliveredAtRest
<1> SUFFICES ASSUME AtRest PROVE Len(delivered) = submitted
  BY DEF DeliveredAtRest
<1>1. /\ submitted \in Nat /\ taken \in Nat /\ vtA \in SNs /\ vtS \in SNs /\ vrR \in SNs
      /\ nSent \in Nat /\ nAcked \in Nat /\ nRcvd \in Nat /\ nRcvd <= nSent
      /\ Off(vtS, vtA) = nSent - nAcked /\ Off(vrR, vtA) = nRcvd - nAcked
  BY ReceptionFacts DEF Inv, Shape, Windows
<1>2. retx = {}
  BY DEF AtRest, Pending, Inv, BuffersAgree
<1>3. ~Stalled
  BY <1>2, FullWindow DEF AtRest, RestInv, FullWindowPolls
<1>4. TxonEmpty /\ ~pollTimer BY <1>3 DEF AtRest
<1>5. nRcvd = nSent
  BY <1>1, <1>2, <1>4 DEF RestInv, Watched, PollToCome
<1>6. vrR = vtS BY <1>1, <1>5, OffInjective
<1>7. Start(vrR) = At(submitted) BY <1>4, <1>6 DEF Start, TxonEmpty, At
<1>8. PICK n \in 0 .. At(submitted) :
        /\ At(n) <= At(submitted) /\ At(submitted) < At(n) + SduUnits
        /\ delivered = Sdus(n)
  BY <1>7 DEF PipeInv, Assembled, Reached
<1>9. n \in Nat /\ At(n) \in Nat /\ At(submitted) \in Nat
  BY <1>1, <1>8, Multiples
<1>10. n = submitted
  <2>1. ~(n < submitted)
    <3>1. ASSUME n < submitted PROVE FALSE
      <4>1. At(n) + SduUnits <= At(submitted) BY <1>1, <1>9, <3>1, AtOrder
      <4>. QED BY <1>8, <1>9, <4>1, ParametersAssumption
    <3>. QED BY <3>1
  <2>2. ~(submitted < n)
    <3>1. ASSUME submitted < n PROVE FALSE
      <4>1. At(submitted) + SduUnits <= At(n) BY <1>1, <1>9, <3>1, AtOrder
      <4>. QED BY <1>8, <1>9, <4>1, ParametersAssumption
    <3>. QED BY <3>1
  <2>. QED BY <1>1, <1>9, <2>1, <2>2
<1>. QED BY <1>1, <1>8, <1>10, SdusAre

\* Where no more than two PDUs are unacknowledged, and a PDU always fits into the
\* opportunity for it, DoNotifyTxOpportunity and ExpirePollRetransmitTimer leave
\* nothing behind: whenever the bearer is at rest, whatever was lost, PDCP has got
\* every SDU (lte-testing.rst:1029).
THEOREM RestMeansDelivered ==
  ASSUME AlwaysBigEnough
  PROVE  Spec /\ []TwoPdus => []DeliveredAtRest
<1>1. Init => RestInv
  BY RestInit
<1>2. Inv /\ PipeInv /\ RestInv /\ TwoPdus /\ [Next]_vars => RestInv'
  BY RestStep
<1>3. Inv /\ PipeInv /\ RestInv => DeliveredAtRest
  BY RestDelivers
<1>. QED BY <1>1, <1>2, <1>3, InvAlways, PipeAlways, PTL DEF Spec
=============================================================================
