------------------------------- MODULE RlcAm -------------------------------
(***************************************************************************)
(* One direction of an acknowledged-mode RLC bearer: the transmitting side *)
(* of one LteRlcAm entity, the receiving side of its peer, and the radio   *)
(* between them.  The access bearer of a UE and the backhaul bearer of an  *)
(* IAB node are both of this kind.                                         *)
(*                                                                         *)
(* The transmission buffer is a stream of units: SDU s is the units        *)
(* (s-1)*SduUnits+1 .. s*SduUnits, and a PDU takes the next units of the   *)
(* stream, so the bounds lo, hi of what it took stand for its framing info *)
(* and its length indicators.                                              *)
(***************************************************************************)
EXTENDS Integers, Sequences, FiniteSets

CONSTANTS
    W,                \* m_windowSize; a sequence number is one of 2 * W values
    SduUnits,         \* units of payload in one SDU
    AlwaysBigEnough,  \* attribute TxOpportunityForRetxAlwaysBigEnough
    MaxSdus,          \* bound: SDUs PDCP hands over
    MaxPduUnits,      \* bound: units a transmission opportunity has room for
    MaxUnacked,       \* workload: units PDCP lets be unacknowledged
    MaxInFlight,      \* bound: data PDUs on the radio
    MaxStatus,        \* bound: STATUS PDUs on the radio
    MaxLoss           \* bound: messages the radio loses

ASSUME ParametersAssumption ==
    /\ W \in Nat \ {0} /\ SduUnits \in Nat \ {0} /\ AlwaysBigEnough \in BOOLEAN
    /\ MaxSdus \in Nat /\ MaxPduUnits \in Nat \ {0} /\ MaxUnacked \in Nat
    /\ MaxInFlight \in Nat /\ MaxStatus \in Nat /\ MaxLoss \in Nat

VARIABLES
    \* transmitting side
    submitted,   \* SDUs put into m_txonBuffer
    taken,       \* units taken out of m_txonBuffer
    vtA, vtS,    \* m_vtA, m_vtS; m_vtMs is always m_vtA + m_windowSize
    pdu,         \* the PDU last built for each sequence number
    txed, retx,  \* sequence numbers with a PDU in m_txedBuffer, in m_retxBuffer
    retxSeg,     \* where the rest kept in m_retxSegBuffer begins, 0 when there is none
    pollSn, pollTimer, pollExpired,
    \* receiving side
    vrR, vrX, vrMs, vrH,    \* m_vrMr is always m_vrR + m_windowSize
    rxon,                   \* m_rxonBuffer
    reordering,             \* m_reorderingTimer is running
    statusRequested, prohibit,
    grant,                  \* the MAC has been told of a pending STATUS PDU
    keepS0,                 \* m_keepS0; empty when waiting for a first segment
    delivered,              \* SDUs given to PDCP, each as the units it holds
    noTransition,           \* reassembly met a PDU its state does not expect
    \* radio
    dataCh, statusCh, losses,
    \* history, read by properties and by the limit on delays only: PDUs sent,
    \* acknowledged in order and received in order (and pdu.num, low and num
    \* of a message, which no field of the header carries)
    nSent, nAcked, nRcvd

senderVars   == <<submitted, taken, vtA, vtS, pdu, txed, retx, retxSeg,
                  pollSn, pollTimer, pollExpired, nSent, nAcked>>
receiverVars == <<vrR, vrX, vrMs, vrH, rxon, reordering, statusRequested,
                  prohibit, grant, keepS0, delivered, noTransition, nRcvd>>
radioVars    == <<dataCh, statusCh, losses>>
vars         == <<senderVars, receiverVars, radioVars>>

-----------------------------------------------------------------------------
(***************************************************************************)
(* Sequence numbers (SequenceNumber10): values wrap, and two values are    *)
(* compared by their distance from a modulus base.                         *)
(***************************************************************************)
SNs        == 0 .. 2 * W - 1

Mutant_AddDoesNotWrap(v, k) == v + k

Add(v, k)  == IF v + k < 2 * W THEN v + k ELSE v + k - 2 * W
Off(v, b)  == IF v >= b THEN v - b ELSE v + 2 * W - b

InTransmittingWindow(v) == Off(v, vtA) < W

Mutant_WindowNotChecked(v, r) == Off(v, r) < 2 * W

InReceivingWindow(v, r) == Off(v, r) < W

\* The sequence numbers from a (included) to b (not included).
Interval(a, b) == {v \in SNs : Off(v, a) < Off(b, a)}

-----------------------------------------------------------------------------
(***************************************************************************)
(* Data.                                                                   *)
(***************************************************************************)
Units(lo, hi)  == [k \in 1 .. hi - lo |-> lo + k]
FirstByte(p)   == p.lo % SduUnits = 0
LastByte(p)    == p.hi % SduUnits = 0
PduLen(p)      == p.hi - p.lo
NumSdus(p)     == ((p.hi - 1) \div SduUnits) - (p.lo \div SduUnits) + 1

\* The SDU pieces the length indicators of p split the data into; the last
\* piece is what is left.
PiecesOf(p, data) ==
    LET edge(j) == ((p.lo \div SduUnits) + j) * SduUnits - p.lo
    IN  [j \in 1 .. NumSdus(p) |->
            SubSeq(data, IF j = 1 THEN 1 ELSE edge(j - 1) + 1,
                         IF j = NumSdus(p) THEN Len(data) ELSE edge(j))]

NoPdu   == [num |-> 0, lo |-> 0, hi |-> 0]
NoEntry == [pdu |-> NoPdu, seg |-> FALSE, data |-> <<>>, complete |-> FALSE]

Without(ch, i) == [j \in 1 .. Len(ch) - 1 |-> IF j < i THEN ch[j] ELSE ch[j + 1]]

Init ==
    /\ submitted = 0 /\ taken = 0
    /\ vtA = 0 /\ vtS = 0
    /\ pdu = [v \in SNs |-> NoPdu]
    /\ txed = {} /\ retx = {} /\ retxSeg = [v \in SNs |-> 0]
    /\ pollSn = 0 /\ pollTimer = FALSE /\ pollExpired = FALSE
    /\ vrR = 0 /\ vrX = 0 /\ vrMs = 0 /\ vrH = 0
    /\ rxon = [v \in SNs |-> NoEntry]
    /\ reordering = FALSE /\ statusRequested = FALSE /\ prohibit = FALSE
    /\ grant = FALSE /\ keepS0 = <<>> /\ delivered = <<>> /\ noTransition = FALSE
    /\ dataCh = <<>> /\ statusCh = <<>> /\ losses = 0
    /\ nSent = 0 /\ nAcked = 0 /\ nRcvd = 0

-----------------------------------------------------------------------------
(***************************************************************************)
(* Transmitting side.                                                      *)
(***************************************************************************)
\* Units PDCP handed over that the peer has not acknowledged in order.
Unacked == submitted * SduUnits - (IF vtA = vtS THEN taken ELSE pdu[vtA].lo)

\* The buffer is taken to be large enough for the workload.
TransmitPdcpPdu ==
    /\ submitted < MaxSdus
    /\ Unacked + SduUnits <= MaxUnacked
    /\ submitted' = submitted + 1
    /\ UNCHANGED <<taken, vtA, vtS, pdu, txed, retx, retxSeg, pollSn, pollTimer,
                   pollExpired, nSent, nAcked, receiverVars, radioVars>>

TxonEmpty  == taken = submitted * SduUnits

Stalled    == vtS = Add(vtA, W)

\* A radio delays a message by less than the time in which the window moves
\* on by its own size.
DelaysAreShort ==
    /\ \A i \in DOMAIN dataCh : dataCh[i].pdu.num + W > nSent
    /\ \A i \in DOMAIN statusCh : statusCh[i].num + W > nSent

\* Poll sn, the last one sent, and restart the timer.
SetPoll(sn) ==
    /\ pollSn' = sn /\ pollTimer' = TRUE /\ pollExpired' = FALSE

\* m_pollPdu is 1: every new PDU polls.
TransmitNew(n) ==
    LET p == [num |-> nSent, lo |-> taken, hi |-> taken + n]
    IN  /\ retx = {} /\ ~TxonEmpty /\ ~Stalled
        /\ DelaysAreShort /\ Len(dataCh) < MaxInFlight
        /\ taken + n <= submitted * SduUnits
        /\ pdu' = [pdu EXCEPT ![vtS] = p]
        /\ txed' = txed \cup {vtS}
        /\ vtS' = Add(vtS, 1)
        /\ taken' = taken + n
        /\ nSent' = nSent + 1
        /\ SetPoll(vtS)
        /\ dataCh' = Append(dataCh,
             [sn |-> vtS, pdu |-> p, from |-> 0, to |-> n,
              seg |-> FALSE, last |-> TRUE, poll |-> TRUE])
        /\ UNCHANGED <<submitted, vtA, retx, retxSeg, nAcked, receiverVars,
                       statusCh, losses>>

\* The first sequence number of the window with something to retransmit.
Pending   == {v \in Interval(vtA, vtS) : retxSeg[v] > 0 \/ v \in retx}
FirstRetx == CHOOSE v \in Pending : \A u \in Pending : Off(v, vtA) <= Off(u, vtA)

Mutant_PollOnlyWhenStalled(v) == Stalled \/ pollExpired

\* The sizes compared with m_retxBufferSize are those of a whole PDU: the
\* rest of a PDU already sent in part is never the whole buffer.
RetxPolls(v) ==
    \/ TxonEmpty /\ retx = {v} /\ retxSeg[v] = 0
    \/ Stalled
    \/ pollExpired

PollFromRetx(v) ==
    IF RetxPolls(v) THEN SetPoll(Add(vtS, 2 * W - 1))
                    ELSE UNCHANGED <<pollSn, pollTimer, pollExpired>>

\* All that is left of the PDU fits into the opportunity.
RetransmitRest(n) ==
    LET v == FirstRetx
        p == pdu[v]
    IN  /\ retx # {} /\ Len(dataCh) < MaxInFlight
        /\ n >= PduLen(p) - retxSeg[v] \/ AlwaysBigEnough
        /\ PollFromRetx(v)
        /\ dataCh' = Append(dataCh,
             [sn |-> v, pdu |-> p, from |-> retxSeg[v], to |-> PduLen(p),
              seg |-> retxSeg[v] > 0, last |-> TRUE, poll |-> RetxPolls(v)])
        /\ txed' = txed \cup {v}
        /\ retx' = retx \ {v}
        /\ retxSeg' = [retxSeg EXCEPT ![v] = 0]
        /\ UNCHANGED <<submitted, taken, vtA, vtS, pdu, nSent, nAcked,
                       receiverVars, statusCh, losses>>

\* Only n units fit: they go out as a segment and the rest is kept.
RetransmitSegment(n) ==
    LET v == FirstRetx
        p == pdu[v]
    IN  /\ retx # {} /\ Len(dataCh) < MaxInFlight
        /\ n < PduLen(p) - retxSeg[v] /\ ~AlwaysBigEnough
        /\ PollFromRetx(v)
        /\ dataCh' = Append(dataCh,
             [sn |-> v, pdu |-> p, from |-> retxSeg[v], to |-> retxSeg[v] + n,
              seg |-> TRUE, last |-> FALSE, poll |-> RetxPolls(v)])
        /\ retxSeg' = [retxSeg EXCEPT ![v] = @ + n]
        /\ UNCHANGED <<submitted, taken, vtA, vtS, pdu, txed, retx, nSent, nAcked,
                       receiverVars, statusCh, losses>>

\* Not even the header fits, which has length indicators when the PDU holds
\* pieces of several SDUs: nothing is sent, but the poll is spent.
RetransmitNothing ==
    LET v == FirstRetx
    IN  /\ retx # {} /\ NumSdus(pdu[v]) > 1 /\ ~AlwaysBigEnough
        /\ RetxPolls(v) /\ PollFromRetx(v)
        /\ UNCHANGED <<submitted, taken, vtA, vtS, pdu, txed, retx, retxSeg,
                       nSent, nAcked, receiverVars, radioVars>>

Mutant_OnlyStalledRetransmits ==
    /\ pollTimer
    /\ pollTimer' = FALSE /\ pollExpired' = TRUE
    /\ IF Stalled
         THEN /\ retx' = retx \cup (txed \cap Interval(vtA, vtS))
              /\ txed' = txed \ Interval(vtA, vtS)
         ELSE UNCHANGED <<txed, retx>>
    /\ UNCHANGED <<submitted, taken, vtA, vtS, pdu, retxSeg, pollSn, nSent,
                   nAcked, receiverVars, radioVars>>

ExpirePollRetransmitTimer ==
    /\ pollTimer
    /\ pollTimer' = FALSE /\ pollExpired' = TRUE
    /\ IF (TxonEmpty /\ retx = {}) \/ Stalled
         THEN /\ retx' = retx \cup (txed \cap Interval(vtA, vtS))
              /\ txed' = txed \ Interval(vtA, vtS)
         ELSE UNCHANGED <<txed, retx>>
    /\ UNCHANGED <<submitted, taken, vtA, vtS, pdu, retxSeg, pollSn, nSent,
                   nAcked, receiverVars, radioVars>>

Mutant_ReportedThroughAck(m) ==
    {v \in Interval(vtA, vtS) : Off(v, vtA) <= Off(m.ack, vtA)}

\* The sequence numbers a STATUS PDU speaks about.
Reported(m) == {v \in Interval(vtA, vtS) : Off(v, vtA) < Off(m.ack, vtA)}

Mutant_NacksDoNotStop(m) ==
    IF Off(m.ack, vtA) <= Off(vtS, vtA) THEN m.ack ELSE vtS

\* VT(A) moves to the first of them that is not acknowledged.
NewVtA(m) ==
    LET stop == {v \in Reported(m) \cap m.nacks :
                    \A u \in Reported(m) \cap m.nacks : Off(v, vtA) <= Off(u, vtA)}
    IN  IF stop # {} THEN CHOOSE v \in stop : TRUE
        ELSE IF Off(m.ack, vtA) <= Off(vtS, vtA) THEN m.ack ELSE vtS

Mutant_RestsKept(acked) == retxSeg

\* The rest of a segmented PDU goes with the PDU.
RestsWithout(acked) ==
    [v \in SNs |-> IF v \in acked \cap retx THEN 0 ELSE retxSeg[v]]

ReceiveStatus(i) ==
    LET m     == statusCh[i]
        nacked == Reported(m) \cap m.nacks
        acked  == Reported(m) \ m.nacks
    IN  /\ statusCh' = Without(statusCh, i)
        /\ IF ~InTransmittingWindow(m.ack)
             THEN UNCHANGED senderVars
             ELSE /\ vtA' = NewVtA(m)
                  /\ nAcked' = nAcked + Off(NewVtA(m), vtA)
                  /\ retx' = (retx \ acked) \cup (txed \cap nacked)
                  /\ txed' = txed \ Reported(m)
                  /\ retxSeg' = RestsWithout(acked)
                  /\ pollTimer' = (pollTimer /\ pollSn \notin Reported(m))
                  /\ UNCHANGED <<submitted, taken, vtS, pdu, pollSn, pollExpired, nSent>>
        /\ UNCHANGED <<receiverVars, dataCh, losses>>

-----------------------------------------------------------------------------
(***************************************************************************)
(* Receiving side.                                                         *)
(***************************************************************************)
\* How many consecutive PDUs buffer rx holds completely, from v on.
CompleteFrom(rx, v) ==
    CHOOSE k \in 0 .. 2 * W - 1 :
        /\ ~rx[Add(v, k)].complete
        /\ \A j \in 0 .. k - 1 : rx[Add(v, j)].complete

Mutant_AnySegmentContinues(m, e) == m.seg /\ e.seg

\* m continues the segments already received of the same PDU.
Continues(m, e) == m.seg /\ e.seg /\ m.from = Len(e.data)

Mutant_CopyErases(m, e) ==
    IF e = NoEntry /\ m.from = 0
    THEN [pdu |-> m.pdu, seg |-> m.seg, complete |-> ~m.seg,
          data |-> Units(m.pdu.lo + m.from, m.pdu.lo + m.to)]
    ELSE NoEntry

\* What becomes of the buffer entry of m's sequence number.
Placed(m, e) ==
    LET payload == Units(m.pdu.lo + m.from, m.pdu.lo + m.to)
    IN  IF e = NoEntry
        THEN IF m.from = 0
             THEN [pdu |-> m.pdu, seg |-> m.seg, data |-> payload, complete |-> ~m.seg]
             ELSE NoEntry
        ELSE IF Continues(m, e)
        THEN [e EXCEPT !.data = @ \o payload, !.complete = @ \/ m.last]
        ELSE IF e.complete THEN e ELSE NoEntry

\* One PDU through ReassembleAndDeliver: what it hands to PDCP, the segment
\* it keeps, and whether the framing info was one the state allows.
Reassemble(r, e) ==
    LET pieces == PiecesOf(e.pdu, e.data)
        joined == IF r.keep = <<>> THEN pieces
                  ELSE [pieces EXCEPT ![1] = r.keep \o @]
        whole  == IF LastByte(e.pdu) THEN Len(joined) ELSE Len(joined) - 1
    IN  IF FirstByte(e.pdu) # (r.keep = <<>>)
        THEN [r EXCEPT !.error = TRUE]
        ELSE [out   |-> r.out \o SubSeq(joined, 1, whole),
              keep  |-> IF LastByte(e.pdu) THEN <<>> ELSE joined[Len(joined)],
              error |-> r.error]

\* The first n PDUs of buffer rx through ReassembleAndDeliver.
Delivery(rx, n) ==
    LET after[k \in 0 .. n] ==
          IF k = 0 THEN [out |-> delivered, keep |-> keepS0, error |-> noTransition]
          ELSE Reassemble(after[k - 1], rx[Add(vrR, k - 1)])
    IN  after[n]

ReceiveData(i) ==
    LET m   == dataCh[i]
        rx  == [rxon EXCEPT ![m.sn] = Placed(m, @)]
        h   == IF Off(m.sn, vrR) >= Off(vrH, vrR) THEN Add(m.sn, 1) ELSE vrH
        ms  == Add(vrMs, CompleteFrom(rx, vrMs))
        n   == IF m.sn = vrR THEN CompleteFrom(rx, vrR) ELSE 0
        r   == Add(vrR, n)
        out == Delivery(rx, n)
        runs == /\ reordering /\ vrX # r
                /\ InReceivingWindow(vrX, r) \/ vrX = Add(r, W)
    IN  /\ dataCh' = Without(dataCh, i)
        /\ statusRequested' = (statusRequested \/ m.poll)
        /\ grant' = (grant \/ (m.poll /\ ~prohibit))
        /\ IF ~InReceivingWindow(m.sn, vrR)
             THEN UNCHANGED <<vrR, vrX, vrMs, vrH, rxon, reordering, keepS0,
                              delivered, noTransition, nRcvd>>
             ELSE /\ vrH' = h /\ vrMs' = ms /\ vrR' = r
                  /\ nRcvd' = nRcvd + n
                  /\ rxon' = [v \in SNs |-> IF Off(v, vrR) < n THEN NoEntry ELSE rx[v]]
                  /\ delivered' = out.out /\ keepS0' = out.keep
                  /\ noTransition' = out.error
                  /\ reordering' = (runs \/ h # r)
                  /\ vrX' = IF ~runs /\ h # r THEN h ELSE vrX
        /\ UNCHANGED <<senderVars, prohibit, statusCh, losses>>

ExpireReorderingTimer ==
    LET ms == Add(vrX, CompleteFrom(rxon, vrX))
    IN  /\ reordering
        /\ vrMs' = ms
        /\ reordering' = (Off(vrH, vrR) > Off(ms, vrR))
        /\ vrX' = IF Off(vrH, vrR) > Off(ms, vrR) THEN vrH ELSE vrX
        /\ statusRequested' = TRUE
        /\ UNCHANGED <<senderVars, vrR, vrH, rxon, prohibit, grant, keepS0,
                       delivered, noTransition, nRcvd, radioVars>>

\* The MAC is not told of a STATUS PDU that was held back meanwhile.
ExpireStatusProhibitTimer ==
    /\ prohibit /\ prohibit' = FALSE
    /\ UNCHANGED <<senderVars, vrR, vrX, vrMs, vrH, rxon, reordering,
                   statusRequested, grant, keepS0, delivered, noTransition,
                   nRcvd, radioVars>>

\* The search for PDUs to report missing ends at VR(MS), or after as many as
\* the opportunity has room for.
Missing   == {v \in Interval(vrR, vrMs) : ~rxon[v].complete}
Before(v) == {u \in Missing : Off(u, vrR) < Off(v, vrR)}
EndsOfNacks(room) ==
    {e \in SNs :
       \/ e = vrMs /\ Cardinality(Missing) <= room
       \/ \E v \in Missing : /\ e = Add(v, 1)
                             /\ Cardinality(Before(v)) = room - 1}

Mutant_AckHighest(end) == vrH

AckSn(end) == Add(end, CompleteFrom(rxon, end))

TransmitStatus(room) ==
    \E end \in EndsOfNacks(room) :
        /\ statusRequested /\ ~prohibit
        /\ Len(statusCh) < MaxStatus
        /\ statusCh' = Append(statusCh,
             [ack |-> AckSn(end), nacks |-> Missing \cap Interval(vrR, end),
              low |-> nRcvd, num |-> nRcvd + Off(AckSn(end), vrR)])
        /\ statusRequested' = FALSE /\ prohibit' = TRUE /\ grant' = FALSE
        /\ UNCHANGED <<senderVars, vrR, vrX, vrMs, vrH, rxon, reordering, keepS0,
                       delivered, noTransition, nRcvd, dataCh, losses>>

-----------------------------------------------------------------------------
(***************************************************************************)
(* The radio: HARQ reorders the transport blocks of different processes,   *)
(* and loses one after its last retransmission.                            *)
(***************************************************************************)
LoseData(i) ==
    /\ losses < MaxLoss /\ losses' = losses + 1
    /\ dataCh' = Without(dataCh, i)
    /\ UNCHANGED <<senderVars, receiverVars, statusCh>>

LoseStatus(i) ==
    /\ losses < MaxLoss /\ losses' = losses + 1
    /\ statusCh' = Without(statusCh, i)
    /\ UNCHANGED <<senderVars, receiverVars, dataCh>>

Retransmit ==
    \/ \E n \in 1 .. MaxPduUnits : RetransmitRest(n) \/ RetransmitSegment(n)
    \/ RetransmitNothing

Next ==
    \/ TransmitPdcpPdu
    \/ \E n \in 1 .. MaxPduUnits : TransmitNew(n)
    \/ Retransmit
    \/ ExpirePollRetransmitTimer
    \/ \E i \in DOMAIN statusCh : ReceiveStatus(i)
    \/ \E i \in DOMAIN dataCh : ReceiveData(i)
    \/ ExpireReorderingTimer
    \/ ExpireStatusProhibitTimer
    \/ \E room \in 1 .. W : TransmitStatus(room)
    \/ \E i \in DOMAIN dataCh : LoseData(i)
    \/ \E i \in DOMAIN statusCh : LoseStatus(i)

Spec == Init /\ [][Next]_vars

\* Every timer that runs expires or is stopped; the MAC grants what it was
\* told of: the data of the transmitting side, reported again every m_rbsTimer
\* until it is acknowledged, and a STATUS PDU reported when a poll came in.
\* A message on the radio arrives or is lost.
FairSpec ==
    /\ Spec
    /\ WF_vars(\E n \in 1 .. MaxPduUnits : TransmitNew(n))
    /\ WF_vars(\E n \in 1 .. MaxPduUnits : RetransmitRest(n) \/ RetransmitSegment(n))
    /\ WF_vars(grant /\ \E room \in 1 .. W : TransmitStatus(room))
    /\ WF_vars(dataCh # <<>> /\ ReceiveData(1))
    /\ WF_vars(statusCh # <<>> /\ ReceiveStatus(1))
    /\ WF_vars(ExpirePollRetransmitTimer)
    /\ WF_vars(ExpireReorderingTimer)
    /\ WF_vars(ExpireStatusProhibitTimer)

-----------------------------------------------------------------------------
(***************************************************************************)
(* Properties.                                                             *)
(***************************************************************************)
DataPdus ==
    [sn : SNs, pdu : [num : Nat, lo : Nat, hi : Nat], from : Nat, to : Nat,
     seg : BOOLEAN, last : BOOLEAN, poll : BOOLEAN]
StatusPdus == [ack : SNs, nacks : SUBSET SNs, low : Nat, num : Nat]

TypeOK ==
    /\ submitted \in Nat /\ taken \in Nat /\ vtA \in SNs /\ vtS \in SNs
    /\ pdu \in [SNs -> [num : Nat, lo : Nat, hi : Nat]]
    /\ txed \subseteq SNs /\ retx \subseteq SNs /\ retxSeg \in [SNs -> Nat]
    /\ pollSn \in SNs /\ pollTimer \in BOOLEAN /\ pollExpired \in BOOLEAN
    /\ vrR \in SNs /\ vrX \in SNs /\ vrMs \in SNs /\ vrH \in SNs
    /\ rxon \in [SNs -> [pdu : [num : Nat, lo : Nat, hi : Nat], seg : BOOLEAN,
                         data : Seq(Nat), complete : BOOLEAN]]
    /\ reordering \in BOOLEAN /\ statusRequested \in BOOLEAN
    /\ prohibit \in BOOLEAN /\ grant \in BOOLEAN /\ noTransition \in BOOLEAN
    /\ keepS0 \in Seq(Nat) /\ delivered \in Seq(Seq(Nat))
    /\ dataCh \in Seq(DataPdus) /\ statusCh \in Seq(StatusPdus) /\ losses \in Nat
    /\ nSent \in Nat /\ nAcked \in Nat /\ nRcvd \in Nat

\* The bearer is a pipe (lte-testing.rst:1029: "all SDUs are correctly
\* delivered to the upper layers of the receiving RLC AM entity"): whatever is
\* lost, retransmitted in segments or reordered, PDCP gets the SDUs whole, once
\* and in order.
WholeSdu(s) == Units((s - 1) * SduUnits, s * SduUnits)
SduOf(d)    == IF \E s \in 1 .. submitted : d = WholeSdu(s)
               THEN CHOOSE s \in 1 .. submitted : d = WholeSdu(s) ELSE 0
Pipe        == INSTANCE SduPipe WITH
                 delivered <- [k \in DOMAIN delivered |-> SduOf(delivered[k])]
ImplementsPipe == Pipe!Spec

\* The PDU that the transmitting side numbered num has reached the receiving
\* side as a whole.
Received(num) ==
    \/ num < nRcvd
    \/ num - nRcvd < W /\ rxon[Add(vrR, num - nRcvd)].complete

\* The transmitting side drops its copy of a PDU (in DoReceivePdu, on a STATUS
\* PDU) only when the peer has all of it: a sequence number that came round
\* again, a late STATUS PDU or a cut list of NACKs never frees one too early.
ReleasedIsReceived ==
    /\ nAcked <= nRcvd
    /\ \A v \in Interval(vtA, vtS) \ (txed \cup retx) : Received(nAcked + Off(v, vtA))

\* DoReportBufferStatus reads the first unacknowledged PDU from one of the
\* two buffers without a check, whatever order STATUS PDUs arrived in; a
\* PDU is in one buffer only (DoReceivePdu asserts it), and the rest of a
\* segmented PDU never outlives it.
BuffersAgree ==
    /\ vtA # vtS => vtA \in txed \cup retx
    /\ txed \cap retx = {}
    /\ txed \cup retx \subseteq Interval(vtA, vtS)
    /\ \A v \in SNs : retxSeg[v] > 0 => v \in retx

\* DoNotifyTxOpportunity asserts that a STATUS PDU acknowledges nothing beyond
\* VR(MS), however few NACKs had room.
AckSnIsReported ==
    \A room \in 1 .. W : \A end \in EndsOfNacks(room) :
        Off(AckSn(end), vrR) <= Off(vrMs, vrR)

\* A PDU waits in the reception buffer under the number it was sent with: a
\* sequence number that came round again, on a late copy of an old PDU, is not
\* taken for the new one (IsInsideReceivingWindow).
NumberOf(v) == nRcvd + Off(v, vrR)
RightPdus ==
    \A v \in SNs : rxon[v] # NoEntry =>
        InReceivingWindow(v, vrR) /\ rxon[v].pdu.num = NumberOf(v)

\* A PDU that a STATUS PDU could report as received is never reported as
\* unknown later: VR(MS) only moves forward, although ExpireReorderingTimer
\* sets it back to VR(X) first.
VrMsOnlyAdvances ==
    [][nRcvd' + Off(vrMs', vrR') >= nRcvd + Off(vrMs, vrR)]_vars

\* When nothing is left to do, everything has been delivered
\* (lte-testing.rst:1029: "at the end of the simulation all SDUs are correctly
\* delivered"): there is no message on the radio, no timer runs, the
\* transmitting side has nothing to send and the MAC knows of no STATUS PDU.
AtRest ==
    /\ dataCh = <<>> /\ statusCh = <<>>
    /\ ~pollTimer /\ ~reordering /\ ~prohibit /\ ~grant
    /\ Pending = {} /\ (TxonEmpty \/ Stalled)
DeliveredAtRest == AtRest => Len(delivered) = submitted

\* Everything handed over is delivered in the end (lte-testing.rst:1029).
AllDelivered == \A s \in 1 .. MaxSdus : submitted >= s ~> Len(delivered) >= s
=============================================================================
