------------------------------- MODULE DlHarq -------------------------------
(***************************************************************************)
(* Downlink HARQ of one UE of a mmWave cell (a UE, or the backhaul side of *)
(* an IAB node): the processes MmWaveFlexTtiMacScheduler keeps for it, the *)
(* packets MmWaveEnbMac keeps to send again, the transport blocks on the   *)
(* radio, and the answers on their way back.  A subframe is three steps:   *)
(* the cell schedules LookAhead subframes ahead, the UE receives what was  *)
(* planned for this subframe, and the UL control symbol carries answers.   *)
(*                                                                         *)
(* What other UEs and the allocation mask of an IAB node leave this UE is  *)
(* a choice of each subframe: how many of its answers are served before    *)
(* the last symbol is given away, which of the retransmissions they ask    *)
(* for find a run of free symbols, and what is left for new data.          *)
(***************************************************************************)
EXTENDS Integers, Sequences, FiniteSets, Functions

CONSTANTS
    LookAhead,       \* subframes from planning a transport block to sending it
    AnswerDelay,     \* subframes from receiving it to sending the answer, at most
    HarqTimeout,     \* attribute HarqDlTimeout, in subframes
    MaxRv,           \* redundancy version after which a process is dropped, 3
    DataSymbols,     \* symbols of a subframe that are not control
    MaxTbs           \* bound: slots given to new data; as each takes a process,
                     \* no more of the NumHarqProcess processes are ever looked at

ASSUME HarqAssumption ==
    /\ LookAhead \in Nat \ {0} /\ AnswerDelay \in Nat \ {0}
    /\ HarqTimeout \in Nat \ {0} /\ MaxRv \in Nat
    /\ DataSymbols \in Nat \ {0} /\ MaxTbs \in Nat \ {0}

Procs == 1..MaxTbs
Tbs   == 1..MaxTbs
NoTb  == 0

VARIABLES
    phase,
    \* the scheduler
    status,      \* m_dlHarqProcessesStatus: 0 when free, else transmissions made
    rv, numSym,  \* m_rv and m_numSym of m_dlHarqProcessesDciInfoMap
    timer,       \* m_dlHarqProcessesTimer while the process is taken, else 0
    kept,        \* m_dlHarqInfoList
    failed,      \* an NS_ASSERT has stopped the program
    \* the MAC of the cell
    buffer,      \* m_miDlHarqProcessesPackets, as the transport block it holds
    received,    \* m_dlHarqInfoReceived
    \* the radio and the UE
    air,         \* slots planned for this subframe and the next ones
    answers,     \* answers, by the subframe end that has brought them to the cell
    \* history, read by properties only (so is the tb of an answer)
    nTbs,        \* slots given to new data so far
    holds,       \* transport block the scheduler last put in a process
    expired,     \* processes whose timer has ended a transport block
    sent,        \* transmissions of each transport block
    acked        \* transport blocks the MAC has an ACK for

schedVars == <<status, rv, numSym, timer, kept, failed, nTbs, holds, expired>>
macVars   == <<buffer, received, acked>>
radioVars == <<air, answers, sent>>
vars == <<phase, schedVars, macVars, radioVars>>

Init ==
    /\ phase = "schedule"
    /\ status = [p \in Procs |-> 0] /\ rv = [p \in Procs |-> 0]
    /\ numSym = [p \in Procs |-> 0] /\ timer = [p \in Procs |-> 0]
    /\ kept = <<>> /\ failed = FALSE
    /\ buffer = [p \in Procs |-> NoTb] /\ received = <<>>
    /\ air = [i \in 1..LookAhead+1 |-> <<>>]
    /\ answers = [i \in 1..AnswerDelay+1 |-> <<>>]
    /\ nTbs = 0 /\ holds = [p \in Procs |-> NoTb] /\ expired = {}
    /\ sent = [t \in Tbs |-> 0] /\ acked = {}

-----------------------------------------------------------------------------
(* The scheduler.  st is what a subframe's scheduling works on: the state   *)
(* of the processes, the symbols left, the answers it keeps for later and   *)
(* the slots of the subframe.                                               *)

\* RefreshHarqProcesses
TimesOut(p) == status[p] > 0 /\ timer[p] = HarqTimeout

\* the timer of a taken process does not run
Mutant_NoTimer(p) == 0

TimerNow(p) == IF status[p] = 0 \/ TimesOut(p) THEN 0 ELSE timer[p] + 1

Refreshed ==
    [status |-> [p \in Procs |-> IF TimesOut(p) THEN 0 ELSE status[p]],
     timer  |-> [p \in Procs |-> TimerNow(p)],
     holds  |-> [p \in Procs |-> IF TimesOut(p) THEN NoTb ELSE holds[p]],
     rv |-> rv, numSym |-> numSym, nTbs |-> nTbs, buffer |-> buffer,
     free |-> DataSymbols, kept |-> <<>>, slots |-> <<>>, failed |-> FALSE]

Release(st, p) ==
    [st EXCEPT !.status[p] = 0, !.timer[p] = 0, !.holds[p] = NoTb]

\* A retransmission on the air: the packets the MAC still has for the process.
\* When an ACK has emptied it the PHY fills the slot with an empty PDU; its DCI
\* is announced like any other, so the UE answers it for the process.
Pushed(st, p) == Append(st.slots, [proc |-> p, tb |-> st.buffer[p]])

\* a block that is sent again keeps its redundancy version
Mutant_SameRv(st, p) ==
    [st EXCEPT !.status[p] = @ + 1, !.free = @ - st.numSym[p],
               !.slots = Pushed(st, p)]

\* a retransmission does not count in the status
Mutant_SameStatus(st, p) ==
    [st EXCEPT !.rv[p] = @ + 1, !.free = @ - st.numSym[p],
               !.slots = Pushed(st, p)]

\* A retransmission
SendAgain(st, p) ==
    [st EXCEPT !.status[p] = @ + 1, !.rv[p] = @ + 1,
               !.free = @ - st.numSym[p],
               !.slots = Pushed(st, p)]

\* the last redundancy version is not noticed
Mutant_OneMoreRv(st, h, fits) ==
    LET p == h.proc IN
    IF st.failed \/ st.free = 0 THEN st
    ELSE CASE h.ack \/ st.status[p] = 0 \/ st.rv[p] > MaxRv -> Release(st, p)
           [] OTHER -> IF st.free >= st.numSym[p] /\ fits
                       THEN SendAgain(st, p)
                       ELSE [st EXCEPT !.kept = Append(@, h)]

\* One pass of the loop over m_dlHarqInfoList: h is a DlHarqInfo, and fits says
\* whether a retransmission finds a run of symbols free of the mask and of the
\* slots of other UEs
ServeAnswer(st, h, fits) ==
    LET p == h.proc
        again == ~h.ack /\ st.status[p] > 0
        mismatch == st.status[p] - 1 # st.rv[p]
        last == st.rv[p] = MaxRv
    IN  IF st.failed \/ st.free = 0 THEN st
        ELSE CASE again /\ mismatch -> [st EXCEPT !.failed = TRUE]
               [] ~again \/ (last /\ ~mismatch) -> Release(st, p)
               [] OTHER -> IF st.free >= st.numSym[p] /\ fits
                           THEN SendAgain(st, p)
                           ELSE [st EXCEPT !.kept = Append(@, h)]

\* The loop over the answers list, of which those numbered in fit find room
Served(st0, list, fit) ==
    LET after[k \in 0..Len(list)] ==
          IF k = 0 THEN st0 ELSE ServeAnswer(after[k-1], list[k], k \in fit)
    IN  after[Len(list)]

\* The loop breaks when no symbol is left, and slots of other UEs may bring that
\* about after any of this UE's answers.  It has lost the rest of the list then,
\* and there is no new data.
Answered(list, seen, fit) ==
    LET st == Served(Refreshed, SubSeq(list, 1, seen), fit)
    IN  IF seen = Len(list) THEN st ELSE [st EXCEPT !.free = 0]

\* processes are used in turn, whether free or not
Mutant_NextProcess(st) == 1 + (st.nTbs % 2)

\* UpdateDlHarqProcessId
FreeProcess(st) == CHOOSE p \in Procs : /\ st.status[p] = 0
                                        /\ \A q \in 1..p-1 : st.status[q] > 0

\* One slot of new data, with what DoSchedConfigIndication then stores and
\* sends.  A slot no RLC PDU is left for takes a process and its symbols but is
\* not pushed: neither the MAC nor the UE sees it.
GiveSlot(st, slot) ==
    LET p == FreeProcess(st)
        t == IF slot.void THEN NoTb ELSE st.nTbs + 1
        taken == [st EXCEPT !.status[p] = 1, !.rv[p] = 0, !.timer[p] = 0,
                            !.numSym[p] = slot.size, !.free = @ - slot.size,
                            !.holds[p] = t, !.nTbs = @ + 1]
    IN  IF slot.void THEN taken
        ELSE [taken EXCEPT !.buffer[p] = t,
                           !.slots = Append(@, [proc |-> p, tb |-> t])]

\* What can be after one more slot, of any size
Given(st, void) ==
    {GiveSlot(st, slot) : slot \in {s \in [size : 1..DataSymbols, void : {void}] :
                                      s.size <= st.free /\ st.nTbs < MaxTbs}}

\* What can be after up to n more slots, from any of the states S
Filled(S, void, n) ==
    LET after[k \in 0..n] ==
          IF k = 0 THEN S ELSE UNION {Given(st, void) : st \in after[k-1]}
    IN  UNION {after[k] : k \in 0..n}

\* What the UE may be given for new data: nothing, or an allocation that the
\* mask splits in slots.  The bytes of the RLC go to the slots in their order, so
\* those left without any are the last ones, and never the first.
NewData(st) ==
    {st} \cup Filled(UNION {Given(one, FALSE) : one \in Filled({st}, FALSE, MaxTbs)},
                     TRUE, MaxTbs)

CountIn(t, slots) == Cardinality({i \in DOMAIN slots : slots[i].tb = t})

\* MmWaveEnbMac::DoSubframeIndication, with DoSchedTriggerReq and
\* DoSchedConfigIndication
Schedule ==
    /\ phase = "schedule" /\ ~failed
    /\ LET list == kept \o received IN
       \E seen \in 0..Len(list) : \E fit \in SUBSET (1..seen) :
       LET served == Answered(list, seen, fit) IN
       \E st \in IF served.failed THEN {served} ELSE NewData(served) :
           /\ status' = st.status /\ rv' = st.rv /\ numSym' = st.numSym
           /\ timer' = st.timer /\ kept' = st.kept /\ failed' = st.failed
           /\ buffer' = st.buffer
           /\ air' = [air EXCEPT ![LookAhead+1] = st.slots]
           /\ nTbs' = st.nTbs /\ holds' = st.holds
           /\ expired' = expired \cup {p \in Procs : TimesOut(p)}
           /\ sent' = [t \in Tbs |-> sent[t] + CountIn(t, st.slots)]
    /\ received' = <<>>
    /\ phase' = "receive"
    /\ UNCHANGED <<answers, acked>>

\* The slots of a subframe are sorted by symbol, and a retransmission may have
\* been put behind the mask and the slots of new data before it
Orders(slots) == Bijection(DOMAIN slots, DOMAIN slots)

\* MmWaveSpectrumPhy::EndRxData and MmWaveUePhy::ReceiveLteDlHarqFeedback, for
\* the slots of this subframe.  TbDecodeLatency after its slot an answer is in
\* the queue the next uplink slot of the UE empties, of data or of control: the
\* first onTime answers reach that of a subframe before the others do.
Receive ==
    /\ phase = "receive" /\ ~failed
    /\ LET now == air[1] IN
       \E order \in Orders(now), good \in SUBSET DOMAIN now, onTime \in 0..Len(now) :
       LET made == [i \in DOMAIN now |->
                      [proc |-> now[order[i]].proc, tb |-> now[order[i]].tb,
                       ack |-> order[i] \in good]]
       IN  answers' = [answers EXCEPT
                         ![AnswerDelay] = @ \o SubSeq(made, 1, onTime),
                         ![AnswerDelay+1] = SubSeq(made, onTime + 1, Len(now))]
    /\ air' = [air EXCEPT ![1] = <<>>]
    /\ phase' = "control"
    /\ UNCHANGED <<schedVars, macVars, sent>>

AckedIn(now) == {now[i] : i \in {j \in DOMAIN now : now[j].ack}}

\* an ACK leaves the packets of the process in place
Mutant_KeepsPackets(now) == buffer

\* The packets the MAC still has once the answers now have come
Unacked(now) ==
    [p \in Procs |-> IF \E h \in AckedIn(now) : h.proc = p THEN NoTb ELSE buffer[p]]

\* MmWaveEnbMac::DoDlHarqFeedback, for the answers of the subframe's uplink
\* slots; then the next subframe begins
Control ==
    /\ phase = "control" /\ ~failed
    /\ LET now == answers[1]
       IN  /\ buffer' = Unacked(now)
           /\ received' = received \o now
           /\ acked' = acked \cup ({h.tb : h \in AckedIn(now)} \ {NoTb})
    /\ answers' = Append(Tail(answers), <<>>)
    /\ air' = Append(Tail(air), <<>>)
    /\ phase' = "schedule"
    /\ UNCHANGED <<schedVars, sent>>

Next == Schedule \/ Receive \/ Control

\* The simulator always runs the next event.
Spec == Init /\ [][Next]_vars /\ WF_vars(Next)

-----------------------------------------------------------------------------
(* Properties *)

\* Slots and answers; those of an empty PDU have no transport block.
Answers == [proc : Procs, tb : Tbs \cup {NoTb}, ack : BOOLEAN]
Blocks  == [proc : Procs, tb : Tbs \cup {NoTb}]

\* The type invariant: the status of a process is 0 or a number of
\* transmissions DoSchedTriggerReq allows, its timer within HarqDlTimeout.
TypeOK ==
    /\ phase \in {"schedule", "receive", "control"}
    /\ status \in [Procs -> 0..MaxRv+1] /\ rv \in [Procs -> 0..MaxRv]
    /\ numSym \in [Procs -> 0..DataSymbols] /\ timer \in [Procs -> 0..HarqTimeout]
    /\ failed \in BOOLEAN /\ buffer \in [Procs -> Tbs \cup {NoTb}]
    /\ kept \in Seq(Answers) /\ received \in Seq(Answers)
    /\ air \in [1..LookAhead+1 -> Seq(Blocks)]
    /\ answers \in [1..AnswerDelay+1 -> Seq(Answers)]
    /\ nTbs \in 0..MaxTbs /\ holds \in [Procs -> Tbs \cup {NoTb}]
    /\ expired \subseteq Procs /\ acked \subseteq Tbs
    /\ sent \in [Tbs -> Nat]

\* A NACK finds the status of its process one above the redundancy version of
\* its DCI, which DoSchedTriggerReq asserts, also when the answer is to a block
\* the timer has taken out of the process.
NoAssertionFails == ~failed

\* The queues a block and then its answer go through, the last one first: the
\* answers the scheduler keeps and those it has not seen, the answers on their
\* way and the blocks planned.
Queues == 1 .. LookAhead + AnswerDelay + 4

Queue(k) ==
    CASE k = 1                 -> kept
      [] k = 2                 -> received
      [] k \in 3..AnswerDelay+3 -> answers[k - 2]
      [] OTHER                 -> air[k - (AnswerDelay + 3)]

\* Where the blocks of a process, or their answers, are
Underway(p) ==
    UNION {{<<k, i>> : i \in {j \in DOMAIN Queue(k) : Queue(k)[j].proc = p}} : k \in Queues}

\* "Stop-and-wait" (NumHarqProcess): until its timer ends a block, a process has
\* one block or answer under way at most, and it is of the block it holds; so
\* an answer is applied to the block it is about.
StopAndWait ==
    \A p \in Procs \ expired : \A u, v \in Underway(p) :
        /\ u = v /\ status[p] > 0
        /\ holds[p] # NoTb /\ Queue(u[1])[u[2]].tb = holds[p]

\* The scheduler's count of a process and what the MAC sent agree: a block that
\* is in a process was sent no more often than its redundancy version says,
\* and just as often while the MAC still has its packets.
TransmissionsAreCounted ==
    \A p \in Procs : holds[p] # NoTb =>
        /\ sent[holds[p]] <= rv[p] + 1
        /\ buffer[p] = holds[p] => sent[holds[p]] = rv[p] + 1

\* Once the MAC of the cell has had an ACK for a block it never sends it again,
\* whatever the scheduler still does with its process: a retransmission of it
\* carries the empty PDU, or a later block of the process.
AckedIsNotSentAgain == [][\A t \in acked : sent'[t] = sent[t]]_vars

\* A process does not leak: once new data ends, and MaxTbs ends it, every
\* process is free again, also those whose answer was lost or misapplied and
\* those that were taken for a slot that is not sent.
ProcessesComeFree == []<>(\A p \in Procs : status[p] = 0)

\* "TBs not able to be retransmitted in this sf" are buffered
\* (mmwave-flex-tti-mac-scheduler.cc:993): a block in a process whose timer has
\* not ended one is under way, or its answer is waiting for a subframe.
AnswersAreKept ==
    \A p \in Procs \ expired : holds[p] # NoTb => Underway(p) # {}
=============================================================================
