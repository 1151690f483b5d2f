----------------------------- MODULE LookAhead -----------------------------
(***************************************************************************)
(* How the cells of an IAB tree share the symbols of a subframe.  An IAB   *)
(* node is half duplex: it may not serve its own devices in a symbol its   *)
(* parent uses with it.  Every subframe each cell's scheduler plans one    *)
(* subframe ahead of time, the further the more IAB nodes are behind it,   *)
(* the gNB PHY announces the plan in the control symbol, and an IAB node   *)
(* marks the symbols announced to it as busy before it plans the same      *)
(* subframe for its own devices.                                           *)
(*                                                                         *)
(* A plan gives each data symbol to one user or to nobody; how a scheduler *)
(* divides the free symbols is left open here.                             *)
(***************************************************************************)
EXTENDS Integers

CONSTANTS
    Cells,               \* gNBs, wired or IAB
    Donor,               \* the wired gNB
    ParentOf,            \* the cell an IAB node is attached to
    Served,              \* the devices a cell schedules
    Symbols,             \* data symbols of a subframe
    Nobody,              \* the user of a symbol left free
    SubframesPerFrame,
    L1L2CtrlLatency,
    Behind,              \* the most IAB nodes behind one device of a cell
    MaxFrame             \* bound: frames that are run

Relays     == Cells \ {Donor}
Index      == 0 .. SubframesPerFrame - 1
FreePlan   == [s \in Symbols |-> Nobody]
To(plan, u) == {s \in Symbols : plan[s] = u}
Used(plan)  == {s \in Symbols : plan[s] # Nobody}

ASSUME TreeAssumption ==
    /\ Donor \in Cells
    /\ ParentOf \in [Relays -> Cells]
    /\ \A i \in Relays : ParentOf[i] # i /\ i \in Served[ParentOf[i]]
    /\ \A c \in Cells : Nobody \notin Served[c]

ASSUME TimeAssumption ==
    /\ SubframesPerFrame \in Nat \ {0}
    /\ L1L2CtrlLatency \in 0 .. SubframesPerFrame
    /\ Behind \in [Cells -> Nat]
    /\ MaxFrame \in Nat

VARIABLES
    frame, sf,       \* m_frameNum, m_sfNum of every PHY
    started,         \* cells whose StartSubFrame of this subframe has run
    heard,           \* IAB nodes that have decoded the control symbol
    delay,           \* m_maxSchedulingDelay of each scheduler
    ahead,           \* m_schedulingDelay of each gNB PHY
    ring,            \* m_sfAllocInfo of each gNB PHY
    now,             \* m_currSfAllocInfo of each gNB PHY
    mask,            \* m_iabBusySubframeAllocation of each IAB node's scheduler
    ueRing, ueNow,   \* m_sfAllocInfo, m_currSfAllocInfo of each backhaul UE PHY
    aborted          \* an NS_ASSERT has failed

vars == <<frame, sf, started, heard, delay, ahead, ring, now, mask,
          ueRing, ueNow, aborted>>

\* "made", the look-ahead a plan was made with, is history: no code reads it.
Users   == UNION {Served[c] : c \in Cells}
Plan    == [Symbols -> Users \cup {Nobody}]
Entry   == [frame : Nat, valid : BOOLEAN, made : Nat, plan : Plan]
Current == [made : Nat, plan : Plan]
Busy    == [frame : Nat, valid : BOOLEAN, busy : SUBSET Symbols]

\* Before the first device is attached: frame 0 has passed without data, and
\* the plans made in it with the initial delay wait for their subframes.
Init ==
    /\ frame = 1 /\ sf = 0 /\ started = {} /\ heard = {} /\ aborted = FALSE
    /\ delay = [c \in Cells |-> 1]
    /\ ahead = [c \in Cells |-> L1L2CtrlLatency + 1]
    /\ ring = [c \in Cells |-> [k \in Index |->
                  [frame |-> IF k <= L1L2CtrlLatency THEN 1 ELSE 0,
                   valid |-> k <= L1L2CtrlLatency,
                   made  |-> L1L2CtrlLatency + 1, plan |-> FreePlan]]]
    /\ now = [c \in Cells |-> [made |-> L1L2CtrlLatency + 1, plan |-> FreePlan]]
    /\ mask = [i \in Relays |-> [k \in Index |-> [frame |-> 0, valid |-> FALSE, busy |-> {}]]]
    /\ ueRing = [i \in Relays |-> [k \in Index |-> {}]]
    /\ ueNow = [i \in Relays |-> {}]

\* The subframe d subframes after t, as MAC and scheduler compute it: one
\* carry into the frame number at most.
Mutant_LaterInFrame(t, d) == [frame |-> t.frame, sf |-> (t.sf + d) % SubframesPerFrame]
Later(t, d) == [frame |-> IF t.sf + d >= SubframesPerFrame THEN t.frame + 1 ELSE t.frame,
                sf    |-> (t.sf + d) % SubframesPerFrame]

\* The subframe the scheduler of c is asked to plan: MmWaveEnbMac adds
\* L1L2CtrlLatency, DoSchedTriggerReq the scheduling delay.
Target(c) == Later(Later([frame |-> frame, sf |-> sf], L1L2CtrlLatency), delay[c])

\* The distance SetDlSfAllocInfo finds between now and the planned subframe.
Mutant_DistanceInFrame(t) == t.sf - sf
Distance(t) == IF t.frame = frame THEN t.sf - sf ELSE (SubframesPerFrame - sf) + t.sf

\* Symbols UpdateBusySymbolsForIab takes as busy in the planned subframe.
BusyIn(c, k) == IF c \in Relays /\ mask[c][k].valid THEN mask[c][k].busy ELSE {}

Plans(c, busy) == {p \in [Symbols -> Served[c] \cup {Nobody}] : Used(p) \cap busy = {}}

\* m_currSfAllocInfo: what was planned for this subframe, or nothing.
Taken(c) == IF ring[c][sf].valid
            THEN [made |-> ring[c][sf].made, plan |-> ring[c][sf].plan]
            ELSE [made |-> 0, plan |-> FreePlan]

\* An entry whose m_valid has been cleared.
TakenOut(e) == [frame |-> e.frame, valid |-> FALSE, made |-> e.made, plan |-> e.plan]
Consumed(m) == [frame |-> m.frame, valid |-> FALSE, busy |-> m.busy]

\* m_sfAllocInfo of c once this subframe's entry is used (StartSubFrame) and
\* the plan p for t is put in (SetDlSfAllocInfo).
Replanned(c, t, p) ==
    [k \in Index |->
        IF k = t.sf THEN [frame |-> t.frame, valid |-> TRUE, made |-> Distance(t), plan |-> p]
        ELSE IF k = sf THEN TakenOut(ring[c][k])
        ELSE ring[c][k]]

\* MmWaveEnbPhy::StartSubFrame: take this subframe's plan, or an empty one if
\* none was made for it; StartSlot then has the MAC plan another subframe.  The
\* UE PHY of an IAB node turns to the slots announced to it.
StartSubFrame(c) ==
    LET t == Target(c) IN
    /\ ~aborted /\ c \notin started
    /\ started' = started \cup {c}
    /\ aborted' = (ring[c][sf].valid /\ ring[c][sf].frame # frame)
    /\ now' = [now EXCEPT ![c] = Taken(c)]
    /\ \E p \in Plans(c, BusyIn(c, t.sf)) :
           ring' = [ring EXCEPT ![c] = Replanned(c, t, p)]
    /\ ahead' = [ahead EXCEPT ![c] = Distance(t)]
    /\ IF c \in Relays
       THEN /\ mask' = [mask EXCEPT ![c][t.sf] = Consumed(@)]
            /\ ueNow' = [ueNow EXCEPT ![c] = ueRing[c][sf]]
            /\ ueRing' = [ueRing EXCEPT ![c][sf] = {}]
       ELSE UNCHANGED <<mask, ueNow, ueRing>>
    /\ UNCHANGED <<frame, sf, heard, delay>>

\* The entry whose DCIs a gNB PHY sends in its control symbol, and where.  All of
\* them: a DCI of size 0 would be left out, but the scheduler gives no RLC PDU to a
\* downlink slot of size 0 and so does not plan it, and one symbol always carries
\* bytes.
Mutant_AnnouncesLatest(p) == (sf + L1L2CtrlLatency + delay[p]) % SubframesPerFrame
AnnouncedAt(p) == (sf + ahead[p]) % SubframesPerFrame

\* DoIabBackhaulSchedNotify for all DCIs of one control symbol: a DCI for the
\* subframe the entry is about joins its mask, another starts a new one.
Mutant_MarksOldEntry(m, f, syms) == [m EXCEPT !.frame = f, !.busy = @ \cup syms]
Marked(m, f, syms) ==
    IF syms = {} THEN m
    ELSE IF m.frame = f THEN [frame |-> f, valid |-> m.valid, busy |-> m.busy \cup syms]
    ELSE [frame |-> f, valid |-> TRUE, busy |-> syms]

\* MmWaveUePhy::ReceiveControlMessageList on the backhaul of IAB node i: the
\* DCIs for i go to the UE PHY's slots and to the scheduler of i.
ReceiveControlMessageList(i) ==
    LET p    == ParentOf[i]
        k    == AnnouncedAt(p)
        syms == To(ring[p][k].plan, i)
        f    == ring[p][k].frame
    IN  /\ ~aborted /\ started = Cells /\ i \notin heard
        /\ heard' = heard \cup {i}
        /\ ueRing' = [ueRing EXCEPT ![i][k] = @ \cup syms]
        /\ mask' = [mask EXCEPT ![i][k] = Marked(@, f, syms)]
        /\ aborted' = (mask[i][k].frame = f /\ mask[i][k].busy \cap syms # {})
        /\ UNCHANGED <<frame, sf, started, delay, ahead, ring, now, ueNow>>

\* DoCschedUeConfigReq: c is told that n IAB nodes are behind one of its
\* devices.  The context setup that tells an IAB node has crossed the radio of
\* its parent, which counts that node too and has planned since it was told.
ReconfigureUe(c, n) ==
    /\ ~aborted
    /\ c \in Relays => ahead[ParentOf[c]] > L1L2CtrlLatency + n + 1
    /\ n + 1 > delay[c]
    /\ delay' = [delay EXCEPT ![c] = n + 1]
    /\ UNCHANGED <<frame, sf, started, heard, ahead, ring, now, mask, ueRing, ueNow, aborted>>

\* MmWaveEnbPhy::EndSubFrame, of every cell at the same time.
EndSubFrame ==
    /\ ~aborted /\ started = Cells /\ heard = Relays
    /\ IF sf = SubframesPerFrame - 1
       THEN frame < MaxFrame /\ frame' = frame + 1 /\ sf' = 0
       ELSE frame' = frame /\ sf' = sf + 1
    /\ started' = {} /\ heard' = {}
    /\ UNCHANGED <<delay, ahead, ring, now, mask, ueRing, ueNow, aborted>>

Next ==
    \/ \E c \in Cells : StartSubFrame(c)
    \/ \E i \in Relays : ReceiveControlMessageList(i)
    \/ \E c \in Cells : \E n \in 1 .. Behind[c] : ReconfigureUe(c, n)
    \/ EndSubFrame

Spec == Init /\ [][Next]_vars
-----------------------------------------------------------------------------
TypeOK ==
    /\ frame \in Nat /\ sf \in Index
    /\ started \subseteq Cells /\ heard \subseteq Relays /\ aborted \in BOOLEAN
    /\ delay \in [Cells -> Nat \ {0}] /\ \A c \in Cells : delay[c] <= Behind[c] + 1
    /\ ahead \in [Cells -> Nat]
    /\ ring \in [Cells -> [Index -> Entry]] /\ now \in [Cells -> Current]
    /\ mask \in [Relays -> [Index -> Busy]]
    /\ ueRing \in [Relays -> [Index -> SUBSET Symbols]]
    /\ ueNow \in [Relays -> SUBSET Symbols]

\* The ring holds the furthest plan.  With the defaults (10 and 2) this is a
\* bound of 7 on the IAB nodes behind one device.
LookAheadFits == \A c \in Cells : L1L2CtrlLatency + Behind[c] + 1 <= SubframesPerFrame

\* An IAB node uses no symbol with its own devices that its parent uses with
\* it, in any subframe its parent planned further ahead than it did: also
\* around the raise of a look-ahead and across the end of a frame.
HalfDuplex ==
    \A i \in Relays :
        LET p == ParentOf[i] IN
        i \in started /\ p \in started /\ now[p].made > now[i].made
            => To(now[p].plan, i) \cap Used(now[i].plan) = {}

\* Both ends of a backhaul link agree on every subframe: what the UE PHY of an
\* IAB node collected, index by index and without looking at the frame, is what
\* its parent's PHY executes.
BothEndsAgree ==
    \A i \in Relays :
        i \in started /\ ParentOf[i] \in started
            => ueNow[i] = To(now[ParentOf[i]].plan, i)

\* The assertions on the plan a PHY takes (mmwave-enb-phy.cc:1195) and on the
\* symbols a DCI marks (mmwave-flex-tti-mac-scheduler.cc:372) hold.
NoAssertionFails == ~aborted
=============================================================================
