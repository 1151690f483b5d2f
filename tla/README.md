# Specification of ns3-mmwave-iab

TLA+ models of the protocol logic that this repository adds to ns-3: a mmWave
radio access network whose base stations may be *IAB nodes*, cells that reach
the core network over the radio of another cell. The models are checked with
TLC on small deployments; what matters most is proved with TLAPS for every
deployment. Paths below are relative to `src/src/` unless they start with
`src/`.

## 1. The system

An IAB node is two devices in one: a UE towards its donor (NAS, UE RRC, UE MAC)
and a gNB towards its children (EPC application, gNB RRC, gNB MAC). S1-AP and
GTP-U packets of everything below it travel as payload of its own radio bearer.
The program is a discrete event simulation: one thread takes events from a
queue in time order, a handler runs to its end, and whatever it calls directly
runs inside it. Interleaving means the order of events, which delays on the
radio and on links decide.

| Component | Where | State | Operations | Talks to |
|---|---|---|---|---|
| EPC application of an IAB node / a wired gNB | `lte/model/epc-iab-application.cc`, `epc-enb-application.cc` | IMSI, RNTI, TEID and bearer maps; which TEIDs and IMSIs are further down; IAB children per RNTI | `DoInitialUeMessage`, `RecvFromLteSocket`, `RecvFromS1uSocket`, `DoForwardIabS1apReply`, `DoInitialContextSetupRequest`, `DoUeContextRelease` | gNB RRC (S1 SAP, synchronous), S1-AP endpoint, parent cell or SGW |
| S1-AP endpoint | `epc-s1ap.cc` | `m_remoteImsiRequestMap` | send and receive S1-AP, decide *mine* or *further down* | application, MME |
| MME | `epc-mme-application.cc` | per IMSI: cell, bearers | `DoInitialUeMessage`: walk to the wired gNB, create the session | SGW (synchronous), S1-AP |
| SGW/PGW | `epc-sgw-pgw-application.cc` | TEID counter, UE and TEID maps, classifier | create session; downlink classification | S1-U |
| UE NAS | `epc-ue-nas.cc` | state, packet buffer | `Connect`, `Send`, `DoNotifyBearerSetup` | UE RRC |
| UE RRC | `lte-ue-rrc.cc` | state, RNTI, DRBs, T300 | connect, setup, reconfiguration, timeout | NAS, gNB RRC |
| gNB RRC | `lte-enb-rrc.cc` | one `UeManager` per RNTI | `AddUe`, the `UeManager` state machine, timers | application, MAC, UE RRC |
| RLC AM | `lte-rlc-am.cc`, `lte-rlc-am-header.cc` | VT/VR variables, transmission, transmitted, retransmission and reception buffers, five timers | segmentation, ARQ, STATUS PDUs, reassembly | PDCP (synchronous), MAC (opportunities) |
| RLC UM | `lte-rlc-um.cc`, `-lowlat` | window, buffers, reordering timer | segmentation, reassembly | PDCP, MAC |
| PDCP, X2, dual connectivity | `mc-enb-pdcp.cc`, `mc-ue-pdcp.cc`, `epc-x2.cc` | leg in use, forwarded SDUs | switch, handover | RRC, RLC |
| MAC scheduler | `mmwave/model/mmwave-flex-tti-mac-scheduler.cc` | look-ahead, mask of the symbols the parent uses, HARQ processes and their timers, HARQ answers not served yet | plan a subframe, note a backhaul DCI, reconfigure a device | MAC of the cell (synchronous) |
| MAC of a cell and of a UE | `mmwave-enb-mac.cc`, `mmwave-ue-mac.cc` | packets of each HARQ process, answers received, preambles | subframe indication, HARQ feedback, random access | scheduler, PHY, RLC |
| PHY, frame timing | `mmwave-enb-phy.cc`, `mmwave-ue-phy.cc`, `mmwave-phy.cc` | frame and subframe, a ring of one frame of plans | start and end of a subframe, announce and decode DCIs | MAC, the other end of the radio |
| Channel | `mmwave/model` | gains, SINR | numeric | PHY |
| Helpers | `mmwave/helper` | none at run time | build nodes and the tree | everything |

Behaviours that are hard to test:

- **Order.** Several devices on one branch attach at once. Each request crosses
  every hop through that hop's NAS, and every cell writes several maps from it;
  replies come back the same way and read them.
- **The window between "NAS active" and "bearer exists".** `DoRecvRrcConnectionSetup`
  makes the NAS active, the data radio bearer comes with a later reconfiguration.
- **Timeouts.** T300 in the UE (100 ms), the request and setup timers in the
  cell (15 ms and 150 ms) and a context setup that takes as long as the tree is
  deep. A retry has a new RNTI, new TEIDs and the same IMSI.
- **Nothing is retransmitted** above the radio: a lost `InitialUeMessage` is lost.
- **Assertions.** Maps of different objects must agree, or `NS_ASSERT` and
  `NS_FATAL_ERROR` end the simulation.
- **RLC AM**: two windows over sequence numbers that come round again, kept in
  step by STATUS PDUs that are late, overtaken, cut short or lost; PDUs sent
  again in segments.
- **Two schedulers, one radio.** An IAB node may not serve its children in a
  symbol its parent uses with it; all it has is the announcement of a plan made
  some subframes earlier, and look-aheads grow while the tree does.
- **HARQ**: processes under a timer, answers that come late, wait for symbols or
  meet a process that was given to another block, and answers to empty PDUs.
- A split bearer switched between LTE and mmWave while data is queued.

What makes each component correct:

- *EPC applications*: a TEID leads to the device and bearer it was allocated
  for; a tunnel is whole from the core to the serving cell; a route never
  outlives the RNTI it leads to; a packet finds its sender's context.
- *S1-AP endpoint*: a reply is forwarded exactly when it is for a device further down.
- *MME*: the walk over donors ends at a wired gNB.
- *SGW*: TEIDs are never reused; the newest session of a UE wins.
- *NAS/RRC*: every device that connects gets its bearers; every packet is
  handed to the RLC once; both sides number bearers alike.
- *Scheduler configuration*: it is told the number of IAB nodes behind an RNTI.
- *RLC AM*: SDUs come out whole, once, in order, and all of them in the end; a
  PDU is freed only when the peer has it, is in one buffer, and is never
  mistaken for another with the same number.
- *Backhaul and access*: an IAB node is half duplex, and both ends of a backhaul
  link agree what a subframe is used for.
- *HARQ*: a process is stop-and-wait, the scheduler's and the MAC's idea of it
  agree, and it is free again in the end.
- *RLC UM* is a lossy FIFO; *PDCP* delivers across a switch (both planned, see
  section 6).

`PROJECT.json` lists the hazards with their lines.

## 2. Modules

    IabTopology      the tree, identifiers, packets          (constants only)
      IabEpc         attach and tunnels over the tree        (the model)
        MC_IabEpc    deployments for TLC
        IabEpcTyping     THEOREM Typing
          IabEpcTunnels  THEOREMS RouteToOwner, ReachesRightBranch, InOwnTunnel,
                         WholeUpstream, ImplementsTunnelTree,
                         ForwardsForChildren, CountsOwnBranch
            IabEpcLive     THEOREMS RoutesAreLive, ContextIsFound, RoutesAreStable
              IabEpcAborts   THEOREMS OnlyKnownAborts, FirstAttachDoesNotAbort
      TunnelTree     what the tunnels promise                (abstract)
        TunnelTreeProofs THEOREM TunnelsAreWhole
    SduPipe          what an acknowledged bearer promises    (abstract)
      RlcAm          one direction of an RLC AM bearer
        RlcAmProofs      THEOREMS NothingReleasedEarly, OneCopyKept, NoPduMistaken,
                         AckSnInReach, VrMsForward, TypeCorrect, BearerIsPipe,
                         RestMeansDelivered
    LookAhead        the cells of a tree sharing subframes
      MC_LookAhead   a chain for TLC
      LookAheadProofs    four theorems
    DlHarq           downlink HARQ of one device
      DlHarqProofs   THEOREMS TypeCorrect, AssertionHolds, ProcessesStopAndWait,
                     CountsAgree, AckedIsDone

The bearers of `IabEpc` are what `RlcAm` and `DlHarq` provide to the layer above
(the runs of `IabEpc` take the weaker RLC UM, which may lose a packet); the
transport blocks of `RlcAm` are what `DlHarq` delivers late, out of order or not
at all, in slots that `LookAhead` keeps apart.

`IabEpc` instantiates `TunnelTree` with the set of TEIDs each cell routes;
`TunnelsGrowDownwards` says that it implements it; the run `tunnels` checks that and
`ImplementsTunnelTree` proves it.

### IabTopology

The helper's tree: `Wired`, `Iab` and `Ue` nodes, `Parent` the cell each device
is attached to, `Below[b]` the devices whose path to the core crosses cell *b*.
`TopologyAssumption` says that `Below` is what `Parent` makes it and that no
IAB node is below itself. Packets are records; a frame is a packet with its
`EpsBearerTag`.

### IabEpc

State, by the object that keeps it:

| Variable | Member |
|---|---|
| `rrc`, `rnti`, `drbs`, `attempts` | `LteUeRrc::m_state` (idle, connecting, connected), `m_rnti`, size of `m_drbMap`; random accesses so far |
| `nas`, `nasBuffer` | `EpcUeNas::m_state`, `m_bufferReceivedNasOff` |
| `lostS1ap` | history: devices whose `InitialUeMessage` was dropped between NAS and RRC |
| `srbUl`, `srbDl`, `ulq`, `dlq`, `losses` | SRB0/1 and the DRBs of each device: RLC, MAC and PHY between the two RRCs |
| `lastRnti`, `ueMap` | `LteEnbRrc::m_lastAllocatedRnti`, `m_ueMap`; `numIab` is the last `m_numIabDevsPerRnti` sent to the MAC |
| `imsiRnti`, `rntiLocalImsi`, `imsiIab`, `rbidTeid`, `teidRbid`, `teidRemote`, `imsiLocalRbid`, `children` | `m_imsiRntiMap`, `m_rntiLocalImsiMap`, `m_imsiIabMap`, `m_rbidTeidMap`, `m_teidRbidMap`, `m_teidRemoteMap`, `m_imsiLocalRbidMap`, `m_rntiImsiChildrenMap` of the application |
| `remoteImsi` | `EpcS1apEnb::m_remoteImsiRequestMap` |
| `mmeCell`, `session`, `enbAddr` | MME and SGW: cell of a UE, TEIDs in the order the counter gave them, wired gNB of a UE |
| `s1Up`, `s1Down`, `s1uDown` | S1-AP and S1-U of the wired gNBs |
| `dataSent`, `fatal` | packets the applications sent; the assertion that ended the program, `"no"` while it runs |

**One action is one simulator event.** The handler and all it calls directly are
one action; what it sends is in a queue until another action takes it. The two
S1-AP sockets inside an IAB node are joined by devices without delay and belong
to the event that writes to them. `PROJECT.json`'s map names the lines of each
action.

    RandomAccess -> RecvConnectionRequest -> RecvConnectionSetup
      -> RecvConnectionSetupCompleted -> RecvReconfiguration
      -> RecvReconfigurationCompleted            one device and its cell
    RelayInitialUeMessage (per hop) -> MmeRecvInitialUeMessage
      -> WiredRecvS1ap -> IabRecvS1ap (per hop)  its context, up and down
    UeSend -> RecvUeData -> RelayData (per hop)              uplink
    SgwRecvFromInternet -> WiredRecvData -> IabRecvData -> DeliverToUe
    ConnectionTimeout, RemoveUe, LoseUplink, LoseDownlink, DropDownlink

Abstractions:

- *SRBs* are FIFOs, and a message lost on one shows as `ConnectionTimeout`,
  which clears them. With the default `UseIdealRrc` the radio loses no RRC
  message and T300 cannot expire; retries need the real RRC protocol, which the
  runs with `UeRetries` describe. A cell-side timeout (`RemoveUe`) comes after
  the UE's T300. A setup complete that is delayed beyond 150 ms without T300 is
  not modelled (see the hazards).
- *DRBs* are FIFOs of any delay that may lose at most `MaxLoss` packets (RLC UM).
- IAB nodes have one bearer, as `ActivateIabBearer` gives them.
- Data a wired gNB sends upwards leaves the model: the SGW forwards it whatever
  its TEID.
- Several bearers of a UE share one queue per direction, so packets of two
  bearers do not overtake each other.
- Assertions are on, as in the repository's default debug profile; `fatal`
  records the one that fires and no action follows.

### TunnelTree

`session` and, per cell, the set of TEIDs it holds. A request's TEIDs appear
together (`Open`), a tunnel grows cell by cell from the wired gNB and with all
the bearers of a request at once (`Extend`), and only the serving cell gives
TEIDs up (`Withdraw`).

### RlcAm and SduPipe

One direction of a bearer: the transmitting half of one `LteRlcAm`, the
receiving half of its peer and the radio between them. The variables carry the
names of the members (`vtA` is `m_vtA`; see the comments in the module).

    TransmitPdcpPdu, TransmitNew, RetransmitRest, RetransmitSegment,
    RetransmitNothing, ExpirePollRetransmitTimer, ReceiveStatus    transmitting side
    ReceiveData, ExpireReorderingTimer, ExpireStatusProhibitTimer,
    TransmitStatus                                                  receiving side
    LoseData, LoseStatus                                            radio

A transmission opportunity is one call of `DoNotifyTxOpportunity`; its branches
(STATUS PDU, retransmission, new data) are actions, with the precedence of the
code in their guards.

- *Payload is a stream of units.* SDU *s* is the units `(s-1)*SduUnits+1 ..
  s*SduUnits`; a PDU takes the next units, so two bounds stand for the framing
  info and length indicators of the header. `delivered` holds what reassembly
  produced, unit by unit, and so would show a broken SDU.
- *Sequence numbers* are modulo `2*W`, W being `m_windowSize`: 512 of 1024 in
  the code, where the window is half the number space as here.
- `pdu.num`, `low`, `num`, `nSent`, `nAcked` and `nRcvd` count without wrapping.
  They are history: properties and the limit on delays read them, no handler does.
- *The radio* reorders and loses messages. A transport block is not delayed for
  longer than the sequence numbers allow: a PDU may be under way only while
  fewer than W later ones were sent. Without that limit no ARQ over a finite
  number space works; HARQ's timer is what justifies it.

`SduPipe` is what PDCP sees: SDUs enter and leave whole, once, in order.
`ImplementsPipe` says that `RlcAm` implements it.

### LookAhead

All cells of a tree, subframe by subframe. `StartSubFrame(c)` is the PHY's
handler with the scheduler it calls: take the plan of this subframe out of the
ring, plan the subframe `L1L2CtrlLatency + delay[c]` ahead, put it into the ring.
`ReceiveControlMessageList(i)` is the UE half of an IAB node decoding the DCIs
its parent announces and marking the symbols as busy for its own scheduler.
`ReconfigureUe(c)` is the count of IAB nodes behind a device growing, and with
it `m_maxSchedulingDelay`. `EndSubFrame` moves time on. Cells start a subframe
in any order.

- A plan gives each data symbol to one user or nobody. How the free symbols are
  divided is any choice; that a scheduler does not give a symbol to two of its
  own users is taken from the way it advances `symIdx`.
- Every DCI of a plan is announced. The PHY would leave out one of size 0
  (`mmwave-enb-phy.cc:1269`), but no plan holds one: a downlink slot of size 0 gets no
  RLC PDU and is not pushed (`mmwave-flex-tti-mac-scheduler.cc:2089`), and a symbol
  at the lowest MCS already carries bytes (`mmwave-amc.cc:183`).
- `m_split` (default true) is on. With it off the scheduler does not look at the
  mask at all.
- A parent learns of the IAB nodes behind a device before the device itself
  does, since its count includes them and the context setup crosses its radio
  first: the guard of `ReconfigureUe`.
- The field `made` of a plan is history: how far ahead it was made. Half duplex
  is claimed for plans of which the parent's was made further ahead; a parent
  that does not know yet that a device is an IAB node plans no earlier than it,
  and their plans can collide.
- Frames are natural numbers. In the PHY they have 16 bits; they wrap after 65 536.

### DlHarq

One device of a cell (a UE or the backhaul side of an IAB node). `Schedule` is
the subframe indication of the MAC with the scheduler it calls and the
configuration the scheduler calls back with: refresh the timers, serve the
HARQ answers in order, give slots to new data, hand packets to the PHY.
`Receive` is the end of the data slots at the UE, `Control` the arrival of its
answers.

- *Empty PDUs.* An ACK empties `buffer` of its process. When the scheduler sends
  that process again, the DCI is announced like any other and the PHY of the cell
  fills the slot with an empty PDU (`mmwave-enb-phy.cc:1330`); the UE expects a
  transport block there and answers it. Such a slot, and its answer, is one with
  `tb = NoTb`, and the answer is applied to whatever the process holds when it
  comes.
- *When answers come.* `TbDecodeLatency` after its slot an answer joins the one list
  the UE keeps for the cell (`mmwave-phy.cc:273`), and the next uplink slot of the
  UE, of data with packets or of control, takes the list along. When in a subframe
  that happens does not matter, as the scheduler reads what came at the start of
  the next one. But late slots of a subframe may miss its last uplink slot, so the
  answers of one subframe come in two parts, `AnswerDelay` subframes later at most
  and one less at least: `onTime` is where the list is cut. With the default 100 µs
  and subframes of 100 µs they come one or two subframes after.
- *The order of slots.* A subframe's slots are sorted by symbol. A retransmission is
  put where it fits, so the order in which blocks are received and answered is any.
- *What other devices and the mask leave* is any choice of each subframe: how many of
  the answers are served before the last symbol is given away (`seen`; the rest is
  lost, see the finding `lost_feedback`), which retransmissions find a run of free
  symbols long enough (`fit`, for each by itself), and the slots left for new data.
- An allocation of new data may be split by the mask in any number of slots, and the
  RLC may have nothing left for the last ones: they take a process and are not sent.
- `holds`, `expired`, `sent` and `acked` are history, and so is the `tb` of an answer:
  the code finds the process by its number alone.
- The timer of a free process is kept at 0; the code lets it run and sets it to
  0 when it takes the process.

## 3. What the runs check

Deployments: *two hops* is w1 – i1 – j1 – u1, *one hop* w1 – i1 – u1, *fork* is
one hop with a second UE v1 on w1.

| Run | Instance | Distinct states | Shows |
|---|---|---|---|
| `two_hops` | two hops, 2 data packets, 1 loss, fair | 19 653 | maps along the path agree and no assertion fires: `TypeOK`, `RouteClosedUpstream`, `RemoteImsiIsForwarded`, `ChildrenAreDownstream`, `NoAbort`; every device gets its bearers: `AttachCompletes` |
| `fork` | fork, u1 with 2 bearers, 1 packet per UE | 173 237 | traffic keeps to its branch, tunnel and bearer: `DownlinkRouteToOwner`, `DownlinkReachesRightBranch`, `UplinkInOwnTunnel`, `UplinkFindsContext` |
| `tunnels` | one hop, u1 with 2 bearers attaches twice, 1 packet, 1 loss | 26 759 | `IabEpc` implements `TunnelTree` (`TunnelsGrowDownwards`); routes and RNTIs live together (`RouteIsLive`, `RouteIsStable`); an assertion that fires has one of the known causes (`AbortsHaveACause`) |
| `rlc_arq` | W = 3, 7 PDUs, 2 + 2 messages on the radio, 1 loss | 439 345 | `RlcAm` implements `SduPipe`, and both windows stay in step |
| `rlc_segments` | W = 2, 2 SDUs of 2 units, opportunities of 1 or 2 units, 1 loss | 748 506 | segmentation, concatenation and segments of retransmissions: still a pipe |
| `rlc_live` | W = 3, 3 SDUs, 2 losses, fair | 51 181 | everything is delivered in the end, and nothing is left when both sides rest |
| `look_ahead` | chain w1 – i1 – j1, frames of 3 subframes, look-aheads from 1 up to 3 | 2 188 688 | `HalfDuplex`, `BothEndsAgree`, no assertion of the PHY fails |
| `dl_harq` | 3 slots of new data, 3 data symbols, 1 retransmission, answers at the end of the same or the next subframe, timer 4, fair | 1 081 135 | `StopAndWait`, `TransmissionsAreCounted`, `AckedIsNotSentAgain`, the scheduler's assertion holds; every process comes free: `ProcessesComeFree` |
| `lost_s1ap`, `rlc_full_window`, `rlc_lost_segment`, `lost_feedback` | see findings | | each violates the property it checks |

**Why the bounds suffice.**

*IabEpc.* Two hops are the fewest where a cell is at once forwarder and
forwarded to, so a map has local, child and grandchild entries; a third hop
repeats the middle one. The fork is the fewest branches to confuse. Two bearers
tell the first from the others. Two attempts give an old and a new RNTI, context
and set of TEIDs at once. `MaxRnti` and `MaxTeid` are what the attempts need, so
no run is cut short by them.

*RlcAm.* Seven PDUs over six numbers: every number is used and one comes round.
W = 3 is the least window with a PDU before, in and after a gap. Two messages of
each kind overtake each other; one loss opens a gap, a second loses the repair
(`rlc_live`). `MaxUnacked` is a workload: PDCP hands over no more while that
many units are unacknowledged. It is below a whole window in the runs that pass,
because of the finding `rlc_full_window`, and at two in `rlc_live` because of the
lost poll described below, which takes a third PDU. Larger windows and every number of
losses are covered by the proofs.

*LookAhead.* A chain of two IAB nodes has a cell that is both parent and child.
One symbol is enough, as symbols do not depend on each other; three subframes per
frame are what a look-ahead of three needs; in the second frame the ring and
the masks are used again. The proofs take the bounds away.

*DlHarq.* The answer to a second transmission may come before the timer ends the
block or after, when another block may have taken over the process: the shape that
four transmissions, the defaults' round trip of 4 to 6 subframes and a timer of 20
have. Within these bounds TLC reaches an empty PDU on the air, its ACK and its
NACK at a process that holds a later block, and that ACK emptying the later
block's packets. Three slots of new data are enough for a split allocation beside
a block that is retransmitted, and three symbols for an allocation split in three
whose last two slots are void. As every slot takes the first free process, more
processes than slots are never looked at. The run ends new data after three slots,
which is why `ProcessesComeFree` can speak of all processes at once. The radio's
round trip is one subframe shorter than with the defaults; the theorems hold for
every one.

`CHECK_DEADLOCK FALSE`: a simulation whose devices are attached and whose
packets are sent, or whose SDUs are delivered, or whose last frame has passed is
at its end, as is one that stopped at an assertion. The runs of `DlHarq`
have no end and check deadlock.

Operators named `Mutant_...` are plausible faults in the definition that follows
them; `PROJECT.json` pairs each property with the fault it detects when that
definition is replaced. Nothing else uses them.

**Fairness** is what the event queue gives: an event that is due runs.

- `AttachCompletes`: weak fairness on handling what is on the radio or a link, on
  random access (the MAC repeats it until it succeeds) and on the MME. Nothing
  is assumed of applications, timers or losses; the property excepts devices
  behind a lost or dropped request, which nothing repeats.
- `AllDelivered`: a timer that runs expires or is stopped; the MAC grants what it
  was told of, and is told again every `m_rbsTimer` while data is unacknowledged;
  a message on the radio arrives or is lost.
- `ProcessesComeFree`: the next subframe comes. Nothing is assumed of receptions
  or of the symbols left.

**Findings**, each a run that TLC must find violated:

| Run | What happens |
|---|---|
| `lost_s1ap` | A child connects to an IAB node whose NAS is active but which has no DRB yet. `EpcUeNas::Send` hands the `InitialUeMessage` to the RRC, which drops it; the comment at `epc-iab-application.cc:731` expects it to be "sent later". The child never attaches. |
| `rlc_full_window` | The peer received a whole window before one STATUS PDU came back. ACK_SN equals VT(MS), `lte-rlc-am.cc:2196` takes the report for one out of order, and so every later one: the window never moves again. |
| `rlc_lost_segment` | The last segment of a retransmitted PDU carries no poll (`lte-rlc-am.cc:485` compares a buffer size in which the PDU counts whole). When it is lost no timer is running, and both sides wait for ever. |
| `lost_feedback` | The loop over the HARQ answers ends when no symbol is free (`mmwave-flex-tti-mac-scheduler.cc:998`), and the answers it did not reach are not among those kept for the next subframe. In a subframe that the mask of an IAB node fills, all answers are lost: a block that failed is not sent again, one that arrived keeps its process until the timer ends it. |

Seen in the models and excepted where a property has to be:

- T300 expires while the context setup is on its way: both requests reach the
  new RNTI and `lte-enb-rrc.cc:396` asserts. The setup timer removes the
  `UeManager` while `m_imsiRntiMap` keeps the RNTI, and the late context setup runs
  into `lte-enb-rrc.cc:2800`. The NAS flushes its buffer at every new bearer without
  emptying it; the second time the packets still carry their RLC tags
  (`packet-tag-list.cc:266`). These are the causes `AbortsHaveACause` names, and why
  `NoAbort` is checked with one attempt and one bearer.
- A reconfiguration complete that comes after nodes further down attached sets
  the number of IAB devices behind the RNTI back to 1.
- A poll may be lost for good. The poll timer expires while a PDU waits for
  retransmission, and `lte-rlc-am.cc:2927` leaves the poll to that retransmission;
  a late STATUS PDU acknowledges it before it is sent. The PDU that carried the
  poll and was lost stays in `m_txedBuffer`, of which `DoReportBufferStatus` does not
  speak, and no timer runs. It takes three PDUs, one delivered, one delayed beyond
  the reordering timer and one lost: with `W = 4`, `MaxUnacked = 3`, `MaxInFlight = 3`,
  `MaxLoss = 1` and `SPECIFICATION Spec` in `MC_RlcLive.cfg` TLC finds
  `DeliveredAtRest` violated in 18 states.
- With more than 7 IAB nodes behind one device (defaults: 10 subframes a frame,
  latency 2) the look-ahead is longer than the ring: a plan overwrites the one
  of the next subframe and `mmwave-enb-phy.cc:1195` asserts. `LookAheadFits`, the
  hypothesis of the theorems, excludes it. With `SubframesPerFrame = 3`,
  `L1L2CtrlLatency = 1` in `MC_LookAhead.cfg` TLC shows it.
- With a timer of 20 and a look-ahead of 4 or more (one IAB node behind the
  device) the fourth transmission of a block is answered 24 subframes after the
  first, and the process is free from the 21st. When it is taken again, a late
  NACK sends the new block again before its own answer, and a late ACK throws its
  packets away; a retransmission after that is an empty PDU, and its answer does
  the same to the next block. When the process is taken by a slot that is not sent,
  a late NACK sends the old block a fifth time. `StopAndWait` is therefore claimed
  until a timer has ended a block of the process; `TransmissionsAreCounted`,
  `AckedIsNotSentAgain` and the assertion hold after it too.
- A retransmitted segment may be cut again, which `lte/doc/source/lte-design.rst:1737`
  rules out; the model follows the code.

## 4. What is proved

### The tree

From `TopologyAssumption`, `BoundsAssumption` and `AttemptsAssumption` only, for
every tree, number of devices, bearers, attempts, packets and losses.

**`Typing`: `Spec => []TypeOK`** (`IabEpcTyping`). `TypeOK` is not inductive: a
handler indexes `ueMap[b][r]` by the RNTI of a message, applies `session` to a
TEID, sends to `enbAddr[u]`. `TypeInv` adds

- `QueueInv`: what is queued for a device belongs to it. An RNTI once given to
  a device is never given to another, so the owner of an RNTI (`UeOf`) is fixed;
  requests carry consecutive TEIDs the SGW granted to their device, and
  `InitialUeMessage`s on the radio come from an IAB node with the device below it;
- `LinkInv`: a connected UE's RNTI is one its cell gave it;
- `UeMapInv`: RNTIs above `lastRnti` are unused, a `UeManager` belongs to a
  device of the cell, and the application's `rntiLocalImsi` agrees;
- `SessionInv`: TEIDs stay within the bound, and an owner has a wired gNB;
- `OwnInv`: the RNTI a cell has for a device that is not further down is that
  device's own.

One lemma per action; `TypeInvStep` and PTL put them together.

**`RouteToOwner`: `Spec => []DownlinkRouteToOwner`** (`IabEpcTunnels`). A route is
written from the maps at the time a request arrives, so `RouteInv` adds to
`TypeInv` that the maps are right (`MapInv`): what `imsiIab` calls an IAB node is
one; `imsiLocalRbid` leads to a child with the device below it; the RNTI of a
device of the cell maps back to it; a remote TEID belongs to a device whose
messages the cell forwards. With that, `ForwardIabS1apReply` writes a route to
the right child and `SetupContext` one to the owner, and `RemoveUe` only takes
routes away.

**`ReachesRightBranch`: `Spec => []DownlinkReachesRightBranch`** and
**`InOwnTunnel`: `Spec => []UplinkInOwnTunnel`** (`IabEpcTunnels`). A cell writes a
TEID into a packet, or takes one off, from its own maps, and packets wait on the
radio and in NAS buffers while those maps change. `TrafficInv` adds to `RouteInv`

- `TunnelInv`: `rbidTeid` leads from a bearer of an RNTI to a TEID allocated for that
  bearer of the device `rntiLocalImsi` names;
- `KindInv`: no IAB node is taken for a UE, so its packets, which have a tunnel
  already, are not put into another;
- `UpInv`, `DownInv`: every queue and NAS buffer holds what belongs there. What
  belongs is fixed when it is sent, and stays so because TEIDs keep their owner
  (`Keeps`, `BelongStays`).

**`WholeUpstream`: `Spec => []RouteClosedUpstream`** and
**`ImplementsTunnelTree`: `Spec => TunnelsGrowDownwards`** (`IabEpcTunnels`). A route is
written from a request, so `ClosedInv` adds to the closure itself that a request on
the air towards an IAB node has its TEIDs routed by the parent already, to that
node (`GrantedFrame`): the parent writes them in the event that sends the request.
The rest is that a route through a cell never ends or turns (`ViaStays`).
`SetupContext` and `RemoveUe` write TEIDs of the cell's own devices only
(`TunnelInv`), and such a device is not behind a child (`NotAttachedAbove`).
`ForwardIabS1apReply` may write one again, for another request of the device, and
then finds the same child: no device is behind two children of one cell
(`OneBranch`, by well-founded descent along `Parent` in the finite tree). The same
case split gives the refinement: the handlers of a request take an `Extend` step,
whose guard is `GrantedFrame`, `RemoveUe` a `Withdraw`, the MME an `Open`, and every
other action stutters.

**`ForwardsForChildren`: `Spec => []RemoteImsiIsForwarded`** and
**`CountsOwnBranch`: `Spec => []ChildrenAreDownstream`** (`IabEpcTunnels`). What a cell
notes about devices further down comes from an `InitialUeMessage`: `TrafficInv` has
that the parents it lists, on the air from a node, are that node and nodes behind
it (`OnBranch`), and `BranchInv` that the notes agree with each other (`Forwarded`,
`Counted`). A cell that adds itself before it counts, or not at all, breaks them.

**`RoutesAreLive`: `Spec => []RouteIsLive`** and
**`ContextIsFound`: `Spec => []UplinkFindsContext`** (`IabEpcLive`). Both speak of maps
that three parties keep: the device, the RRC of its cell and the application. The
RRC may remove a `UeManager` under the others, but only one whose device does not
use its RNTI any more. `LiveInv` adds to `BranchInv`

- `AttachedInv`: the `UeManager` of the RNTI a device uses is there; a connected
  device is in its cell's `m_rntiLocalImsiMap`, its NAS is ACTIVE, and it has no more
  bearers than the cell set up;
- `CurrentInv`: what is on an SRB or on the air from a device carries the RNTI it
  uses, and a data frame a bearer its cell has set up. A UE that gives up was not
  connected, so nothing of it is on the air;
- `ContextInv`: a `UeManager` with bearers has its device's kind and a TEID for each
  bearer in the application's maps;
- `ChildInv`, `LivesInv`: the bearer noted for a device further down, and that of a
  remote route, is a bearer of a connected child, which stays (`Permanent`); a route of
  the cell's own is the one `rbidTeid` has for its bearer, so `RemoveUe` erases both.

**`RoutesAreStable`: `Spec => RouteIsStable`** (`IabEpcLive`). An action property from
the invariant `StableInv`: the TEIDs that the requests queued for a cell bring are
pairwise disjoint and none is routed by that cell yet (`FreshInv`: the SGW gives a
TEID out once, and a cell passes a request on once), and what `m_rbidTeidMap` says of
a bearer `m_teidRbidMap` says of its TEID (`WrittenInv`). So a request writes only
where there is no route, and `RemoveUe` erases only routes to its own RNTI.

**`OnlyKnownAborts`: `Spec => []AbortsHaveACause`** (`IabEpcAborts`). Of the assertions
and fatal errors the model has, only three fire, with the cause
`AbortsHaveACause` gives each.

- `NotedInv`: a cell notes a device behind a child only after the child has, and
  after the MME knows the child's cell; the SGW opens a session only when every
  cell on the way has noted the device. So a reply finds the maps
  `DoForwardIabS1apReply` asserts on, and the walk over donors, a recursive
  function, ends at the wired gNB (`DonorFound`, by the node with the fewest nodes
  above it for which it would not).
- `OnceInv`: while a device has used one RNTI its request is in one place only: not
  yet sent, with one of the nodes, with the MME, or in its session. So two
  requests for one `UeManager` need a second attempt.
- `EmptyInv`: a device without bearers has nothing on the air. A NAS sends what it
  buffered at its first bearer, so a packet is tagged twice only when a second
  bearer comes.

**`FirstAttachDoesNotAbort`: `Spec => []NoAbort`** (`IabEpcAborts`) when every device
has one attempt and the default bearer only. Two of the causes do not arise then,
and `FirstInv` excludes the third: with no attempt left T300 gives up no RNTI, so
every RNTI a cell has given out is still used and no `UeManager` is removed.

**`TunnelsAreWhole`: `TunnelTree!Spec => []WholeTunnels`**. Extending keeps a
tunnel whole by its guard; `Withdraw` at *b* could leave a child of *b* with a
TEID *b* lost, and does not, because a device attached to *b* is not below any
child of *b* — from the topology.

### RLC AM

From `ParametersAssumption` only: for every window, workload, number of losses
and order of arrival the radio of `RlcAm` allows, `RlcAmProofs` shows
`ReleasedIsReceived`, `BuffersAgree`, `RightPdus`, `AckSnIsReported` and
`VrMsOnlyAdvances`. One inductive invariant carries all five:

- `Shape`: types;
- `Windows`: as numbers, VT(A) <= VR(R) <= VT(S) <= VT(A) + W, and `vtS`, `vrR` are at
  these distances from `vtA`;
- `Numbered`: the PDU under a sequence number of the window is the one its
  distance from VT(A) says;
- `Reception`: what is in the reception buffer is what its place says, nothing
  is beyond VR(H), VR(R) and VR(MS) are gaps, and between VR(X) and VR(MS) there is none;
- `DataInAir`, `StatusInAir`: a message on the radio is near enough for its
  sequence numbers to have one meaning; what a STATUS PDU acknowledges has been
  received, and stays received;
- `Gaps`: a number that was the first one missing for one STATUS PDU is not
  acknowledged beyond a gap by an older one. Without it an old report, read
  against a window that moved on, could free VT(A) twice.

Each action has a lemma (`NewPdu`, `RetransmitStep`, `StatusStep`,
`ReceiveStatusStep`, `ReceiveDataStep`, ...), on top of a few facts of arithmetic
modulo 2W (`Chain`, `StandsRebased`).

**`BearerIsPipe`: `Spec => ImplementsPipe`**, and **`TypeCorrect`**, which needs it
for what reassembly computes. The windows say which PDU a sequence number means;
a second invariant, `PipeInv`, says where its data are in the stream of units:

- `Framed`: each PDU of the window ends where the next one begins, the last one
  where the transmission buffer stands, and the rest of a segmented one is not empty;
- `Carried`: a data PDU on the radio that is not acknowledged yet has the units
  its `from` and `to` say of the PDU under its number, and all of them unless it is a segment;
- `Stored`: an entry of the reception buffer is the front of the PDU under its
  number, and all of it when it is complete (`PlacedHolds`: out of order segments
  and copies never leave anything else);
- `Assembled`: reassembly has delivered the first *n* SDUs whole and keeps what it
  has of the next one up to the unit where the PDU of VR(R) begins.

`ReassembleOne` takes one PDU through the framing info and length indicators, for
every way an SDU may be cut; `DeliveryRuns` takes the run of PDUs that VR(R) passes
through it. The run is a recursive function, so its claim is proved from its least
counterexample. Each action then maps to `Submit`, `Deliver` or a stutter, because
the SDUs delivered only grow (`DeliveredGrows`), were all handed over
(`OnlySubmitted`) and hold different units (`SdusDiffer`).

**`RestMeansDelivered`: `Spec /\ []TwoPdus => []DeliveredAtRest`**, for every
window, with opportunities a PDU always fits into (`AlwaysBigEnough`). `TwoPdus`
speaks of behaviours: at no time more than two PDUs are unacknowledged. The code
does not see to that, and neither hypothesis can be dropped: without
`AlwaysBigEnough` there is `rlc_lost_segment`, and with three PDUs the lost poll of
section 3. The inductive invariant `RestInv` says why, with two PDUs, somebody
always acts:

- `Watched`: while the peer misses a PDU, the poll timer runs, or there is new data to
  send, or the first missing PDU is to be sent again, or one beyond it is and will poll;
- `PollIsLast`, `LastInRetx`: the timer waits for the last PDU sent, which comes to be
  sent again only with the timer running or expired;
- `RetxFirst`: a PDU that is not to be sent again, beyond one that is, has arrived, so
  the timer that expires while others wait finds the missing one among them;
- `HighestIsThere`, `NacksHaveASuccessor`: only a PDU before one that arrived is reported
  missing, hence never the last one, and a report about the last one stops the timer
  only when it puts the first missing one back among those to send;
- `FullWindowPolls`: a full window has the poll timer running or a PDU to send again,
  so it is never at rest (it may poll for ever, as `rlc_full_window` shows);
- `NoSegments`: no PDU is sent or stored in part.

### LookAhead

For every tree, frame length, latency, number of symbols and order of events,
under `LookAheadFits` (`L1L2CtrlLatency + Behind[c] + 1 <= SubframesPerFrame`):
`TypeOK`, `HalfDuplex`, `BothEndsAgree` and `NoAssertionFails`. Time is a frame and
an index, never a product, as no plan reaches further than a frame. The
inductive invariant `Inv` says

- `Aheads`, `Rings`, `JustPlanned`: a valid entry of a ring is the plan of the next
  occurrence of its index and no further away than the last one planned;
- `MaskFrames`, `MasksCover`: what the parent announced for a subframe the node has
  yet to plan is in the node's mask;
- `PlansFit`, `ExecutedFit`: therefore plans for one subframe do not clash, in the
  rings and when they are used;
- `EndsAgreeLater`, `EndsAgreeNow`: the UE half's ring is the parent's, but for an
  announcement that is still in the air.

`StartKeeps`, `HearKeeps`, `ReconfigureKeeps` and `EndKeeps` preserve it.

### DlHarq

From `HarqAssumption` only, so for every look-ahead, delay of the answers, timer,
number of redundancy versions and number of slots, and for every order of slots,
loss and division of the symbols: `TypeOK`, `NoAssertionFails`,
`StopAndWait`, `TransmissionsAreCounted` and the action property
`AckedIsNotSentAgain`. None of them is inductive alone. Why an answer finds the
right block depends on what is in every queue a block passes, so the invariant
`Inv` relates the processes to the whole *line*, the queues of blocks and answers
in the order they move:

- `StatusIsRv`: what the assertion says, of every process in use;
- `TakenInTurn`: processes above the slots given are free, so there is always one
  for the next slot;
- `Owned`: a block stays with the process it was given to, in the line, in the
  packets of the MAC and in the scheduler; of an empty PDU only the process is known;
- `Counted`, `Discarded`: `TransmissionsAreCounted`, and an acknowledged block has no
  packets left to push;
- `Alone`, `Current`: until its timer ends a block, a process has one message in the
  line, of the block it holds and no empty PDU, and the MAC has its packets until the
  ACK is in.

One `Schedule` refreshes the timers, serves a list of answers and gives slots, and
the invariant does not hold of the variables in between. It is therefore stated of
a record `st` and a line `Q` (`Sound`, and `Good` while scheduling): `RefreshedGood`
starts it, `ServeGood` and `GiveSlotGood` keep it for one answer and one slot,
`ServedGood`, `AnsweredGood` and `FilledGood` carry it through the answers and the
slots by their least counterexamples, and `ScheduleStep` puts the result back into
the variables. `ReceiveStep` turns slots into answers in any order and parts them
(`AnswersAreMade`, `CutInTwo`), `ControlStep` moves messages up the line
(`LineMoves`). Beyond a timer an answer may be of any block or none, and the counts
still agree because `Counted` compares them block by block, with what the MAC would
send now.

### Only model-checked

Liveness (`AttachCompletes`, `AllDelivered`, `ProcessesComeFree`), which is beyond
the prover. Every invariant and every action property a passing run checks is
also a theorem.

## 5. Not modelled

- Handover, path switch and bearer release (`DoPathSwitchRequestAcknowledge` ends
  the program with "TODO" for a device behind an IAB node), dual connectivity and
  X2, idle mode cell search, measurements, SRS configuration.
- RLC UM (a lossy queue in `IabEpc`) and its low latency variant; in RLC AM the
  limit of the transmission buffer and its active queue management, the
  retransmission counters (only logged), re-establishment.
- How a scheduler divides free symbols among flows (`DoSchedTriggerReq` from line
  1378): numeric, and any division is allowed in `LookAhead` and `DlHarq`. Uplink
  HARQ, whose loop is that of the downlink, and `m_harqOn = false`. Exhaustion of the
  HARQ processes, which the defaults (100 processes, 21 subframes) leave out of
  reach.
- Random access is one event: collisions and preambles are not modelled.
- SINR, error model, soft combining, beamforming and channel are numeric: a
  transport block is received or lost.
- Helpers run before the simulation. Traces keep no state. The rest of `src/src`
  is general ns-3: TCP, WiFi, routing and so on, with generated bindings, which is
  most of its lines and none of this system's logic.

## 6. Plan

Done, with proofs: `IabEpc` with its tunnels; `RlcAm` with its pipe; `LookAhead`;
`DlHarq`. Next, in order of importance:

1. `RlcUm`: reassembly and the reordering timer; theorem: no packet twice.
2. `McPdcp` with `X2`: the leg switch of a split bearer and the forwarding of
   queued SDUs, composed with `SduPipe`.
3. `RandomAccessProc`: preambles, collisions, and the delayed setup complete
   against the 150 ms timer, which replaces the one `RandomAccess` action.
4. Uplink HARQ in `DlHarq`, with the buffer status reports that start it.
5. Path switch and release in `IabEpc`.
