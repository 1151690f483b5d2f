---------------------------- MODULE DlHarqProofs ----------------------------
(***************************************************************************)
(* Theorems about DlHarq, for every look-ahead, answer delay, timeout,     *)
(* number of redundancy versions and number of slots of new data.          *)
(*                                                                         *)
(* The inductive invariant is a relation, Sound, between the processes and *)
(* what is under way for them.  Schedule changes both answer by answer and *)
(* slot by slot; each of these small steps keeps Sound, so it is stated of *)
(* any record st with the fields of a subframe's scheduling and any line Q *)
(* of queues, and Inv applies it to the variables.                         *)
(***************************************************************************)
EXTENDS DlHarq, TLAPS, FiniteSetTheorems, SequenceTheorems, WellFoundedInduction

-----------------------------------------------------------------------------
(***************************************************************************)
(* The inductive invariant.                                                *)
(***************************************************************************)
Last == LookAhead + AnswerDelay + 4

\* What NS_ASSERT (status - 1 == rv) relies on.
StatusIsRv(st) == \A p \in Procs : st.status[p] > 0 => st.status[p] = st.rv[p] + 1

\* A slot takes the first free process, so those above the slots given are free.
TakenInTurn(st) == \A p \in Procs : p > st.nTbs => st.status[p] = 0

\* Every block stays with the process it was given to.
Owned(st, Q, own) ==
    /\ own \in [Tbs -> Procs]
    /\ \A k \in Queues : \A i \in DOMAIN Q[k] :
         /\ Q[k][i].proc \in Procs /\ Q[k][i].tb \in Tbs \cup {NoTb}
         /\ Q[k][i].tb # NoTb => Q[k][i].tb <= st.nTbs /\ own[Q[k][i].tb] = Q[k][i].proc
    /\ \A p \in Procs : st.buffer[p] # NoTb =>
         st.buffer[p] <= st.nTbs /\ own[st.buffer[p]] = p
    /\ \A p \in Procs : st.holds[p] # NoTb =>
         st.holds[p] <= st.nTbs /\ own[st.holds[p]] = p

\* TransmissionsAreCounted, for times transmissions of each block.
Counted(st, times) ==
    /\ \A t \in Tbs : t > st.nTbs => times[t] = 0
    /\ \A p \in Procs : st.holds[p] # NoTb =>
         /\ times[st.holds[p]] <= st.rv[p] + 1
         /\ st.buffer[p] = st.holds[p] => times[st.holds[p]] = st.rv[p] + 1

\* The packets of an acknowledged block are gone.
Discarded(st, done) ==
    \A t \in done : t <= st.nTbs /\ \A p \in Procs : st.buffer[p] # t

\* StopAndWait: a process whose timer has ended no block has one message at most,
Alone(Q, gone) ==
    \A p \in Procs \ gone : \A k, l \in Queues : \A i \in DOMAIN Q[k], j \in DOMAIN Q[l] :
        Q[k][i].proc = p /\ Q[l][j].proc = p => k = l /\ i = j

\* of the block it holds, whose packets the MAC has until their ACK is in.
Current(st, Q, gone) ==
    \A p \in Procs \ gone : \A k \in Queues : \A i \in DOMAIN Q[k] :
        Q[k][i].proc = p =>
            /\ st.status[p] > 0 /\ Q[k][i].tb # NoTb /\ Q[k][i].tb = st.holds[p]
            /\ st.buffer[p] = Q[k][i].tb \/ (k \in {1, 2} /\ Q[k][i].ack)

Sound(st, Q, gone, times, done, own) ==
    /\ StatusIsRv(st) /\ TakenInTurn(st) /\ Owned(st, Q, own)
    /\ Counted(st, times) /\ Discarded(st, done)
    /\ Alone(Q, gone) /\ Current(st, Q, gone)

\* The variables, as st and Q.
Now == [status |-> status, rv |-> rv, holds |-> holds, nTbs |-> nTbs, buffer |-> buffer]
Line == [k \in Queues |-> Queue(k)]

Inv ==
    /\ TypeOK /\ ~failed
    /\ \E own \in [Tbs -> Procs] : Sound(Now, Line, expired, sent, acked, own)

-----------------------------------------------------------------------------
(***************************************************************************)
(* Lines that lose and gain messages.                                      *)
(***************************************************************************)
\* No message of process p is under way.
Absent(Q, p) == \A k \in Queues : \A i \in DOMAIN Q[k] : Q[k][i].proc # p

\* Q2 has no message that Q does not have at the same place.
Within(Q2, Q) ==
    \A k \in Queues : \A i \in DOMAIN Q2[k] : i \in DOMAIN Q[k] /\ Q2[k][i] = Q[k][i]

\* A line that loses messages stays sound.
LEMMA LineShrinks ==
  ASSUME NEW st, NEW Q, NEW Q2, NEW gone, NEW own, Within(Q2, Q),
         Owned(st, Q, own), Alone(Q, gone), Current(st, Q, gone)
  PROVE  Owned(st, Q2, own) /\ Alone(Q2, gone) /\ Current(st, Q2, gone)
<1>1. Owned(st, Q2, own)
  BY DEF Owned, Within
<1>2. Alone(Q2, gone)
  BY DEF Alone, Within
<1>3. Current(st, Q2, gone)
  BY DEF Current, Within
<1> QED BY <1>1, <1>2, <1>3

\* The message of a process that is alone leaves none of it behind.
LEMMA NoneLeft ==
  ASSUME NEW Q, NEW Q2, NEW gone, Within(Q2, Q), Alone(Q, gone),
         NEW k \in Queues, NEW i \in DOMAIN Q[k], i \notin DOMAIN Q2[k],
         NEW p \in Procs \ gone, Q[k][i].proc = p
  PROVE  Absent(Q2, p)
BY DEF Absent, Within, Alone

\* Q2 has no message that Q does not have, but m as message i of queue k.
Gains(Q2, Q, k, i, m) ==
    \A q \in Queues : \A j \in DOMAIN Q2[q] :
        \/ q = k /\ j = i /\ Q2[q][j] = m
        \/ j \in DOMAIN Q[q] /\ Q2[q][j] = Q[q][j]

\* Q2 differs from Q in queue k only.
Same(Q2, Q, k) == \A q \in Queues : q # k => Q2[q] = Q[q]

\* Message m can be in queue k: it is the only one of its process, and current.
MayJoin(st, Q, gone, own, k, m) ==
    /\ m.proc \in Procs /\ m.tb \in Tbs \cup {NoTb}
    /\ m.tb # NoTb => m.tb <= st.nTbs /\ own[m.tb] = m.proc
    /\ m.proc \notin gone =>
         /\ Absent(Q, m.proc) /\ st.status[m.proc] > 0
         /\ m.tb # NoTb /\ m.tb = st.holds[m.proc]
         /\ st.buffer[m.proc] = m.tb \/ (k \in {1, 2} /\ m.ack)

\* So does one that gains a message of a process without any.
LEMMA LineGrows ==
  ASSUME NEW st, NEW Q, NEW Q2, NEW gone, NEW own,
         Owned(st, Q, own), Alone(Q, gone), Current(st, Q, gone),
         NEW k \in Queues, NEW i, NEW m,
         Gains(Q2, Q, k, i, m), MayJoin(st, Q, gone, own, k, m)
  PROVE  Owned(st, Q2, own) /\ Alone(Q2, gone) /\ Current(st, Q2, gone)
<1> USE DEF Gains, MayJoin
<1>1. Owned(st, Q2, own)
  <2>1. ASSUME NEW q \in Queues, NEW j \in DOMAIN Q2[q]
        PROVE  /\ Q2[q][j].proc \in Procs /\ Q2[q][j].tb \in Tbs \cup {NoTb}
               /\ Q2[q][j].tb # NoTb =>
                    Q2[q][j].tb <= st.nTbs /\ own[Q2[q][j].tb] = Q2[q][j].proc
    <3>1. CASE q = k /\ j = i /\ Q2[q][j] = m
      BY <3>1
    <3>2. CASE j \in DOMAIN Q[q] /\ Q2[q][j] = Q[q][j]
      BY <3>2 DEF Owned
    <3> QED BY <3>1, <3>2
  <2> QED BY <2>1 DEF Owned
<1>2. Alone(Q2, gone)
  <2> SUFFICES ASSUME NEW p \in Procs \ gone, NEW q \in Queues, NEW l \in Queues,
                      NEW j \in DOMAIN Q2[q], NEW h \in DOMAIN Q2[l],
                      Q2[q][j].proc = p, Q2[l][h].proc = p
               PROVE  q = l /\ j = h
    BY DEF Alone
  <2>1. CASE m.proc = p
    <3>1. q = k /\ j = i
      BY <2>1 DEF Absent
    <3>2. l = k /\ h = i
      BY <2>1 DEF Absent
    <3> QED BY <3>1, <3>2
  <2>2. CASE m.proc # p
    <3>1. j \in DOMAIN Q[q] /\ Q2[q][j] = Q[q][j]
      BY <2>2
    <3>2. h \in DOMAIN Q[l] /\ Q2[l][h] = Q[l][h]
      BY <2>2
    <3> QED BY <3>1, <3>2 DEF Alone
  <2> QED BY <2>1, <2>2
<1>3. Current(st, Q2, gone)
  <2> SUFFICES ASSUME NEW p \in Procs \ gone, NEW q \in Queues, NEW j \in DOMAIN Q2[q],
                      Q2[q][j].proc = p
               PROVE  /\ st.status[p] > 0 /\ Q2[q][j].tb # NoTb /\ Q2[q][j].tb = st.holds[p]
                      /\ st.buffer[p] = Q2[q][j].tb \/ (q \in {1, 2} /\ Q2[q][j].ack)
    BY DEF Current
  <2>1. CASE q = k /\ j = i /\ Q2[q][j] = m
    BY <2>1
  <2>2. CASE j \in DOMAIN Q[q] /\ Q2[q][j] = Q[q][j]
    BY <2>2 DEF Current
  <2> QED BY <2>1, <2>2
<1> QED BY <1>1, <1>2, <1>3

\* One more slot is one more transmission of its block.
LEMMA CountGrows ==
  ASSUME NEW slots \in Seq(Blocks), NEW m \in Blocks, NEW t \in Tbs
  PROVE  /\ CountIn(t, slots) \in Nat
         /\ CountIn(t, Append(slots, m)) = CountIn(t, slots) + (IF m.tb = t THEN 1 ELSE 0)
<1> DEFINE S == {i \in DOMAIN slots : slots[i].tb = t}
           more == Append(slots, m)
           n == Len(slots) + 1
<1>1. IsFiniteSet(S) /\ n \notin S
  <2>1. IsFiniteSet(1 .. Len(slots)) /\ S \subseteq 1 .. Len(slots)
    BY FS_Interval
  <2> QED BY <2>1, FS_Subset
<1>2. Cardinality(S) \in Nat
  BY <1>1, FS_CardinalityType
<1>3. {i \in DOMAIN more : more[i].tb = t} = IF m.tb = t THEN S \cup {n} ELSE S
  <2>1. /\ DOMAIN more = DOMAIN slots \cup {n}
        /\ \A i \in DOMAIN slots : more[i] = slots[i]
        /\ more[n] = m
    OBVIOUS
  <2> HIDE DEF more, n
  <2> QED BY <2>1
<1>4. Cardinality(S \cup {n}) = Cardinality(S) + 1
  BY <1>1, FS_AddElement
<1>5. CountIn(t, slots) = Cardinality(S)
  BY DEF CountIn
<1>6. CountIn(t, more) = Cardinality(IF m.tb = t THEN S \cup {n} ELSE S)
  <2>1. CountIn(t, more) = Cardinality({i \in DOMAIN more : more[i].tb = t})
    BY DEF CountIn
  <2> HIDE DEF S, more, n
  <2> QED BY <1>3, <2>1
<1>7. CountIn(t, more) = CountIn(t, slots) + (IF m.tb = t THEN 1 ELSE 0)
  <2> HIDE DEF S, more, n
  <2> QED BY <1>2, <1>4, <1>5, <1>6
<1>8. CountIn(t, slots) \in Nat
  <2> HIDE DEF S
  <2> QED BY <1>2, <1>5
<1> QED BY <1>7, <1>8

-----------------------------------------------------------------------------
(***************************************************************************)
(* The steps of Schedule.                                                  *)
(***************************************************************************)
\* What a subframe's scheduling works on.
States ==
    [status : [Procs -> 0..MaxRv+1], timer : [Procs -> 0..HarqTimeout],
     holds : [Procs -> Tbs \cup {NoTb}], rv : [Procs -> 0..MaxRv],
     numSym : [Procs -> 0..DataSymbols], nTbs : 0..MaxTbs,
     buffer : [Procs -> Tbs \cup {NoTb}], free : 0..DataSymbols,
     kept : Seq(Answers), slots : Seq(Blocks), failed : BOOLEAN]

\* Transmissions of each block, with those of this subframe.
Plus(base, slots) == [t \in Tbs |-> base[t] + CountIn(t, slots)]

\* Scheduling keeps its part of the line in st, and sends no acknowledged block.
Good(st, Q, gone, base, done, own) ==
    /\ st \in States /\ ~st.failed
    /\ Q[1] = st.kept /\ Q[Last] = st.slots
    /\ Sound(st, Q, gone, Plus(base, st.slots), done, own)
    /\ \A i \in DOMAIN st.slots : st.slots[i].tb \notin done

LEMMA StateIs ==
  ASSUME NEW st \in States
  PROVE  /\ DOMAIN st = {"status", "timer", "holds", "rv", "numSym", "nTbs", "buffer",
                         "free", "kept", "slots", "failed"}
         /\ st.status \in [Procs -> 0..MaxRv+1] /\ st.timer \in [Procs -> 0..HarqTimeout]
         /\ st.holds \in [Procs -> Tbs \cup {NoTb}] /\ st.rv \in [Procs -> 0..MaxRv]
         /\ st.numSym \in [Procs -> 0..DataSymbols] /\ st.nTbs \in 0..MaxTbs
         /\ st.buffer \in [Procs -> Tbs \cup {NoTb}] /\ st.free \in 0..DataSymbols
         /\ st.kept \in Seq(Answers)
         /\ st.slots \in Seq(Blocks) /\ st.failed \in BOOLEAN
BY DEF States

LEMMA StateWith ==
  ASSUME NEW st \in States
  PROVE  /\ \A x \in [Procs -> 0..MaxRv+1]       : [st EXCEPT !.status = x] \in States
         /\ \A x \in [Procs -> 0..HarqTimeout]   : [st EXCEPT !.timer = x] \in States
         /\ \A x \in [Procs -> Tbs \cup {NoTb}]  : [st EXCEPT !.holds = x] \in States
         /\ \A x \in [Procs -> 0..MaxRv]         : [st EXCEPT !.rv = x] \in States
         /\ \A x \in [Procs -> 0..DataSymbols]   : [st EXCEPT !.numSym = x] \in States
         /\ \A x \in 0..MaxTbs                   : [st EXCEPT !.nTbs = x] \in States
         /\ \A x \in [Procs -> Tbs \cup {NoTb}]  : [st EXCEPT !.buffer = x] \in States
         /\ \A x \in 0..DataSymbols              : [st EXCEPT !.free = x] \in States
         /\ \A x \in Seq(Answers)                : [st EXCEPT !.kept = x] \in States
         /\ \A x \in Seq(Blocks)                 : [st EXCEPT !.slots = x] \in States
BY Zenon DEF States

LEMMA Ends == 1 \in Queues /\ 2 \in Queues /\ Last \in Queues /\ Last # 1 /\ Last # 2
BY HarqAssumption DEF Queues, Last

\* A process that holds no block can be released.
LEMMA ReleaseGood ==
  ASSUME NEW st, NEW Q, NEW gone, NEW base, NEW done, NEW own,
         Good(st, Q, gone, base, done, own), NEW p \in Procs,
         p \notin gone => Absent(Q, p)
  PROVE  /\ Good(Release(st, p), Q, gone, base, done, own)
         /\ Release(st, p).kept = st.kept /\ Release(st, p).slots = st.slots
<1> DEFINE r == Release(st, p)
<1>1. st \in States
  BY DEF Good
<1>2. /\ r \in States
      /\ r.status = [st.status EXCEPT ![p] = 0] /\ r.holds = [st.holds EXCEPT ![p] = NoTb]
      /\ r.rv = st.rv /\ r.nTbs = st.nTbs /\ r.buffer = st.buffer
      /\ r.kept = st.kept /\ r.slots = st.slots /\ r.failed = st.failed
  <2>1. /\ [st.status EXCEPT ![p] = 0] \in [Procs -> 0..MaxRv+1]
        /\ [st.timer EXCEPT ![p] = 0] \in [Procs -> 0..HarqTimeout]
        /\ [st.holds EXCEPT ![p] = NoTb] \in [Procs -> Tbs \cup {NoTb}]
    BY <1>1, StateIs, HarqAssumption
  <2>2. r = [[[st EXCEPT !.status = [st.status EXCEPT ![p] = 0]]
                 EXCEPT !.timer = [st.timer EXCEPT ![p] = 0]]
                 EXCEPT !.holds = [st.holds EXCEPT ![p] = NoTb]]
    BY Zenon DEF Release
  <2>3. \A s \in States : /\ [s EXCEPT !.status = [st.status EXCEPT ![p] = 0]] \in States
                          /\ [s EXCEPT !.timer = [st.timer EXCEPT ![p] = 0]] \in States
                          /\ [s EXCEPT !.holds = [st.holds EXCEPT ![p] = NoTb]] \in States
    BY <2>1, StateWith, Zenon
  <2>4. r \in States
    BY <1>1, <2>2, <2>3, Zenon
  <2>5. DOMAIN st = {"status", "timer", "holds", "rv", "numSym", "nTbs", "buffer",
                     "free", "kept", "slots", "failed"}
    BY <1>1, StateIs
  <2> QED BY <2>4, <2>5 DEF Release
<1>3. st.status \in [Procs -> 0..MaxRv+1] /\ st.holds \in [Procs -> Tbs \cup {NoTb}]
  BY <1>1, StateIs
<1> HIDE DEF r
<1>4. StatusIsRv(r) /\ TakenInTurn(r)
  BY <1>2, <1>3 DEF Good, Sound, StatusIsRv, TakenInTurn
<1>5. Owned(r, Q, own)
  BY <1>2, <1>3 DEF Good, Sound, Owned
<1>6. Counted(r, Plus(base, r.slots))
  BY <1>2, <1>3 DEF Good, Sound, Counted
<1>7. Discarded(r, done) /\ Alone(Q, gone)
  BY <1>2 DEF Good, Sound, Discarded
<1>8. Current(r, Q, gone)
  BY <1>2, <1>3 DEF Good, Sound, Current, Absent
<1> QED BY <1>2, <1>4, <1>5, <1>6, <1>7, <1>8 DEF Good, Sound, r

\* Nothing under way for st is lost when a message is taken out of the line.
LEMMA TakeOut ==
  ASSUME NEW st, NEW Q, NEW Q2, NEW gone, NEW base, NEW done, NEW own,
         Good(st, Q, gone, base, done, own), Within(Q2, Q),
         Q2[1] = Q[1], Q2[Last] = Q[Last]
  PROVE  Good(st, Q2, gone, base, done, own)
BY LineShrinks DEF Good, Sound

\* An answer kept for a later subframe stays under way.
LEMMA KeepGood ==
  ASSUME NEW st, NEW Q, NEW Q2, NEW gone, NEW base, NEW done, NEW own,
         Good(st, Q, gone, base, done, own), NEW h \in Answers,
         Q2[1] = Append(st.kept, h), Same(Q2, Q, 1),
         MayJoin(st, Q, gone, own, 1, h)
  PROVE  Good([st EXCEPT !.kept = Append(@, h)], Q2, gone, base, done, own)
<1> USE DEF Same
<1> DEFINE r == [st EXCEPT !.kept = Append(@, h)]
<1>1. st \in States
  BY DEF Good
<1>2. /\ r \in States /\ r.kept = Append(st.kept, h)
      /\ r.status = st.status /\ r.holds = st.holds
      /\ r.rv = st.rv /\ r.nTbs = st.nTbs /\ r.buffer = st.buffer
      /\ r.slots = st.slots /\ r.failed = st.failed
  <2>1. Append(st.kept, h) \in Seq(Answers)
    BY <1>1, StateIs
  <2>2. r = [st EXCEPT !.kept = Append(st.kept, h)]
    OBVIOUS
  <2>3. r \in States
    BY <1>1, <2>1, <2>2, StateWith, Zenon
  <2>4. DOMAIN st = {"status", "timer", "holds", "rv", "numSym", "nTbs", "buffer",
                     "free", "kept", "slots", "failed"}
    BY <1>1, StateIs
  <2> QED BY <2>3, <2>4
<1> HIDE DEF r
<1>3. /\ st.kept \in Seq(Answers) /\ Q[1] = st.kept
      /\ 1 \in Queues /\ Last \in Queues /\ Last # 1
  BY <1>1, Ends DEF States, Good
<1>4. Gains(Q2, Q, 1, Len(st.kept) + 1, h)
  <2> SUFFICES ASSUME NEW q \in Queues, NEW j \in DOMAIN Q2[q]
               PROVE  \/ q = 1 /\ j = Len(st.kept) + 1 /\ Q2[q][j] = h
                      \/ j \in DOMAIN Q[q] /\ Q2[q][j] = Q[q][j]
    BY DEF Gains
  <2> QED BY <1>3
<1>6. Owned(st, Q, own) /\ Alone(Q, gone) /\ Current(st, Q, gone)
  BY DEF Good, Sound
<1>7. Owned(st, Q2, own) /\ Alone(Q2, gone) /\ Current(st, Q2, gone)
  BY <1>3, <1>4, <1>6, LineGrows
<1>8. Sound(r, Q2, gone, Plus(base, r.slots), done, own)
  <2>1. Sound(st, Q, gone, Plus(base, st.slots), done, own)
    BY DEF Good
  <2>2. StatusIsRv(r) /\ TakenInTurn(r)
    BY <1>2, <2>1 DEF Sound, StatusIsRv, TakenInTurn
  <2>3. Owned(r, Q2, own)
    BY <1>2, <1>7 DEF Owned
  <2>4. Counted(r, Plus(base, r.slots)) /\ Discarded(r, done)
    BY <1>2, <2>1 DEF Sound, Counted, Discarded
  <2>5. Current(r, Q2, gone)
    BY <1>2, <1>7 DEF Current
  <2> QED BY <1>7, <2>2, <2>3, <2>4, <2>5 DEF Sound
<1>9. Q2[1] = r.kept /\ Q2[Last] = r.slots
  BY <1>2, <1>3 DEF Good
<1> QED BY <1>2, <1>8, <1>9 DEF Good, r

\* A block is sent once more, with the next redundancy version.
LEMMA SendAgainGood ==
  ASSUME NEW st, NEW Q, NEW Q2, NEW gone, NEW base \in [Tbs -> Nat], NEW done, NEW own,
         Good(st, Q, gone, base, done, own), NEW p \in Procs,
         st.status[p] > 0, st.rv[p] < MaxRv, st.free >= st.numSym[p],
         Q2[Last] = Pushed(st, p), Same(Q2, Q, Last),
         p \notin gone => Absent(Q, p) /\ st.buffer[p] # NoTb /\ st.buffer[p] = st.holds[p]
  PROVE  /\ Good(SendAgain(st, p), Q2, gone, base, done, own)
         /\ SendAgain(st, p).kept = st.kept /\ SendAgain(st, p).slots = Pushed(st, p)
<1> USE DEF Same
<1> DEFINE r == SendAgain(st, p)
           b == st.buffer[p]
           m == [proc |-> p, tb |-> b]
<1>1. st \in States /\ StatusIsRv(st)
  BY DEF Good, Sound
<1>2. /\ st.status \in [Procs -> 0..MaxRv+1] /\ st.rv \in [Procs -> 0..MaxRv]
      /\ st.holds \in [Procs -> Tbs \cup {NoTb}] /\ st.buffer \in [Procs -> Tbs \cup {NoTb}]
      /\ st.numSym \in [Procs -> 0..DataSymbols] /\ st.free \in 0..DataSymbols
      /\ st.slots \in Seq(Blocks) /\ st.nTbs \in 0..MaxTbs
  BY <1>1 DEF States
<1>3. st.status[p] = st.rv[p] + 1 /\ st.rv[p] + 1 \in 0..MaxRv
  BY <1>1, <1>2, HarqAssumption DEF StatusIsRv
<1>4. m \in Blocks /\ m.proc = p /\ m.tb = b /\ b \in Tbs \cup {NoTb}
  BY <1>2 DEF Blocks
<1>5. Pushed(st, p) = Append(st.slots, m) /\ Pushed(st, p) \in Seq(Blocks)
  <2>1. Pushed(st, p) = Append(st.slots, m)
    BY DEF Pushed
  <2>2. Append(st.slots, m) \in Seq(Blocks)
    <3> HIDE DEF m
    <3> QED BY <1>2, <1>4
  <2> QED BY <2>1, <2>2
<1>6. /\ st.status[p] + 1 \in 0..MaxRv+1 /\ st.free - st.numSym[p] \in 0..DataSymbols
  <2>1. st.numSym[p] \in 0..DataSymbols
    BY <1>2
  <2>2. st.status[p] + 1 \in 0..MaxRv+1
    BY <1>3, HarqAssumption
  <2>3. st.free - st.numSym[p] \in 0..DataSymbols
    BY <1>2, <2>1, HarqAssumption
  <2> QED BY <2>2, <2>3
<1>7. /\ r \in States
      /\ r.status = [st.status EXCEPT ![p] = @ + 1] /\ r.rv = [st.rv EXCEPT ![p] = @ + 1]
      /\ r.holds = st.holds /\ r.nTbs = st.nTbs /\ r.buffer = st.buffer
      /\ r.kept = st.kept /\ r.slots = Pushed(st, p) /\ r.failed = st.failed
  <2>1. /\ [st.status EXCEPT ![p] = @ + 1] \in [Procs -> 0..MaxRv+1]
        /\ [st.rv EXCEPT ![p] = @ + 1] \in [Procs -> 0..MaxRv]
    BY <1>2, <1>3, <1>6
  <2>2. r = [[[[st EXCEPT !.status = [st.status EXCEPT ![p] = @ + 1]]
                  EXCEPT !.rv = [st.rv EXCEPT ![p] = @ + 1]]
                  EXCEPT !.free = st.free - st.numSym[p]]
                  EXCEPT !.slots = Pushed(st, p)]
    BY Zenon DEF SendAgain
  <2>3. \A s \in States : /\ [s EXCEPT !.status = [st.status EXCEPT ![p] = @ + 1]] \in States
                          /\ [s EXCEPT !.rv = [st.rv EXCEPT ![p] = @ + 1]] \in States
                          /\ [s EXCEPT !.free = st.free - st.numSym[p]] \in States
                          /\ [s EXCEPT !.slots = Pushed(st, p)] \in States
    BY <1>5, <1>6, <2>1, StateWith, Zenon
  <2>4. r \in States
    BY <1>1, <2>2, <2>3, Zenon
  <2>5. DOMAIN st = {"status", "timer", "holds", "rv", "numSym", "nTbs", "buffer",
                     "free", "kept", "slots", "failed"}
    BY <1>1, StateIs
  <2> QED BY <2>4, <2>5 DEF SendAgain
<1> HIDE DEF r
<1>8. StatusIsRv(r) /\ TakenInTurn(r)
  <2>1. StatusIsRv(r)
    BY <1>1, <1>2, <1>3, <1>7 DEF StatusIsRv
  <2>2. TakenInTurn(st)
    BY DEF Good, Sound
  <2>3. TakenInTurn(r)
    <3>1. p \in Nat
      BY HarqAssumption DEF Procs
    <3>2. st.nTbs \in 0..MaxTbs /\ st.status[p] \in 0..MaxRv+1
      BY <1>2
    <3>3. st.nTbs \in Nat /\ st.status[p] \in Nat
      BY <3>2
    <3>4. ~(p > st.nTbs)
      BY <2>2, <3>1, <3>3 DEF TakenInTurn
    <3> QED BY <1>2, <1>7, <2>2, <3>4 DEF TakenInTurn
  <2> QED BY <2>1, <2>3
<1>9. Owned(st, Q, own) /\ Alone(Q, gone) /\ Current(st, Q, gone) /\ Q[Last] = st.slots
  BY DEF Good, Sound
<1>10. Owned(st, Q2, own) /\ Alone(Q2, gone) /\ Current(st, Q2, gone)
  <2>1. Q2[Last] = Append(st.slots, m)
    BY <1>5
  <2>2. Gains(Q2, Q, Last, Len(st.slots) + 1, m)
    <3> SUFFICES ASSUME NEW q \in Queues, NEW j \in DOMAIN Q2[q]
                 PROVE  \/ q = Last /\ j = Len(st.slots) + 1 /\ Q2[q][j] = m
                        \/ j \in DOMAIN Q[q] /\ Q2[q][j] = Q[q][j]
      BY DEF Gains
    <3>1. st.slots \in Seq(Blocks) /\ m \in Blocks /\ Q[Last] = st.slots
      BY <1>2, <1>4, <1>9
    <3> HIDE DEF m
    <3>2. CASE q = Last
      BY <2>1, <3>1, <3>2
    <3>3. CASE q # Last
      BY <3>3
    <3> QED BY <3>2, <3>3
  <2>3. b # NoTb => b <= st.nTbs /\ own[b] = p
    BY <1>9 DEF Owned
  <2>4. MayJoin(st, Q, gone, own, Last, m)
    <3> HIDE DEF m
    <3> QED BY <1>4, <2>3 DEF MayJoin
  <2>5. Last \in Queues
    BY Ends
  <2> HIDE DEF m, b
  <2> QED BY <1>9, <2>2, <2>4, <2>5, LineGrows
<1>11. Owned(r, Q2, own) /\ Alone(Q2, gone) /\ Current(r, Q2, gone)
  <2>1. Owned(r, Q2, own)
    BY <1>7, <1>10 DEF Owned
  <2>2. \A q \in Procs : st.status[q] > 0 => r.status[q] > 0
    BY <1>2, <1>7
  <2>3. Current(r, Q2, gone)
    BY <1>7, <1>10, <2>2 DEF Current
  <2> QED BY <1>10, <2>1, <2>3
<1>12. Discarded(r, done)
  BY <1>7 DEF Good, Sound, Discarded
<1>13. \A i \in DOMAIN r.slots : r.slots[i].tb \notin done
  <2>1. b \notin done
    BY DEF Good, Sound, Discarded
  <2>2. \A i \in DOMAIN st.slots : st.slots[i].tb \notin done
    BY DEF Good
  <2>3. m.tb = b
    OBVIOUS
  <2> HIDE DEF b, m
  <2> QED BY <1>2, <1>4, <1>5, <1>7, <2>1, <2>2, <2>3
<1>14. Counted(r, Plus(base, r.slots))
  <2> DEFINE old == Plus(base, st.slots)
             new == Plus(base, r.slots)
  <2>1. Counted(st, old)
    BY DEF Good, Sound
  <2>2. \A t \in Tbs : old[t] \in Nat /\ new[t] = old[t] + (IF t = b THEN 1 ELSE 0)
    <3> SUFFICES ASSUME NEW t \in Tbs
                 PROVE  old[t] \in Nat /\ new[t] = old[t] + (IF t = b THEN 1 ELSE 0)
      OBVIOUS
    <3>1. r.slots = Append(st.slots, m)
      BY <1>5, <1>7
    <3> HIDE DEF m, b
    <3>2. /\ CountIn(t, st.slots) \in Nat
          /\ CountIn(t, r.slots) = CountIn(t, st.slots) + (IF t = b THEN 1 ELSE 0)
      BY <1>2, <1>4, <3>1, CountGrows
    <3>3. base[t] \in Nat
      OBVIOUS
    <3> QED BY <3>2, <3>3 DEF Plus
  <2> HIDE DEF old, new
  <2>3. ASSUME NEW t \in Tbs, t > st.nTbs PROVE new[t] = 0
    <3>1. b # t
      <4>1. b # NoTb => b <= st.nTbs
        BY <1>9 DEF Owned
      <4>2. t \in Nat /\ t # NoTb /\ st.nTbs \in Nat
        BY <1>2, HarqAssumption DEF Tbs, NoTb
      <4> HIDE DEF b
      <4> QED BY <2>3, <4>1, <4>2
    <3> QED BY <2>1, <2>2, <2>3, <3>1 DEF Counted
  <2>4. ASSUME NEW q \in Procs, st.holds[q] # NoTb
        PROVE  /\ new[st.holds[q]] <= r.rv[q] + 1
               /\ st.buffer[q] = st.holds[q] => new[st.holds[q]] = r.rv[q] + 1
    <3>1. st.holds[q] \in Tbs /\ st.rv[q] \in Nat
      BY <1>2, <2>4
    <3>2. /\ old[st.holds[q]] <= st.rv[q] + 1
          /\ st.buffer[q] = st.holds[q] => old[st.holds[q]] = st.rv[q] + 1
      BY <2>1, <2>4 DEF Counted
    <3>3. CASE q = p
      <4>1. r.rv[q] = st.rv[q] + 1
        BY <1>2, <1>7, <3>3
      <4> HIDE DEF r
      <4> QED BY <2>2, <3>1, <3>2, <3>3, <4>1
    <3>4. CASE q # p
      <4>1. r.rv[q] = st.rv[q]
        BY <1>2, <1>7, <3>4
      <4>2. b # st.holds[q]
        BY <1>9, <2>4, <3>4 DEF Owned
      <4> HIDE DEF b
      <4> QED BY <2>2, <3>1, <3>2, <4>1, <4>2
    <3> QED BY <3>3, <3>4
  <2>5. Counted(r, new)
    BY <1>7, <2>3, <2>4 DEF Counted
  <2> QED BY <2>5 DEF new
<1>15. Sound(r, Q2, gone, Plus(base, r.slots), done, own)
  BY <1>8, <1>11, <1>12, <1>14 DEF Sound
<1>16. Q2[1] = r.kept /\ Q2[Last] = r.slots /\ ~r.failed
  BY <1>7, Ends DEF Good
<1> QED BY <1>7, <1>13, <1>15, <1>16 DEF Good, r

\* One answer of m_dlHarqInfoList, message n of queue 2.
\* The answer h, in place n of queue 2, is served: Q becomes Q2.
Serving(st, Q, Q2, n, h, fits) ==
    /\ n \in DOMAIN Q[2] /\ h \in Answers /\ h = Q[2][n]
    /\ Q2[2] = [i \in DOMAIN Q[2] \ {n} |-> Q[2][i]]
    /\ Q2[1] = ServeAnswer(st, h, fits).kept /\ Q2[Last] = ServeAnswer(st, h, fits).slots
    /\ \A k \in Queues : k \notin {1, 2, Last} => Q2[k] = Q[k]

LEMMA ServeGood ==
  ASSUME NEW st, NEW Q, NEW Q2, NEW gone, NEW base \in [Tbs -> Nat], NEW done, NEW own,
         Good(st, Q, gone, base, done, own),
         NEW n, NEW h, NEW fits, Serving(st, Q, Q2, n, h, fits)
  PROVE  Good(ServeAnswer(st, h, fits), Q2, gone, base, done, own)
<1> USE DEF Serving
<1> DEFINE p == h.proc
           Q1 == [k \in Queues |-> IF k = 2 THEN Q2[2] ELSE Q[k]]
           r == ServeAnswer(st, h, fits)
<1>1. st \in States /\ Q[1] = st.kept /\ Q[Last] = st.slots /\ st.failed = FALSE
  BY StateIs DEF Good
<1>2. p \in Procs
  BY DEF Answers
<1>3. /\ 1 \in Queues /\ 2 \in Queues /\ Last \in Queues /\ Last # 1 /\ Last # 2
      /\ Q1[1] = Q[1] /\ Q1[2] = Q2[2] /\ Q1[Last] = Q[Last]
      /\ \A k \in Queues : k # 2 => Q1[k] = Q[k]
  BY Ends
<1>4. Within(Q1, Q) /\ n \notin DOMAIN Q1[2]
  <2> HIDE DEF Q1
  <2> QED BY <1>3 DEF Within
<1> HIDE DEF Q1
<1>5. Good(st, Q1, gone, base, done, own)
  BY <1>3, <1>4, TakeOut
<1>6. p \notin gone => Absent(Q1, p)
  <2>1. Alone(Q, gone)
    BY DEF Good, Sound
  <2> QED BY <1>2, <1>3, <1>4, <2>1, NoneLeft
<1>7. /\ h.tb # NoTb => h.tb <= st.nTbs /\ own[h.tb] = p
      /\ p \notin gone => /\ st.status[p] > 0 /\ h.tb # NoTb /\ h.tb = st.holds[p]
                          /\ st.buffer[p] = h.tb \/ h.ack
  <2>1. Owned(st, Q, own) /\ Current(st, Q, gone)
    BY DEF Good, Sound
  <2> QED BY <1>2, <1>3, <2>1 DEF Owned, Current
<1>8. \A k \in Queues : k \notin {1, Last} => Q2[k] = Q1[k]
  BY <1>3
<1>9. CASE r = st
  <2>1. Q2[1] = Q1[1] /\ Q2[Last] = Q1[Last]
    BY <1>1, <1>3, <1>9
  <2>2. Within(Q2, Q1)
    BY <1>8, <2>1 DEF Within
  <2> QED BY <1>5, <1>9, <2>1, <2>2, TakeOut
<1>10. CASE r = Release(st, p)
  <2>1. Good(r, Q1, gone, base, done, own) /\ r.kept = st.kept /\ r.slots = st.slots
    BY <1>2, <1>5, <1>6, <1>10, ReleaseGood
  <2>2. Q2[1] = Q1[1] /\ Q2[Last] = Q1[Last]
    BY <1>1, <1>3, <2>1
  <2>3. Within(Q2, Q1)
    BY <1>8, <2>2 DEF Within
  <2> QED BY <2>1, <2>2, <2>3, TakeOut
<1>11. CASE r = SendAgain(st, p) /\ ~h.ack /\ st.status[p] > 0 /\ st.rv[p] < MaxRv
            /\ st.free >= st.numSym[p]
  <2>1. r.kept = st.kept /\ r.slots = Pushed(st, p)
    <3>1. DOMAIN st = {"status", "timer", "holds", "rv", "numSym", "nTbs", "buffer", "free",
                       "kept", "slots", "failed"}
      BY <1>1, StateIs
    <3> HIDE DEF r
    <3> QED BY <1>11, <3>1 DEF SendAgain
  <2>2. Q2[Last] = Pushed(st, p) /\ Same(Q2, Q1, Last)
    BY <1>1, <1>3, <1>8, <2>1 DEF Same
  <2>3. p \notin gone => Absent(Q1, p) /\ st.buffer[p] # NoTb /\ st.buffer[p] = st.holds[p]
    BY <1>6, <1>7, <1>11
  <2>4. Good(SendAgain(st, p), Q2, gone, base, done, own)
    <3>1. st.status[p] > 0 /\ st.rv[p] < MaxRv /\ st.free >= st.numSym[p]
      BY <1>11
    <3> HIDE DEF r, p
    <3> QED BY <1>2, <1>5, <2>2, <2>3, <3>1, SendAgainGood
  <2> QED BY <1>11, <2>4, Zenon
<1>12. CASE r = [st EXCEPT !.kept = Append(@, h)]
  <2>1. r.kept = Append(st.kept, h) /\ r.slots = st.slots
    <3>1. DOMAIN st = {"status", "timer", "holds", "rv", "numSym", "nTbs", "buffer", "free",
                       "kept", "slots", "failed"}
      BY <1>1, StateIs
    <3> HIDE DEF r
    <3> QED BY <1>12, <3>1
  <2>2. Q2[1] = Append(st.kept, h) /\ Same(Q2, Q1, 1)
    BY <1>1, <1>3, <1>8, <2>1 DEF Same
  <2>3. MayJoin(st, Q1, gone, own, 1, h)
    BY <1>6, <1>7 DEF MayJoin, Answers
  <2>4. Good([st EXCEPT !.kept = Append(@, h)], Q2, gone, base, done, own)
    <3> HIDE DEF r, p
    <3> QED BY <1>5, <2>2, <2>3, KeepGood
  <2> QED BY <1>12, <2>4, Zenon
<1>13. \/ r = st \/ r = Release(st, p) \/ r = [st EXCEPT !.kept = Append(@, h)]
       \/ /\ r = SendAgain(st, p) /\ ~h.ack /\ st.status[p] > 0 /\ st.rv[p] < MaxRv
          /\ st.free >= st.numSym[p]
  <2>1. st.status[p] > 0 => st.status[p] - 1 = st.rv[p]
    <3>1. StatusIsRv(st)
      BY DEF Good, Sound
    <3>2. st.status[p] \in Nat /\ st.rv[p] \in Nat
      BY <1>1, <1>2, StateIs
    <3> QED BY <1>2, <3>1, <3>2 DEF StatusIsRv
  <2>2. st.rv[p] \in 0..MaxRv
    BY <1>1, <1>2, StateIs
  <2>3. st.rv[p] # MaxRv => st.rv[p] < MaxRv
    BY <2>2, HarqAssumption
  <2> DEFINE again == ~h.ack /\ st.status[p] > 0
             last == st.rv[p] = MaxRv
  <2>4. CASE st.free = 0
    BY <2>4 DEF ServeAnswer
  <2>5. CASE st.free # 0 /\ (~again \/ last)
    BY <1>1, <2>1, <2>5 DEF ServeAnswer
  <2>6. CASE st.free # 0 /\ again /\ ~last
    <3>1. r = IF st.free >= st.numSym[p] /\ fits THEN SendAgain(st, p)
              ELSE [st EXCEPT !.kept = Append(@, h)]
      BY <1>1, <2>1, <2>6 DEF ServeAnswer
    <3> HIDE DEF r, p
    <3> QED BY <2>3, <2>6, <3>1
  <2> QED BY <2>4, <2>5, <2>6
<1> QED BY <1>9, <1>10, <1>11, <1>12, <1>13

\* A nonempty set of natural numbers has a smallest element.
LEMMA Smallest ==
  ASSUME NEW T \in SUBSET Nat, T # {}
  PROVE  \E x \in T : \A y \in T : x <= y
<1> DEFINE Upto(n) == 0 .. n - 1
           F == {Upto(n) : n \in T}
<1>1. IsWellFoundedOn(StrictSubsetOrdering(Nat), FiniteSubsetsOf(Nat))
  BY FS_StrictSubsetOrderingWellFounded
<1>2. F \subseteq FiniteSubsetsOf(Nat) /\ F # {}
  <2>1. ASSUME NEW n \in T PROVE Upto(n) \in FiniteSubsetsOf(Nat)
    <3>1. n \in Nat /\ Upto(n) \subseteq Nat
      OBVIOUS
    <3>2. IsFiniteSet(Upto(n))
      BY <3>1, FS_Interval
    <3> QED BY <3>1, <3>2 DEF FiniteSubsetsOf
  <2> QED BY <2>1
<1> HIDE DEF F
<1>3. PICK X \in F : \A Y \in F : <<Y, X>> \notin StrictSubsetOrdering(Nat)
  BY <1>1, <1>2, WFMin
<1>4. PICK x \in T : X = Upto(x)
  BY DEF F
<1>5. ASSUME NEW y \in T, y < x PROVE FALSE
  <2>1. Upto(y) \in F /\ Upto(y) \subseteq Upto(x) /\ y \in Upto(x) /\ y \notin Upto(y)
    BY <1>5 DEF F
  <2>2. <<Upto(y), Upto(x)>> \in StrictSubsetOrdering(Nat)
    BY <2>1 DEF StrictSubsetOrdering
  <2> QED BY <1>3, <1>4, <2>1, <2>2
<1> QED BY <1>5

\* UpdateDlHarqProcessId finds a process, as long as there is a slot to give.
LEMMA ProcessFound ==
  ASSUME NEW st \in States, TakenInTurn(st), st.nTbs < MaxTbs
  PROVE  /\ FreeProcess(st) \in Procs /\ st.status[FreeProcess(st)] = 0
         /\ \A q \in 1..FreeProcess(st)-1 : st.status[q] > 0
<1> DEFINE Free == {p \in Procs : st.status[p] = 0}
<1>1. Free \in SUBSET Nat /\ st.nTbs + 1 \in Free
  <2>1. st.nTbs \in 0..MaxTbs
    BY StateIs
  <2>2. st.nTbs + 1 \in Procs /\ st.nTbs + 1 > st.nTbs
    BY <2>1, HarqAssumption DEF Procs
  <2>3. Procs \subseteq Nat
    BY HarqAssumption DEF Procs
  <2> QED BY <2>2, <2>3 DEF TakenInTurn
<1>2. PICK p \in Free : \A y \in Free : p <= y
  <2> HIDE DEF Free
  <2> QED BY <1>1, Smallest
<1>3. \A q \in 1..p-1 : st.status[q] > 0
  <2> SUFFICES ASSUME NEW q \in 1..p-1 PROVE st.status[q] > 0
    OBVIOUS
  <2>1. q \in Procs /\ ~(p <= q)
    BY <1>1, <1>2, HarqAssumption DEF Procs
  <2>2. st.status[q] \in Nat /\ q \notin Free
    BY <1>2, <2>1, StateIs
  <2> QED BY <2>1, <2>2
<1>4. \E x \in Procs : st.status[x] = 0 /\ \A q \in 1..x-1 : st.status[q] > 0
  BY <1>2, <1>3
<1> QED BY <1>4 DEF FreeProcess

\* A slot of new data takes a free process for a block no one has seen yet.
LEMMA GiveSlotGood ==
  ASSUME NEW st, NEW Q, NEW Q2, NEW gone, NEW base \in [Tbs -> Nat],
         NEW done \in SUBSET Tbs, NEW own,
         Good(st, Q, gone, base, done, own), st.nTbs < MaxTbs,
         NEW slot \in [size : 1..DataSymbols, void : BOOLEAN], slot.size <= st.free,
         Q2[Last] = GiveSlot(st, slot).slots, Same(Q2, Q, Last)
  PROVE  /\ \E own2 : Good(GiveSlot(st, slot), Q2, gone, base, done, own2)
         /\ GiveSlot(st, slot).kept = st.kept
<1> DEFINE p == FreeProcess(st)
           n == st.nTbs + 1
           t == IF slot.void THEN NoTb ELSE n
           m == [proc |-> p, tb |-> n]
           r == GiveSlot(st, slot)
           own2 == [own EXCEPT ![n] = p]
<1>1. st \in States /\ Owned(st, Q, own) /\ Alone(Q, gone) /\ Current(st, Q, gone)
  BY DEF Good, Sound
<1>2. /\ st.status \in [Procs -> 0..MaxRv+1] /\ st.rv \in [Procs -> 0..MaxRv]
      /\ st.timer \in [Procs -> 0..HarqTimeout] /\ st.numSym \in [Procs -> 0..DataSymbols]
      /\ st.holds \in [Procs -> Tbs \cup {NoTb}] /\ st.buffer \in [Procs -> Tbs \cup {NoTb}]
      /\ st.free \in 0..DataSymbols /\ st.slots \in Seq(Blocks) /\ st.nTbs \in 0..MaxTbs
  BY <1>1, StateIs
<1>3. p \in Procs /\ st.status[p] = 0
  BY <1>1, ProcessFound DEF Good, Sound
<1>4. n \in Tbs /\ n > st.nTbs /\ n # NoTb /\ n \in 0..MaxTbs /\ n \in Nat /\ st.nTbs \in Nat
  BY <1>2, HarqAssumption DEF Tbs, NoTb
<1>5. m \in Blocks /\ m.proc = p /\ m.tb = n
  BY <1>3, <1>4 DEF Blocks
<1>6. /\ slot.size \in 1..DataSymbols /\ slot.size \in 0..DataSymbols
      /\ slot.void \in BOOLEAN /\ st.free - slot.size \in 0..DataSymbols
  BY <1>2, HarqAssumption
<1> HIDE DEF p, n, m
<1> DEFINE taken == [st EXCEPT !.status[p] = 1, !.rv[p] = 0, !.timer[p] = 0,
                               !.numSym[p] = slot.size, !.free = @ - slot.size,
                               !.holds[p] = t, !.nTbs = n]
<1>7. r = IF slot.void THEN taken
          ELSE [taken EXCEPT !.buffer[p] = t, !.slots = Append(@, [proc |-> p, tb |-> t])]
  BY DEF GiveSlot, p, n
<1> HIDE DEF r
<1>8. /\ [st.status EXCEPT ![p] = 1] \in [Procs -> 0..MaxRv+1]
      /\ [st.rv EXCEPT ![p] = 0] \in [Procs -> 0..MaxRv]
      /\ [st.timer EXCEPT ![p] = 0] \in [Procs -> 0..HarqTimeout]
      /\ [st.numSym EXCEPT ![p] = slot.size] \in [Procs -> 0..DataSymbols]
      /\ [st.holds EXCEPT ![p] = t] \in [Procs -> Tbs \cup {NoTb}]
      /\ [st.buffer EXCEPT ![p] = n] \in [Procs -> Tbs \cup {NoTb}]
      /\ Append(st.slots, m) \in Seq(Blocks)
  <2>1. t \in Tbs \cup {NoTb} /\ n \in Tbs \cup {NoTb}
    BY <1>4
  <2>2. 1 \in 0..MaxRv+1 /\ 0 \in 0..MaxRv /\ 0 \in 0..HarqTimeout
    BY HarqAssumption
  <2>3. slot.size \in 0..DataSymbols
    BY <1>6
  <2>4. Append(st.slots, m) \in Seq(Blocks)
    BY <1>2, <1>5
  <2> HIDE DEF t
  <2> QED BY <1>2, <1>3, <2>1, <2>2, <2>3, <2>4
<1>9. DOMAIN st = {"status", "timer", "holds", "rv", "numSym", "nTbs", "buffer", "free",
                   "kept", "slots", "failed"}
  BY <1>1, StateIs
<1>10. /\ taken \in States
       /\ taken.status = [st.status EXCEPT ![p] = 1] /\ taken.rv = [st.rv EXCEPT ![p] = 0]
       /\ taken.holds = [st.holds EXCEPT ![p] = t] /\ taken.nTbs = n
       /\ taken.buffer = st.buffer /\ taken.slots = st.slots
       /\ taken.kept = st.kept /\ taken.failed = st.failed
  <2>1. taken = [[[[[[[st EXCEPT !.status = [st.status EXCEPT ![p] = 1]]
                          EXCEPT !.rv = [st.rv EXCEPT ![p] = 0]]
                          EXCEPT !.timer = [st.timer EXCEPT ![p] = 0]]
                          EXCEPT !.numSym = [st.numSym EXCEPT ![p] = slot.size]]
                          EXCEPT !.free = st.free - slot.size]
                          EXCEPT !.holds = [st.holds EXCEPT ![p] = t]]
                          EXCEPT !.nTbs = n]
    <3> HIDE DEF t
    <3> QED BY Zenon
  <2> HIDE DEF t
  <2>2. \A s \in States : /\ [s EXCEPT !.status = [st.status EXCEPT ![p] = 1]] \in States
                          /\ [s EXCEPT !.rv = [st.rv EXCEPT ![p] = 0]] \in States
                          /\ [s EXCEPT !.timer = [st.timer EXCEPT ![p] = 0]] \in States
                          /\ [s EXCEPT !.numSym = [st.numSym EXCEPT ![p] = slot.size]] \in States
                          /\ [s EXCEPT !.free = st.free - slot.size] \in States
                          /\ [s EXCEPT !.holds = [st.holds EXCEPT ![p] = t]] \in States
                          /\ [s EXCEPT !.nTbs = n] \in States
    BY <1>4, <1>6, <1>8, StateWith, Zenon
  <2>3. taken \in States
    BY <1>1, <2>1, <2>2, Zenon
  <2> QED BY <1>9, <2>3
<1>11. /\ r \in States
       /\ r.status = [st.status EXCEPT ![p] = 1] /\ r.rv = [st.rv EXCEPT ![p] = 0]
       /\ r.holds = [st.holds EXCEPT ![p] = t] /\ r.nTbs = n
       /\ r.buffer = (IF slot.void THEN st.buffer ELSE [st.buffer EXCEPT ![p] = n])
       /\ r.slots = (IF slot.void THEN st.slots ELSE Append(st.slots, m))
       /\ r.kept = st.kept /\ r.failed = st.failed
  <2>1. CASE slot.void
    <3>1. r = taken
      BY <1>7, <2>1
    <3> HIDE DEF taken, t
    <3> QED BY <1>10, <2>1, <3>1
  <2>2. CASE ~slot.void
    <3>1. t = n
      BY <2>2
    <3> HIDE DEF taken, t
    <3>2. r = [taken EXCEPT !.buffer[p] = n, !.slots = Append(@, m)]
      BY <1>7, <2>2, <3>1 DEF m
    <3>3. r = [[taken EXCEPT !.buffer = [st.buffer EXCEPT ![p] = n]]
                      EXCEPT !.slots = Append(st.slots, m)]
      <4>1. r = [[taken EXCEPT !.buffer = [taken.buffer EXCEPT ![p] = n]]
                      EXCEPT !.slots = Append(taken.slots, m)]
        BY <3>2, Zenon
      <4> QED BY <1>10, <4>1
    <3>4. \A s \in States : /\ [s EXCEPT !.buffer = [st.buffer EXCEPT ![p] = n]] \in States
                            /\ [s EXCEPT !.slots = Append(st.slots, m)] \in States
      BY <1>8, StateWith, Zenon
    <3>5. r \in States
      BY <1>10, <3>3, <3>4, Zenon
    <3>6. DOMAIN taken = {"status", "timer", "holds", "rv", "numSym", "nTbs", "buffer",
                          "free", "kept", "slots", "failed"}
      BY <1>10, StateIs
    <3> QED BY <1>10, <2>2, <3>3, <3>5, <3>6
  <2> QED BY <2>1, <2>2
<1> HIDE DEF taken
<1>12. StatusIsRv(r) /\ TakenInTurn(r)
  <2>1. StatusIsRv(st) /\ TakenInTurn(st)
    BY DEF Good, Sound
  <2>2. StatusIsRv(r)
    BY <1>2, <1>3, <1>11, <2>1 DEF StatusIsRv
  <2>3. ASSUME NEW q \in Procs, q > n PROVE r.status[q] = 0
    <3>1. ~(p > n)
      <4>1. \A q2 \in 1..p-1 : st.status[q2] > 0
        BY <1>1, <2>1, ProcessFound DEF p
      <4>2. n \in Procs /\ st.status[n] = 0
        BY <1>4, <2>1 DEF TakenInTurn, Procs, Tbs
      <4> QED BY <1>3, <1>4, <4>1, <4>2, HarqAssumption DEF Procs
    <3>2. q > st.nTbs /\ q # p
      BY <1>3, <1>4, <2>3, <3>1, HarqAssumption DEF Procs
    <3> QED BY <1>2, <1>11, <2>1, <3>2 DEF TakenInTurn
  <2> QED BY <1>11, <2>2, <2>3 DEF TakenInTurn
<1>13. Owned(r, Q, own2)
  <2>1. own \in [Tbs -> Procs]
    BY <1>1 DEF Owned
  <2>2. own2 \in [Tbs -> Procs] /\ own2[n] = p /\ \A x \in Tbs : x # n => own2[x] = own[x]
    BY <1>3, <1>4, <2>1
  <2> HIDE DEF own2
  <2>3. ASSUME NEW k \in Queues, NEW i \in DOMAIN Q[k]
        PROVE  /\ Q[k][i].proc \in Procs /\ Q[k][i].tb \in Tbs \cup {NoTb}
               /\ Q[k][i].tb # NoTb => Q[k][i].tb <= n /\ own2[Q[k][i].tb] = Q[k][i].proc
    <3>1. /\ Q[k][i].proc \in Procs /\ Q[k][i].tb \in Tbs \cup {NoTb}
          /\ Q[k][i].tb # NoTb => Q[k][i].tb <= st.nTbs /\ own[Q[k][i].tb] = Q[k][i].proc
      BY <1>1 DEF Owned
    <3>2. ASSUME Q[k][i].tb # NoTb
          PROVE  Q[k][i].tb <= n /\ own2[Q[k][i].tb] = Q[k][i].proc
      <4>1. Q[k][i].tb \in Tbs /\ Q[k][i].tb \in Nat
        BY <3>1, <3>2, HarqAssumption DEF Tbs
      <4>2. Q[k][i].tb <= n /\ Q[k][i].tb # n
        BY <1>4, <3>1, <3>2, <4>1 DEF n
      <4> QED BY <2>2, <3>1, <3>2, <4>1, <4>2
    <3> QED BY <3>1, <3>2
  <2>4. \A x \in Tbs \cup {NoTb} : x <= st.nTbs => x <= n /\ x # n
    BY <1>4, HarqAssumption DEF Tbs, NoTb, n
  <2>5. ASSUME NEW q \in Procs, r.buffer[q] # NoTb
        PROVE  r.buffer[q] <= n /\ own2[r.buffer[q]] = q
    <3>1. CASE r.buffer[q] = n /\ q = p
      BY <1>4, <2>2, <3>1
    <3>2. CASE r.buffer[q] = st.buffer[q]
      <4>1. st.buffer[q] \in Tbs /\ st.buffer[q] <= st.nTbs /\ own[st.buffer[q]] = q
        BY <1>1, <1>2, <2>5, <3>2 DEF Owned
      <4> QED BY <2>2, <2>4, <3>2, <4>1
    <3> QED BY <1>2, <1>11, <3>1, <3>2
  <2>6. ASSUME NEW q \in Procs, r.holds[q] # NoTb
        PROVE  r.holds[q] <= n /\ own2[r.holds[q]] = q
    <3>1. CASE r.holds[q] = n /\ q = p
      BY <1>4, <2>2, <3>1
    <3>2. CASE r.holds[q] = st.holds[q]
      <4>1. st.holds[q] \in Tbs /\ st.holds[q] <= st.nTbs /\ own[st.holds[q]] = q
        BY <1>1, <1>2, <2>6, <3>2 DEF Owned
      <4> QED BY <2>2, <2>4, <3>2, <4>1
    <3> QED BY <1>2, <1>11, <2>6, <3>1, <3>2
  <2> QED BY <1>11, <2>2, <2>3, <2>5, <2>6 DEF Owned
<1>14. Current(r, Q, gone) /\ (p \notin gone => Absent(Q, p))
  <2>1. p \notin gone => Absent(Q, p)
    BY <1>1, <1>3 DEF Current, Absent
  <2>2. ASSUME NEW q \in Procs, q # p
        PROVE  r.status[q] = st.status[q] /\ r.holds[q] = st.holds[q] /\ r.buffer[q] = st.buffer[q]
    BY <1>2, <1>11, <2>2
  <2> QED BY <1>1, <2>1, <2>2 DEF Current, Absent
<1>15. Owned(r, Q2, own2) /\ Alone(Q2, gone) /\ Current(r, Q2, gone)
  <2> HIDE DEF own2
  <2>1. CASE slot.void
    <3>1. Q2[Last] = Q[Last]
      BY <1>11, <2>1 DEF Good, r
    <3>2. Within(Q2, Q)
      BY <3>1 DEF Within, Same
    <3> QED BY <1>1, <1>13, <1>14, <3>2, LineShrinks
  <2>2. CASE ~slot.void
    <3>1. Q2[Last] = Append(st.slots, m) /\ Q[Last] = st.slots
      BY <1>11, <2>2 DEF Good, r
    <3>2. Gains(Q2, Q, Last, Len(st.slots) + 1, m)
      <4> SUFFICES ASSUME NEW q \in Queues, NEW j \in DOMAIN Q2[q]
                   PROVE  \/ q = Last /\ j = Len(st.slots) + 1 /\ Q2[q][j] = m
                          \/ j \in DOMAIN Q[q] /\ Q2[q][j] = Q[q][j]
        BY DEF Gains
      <4>1. CASE q = Last
        <5>1. st.slots \in Seq(Blocks)
          BY <1>2
        <5> QED BY <1>5, <3>1, <4>1, <5>1
      <4>2. CASE q # Last
        BY <4>2 DEF Same
      <4> QED BY <4>1, <4>2
    <3>3. r.status[p] = 1 /\ r.holds[p] = n /\ r.buffer[p] = n /\ r.nTbs = n
      BY <1>2, <1>3, <1>11, <2>2
    <3>4. own2[n] = p
      BY <1>1, <1>4 DEF Owned, own2
    <3>5. MayJoin(r, Q, gone, own2, Last, m)
      BY <1>3, <1>4, <1>5, <1>14, <3>3, <3>4 DEF MayJoin
    <3>6. Last \in Queues
      BY Ends
    <3> QED BY <1>1, <1>13, <1>14, <3>2, <3>5, <3>6, LineGrows
  <2> QED BY <2>1, <2>2
<1>16. Discarded(r, done)
  <2>1. Discarded(st, done)
    BY DEF Good, Sound
  <2>2. ASSUME NEW x \in done, NEW q \in Procs PROVE x <= n /\ r.buffer[q] # x
    <3>1. x \in Nat /\ x <= st.nTbs /\ st.buffer[q] # x
      BY <2>1, HarqAssumption DEF Discarded, Tbs
    <3>2. x <= n /\ x # n
      BY <1>4, <3>1 DEF n
    <3>3. r.buffer[q] = n \/ r.buffer[q] = st.buffer[q]
      BY <1>2, <1>11
    <3> QED BY <3>1, <3>2, <3>3
  <2>3. r.nTbs = n
    BY <1>11
  <2> QED BY <1>3, <2>2, <2>3 DEF Discarded
<1>17. \A i \in DOMAIN r.slots : r.slots[i].tb \notin done
  <2>1. n \notin done
    <3>1. Discarded(st, done)
      BY DEF Good, Sound
    <3> QED BY <1>4, <3>1 DEF Discarded
  <2>2. \A i \in DOMAIN st.slots : st.slots[i].tb \notin done
    BY DEF Good
  <2>3. ASSUME NEW i \in DOMAIN Append(st.slots, m) PROVE Append(st.slots, m)[i].tb \notin done
    BY <1>2, <1>5, <2>1, <2>2
  <2> QED BY <1>11, <2>2, <2>3
<1>18. Counted(r, Plus(base, r.slots))
  <2> DEFINE old == Plus(base, st.slots)
             new == Plus(base, r.slots)
  <2>1. Counted(st, old)
    BY DEF Good, Sound
  <2>2. \A x \in Tbs : old[x] \in Nat /\ new[x] = old[x] + (IF ~slot.void /\ x = n THEN 1 ELSE 0)
    <3> SUFFICES ASSUME NEW x \in Tbs
                 PROVE  old[x] \in Nat /\ new[x] = old[x] + (IF ~slot.void /\ x = n THEN 1 ELSE 0)
      OBVIOUS
    <3>1. /\ CountIn(x, st.slots) \in Nat
          /\ CountIn(x, Append(st.slots, m)) = CountIn(x, st.slots) + (IF n = x THEN 1 ELSE 0)
      BY <1>2, <1>5, CountGrows
    <3>2. base[x] \in Nat
      OBVIOUS
    <3>3. CASE slot.void
      BY <1>11, <3>1, <3>2, <3>3 DEF Plus
    <3>4. CASE ~slot.void
      BY <1>11, <3>1, <3>2, <3>4 DEF Plus
    <3> QED BY <3>3, <3>4
  <2> HIDE DEF old, new
  <2>3. ASSUME NEW x \in Tbs, x > n PROVE new[x] = 0
    <3>1. x > st.nTbs /\ x # n
      BY <1>4, <2>3, HarqAssumption DEF Tbs, n
    <3> QED BY <2>1, <2>2, <3>1 DEF Counted
  <2>4. ASSUME NEW q \in Procs, r.holds[q] # NoTb
        PROVE  /\ new[r.holds[q]] <= r.rv[q] + 1
               /\ r.buffer[q] = r.holds[q] => new[r.holds[q]] = r.rv[q] + 1
    <3>1. CASE q = p
      <4>1. r.holds[q] = n /\ r.rv[q] = 0 /\ ~slot.void
        BY <1>2, <1>3, <1>11, <2>4, <3>1
      <4>2. old[n] = 0
        BY <1>4, <2>1 DEF Counted
      <4> QED BY <1>4, <2>2, <4>1, <4>2
    <3>2. CASE q # p
      <4>1. r.holds[q] = st.holds[q] /\ r.rv[q] = st.rv[q] /\ r.buffer[q] = st.buffer[q]
        BY <1>2, <1>11, <3>2
      <4>2. st.holds[q] \in Tbs /\ st.holds[q] <= st.nTbs
        BY <1>1, <1>2, <2>4, <4>1 DEF Owned
      <4>3. st.holds[q] # n
        BY <1>4, <4>2, HarqAssumption DEF Tbs
      <4>4. new[st.holds[q]] = old[st.holds[q]]
        BY <2>2, <4>2, <4>3
      <4> QED BY <2>1, <2>4, <4>1, <4>4 DEF Counted
    <3> QED BY <3>1, <3>2
  <2>5. Counted(r, new)
    BY <1>11, <2>3, <2>4 DEF Counted
  <2> QED BY <2>5 DEF new
<1>19. Q2[1] = r.kept /\ Q2[Last] = r.slots /\ ~r.failed
  BY <1>11, Ends DEF Good, Same, r
<1>20. Good(r, Q2, gone, base, done, own2)
  <2> HIDE DEF own2
  <2> QED BY <1>11, <1>12, <1>15, <1>16, <1>17, <1>18, <1>19 DEF Good, Sound
<1> QED BY <1>11, <1>20 DEF r

\* Q2 differs from Q in the queues of scheduling only.
Outside(Q2, Q) == \A k \in Queues \ {1, 2, Last} : Q2[k] = Q[k]

\* The loop over m_dlHarqInfoList, answer by answer.
LEMMA ServedGood ==
  ASSUME NEW first, NEW list \in Seq(Answers), NEW fit, NEW Q0, NEW gone,
         NEW base \in [Tbs -> Nat], NEW done, NEW own, Good(first, Q0, gone, base, done, own), Q0[2] = list
  PROVE  \E Q : /\ Good(Served(first, list, fit), Q, gone, base, done, own)
                /\ Outside(Q, Q0) /\ DOMAIN Q[2] = {}
<1> DEFINE N == Len(list)
           Runs(f, m) == f = [k \in 0 .. m |->
                                 IF k = 0 THEN first ELSE ServeAnswer(f[k-1], list[k], k \in fit)]
           after[k \in 0 .. N] == IF k = 0 THEN first ELSE ServeAnswer(after[k-1], list[k], k \in fit)
           Reached(k, Q) == /\ Good(after[k], Q, gone, base, done, own) /\ Outside(Q, Q0)
                            /\ Q[2] = [i \in k+1 .. N |-> list[i]]
<1>1. Served(first, list, fit) = after[N] /\ N \in Nat
  BY DEF Served
<1>2. \A m \in Nat : \E f : Runs(f, m)
  <2> DEFINE Bad == {m \in Nat : ~\E f : Runs(f, m)}
  <2> SUFFICES ASSUME Bad # {} PROVE FALSE
    OBVIOUS
  <2>1. PICK m \in Bad : \A y \in Bad : m <= y
    BY Smallest
  <2>2. m # 0
    <3> DEFINE f == [k \in 0 .. 0 |-> first]
    <3>1. Runs(f, 0)
      OBVIOUS
    <3> QED BY <3>1
  <2>3. m \in Nat /\ m - 1 \in Nat /\ m - 1 \notin Bad
    <3>1. m \in Nat
      BY <2>1
    <3> HIDE DEF Bad
    <3> QED BY <2>1, <2>2, <3>1
  <2>4. PICK f : Runs(f, m - 1)
    BY <2>3
  <2> DEFINE g == [k \in 0 .. m |-> IF k = 0 THEN first ELSE ServeAnswer(f[k-1], list[k], k \in fit)]
             h == [k \in 0 .. m |-> IF k = 0 THEN first ELSE ServeAnswer(g[k-1], list[k], k \in fit)]
  <2>5. ASSUME NEW k \in 0 .. m, k # 0 PROVE g[k-1] = f[k-1]
    <3>1. k - 1 \in 0 .. m - 1 /\ k - 1 \in 0 .. m
      BY <2>3, <2>5
    <3> HIDE DEF Bad
    <3> QED BY <2>4, <3>1
  <2>6. g = h
    <3>1. ASSUME NEW k \in 0 .. m PROVE h[k] = g[k]
      <4>1. /\ h[k] = IF k = 0 THEN first ELSE ServeAnswer(g[k-1], list[k], k \in fit)
            /\ g[k] = IF k = 0 THEN first ELSE ServeAnswer(f[k-1], list[k], k \in fit)
        OBVIOUS
      <4> HIDE DEF g, h
      <4> QED BY <2>5, <4>1
    <3>2. g = [k \in 0 .. m |-> g[k]] /\ h = [k \in 0 .. m |-> h[k]]
      OBVIOUS
    <3> HIDE DEF g, h
    <3> QED BY <3>1, <3>2
  <2>7. Runs(g, m)
    BY <2>6
  <2> QED BY <2>1, <2>7
<1>3. Runs(after, N)
  <2>1. \E f : Runs(f, N)
    BY <1>1, <1>2
  <2>2. after = CHOOSE f : Runs(f, N)
    BY DEF after
  <2> QED BY <2>1, <2>2
<1>4. /\ after[0] = first
      /\ \A k \in 1 .. N : after[k] = ServeAnswer(after[k-1], list[k], k \in fit)
  <2>1. 0 \in 0 .. N /\ \A k \in 1 .. N : k \in 0 .. N /\ k # 0
    BY <1>1
  <2> HIDE DEF after, N
  <2> QED BY <1>3, <2>1
<1> HIDE DEF after
<1>5. \A k \in 0 .. N : \E Q : Reached(k, Q)
  <2> DEFINE Bad == {k \in 0 .. N : ~\E Q : Reached(k, Q)}
  <2> SUFFICES ASSUME Bad # {} PROVE FALSE
    OBVIOUS
  <2>1. Bad \subseteq Nat
    OBVIOUS
  <2>2. PICK m \in Bad : \A y \in Bad : m <= y
    BY <2>1, Smallest
  <2>3. Reached(0, Q0)
    <3>1. list = [i \in 0+1 .. N |-> list[i]]
      OBVIOUS
    <3>2. Outside(Q0, Q0)
      BY DEF Outside
    <3> QED BY <1>4, <3>1, <3>2
  <2>4. m \in 1 .. N /\ m - 1 \in 0 .. N /\ m - 1 \notin Bad
    <3>1. m # 0 /\ m \in 0 .. N
      BY <2>2, <2>3
    <3>2. m \in 1 .. N /\ m - 1 \in 0 .. N /\ ~(m <= m - 1)
      <4>1. N \in Nat
        BY <1>1
      <4> HIDE DEF N, Bad
      <4> QED BY <3>1, <4>1
    <3> HIDE DEF Bad
    <3> QED BY <2>2, <3>2
  <2>5. PICK Q : Reached(m - 1, Q)
    BY <2>4
  <2> DEFINE fits == m \in fit
             r == ServeAnswer(after[m-1], list[m], fits)
             Q2 == [k \in Queues |->
                      IF k = 1 THEN r.kept
                      ELSE IF k = 2 THEN [i \in DOMAIN Q[2] \ {m} |-> Q[2][i]]
                      ELSE IF k = Last THEN r.slots ELSE Q[k]]
  <2>6. m \in DOMAIN Q[2] /\ list[m] = Q[2][m] /\ list[m] \in Answers
    BY <1>1, <2>4, <2>5
  <2>7. /\ Q2[1] = r.kept /\ Q2[2] = [i \in DOMAIN Q[2] \ {m} |-> Q[2][i]]
        /\ Q2[Last] = r.slots /\ \A k \in Queues : k \notin {1, 2, Last} => Q2[k] = Q[k]
    <3> HIDE DEF r, Bad, N
    <3> QED BY Ends
  <2> HIDE DEF fits
  <2>8. Q2[2] = [i \in m+1 .. N |-> list[i]]
    <3>1. (m-1)+1 .. N = m .. N /\ (m .. N) \ {m} = m+1 .. N
      <4>1. N \in Nat /\ m \in 1 .. N
        BY <1>1, <2>4
      <4> HIDE DEF N, Bad
      <4>2. (m-1)+1 = m
        BY <4>1
      <4> QED BY <4>1, <4>2
    <3>2. DOMAIN Q[2] = m .. N /\ \A i \in m .. N : Q[2][i] = list[i]
      BY <2>5, <3>1
    <3>3. Q2[2] = [i \in m+1 .. N |-> Q[2][i]]
      <4> HIDE DEF Q2, N, Bad
      <4> QED BY <2>7, <3>1, <3>2
    <3>4. \A i \in m+1 .. N : Q[2][i] = list[i]
      BY <1>1, <2>4, <3>2
    <3> HIDE DEF Q2, N, Bad
    <3> QED BY <3>3, <3>4
  <2>9. Good(r, Q2, gone, base, done, own)
    <3>1. Good(after[m-1], Q, gone, base, done, own)
      BY <2>5
    <3> HIDE DEF Q2, Bad, N
    <3>2. Serving(after[m-1], Q, Q2, m, list[m], fits)
      BY <2>6, <2>7 DEF Serving
    <3> QED BY <3>1, <3>2, ServeGood
  <2>10. Outside(Q2, Q0)
    <3>1. Outside(Q, Q0)
      BY <2>5
    <3> HIDE DEF Q2, Bad, N
    <3> QED BY <2>7, <3>1 DEF Outside
  <2>11. Reached(m, Q2)
    <3>1. after[m] = r
      BY <1>4, <2>4, Zenon DEF fits
    <3> HIDE DEF Q2, r
    <3> QED BY <2>8, <2>9, <2>10, <3>1
  <2> QED BY <2>2, <2>11
<1>6. PICK Q : Reached(N, Q)
  <2>1. N \in 0 .. N
    BY <1>1
  <2> HIDE DEF N, Reached
  <2> QED BY <1>5, <2>1
<1>7. DOMAIN Q[2] = {}
  BY <1>1, <1>6
<1> QED BY <1>1, <1>6, <1>7

\* Sound reads five fields of st.
LEMMA SoundOfSame ==
  ASSUME NEW st, NEW st2, NEW Q, NEW gone, NEW times, NEW done, NEW own,
         Sound(st, Q, gone, times, done, own),
         st2.status = st.status, st2.rv = st.rv, st2.holds = st.holds,
         st2.nTbs = st.nTbs, st2.buffer = st.buffer
  PROVE  Sound(st2, Q, gone, times, done, own)
<1>1. StatusIsRv(st2) /\ TakenInTurn(st2)
  BY DEF Sound, StatusIsRv, TakenInTurn
<1>2. Owned(st2, Q, own)
  BY DEF Sound, Owned
<1>3. Counted(st2, times) /\ Discarded(st2, done)
  BY DEF Sound, Counted, Discarded
<1>4. Alone(Q, gone) /\ Current(st2, Q, gone)
  BY DEF Sound, Current
<1> QED BY <1>1, <1>2, <1>3, <1>4 DEF Sound

\* The answers after the first ones seen are lost, and the symbols with them.
LEMMA AnsweredGood ==
  ASSUME NEW list \in Seq(Answers), NEW seen \in 0..Len(list), NEW fit, NEW Q0, NEW gone,
         NEW base \in [Tbs -> Nat], NEW done, NEW own,
         Good(Refreshed, Q0, gone, base, done, own), Q0[2] = list
  PROVE  \E Q : /\ Good(Answered(list, seen, fit), Q, gone, base, done, own)
                /\ Outside(Q, Q0) /\ DOMAIN Q[2] = {}
<1> DEFINE part == SubSeq(list, 1, seen)
           Q1 == [k \in Queues |-> IF k = 2 THEN part ELSE Q0[k]]
<1>1. /\ part \in Seq(Answers)
      /\ \A i \in DOMAIN part : i \in DOMAIN list /\ part[i] = list[i]
  <2>1. Len(list) \in Nat /\ DOMAIN list = 1..Len(list)
    OBVIOUS
  <2>2. /\ part \in Seq(Answers) /\ DOMAIN part = 1..seen
        /\ \A i \in 1..seen : part[i] = list[i]
    BY <2>1
  <2> HIDE DEF part
  <2> QED BY <2>1, <2>2
<1> HIDE DEF part
<1>2. /\ Q1[2] = part /\ Q1[1] = Q0[1] /\ Q1[Last] = Q0[Last]
      /\ \A k \in Queues : k # 2 => Q1[k] = Q0[k]
  BY Ends
<1> HIDE DEF Q1
<1>3. Within(Q1, Q0)
  BY <1>1, <1>2 DEF Within
<1>4. Good(Refreshed, Q1, gone, base, done, own)
  BY <1>2, <1>3, TakeOut
<1> DEFINE st == Served(Refreshed, part, fit)
<1>5. PICK Q : Good(st, Q, gone, base, done, own) /\ Outside(Q, Q1) /\ DOMAIN Q[2] = {}
  BY <1>1, <1>2, <1>4, ServedGood
<1>6. Outside(Q, Q0)
  BY <1>2, <1>5 DEF Outside
<1>7. Answered(list, seen, fit) = IF seen = Len(list) THEN st ELSE [st EXCEPT !.free = 0]
  BY DEF Answered, part
<1> HIDE DEF st
<1>8. Good([st EXCEPT !.free = 0], Q, gone, base, done, own)
  <2> DEFINE r == [st EXCEPT !.free = 0]
  <2>1. st \in States
    BY <1>5 DEF Good
  <2>2. r \in States
    <3>1. 0 \in 0..DataSymbols
      BY HarqAssumption
    <3> QED BY <2>1, <3>1, StateWith, Zenon
  <2>3. /\ r.status = st.status /\ r.rv = st.rv /\ r.holds = st.holds /\ r.nTbs = st.nTbs
        /\ r.buffer = st.buffer /\ r.kept = st.kept /\ r.slots = st.slots
        /\ r.failed = st.failed
    BY <2>1, StateIs
  <2> HIDE DEF r
  <2>4. Sound(st, Q, gone, Plus(base, st.slots), done, own)
    BY <1>5 DEF Good
  <2>5. Sound(r, Q, gone, Plus(base, r.slots), done, own)
    BY <2>3, <2>4, SoundOfSame
  <2>6. Good(r, Q, gone, base, done, own)
    BY <1>5, <2>2, <2>3, <2>5 DEF Good
  <2> QED BY <2>6 DEF r
<1> QED BY <1>5, <1>6, <1>7, <1>8

\* Each of the states S keeps its part of a line that has no answers to serve.
AllGood(S, Q, gone, base, done) ==
    \A st \in S : \E R, own : /\ Good(st, R, gone, base, done, own)
                              /\ Outside(R, Q) /\ DOMAIN R[2] = {}

\* One more slot of new data.
LEMMA GivenGood ==
  ASSUME NEW Q, NEW gone, NEW base \in [Tbs -> Nat], NEW done \in SUBSET Tbs,
         NEW void \in BOOLEAN, NEW S, AllGood(S, Q, gone, base, done)
  PROVE  AllGood(UNION {Given(st, void) : st \in S}, Q, gone, base, done)
<1> SUFFICES ASSUME NEW s \in S, NEW s2 \in Given(s, void)
             PROVE  \E R, own : /\ Good(s2, R, gone, base, done, own)
                                /\ Outside(R, Q) /\ DOMAIN R[2] = {}
  BY DEF AllGood
<1>1. PICK R, o : Good(s, R, gone, base, done, o) /\ Outside(R, Q) /\ DOMAIN R[2] = {}
  BY DEF AllGood
<1>2. PICK slot \in [size : 1..DataSymbols, void : {void}] :
           slot.size <= s.free /\ s.nTbs < MaxTbs /\ s2 = GiveSlot(s, slot)
  BY DEF Given
<1>3. slot \in [size : 1..DataSymbols, void : BOOLEAN]
  BY <1>2
<1> DEFINE Q2 == [k \in Queues |-> IF k = Last THEN s2.slots ELSE R[k]]
<1>4. Q2[Last] = s2.slots /\ Same(Q2, R, Last) /\ Outside(Q2, Q) /\ DOMAIN Q2[2] = {}
  BY <1>1, Ends DEF Same, Outside
<1> HIDE DEF Q2
<1>5. \E own2 : Good(s2, Q2, gone, base, done, own2)
  BY <1>1, <1>2, <1>3, <1>4, GiveSlotGood
<1> QED BY <1>4, <1>5

\* Any number of slots.
LEMMA FilledGood ==
  ASSUME NEW Q, NEW gone, NEW base \in [Tbs -> Nat], NEW done \in SUBSET Tbs,
         NEW void \in BOOLEAN, NEW S, AllGood(S, Q, gone, base, done), NEW n \in Nat
  PROVE  AllGood(Filled(S, void, n), Q, gone, base, done)
<1> DEFINE More(T) == UNION {Given(st, void) : st \in T}
           Runs(f, m) == f = [k \in 0 .. m |-> IF k = 0 THEN S ELSE More(f[k-1])]
           after[k \in 0 .. n] == IF k = 0 THEN S ELSE More(after[k-1])
<1> HIDE DEF More
<1>1. Filled(S, void, n) = UNION {after[k] : k \in 0 .. n}
  BY DEF Filled, More
<1>2. \A m \in Nat : \E f : Runs(f, m)
  <2> DEFINE Bad == {m \in Nat : ~\E f : Runs(f, m)}
  <2> SUFFICES ASSUME Bad # {} PROVE FALSE
    OBVIOUS
  <2>1. PICK m \in Bad : \A y \in Bad : m <= y
    BY Smallest
  <2>2. m # 0
    <3> DEFINE f == [k \in 0 .. 0 |-> S]
    <3>1. Runs(f, 0)
      OBVIOUS
    <3> QED BY <3>1
  <2>3. m \in Nat /\ m - 1 \in Nat /\ m - 1 \notin Bad
    <3>1. m \in Nat
      BY <2>1
    <3> HIDE DEF Bad
    <3> QED BY <2>1, <2>2, <3>1
  <2>4. PICK f : Runs(f, m - 1)
    BY <2>3
  <2> DEFINE g == [k \in 0 .. m |-> IF k = 0 THEN S ELSE More(f[k-1])]
             h == [k \in 0 .. m |-> IF k = 0 THEN S ELSE More(g[k-1])]
  <2>5. ASSUME NEW k \in 0 .. m, k # 0 PROVE g[k-1] = f[k-1]
    <3>1. k - 1 \in 0 .. m - 1 /\ k - 1 \in 0 .. m
      BY <2>3, <2>5
    <3> HIDE DEF Bad
    <3> QED BY <2>4, <3>1
  <2>6. g = h
    <3>1. ASSUME NEW k \in 0 .. m PROVE h[k] = g[k]
      <4>1. /\ h[k] = IF k = 0 THEN S ELSE More(g[k-1])
            /\ g[k] = IF k = 0 THEN S ELSE More(f[k-1])
        OBVIOUS
      <4> HIDE DEF g, h
      <4> QED BY <2>5, <4>1
    <3>2. g = [k \in 0 .. m |-> g[k]] /\ h = [k \in 0 .. m |-> h[k]]
      OBVIOUS
    <3> HIDE DEF g, h
    <3> QED BY <3>1, <3>2
  <2>7. Runs(g, m)
    BY <2>6
  <2> QED BY <2>1, <2>7
<1>3. Runs(after, n)
  <2>1. \E f : Runs(f, n)
    BY <1>2
  <2>2. after = CHOOSE f : Runs(f, n)
    BY DEF after
  <2> QED BY <2>1, <2>2
<1>4. after[0] = S /\ \A k \in 1 .. n : after[k] = More(after[k-1])
  <2>1. 0 \in 0 .. n /\ \A k \in 1 .. n : k \in 0 .. n /\ k # 0
    OBVIOUS
  <2> HIDE DEF after
  <2> QED BY <1>3, <2>1
<1> HIDE DEF after
<1>5. \A k \in 0 .. n : AllGood(after[k], Q, gone, base, done)
  <2> DEFINE Bad == {k \in 0 .. n : ~AllGood(after[k], Q, gone, base, done)}
  <2> SUFFICES ASSUME Bad # {} PROVE FALSE
    OBVIOUS
  <2>1. Bad \subseteq Nat
    OBVIOUS
  <2>2. PICK m \in Bad : \A y \in Bad : m <= y
    BY <2>1, Smallest
  <2>3. m # 0
    BY <1>4, <2>2
  <2>4. m \in 1 .. n /\ m - 1 \in 0 .. n /\ m - 1 \notin Bad
    <3>1. m \in 0 .. n
      BY <2>2
    <3>2. m \in 1 .. n /\ m - 1 \in 0 .. n /\ ~(m <= m - 1)
      <4> HIDE DEF Bad
      <4> QED BY <2>3, <3>1
    <3> HIDE DEF Bad
    <3> QED BY <2>2, <3>2
  <2>5. AllGood(after[m-1], Q, gone, base, done)
    BY <2>4
  <2>6. AllGood(after[m], Q, gone, base, done)
    <3>1. after[m] = More(after[m-1])
      BY <1>4, <2>4
    <3> HIDE DEF Bad
    <3> QED BY <2>5, <3>1, GivenGood DEF More
  <2> QED BY <2>2, <2>6
<1> QED BY <1>1, <1>5 DEF AllGood

\* The allocation for new data, of any number of slots.
LEMMA NewDataGood ==
  ASSUME NEW st, NEW Q, NEW gone, NEW base \in [Tbs -> Nat], NEW done \in SUBSET Tbs, NEW own,
         Good(st, Q, gone, base, done, own), DOMAIN Q[2] = {}, NEW st2 \in NewData(st)
  PROVE  \E Q2, own2 : /\ Good(st2, Q2, gone, base, done, own2)
                       /\ Outside(Q2, Q) /\ DOMAIN Q2[2] = {}
<1>1. AllGood({st}, Q, gone, base, done)
  BY DEF AllGood, Outside
<1>2. MaxTbs \in Nat /\ TRUE \in BOOLEAN /\ FALSE \in BOOLEAN
  BY HarqAssumption
<1> DEFINE some == UNION {Given(one, FALSE) : one \in Filled({st}, FALSE, MaxTbs)}
<1>3. AllGood(some, Q, gone, base, done)
  <2>1. AllGood(Filled({st}, FALSE, MaxTbs), Q, gone, base, done)
    BY <1>1, <1>2, FilledGood
  <2> QED BY <1>2, <2>1, GivenGood
<1>4. AllGood(Filled(some, TRUE, MaxTbs), Q, gone, base, done)
  <2> HIDE DEF some
  <2> QED BY <1>2, <1>3, FilledGood
<1>5. st2 \in {st} \/ st2 \in Filled(some, TRUE, MaxTbs)
  BY DEF NewData
<1> HIDE DEF some
<1> QED BY <1>1, <1>4, <1>5 DEF AllGood

-----------------------------------------------------------------------------
(***************************************************************************)
(* Messages that change their place.                                       *)
(***************************************************************************)
\* Message i of queue k of Q2 was message at[k][i] of queue in[k][i] of Q.
Origin(Q2, Q, in, at) ==
    /\ \A k \in Queues : \A i \in DOMAIN Q2[k] :
         /\ in[k][i] \in Queues /\ at[k][i] \in DOMAIN Q[in[k][i]]
         /\ Q2[k][i].proc = Q[in[k][i]][at[k][i]].proc
         /\ Q2[k][i].tb = Q[in[k][i]][at[k][i]].tb
    /\ \A k, l \in Queues : \A i \in DOMAIN Q2[k], j \in DOMAIN Q2[l] :
         in[k][i] = in[l][j] /\ at[k][i] = at[l][j] => k = l /\ i = j

LEMMA LineMoves ==
  ASSUME NEW st, NEW Q, NEW Q2, NEW gone, NEW own, NEW in, NEW at,
         Origin(Q2, Q, in, at), Owned(st, Q, own), Alone(Q, gone)
  PROVE  Owned(st, Q2, own) /\ Alone(Q2, gone)
<1>1. Owned(st, Q2, own)
  <2>1. ASSUME NEW k \in Queues, NEW i \in DOMAIN Q2[k]
        PROVE  /\ Q2[k][i].proc \in Procs /\ Q2[k][i].tb \in Tbs \cup {NoTb}
               /\ Q2[k][i].tb # NoTb =>
                    Q2[k][i].tb <= st.nTbs /\ own[Q2[k][i].tb] = Q2[k][i].proc
    BY DEF Origin, Owned
  <2> QED BY <2>1 DEF Owned
<1>2. Alone(Q2, gone)
  <2> SUFFICES ASSUME NEW p \in Procs \ gone, NEW k \in Queues, NEW l \in Queues,
                      NEW i \in DOMAIN Q2[k], NEW j \in DOMAIN Q2[l],
                      Q2[k][i].proc = p, Q2[l][j].proc = p
               PROVE  k = l /\ i = j
    BY DEF Alone
  <2>1. in[k][i] = in[l][j] /\ at[k][i] = at[l][j]
    BY DEF Origin, Alone
  <2> QED BY <2>1 DEF Origin
<1> QED BY <1>1, <1>2

\* The queues, by their number.
LineOf(a, b, c, d) ==
    [k \in Queues |-> CASE k = 1                  -> a
                        [] k = 2                  -> b
                        [] k \in 3..AnswerDelay+3 -> c[k - 2]
                        [] OTHER                  -> d[k - (AnswerDelay + 3)]]

LEMMA LineNow ==
  /\ Line = LineOf(kept, received, answers, air)
  /\ Line' = LineOf(kept', received', answers', air')
BY DEF Line, Queue, LineOf

LEMMA LineOfIs ==
  ASSUME NEW a, NEW b, NEW c, NEW d, NEW k \in Queues
  PROVE  /\ k = 1 => LineOf(a, b, c, d)[k] = a
         /\ k = 2 => LineOf(a, b, c, d)[k] = b
         /\ k \in 3..AnswerDelay+3 =>
              LineOf(a, b, c, d)[k] = c[k - 2] /\ k - 2 \in 1..AnswerDelay+1
         /\ k \in AnswerDelay+4..Last =>
              /\ LineOf(a, b, c, d)[k] = d[k - (AnswerDelay + 3)]
              /\ k - (AnswerDelay + 3) \in 1..LookAhead+1
         /\ k \in {1, 2} \cup 3..AnswerDelay+3 \cup AnswerDelay+4..Last
         /\ Last = AnswerDelay + 3 + (LookAhead + 1)
<1> DEFINE L == LineOf(a, b, c, d)
<1>1. L[k] = CASE k = 1                  -> a
               [] k = 2                  -> b
               [] k \in 3..AnswerDelay+3 -> c[k - 2]
               [] OTHER                  -> d[k - (AnswerDelay + 3)]
  BY DEF LineOf
<1> HIDE DEF L
<1>2. /\ k \in Nat /\ k >= 1 /\ k <= Last /\ AnswerDelay \in Nat /\ LookAhead \in Nat
      /\ Last = LookAhead + AnswerDelay + 4 /\ AnswerDelay >= 1
  BY HarqAssumption DEF Queues, Last
<1>3. CASE k = 1
  BY <1>1, <1>2, <1>3 DEF L
<1>4. CASE k = 2
  BY <1>1, <1>2, <1>4 DEF L
<1>5. CASE k \in 3..AnswerDelay+3
  <2>1. L[k] = c[k - 2]
    BY <1>1, <1>2, <1>5
  <2> QED BY <1>2, <1>5, <2>1 DEF L
<1>6. CASE k \in AnswerDelay+4..Last
  <2>1. k # 1 /\ k # 2 /\ k \notin 3..AnswerDelay+3
    BY <1>2, <1>6
  <2>2. L[k] = d[k - (AnswerDelay + 3)]
    BY <1>1, <2>1
  <2> QED BY <1>2, <1>6, <2>1, <2>2 DEF L
<1>7. k = 1 \/ k = 2 \/ k \in 3..AnswerDelay+3 \/ k \in AnswerDelay+4..Last
  BY <1>2
<1> QED BY <1>3, <1>4, <1>5, <1>6, <1>7

LEMMA LineIs ==
  ASSUME NEW k \in Queues
  PROVE  /\ k = 1 => Line[k] = kept
         /\ k = 2 => Line[k] = received
         /\ k \in 3..AnswerDelay+3 => Line[k] = answers[k - 2] /\ k - 2 \in 1..AnswerDelay+1
         /\ k \in AnswerDelay+4..Last =>
              Line[k] = air[k - (AnswerDelay + 3)] /\ k - (AnswerDelay + 3) \in 1..LookAhead+1
         /\ k \in {1, 2} \cup 3..AnswerDelay+3 \cup AnswerDelay+4..Last
         /\ Last = AnswerDelay + 3 + (LookAhead + 1)
BY LineOfIs, LineNow

LEMMA LineWillBe ==
  ASSUME NEW k \in Queues
  PROVE  /\ k = 1 => Line'[k] = kept'
         /\ k = 2 => Line'[k] = received'
         /\ k \in 3..AnswerDelay+3 => Line'[k] = answers'[k - 2]
         /\ k \in AnswerDelay+4..Last => Line'[k] = air'[k - (AnswerDelay + 3)]
BY LineOfIs, LineNow

-----------------------------------------------------------------------------
(***************************************************************************)
(* The steps.                                                              *)
(***************************************************************************)
LEMMA InitInv == Init => Inv
<1> SUFFICES ASSUME Init PROVE Inv
  OBVIOUS
<1>1. TypeOK /\ ~failed
  <2>1. /\ 0 \in 0..MaxRv+1 /\ 0 \in 0..MaxRv /\ 0 \in 0..DataSymbols /\ 0 \in 0..HarqTimeout
        /\ 0 \in 0..MaxTbs /\ NoTb \in Tbs \cup {NoTb}
    BY HarqAssumption
  <2>2. <<>> \in Seq(Answers) /\ <<>> \in Seq(Blocks)
    OBVIOUS
  <2>3. /\ status \in [Procs -> 0..MaxRv+1] /\ rv \in [Procs -> 0..MaxRv]
        /\ numSym \in [Procs -> 0..DataSymbols] /\ timer \in [Procs -> 0..HarqTimeout]
        /\ nTbs \in 0..MaxTbs
    BY <2>1 DEF Init
  <2>4. /\ buffer \in [Procs -> Tbs \cup {NoTb}] /\ holds \in [Procs -> Tbs \cup {NoTb}]
        /\ sent \in [Tbs -> Nat] /\ expired \subseteq Procs /\ acked \subseteq Tbs
    BY <2>1 DEF Init
  <2>5. /\ air \in [1..LookAhead+1 -> Seq(Blocks)]
        /\ answers \in [1..AnswerDelay+1 -> Seq(Answers)]
    BY <2>2, Zenon DEF Init
  <2> QED BY <2>2, <2>3, <2>4, <2>5 DEF Init, TypeOK
<1> DEFINE own == [t \in Tbs |-> 1]
<1>2. own \in [Tbs -> Procs]
  BY HarqAssumption DEF Procs
<1>3. ASSUME NEW k \in Queues PROVE DOMAIN Line[k] = {}
  <2>1. Line[k] = <<>>
    <3>1. CASE k = 1 \/ k = 2
      BY <3>1, LineIs DEF Init
    <3>2. CASE k \in 3..AnswerDelay+3
      BY <3>2, LineIs DEF Init
    <3>3. CASE k \in AnswerDelay+4..Last
      BY <3>3, LineIs DEF Init
    <3> QED BY <3>1, <3>2, <3>3, LineIs
  <2> QED BY <2>1
<1>4. /\ Now.status = [p \in Procs |-> 0] /\ Now.buffer = [p \in Procs |-> NoTb]
      /\ Now.holds = [p \in Procs |-> NoTb]
  BY DEF Init, Now
<1>5. StatusIsRv(Now) /\ TakenInTurn(Now) /\ Owned(Now, Line, own)
  BY <1>2, <1>3, <1>4 DEF StatusIsRv, TakenInTurn, Owned
<1>6. Counted(Now, sent) /\ Discarded(Now, acked) /\ Alone(Line, expired) /\ Current(Now, Line, expired)
  BY <1>3, <1>4 DEF Init, Counted, Discarded, Alone, Current
<1> QED BY <1>1, <1>2, <1>5, <1>6 DEF Inv, Sound

\* RefreshHarqProcesses: the answers of the last subframes are one list.
LEMMA RefreshedGood ==
  ASSUME Inv, NEW own, Sound(Now, Line, expired, sent, acked, own)
  PROVE  \E Q : /\ Good(Refreshed, Q, expired \cup {p \in Procs : TimesOut(p)},
                        sent, acked, own)
                /\ Q[2] = kept \o received
                /\ \A k \in Queues \ {1, 2, Last} : Q[k] = Line[k]
<1> DEFINE r == Refreshed
           gone == expired \cup {p \in Procs : TimesOut(p)}
           list == kept \o received
           Q == [k \in Queues |-> IF k = 1 \/ k = Last THEN <<>> ELSE IF k = 2 THEN list ELSE Line[k]]
           n == Len(kept)
<1>1. TypeOK
  BY DEF Inv
<1>2. /\ Q[1] = <<>> /\ Q[2] = list /\ Q[Last] = <<>>
      /\ \A k \in Queues \ {1, 2, Last} : Q[k] = Line[k]
      /\ Line[1] = kept /\ Line[2] = received /\ 1 \in Queues /\ 2 \in Queues
  BY Ends, LineIs
<1>3. /\ kept \in Seq(Answers) /\ received \in Seq(Answers) /\ n \in Nat
      /\ DOMAIN kept = 1..n /\ DOMAIN received = 1..Len(received)
      /\ \A i \in DOMAIN list : IF i <= n THEN i \in DOMAIN kept /\ list[i] = kept[i]
                                ELSE i - n \in DOMAIN received /\ list[i] = received[i - n]
      /\ \A i \in DOMAIN list : i \in Nat
  BY <1>1 DEF TypeOK
<1>4. /\ r \in States /\ r.kept = <<>> /\ r.slots = <<>> /\ r.failed = FALSE
      /\ r.rv = rv /\ r.nTbs = nTbs /\ r.buffer = buffer
      /\ r.status = [p \in Procs |-> IF TimesOut(p) THEN 0 ELSE status[p]]
      /\ r.holds = [p \in Procs |-> IF TimesOut(p) THEN NoTb ELSE holds[p]]
  <2>1. [p \in Procs |-> IF TimesOut(p) THEN 0 ELSE status[p]] \in [Procs -> 0..MaxRv+1]
    BY <1>1, HarqAssumption DEF TypeOK
  <2>2. [p \in Procs |-> IF TimesOut(p) THEN NoTb ELSE holds[p]] \in [Procs -> Tbs \cup {NoTb}]
    BY <1>1 DEF TypeOK
  <2>3. [p \in Procs |-> TimerNow(p)] \in [Procs -> 0..HarqTimeout]
    <3>1. ASSUME NEW p \in Procs PROVE TimerNow(p) \in 0..HarqTimeout
      <4>1. status[p] \in 0..MaxRv+1 /\ timer[p] \in 0..HarqTimeout
        BY <1>1 DEF TypeOK
      <4> QED BY <4>1, HarqAssumption DEF TimerNow, TimesOut
    <3> QED BY <3>1
  <2>4. /\ rv \in [Procs -> 0..MaxRv] /\ numSym \in [Procs -> 0..DataSymbols] /\ nTbs \in 0..MaxTbs
        /\ buffer \in [Procs -> Tbs \cup {NoTb}]
    BY <1>1 DEF TypeOK
  <2>5. /\ <<>> \in Seq(Answers) /\ <<>> \in Seq(Blocks) /\ FALSE \in BOOLEAN
        /\ DataSymbols \in 0..DataSymbols
    BY HarqAssumption
  <2>6. r \in States
    BY <2>1, <2>2, <2>3, <2>4, <2>5, Zenon DEF Refreshed, States
  <2> QED BY <2>6 DEF Refreshed
<1> HIDE DEF r
<1>5. /\ Now.status = status /\ Now.rv = rv /\ Now.holds = holds /\ Now.nTbs = nTbs
      /\ Now.buffer = buffer
  BY DEF Now
<1>6. ASSUME NEW p \in Procs
      PROVE  /\ r.status[p] = 0 \/ r.status[p] = status[p]
             /\ r.holds[p] = NoTb \/ r.holds[p] = holds[p]
             /\ p \notin gone => r.status[p] = status[p] /\ r.holds[p] = holds[p]
  BY <1>4
<1> HIDE DEF gone, Q
<1>7. StatusIsRv(r) /\ TakenInTurn(r) /\ Discarded(r, acked)
  BY <1>4, <1>5, <1>6 DEF Sound, StatusIsRv, TakenInTurn, Discarded
<1>8. Counted(r, sent)
  BY <1>4, <1>5, <1>6 DEF Sound, Counted
<1>9. Plus(sent, r.slots) = sent
  <2>1. \A t \in Tbs : CountIn(t, <<>>) = 0
    <3>1. \A t \in Tbs : {i \in DOMAIN <<>> : <<>>[i].tb = t} = {}
      OBVIOUS
    <3> QED BY <3>1, FS_EmptySet DEF CountIn
  <2>2. sent \in [Tbs -> Nat]
    BY <1>1 DEF TypeOK
  <2> QED BY <1>4, <2>1, <2>2 DEF Plus
<1>10. Owned(r, Line, own) /\ Alone(Line, gone) /\ Current(r, Line, gone)
  <2>1. Owned(r, Line, own)
    BY <1>4, <1>5, <1>6 DEF Sound, Owned
  <2>2. Alone(Line, gone)
    BY DEF Sound, Alone, gone
  <2>3. ASSUME NEW p \in Procs, p \notin gone PROVE p \notin expired
    BY <2>3 DEF gone
  <2>4. Current(r, Line, gone)
    BY <1>4, <1>5, <1>6, <2>3 DEF Sound, Current
  <2> QED BY <2>1, <2>2, <2>4
<1> DEFINE in == [k \in Queues |-> [i \in DOMAIN Q[k] |-> IF k = 2 /\ i <= n THEN 1 ELSE k]]
           at == [k \in Queues |-> [i \in DOMAIN Q[k] |-> IF k = 2 /\ ~(i <= n) THEN i - n ELSE i]]
<1>11. ASSUME NEW k \in Queues, NEW i \in DOMAIN Q[k]
       PROVE  /\ in[k][i] = IF k = 2 /\ i <= n THEN 1 ELSE k
              /\ at[k][i] = IF k = 2 /\ ~(i <= n) THEN i - n ELSE i
  OBVIOUS
<1> HIDE DEF list, n, in, at
<1>12. ASSUME NEW k \in Queues, NEW i \in DOMAIN Q[k]
       PROVE  /\ in[k][i] \in Queues /\ at[k][i] \in DOMAIN Line[in[k][i]]
              /\ Q[k][i] = Line[in[k][i]][at[k][i]]
              /\ in[k][i] \in {1, 2} <=> k = 2
  <2>1. CASE k = 2
    BY <1>2, <1>3, <1>11, <2>1
  <2>2. CASE k # 2
    <3>1. k # 1 /\ k # Last
      BY <1>2, <2>2
    <3> QED BY <1>2, <1>11, <2>2, <3>1
  <2> QED BY <2>1, <2>2
<1>13. Origin(Q, Line, in, at)
  <2>1. ASSUME NEW k \in Queues, NEW l \in Queues, NEW i \in DOMAIN Q[k], NEW j \in DOMAIN Q[l],
               in[k][i] = in[l][j], at[k][i] = at[l][j]
        PROVE  k = l /\ i = j
    <3>1. k = 2 <=> l = 2
      BY <1>12, <2>1
    <3>2. CASE k # 2
      BY <1>11, <2>1, <3>1, <3>2
    <3>3. CASE k = 2
      <4>1. l = 2 /\ i \in Nat /\ j \in Nat /\ n \in Nat
        BY <1>2, <1>3, <3>1, <3>3
      <4>2. (i <= n) <=> (j <= n)
        BY <1>11, <2>1, <3>3, <4>1
      <4> QED BY <1>11, <2>1, <3>3, <4>1, <4>2
    <3> QED BY <3>2, <3>3
  <2> QED BY <1>12, <2>1 DEF Origin
<1>14. Owned(r, Q, own) /\ Alone(Q, gone)
  BY <1>10, <1>13, LineMoves
<1>15. Current(r, Q, gone)
  <2> SUFFICES ASSUME NEW p \in Procs \ gone, NEW k \in Queues, NEW i \in DOMAIN Q[k], Q[k][i].proc = p
               PROVE  /\ r.status[p] > 0 /\ Q[k][i].tb # NoTb /\ Q[k][i].tb = r.holds[p]
                      /\ r.buffer[p] = Q[k][i].tb \/ (k \in {1, 2} /\ Q[k][i].ack)
    BY DEF Current
  <2>1. /\ in[k][i] \in Queues /\ at[k][i] \in DOMAIN Line[in[k][i]]
        /\ Q[k][i] = Line[in[k][i]][at[k][i]] /\ (in[k][i] \in {1, 2} <=> k = 2)
    BY <1>12
  <2>2. PICK a, b : a = in[k][i] /\ b = at[k][i]
    OBVIOUS
  <2>3. a \in Queues /\ b \in DOMAIN Line[a] /\ Line[a][b].proc = p /\ Line[a][b] = Q[k][i]
    BY <2>1, <2>2
  <2>4. /\ r.status[p] > 0 /\ Line[a][b].tb # NoTb /\ Line[a][b].tb = r.holds[p]
        /\ r.buffer[p] = Line[a][b].tb \/ (a \in {1, 2} /\ Line[a][b].ack)
    BY <1>10, <2>3 DEF Current
  <2> QED BY <2>1, <2>2, <2>3, <2>4
<1>16. Sound(r, Q, gone, Plus(sent, r.slots), acked, own)
  BY <1>7, <1>8, <1>9, <1>14, <1>15 DEF Sound
<1>17. Good(r, Q, gone, sent, acked, own)
  BY <1>2, <1>4, <1>16 DEF Good
<1> QED BY <1>2, <1>17 DEF r, gone, list

LEMMA CountIsNat ==
  ASSUME NEW slots \in Seq(Blocks), NEW t \in Tbs
  PROVE  CountIn(t, slots) \in Nat
<1>1. [proc |-> t, tb |-> t] \in Blocks
  BY DEF Blocks, Procs, Tbs
<1> QED BY <1>1, CountGrows

LEMMA ScheduleStep == Inv /\ Schedule => Inv' /\ \A t \in acked : sent'[t] = sent[t]
<1> SUFFICES ASSUME Inv, Schedule PROVE Inv' /\ \A t \in acked : sent'[t] = sent[t]
  OBVIOUS
<1>1. TypeOK
  BY DEF Inv
<1>2. PICK own : Sound(Now, Line, expired, sent, acked, own)
  BY DEF Inv
<1>3. PICK gone : gone = expired \cup {p \in Procs : TimesOut(p)}
  OBVIOUS
<1> DEFINE Does(st) ==
             /\ status' = st.status /\ rv' = st.rv /\ numSym' = st.numSym
             /\ timer' = st.timer /\ kept' = st.kept /\ failed' = st.failed
             /\ buffer' = st.buffer
             /\ air' = [air EXCEPT ![LookAhead+1] = st.slots]
             /\ nTbs' = st.nTbs /\ holds' = st.holds
             /\ expired' = expired \cup {p \in Procs : TimesOut(p)}
             /\ sent' = [t \in Tbs |-> sent[t] + CountIn(t, st.slots)]
<1>4a. PICK list : list = kept \o received
  OBVIOUS
<1>4b. PICK seen \in 0..Len(list) : \E fit \in SUBSET (1..seen) :
       LET served == Answered(list, seen, fit)
       IN  \E st \in IF served.failed THEN {served} ELSE NewData(served) : Does(st)
  BY <1>4a, Zenon DEF Schedule
<1>4c. PICK fit \in SUBSET (1..seen) :
       LET served == Answered(list, seen, fit)
       IN  \E st \in IF served.failed THEN {served} ELSE NewData(served) : Does(st)
  BY <1>4b, Zenon
<1>4d. PICK served : served = Answered(list, seen, fit)
  OBVIOUS
<1>4e. PICK st \in IF served.failed THEN {served} ELSE NewData(served) : Does(st)
  BY <1>4c, <1>4d, Zenon
<1>4. /\ list = kept \o received /\ served = Answered(list, seen, fit)
      /\ st \in IF served.failed THEN {served} ELSE NewData(served)
      /\ status' = st.status /\ rv' = st.rv /\ numSym' = st.numSym
      /\ timer' = st.timer /\ kept' = st.kept /\ failed' = st.failed
      /\ buffer' = st.buffer
      /\ air' = [air EXCEPT ![LookAhead+1] = st.slots]
      /\ nTbs' = st.nTbs /\ holds' = st.holds
      /\ expired' = gone
      /\ sent' = [t \in Tbs |-> sent[t] + CountIn(t, st.slots)]
  BY <1>3, <1>4a, <1>4d, <1>4e, Zenon
<1> HIDE DEF Does
<1>5. phase' = "receive" /\ received' = <<>> /\ answers' = answers /\ acked' = acked
  BY DEF Schedule
<1>6. list \in Seq(Answers) /\ sent \in [Tbs -> Nat] /\ acked \in SUBSET Tbs
  BY <1>1, <1>4 DEF TypeOK
<1>7. PICK Q0 : /\ Good(Refreshed, Q0, gone, sent, acked, own)
                /\ Q0[2] = list /\ \A k \in Queues \ {1, 2, Last} : Q0[k] = Line[k]
  <2>1. \E Q0 : /\ Good(Refreshed, Q0, expired \cup {p \in Procs : TimesOut(p)},
                        sent, acked, own)
                /\ Q0[2] = kept \o received
                /\ \A k \in Queues \ {1, 2, Last} : Q0[k] = Line[k]
    BY <1>2, RefreshedGood
  <2>2. list = kept \o received
    BY <1>4
  <2> QED BY <1>3, <2>1, <2>2, Zenon
<1>8. PICK Q1 : Good(served, Q1, gone, sent, acked, own) /\ Outside(Q1, Q0) /\ DOMAIN Q1[2] = {}
  BY <1>4, <1>6, <1>7, AnsweredGood
<1>9. st \in NewData(served)
  BY <1>4, <1>8 DEF Good
<1>10. PICK Q, own2 : Good(st, Q, gone, sent, acked, own2) /\ Outside(Q, Q1) /\ DOMAIN Q[2] = {}
  BY <1>6, <1>8, <1>9, NewDataGood
<1>11. /\ st \in States /\ st.failed = FALSE /\ Q[1] = st.kept /\ Q[Last] = st.slots
       /\ Sound(st, Q, gone, Plus(sent, st.slots), acked, own2)
       /\ \A i \in DOMAIN st.slots : st.slots[i].tb \notin acked
  <2>1. st \in States /\ ~st.failed
    BY <1>10 DEF Good
  <2>2. st.failed \in BOOLEAN
    BY <2>1, StateIs
  <2> QED BY <1>10, <2>1, <2>2 DEF Good
<1>12. \A k \in Queues \ {1, 2, Last} : Q[k] = Line[k]
  BY <1>7, <1>8, <1>10 DEF Outside
<1>13. TypeOK'
  <2>1. /\ status' \in [Procs -> 0..MaxRv+1] /\ rv' \in [Procs -> 0..MaxRv]
        /\ numSym' \in [Procs -> 0..DataSymbols] /\ timer' \in [Procs -> 0..HarqTimeout]
        /\ failed' \in BOOLEAN /\ buffer' \in [Procs -> Tbs \cup {NoTb}]
        /\ kept' \in Seq(Answers) /\ nTbs' \in 0..MaxTbs
        /\ holds' \in [Procs -> Tbs \cup {NoTb}] /\ st.slots \in Seq(Blocks)
    BY <1>4, <1>11, StateIs
  <2>2. air' \in [1..LookAhead+1 -> Seq(Blocks)]
    BY <1>1, <1>4, <2>1 DEF TypeOK
  <2>3. expired' \subseteq Procs
    BY <1>1, <1>3, <1>4 DEF TypeOK
  <2>4. sent' \in [Tbs -> Nat]
    <3>1. \A t \in Tbs : CountIn(t, st.slots) \in Nat
      BY <2>1, CountIsNat
    <3> QED BY <1>4, <1>6, <3>1
  <2>5. received' \in Seq(Answers) /\ answers' \in [1..AnswerDelay+1 -> Seq(Answers)]
        /\ acked' \subseteq Tbs
    BY <1>1, <1>5 DEF TypeOK
  <2> QED BY <1>5, <2>1, <2>2, <2>3, <2>4, <2>5 DEF TypeOK
<1>14. Within(Line', Q)
  <2>1. ASSUME NEW k \in Queues PROVE DOMAIN Line'[k] = {} \/ Line'[k] = Q[k]
    <3>1. CASE k = 1
      BY <1>4, <1>11, <3>1, LineWillBe
    <3>2. CASE k = 2
      BY <1>5, <3>2, LineWillBe
    <3>3. CASE k \in 3..AnswerDelay+3
      <4>1. Line[k] = answers[k - 2] /\ Line'[k] = answers'[k - 2]
        BY <3>3, LineIs, LineWillBe
      <4>2. k # 1 /\ k # 2 /\ k # Last
        BY <3>3, HarqAssumption DEF Last
      <4> QED BY <1>5, <1>12, <4>1, <4>2
    <3>4. CASE k = Last
      <4>1. k \in AnswerDelay+4..Last /\ k - (AnswerDelay + 3) = LookAhead + 1
        BY <3>4, HarqAssumption DEF Last
      <4>2. Line'[k] = air'[LookAhead + 1]
        BY <4>1, LineWillBe
      <4>3. LookAhead + 1 \in DOMAIN air
        BY <1>1, HarqAssumption DEF TypeOK
      <4> QED BY <1>4, <1>11, <3>4, <4>2, <4>3
    <3>5. CASE k \in AnswerDelay+4..Last /\ k # Last
      <4>1. k # 1 /\ k # 2 /\ k - (AnswerDelay + 3) # LookAhead + 1
        BY <3>5, HarqAssumption DEF Last
      <4>2. /\ Line[k] = air[k - (AnswerDelay + 3)] /\ Line'[k] = air'[k - (AnswerDelay + 3)]
            /\ k - (AnswerDelay + 3) \in 1..LookAhead+1
        BY <3>5, LineIs, LineWillBe
      <4>3. air'[k - (AnswerDelay + 3)] = air[k - (AnswerDelay + 3)]
        BY <1>1, <1>4, <4>1, <4>2 DEF TypeOK
      <4> QED BY <1>12, <3>5, <4>1, <4>2, <4>3
    <3> QED BY <3>1, <3>2, <3>3, <3>4, <3>5, LineIs
  <2> QED BY <2>1 DEF Within
<1>15. Sound(st, Line', gone, Plus(sent, st.slots), acked, own2)
  BY <1>11, <1>14, LineShrinks DEF Sound
<1>16. sent' = Plus(sent, st.slots)
  BY <1>4 DEF Plus
<1>17. /\ Now'.status = st.status /\ Now'.rv = st.rv /\ Now'.holds = st.holds
       /\ Now'.nTbs = st.nTbs /\ Now'.buffer = st.buffer
  BY <1>4 DEF Now
<1>18. Sound(Now', Line', gone, Plus(sent, st.slots), acked, own2)
  BY <1>15, <1>17, SoundOfSame
<1>19. own2 \in [Tbs -> Procs]
  BY <1>18 DEF Sound, Owned
<1>20. Inv'
  BY <1>4, <1>5, <1>11, <1>13, <1>16, <1>18, <1>19 DEF Inv
<1>21. ASSUME NEW t \in acked PROVE sent'[t] = sent[t]
  <2>1. t \in Tbs /\ sent[t] \in Nat
    BY <1>6
  <2>2. {i \in DOMAIN st.slots : st.slots[i].tb = t} = {}
    BY <1>11
  <2>3. CountIn(t, st.slots) = 0
    BY <2>2, FS_EmptySet DEF CountIn
  <2> QED BY <1>4, <2>1, <2>3
<1> QED BY <1>20, <1>21


\* m is the answer to the slot the order f puts at place j of queue q.
Answer(m, q, f, j) ==
    /\ j \in DOMAIN q /\ f[j] \in DOMAIN q
    /\ m.proc = q[f[j]].proc /\ m.tb = q[f[j]].tb

\* Received slots become answers: the first ones, in order f, join the messages of
\* queue near, of which there are n, and the others are queue far.
Making(Q, Q2, near, far, from, n, cut, f) ==
    /\ near \in Queues /\ far \in Queues /\ from \in Queues
    /\ near > 2 /\ far > 2 /\ from > 2
    /\ near # far /\ near # from /\ far # from
    /\ n \in Nat /\ cut \in Nat
    /\ \A i, j \in DOMAIN Q[from] : f[i] = f[j] => i = j
    /\ \A i \in DOMAIN Q2[near] : /\ i \in Nat
                                   /\ IF i <= n THEN i \in DOMAIN Q[near] /\ Q2[near][i] = Q[near][i]
                                      ELSE i - n \in 1..cut /\ Answer(Q2[near][i], Q[from], f, i - n)
    /\ \A i \in DOMAIN Q2[far] : i \in Nat /\ i >= 1 /\ Answer(Q2[far][i], Q[from], f, i + cut)
    /\ DOMAIN Q2[from] = {}
    /\ \A k \in Queues : k \notin {near, far, from} => Q2[k] = Q[k]

LEMMA AnswersAreMade ==
  ASSUME NEW st, NEW Q, NEW Q2, NEW gone, NEW own,
         Owned(st, Q, own), Alone(Q, gone), Current(st, Q, gone),
         NEW near, NEW far, NEW from, NEW n, NEW cut, NEW f,
         Making(Q, Q2, near, far, from, n, cut, f)
  PROVE  Owned(st, Q2, own) /\ Alone(Q2, gone) /\ Current(st, Q2, gone)
<1> USE DEF Making
<1> DEFINE in == [k \in Queues |-> [i \in DOMAIN Q2[k] |->
                    IF k = far \/ (k = near /\ ~(i <= n)) THEN from ELSE k]]
           at == [k \in Queues |-> [i \in DOMAIN Q2[k] |->
                    IF k = far THEN f[i + cut] ELSE IF k = near /\ ~(i <= n) THEN f[i - n] ELSE i]]
<1>1. ASSUME NEW k \in Queues, NEW i \in DOMAIN Q2[k]
      PROVE  /\ in[k][i] = (IF k = far \/ (k = near /\ ~(i <= n)) THEN from ELSE k)
             /\ at[k][i] = (IF k = far THEN f[i + cut]
                            ELSE IF k = near /\ ~(i <= n) THEN f[i - n] ELSE i)
             /\ k # from
  OBVIOUS
<1> HIDE DEF in, at
<1>2. ASSUME NEW k \in Queues, NEW i \in DOMAIN Q2[k]
      PROVE  /\ in[k][i] \in Queues /\ at[k][i] \in DOMAIN Q[in[k][i]]
             /\ Q2[k][i].proc = Q[in[k][i]][at[k][i]].proc
             /\ Q2[k][i].tb = Q[in[k][i]][at[k][i]].tb
             /\ in[k][i] = k => Q2[k] = Q[k] \/ Q2[k][i] = Q[k][i]
             /\ in[k][i] # k => k \in {near, far} /\ in[k][i] = from
  <2>1. CASE k = far
    BY <1>1, <2>1 DEF Answer
  <2>2. CASE k = near /\ i <= n
    BY <1>1, <2>2
  <2>3. CASE k = near /\ ~(i <= n)
    BY <1>1, <2>3 DEF Answer
  <2>4. CASE k \notin {near, far}
    BY <1>1, <2>4
  <2> QED BY <2>1, <2>2, <2>3, <2>4
<1>3. Origin(Q2, Q, in, at)
  <2>1. ASSUME NEW k \in Queues, NEW l \in Queues, NEW i \in DOMAIN Q2[k], NEW j \in DOMAIN Q2[l],
               in[k][i] = in[l][j], at[k][i] = at[l][j]
        PROVE  k = l /\ i = j
    <3>1. CASE in[k][i] # from
      <4>1. in[k][i] = k /\ at[k][i] = i /\ in[l][j] = l /\ at[l][j] = j
        BY <1>1, <2>1, <3>1
      <4> QED BY <2>1, <4>1
    <3>2. CASE in[k][i] = from
      <4> DEFINE a == IF k = far THEN i + cut ELSE i - n
                 b == IF l = far THEN j + cut ELSE j - n
      <4>1. /\ i \in Nat /\ a \in DOMAIN Q[from] /\ at[k][i] = f[a]
            /\ IF k = far THEN a > cut ELSE k = near /\ ~(a > cut)
        <5>1. CASE k = far
          BY <1>1, <5>1 DEF Answer
        <5>2. CASE k # far
          <6>1. k = near /\ ~(i <= n)
            BY <1>1, <3>2, <5>2
          <6>2. i \in Nat /\ i - n \in 1..cut /\ i - n \in DOMAIN Q[from]
            BY <6>1 DEF Answer
          <6>3. a = i - n /\ at[k][i] = f[i - n]
            BY <1>1, <5>2, <6>1
          <6>4. ~(i - n > cut)
            BY <6>2
          <6> QED BY <5>2, <6>1, <6>2, <6>3, <6>4
        <5> QED BY <5>1, <5>2
      <4>2. /\ j \in Nat /\ b \in DOMAIN Q[from] /\ at[l][j] = f[b]
            /\ IF l = far THEN b > cut ELSE l = near /\ ~(b > cut)
        <5>1. CASE l = far
          BY <1>1, <5>1 DEF Answer
        <5>2. CASE l # far
          <6>1. l = near /\ ~(j <= n)
            <7>1. in[l][j] = from
              BY <2>1, <3>2
            <7> QED BY <1>1, <5>2, <7>1
          <6>2. j \in Nat /\ j - n \in 1..cut /\ j - n \in DOMAIN Q[from]
            BY <6>1 DEF Answer
          <6> QED BY <1>1, <5>2, <6>1, <6>2
        <5> QED BY <5>1, <5>2
      <4>3. a = b
        <5> HIDE DEF a, b
        <5> QED BY <2>1, <4>1, <4>2
      <4>4. k = l
        <5> HIDE DEF a, b
        <5> QED BY <4>1, <4>2, <4>3
      <4> QED BY <4>1, <4>2, <4>3, <4>4
    <3> QED BY <3>1, <3>2
  <2> QED BY <1>2, <2>1 DEF Origin
<1>4. Owned(st, Q2, own) /\ Alone(Q2, gone)
  BY <1>3, LineMoves
<1>5. Current(st, Q2, gone)
  <2> SUFFICES ASSUME NEW p \in Procs \ gone, NEW k \in Queues, NEW i \in DOMAIN Q2[k],
                      Q2[k][i].proc = p
               PROVE  /\ st.status[p] > 0 /\ Q2[k][i].tb # NoTb /\ Q2[k][i].tb = st.holds[p]
                      /\ st.buffer[p] = Q2[k][i].tb \/ (k \in {1, 2} /\ Q2[k][i].ack)
    BY DEF Current
  <2> DEFINE q == in[k][i]
             h == at[k][i]
  <2>1. /\ q \in Queues /\ h \in DOMAIN Q[q] /\ Q[q][h].proc = p /\ Q2[k][i].tb = Q[q][h].tb
    BY <1>2
  <2> HIDE DEF q, h
  <2>2. /\ st.status[p] > 0 /\ Q[q][h].tb # NoTb /\ Q[q][h].tb = st.holds[p]
        /\ st.buffer[p] = Q[q][h].tb \/ (q \in {1, 2} /\ Q[q][h].ack)
    BY <2>1 DEF Current
  <2>3. q \in {1, 2} => q = k /\ Q2[k] = Q[k] /\ h = i
    <3>1. q \in {1, 2} => q # from /\ q # near /\ q # far
      OBVIOUS
    <3>2. q # from => q = k /\ h = i
      BY <1>1 DEF q, h
    <3> QED BY <3>1, <3>2
  <2> QED BY <2>1, <2>2, <2>3
<1> QED BY <1>4, <1>5

\* What is left of a queue behind its first cut messages.
LEMMA CutArithmetic ==
  ASSUME NEW cut \in Nat, NEW len \in Nat, cut <= len, NEW m, m = cut + 1
  PROVE  (IF m <= len THEN len - m + 1 ELSE 0) = len - cut
<1>1. CASE m <= len
  BY <1>1
<1>2. CASE ~(m <= len)
  <2>1. cut = len
    BY <1>2
  <2> QED BY <1>2, <2>1
<1> QED BY <1>1, <1>2

LEMMA RestOf ==
  ASSUME NEW T, NEW made \in Seq(T), NEW cut \in 0..Len(made)
  PROVE  LET b == SubSeq(made, cut + 1, Len(made))
         IN  b \in Seq(T) /\ Len(b) = Len(made) - cut /\ \A i \in 1..Len(made)-cut : b[i] = made[i + cut]
<1> DEFINE b == SubSeq(made, cut + 1, Len(made))
<1>1. Len(made) \in Nat /\ DOMAIN made = 1..Len(made) /\ cut \in Nat /\ cut <= Len(made)
  OBVIOUS
<1>2. b \in Seq(T)
  BY <1>1
<1>3. Len(b) = Len(made) - cut
  <2>1. PICK m : m = cut + 1
    OBVIOUS
  <2>2. m \in Int /\ Len(made) \in Int /\ \A i \in m .. Len(made) : made[i] \in T
    BY <1>1, <2>1
  <2>3. Len(SubSeq(made, m, Len(made))) = (IF m <= Len(made) THEN Len(made) - m + 1 ELSE 0)
    BY <2>2, SubSeqProperties
  <2>4. Len(b) = (IF m <= Len(made) THEN Len(made) - m + 1 ELSE 0)
    BY <2>1, <2>3
  <2>5. PICK len : len = Len(made)
    OBVIOUS
  <2>6. (IF m <= len THEN len - m + 1 ELSE 0) = len - cut
    BY <1>1, <2>1, <2>5, CutArithmetic
  <2> QED BY <2>4, <2>5, <2>6
<1>4. ASSUME NEW i \in 1..Len(made)-cut PROVE b[i] = made[i + cut]
  <2>1. i \in 1 .. Len(made) - (cut + 1) + 1 /\ (cut + 1) + i - 1 = i + cut
    BY <1>1
  <2>2. b[i] = made[(cut + 1) + i - 1]
    BY <1>1, <2>1
  <2> QED BY <2>1, <2>2
<1> QED BY <1>2, <1>3, <1>4

\* A queue that is cut in two, of which the first part joins the queue s.
LEMMA CutInTwo ==
  ASSUME NEW T, NEW s \in Seq(T), NEW made \in Seq(T), NEW cut \in 0..Len(made),
         NEW near, near = s \o SubSeq(made, 1, cut),
         NEW far, far = SubSeq(made, cut + 1, Len(made))
  PROVE  /\ near \in Seq(T) /\ far \in Seq(T)
         /\ \A i \in DOMAIN near :
              /\ i \in Nat
              /\ IF i <= Len(s) THEN i \in DOMAIN s /\ near[i] = s[i]
                 ELSE /\ i - Len(s) \in 1..cut /\ i - Len(s) \in DOMAIN made
                      /\ near[i] = made[i - Len(s)]
         /\ \A i \in DOMAIN far : /\ i \in Nat /\ i >= 1 /\ i + cut \in DOMAIN made
                                  /\ far[i] = made[i + cut]
<1> DEFINE a == SubSeq(made, 1, cut)
           b == SubSeq(made, cut + 1, Len(made))
<1>1. Len(made) \in Nat /\ DOMAIN made = 1..Len(made) /\ Len(s) \in Nat /\ cut \in Nat
  OBVIOUS
<1>2. a \in Seq(T) /\ Len(a) = cut /\ \A i \in 1..cut : a[i] = made[i]
  BY <1>1
<1>3. b \in Seq(T) /\ Len(b) = Len(made) - cut /\ \A i \in 1..Len(made)-cut : b[i] = made[i + cut]
  BY RestOf
<1> HIDE DEF a, b
<1>4. ASSUME NEW i \in DOMAIN (s \o a)
      PROVE  /\ i \in Nat
             /\ IF i <= Len(s) THEN i \in DOMAIN s /\ (s \o a)[i] = s[i]
                ELSE /\ i - Len(s) \in 1..cut /\ i - Len(s) \in DOMAIN made
                     /\ (s \o a)[i] = made[i - Len(s)]
  <2>1. /\ i \in Nat
        /\ IF i <= Len(s) THEN i \in DOMAIN s /\ (s \o a)[i] = s[i]
           ELSE i - Len(s) \in 1..Len(a) /\ (s \o a)[i] = a[i - Len(s)]
    BY <1>2
  <2> QED BY <1>1, <1>2, <2>1
<1>5. ASSUME NEW i \in DOMAIN b
      PROVE  i \in Nat /\ i >= 1 /\ i + cut \in DOMAIN made /\ b[i] = made[i + cut]
  <2>1. i \in 1..Len(made)-cut
    BY <1>3
  <2>2. i \in Nat /\ i >= 1 /\ i + cut \in 1..Len(made)
    BY <1>1, <2>1
  <2> QED BY <1>1, <1>3, <2>1, <2>2
<1>6. s \o a \in Seq(T)
  BY <1>2
<1>7. near = s \o a /\ far = b
  BY DEF a, b
<1> QED BY <1>3, <1>4, <1>5, <1>6, <1>7

LEMMA ReceiveStep == Inv /\ Receive => Inv' /\ sent' = sent
<1> SUFFICES ASSUME Inv, Receive PROVE Inv' /\ sent' = sent
  OBVIOUS
<1>1. TypeOK /\ ~failed
  BY DEF Inv
<1>2. PICK own \in [Tbs -> Procs] : Sound(Now, Line, expired, sent, acked, own)
  BY DEF Inv
<1> DEFINE now == air[1]
<1>3. now = air[1]
  OBVIOUS
<1>4. PICK order \in Orders(now), good \in SUBSET DOMAIN now, cut \in 0..Len(now) :
        LET made == [i \in DOMAIN now |->
                       [proc |-> now[order[i]].proc, tb |-> now[order[i]].tb,
                        ack |-> order[i] \in good]]
        IN  answers' = [answers EXCEPT
                          ![AnswerDelay] = @ \o SubSeq(made, 1, cut),
                          ![AnswerDelay+1] = SubSeq(made, cut + 1, Len(now))]
  BY Zenon DEF Receive
<1> HIDE DEF now
<1>5. PICK made : made = [i \in DOMAIN now |->
                            [proc |-> now[order[i]].proc, tb |-> now[order[i]].tb,
                             ack |-> order[i] \in good]]
  OBVIOUS
<1>6. /\ air' = [air EXCEPT ![1] = <<>>] /\ phase' = "control"
      /\ status' = status /\ rv' = rv /\ numSym' = numSym /\ timer' = timer
      /\ kept' = kept /\ failed' = failed /\ nTbs' = nTbs /\ holds' = holds
      /\ expired' = expired /\ buffer' = buffer /\ received' = received
      /\ acked' = acked /\ sent' = sent
  BY DEF Receive, schedVars, macVars
<1>7. /\ AnswerDelay \in Nat /\ AnswerDelay >= 1 /\ LookAhead \in Nat
      /\ 1 \in 1..LookAhead+1 /\ AnswerDelay \in 1..AnswerDelay+1
      /\ AnswerDelay + 1 \in 1..AnswerDelay+1 /\ AnswerDelay # AnswerDelay + 1
  BY HarqAssumption
<1>8. now \in Seq(Blocks) /\ DOMAIN now = 1..Len(now) /\ Len(now) \in Nat
  <2>1. now \in Seq(Blocks)
    BY <1>1, <1>3, <1>7 DEF TypeOK
  <2> QED BY <2>1
<1>9. /\ \A i \in DOMAIN now : order[i] \in DOMAIN now
      /\ \A i, j \in DOMAIN now : order[i] = order[j] => i = j
  <2>1. order \in Injection(DOMAIN now, DOMAIN now)
    BY <1>4 DEF Orders, Bijection
  <2> QED BY <2>1 DEF Injection, IsInjective
<1>10. /\ made \in Seq(Answers) /\ Len(made) = Len(now) /\ DOMAIN made = DOMAIN now
       /\ \A i \in DOMAIN now : Answer(made[i], now, order, i)
  <2>1. ASSUME NEW i \in 1..Len(now)
        PROVE  made[i] \in Answers /\ Answer(made[i], now, order, i)
    <3>1. order[i] \in DOMAIN now /\ now[order[i]] \in Blocks
      BY <1>8, <1>9
    <3>2. made[i] = [proc |-> now[order[i]].proc, tb |-> now[order[i]].tb,
                     ack |-> order[i] \in good]
      BY <1>5, <1>8
    <3> QED BY <1>8, <3>1, <3>2 DEF Blocks, Answers, Answer
  <2>2. made = [i \in 1..Len(now) |-> made[i]]
    BY <1>5, <1>8
  <2>3. [i \in 1..Len(now) |-> made[i]] \in Seq(Answers)
    BY <1>8, <2>1
  <2>4. made \in Seq(Answers) /\ Len(made) = Len(now) /\ DOMAIN made = 1..Len(now)
    BY <1>8, <2>2, <2>3
  <2> QED BY <1>8, <2>1, <2>4
<1>11. PICK old : old = answers[AnswerDelay] /\ old \in Seq(Answers)
  <2>1. answers[AnswerDelay] \in Seq(Answers)
    BY <1>1, <1>7 DEF TypeOK
  <2> QED BY <2>1
<1> DEFINE near == old \o SubSeq(made, 1, cut)
           far  == SubSeq(made, cut + 1, Len(made))
<1>12. answers' = [answers EXCEPT ![AnswerDelay] = near, ![AnswerDelay+1] = far]
  <2>1. answers' = [answers EXCEPT
                      ![AnswerDelay] = answers[AnswerDelay] \o SubSeq(made, 1, cut),
                      ![AnswerDelay+1] = SubSeq(made, cut + 1, Len(now))]
    BY <1>4, <1>5, Zenon
  <2> QED BY <1>10, <1>11, <2>1, Zenon
<1>13. /\ cut \in Nat /\ cut \in 0..Len(made)
       /\ near = old \o SubSeq(made, 1, cut) /\ far = SubSeq(made, cut + 1, Len(made))
  BY <1>8, <1>10
<1> HIDE DEF near, far
<1>14. /\ near \in Seq(Answers) /\ far \in Seq(Answers)
       /\ \A i \in DOMAIN near :
            /\ i \in Nat
            /\ IF i <= Len(old) THEN i \in DOMAIN old /\ near[i] = old[i]
               ELSE /\ i - Len(old) \in 1..cut /\ i - Len(old) \in DOMAIN made
                    /\ near[i] = made[i - Len(old)]
       /\ \A i \in DOMAIN far : /\ i \in Nat /\ i >= 1 /\ i + cut \in DOMAIN made
                                /\ far[i] = made[i + cut]
  <2>1. made \in Seq(Answers) /\ old \in Seq(Answers)
    BY <1>10, <1>11
  <2> QED BY <1>13, <2>1, CutInTwo
<1>15. TypeOK'
  <2>1. answers' \in [1..AnswerDelay+1 -> Seq(Answers)]
    BY <1>1, <1>12, <1>14 DEF TypeOK
  <2>2. air' \in [1..LookAhead+1 -> Seq(Blocks)]
    <3>1. <<>> \in Seq(Blocks) /\ air \in [1..LookAhead+1 -> Seq(Blocks)]
      BY <1>1 DEF TypeOK
    <3> QED BY <1>6, <3>1
  <2> QED BY <1>1, <1>6, <2>1, <2>2 DEF TypeOK
<1> DEFINE kn == AnswerDelay + 2
           kf == AnswerDelay + 3
           kr == AnswerDelay + 4
<1>16. /\ kn \in Queues /\ kf \in Queues /\ kr \in Queues /\ kn > 2 /\ kf > 2 /\ kr > 2
       /\ kn # kf /\ kn # kr /\ kf # kr
       /\ kn \in 3..AnswerDelay+3 /\ kf \in 3..AnswerDelay+3 /\ kr \in AnswerDelay+4..Last
       /\ kn - 2 = AnswerDelay /\ kf - 2 = AnswerDelay + 1 /\ kr - (AnswerDelay + 3) = 1
  BY <1>7 DEF Queues, Last
<1> HIDE DEF kn, kf, kr
<1>17. /\ Line[kn] = old /\ Line'[kn] = near /\ Line'[kf] = far
       /\ Line[kr] = now /\ Line'[kr] = <<>>
  <2>1. /\ Line[kn] = answers[AnswerDelay] /\ Line'[kn] = answers'[AnswerDelay]
        /\ Line'[kf] = answers'[AnswerDelay + 1]
        /\ Line[kr] = air[1] /\ Line'[kr] = air'[1]
    BY <1>16, LineIs, LineWillBe
  <2>2. /\ answers'[AnswerDelay] = near /\ answers'[AnswerDelay + 1] = far /\ air'[1] = <<>>
    BY <1>1, <1>6, <1>7, <1>12 DEF TypeOK
  <2> QED BY <1>3, <1>11, <2>1, <2>2
<1>18. \A k \in Queues : k \notin {kn, kf, kr} => Line'[k] = Line[k]
  <2> SUFFICES ASSUME NEW k \in Queues, k \notin {kn, kf, kr}
               PROVE  Line'[k] = Line[k]
    OBVIOUS
  <2>1. CASE k = 1 \/ k = 2
    BY <1>6, <2>1, LineIs, LineWillBe
  <2>2. CASE k \in 3..AnswerDelay+3
    <3>1. /\ Line[k] = answers[k - 2] /\ Line'[k] = answers'[k - 2] /\ k - 2 \in 1..AnswerDelay+1
      BY <2>2, LineIs, LineWillBe
    <3>2. k - 2 # AnswerDelay /\ k - 2 # AnswerDelay + 1
      BY <1>7, <2>2 DEF kn, kf
    <3>3. answers'[k - 2] = answers[k - 2]
      BY <1>1, <1>12, <3>1, <3>2 DEF TypeOK
    <3> QED BY <3>1, <3>3
  <2>3. CASE k \in AnswerDelay+4..Last
    <3>1. /\ Line[k] = air[k - (AnswerDelay + 3)] /\ Line'[k] = air'[k - (AnswerDelay + 3)]
          /\ k - (AnswerDelay + 3) \in 1..LookAhead+1
      BY <2>3, LineIs, LineWillBe
    <3>2. k - (AnswerDelay + 3) # 1
      BY <1>7, <2>3 DEF kr
    <3>3. air'[k - (AnswerDelay + 3)] = air[k - (AnswerDelay + 3)]
      BY <1>1, <1>6, <3>1, <3>2 DEF TypeOK
    <3> QED BY <3>1, <3>3
  <2> QED BY <2>1, <2>2, <2>3, LineIs
<1>19. Owned(Now, Line', own) /\ Alone(Line', expired) /\ Current(Now, Line', expired)
  <2>1. Len(old) \in Nat
    BY <1>11
  <2>2. Owned(Now, Line, own) /\ Alone(Line, expired) /\ Current(Now, Line, expired)
    BY <1>2 DEF Sound
  <2>3. \A i \in DOMAIN Line'[kn] :
          /\ i \in Nat
          /\ IF i <= Len(old) THEN i \in DOMAIN Line[kn] /\ Line'[kn][i] = Line[kn][i]
             ELSE i - Len(old) \in 1..cut /\ Answer(Line'[kn][i], Line[kr], order, i - Len(old))
    BY <1>10, <1>14, <1>17
  <2>4. \A i \in DOMAIN Line'[kf] :
          i \in Nat /\ i >= 1 /\ Answer(Line'[kf][i], Line[kr], order, i + cut)
    BY <1>10, <1>14, <1>17
  <2>5. DOMAIN Line'[kr] = {} /\ \A i, j \in DOMAIN Line[kr] : order[i] = order[j] => i = j
    BY <1>9, <1>17
  <2>6. Making(Line, Line', kn, kf, kr, Len(old), cut, order)
    BY <1>13, <1>16, <1>18, <2>1, <2>3, <2>4, <2>5 DEF Making
  <2> QED BY <2>2, <2>6, AnswersAreMade
<1>20. Sound(Now, Line', expired, sent, acked, own)
  BY <1>2, <1>19 DEF Sound
<1>21. Now' = Now
  BY <1>6 DEF Now
<1> QED BY <1>1, <1>2, <1>6, <1>15, <1>20, <1>21 DEF Inv


\* n queues of S elements, of which each takes the place of the one before.
MovedUp(g, f, n, S) ==
    /\ g \in [1..n -> Seq(S)]
    /\ \A i \in 1..n : IF i = n THEN g[i] = <<>> ELSE i + 1 \in 1..n /\ g[i] = f[i + 1]

LEMMA QueueMoves ==
  ASSUME NEW T, NEW n \in Nat \ {0}, NEW f \in [1..n -> Seq(T)]
  PROVE  MovedUp(Append(Tail(f), <<>>), f, n, T)
<1>1. f \in Seq(Seq(T)) /\ Len(f) = n
  BY LenProperties
<1>2. /\ Tail(f) \in Seq(Seq(T)) /\ Len(Tail(f)) = n - 1
      /\ \A i \in 1..n-1 : Tail(f)[i] = f[i + 1]
  BY <1>1
<1>3. <<>> \in Seq(T)
  OBVIOUS
<1> DEFINE g == Append(Tail(f), <<>>)
<1>4. /\ g \in Seq(Seq(T)) /\ Len(g) = n /\ g[n] = <<>>
      /\ \A i \in 1..n-1 : g[i] = f[i + 1]
  BY <1>2, <1>3
<1> HIDE DEF g
<1>5. g \in [1..n -> Seq(T)]
  BY <1>4
<1>6. ASSUME NEW i \in 1..n, i # n PROVE i + 1 \in 1..n /\ i \in 1..n-1
  BY <1>6
<1>7. MovedUp(g, f, n, T)
  BY <1>4, <1>5, <1>6 DEF MovedUp
<1> QED BY <1>7 DEF g

\* Queue Q holds an ACK of process p.
HasAck(q, p) == \E i \in DOMAIN q : q[i].ack /\ q[i].proc = p

\* The UL control symbol: queue 3 joins queue 2, the others move up, and the MAC
\* drops the packets of each process queue 3 has an ACK of.
Arrives(st, st2, Q, Q2) ==
    /\ Q2[1] = Q[1] /\ Q[2] \in Seq(Answers) /\ Q[3] \in Seq(Answers) /\ Q2[2] = Q[2] \o Q[3]
    /\ \A k \in Queues \ {1, 2} :
         DOMAIN Q2[k] = {} \/ (k + 1 \in Queues \ {1, 2, 3} /\ Q2[k] = Q[k + 1])
    /\ st2.status = st.status /\ st2.rv = st.rv /\ st2.holds = st.holds /\ st2.nTbs = st.nTbs
    /\ \A p \in Procs : st2.buffer[p] = IF HasAck(Q[3], p) THEN NoTb ELSE st.buffer[p]

LEMMA AnswersArrive ==
  ASSUME NEW st, NEW st2, NEW Q, NEW Q2, NEW gone, NEW times, NEW done, NEW done2, NEW own,
         Sound(st, Q, gone, times, done, own), Arrives(st, st2, Q, Q2),
         done \subseteq Tbs, 3 \in Queues,
         \A t \in done2 \ done : t # NoTb /\ \E i \in DOMAIN Q[3] : Q[3][i].ack /\ Q[3][i].tb = t
  PROVE  Sound(st2, Q2, gone, times, done2, own)
<1> DEFINE n == Len(Q[2])
           in == [k \in Queues |-> [i \in DOMAIN Q2[k] |->
                    IF k = 1 THEN 1 ELSE IF k = 2 THEN (IF i <= n THEN 2 ELSE 3) ELSE k + 1]]
           at == [k \in Queues |-> [i \in DOMAIN Q2[k] |->
                    IF k = 2 /\ ~(i <= n) THEN i - n ELSE i]]
<1>1. ASSUME NEW k \in Queues, NEW i \in DOMAIN Q2[k]
      PROVE  /\ in[k][i] = IF k = 1 THEN 1 ELSE IF k = 2 THEN (IF i <= n THEN 2 ELSE 3) ELSE k + 1
             /\ at[k][i] = IF k = 2 /\ ~(i <= n) THEN i - n ELSE i
  OBVIOUS
<1> HIDE DEF in, at
<1>2. /\ n \in Nat /\ \A i \in DOMAIN Q2[2] : i \in Nat
      /\ \A i \in DOMAIN Q2[2] : IF i <= n THEN i \in DOMAIN Q[2] /\ Q2[2][i] = Q[2][i]
                                 ELSE i - n \in DOMAIN Q[3] /\ Q2[2][i] = Q[3][i - n]
  <2>1. Q[2] \in Seq(Answers) /\ Q[3] \in Seq(Answers) /\ Q2[2] = Q[2] \o Q[3]
    BY DEF Arrives
  <2>2. ASSUME NEW s \in Seq(Answers), NEW t \in Seq(Answers)
        PROVE  /\ Len(s) \in Nat /\ \A i \in DOMAIN (s \o t) : i \in Nat
               /\ \A i \in DOMAIN (s \o t) :
                    IF i <= Len(s) THEN i \in DOMAIN s /\ (s \o t)[i] = s[i]
                    ELSE i - Len(s) \in DOMAIN t /\ (s \o t)[i] = t[i - Len(s)]
    OBVIOUS
  <2> DEFINE s == Q[2]
             t == Q[3]
  <2> HIDE DEF s, t
  <2>3. s \in Seq(Answers) /\ t \in Seq(Answers) /\ Q2[2] = s \o t /\ n = Len(s)
    BY <2>1 DEF s, t
  <2>4. /\ n \in Nat /\ \A i \in DOMAIN Q2[2] : i \in Nat
        /\ \A i \in DOMAIN Q2[2] : IF i <= n THEN i \in DOMAIN s /\ Q2[2][i] = s[i]
                                   ELSE i - n \in DOMAIN t /\ Q2[2][i] = t[i - n]
    BY <2>2, <2>3
  <2> QED BY <2>4 DEF s, t
<1> HIDE DEF n
<1>3. 1 \in Queues /\ 2 \in Queues /\ Queues \subseteq Nat
  BY Ends DEF Queues
<1>4. ASSUME NEW k \in Queues, NEW i \in DOMAIN Q2[k]
      PROVE  /\ in[k][i] \in Queues /\ at[k][i] \in DOMAIN Q[in[k][i]]
             /\ Q2[k][i] = Q[in[k][i]][at[k][i]]
             /\ k \in {1, 2} <=> in[k][i] \in {1, 2, 3}
  <2>1. CASE k = 1
    BY <1>1, <1>3, <2>1 DEF Arrives
  <2>2. CASE k = 2
    BY <1>1, <1>2, <1>3, <2>2
  <2>3. CASE k # 1 /\ k # 2
    <3>1. k + 1 \in Queues \ {1, 2, 3} /\ Q2[k] = Q[k + 1]
      BY <2>3 DEF Arrives
    <3> QED BY <1>1, <2>3, <3>1
  <2> QED BY <2>1, <2>2, <2>3
<1>5. Origin(Q2, Q, in, at)
  <2>1. ASSUME NEW k \in Queues, NEW l \in Queues, NEW i \in DOMAIN Q2[k], NEW j \in DOMAIN Q2[l],
               in[k][i] = in[l][j], at[k][i] = at[l][j]
        PROVE  k = l /\ i = j
    <3>1. k \in {1, 2} <=> l \in {1, 2}
      BY <1>4, <2>1
    <3>2. CASE k # 1 /\ k # 2
      BY <1>1, <1>3, <2>1, <3>1, <3>2
    <3>3. CASE k = 1
      BY <1>1, <1>3, <2>1, <3>1, <3>3
    <3>4. CASE k = 2
      <4>1. l = 2
        BY <1>1, <2>1, <3>1, <3>4
      <4>2. i \in Nat /\ j \in Nat /\ n \in Nat
        BY <1>2, <3>4, <4>1
      <4>3. (i <= n) <=> (j <= n)
        BY <1>1, <2>1, <3>4, <4>1
      <4> QED BY <1>1, <2>1, <3>4, <4>1, <4>2, <4>3
    <3> QED BY <3>2, <3>3, <3>4
  <2> QED BY <1>4, <2>1 DEF Origin
<1>6. Owned(st, Q2, own) /\ Alone(Q2, gone)
  BY <1>5, LineMoves DEF Sound
<1>7. ASSUME NEW p \in Procs
      PROVE  st2.buffer[p] = NoTb \/ (st2.buffer[p] = st.buffer[p] /\ ~HasAck(Q[3], p))
  BY DEF Arrives
<1>8. Owned(st2, Q2, own)
  BY <1>6, <1>7 DEF Owned, Arrives
<1>9. StatusIsRv(st2) /\ TakenInTurn(st2)
  BY DEF Sound, StatusIsRv, TakenInTurn, Arrives
<1>10. Counted(st2, times)
  BY <1>7 DEF Sound, Counted, Arrives
<1>11. Discarded(st2, done2)
  <2> SUFFICES ASSUME NEW t \in done2 PROVE t <= st2.nTbs /\ \A p \in Procs : st2.buffer[p] # t
    BY DEF Discarded
  <2>1. CASE t \in done
    <3>1. t # NoTb
      BY <2>1 DEF Tbs, NoTb
    <3> QED BY <1>7, <2>1, <3>1 DEF Sound, Discarded, Arrives
  <2>2. CASE t \notin done
    <3>1. PICK i \in DOMAIN Q[3] : Q[3][i].ack /\ Q[3][i].tb = t
      BY <2>2
    <3>2. t # NoTb
      BY <2>2
    <3>3. Q[3][i].proc \in Procs /\ t \in Tbs /\ t <= st.nTbs /\ own[t] = Q[3][i].proc
      BY <3>1, <3>2 DEF Sound, Owned
    <3>4. ASSUME NEW p \in Procs, st2.buffer[p] = t PROVE FALSE
      <4>1. st.buffer[p] = t /\ ~HasAck(Q[3], p)
        BY <1>7, <3>2, <3>4
      <4>2. own[t] = p
        BY <3>2, <4>1 DEF Sound, Owned
      <4> QED BY <3>1, <3>3, <4>1, <4>2 DEF HasAck
    <3> QED BY <3>3, <3>4 DEF Arrives
  <2> QED BY <2>1, <2>2
<1>12. Current(st2, Q2, gone)
  <2> SUFFICES ASSUME NEW p \in Procs \ gone, NEW k \in Queues, NEW i \in DOMAIN Q2[k],
                      Q2[k][i].proc = p
               PROVE  /\ st2.status[p] > 0 /\ Q2[k][i].tb # NoTb /\ Q2[k][i].tb = st2.holds[p]
                      /\ st2.buffer[p] = Q2[k][i].tb \/ (k \in {1, 2} /\ Q2[k][i].ack)
    BY DEF Current
  <2>1. PICK l, j : /\ l \in Queues /\ j \in DOMAIN Q[l] /\ Q2[k][i] = Q[l][j]
                    /\ k \in {1, 2} <=> l \in {1, 2, 3}
    BY <1>4
  <2>2. /\ st.status[p] > 0 /\ Q[l][j].tb # NoTb /\ Q[l][j].tb = st.holds[p]
        /\ st.buffer[p] = Q[l][j].tb \/ (l \in {1, 2} /\ Q[l][j].ack)
    BY <2>1 DEF Sound, Current
  <2>3. CASE HasAck(Q[3], p)
    <3>1. PICK h \in DOMAIN Q[3] : Q[3][h].ack /\ Q[3][h].proc = p
      BY <2>3 DEF HasAck
    <3>2. l = 3 /\ j = h
      BY <2>1, <3>1 DEF Sound, Alone
    <3> QED BY <2>1, <2>2, <3>1, <3>2 DEF Arrives
  <2>4. CASE ~HasAck(Q[3], p)
    <3>1. st2.buffer[p] = st.buffer[p]
      BY <2>4 DEF Arrives
    <3> QED BY <2>1, <2>2, <3>1 DEF Arrives
  <2> QED BY <2>3, <2>4
<1> QED BY <1>6, <1>8, <1>9, <1>10, <1>11, <1>12 DEF Sound

LEMMA ControlStep == Inv /\ Control => Inv' /\ sent' = sent
<1> SUFFICES ASSUME Inv, Control PROVE Inv' /\ sent' = sent
  OBVIOUS
<1>1. TypeOK /\ ~failed
  BY DEF Inv
<1>2. PICK own \in [Tbs -> Procs] : Sound(Now, Line, expired, sent, acked, own)
  BY DEF Inv
<1>3. /\ buffer' = Unacked(answers[1]) /\ received' = received \o answers[1]
      /\ acked' = acked \cup ({h.tb : h \in AckedIn(answers[1])} \ {NoTb})
      /\ answers' = Append(Tail(answers), <<>>) /\ air' = Append(Tail(air), <<>>)
      /\ phase' = "schedule"
      /\ status' = status /\ rv' = rv /\ numSym' = numSym /\ timer' = timer
      /\ kept' = kept /\ failed' = failed /\ nTbs' = nTbs /\ holds' = holds
      /\ expired' = expired /\ sent' = sent
  BY DEF Control, schedVars
<1>4. /\ AnswerDelay \in Nat /\ AnswerDelay >= 1 /\ LookAhead \in Nat
      /\ 1 \in 1..AnswerDelay+1
  BY HarqAssumption
<1>5. answers[1] \in Seq(Answers) /\ received \in Seq(Answers) /\ kept \in Seq(Answers)
  BY <1>1, <1>4 DEF TypeOK
<1>6. /\ answers' \in [1..AnswerDelay+1 -> Seq(Answers)]
      /\ \A i \in 1..AnswerDelay+1 : IF i = AnswerDelay+1 THEN answers'[i] = <<>>
                                     ELSE i + 1 \in 1..AnswerDelay+1 /\ answers'[i] = answers[i + 1]
  <2>1. AnswerDelay + 1 \in Nat \ {0} /\ answers \in [1..AnswerDelay+1 -> Seq(Answers)]
    BY <1>1, <1>4 DEF TypeOK
  <2>2. MovedUp(Append(Tail(answers), <<>>), answers, AnswerDelay+1, Answers)
    BY <2>1, QueueMoves
  <2>3. MovedUp(answers', answers, AnswerDelay+1, Answers)
    BY <1>3, <2>2
  <2> QED BY <2>3 DEF MovedUp
<1>7. /\ air' \in [1..LookAhead+1 -> Seq(Blocks)]
      /\ \A i \in 1..LookAhead+1 : IF i = LookAhead+1 THEN air'[i] = <<>>
                                   ELSE i + 1 \in 1..LookAhead+1 /\ air'[i] = air[i + 1]
  <2>1. LookAhead + 1 \in Nat \ {0} /\ air \in [1..LookAhead+1 -> Seq(Blocks)]
    BY <1>1, <1>4 DEF TypeOK
  <2>2. MovedUp(Append(Tail(air), <<>>), air, LookAhead+1, Blocks)
    BY <2>1, QueueMoves
  <2>3. MovedUp(air', air, LookAhead+1, Blocks)
    BY <1>3, <2>2
  <2> QED BY <2>3 DEF MovedUp
<1>8. \A p \in Procs : buffer'[p] = IF HasAck(answers[1], p) THEN NoTb ELSE buffer[p]
  BY <1>3 DEF Unacked, AckedIn, HasAck
<1>9. \A t \in acked' \ acked :
        t # NoTb /\ \E i \in DOMAIN answers[1] : answers[1][i].ack /\ answers[1][i].tb = t
  BY <1>3 DEF AckedIn
<1>10. TypeOK'
  <2>1. buffer' \in [Procs -> Tbs \cup {NoTb}]
    BY <1>1, <1>3 DEF TypeOK, Unacked
  <2>2. acked' \subseteq Tbs
    <3>1. ASSUME NEW i \in DOMAIN answers[1] PROVE answers[1][i].tb \in Tbs \cup {NoTb}
      <4>1. answers[1][i] \in Answers
        BY <1>5
      <4> QED BY <4>1 DEF Answers
    <3>2. acked \subseteq Tbs
      BY <1>1 DEF TypeOK
    <3> QED BY <1>9, <3>1, <3>2
  <2>3. received' \in Seq(Answers)
    BY <1>3, <1>5
  <2> QED BY <1>1, <1>3, <1>6, <1>7, <2>1, <2>2, <2>3 DEF TypeOK
<1>11. 3 \in Queues /\ Line[1] = kept /\ Line[2] = received /\ Line[3] = answers[1]
  <2>1. 3 \in Queues /\ 3 \in 3..AnswerDelay+3 /\ 3 - 2 = 1
    BY <1>4 DEF Queues
  <2> QED BY <2>1, Ends, LineIs
<1>12. ASSUME NEW k \in Queues \ {1, 2}
       PROVE  DOMAIN Line'[k] = {} \/ (k + 1 \in Queues \ {1, 2, 3} /\ Line'[k] = Line[k + 1])
  <2>1. k \in Nat /\ k >= 3 /\ k <= Last
    BY DEF Queues, Last
  <2>2. CASE k \in 3..AnswerDelay+3
    <3>1. Line'[k] = answers'[k - 2] /\ k - 2 \in 1..AnswerDelay+1
      BY <2>2, LineIs, LineWillBe
    <3>2. CASE k - 2 = AnswerDelay + 1
      BY <1>6, <3>1, <3>2
    <3>3. CASE k - 2 # AnswerDelay + 1
      <4>1. /\ k + 1 \in 3..AnswerDelay+3 /\ k + 1 \in Queues \ {1, 2, 3}
            /\ (k - 2) + 1 = (k + 1) - 2
        BY <1>4, <2>1, <2>2, <3>3 DEF Queues
      <4>2. answers'[k - 2] = answers[(k - 2) + 1]
        BY <1>6, <3>1, <3>3
      <4>3. Line[k + 1] = answers[(k + 1) - 2]
        BY <4>1, LineIs
      <4> QED BY <3>1, <4>1, <4>2, <4>3
    <3> QED BY <3>2, <3>3
  <2>3. CASE k \in AnswerDelay+4..Last
    <3> DEFINE i == k - (AnswerDelay + 3)
    <3>1. Line'[k] = air'[i] /\ i \in 1..LookAhead+1
      BY <2>3, LineIs, LineWillBe
    <3>2. CASE i = LookAhead + 1
      BY <1>7, <3>1, <3>2
    <3>3. CASE i # LookAhead + 1
      <4>1. /\ k + 1 \in AnswerDelay+4..Last /\ k + 1 \in Queues \ {1, 2, 3}
            /\ i + 1 = (k + 1) - (AnswerDelay + 3)
        BY <1>4, <2>1, <2>3, <3>1, <3>3 DEF Queues, Last
      <4>2. air'[i] = air[i + 1]
        BY <1>7, <3>1, <3>3
      <4>3. Line[k + 1] = air[(k + 1) - (AnswerDelay + 3)]
        BY <4>1, LineIs
      <4> QED BY <3>1, <4>1, <4>2, <4>3
    <3> QED BY <3>2, <3>3
  <2> QED BY <2>2, <2>3, LineIs
<1>13. Arrives(Now, Now', Line, Line')
  <2>1. Line'[1] = kept' /\ Line'[2] = received'
    BY Ends, LineWillBe
  <2>2. /\ Now'.status = Now.status /\ Now'.rv = Now.rv /\ Now'.holds = Now.holds
        /\ Now'.nTbs = Now.nTbs /\ Now'.buffer = buffer' /\ Now.buffer = buffer
    BY <1>3 DEF Now
  <2> QED BY <1>3, <1>5, <1>8, <1>11, <1>12, <2>1, <2>2 DEF Arrives
<1>14. Sound(Now', Line', expired, sent, acked', own)
  <2>1. acked \subseteq Tbs
    BY <1>1 DEF TypeOK
  <2> QED BY <1>2, <1>9, <1>11, <1>13, <2>1, AnswersArrive
<1> QED BY <1>1, <1>2, <1>3, <1>10, <1>14 DEF Inv


LEMMA StutterStep == Inv /\ UNCHANGED vars => Inv' /\ sent' = sent
<1> SUFFICES ASSUME Inv, UNCHANGED vars PROVE Inv' /\ sent' = sent
  OBVIOUS
<1>1. /\ phase' = phase /\ status' = status /\ rv' = rv /\ numSym' = numSym /\ timer' = timer
      /\ kept' = kept /\ failed' = failed /\ nTbs' = nTbs /\ holds' = holds
      /\ expired' = expired /\ buffer' = buffer /\ received' = received
      /\ acked' = acked /\ air' = air /\ answers' = answers /\ sent' = sent
  BY DEF vars, schedVars, macVars, radioVars
<1>2. TypeOK'
  BY <1>1 DEF Inv, TypeOK
<1>3. Now' = Now /\ Line' = Line
  BY <1>1, LineNow DEF Now
<1> QED BY <1>1, <1>2, <1>3 DEF Inv

\* Inv is inductive, and no step sends an acknowledged block.
LEMMA InvStep == Inv /\ [Next]_vars => Inv' /\ \A t \in acked : sent'[t] = sent[t]
<1> SUFFICES ASSUME Inv, [Next]_vars PROVE Inv' /\ \A t \in acked : sent'[t] = sent[t]
  OBVIOUS
<1>1. CASE Schedule
  BY <1>1, ScheduleStep
<1>2. CASE Receive
  BY <1>2, ReceiveStep
<1>3. CASE Control
  BY <1>3, ControlStep
<1>4. CASE UNCHANGED vars
  BY <1>4, StutterStep
<1> QED BY <1>1, <1>2, <1>3, <1>4 DEF Next

LEMMA InvHolds == Spec => []Inv
<1>1. Inv /\ [Next]_vars => Inv'
  BY InvStep
<1> QED BY <1>1, InitInv, PTL DEF Spec

-----------------------------------------------------------------------------
(***************************************************************************)
(* The theorems.                                                           *)
(***************************************************************************)
\* The status of a process, its redundancy version and its timer stay within
\* what the scheduler's tables allow (m_dlHarqProcessesStatus, HarqDlTimeout), and
\* every block and answer under way names a process and a block that exist.
THEOREM TypeCorrect == Spec => []TypeOK
<1>1. Inv => TypeOK
  BY DEF Inv
<1> QED BY <1>1, InvHolds, PTL

\* NS_ASSERT (harqStatus - 1 == rv) of DoSchedTriggerReq never stops the program:
\* a NACK for a process in use finds the status one above the redundancy version,
\* in whatever order timeouts, lost slots and late answers come.
THEOREM AssertionHolds == Spec => []NoAssertionFails
<1>1. Inv => NoAssertionFails
  BY DEF Inv, NoAssertionFails
<1> QED BY <1>1, InvHolds, PTL

\* Until its timer ends a block, a process has one message under way at most, and
\* DoDlHarqFeedback and DoSchedTriggerReq apply it to the block it is about.
THEOREM ProcessesStopAndWait == Spec => []StopAndWait
<1>1. Inv => StopAndWait
  <2> SUFFICES ASSUME Inv, NEW p \in Procs \ expired, NEW u \in Underway(p), NEW v \in Underway(p)
               PROVE  /\ u = v /\ status[p] > 0
                      /\ holds[p] # NoTb /\ Queue(u[1])[u[2]].tb = holds[p]
    BY DEF StopAndWait
  <2>1. PICK own : Sound(Now, Line, expired, sent, acked, own)
    BY DEF Inv
  <2>2. ASSUME NEW w \in Underway(p)
        PROVE  \E k \in Queues : \E i \in DOMAIN Line[k] : w = <<k, i>> /\ Line[k][i].proc = p
    <3>1. PICK k \in Queues : w \in {<<k, i>> : i \in {j \in DOMAIN Queue(k) : Queue(k)[j].proc = p}}
      BY DEF Underway
    <3>2. PICK i \in DOMAIN Queue(k) : w = <<k, i>> /\ Queue(k)[i].proc = p
      BY <3>1
    <3>3. Line[k] = Queue(k)
      BY DEF Line
    <3> QED BY <3>2, <3>3
  <2>3. PICK k \in Queues : \E i \in DOMAIN Line[k] : u = <<k, i>> /\ Line[k][i].proc = p
    BY <2>2
  <2>4. PICK l \in Queues : \E j \in DOMAIN Line[l] : v = <<l, j>> /\ Line[l][j].proc = p
    BY <2>2
  <2>5. PICK i \in DOMAIN Line[k] : u = <<k, i>> /\ Line[k][i].proc = p
    BY <2>3
  <2>6. PICK j \in DOMAIN Line[l] : v = <<l, j>> /\ Line[l][j].proc = p
    BY <2>4
  <2>7. k = l /\ i = j
    BY <2>1, <2>5, <2>6 DEF Sound, Alone
  <2>8. Now.status[p] > 0 /\ Line[k][i].tb # NoTb /\ Line[k][i].tb = Now.holds[p]
    BY <2>1, <2>5 DEF Sound, Current
  <2>9. Line[k] = Queue(k)
    BY DEF Line
  <2> QED BY <2>5, <2>6, <2>7, <2>8, <2>9 DEF Now
<1> QED BY <1>1, InvHolds, PTL

\* The scheduler and DoSchedConfigIndication agree on how often a block was sent:
\* no more than its redundancy version says, and exactly so while
\* m_miDlHarqProcessesPackets still has its packets.
THEOREM CountsAgree == Spec => []TransmissionsAreCounted
<1>1. Inv => TransmissionsAreCounted
  BY DEF Inv, Sound, Counted, Now, TransmissionsAreCounted
<1> QED BY <1>1, InvHolds, PTL

\* After its ACK a block is never sent again, although the scheduler may still
\* give its process a retransmission: DoDlHarqFeedback has emptied its burst, so the
\* slot carries the empty PDU or a later block, and the answer to it comes back too.
THEOREM AckedIsDone == Spec => AckedIsNotSentAgain
<1>1. Inv /\ [Next]_vars => [\A t \in acked : sent'[t] = sent[t]]_vars
  BY InvStep
<1> QED BY <1>1, InvHolds, PTL DEF Spec, AckedIsNotSentAgain
=============================================================================
