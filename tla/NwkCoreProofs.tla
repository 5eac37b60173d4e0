---------------------------- MODULE NwkCoreProofs ----------------------------
(***************************************************************************)
(* Invariants of the frame engine, for every pool size, request set and    *)
(* traffic.                                                                *)
(***************************************************************************)
EXTENDS NwkCore, FiniteSetTheorems, SequenceTheorems, TLAPS

USE ConstantsOK

(* The values nwkTxFrame and its callers store are of their types.         *)
LEMMA OutgoingType ==
  ASSUME NEW d \in Int, NEW kind
  PROVE  Outgoing(d, kind) \in TxInfo
BY DEF Outgoing, TxInfo, Statuses

LEMMA TxUpdate ==
  ASSUME NEW t \in TxInfo
  PROVE  /\ \A a \in Int : [t EXCEPT !.timeout = a] \in TxInfo
         /\ \A a \in Statuses : [t EXCEPT !.status = a] \in TxInfo
         /\ [t EXCEPT !.acked = TRUE] \in TxInfo
         /\ [t EXCEPT !.timeout = @ - 1] \in TxInfo
         /\ t.status \in Statuses /\ t.timeout \in Int /\ t.acked \in BOOLEAN
<1>1. t.timeout \in Int /\ t.timeout - 1 \in Int
  BY DEF TxInfo
<1> QED
  BY <1>1 DEF TxInfo

LEMMA ReqUpdate ==
  ASSUME NEW q \in ReqInfo
  PROVE  /\ \A n \in Slots : [q EXCEPT !.frame = n, !.state = "WAIT_CONF"] \in ReqInfo
         /\ \A a \in Statuses, b \in BOOLEAN :
              [q EXCEPT !.state = "CONFIRM", !.status = a, !.acked = b] \in ReqInfo
         /\ \A a \in Statuses : [q EXCEPT !.state = "CONFIRM", !.status = a] \in ReqInfo
<1>1. \A n \in Slots : [q EXCEPT !.frame = n, !.state = "WAIT_CONF"] \in ReqInfo
  BY DEF ReqInfo
<1>2. \A a \in Statuses, b \in BOOLEAN :
        [q EXCEPT !.state = "CONFIRM", !.status = a, !.acked = b] \in ReqInfo
  BY DEF ReqInfo
<1>3. \A a \in Statuses : [q EXCEPT !.state = "CONFIRM", !.status = a] \in ReqInfo
  BY DEF ReqInfo
<1> QED
  BY <1>1, <1>2, <1>3, Zenon

LEMMA DefaultsType == NoHeader \in Header /\ NoTx \in TxInfo /\ IdleReq \in ReqInfo
<1>1. 0 \in Seqs
  BY DEF Seqs
<1> QED
  BY <1>1 DEF NoHeader, Header, NoTx, TxInfo, IdleReq, ReqInfo, NoOption, Option,
     Addrs, Loads, Statuses

LEMMA NextSeqType == nwkSeq \in Seqs => NextSeq \in Seqs
BY DEF NextSeq, Seqs

LEMMA HeaderType ==
  /\ \A h \in Header, sec \in BOOLEAN : nwkSeq \in Seqs => Command(h, sec) \in Header
  /\ \A o \in Option, mac \in Addrs : nwkSeq \in Seqs => FrameHeader(o, mac) \in Header
<1>1. 0 \in Seqs
  BY DEF Seqs
<1> QED
  BY <1>1, NextSeqType DEF Header, Option, Command, FrameHeader, Addrs, Loads

(* nwkTxFrame keeps the types, whatever its caller has changed before.     *)
LEMMA TxFrameType ==
  ASSUME NEW st \in [Slots -> States], NEW hs \in [Slots -> Header],
         NEW ts \in [Slots -> TxInfo], NEW n \in Slots, NEW h \in Header,
         NEW kind, TxFrame(st, hs, ts, n, h, kind)
  PROVE  /\ state' \in [Slots -> States] /\ hdr' \in [Slots -> Header]
         /\ tx' \in [Slots -> TxInfo]
<1>1. PICK mac \in MacDsts(h, kind) : \E d \in Delays(mac) :
        /\ state' = [st EXCEPT ![n] = IF h.sec /\ kind # "routing"
                                       THEN "ENCRYPT" ELSE "DELAY"]
        /\ hdr' = [hs EXCEPT ![n] = [h EXCEPT !.mac = mac]]
        /\ tx' = [ts EXCEPT ![n] = Outgoing(d, kind)]
  BY DEF TxFrame
<1>2. mac \in Addrs
  BY <1>1 DEF MacDsts, Addrs, Header
<1>3. [h EXCEPT !.mac = mac] \in Header
  BY <1>2 DEF Header
<1>4. Delays(mac) \subseteq Int
  BY DEF Delays
<1>5. {"ENCRYPT", "DELAY"} \subseteq States
  BY DEF States, TxStates
<1> QED
  BY <1>1, <1>3, <1>4, <1>5, OutgoingType

LEMMA TypeInit == Init => TypeOK
<1> SUFFICES ASSUME Init PROVE TypeOK
  OBVIOUS
<1>1. /\ state \in [Slots -> States] /\ hdr \in [Slots -> Header]
      /\ tx \in [Slots -> TxInfo] /\ reqs \in [Reqs -> ReqInfo]
  BY DefaultsType DEF Init, States
<1>2. nwkSeq \in Seqs /\ cur \in 0 .. NBuf
  BY DEF Init, Seqs
<1>0. queue \in Seq(Reqs)
  BY <<>> \in Seq(Reqs) DEF Init
<1>3. /\ lock \in Int /\ radio \in Slots \cup {NULL}
      /\ secFrames \in Int /\ secActive \in Slots \cup {NULL} /\ secLeft \in 0 .. MaxBlocks
  BY ConstantsOK DEF Init
<1>5. secEncrypt \in BOOLEAN
  BY Zenon DEF Init
<1>4. ackTimer \in BOOLEAN /\ delayTimer \in BOOLEAN /\ task \in Tasks
  BY DEF Init, Tasks
<1> QED
  BY <1>1, <1>2, <1>3, <1>4, <1>5, <1>0 DEF TypeOK

LEMMA TypeNext == TypeOK /\ [Next]_vars => TypeOK'
<1> SUFFICES ASSUME TypeOK, [Next]_vars PROVE TypeOK'
  OBVIOUS
<1>st. /\ {"FREE"} \cup RxStates \cup TxStates \cup SecStates \subseteq States
       /\ Pending \subseteq States
  BY DEF States, SecStates
<1> USE DEF TypeOK, Goto, frames, requests, security, timers
<1>1. CASE Phy
  <2>1. CASE PhyIdle BY <2>1 DEF PhyIdle, Tasks
  <2>2. ASSUME NEW h \in Inbound, PhyRx(h) PROVE TypeOK'
    BY <2>2, <1>st DEF PhyRx, RxStates, Tasks
  <2>3. ASSUME NEW s \in PhyStatuses, PhyConf(s) PROVE TypeOK'
    <3>1. s \in Statuses BY DEF PhyStatuses, Statuses
    <3>2. [tx[radio] EXCEPT !.status = s] \in TxInfo
      BY <2>3, <3>1, TxUpdate DEF PhyConf
    <3> QED BY <2>3, <3>2, <1>st DEF PhyConf, TxStates, Tasks
  <2> QED BY <1>1, <2>1, <2>2, <2>3 DEF Phy
<1>2. ASSUME NEW n \in Slots, RxStep(n) PROVE TypeOK'
  <2> cur' \in 0 .. NBuf /\ task' \in Tasks
    BY <1>2 DEF RxStep, Slots
  <2>h. hdr[n] \in Header
    OBVIOUS
  <2> SUFFICES /\ state' \in [Slots -> States] /\ hdr' \in [Slots -> Header]
               /\ tx' \in [Slots -> TxInfo] /\ lock' \in Int
               /\ secFrames' \in Int /\ nwkSeq' \in Seqs
    BY <1>2 DEF RxStep
  <2>1. CASE RxReceived(n)
    <3>1. \A dup \in BOOLEAN : Sorted(hdr[n], dup) \in States
      BY <1>st DEF Sorted, Deliver, RxStates
    <3>2. \A d \in 1 .. MaxJitter : Outgoing(d, "routing") \in TxInfo
      BY OutgoingType
    <3>3. PICK dup \in BOOLEAN :
            \/ /\ \E m \in Slots : \E d \in 1 .. MaxJitter :
                     /\ state' = [[state EXCEPT ![n] = Sorted(hdr[n], dup)] EXCEPT ![m] = "DELAY"]
                     /\ hdr' = [hdr EXCEPT ![m] = hdr[n]]
                     /\ tx' = [tx EXCEPT ![m] = Outgoing(d, "routing")]
               /\ lock' = lock + 1
            \/ /\ state' = [state EXCEPT ![n] = Sorted(hdr[n], dup)]
               /\ UNCHANGED <<hdr, tx, lock>>
      BY <2>1 DEF RxReceived
    <3> QED BY SMTT(30), <2>1, <3>1, <3>2, <3>3, <1>st DEF RxReceived, TxStates
  <2>2. CASE RxDecrypt(n)
    BY <2>2, <1>st DEF RxDecrypt, Pending
  <2>3. CASE RxIndicate(n)
    <3> DEFINE h  == hdr[n]
               st == [m \in Slots |-> IF m = n THEN "FINISH"
                                      ELSE IF m \in Acknowledged(h) THEN "CONFIRM"
                                      ELSE state[m]]
               ts == [m \in Slots |-> IF m \in Acknowledged(h)
                                      THEN [tx[m] EXCEPT !.acked = TRUE] ELSE tx[m]]
    <3>1. st \in [Slots -> States]
      BY <1>st DEF RxStates, TxStates
    <3>2. ts \in [Slots -> TxInfo]
      BY TxUpdate
    <3>3. CASE \E m \in Slots : TxFrame(st, hdr, ts, m, Command(h, h.sec), "command")
      <4>1. Command(h, h.sec) \in Header
        BY HeaderType DEF Header
      <4> HIDE DEF st, ts, h
      <4>2. /\ state' \in [Slots -> States] /\ hdr' \in [Slots -> Header]
            /\ tx' \in [Slots -> TxInfo]
        BY <3>1, <3>2, <3>3, <4>1, TxFrameType
      <4> QED BY <4>2, <2>3, NextSeqType DEF RxIndicate
    <3>4. CASE state' = st /\ tx' = ts /\ UNCHANGED <<hdr, lock, nwkSeq>>
      BY <2>3, <3>1, <3>2, <3>4 DEF RxIndicate
    <3> QED BY <2>3, <3>3, <3>4 DEF RxIndicate
  <2>4. CASE RxRoute(n)
    <3>0. lock' \in Int /\ secFrames' \in Int /\ nwkSeq' \in Seqs
      <4>1. /\ lock' = lock \/ lock' = lock + 1 \/ lock' = lock - 1
            /\ nwkSeq' = nwkSeq \/ nwkSeq' = NextSeq
            /\ secFrames' = secFrames
        BY <2>4, Zenon DEF RxRoute, Free
      <4> QED BY <4>1, NextSeqType
    <3>1. CASE TxFrame(state, hdr, tx, n, hdr[n], "routing")
      BY <3>0, <3>1, <2>h, TxFrameType
    <3>2. CASE \E m \in Slots :
                 TxFrame([state EXCEPT ![n] = "FREE"], [hdr EXCEPT ![n] = NoHeader],
                         [tx EXCEPT ![n] = NoTx], m, Command(hdr[n], FALSE), "command")
      <4>1. /\ [state EXCEPT ![n] = "FREE"] \in [Slots -> States]
            /\ [hdr EXCEPT ![n] = NoHeader] \in [Slots -> Header]
            /\ [tx EXCEPT ![n] = NoTx] \in [Slots -> TxInfo]
            /\ Command(hdr[n], FALSE) \in Header
        BY <1>st, <2>h, DefaultsType, HeaderType
      <4>2. /\ state' \in [Slots -> States] /\ hdr' \in [Slots -> Header]
            /\ tx' \in [Slots -> TxInfo]
        BY <3>2, <4>1, TxFrameType
      <4> QED BY <4>2, <3>0
    <3>3. CASE Free(n)
      BY <3>0, <3>3, <1>st, DefaultsType DEF Free
    <3> QED BY <2>4, <3>1, <3>2, <3>3 DEF RxRoute
  <2>5. CASE RxFinish(n)
    BY <2>5, <1>st, DefaultsType DEF RxFinish, Free
  <2> QED BY <1>2, <2>1, <2>2, <2>3, <2>4, <2>5 DEF RxStep
<1>3. ASSUME NEW n \in Slots, TxStep(n) PROVE TypeOK'
  <2> cur' \in 0 .. NBuf /\ task' \in Tasks
    BY <1>3 DEF TxStep, Slots
  <2> SUFFICES /\ state' \in [Slots -> States] /\ hdr' \in [Slots -> Header]
               /\ tx' \in [Slots -> TxInfo] /\ reqs' \in [Reqs -> ReqInfo]
               /\ lock' \in Int /\ radio' \in Slots \cup {NULL}
               /\ secFrames' \in Int /\ ackTimer' \in BOOLEAN /\ delayTimer' \in BOOLEAN
    BY <1>3 DEF TxStep
  <2>1. CASE TxEncrypt(n)
    BY <2>1, <1>st DEF TxEncrypt, Pending
  <2>2. CASE TxDelay(n)
    BY <2>2, <1>st DEF TxDelay, TxStates
  <2>3. CASE TxSend(n)
    BY <2>3, <1>st DEF TxSend, TxStates
  <2>4. CASE TxSent(n)
    <3>1. tx[n] \in TxInfo /\ AckTicks \in Int
      OBVIOUS
    <3>2. [tx[n] EXCEPT !.timeout = AckTicks] \in TxInfo
      BY <3>1, TxUpdate, Zenon
    <3> QED BY <2>4, <3>2, <1>st DEF TxSent, TxStates
  <2>5. CASE TxConfirm(n)
    <3>1. reqs' \in [Reqs -> ReqInfo]
      <4>1. CASE reqs' = reqs
        BY <4>1
      <4>2. ASSUME NEW i \in DOMAIN queue,
                   reqs' = [reqs EXCEPT ![queue[i]].state = "CONFIRM",
                                        ![queue[i]].status = tx[n].status,
                                        ![queue[i]].acked = tx[n].acked]
            PROVE  reqs' \in [Reqs -> ReqInfo]
        <5>0. tx[n] \in TxInfo /\ reqs[queue[i]] \in ReqInfo
          OBVIOUS
        <5>1. tx[n].status \in Statuses /\ tx[n].acked \in BOOLEAN
          BY <5>0, TxUpdate, Zenon
        <5>2. [reqs[queue[i]] EXCEPT !.state = "CONFIRM", !.status = tx[n].status,
                                     !.acked = tx[n].acked] \in ReqInfo
          BY <5>0, <5>1, ReqUpdate, Zenon
        <5> QED BY <4>2, <5>2
      <4> QED BY <2>5, <4>1, <4>2 DEF TxConfirm
    <3>2. Free(n) /\ UNCHANGED <<radio, secFrames, timers>>
      BY <2>5, Zenon DEF TxConfirm
    <3> QED BY SMTT(30), <3>1, <3>2, <1>st, DefaultsType DEF Free
  <2> QED BY <1>3, <2>1, <2>2, <2>3, <2>4, <2>5 DEF TxStep
<1>4. ASSUME NEW i \in DOMAIN queue, ReqStep(i) PROVE TypeOK'
  <2> queue[i] \in Reqs
    OBVIOUS
  <2> SUFFICES /\ state' \in [Slots -> States] /\ hdr' \in [Slots -> Header]
               /\ tx' \in [Slots -> TxInfo] /\ reqs' \in [Reqs -> ReqInfo]
               /\ queue' \in Seq(Reqs) /\ lock' \in Int /\ nwkSeq' \in Seqs
    BY <1>4 DEF ReqStep, Tasks
  <2>1. CASE ReqSend(i)
    <3>1. ASSUME NEW n \in Slots,
                 reqs' = [reqs EXCEPT ![queue[i]].frame = n,
                                      ![queue[i]].state = "WAIT_CONF"],
                 TxFrame(state, hdr, tx, n,
                         FrameHeader(reqs[queue[i]].opt, "all"), "request")
          PROVE  /\ state' \in [Slots -> States] /\ hdr' \in [Slots -> Header]
                 /\ tx' \in [Slots -> TxInfo] /\ reqs' \in [Reqs -> ReqInfo]
      <4>1. FrameHeader(reqs[queue[i]].opt, "all") \in Header
        BY HeaderType DEF ReqInfo, Addrs
      <4>2. reqs' \in [Reqs -> ReqInfo]
        BY ZenonT(30), <3>1, ReqUpdate
      <4> QED BY <3>1, <4>1, <4>2, TxFrameType
    <3>2. ASSUME reqs' = [reqs EXCEPT ![queue[i]].state = "CONFIRM",
                                      ![queue[i]].status = "OUT_OF_MEMORY"]
          PROVE  reqs' \in [Reqs -> ReqInfo]
      BY <3>2, ReqUpdate DEF Statuses
    <3>3. queue' \in Seq(Reqs) /\ lock' \in Int /\ nwkSeq' \in Seqs
      <4>1. /\ lock' = lock \/ lock' = lock + 1
            /\ nwkSeq' = nwkSeq \/ nwkSeq' = NextSeq
            /\ queue' = queue
        BY <2>1, Zenon DEF ReqSend, frames
      <4> QED BY <4>1, NextSeqType
    <3> QED BY <2>1, <3>1, <3>2, <3>3 DEF ReqSend
  <2>2. CASE ReqConfirm(i)
    <3>1. RemoveAt(queue, i) \in Seq(Reqs)
      BY SMTT(30) DEF RemoveAt
    <3> QED BY <2>2, <3>1, DefaultsType DEF ReqConfirm, Unlink
  <2> QED BY <1>4, <2>1, <2>2 DEF ReqStep
<1>5. CASE SecStep
  <2>1. \A n \in Slots : SecStart(n) => TypeOK'
    BY <1>5, <1>st DEF SecStep, SecStart, SecStates, Tasks
  <2>2. CASE SecProcess
    BY <1>5, <2>2, <1>st DEF SecStep, SecProcess, SecStates, Tasks
  <2>3. CASE SecConfirm
    <3>1. {"DELAY", "INDICATE", "FINISH"} \subseteq States
      BY DEF States, RxStates, TxStates
    <3>2. \E s \in {"DELAY", "INDICATE", "FINISH"} :
            state' = [state EXCEPT ![secActive] = s]
      BY <2>3 DEF SecConfirm
    <3>3. state' \in [Slots -> States]
      BY <3>1, <3>2
    <3>4. secActive' = NULL /\ secFrames' = secFrames - 1 /\ secLeft' = secLeft
      BY <2>3, Zenon DEF SecConfirm
    <3>5. secEncrypt' \in BOOLEAN
      BY <2>3, Zenon DEF SecConfirm
    <3> QED BY <1>5, <3>3, <3>4, <3>5 DEF SecStep, Tasks
  <2>4. CASE SecIdle
    BY <1>5, <2>4 DEF SecStep, SecIdle, Tasks
  <2> QED BY <1>5, <2>1, <2>2, <2>3, <2>4 DEF SecStep
<1>6. CASE AckTick \/ DelayTick
  <2>1. \A s : \A n \in Slots : Ticked(n, s) \in TxInfo
    BY TxUpdate DEF Ticked
  <2>2. \A s : \A n \in Slots : TimedOut(Ticked(n, s)) \in TxInfo
    <3>1. "NO_ACK" \in Statuses
      BY DEF Statuses
    <3> QED BY <2>1, <3>1, TxUpdate, Zenon DEF TimedOut
  <2>3. CASE AckTick
    BY <2>1, <2>2, <2>3, <1>st DEF AckTick, Restarts, TxStates
  <2>4. CASE DelayTick
    BY <2>1, <2>4, <1>st DEF DelayTick, Restarts, TxStates
  <2> QED BY <1>6, <2>3, <2>4
<1>7. CASE TimersDone BY <1>7 DEF TimersDone, Tasks
<1>8. CASE AppStep
  <2>1. ASSUME NEW r \in Reqs, NEW opt \in Options, NWK_DataReq(r, opt)
        PROVE  reqs' \in [Reqs -> ReqInfo] /\ queue' \in Seq(Reqs) /\ lock' \in Int
    <3>1. [IdleReq EXCEPT !.state = "INITIAL", !.opt = opt] \in ReqInfo
      BY DefaultsType DEF ReqInfo
    <3> QED BY <2>1, <3>1 DEF NWK_DataReq
  <2> QED BY <1>8, <2>1 DEF AppStep, Tasks
<1>9. CASE UNCHANGED vars BY <1>9 DEF vars
<1>10. CASE RxEnd \/ TxEnd \/ ReqNone
  BY <1>10 DEF RxEnd, TxEnd, ReqNone, Tasks
<1> QED BY <1>1, <1>2, <1>3, <1>4, <1>5, <1>6, <1>7, <1>8, <1>9, <1>10
        DEF Next, Rx, Tx, Req

(* Type correctness of the frame engine (TypeOK).                          *)
THEOREM TypeCorrect == Spec => []TypeOK
BY TypeInit, TypeNext, PTL DEF Spec

(***************************************************************************)
(* Who waits for what: the frame on the radio, the frames with a timer,    *)
(* the frames whose outcome is settled.  Most steps leave all of them as   *)
(* they are.                                                               *)
(***************************************************************************)
IInv == TypeOK /\ RadioOwner /\ WaitersTimed

Settled(n) ==
  state[n] = "CONFIRM" /\ state'[n] # "FREE" => state'[n] = "CONFIRM" /\ tx'[n] = tx[n]

Ordinary(n) ==
  /\ state'[n] = "WAIT_CONF" <=> state[n] = "WAIT_CONF"
  /\ state'[n] \in {"WAIT_ACK", "WAIT_DELAY"} =>
       state'[n] = state[n] /\ tx'[n].timeout = tx[n].timeout
  /\ Settled(n)

Kept == RadioOwner' /\ WaitersTimed' /\ \A n \in Slots : Settled(n)

LEMMA OrdinarySteps ==
  ASSUME IInv, UNCHANGED <<radio, timers>>, \A n \in Slots : Ordinary(n)
  PROVE  Kept
BY DEF IInv, Kept, Ordinary, RadioOwner, WaitersTimed, timers

LEMMA UntouchedSteps ==
  ASSUME IInv, UNCHANGED <<state, tx, radio, timers>>
  PROVE  Kept
BY OrdinarySteps DEF Ordinary, Settled

(* A new frame takes the place of a free one.                              *)
LEMMA TxFrameOrdinary ==
  ASSUME NEW st \in [Slots -> States], NEW hs, NEW ts \in [Slots -> TxInfo],
         NEW n \in Slots, NEW h, NEW kind, TxFrame(st, hs, ts, n, h, kind)
  PROVE  /\ state'[n] \in {"ENCRYPT", "DELAY"}
         /\ \A m \in Slots \ {n} : state'[m] = st[m] /\ tx'[m] = ts[m]
BY DEF TxFrame

LEMMA PhyKeeps == IInv /\ Phy => Kept
<1> SUFFICES ASSUME IInv, Phy PROVE Kept
  OBVIOUS
<1> USE DEF IInv, TypeOK, timers, frames
<1>1. CASE PhyIdle BY <1>1, UntouchedSteps DEF PhyIdle
<1>2. ASSUME NEW h \in Inbound, PhyRx(h) PROVE Kept
  BY <1>2, OrdinarySteps DEF PhyRx, Ordinary, Settled, Alloc
<1>3. ASSUME NEW s \in PhyStatuses, PhyConf(s) PROVE Kept
  <2>1. radio \in Slots /\ state[radio] = "WAIT_CONF" /\ radio' = NULL
    BY <1>3 DEF PhyConf, RadioOwner
  <2>2. /\ state' = [state EXCEPT ![radio] = "SENT"]
        /\ tx' = [tx EXCEPT ![radio].status = s]
        /\ ackTimer' = ackTimer /\ delayTimer' = delayTimer
    BY <1>3 DEF PhyConf
  <2>3. \A n \in Slots \ {radio} : state'[n] = state[n] /\ tx'[n] = tx[n]
    BY <2>2
  <2>4. state'[radio] = "SENT"
    BY <2>1, <2>2
  <2> QED BY <2>1, <2>2, <2>3, <2>4 DEF Kept, Settled, RadioOwner, WaitersTimed
<1> QED BY <1>1, <1>2, <1>3 DEF Phy

LEMMA RxKeeps ==
  ASSUME IInv, NEW n \in Slots, RxStep(n)
  PROVE  Kept
<1> USE DEF IInv, TypeOK
<1>0. UNCHANGED <<radio, timers>>
  BY DEF RxStep
<1> SUFFICES ASSUME NEW k \in Slots PROVE Ordinary(k)
  BY <1>0, OrdinarySteps
<1>1. CASE RxReceived(n)
  <2>1. \A dup \in BOOLEAN : Sorted(hdr[n], dup) \in RxStates
    BY DEF Sorted, Deliver, RxStates
  <2>2. PICK dup \in BOOLEAN :
          \/ \E m \in Slots : \E d \in 1 .. MaxJitter :
               /\ Alloc(m)
               /\ state' = [[state EXCEPT ![n] = Sorted(hdr[n], dup)] EXCEPT ![m] = "DELAY"]
               /\ tx' = [tx EXCEPT ![m] = Outgoing(d, "routing")]
          \/ /\ state' = [state EXCEPT ![n] = Sorted(hdr[n], dup)]
             /\ tx' = tx
    BY <1>1 DEF RxReceived
  <2> QED BY <1>1, <2>1, <2>2 DEF RxReceived, Ordinary, Settled, Alloc, RxStates
<1>2. CASE RxDecrypt(n)
  BY <1>2 DEF RxDecrypt, Ordinary, Settled
<1>3. CASE RxIndicate(n)
  <2> DEFINE h  == hdr[n]
             st == [m \in Slots |-> IF m = n THEN "FINISH"
                                    ELSE IF m \in Acknowledged(h) THEN "CONFIRM"
                                    ELSE state[m]]
             ts == [m \in Slots |-> IF m \in Acknowledged(h)
                                    THEN [tx[m] EXCEPT !.acked = TRUE] ELSE tx[m]]
  <2>1. st \in [Slots -> States] /\ ts \in [Slots -> TxInfo]
    BY TxUpdate DEF States, RxStates, TxStates
  <2>2. /\ state[n] = "INDICATE" /\ n \notin Acknowledged(h)
        /\ \A m \in Acknowledged(h) : state[m] = "WAIT_ACK"
    BY <1>3 DEF RxIndicate, Acknowledged, Acknowledges
  <2>3. CASE \E m \in Slots : Alloc(m) /\
               TxFrame(st, hdr, ts, m, Command(h, h.sec), "command")
    <3>1. PICK m \in Slots : Alloc(m) /\
                 TxFrame(st, hdr, ts, m, Command(h, h.sec), "command")
      BY <2>3
    <3>2. /\ state'[m] \in {"ENCRYPT", "DELAY"} /\ state[m] = "FREE"
          /\ \A l \in Slots \ {m} : state'[l] = st[l] /\ tx'[l] = ts[l]
      <4> HIDE DEF st, ts, h
      <4> QED BY <2>1, <3>1, TxFrameOrdinary DEF Alloc
    <3> QED BY <2>2, <3>2 DEF Ordinary, Settled
  <2>4. CASE state' = st /\ tx' = ts
    BY <2>2, <2>4 DEF Ordinary, Settled
  <2> QED BY <1>3, <2>3, <2>4 DEF RxIndicate
<1>4. CASE RxRoute(n)
  <2>1. CASE TxFrame(state, hdr, tx, n, hdr[n], "routing")
    <3>1. /\ state'[n] \in {"ENCRYPT", "DELAY"}
          /\ \A m \in Slots \ {n} : state'[m] = state[m] /\ tx'[m] = tx[m]
      BY <2>1, TxFrameOrdinary
    <3> QED BY <1>4, <3>1 DEF RxRoute, Ordinary, Settled
  <2>2. CASE \E m \in Slots : Alloc(m) /\
               TxFrame([state EXCEPT ![n] = "FREE"], [hdr EXCEPT ![n] = NoHeader],
                       [tx EXCEPT ![n] = NoTx], m, Command(hdr[n], FALSE), "command")
    <3>1. [state EXCEPT ![n] = "FREE"] \in [Slots -> States]
          /\ [tx EXCEPT ![n] = NoTx] \in [Slots -> TxInfo]
      BY DefaultsType DEF States
    <3>2. PICK m \in Slots :
            /\ state[m] = "FREE" /\ state'[m] \in {"ENCRYPT", "DELAY"}
            /\ \A l \in Slots \ {m} : /\ state'[l] = [state EXCEPT ![n] = "FREE"][l]
                                       /\ tx'[l] = [tx EXCEPT ![n] = NoTx][l]
      BY <2>2, <3>1, TxFrameOrdinary DEF Alloc
    <3> QED BY <1>4, <3>2 DEF RxRoute, Ordinary, Settled
  <2>3. CASE Free(n)
    BY <1>4, <2>3 DEF RxRoute, Free, Ordinary, Settled
  <2> QED BY <1>4, <2>1, <2>2, <2>3 DEF RxRoute
<1>5. CASE RxFinish(n)
  BY <1>5 DEF RxFinish, Free, Ordinary, Settled
<1> QED BY <1>1, <1>2, <1>3, <1>4, <1>5 DEF RxStep

LEMMA TxKeeps ==
  ASSUME IInv, NEW n \in Slots, TxStep(n)
  PROVE  Kept
<1> USE DEF IInv, TypeOK, timers
<1>1. CASE TxEncrypt(n)
  BY <1>1, OrdinarySteps DEF TxEncrypt, Ordinary, Settled
<1>2. CASE TxDelay(n)
  BY <1>2 DEF TxDelay, Kept, Settled, RadioOwner, WaitersTimed
<1>3. CASE TxSend(n)
  <2>1. radio = NULL
    BY <1>3 DEF TxSend, TxStep, TxReady, Visits
  <2> QED BY <1>3, <2>1 DEF TxSend, Kept, Settled, RadioOwner, WaitersTimed
<1>4. CASE TxSent(n)
  <2>1. tx[n] \in TxInfo /\ [tx[n] EXCEPT !.timeout = AckTicks].timeout = AckTicks
    BY DEF TxInfo
  <2>2. CASE state' = [state EXCEPT ![n] = "CONFIRM"] /\ UNCHANGED <<tx, ackTimer>>
    BY <1>4, <2>2 DEF TxSent, Kept, Settled, RadioOwner, WaitersTimed
  <2>3. CASE /\ state' = [state EXCEPT ![n] = "WAIT_ACK"]
             /\ tx' = [tx EXCEPT ![n].timeout = AckTicks] /\ ackTimer' = TRUE
    <3>1. /\ state[n] = "SENT" /\ state'[n] = "WAIT_ACK" /\ tx'[n].timeout = AckTicks
          /\ AckTicks > 0 /\ radio' = radio /\ delayTimer' = delayTimer
          /\ \A m \in Slots \ {n} : state'[m] = state[m] /\ tx'[m] = tx[m]
      BY <1>4, <2>1, <2>3 DEF TxSent
    <3> QED BY <2>3, <3>1 DEF Kept, Settled, RadioOwner, WaitersTimed
  <2> QED BY <1>4, <2>2, <2>3 DEF TxSent
<1>5. CASE TxConfirm(n)
  <2>1. state[n] = "CONFIRM" /\ Free(n) /\ UNCHANGED <<radio, timers>>
    BY <1>5, Zenon DEF TxConfirm
  <2> QED BY <2>1, OrdinarySteps DEF Free, Ordinary, Settled
<1> QED BY <1>1, <1>2, <1>3, <1>4, <1>5 DEF TxStep

LEMMA ReqKeeps ==
  ASSUME IInv, NEW i \in DOMAIN queue, ReqStep(i)
  PROVE  Kept
<1> USE DEF IInv, TypeOK
<1>0. UNCHANGED <<radio, timers>>
  BY DEF ReqStep
<1>1. CASE \E n \in Slots : Alloc(n) /\
             TxFrame(state, hdr, tx, n, FrameHeader(reqs[queue[i]].opt, "all"), "request")
  <2>1. PICK n \in Slots :
          /\ state[n] = "FREE" /\ state'[n] \in {"ENCRYPT", "DELAY"}
          /\ \A m \in Slots \ {n} : state'[m] = state[m] /\ tx'[m] = tx[m]
    BY <1>1, TxFrameOrdinary DEF Alloc
  <2> QED BY <1>0, <2>1, OrdinarySteps DEF Ordinary, Settled
<1>2. CASE UNCHANGED frames
  BY <1>0, <1>2, UntouchedSteps DEF frames
<1> QED BY <1>1, <1>2 DEF ReqStep, ReqSend, ReqConfirm

LEMMA SecKeeps == IInv /\ SecStep => Kept
<1> SUFFICES ASSUME IInv, SecStep PROVE Kept
  OBVIOUS
<1> USE DEF IInv, TypeOK
<1>0. UNCHANGED <<tx, radio, timers>>
  BY DEF SecStep
<1>1. ASSUME NEW n \in Slots, SecStart(n) PROVE Kept
  BY <1>0, <1>1, OrdinarySteps DEF SecStart, Ordinary, Settled, Pending
<1>2. CASE SecProcess
  BY <1>0, <1>2, OrdinarySteps DEF SecProcess, Ordinary, Settled
<1>3. CASE SecConfirm
  <2>1. \E s \in {"DELAY", "INDICATE", "FINISH"} : state' = [state EXCEPT ![secActive] = s]
    BY <1>3 DEF SecConfirm
  <2>2. secActive \in Slots /\ state[secActive] = "SEC_CONFIRM"
    BY <1>3 DEF SecConfirm
  <2> QED BY <1>0, <2>1, <2>2, OrdinarySteps DEF Ordinary, Settled
<1>4. CASE SecIdle
  BY <1>0, <1>4, UntouchedSteps DEF SecIdle
<1> QED BY <1>1, <1>2, <1>3, <1>4 DEF SecStep

(* A tick takes one from the time of every frame that waits for its timer, *)
(* lets go those that had one left, and restarts the timer for the others. *)
LEMMA TickedTime ==
  ASSUME TypeOK, NEW n \in Slots, NEW s
  PROVE  /\ Waits(n, s) => Ticked(n, s).timeout = tx[n].timeout - 1
         /\ ~ Waits(n, s) => Ticked(n, s) = tx[n]
         /\ tx[n].timeout \in Int
<1>1. tx[n] \in TxInfo
  BY DEF TypeOK
<1>2. tx[n].timeout \in Int /\ [tx[n] EXCEPT !.timeout = @ - 1].timeout = tx[n].timeout - 1
  BY <1>1 DEF TxInfo
<1> QED BY <1>2 DEF Ticked

LEMMA TicksKeep == IInv /\ (AckTick \/ DelayTick) => Kept
<1> SUFFICES ASSUME IInv, AckTick \/ DelayTick PROVE Kept
  OBVIOUS
<1> USE DEF IInv
<1>1. CASE AckTick
  <2>1. \A n \in Slots :
          /\ state'[n] = IF Expires(n, "WAIT_ACK") THEN "CONFIRM" ELSE state[n]
          /\ ~ Expires(n, "WAIT_ACK") => tx'[n] = Ticked(n, "WAIT_ACK")
    BY <1>1 DEF AckTick
  <2>2. ackTimer' = Restarts("WAIT_ACK") /\ delayTimer' = delayTimer /\ radio' = radio
    BY <1>1 DEF AckTick
  <2>3. RadioOwner' /\ \A n \in Slots : Settled(n)
    BY <2>1, <2>2, TickedTime DEF RadioOwner, Settled, Expires, Waits
  <2>4. WaitersTimed'
    <3> SUFFICES ASSUME NEW n \in Slots
                 PROVE  /\ state'[n] = "WAIT_ACK" => ackTimer' /\ tx'[n].timeout > 0
                        /\ state'[n] = "WAIT_DELAY" => delayTimer' /\ tx'[n].timeout > 0
      BY DEF WaitersTimed
    <3>1. CASE state'[n] = "WAIT_ACK"
      <4>1. state[n] = "WAIT_ACK" /\ ~ Expires(n, "WAIT_ACK")
        BY <2>1, <3>1
      <4>2. tx'[n].timeout = tx[n].timeout - 1 /\ tx[n].timeout # 1 /\ tx[n].timeout > 0
        BY <2>1, <4>1, TickedTime DEF Waits, Expires, WaitersTimed
      <4>3. tx'[n].timeout > 0
        BY <4>2, TickedTime
      <4>4. ackTimer'
        BY <2>2, <4>1 DEF Restarts, Waits
      <4> QED BY <3>1, <4>3, <4>4
    <3>2. CASE state'[n] = "WAIT_DELAY"
      BY <2>1, <2>2, <3>2, TickedTime DEF Waits, Expires, WaitersTimed
    <3> QED BY <3>1, <3>2
  <2> QED BY <2>3, <2>4 DEF Kept
<1>2. CASE DelayTick
  <2>1. \A n \in Slots :
          /\ state'[n] = IF Expires(n, "WAIT_DELAY") THEN "SEND" ELSE state[n]
          /\ tx'[n] = Ticked(n, "WAIT_DELAY")
    BY <1>2 DEF DelayTick
  <2>2. delayTimer' = Restarts("WAIT_DELAY") /\ ackTimer' = ackTimer /\ radio' = radio
    BY <1>2 DEF DelayTick
  <2>3. RadioOwner' /\ \A n \in Slots : Settled(n)
    BY <2>1, <2>2, TickedTime DEF RadioOwner, Settled, Expires, Waits
  <2>4. WaitersTimed'
    <3> SUFFICES ASSUME NEW n \in Slots
                 PROVE  /\ state'[n] = "WAIT_ACK" => ackTimer' /\ tx'[n].timeout > 0
                        /\ state'[n] = "WAIT_DELAY" => delayTimer' /\ tx'[n].timeout > 0
      BY DEF WaitersTimed
    <3>1. CASE state'[n] = "WAIT_DELAY"
      <4>1. state[n] = "WAIT_DELAY" /\ ~ Expires(n, "WAIT_DELAY")
        BY <2>1, <3>1
      <4>2. tx'[n].timeout = tx[n].timeout - 1 /\ tx[n].timeout # 1 /\ tx[n].timeout > 0
        BY <2>1, <4>1, TickedTime DEF Waits, Expires, WaitersTimed
      <4>3. tx'[n].timeout > 0
        BY <4>2, TickedTime
      <4>4. delayTimer'
        BY <2>2, <4>1 DEF Restarts, Waits
      <4> QED BY <3>1, <4>3, <4>4
    <3>2. CASE state'[n] = "WAIT_ACK"
      BY <2>1, <2>2, <3>2, TickedTime DEF Waits, Expires, WaitersTimed
    <3> QED BY <3>1, <3>2
  <2> QED BY <2>3, <2>4 DEF Kept
<1> QED BY <1>1, <1>2

LEMMA StepKeeps == IInv /\ [Next]_vars => IInv' /\ \A n \in Slots : Settled(n)
<1> SUFFICES ASSUME IInv, [Next]_vars PROVE Kept
  BY TypeNext DEF IInv, Kept
<1>1. CASE UNCHANGED <<state, tx, radio, timers>>
  BY <1>1, UntouchedSteps
<1>2. RxEnd \/ TxEnd \/ ReqNone \/ TimersDone \/ AppStep \/ UNCHANGED vars
        => UNCHANGED <<state, tx, radio, timers>>
  BY DEF RxEnd, TxEnd, ReqNone, TimersDone, AppStep, frames, vars
<1> QED BY <1>1, <1>2, PhyKeeps, RxKeeps, TxKeeps, ReqKeeps, SecKeeps, TicksKeep
        DEF Next, Rx, Tx, Req

LEMMA IInvInit == Init => IInv
BY TypeInit DEF Init, IInv, RadioOwner, WaitersTimed

LEMMA CoreInvariant == Spec => []IInv
BY IInvInit, StepKeeps, PTL DEF Spec

(* The radio belongs to the one frame in WAIT_CONF (RadioOwner), so that   *)
(* PHY_DataConf never reports to a frame that was freed or not sent.       *)
THEOREM RadioOwned == Spec => []RadioOwner
BY CoreInvariant, PTL DEF IInv

(* Every frame that waits for a delay or an acknowledgement has a running  *)
(* timer and time left (WaitersTimed): the restart rule of the two timer   *)
(* handlers leaves none behind, and no uint16_t timeout passes zero.       *)
THEOREM WaitersStayTimed == Spec => []WaitersTimed
BY CoreInvariant, PTL DEF IInv

(* A settled outcome stands until its request takes it (OutcomeStands): a  *)
(* late or second acknowledgement, a timeout or a report of the radio does *)
(* not change it.                                                          *)
THEOREM OutcomesStand == Spec => OutcomeStands
<1>1. IInv /\ [Next]_vars =>
        [\A n \in Slots :
           state[n] = "CONFIRM" /\ state'[n] # "FREE"
             => state'[n] = "CONFIRM" /\ tx'[n] = tx[n]]_vars
  BY StepKeeps DEF Settled
<1> QED BY <1>1, CoreInvariant, PTL DEF Spec, OutcomeStands

(***************************************************************************)
(* The two counts of the engine: nwkIb.lock and nwkSecurityActiveFrames.   *)
(***************************************************************************)
Ciphered == {n \in Slots : state[n] \in SecStates}

(* A set of slots that changes at one slot changes its size by that slot.  *)
LEMMA OneSlot ==
  ASSUME NEW S \in SUBSET Slots, NEW T \in SUBSET Slots, NEW n \in Slots,
         \A m \in Slots \ {n} : m \in S <=> m \in T
  PROVE  /\ Cardinality(S) \in Nat /\ Cardinality(T) \in Nat
         /\ Cardinality(T) = Cardinality(S) + (IF n \in T THEN 1 ELSE 0)
                                            - (IF n \in S THEN 1 ELSE 0)
<1>1. IsFiniteSet(Slots)
  BY FS_Interval DEF Slots
<1>2. IsFiniteSet(S) /\ IsFiniteSet(T)
  BY <1>1, FS_Subset
<1>3. Cardinality(S) \in Nat /\ Cardinality(T) \in Nat
  BY <1>2, FS_CardinalityType
<1>4. CASE n \in S /\ n \in T
  BY <1>3, <1>4, S = T
<1>5. CASE n \notin S /\ n \notin T
  BY <1>3, <1>5, S = T
<1>6. CASE n \in S /\ n \notin T
  BY <1>2, <1>3, <1>6, FS_RemoveElement, T = S \ {n}
<1>7. CASE n \notin S /\ n \in T
  BY <1>2, <1>3, <1>7, FS_AddElement, T = S \cup {n}
<1> QED BY <1>4, <1>5, <1>6, <1>7

LEMMA PoolCount ==
  ASSUME NEW n \in Slots,
         \A m \in Slots \ {n} : state'[m] = "FREE" <=> state[m] = "FREE"
  PROVE  /\ Cardinality(Allocated) \in Nat /\ Cardinality(Allocated') \in Nat
         /\ Cardinality(Allocated') = Cardinality(Allocated)
              + (IF state'[n] # "FREE" THEN 1 ELSE 0)
              - (IF state[n] # "FREE" THEN 1 ELSE 0)
<1>1. /\ Allocated \in SUBSET Slots /\ Allocated' \in SUBSET Slots
      /\ \A m \in Slots : m \in Allocated <=> state[m] # "FREE"
      /\ \A m \in Slots : m \in Allocated' <=> state'[m] # "FREE"
  BY DEF Allocated
<1> DEFINE S == Allocated
           T == Allocated'
<1> HIDE DEF S, T
<1>2. /\ Cardinality(S) \in Nat /\ Cardinality(T) \in Nat
      /\ Cardinality(T) = Cardinality(S) + (IF n \in T THEN 1 ELSE 0)
                                         - (IF n \in S THEN 1 ELSE 0)
  BY <1>1, OneSlot DEF S, T
<1> QED BY <1>1, <1>2 DEF S, T

LEMMA CipherCount ==
  ASSUME NEW n \in Slots,
         \A m \in Slots \ {n} : state'[m] \in SecStates <=> state[m] \in SecStates
  PROVE  /\ Cardinality(Ciphered) \in Nat /\ Cardinality(Ciphered') \in Nat
         /\ Cardinality(Ciphered') = Cardinality(Ciphered)
              + (IF state'[n] \in SecStates THEN 1 ELSE 0)
              - (IF state[n] \in SecStates THEN 1 ELSE 0)
<1>1. /\ Ciphered \in SUBSET Slots /\ Ciphered' \in SUBSET Slots
      /\ \A m \in Slots : m \in Ciphered <=> state[m] \in SecStates
      /\ \A m \in Slots : m \in Ciphered' <=> state'[m] \in SecStates
  BY DEF Ciphered
<1> DEFINE S == Ciphered
           T == Ciphered'
<1> HIDE DEF S, T
<1>2. /\ Cardinality(S) \in Nat /\ Cardinality(T) \in Nat
      /\ Cardinality(T) = Cardinality(S) + (IF n \in T THEN 1 ELSE 0)
                                         - (IF n \in S THEN 1 ELSE 0)
  BY <1>1, OneSlot DEF S, T
<1> QED BY <1>1, <1>2 DEF S, T

CInv == IInv /\ LockAccounting /\ CipherExclusive

(* A step that takes one slot, frees one or neither, and counts it.        *)
LEMMA LockSteps ==
  ASSUME CInv, UNCHANGED <<queue, radio>>, NEW n \in Slots,
         \A m \in Slots \ {n} : state'[m] = "FREE" <=> state[m] = "FREE",
         lock' = lock + (IF state'[n] # "FREE" THEN 1 ELSE 0)
                      - (IF state[n] # "FREE" THEN 1 ELSE 0)
  PROVE  LockAccounting'
<1>1. Len(queue) \in Nat /\ lock \in Int
  BY DEF CInv, IInv, TypeOK
<1>2. /\ lock = Cardinality(Allocated) + Len(queue) + (IF radio = NULL THEN 0 ELSE 1)
      /\ queue' = queue /\ radio' = radio
  BY DEF CInv, LockAccounting
<1>3. /\ Cardinality(Allocated) \in Nat /\ Cardinality(Allocated') \in Nat
      /\ Cardinality(Allocated') = Cardinality(Allocated)
              + (IF state'[n] # "FREE" THEN 1 ELSE 0)
              - (IF state[n] # "FREE" THEN 1 ELSE 0)
  BY PoolCount
<1>4. lock' = Cardinality(Allocated') + Len(queue') + (IF radio' = NULL THEN 0 ELSE 1)
  BY <1>1, <1>2, <1>3
<1> QED BY <1>4 DEF LockAccounting

(* A step that moves no frame into the cipher or out of it.                *)
LEMMA CipherApart ==
  ASSUME CInv, UNCHANGED <<secFrames, secActive, secLeft>>,
         \A n \in Slots : state[n] \in SecStates \/ state'[n] \in SecStates
                            => state'[n] = state[n]
  PROVE  CipherExclusive'
<1>1. Ciphered' = Ciphered
  BY DEF Ciphered
<1>2. {"PROCESS", "SEC_CONFIRM"} \subseteq SecStates
  BY DEF SecStates
<1>3. secFrames' = Cardinality(Ciphered')
  BY <1>1 DEF CInv, CipherExclusive, Ciphered
<1> QED BY <1>2, <1>3 DEF CInv, CipherExclusive, Ciphered

(* A frame that is handed over to the cipher.                              *)
LEMMA CipherGains ==
  ASSUME CInv, UNCHANGED <<secActive, secLeft>>, secFrames' = secFrames + 1,
         NEW n \in Slots, state[n] \notin SecStates, state'[n] \in Pending,
         \A m \in Slots \ {n} : state'[m] = state[m]
  PROVE  CipherExclusive'
<1>1. /\ Pending \subseteq SecStates /\ {"PROCESS", "SEC_CONFIRM"} \subseteq SecStates
      /\ "PROCESS" \notin Pending /\ "SEC_CONFIRM" \notin Pending
  BY DEF Pending, SecStates
<1>2. Cardinality(Ciphered') = Cardinality(Ciphered) + 1
  BY <1>1, CipherCount
<1>3. secFrames' = Cardinality(Ciphered')
  BY <1>2 DEF CInv, CipherExclusive, Ciphered
<1>4. \A m \in Slots : /\ state'[m] = "PROCESS" <=> state[m] = "PROCESS"
                       /\ state'[m] = "SEC_CONFIRM" <=> state[m] = "SEC_CONFIRM"
  BY <1>1
<1> QED BY <1>3, <1>4 DEF CInv, CipherExclusive, Ciphered

Counted == LockAccounting' /\ CipherExclusive'

LEMMA PhyCounts == CInv /\ Phy => Counted
<1> SUFFICES ASSUME CInv, Phy PROVE Counted
  OBVIOUS
<1> USE DEF CInv, IInv, TypeOK, frames, requests, security
<1>1. CASE PhyIdle
  BY <1>1 DEF PhyIdle, Counted, LockAccounting, CipherExclusive, Allocated
<1>2. ASSUME NEW h \in Inbound, PhyRx(h) PROVE Counted
  <2>1. PICK n \in Slots : /\ state[n] = "FREE" /\ lock' = lock + 1
                           /\ state' = [state EXCEPT ![n] = "RECEIVED"]
    BY <1>2 DEF PhyRx, Alloc
  <2>2. UNCHANGED <<queue, radio, secFrames, secActive, secLeft>>
    BY <1>2 DEF PhyRx
  <2>3. LockAccounting'
    BY <2>1, <2>2, LockSteps
  <2>4. CipherExclusive'
    BY <2>1, <2>2, CipherApart DEF SecStates, Pending
  <2> QED BY <2>3, <2>4 DEF Counted
<1>3. ASSUME NEW s \in PhyStatuses, PhyConf(s) PROVE Counted
  <2>1. /\ radio \in Slots /\ state[radio] = "WAIT_CONF" /\ radio' = NULL
        /\ state' = [state EXCEPT ![radio] = "SENT"]
        /\ lock' = lock - 1
    BY <1>3 DEF PhyConf, RadioOwner
  <2>2. UNCHANGED <<queue, secFrames, secActive, secLeft>>
    BY <1>3 DEF PhyConf
  <2>3. Allocated' = Allocated
    BY <2>1 DEF Allocated
  <2>4. Cardinality(Allocated) \in Nat /\ Len(queue) \in Nat
    BY <2>1, <2>3, PoolCount DEF Allocated
  <2>5. LockAccounting'
    BY <2>1, <2>2, <2>3, <2>4 DEF LockAccounting
  <2>6. CipherExclusive'
    BY <2>1, <2>2, CipherApart DEF SecStates, Pending
  <2> QED BY <2>5, <2>6 DEF Counted
<1> QED BY <1>1, <1>2, <1>3 DEF Phy

LEMMA RxCounts ==
  ASSUME CInv, NEW n \in Slots, RxStep(n)
  PROVE  Counted
<1> USE DEF CInv, IInv, TypeOK
<1>0. UNCHANGED <<queue, radio, secActive, secLeft>>
  BY DEF RxStep, requests
<1>1. CASE RxReceived(n)
  <2>1. \A dup \in BOOLEAN : Sorted(hdr[n], dup) \in RxStates
    BY DEF Sorted, Deliver, RxStates
  <2>2. PICK st \in RxStates :
          \/ \E m \in Slots :
               /\ Alloc(m)
               /\ state' = [[state EXCEPT ![n] = st] EXCEPT ![m] = "DELAY"]
               /\ lock' = lock + 1
          \/ /\ state' = [state EXCEPT ![n] = st]
             /\ lock' = lock
    BY <1>1, <2>1 DEF RxReceived
  <2>3. state[n] = "RECEIVED" /\ secFrames' = secFrames
    BY <1>1 DEF RxReceived
  <2>4. CipherExclusive'
    BY <1>0, <2>2, <2>3, CipherApart DEF Alloc, SecStates, Pending, RxStates
  <2>5. LockAccounting'
    <3>1. CASE \E m \in Slots :
                 /\ Alloc(m)
                 /\ state' = [[state EXCEPT ![n] = st] EXCEPT ![m] = "DELAY"]
                 /\ lock' = lock + 1
      <4>1. PICK m \in Slots : /\ state[m] = "FREE" /\ state'[m] = "DELAY"
                               /\ \A k \in Slots \ {m} : state'[k] = "FREE" <=> state[k] = "FREE"
        BY <2>3, <3>1 DEF Alloc, RxStates
      <4> QED BY <1>0, <3>1, <4>1, LockSteps
    <3>2. CASE state' = [state EXCEPT ![n] = st] /\ lock' = lock
      BY <1>0, <2>3, <3>2, LockSteps DEF RxStates
    <3> QED BY <2>2, <3>1, <3>2
  <2> QED BY <2>4, <2>5 DEF Counted
<1>2. CASE RxDecrypt(n)
  <2>1. LockAccounting'
    BY <1>0, <1>2, LockSteps DEF RxDecrypt
  <2>2. /\ state[n] = "DECRYPT" /\ secFrames' = secFrames + 1
        /\ state' = [state EXCEPT ![n] = "DECRYPT_PENDING"]
    BY <1>2 DEF RxDecrypt
  <2>3. CipherExclusive'
    BY <1>0, <2>2, CipherGains DEF Pending, SecStates
  <2> QED BY <2>1, <2>3 DEF Counted
<1>3. CASE RxIndicate(n)
  <2> DEFINE h  == hdr[n]
             st == [m \in Slots |-> IF m = n THEN "FINISH"
                                    ELSE IF m \in Acknowledged(h) THEN "CONFIRM"
                                    ELSE state[m]]
             ts == [m \in Slots |-> IF m \in Acknowledged(h)
                                    THEN [tx[m] EXCEPT !.acked = TRUE] ELSE tx[m]]
  <2>1. st \in [Slots -> States] /\ ts \in [Slots -> TxInfo]
    BY TxUpdate DEF States, RxStates, TxStates
  <2>2. /\ state[n] = "INDICATE" /\ n \notin Acknowledged(h)
        /\ \A m \in Acknowledged(h) : state[m] = "WAIT_ACK"
        /\ secFrames' = secFrames
    BY <1>3 DEF RxIndicate, Acknowledged, Acknowledges
  <2>3. CASE \E m \in Slots : Alloc(m) /\
               TxFrame(st, hdr, ts, m, Command(h, h.sec), "command") /\ lock' = lock + 1
    <3>1. PICK m \in Slots : Alloc(m) /\
                 TxFrame(st, hdr, ts, m, Command(h, h.sec), "command") /\ lock' = lock + 1
      BY <2>3
    <3>2. /\ state'[m] \in {"ENCRYPT", "DELAY"} /\ state[m] = "FREE"
          /\ \A l \in Slots \ {m} : state'[l] = st[l]
      <4> HIDE DEF st, ts, h
      <4> QED BY <2>1, <3>1, TxFrameOrdinary DEF Alloc
    <3>3. LockAccounting'
      <4>1. \A l \in Slots \ {m} : state'[l] = "FREE" <=> state[l] = "FREE"
        BY <2>2, <3>2
      <4>2. lock' = lock + 1 /\ state'[m] # "FREE" /\ state[m] = "FREE"
        BY <3>1, <3>2
      <4> HIDE DEF st, ts, h
      <4> QED BY SMTT(30), <1>0, <4>1, <4>2, LockSteps
    <3>4. CipherExclusive'
      BY <1>0, <2>2, <3>2, CipherApart DEF SecStates, Pending
    <3> QED BY <3>3, <3>4 DEF Counted
  <2>4. CASE state' = st /\ lock' = lock
    <3>1. LockAccounting'
      BY <1>0, <2>2, <2>4, LockSteps
    <3>2. CipherExclusive'
      BY <1>0, <2>2, <2>4, CipherApart DEF SecStates, Pending
    <3> QED BY <3>1, <3>2 DEF Counted
  <2> QED BY <1>3, <2>3, <2>4 DEF RxIndicate
<1>4. CASE RxRoute(n)
  <2>0. state[n] = "ROUTE" /\ secFrames' = secFrames
    BY <1>4 DEF RxRoute
  <2>1. CASE TxFrame(state, hdr, tx, n, hdr[n], "routing") /\ lock' = lock
    <3>1. /\ state'[n] \in {"ENCRYPT", "DELAY"}
          /\ \A m \in Slots \ {n} : state'[m] = state[m]
      BY <2>1, TxFrameOrdinary
    <3>2. LockAccounting'
      <4>1. lock' = lock /\ state[n] # "FREE" /\ state'[n] # "FREE"
        BY <2>0, <2>1, <3>1
      <4> QED BY SMTT(30), <1>0, <3>1, <4>1, LockSteps
    <3>3. CipherExclusive'
      BY <1>0, <2>0, <3>1, CipherApart DEF SecStates, Pending
    <3> QED BY <3>2, <3>3 DEF Counted
  <2>2. CASE /\ lock' = lock
             /\ \E m \in Slots : Alloc(m) /\
               TxFrame([state EXCEPT ![n] = "FREE"], [hdr EXCEPT ![n] = NoHeader],
                       [tx EXCEPT ![n] = NoTx], m, Command(hdr[n], FALSE), "command")
    <3>1. [state EXCEPT ![n] = "FREE"] \in [Slots -> States]
          /\ [tx EXCEPT ![n] = NoTx] \in [Slots -> TxInfo]
      BY DefaultsType DEF States
    <3>2. PICK m \in Slots :
            /\ state[m] = "FREE" /\ state'[m] \in {"ENCRYPT", "DELAY"}
            /\ \A l \in Slots \ {m} : state'[l] = [state EXCEPT ![n] = "FREE"][l]
      BY ZenonT(30), <2>2, <3>1, TxFrameOrdinary DEF Alloc
    <3>3. /\ n # m /\ state'[n] = "FREE"
          /\ \A l \in Slots \ {m, n} : state'[l] = state[l]
      BY <2>0, <3>2
    <3>4. Cardinality(Allocated') = Cardinality(Allocated)
      <4> DEFINE A == Allocated
                 B == A \ {n}
                 C == Allocated'
      <4>1. /\ A \in SUBSET Slots /\ B \in SUBSET Slots /\ C \in SUBSET Slots
            /\ n \in A /\ n \notin B /\ m \in C /\ m \notin B
            /\ \A l \in Slots \ {n} : l \in A <=> l \in B
            /\ \A l \in Slots \ {m} : l \in B <=> l \in C
        BY <2>0, <3>2, <3>3 DEF Allocated
      <4> HIDE DEF A, B, C
      <4>2. Cardinality(B) = Cardinality(A) - 1 /\ Cardinality(A) \in Nat
        BY <4>1, OneSlot
      <4>3. Cardinality(C) = Cardinality(B) + 1
        BY <4>1, OneSlot
      <4> QED BY <4>2, <4>3 DEF A, C
    <3>5. LockAccounting'
      BY <1>0, <2>2, <3>4 DEF LockAccounting
    <3>6. CipherExclusive'
      BY <1>0, <2>0, <3>2, <3>3, CipherApart DEF SecStates, Pending
    <3> QED BY <3>5, <3>6 DEF Counted
  <2>3. CASE Free(n)
    <3>1. LockAccounting'
      BY <1>0, <2>0, <2>3, LockSteps DEF Free
    <3>2. CipherExclusive'
      BY <1>0, <2>0, <2>3, CipherApart DEF Free, SecStates, Pending
    <3> QED BY <3>1, <3>2 DEF Counted
  <2> QED BY <1>4, <2>1, <2>2, <2>3 DEF RxRoute
<1>5. CASE RxFinish(n)
  <2>0. state[n] = "FINISH" /\ secFrames' = secFrames /\ Free(n)
    BY <1>5 DEF RxFinish
  <2>1. LockAccounting'
    BY <1>0, <2>0, LockSteps DEF Free
  <2>2. CipherExclusive'
    BY <1>0, <2>0, CipherApart DEF Free, SecStates, Pending
  <2> QED BY <2>1, <2>2 DEF Counted
<1> QED BY <1>1, <1>2, <1>3, <1>4, <1>5 DEF RxStep

LEMMA TxCounts ==
  ASSUME CInv, NEW n \in Slots, TxStep(n)
  PROVE  Counted
<1> USE DEF CInv, IInv, TypeOK
<1>0. UNCHANGED <<queue, secActive, secLeft>>
  BY DEF TxStep
<1>1. CASE TxEncrypt(n)
  <2>1. LockAccounting'
    BY <1>0, <1>1, LockSteps DEF TxEncrypt
  <2>2. /\ state[n] = "ENCRYPT" /\ secFrames' = secFrames + 1
        /\ state' = [state EXCEPT ![n] = "ENCRYPT_PENDING"]
    BY <1>1 DEF TxEncrypt
  <2>3. CipherExclusive'
    BY <1>0, <2>2, CipherGains DEF Pending, SecStates
  <2> QED BY <2>1, <2>3 DEF Counted
<1>2. CASE TxDelay(n)
  <2>1. LockAccounting'
    BY <1>0, <1>2, LockSteps DEF TxDelay
  <2>2. CipherExclusive'
    BY <1>0, <1>2, CipherApart DEF TxDelay, SecStates, Pending
  <2> QED BY <2>1, <2>2 DEF Counted
<1>3. CASE TxSend(n)
  <2>1. /\ radio = NULL /\ radio' = n /\ lock' = lock + 1 /\ state[n] = "SEND"
        /\ state' = [state EXCEPT ![n] = "WAIT_CONF"] /\ secFrames' = secFrames
    BY <1>3 DEF TxSend, TxStep, TxReady, Visits
  <2>2. Allocated' = Allocated
    BY <2>1 DEF Allocated
  <2>3. Cardinality(Allocated) \in Nat /\ Len(queue) \in Nat
    BY <2>1, <2>2, PoolCount DEF Allocated
  <2>4. LockAccounting'
    BY <1>0, <2>1, <2>2, <2>3 DEF LockAccounting
  <2>5. CipherExclusive'
    BY <1>0, <2>1, CipherApart DEF SecStates, Pending
  <2> QED BY <2>4, <2>5 DEF Counted
<1>4. CASE TxSent(n)
  <2>1. /\ state[n] = "SENT" /\ lock' = lock /\ radio' = radio /\ secFrames' = secFrames
        /\ \E s \in {"WAIT_ACK", "CONFIRM"} : state' = [state EXCEPT ![n] = s]
    BY <1>4 DEF TxSent
  <2>2. LockAccounting'
    BY <1>0, <2>1, LockSteps
  <2>3. CipherExclusive'
    BY <1>0, <2>1, CipherApart DEF SecStates, Pending
  <2> QED BY <2>2, <2>3 DEF Counted
<1>5. CASE TxConfirm(n)
  <2>1. state[n] = "CONFIRM" /\ Free(n) /\ UNCHANGED <<radio, secFrames>>
    BY <1>5, Zenon DEF TxConfirm
  <2>2. LockAccounting'
    BY <1>0, <2>1, LockSteps DEF Free
  <2>3. CipherExclusive'
    BY <1>0, <2>1, CipherApart DEF Free, SecStates, Pending
  <2> QED BY <2>2, <2>3 DEF Counted
<1> QED BY <1>1, <1>2, <1>3, <1>4, <1>5 DEF TxStep

(* Taking a request out of the queue closes the gap.                       *)
LEMMA Unlinked ==
  ASSUME TypeOK, NEW i \in DOMAIN queue
  PROVE  /\ Unlink(i) \in Seq(Reqs) /\ Len(Unlink(i)) = Len(queue) - 1
         /\ \A j \in 1 .. Len(queue) - 1 :
              Unlink(i)[j] = queue[IF j < i THEN j ELSE j + 1]
<1> DEFINE L == SubSeq(queue, 1, i - 1)
           R == SubSeq(queue, i + 1, Len(queue))
<1>1. /\ queue \in Seq(Reqs) /\ Len(queue) \in Nat /\ i \in 1 .. Len(queue)
      /\ \A j \in 1 .. Len(queue) : queue[j] \in Reqs
  BY DEF TypeOK
<1>2. /\ L \in Seq(Reqs) /\ Len(L) = i - 1
      /\ \A j \in 1 .. i - 1 : L[j] = queue[j]
  BY <1>1, SubSeqProperties
<1>3. /\ R \in Seq(Reqs) /\ Len(R) = Len(queue) - i
      /\ \A j \in 1 .. Len(queue) - i : R[j] = queue[i + j]
  BY <1>1, SubSeqProperties
<1>4. Unlink(i) = L \o R
  BY DEF Unlink, RemoveAt
<1> HIDE DEF L, R
<1>5. /\ L \o R \in Seq(Reqs) /\ Len(L \o R) = Len(queue) - 1
      /\ \A j \in 1 .. Len(queue) - 1 :
           (L \o R)[j] = IF j <= i - 1 THEN L[j] ELSE R[j - (i - 1)]
  <2>1. /\ L \o R \in Seq(Reqs) /\ Len(L \o R) = Len(L) + Len(R)
        /\ \A j \in 1 .. Len(L) + Len(R) :
             (L \o R)[j] = IF j <= Len(L) THEN L[j] ELSE R[j - Len(L)]
    BY ZenonT(30), <1>2, <1>3, ConcatProperties
  <2>2. Len(L) = i - 1 /\ Len(L) + Len(R) = Len(queue) - 1
    BY <1>1, <1>2, <1>3
  <2> QED BY <2>1, <2>2
<1>6. \A j \in 1 .. Len(queue) - 1 :
        (L \o R)[j] = queue[IF j < i THEN j ELSE j + 1]
  <2> SUFFICES ASSUME NEW j \in 1 .. Len(queue) - 1
               PROVE  (L \o R)[j] = queue[IF j < i THEN j ELSE j + 1]
    OBVIOUS
  <2>1. CASE j < i
    BY <1>1, <1>2, <1>5, <2>1
  <2>2. CASE ~ j < i
    <3>1. j - (i - 1) \in 1 .. Len(queue) - i /\ i + (j - (i - 1)) = j + 1
      BY <1>1, <2>2
    <3>2. (L \o R)[j] = R[j - (i - 1)]
      BY <1>1, <1>5, <2>2
    <3>3. R[j - (i - 1)] = queue[j + 1]
      BY <1>3, <3>1
    <3> QED BY <2>2, <3>2, <3>3
  <2> QED BY <2>1, <2>2
<1> QED BY <1>4, <1>5, <1>6

(* A step that queues a request or takes one out, and counts it.           *)
LEMMA LockRequests ==
  ASSUME CInv, UNCHANGED <<state, radio>>, lock' \in Int, Len(queue') \in Nat,
         lock' - lock = Len(queue') - Len(queue)
  PROVE  LockAccounting'
<1>1. Len(queue) \in Nat /\ lock \in Int
  BY DEF CInv, IInv, TypeOK
<1>2. /\ lock = Cardinality(Allocated) + Len(queue) + (IF radio = NULL THEN 0 ELSE 1)
      /\ radio' = radio
  BY DEF CInv, LockAccounting
<1>3. Allocated' = Allocated
  BY DEF Allocated
<1>4. Cardinality(Allocated) \in Nat
  <2>1. 1 \in Slots
    BY DEF Slots
  <2> QED BY <2>1, PoolCount
<1>5. lock' = Cardinality(Allocated') + Len(queue') + (IF radio' = NULL THEN 0 ELSE 1)
  BY SMTT(30), <1>1, <1>2, <1>3, <1>4
<1> QED BY <1>5 DEF LockAccounting

LEMMA ReqCounts ==
  ASSUME CInv, NEW i \in DOMAIN queue, ReqStep(i)
  PROVE  Counted
<1> USE DEF CInv, IInv, TypeOK
<1>0. UNCHANGED <<radio, secFrames, secActive, secLeft>>
  BY DEF ReqStep, security
<1>1. CASE /\ queue' = queue /\ lock' = lock + 1
           /\ \E n \in Slots : Alloc(n) /\
             TxFrame(state, hdr, tx, n, FrameHeader(reqs[queue[i]].opt, "all"), "request")
  <2>1. PICK n \in Slots :
          /\ state[n] = "FREE" /\ state'[n] \in {"ENCRYPT", "DELAY"}
          /\ \A m \in Slots \ {n} : state'[m] = state[m]
    BY <1>1, TxFrameOrdinary DEF Alloc
  <2>2. LockAccounting'
    BY <1>0, <1>1, <2>1, LockSteps
  <2>3. CipherExclusive'
    BY <1>0, <2>1, CipherApart DEF SecStates, Pending
  <2> QED BY <2>2, <2>3 DEF Counted
<1>2. CASE UNCHANGED frames /\ lock' - lock = Len(queue') - Len(queue) /\ lock' \in Int
  <2>1. UNCHANGED state
    BY <1>2 DEF frames
  <2>2. LockAccounting'
    <3>1. queue' \in Seq(Reqs)
      BY Unlinked DEF ReqStep, ReqSend, ReqConfirm
    <3> QED BY <1>0, <1>2, <2>1, <3>1, LockRequests
  <2>3. CipherExclusive'
    BY <1>0, <2>1, CipherApart
  <2> QED BY <2>2, <2>3 DEF Counted
<1>3. ReqConfirm(i) => UNCHANGED frames /\ lock' = lock - 1 /\ Len(queue') = Len(queue) - 1
  BY Unlinked DEF ReqConfirm
<1>4. ReqSend(i) => /\ queue' = queue
                    /\ \/ UNCHANGED frames /\ lock' = lock
                       \/ /\ lock' = lock + 1
                          /\ \E n \in Slots : Alloc(n) /\
                               TxFrame(state, hdr, tx, n,
                                       FrameHeader(reqs[queue[i]].opt, "all"), "request")
  BY Zenon DEF ReqSend, frames
<1>5. Len(queue) \in Nat
  OBVIOUS
<1> QED BY <1>1, <1>2, <1>3, <1>4, <1>5 DEF ReqStep

LEMMA SecCounts == CInv /\ SecStep => Counted
<1> SUFFICES ASSUME CInv, SecStep PROVE Counted
  OBVIOUS
<1> USE DEF CInv, IInv, TypeOK
<1>0. UNCHANGED <<queue, lock, radio>>
  BY DEF SecStep, requests
<1>st. /\ Pending \subseteq SecStates /\ {"PROCESS", "SEC_CONFIRM"} \subseteq SecStates
       /\ "FREE" \notin SecStates /\ Pending \cap {"PROCESS", "SEC_CONFIRM"} = {}
  BY DEF Pending, SecStates
<1>1. ASSUME NEW n \in Slots, SecStart(n) PROVE Counted
  <2>1. /\ state[n] \in Pending /\ state' = [state EXCEPT ![n] = "PROCESS"]
        /\ secActive = NULL /\ secActive' = n /\ secFrames' = secFrames
    BY <1>1 DEF SecStart
  <2>2. LockAccounting'
    BY <1>0, <1>st, <2>1, LockSteps
  <2>3. Ciphered' = Ciphered
    BY <1>st, <2>1 DEF Ciphered
  <2>4. secFrames' = Cardinality(Ciphered')
    BY <2>1, <2>3 DEF CipherExclusive, Ciphered
  <2> QED BY <1>st, <2>1, <2>2, <2>4 DEF Counted, CipherExclusive, Ciphered
<1>2. CASE SecProcess
  <2>1. /\ secActive \in Slots /\ state[secActive] = "PROCESS"
        /\ secLeft' = IF secLeft = 0 THEN 0 ELSE secLeft - 1
        /\ state' = [state EXCEPT ![secActive] =
                        IF secLeft > 1 THEN "PROCESS" ELSE "SEC_CONFIRM"]
        /\ secActive' = secActive /\ secFrames' = secFrames
    BY <1>2 DEF SecProcess
  <2>2. LockAccounting'
    BY <1>0, <1>st, <2>1, LockSteps
  <2>3. Ciphered' = Ciphered
    BY <1>st, <2>1 DEF Ciphered
  <2>4. secFrames' = Cardinality(Ciphered')
    BY <2>1, <2>3 DEF CipherExclusive, Ciphered
  <2> QED BY <2>1, <2>2, <2>4 DEF Counted, CipherExclusive, Ciphered
<1>3. CASE SecConfirm
  <2>1. /\ secActive \in Slots /\ state[secActive] = "SEC_CONFIRM" /\ secLeft' = secLeft
        /\ \E s \in {"DELAY", "INDICATE", "FINISH"} : state' = [state EXCEPT ![secActive] = s]
        /\ secActive' = NULL /\ secFrames' = secFrames - 1
    BY <1>3 DEF SecConfirm
  <2>2. LockAccounting'
    BY <1>0, <1>st, <2>1, LockSteps
  <2>3. state'[secActive] \notin SecStates
    BY <2>1 DEF SecStates, Pending
  <2>4. Cardinality(Ciphered') = Cardinality(Ciphered) - 1
    BY <1>st, <2>1, <2>3, CipherCount
  <2>5. secFrames' = Cardinality(Ciphered')
    BY <2>1, <2>4 DEF CipherExclusive, Ciphered
  <2> QED BY <1>st, <2>1, <2>2, <2>3, <2>5 DEF Counted, CipherExclusive, Ciphered
<1>4. CASE SecIdle
  BY <1>0, <1>4 DEF SecIdle, security, Counted, LockAccounting, Allocated, CipherExclusive
<1> QED BY <1>1, <1>2, <1>3, <1>4 DEF SecStep

LEMMA TicksCount == CInv /\ (AckTick \/ DelayTick) => Counted
<1> SUFFICES ASSUME CInv, AckTick \/ DelayTick PROVE Counted
  OBVIOUS
<1> USE DEF CInv, IInv, TypeOK
<1>0. UNCHANGED <<queue, radio, lock, secFrames, secActive, secLeft>>
  BY DEF AckTick, DelayTick, requests, security
<1>1. \A n \in Slots :
        \/ state'[n] = state[n]
        \/ state[n] = "WAIT_ACK" /\ state'[n] = "CONFIRM"
        \/ state[n] = "WAIT_DELAY" /\ state'[n] = "SEND"
  BY DEF AckTick, DelayTick, Expires
<1>2. Allocated' = Allocated
  BY <1>1 DEF Allocated
<1>3. CipherExclusive'
  BY <1>0, <1>1, CipherApart DEF SecStates, Pending
<1> QED BY <1>0, <1>2, <1>3 DEF Counted, LockAccounting

LEMMA AppCounts == CInv /\ AppStep => Counted
<1> SUFFICES ASSUME CInv, AppStep PROVE Counted
  OBVIOUS
<1> USE DEF CInv, IInv, TypeOK
<1>0. UNCHANGED <<state, radio, secFrames, secActive, secLeft>>
  BY DEF AppStep, frames, security
<1>1. lock' - lock = Len(queue') - Len(queue) /\ lock' \in Int /\ Len(queue') \in Nat
  <2>1. ASSUME NEW r \in Reqs, NEW opt \in Options, NWK_DataReq(r, opt)
        PROVE  lock' = lock + 1 /\ Len(queue') = Len(queue) + 1
    BY <2>1 DEF NWK_DataReq
  <2> QED BY <2>1 DEF AppStep, requests
<1>2. LockAccounting'
  BY <1>0, <1>1, LockRequests
<1>3. CipherExclusive'
  BY <1>0, CipherApart
<1> QED BY <1>2, <1>3 DEF Counted

LEMMA CountInit == Init => CInv
<1> SUFFICES ASSUME Init PROVE CInv
  OBVIOUS
<1>1. IInv
  BY IInvInit
<1>2. Allocated = {} /\ {n \in Slots : state[n] \in SecStates} = {}
  BY DEF Init, Allocated, SecStates, Pending
<1>3. Len(queue) = 0 /\ lock = 0 /\ radio = NULL /\ secFrames = 0 /\ secActive = NULL
  BY DEF Init
<1>4. LockAccounting
  BY <1>2, <1>3, FS_EmptySet DEF LockAccounting
<1>5. CipherExclusive
  BY <1>2, <1>3, FS_EmptySet DEF Init, CipherExclusive
<1> QED BY <1>1, <1>4, <1>5 DEF CInv

LEMMA CountNext == CInv /\ [Next]_vars => CInv'
<1> SUFFICES ASSUME CInv, [Next]_vars PROVE Counted
  BY StepKeeps DEF CInv, Counted
<1>1. CASE UNCHANGED <<state, queue, lock, radio, secFrames, secActive, secLeft>>
  BY <1>1 DEF CInv, Counted, LockAccounting, CipherExclusive, Allocated
<1>2. RxEnd \/ TxEnd \/ ReqNone \/ TimersDone \/ UNCHANGED vars
        => UNCHANGED <<state, queue, lock, radio, secFrames, secActive, secLeft>>
  BY DEF RxEnd, TxEnd, ReqNone, TimersDone, frames, requests, security, vars
<1> QED BY <1>1, <1>2, PhyCounts, RxCounts, TxCounts, ReqCounts, SecCounts, TicksCount,
           AppCounts DEF Next, Rx, Tx, Req

LEMMA CountInvariant == Spec => []CInv
BY CountInit, CountNext, PTL DEF Spec

(* nwkIb.lock counts the allocated frames, the queued requests and the     *)
(* transmission in progress (LockAccounting): every error path gives back  *)
(* what it took, so that NWK_Busy is not stuck.                            *)
THEOREM LockAccounted == Spec => []LockAccounting
BY CountInvariant, PTL DEF CInv

(* nwkSecurityActiveFrames counts the frames left for the cipher, and the  *)
(* active frame is the only one in it (CipherExclusive).                   *)
THEOREM CipherExclusiveAlways == Spec => []CipherExclusive
BY CountInvariant, PTL DEF CInv

(***************************************************************************)
(* Requests and their frames.  Underway is where a frame of a request is   *)
(* until its outcome is settled and taken.                                 *)
(***************************************************************************)
Underway == (TxStates \cup SecStates) \ {"DECRYPT_PENDING"}

(* A frame with a confirm callback is on its way out; it has been          *)
(* acknowledged if it is settled with success, and only then.              *)
FrameSound(n) ==
  /\ tx[n].confirm => state[n] \in Underway
  /\ tx[n].confirm /\ state[n] \in {"PROCESS", "SEC_CONFIRM"} => secEncrypt
  /\ state[n] # "CONFIRM" => ~ tx[n].acked
  /\ state[n] = "WAIT_ACK" => tx[n].status = "SUCCESS"
  /\ state[n] = "CONFIRM" /\ hdr[n].src = "self" /\ hdr[n].ack
       => (tx[n].status = "SUCCESS" <=> tx[n].acked)
FramesSound == \A n \in Slots : FrameSound(n)

(* The queue holds the requests in use, each once.                         *)
QueueSound ==
  /\ \A i, j \in DOMAIN queue : queue[i] = queue[j] => i = j
  /\ \A r \in Reqs : reqs[r].state # "IDLE" <=> \E i \in DOMAIN queue : queue[i] = r
  /\ \A r \in Reqs : reqs[r].state = "IDLE" => reqs[r] = IdleReq
  /\ \A r \in Reqs : reqs[r].state = "INITIAL" => reqs[r].frame = NULL /\ ~ reqs[r].acked

(* A waiting request points at its frame, which asks for what the request  *)
(* asks for; a frame with a confirm callback has such a request; and no    *)
(* request further up the queue points at the frame of a waiting one.      *)
Linked(r, n) ==
  /\ reqs[r].frame = n
  /\ tx[n].confirm /\ hdr[n].src = "self" /\ hdr[n].ack = reqs[r].opt.ack
LinksSound ==
  /\ \A r \in Reqs : reqs[r].state = "WAIT_CONF" => \E n \in Slots : Linked(r, n)
  /\ \A n \in Slots : tx[n].confirm =>
       \E r \in Reqs : reqs[r].state = "WAIT_CONF" /\ reqs[r].frame = n
  /\ \A i, j \in DOMAIN queue :
       i < j /\ Waiting(j) => reqs[queue[i]].frame # reqs[queue[j]].frame

SInv == CInv /\ FramesSound /\ QueueSound /\ LinksSound

LEMMA LinksMatch == SInv => ConfirmMatches
<1> SUFFICES ASSUME SInv PROVE ConfirmMatches
  OBVIOUS
<1> USE DEF SInv, QueueSound, LinksSound
<1>0. queue \in Seq(Reqs) /\ Len(queue) \in Nat /\ DOMAIN queue = 1 .. Len(queue)
      /\ \A i \in DOMAIN queue : queue[i] \in Reqs
  BY DEF CInv, IInv, TypeOK
<1>1. ASSUME NEW i \in DOMAIN queue, Waiting(i), NEW n \in Slots, Owns(i, n)
      PROVE  Partners(i, n)
  BY <1>0, <1>1 DEF Partners, Owns, Waiting
<1>2. ASSUME NEW n \in Slots, tx[n].confirm
      PROVE  \E i \in DOMAIN queue : Partners(i, n)
  <2>1. PICK r \in Reqs : reqs[r].state = "WAIT_CONF" /\ reqs[r].frame = n
    BY <1>2
  <2>2. PICK i \in DOMAIN queue : queue[i] = r
    BY <2>1
  <2> QED BY <1>1, <2>1, <2>2 DEF Owns, Waiting
<1>3. ASSUME NEW i \in DOMAIN queue, Waiting(i)
      PROVE  \E n \in Slots : Partners(i, n) /\ tx[n].confirm
  <2>1. PICK n \in Slots : Linked(queue[i], n)
    BY <1>0, <1>3 DEF Waiting
  <2> QED BY <1>1, <1>3, <2>1 DEF Linked, Owns
<1> QED BY <1>2, <1>3 DEF ConfirmMatches

(* Most steps leave every request with its frame.                          *)
Steady(n) ==
  /\ tx'[n].confirm <=> tx[n].confirm
  /\ tx[n].confirm => hdr'[n].src = hdr[n].src /\ hdr'[n].ack = hdr[n].ack
  /\ FrameSound(n)'

LEMMA SteadySteps ==
  ASSUME SInv, UNCHANGED requests, \A n \in Slots : Steady(n)
  PROVE  FramesSound' /\ QueueSound' /\ LinksSound'
<1>1. UNCHANGED <<reqs, queue>>
  BY DEF requests
<1>2. FramesSound' /\ QueueSound'
  BY <1>1 DEF SInv, Steady, FramesSound, QueueSound
<1>3. \A r \in Reqs, n \in Slots : Linked(r, n) => Linked(r, n)'
  BY <1>1 DEF Linked, Steady
<1>4. \A i \in DOMAIN queue : Waiting(i)' <=> Waiting(i)
  BY <1>1 DEF Waiting
<1>5. LinksSound'
  BY <1>1, <1>3, <1>4 DEF SInv, LinksSound, Steady
<1> QED BY <1>2, <1>5

LEMMA SteadyElse ==
  ASSUME SInv, UNCHANGED <<state, hdr, tx, secEncrypt>>
  PROVE  \A n \in Slots : Steady(n)
BY DEF SInv, FramesSound, FrameSound, Steady

LEMMA OutgoingFlags ==
  \A d, kind : /\ Outgoing(d, kind).confirm <=> kind = "request"
               /\ ~ Outgoing(d, kind).acked
BY Zenon DEF Outgoing

(* What nwkTxFrame makes of the frame it is given.                         *)
LEMMA TxFrameEffect ==
  ASSUME NEW st \in [Slots -> States], NEW hs \in [Slots -> Header],
         NEW ts \in [Slots -> TxInfo], NEW n \in Slots, NEW h \in Header,
         NEW kind, TxFrame(st, hs, ts, n, h, kind)
  PROVE  /\ state'[n] \in {"ENCRYPT", "DELAY"}
         /\ hdr'[n].src = h.src /\ hdr'[n].ack = h.ack
         /\ tx'[n].confirm <=> kind = "request"
         /\ ~ tx'[n].acked
         /\ \A m \in Slots \ {n} : state'[m] = st[m] /\ hdr'[m] = hs[m] /\ tx'[m] = ts[m]
<1>1. PICK mac \in MacDsts(h, kind) : \E d \in Delays(mac) :
        /\ state' = [st EXCEPT ![n] = IF h.sec /\ kind # "routing"
                                       THEN "ENCRYPT" ELSE "DELAY"]
        /\ hdr' = [hs EXCEPT ![n] = [h EXCEPT !.mac = mac]]
        /\ tx' = [ts EXCEPT ![n] = Outgoing(d, kind)]
  BY DEF TxFrame
<1>a. PICK d : tx' = [ts EXCEPT ![n] = Outgoing(d, kind)]
  BY <1>1
<1>2. hdr'[n] = [h EXCEPT !.mac = mac] /\ tx'[n] = Outgoing(d, kind)
  BY <1>1, <1>a
<1>3. hdr'[n].src = h.src /\ hdr'[n].ack = h.ack
  BY <1>2 DEF Header
<1>4. (tx'[n].confirm <=> kind = "request") /\ ~ tx'[n].acked
  BY <1>2, OutgoingFlags
<1> QED BY <1>1, <1>3, <1>4

(* A received frame has no confirm callback and is not acknowledged.       *)
LEMMA ReceivedPlain ==
  ASSUME SInv, NEW n \in Slots, state[n] \in RxStates \cup {"FREE"}
  PROVE  ~ tx[n].confirm /\ ~ tx[n].acked
BY DEF SInv, FramesSound, FrameSound, Underway, RxStates, TxStates, SecStates, Pending

(* A slot that is taken for a frame without a callback, one that is freed  *)
(* or moves on as a received frame, and one that is left alone.            *)
Silent(n) ==
  /\ ~ tx[n].confirm /\ ~ tx'[n].confirm /\ ~ tx'[n].acked
  /\ state'[n] \notin {"CONFIRM", "WAIT_ACK"}
Alone(n) ==
  state'[n] = state[n] /\ hdr'[n] = hdr[n] /\ tx'[n] = tx[n] /\ secEncrypt' = secEncrypt

LEMMA SilentSteady == ASSUME NEW n, Silent(n) PROVE Steady(n)
BY DEF Silent, Steady, FrameSound

LEMMA AloneSteady == ASSUME SInv, NEW n \in Slots, Alone(n) PROVE Steady(n)
BY DEF SInv, FramesSound, FrameSound, Alone, Steady

LEMMA FreedPlain ==
  ASSUME TypeOK, NEW n \in Slots, Free(n)
  PROVE  /\ ~ tx'[n].confirm /\ ~ tx'[n].acked /\ state'[n] = "FREE"
         /\ \A m \in Slots \ {n} : state'[m] = state[m] /\ hdr'[m] = hdr[m] /\ tx'[m] = tx[m]
BY DEF Free, TypeOK, NoTx

LEMMA PhySteady == SInv /\ Phy => \A n \in Slots : Steady(n)
<1> SUFFICES ASSUME SInv, Phy PROVE \A n \in Slots : Steady(n)
  OBVIOUS
<1> USE DEF SInv, CInv, IInv, TypeOK
<1>1. CASE PhyIdle
  BY <1>1, SteadyElse DEF PhyIdle, frames, security
<1>2. ASSUME NEW h \in Inbound, PhyRx(h) PROVE \A n \in Slots : Steady(n)
  <2>1. PICK n \in Slots : /\ state[n] = "FREE" /\ hdr' = [hdr EXCEPT ![n] = h]
                           /\ state' = [state EXCEPT ![n] = "RECEIVED"]
    BY <1>2 DEF PhyRx, Alloc
  <2>2. tx' = tx /\ secEncrypt' = secEncrypt
    BY <1>2 DEF PhyRx, security
  <2>3. ~ tx[n].confirm /\ ~ tx[n].acked
    BY <2>1 DEF FramesSound, FrameSound, Underway, TxStates, SecStates, Pending
  <2>4. \A m \in Slots \ {n} : state'[m] = state[m] /\ hdr'[m] = hdr[m]
    BY <2>1
  <2>5. Steady(n)
    BY <2>1, <2>2, <2>3 DEF Steady, FrameSound
  <2>6. \A m \in Slots \ {n} : Steady(m)
    BY <2>2, <2>4 DEF Steady, FramesSound, FrameSound
  <2> QED BY <2>5, <2>6
<1>3. ASSUME NEW s \in PhyStatuses, PhyConf(s) PROVE \A n \in Slots : Steady(n)
  <2>1. PICK n \in Slots : n = radio
    BY <1>3 DEF PhyConf
  <2>2. /\ state[n] = "WAIT_CONF" /\ state' = [state EXCEPT ![n] = "SENT"]
        /\ tx' = [tx EXCEPT ![n].status = s]
        /\ hdr' = hdr /\ secEncrypt' = secEncrypt
    BY <1>3, <2>1 DEF PhyConf, RadioOwner, security
  <2>3. tx'[n].confirm = tx[n].confirm /\ tx'[n].acked = tx[n].acked
    BY <2>2 DEF TxInfo
  <2>4. Steady(n)
    <3>1. state'[n] = "SENT" /\ hdr'[n] = hdr[n] /\ "SENT" \in Underway
      BY <2>2 DEF Underway, TxStates, SecStates, Pending
    <3>2. ~ tx[n].acked
      BY <2>2 DEF FramesSound, FrameSound
    <3> QED BY <2>3, <3>1, <3>2 DEF Steady, FrameSound
  <2>5. \A m \in Slots \ {n} : Alone(m)
    BY <2>2 DEF Alone
  <2> QED BY <2>4, <2>5, AloneSteady
<1> QED BY <1>1, <1>2, <1>3 DEF Phy

LEMMA RxSteady ==
  ASSUME SInv, NEW n \in Slots, RxStep(n)
  PROVE  \A k \in Slots : Steady(k)
<1> USE DEF SInv, CInv, IInv, TypeOK
<1>0. secEncrypt' = secEncrypt /\ hdr[n] \in Header
  BY DEF RxStep
<1>1. CASE RxReceived(n)
  <2>1. \A dup \in BOOLEAN : Sorted(hdr[n], dup) \in RxStates
    BY DEF Sorted, Deliver, RxStates
  <2>2. state[n] = "RECEIVED" /\ ~ tx[n].confirm /\ ~ tx[n].acked
    BY <1>1, ReceivedPlain DEF RxReceived, RxStates
  <2>3. PICK st \in RxStates :
          \/ \E m \in Slots : \E d \in 1 .. MaxJitter :
               /\ Alloc(m)
               /\ state' = [[state EXCEPT ![n] = st] EXCEPT ![m] = "DELAY"]
               /\ hdr' = [hdr EXCEPT ![m] = hdr[n]]
               /\ tx' = [tx EXCEPT ![m] = Outgoing(d, "routing")]
          \/ /\ state' = [state EXCEPT ![n] = st]
             /\ UNCHANGED <<hdr, tx>>
    BY <1>1, <2>1 DEF RxReceived
  <2>4. CASE state' = [state EXCEPT ![n] = st] /\ UNCHANGED <<hdr, tx>>
    <3>1. Silent(n) /\ \A k \in Slots \ {n} : Alone(k)
      BY <1>0, <2>2, <2>4 DEF Silent, Alone, RxStates
    <3> QED BY <3>1, SilentSteady, AloneSteady
  <2>5. ASSUME NEW m \in Slots, NEW d \in 1 .. MaxJitter, Alloc(m),
               state' = [[state EXCEPT ![n] = st] EXCEPT ![m] = "DELAY"],
               hdr' = [hdr EXCEPT ![m] = hdr[n]],
               tx' = [tx EXCEPT ![m] = Outgoing(d, "routing")]
        PROVE  \A k \in Slots : Steady(k)
    <3>1. state[m] = "FREE" /\ m # n
      BY <2>2, <2>5 DEF Alloc
    <3>2. ~ tx[m].confirm
      BY <3>1, ReceivedPlain
    <3>3. tx'[m] = Outgoing(d, "routing") /\ tx'[n] = tx[n]
      BY <2>5, <3>1
    <3>4. ~ tx'[m].confirm /\ ~ tx'[m].acked
      BY <3>3, OutgoingFlags
    <3>5. Silent(m)
      BY <2>5, <3>2, <3>4 DEF Silent
    <3>6. Silent(n)
      BY <2>2, <2>5, <3>1, <3>3 DEF Silent, RxStates
    <3>7. \A k \in Slots \ {n, m} : Alone(k)
      BY <1>0, <2>5 DEF Alone
    <3> QED BY <3>5, <3>6, <3>7, SilentSteady, AloneSteady
  <2> QED BY <2>3, <2>4, <2>5
<1>2. CASE RxDecrypt(n)
  <2>1. ~ tx[n].confirm /\ ~ tx[n].acked
    BY <1>2, ReceivedPlain DEF RxDecrypt, RxStates
  <2>2. Silent(n) /\ \A k \in Slots \ {n} : Alone(k)
    BY <1>0, <1>2, <2>1 DEF RxDecrypt, Silent, Alone
  <2> QED BY <2>2, SilentSteady, AloneSteady
<1>3. CASE RxIndicate(n)
  <2> DEFINE h  == hdr[n]
             st == [m \in Slots |-> IF m = n THEN "FINISH"
                                    ELSE IF m \in Acknowledged(h) THEN "CONFIRM"
                                    ELSE state[m]]
             ts == [m \in Slots |-> IF m \in Acknowledged(h)
                                    THEN [tx[m] EXCEPT !.acked = TRUE] ELSE tx[m]]
  <2>1. st \in [Slots -> States] /\ ts \in [Slots -> TxInfo]
    BY TxUpdate DEF States, RxStates, TxStates
  <2>2. /\ state[n] = "INDICATE" /\ n \notin Acknowledged(h)
        /\ \A m \in Acknowledged(h) : m \in Slots /\ state[m] = "WAIT_ACK"
    BY <1>3 DEF RxIndicate, Acknowledged, Acknowledges
  <2>3. ~ tx[n].confirm /\ ~ tx[n].acked
    BY <2>2, ReceivedPlain DEF RxStates
  <2>4. \A m \in Acknowledged(h) :
          ts[m].confirm = tx[m].confirm /\ ts[m].acked /\ ts[m].status = tx[m].status
    <3> SUFFICES ASSUME NEW m \in Acknowledged(h)
                 PROVE  ts[m].confirm = tx[m].confirm /\ ts[m].acked /\ ts[m].status = tx[m].status
      OBVIOUS
    <3>1. m \in Slots /\ tx[m] \in TxInfo
      BY <2>2
    <3>2. ts[m] = [tx[m] EXCEPT !.acked = TRUE]
      BY <3>1
    <3> QED BY <3>1, <3>2 DEF TxInfo
  <2>5. ASSUME NEW k \in Slots, state'[k] = st[k], hdr'[k] = hdr[k], tx'[k] = ts[k]
        PROVE  Steady(k)
    <3>1. CASE k = n
      BY <2>2, <2>3, <2>5, <3>1, SilentSteady DEF Silent
    <3>2. CASE k \in Acknowledged(h)
      <4>1. state[k] = "WAIT_ACK" /\ tx[k].status = "SUCCESS" /\ state'[k] = "CONFIRM"
        BY <2>2, <2>5, <3>2 DEF FramesSound, FrameSound
      <4>2. tx'[k].confirm = tx[k].confirm /\ tx'[k].acked /\ tx'[k].status = "SUCCESS"
        BY <2>4, <2>5, <3>2, <4>1
      <4> QED BY <2>5, <4>1, <4>2 DEF Steady, FrameSound, Underway, TxStates, SecStates, Pending
    <3>3. CASE k # n /\ k \notin Acknowledged(h)
      BY <1>0, <2>5, <3>3, AloneSteady DEF Alone
    <3> QED BY <3>1, <3>2, <3>3
  <2>6. CASE \E m \in Slots : Alloc(m) /\
               TxFrame(st, hdr, ts, m, Command(h, h.sec), "command")
    <3>1. PICK m \in Slots : Alloc(m) /\
                 TxFrame(st, hdr, ts, m, Command(h, h.sec), "command")
      BY <2>6
    <3>2. Command(h, h.sec) \in Header
      BY HeaderType DEF Header
    <3>3. /\ state'[m] \in {"ENCRYPT", "DELAY"} /\ ~ tx'[m].confirm /\ ~ tx'[m].acked
          /\ \A k \in Slots \ {m} : state'[k] = st[k] /\ hdr'[k] = hdr[k] /\ tx'[k] = ts[k]
      <4> HIDE DEF st, ts, h
      <4> QED BY SMTT(30), <2>1, <3>1, <3>2, TxFrameEffect
    <3>4. ~ tx[m].confirm
      BY <3>1, ReceivedPlain DEF Alloc
    <3>5. Steady(m)
      BY <3>3, <3>4, SilentSteady DEF Silent
    <3> QED BY <2>5, <3>3, <3>5
  <2>7. CASE state' = st /\ tx' = ts /\ hdr' = hdr
    BY <2>5, <2>7
  <2> QED BY <1>3, <2>6, <2>7 DEF RxIndicate
<1>4. CASE RxRoute(n)
  <2>0. state[n] = "ROUTE" /\ ~ tx[n].confirm
    BY <1>4, ReceivedPlain DEF RxRoute, RxStates
  <2>1. CASE TxFrame(state, hdr, tx, n, hdr[n], "routing")
    <3>1. /\ state'[n] \in {"ENCRYPT", "DELAY"} /\ ~ tx'[n].confirm /\ ~ tx'[n].acked
          /\ \A k \in Slots \ {n} : state'[k] = state[k] /\ hdr'[k] = hdr[k] /\ tx'[k] = tx[k]
      BY <1>0, <2>1, TxFrameEffect
    <3>2. Silent(n) /\ \A k \in Slots \ {n} : Alone(k)
      BY <1>0, <2>0, <3>1 DEF Silent, Alone
    <3> QED BY <3>2, SilentSteady, AloneSteady
  <2>2. CASE \E m \in Slots : Alloc(m) /\
               TxFrame([state EXCEPT ![n] = "FREE"], [hdr EXCEPT ![n] = NoHeader],
                       [tx EXCEPT ![n] = NoTx], m, Command(hdr[n], FALSE), "command")
    <3> DEFINE st == [state EXCEPT ![n] = "FREE"]
               hs == [hdr EXCEPT ![n] = NoHeader]
               ts == [tx EXCEPT ![n] = NoTx]
               error == Command(hdr[n], FALSE)
    <3>1. st \in [Slots -> States] /\ hs \in [Slots -> Header] /\ ts \in [Slots -> TxInfo]
      BY DefaultsType DEF States
    <3>2. /\ st[n] = "FREE" /\ ts[n] = NoTx
          /\ \A k \in Slots \ {n} : st[k] = state[k] /\ hs[k] = hdr[k] /\ ts[k] = tx[k]
      OBVIOUS
    <3>3. error \in Header
      BY <1>0, HeaderType
    <3>4. PICK m \in Slots : Alloc(m) /\
                 TxFrame(st, hs, ts, m, error, "command")
      BY <2>2
    <3> HIDE DEF st, hs, ts, error
    <3>5. /\ state'[m] \in {"ENCRYPT", "DELAY"} /\ ~ tx'[m].confirm /\ ~ tx'[m].acked
          /\ \A k \in Slots \ {m} : state'[k] = st[k] /\ hdr'[k] = hs[k] /\ tx'[k] = ts[k]
      <4>1. TxFrame(st, hs, ts, m, error, "command")
        BY <3>4
      <4>2. /\ state'[m] \in {"ENCRYPT", "DELAY"} /\ ~ tx'[m].acked
            /\ tx'[m].confirm <=> "command" = "request"
            /\ \A k \in Slots \ {m} : state'[k] = st[k] /\ hdr'[k] = hs[k] /\ tx'[k] = ts[k]
        BY ONLY <3>1, <3>3, <4>1, TxFrameEffect
      <4> QED BY ONLY <4>2
    <3>6. m # n /\ ~ tx[m].confirm
      BY <2>0, <3>4, ReceivedPlain DEF Alloc
    <3>7. ~ NoTx.confirm /\ ~ NoTx.acked
      BY DEF NoTx
    <3>8. Silent(m) /\ Silent(n)
      BY <2>0, <3>2, <3>5, <3>6, <3>7 DEF Silent
    <3>9. \A k \in Slots \ {n, m} : Alone(k)
      BY <1>0, <3>2, <3>5 DEF Alone
    <3> QED BY <3>8, <3>9, SilentSteady, AloneSteady
  <2>3. CASE Free(n)
    <3>1. Silent(n) /\ \A k \in Slots \ {n} : Alone(k)
      BY <1>0, <2>0, <2>3, FreedPlain DEF Silent, Alone
    <3> QED BY <3>1, SilentSteady, AloneSteady
  <2> QED BY <1>4, <2>1, <2>2, <2>3 DEF RxRoute
<1>5. CASE RxFinish(n)
  <2>1. Free(n) /\ ~ tx[n].confirm
    BY <1>5, ReceivedPlain DEF RxFinish, RxStates
  <2>2. Silent(n) /\ \A k \in Slots \ {n} : Alone(k)
    BY <1>0, <2>1, FreedPlain DEF Silent, Alone
  <2> QED BY <2>2, SilentSteady, AloneSteady
<1> QED BY <1>1, <1>2, <1>3, <1>4, <1>5 DEF RxStep

(* A frame moves on in its state machine.                                  *)
Ahead == {"ENCRYPT_PENDING", "WAIT_DELAY", "DELAY", "SEND", "WAIT_CONF", "SENT"}
LEMMA AdvanceSteady ==
  ASSUME SInv, NEW n \in Slots, state[n] # "CONFIRM", state'[n] \in Ahead,
         hdr'[n] = hdr[n],
         tx'[n].confirm = tx[n].confirm /\ tx'[n].acked = tx[n].acked
  PROVE  Steady(n)
<1>1. state'[n] \in Underway /\ state'[n] \notin {"PROCESS", "SEC_CONFIRM", "WAIT_ACK", "CONFIRM"}
  BY DEF Ahead, Underway, TxStates, SecStates, Pending
<1>2. ~ tx[n].acked
  BY DEF SInv, FramesSound, FrameSound
<1> QED BY <1>1, <1>2 DEF Steady, FrameSound

LEMMA TxSteady ==
  ASSUME SInv, NEW n \in Slots, TxStep(n), ~ TxConfirm(n)
  PROVE  \A k \in Slots : Steady(k)
<1> USE DEF SInv, CInv, IInv, TypeOK
<1>0. secEncrypt' = secEncrypt /\ hdr' = hdr
  BY DEF TxStep, TxEncrypt, TxDelay, TxSend, TxSent
<1>1. CASE TxEncrypt(n) \/ TxDelay(n) \/ TxSend(n)
  <2>1. /\ tx' = tx /\ state[n] # "CONFIRM"
        /\ \E s \in Ahead : state' = [state EXCEPT ![n] = s]
    BY <1>1 DEF TxEncrypt, TxDelay, TxSend, Ahead
  <2>2. Steady(n)
    BY <1>0, <2>1, AdvanceSteady
  <2>3. \A k \in Slots \ {n} : Alone(k)
    BY <1>0, <2>1 DEF Alone
  <2> QED BY <2>2, <2>3, AloneSteady
<1>2. CASE TxSent(n)
  <2>1. state[n] = "SENT" /\ ~ tx[n].acked
    BY <1>2 DEF TxSent, FramesSound, FrameSound
  <2>2. \A k \in Slots \ {n} : Alone(k)
    BY <1>0, <1>2 DEF TxSent, Alone
  <2>3. CASE /\ tx[n].status = "SUCCESS" /\ state' = [state EXCEPT ![n] = "WAIT_ACK"]
             /\ tx' = [tx EXCEPT ![n].timeout = AckTicks]
    <3>1. tx[n] \in TxInfo /\ tx'[n] = [tx[n] EXCEPT !.timeout = AckTicks]
      BY <2>3
    <3>2. /\ tx'[n].confirm = tx[n].confirm /\ tx'[n].acked = tx[n].acked
          /\ tx'[n].status = tx[n].status
      BY <3>1 DEF TxInfo
    <3>3. "WAIT_ACK" \in Underway
      BY DEF Underway, TxStates, SecStates, Pending
    <3>4. Steady(n)
      BY <1>0, <2>1, <2>3, <3>2, <3>3 DEF Steady, FrameSound
    <3> QED BY <2>2, <3>4, AloneSteady
  <2>4. CASE /\ ~ (tx[n].status = "SUCCESS" /\ hdr[n].src = "self" /\ hdr[n].ack)
             /\ state' = [state EXCEPT ![n] = "CONFIRM"] /\ tx' = tx
    <3>1. "CONFIRM" \in Underway
      BY DEF Underway, TxStates, SecStates, Pending
    <3>2. Steady(n)
      BY <1>0, <2>1, <2>4, <3>1 DEF Steady, FrameSound
    <3> QED BY <2>2, <3>2, AloneSteady
  <2> QED BY <1>2, <2>3, <2>4 DEF TxSent
<1> QED BY <1>1, <1>2 DEF TxStep

LEMMA SecSteady == SInv /\ SecStep => \A n \in Slots : Steady(n)
<1> SUFFICES ASSUME SInv, SecStep PROVE \A n \in Slots : Steady(n)
  OBVIOUS
<1> USE DEF SInv, CInv, IInv, TypeOK
<1>0. tx' = tx /\ hdr' = hdr
  BY DEF SecStep
<1>st. /\ {"PROCESS", "SEC_CONFIRM", "ENCRYPT_PENDING"} \subseteq Underway
       /\ "DECRYPT_PENDING" \notin Underway
  BY DEF Underway, SecStates, Pending
<1>1. ASSUME NEW n \in Slots, SecStart(n) PROVE \A k \in Slots : Steady(k)
  <2>1. /\ state[n] \in {"ENCRYPT_PENDING", "DECRYPT_PENDING"} /\ secActive = NULL
        /\ state' = [state EXCEPT ![n] = "PROCESS"]
        /\ secEncrypt' = (state[n] = "ENCRYPT_PENDING")
    BY <1>1 DEF SecStart, Pending
  <2>2. tx[n].confirm => secEncrypt'
    BY <1>st, <2>1 DEF FramesSound, FrameSound
  <2>3. ~ tx[n].acked
    BY <2>1 DEF FramesSound, FrameSound
  <2>4. Steady(n)
    BY <1>0, <1>st, <2>1, <2>2, <2>3 DEF Steady, FrameSound
  <2>5. \A k \in Slots \ {n} : state'[k] = state[k] /\ state[k] \notin {"PROCESS", "SEC_CONFIRM"}
    BY <2>1 DEF CipherExclusive
  <2>6. \A k \in Slots \ {n} : Steady(k)
    BY <1>0, <2>5 DEF Steady, FramesSound, FrameSound
  <2> QED BY <2>4, <2>6
<1>2. CASE SecProcess
  <2>1. PICK n \in Slots : n = secActive
    BY <1>2 DEF SecProcess
  <2>2. /\ state[n] = "PROCESS" /\ secEncrypt' = secEncrypt
        /\ \E s \in {"PROCESS", "SEC_CONFIRM"} : state' = [state EXCEPT ![n] = s]
    BY <1>2, <2>1 DEF SecProcess
  <2>3. Steady(n)
    BY <1>0, <1>st, <2>2 DEF Steady, FramesSound, FrameSound
  <2>4. \A k \in Slots \ {n} : Alone(k)
    BY <1>0, <2>2 DEF Alone
  <2> QED BY <2>3, <2>4, AloneSteady
<1>3. CASE SecConfirm
  <2>1. PICK n \in Slots : n = secActive
    BY <1>3 DEF SecConfirm
  <2>2. /\ state[n] = "SEC_CONFIRM"
        /\ \E s \in {"DELAY", "INDICATE", "FINISH"} :
             state' = [state EXCEPT ![n] = s] /\ (secEncrypt => s = "DELAY")
    BY <1>3, <2>1 DEF SecConfirm
  <2>3. (tx[n].confirm => secEncrypt) /\ ~ tx[n].acked
    BY <2>2 DEF FramesSound, FrameSound
  <2>4. Steady(n)
    <3>1. CASE tx[n].confirm
      BY <1>0, <2>2, <2>3, <3>1, AdvanceSteady DEF Ahead
    <3>2. CASE ~ tx[n].confirm
      BY <1>0, <2>2, <2>3, <3>2, SilentSteady DEF Silent
    <3> QED BY <3>1, <3>2
  <2>5. \A k \in Slots \ {n} : state'[k] = state[k] /\ state[k] \notin {"PROCESS", "SEC_CONFIRM"}
    BY <2>1, <2>2 DEF CipherExclusive
  <2>6. \A k \in Slots \ {n} : Steady(k)
    BY <1>0, <2>5 DEF Steady, FramesSound, FrameSound
  <2> QED BY <2>4, <2>6
<1>4. CASE SecIdle
  BY <1>0, <1>4, SteadyElse DEF SecIdle, security
<1> QED BY <1>1, <1>2, <1>3, <1>4 DEF SecStep

LEMMA TicksSteady == SInv /\ (AckTick \/ DelayTick) => \A n \in Slots : Steady(n)
<1> SUFFICES ASSUME SInv, AckTick \/ DelayTick, NEW n \in Slots PROVE Steady(n)
  OBVIOUS
<1> USE DEF SInv, CInv, IInv, TypeOK
<1>0. hdr' = hdr /\ secEncrypt' = secEncrypt
  BY DEF AckTick, DelayTick, security
<1>1. ASSUME NEW s
      PROVE  /\ Ticked(n, s) \in TxInfo
             /\ Ticked(n, s).confirm = tx[n].confirm /\ Ticked(n, s).acked = tx[n].acked
             /\ Ticked(n, s).status = tx[n].status
             /\ ~ Waits(n, s) => Ticked(n, s) = tx[n]
  <2>1. tx[n] \in TxInfo
    OBVIOUS
  <2>2. Ticked(n, s) \in TxInfo
    BY <2>1, TxUpdate DEF Ticked
  <2> QED BY <2>1, <2>2 DEF Ticked, TxInfo
<1>2. TimedOut(Ticked(n, "WAIT_ACK")).confirm = tx[n].confirm
      /\ TimedOut(Ticked(n, "WAIT_ACK")).acked = tx[n].acked
      /\ TimedOut(Ticked(n, "WAIT_ACK")).status = "NO_ACK"
  BY <1>1 DEF TimedOut, TxInfo
<1>3. CASE AckTick
  <2>1. /\ state'[n] = IF Expires(n, "WAIT_ACK") THEN "CONFIRM" ELSE state[n]
        /\ tx'[n] = IF Expires(n, "WAIT_ACK") THEN TimedOut(Ticked(n, "WAIT_ACK"))
                    ELSE Ticked(n, "WAIT_ACK")
    BY <1>3 DEF AckTick
  <2>2. CASE Expires(n, "WAIT_ACK")
    <3>1. state[n] = "WAIT_ACK" /\ ~ tx[n].acked /\ state'[n] = "CONFIRM"
      BY <2>1, <2>2 DEF Expires, FramesSound, FrameSound
    <3>2. /\ tx'[n].confirm = tx[n].confirm /\ tx'[n].acked = tx[n].acked
          /\ tx'[n].status # "SUCCESS"
      BY <1>2, <2>1, <2>2
    <3>3. "CONFIRM" \in Underway
      BY DEF Underway, TxStates, SecStates, Pending
    <3> QED BY <1>0, <3>1, <3>2, <3>3 DEF Steady, FrameSound
  <2>3. CASE ~ Expires(n, "WAIT_ACK")
    <3>1. /\ state'[n] = state[n] /\ tx'[n].confirm = tx[n].confirm
          /\ tx'[n].acked = tx[n].acked /\ tx'[n].status = tx[n].status
      BY <1>1, <2>1, <2>3
    <3> QED BY <1>0, <3>1 DEF Steady, FramesSound, FrameSound
  <2> QED BY <2>2, <2>3
<1>4. CASE DelayTick
  <2>1. /\ state'[n] = IF Expires(n, "WAIT_DELAY") THEN "SEND" ELSE state[n]
        /\ tx'[n] = Ticked(n, "WAIT_DELAY")
    BY <1>4 DEF DelayTick
  <2>2. /\ tx'[n].confirm = tx[n].confirm /\ tx'[n].acked = tx[n].acked
        /\ tx'[n].status = tx[n].status
    BY <1>1, <2>1
  <2>3. CASE Expires(n, "WAIT_DELAY")
    BY <1>0, <2>1, <2>2, <2>3, AdvanceSteady DEF Expires, Ahead
  <2>4. CASE ~ Expires(n, "WAIT_DELAY")
    BY <1>0, <2>1, <2>2, <2>4 DEF Steady, FramesSound, FrameSound
  <2> QED BY <2>3, <2>4
<1> QED BY <1>3, <1>4

LEMMA QueueTyped ==
  ASSUME TypeOK
  PROVE  /\ Len(queue) \in Nat /\ DOMAIN queue = 1 .. Len(queue)
         /\ \A i \in DOMAIN queue : queue[i] \in Reqs
BY DEF TypeOK

(* nwkDataReqTxConf finds the request that waits for the frame.            *)
LEMMA FirstOwnerWaits ==
  ASSUME SInv, NEW n \in Slots, tx[n].confirm, NEW i \in DOMAIN queue, FirstOwner(i, n)
  PROVE  Waiting(i) /\ Linked(queue[i], n)
<1> USE DEF SInv, LinksSound, CInv, IInv
<1>1. PICK r \in Reqs : reqs[r].state = "WAIT_CONF" /\ reqs[r].frame = n
  OBVIOUS
<1>2. PICK j \in DOMAIN queue : queue[j] = r
  BY <1>1 DEF QueueSound
<1>3. ~ i < j /\ ~ j < i
  BY <1>1, <1>2, QueueTyped DEF FirstOwner, Owns, Waiting
<1>4. i = j
  BY <1>3, QueueTyped
<1> QED BY <1>1, <1>2, <1>4 DEF Waiting, Linked

(* Two waiting requests wait for two frames.                               *)
LEMMA OneWaits ==
  ASSUME SInv, NEW r \in Reqs, NEW s \in Reqs,
         reqs[r].state = "WAIT_CONF", reqs[s].state = "WAIT_CONF",
         reqs[r].frame = reqs[s].frame
  PROVE  r = s
<1> USE DEF SInv, LinksSound, CInv, IInv
<1>1. PICK i \in DOMAIN queue, j \in DOMAIN queue : queue[i] = r /\ queue[j] = s
  BY DEF QueueSound
<1>2. ~ i < j /\ ~ j < i
  BY SMTT(30), <1>1 DEF Waiting
<1> QED BY <1>1, <1>2, QueueTyped

Sound == FramesSound' /\ QueueSound' /\ LinksSound'

LEMMA TxConfirmSound ==
  ASSUME SInv, NEW n \in Slots, TxStep(n), TxConfirm(n)
  PROVE  Sound
<1> USE DEF SInv, CInv, IInv
<1>0. secEncrypt' = secEncrypt /\ queue' = queue /\ Free(n)
  BY Zenon DEF TxStep, TxConfirm
<1>1. /\ ~ tx'[n].confirm /\ ~ tx'[n].acked /\ state'[n] = "FREE"
      /\ \A k \in Slots \ {n} : state'[k] = state[k] /\ hdr'[k] = hdr[k] /\ tx'[k] = tx[k]
  BY <1>0, FreedPlain
<1>2. FramesSound'
  BY <1>0, <1>1 DEF FramesSound, FrameSound
<1>3. CASE reqs' = reqs /\ ~ tx[n].confirm
  <2>1. \A r \in Reqs, k \in Slots : Linked(r, k) => k # n /\ Linked(r, k)'
    BY <1>1, <1>3 DEF Linked
  <2>2. QueueSound'
    BY <1>0, <1>3 DEF QueueSound
  <2>3. LinksSound'
    BY <1>0, <1>1, <1>3, <2>1 DEF LinksSound, Waiting
  <2> QED BY <1>2, <2>2, <2>3 DEF Sound
<1>4. ASSUME tx[n].confirm, NEW i \in DOMAIN queue, FirstOwner(i, n),
             reqs' = [reqs EXCEPT ![queue[i]].state = "CONFIRM",
                                  ![queue[i]].status = tx[n].status,
                                  ![queue[i]].acked = tx[n].acked]
      PROVE  Sound
  <2> DEFINE r == queue[i]
  <2>1. r \in Reqs /\ reqs[r].state = "WAIT_CONF" /\ reqs[r].frame = n
    BY <1>4, FirstOwnerWaits, QueueTyped DEF Waiting, Linked
  <2> HIDE DEF r
  <2>2. /\ reqs'[r].state = "CONFIRM" /\ reqs'[r].frame = n
        /\ \A s \in Reqs \ {r} : reqs'[s] = reqs[s]
    BY <1>4, <2>1 DEF r, TypeOK, ReqInfo
  <2>3. QueueSound'
    BY <1>0, <2>1, <2>2 DEF QueueSound
  <2>4. \A s \in Reqs, k \in Slots :
          reqs'[s].state = "WAIT_CONF" /\ Linked(s, k) => k # n /\ Linked(s, k)'
    BY <1>1, <2>1, <2>2, OneWaits DEF Linked
  <2>5. ASSUME NEW s \in Reqs, reqs'[s].state = "WAIT_CONF"
        PROVE  \E k \in Slots : Linked(s, k)'
    BY <2>2, <2>4, <2>5 DEF LinksSound
  <2>6. ASSUME NEW k \in Slots, tx'[k].confirm
        PROVE  \E s \in Reqs : reqs'[s].state = "WAIT_CONF" /\ reqs'[s].frame = k
    <3>1. k # n /\ tx[k].confirm
      BY <1>1, <2>6
    <3>2. PICK s \in Reqs : reqs[s].state = "WAIT_CONF" /\ reqs[s].frame = k
      BY <3>1 DEF LinksSound
    <3> QED BY <2>1, <2>2, <3>1, <3>2
  <2>7. \A j \in DOMAIN queue : /\ reqs'[queue[j]].frame = reqs[queue[j]].frame
                                /\ reqs'[queue[j]].state = "WAIT_CONF" => Waiting(j)
    BY <2>1, <2>2, QueueTyped DEF Waiting
  <2>8. LinksSound'
    BY <1>0, <2>5, <2>6, <2>7 DEF LinksSound, Waiting
  <2> QED BY <1>2, <2>3, <2>8 DEF Sound
<1>5. \/ reqs' = reqs /\ (tx[n].confirm => \A i \in DOMAIN queue : ~ Owns(i, n))
      \/ /\ tx[n].confirm
         /\ \E i \in DOMAIN queue :
              /\ FirstOwner(i, n)
              /\ reqs' = [reqs EXCEPT ![queue[i]].state = "CONFIRM",
                                      ![queue[i]].status = tx[n].status,
                                      ![queue[i]].acked = tx[n].acked]
  BY Zenon DEF TxConfirm
<1>6. tx[n].confirm => \E i \in DOMAIN queue : Owns(i, n)
  BY LinksMatch DEF ConfirmMatches, Partners
<1> QED BY <1>3, <1>4, <1>5, <1>6

LEMMA ReqSendSound ==
  ASSUME SInv, NEW i \in DOMAIN queue, ReqStep(i), ReqSend(i)
  PROVE  Sound
<1> USE DEF SInv, CInv, IInv
<1>r. PICK r \in Reqs : r = queue[i]
  BY QueueTyped
<1>0. secEncrypt' = secEncrypt /\ queue' = queue /\ reqs[r].state = "INITIAL"
  BY <1>r DEF ReqStep, ReqSend, security
<1>1. \A j \in 1 .. i - 1 : Waiting(j)
  BY DEF ReqStep, Handles
<1>2. \A j \in DOMAIN queue : j # i => queue[j] \in Reqs \ {r}
  BY <1>r, QueueTyped DEF QueueSound
<1>3. ASSUME reqs' = [reqs EXCEPT ![r].state = "CONFIRM", ![r].status = "OUT_OF_MEMORY"],
             UNCHANGED frames
      PROVE  Sound
  <2>1. /\ reqs'[r].state = "CONFIRM" /\ reqs'[r].frame = reqs[r].frame
        /\ \A s \in Reqs \ {r} : reqs'[s] = reqs[s]
    BY <1>0, <1>3 DEF TypeOK, ReqInfo
  <2>2. UNCHANGED <<state, hdr, tx, secEncrypt>>
    BY <1>0, <1>3 DEF frames
  <2>3. FramesSound'
    BY <2>2 DEF FramesSound, FrameSound
  <2>4. QueueSound'
    BY <1>0, <2>1 DEF QueueSound
  <2>5. \A s \in Reqs \ {r}, k \in Slots : Linked(s, k) => Linked(s, k)'
    BY <2>1, <2>2 DEF Linked
  <2>6. \A j \in DOMAIN queue : /\ reqs'[queue[j]].frame = reqs[queue[j]].frame
                                /\ reqs'[queue[j]].state = "WAIT_CONF" => Waiting(j)
    BY <1>0, <2>1, QueueTyped DEF Waiting
  <2>7. \A s \in Reqs : reqs'[s].state = "WAIT_CONF" => \E k \in Slots : Linked(s, k)'
    BY <2>1, <2>5 DEF LinksSound
  <2>8. \A k \in Slots : tx'[k].confirm =>
          \E s \in Reqs : reqs'[s].state = "WAIT_CONF" /\ reqs'[s].frame = k
    BY <1>0, <2>1, <2>2 DEF LinksSound
  <2>9. LinksSound'
    BY <1>0, <2>6, <2>7, <2>8 DEF LinksSound, Waiting
  <2> QED BY <2>3, <2>4, <2>9 DEF Sound
<1>4. ASSUME NEW n \in Slots, Alloc(n),
             reqs' = [reqs EXCEPT ![r].frame = n, ![r].state = "WAIT_CONF"],
             TxFrame(state, hdr, tx, n, FrameHeader(reqs[r].opt, "all"), "request")
      PROVE  Sound
  <2>1. /\ reqs'[r].state = "WAIT_CONF" /\ reqs'[r].frame = n /\ reqs'[r].opt = reqs[r].opt
        /\ \A s \in Reqs \ {r} : reqs'[s] = reqs[s]
    BY <1>0, <1>4 DEF TypeOK, ReqInfo
  <2>2. FrameHeader(reqs[r].opt, "all") \in Header
    BY <1>0, HeaderType DEF ReqInfo, Addrs, TypeOK
  <2>3. /\ FrameHeader(reqs[r].opt, "all").src = "self"
        /\ FrameHeader(reqs[r].opt, "all").ack = reqs[r].opt.ack
    BY DEF FrameHeader
  <2> DEFINE h == FrameHeader(reqs[r].opt, "all")
  <2>4. /\ state'[n] \in {"ENCRYPT", "DELAY"} /\ tx'[n].confirm /\ ~ tx'[n].acked
        /\ hdr'[n].src = "self" /\ hdr'[n].ack = reqs[r].opt.ack
        /\ \A k \in Slots \ {n} : state'[k] = state[k] /\ hdr'[k] = hdr[k] /\ tx'[k] = tx[k]
    <3> HIDE DEF h
    <3>1. h \in Header /\ h.src = "self" /\ h.ack = reqs[r].opt.ack
      BY <2>2, <2>3 DEF h
    <3>2. TxFrame(state, hdr, tx, n, h, "request")
      BY <1>4 DEF h
    <3> QED BY <3>1, <3>2, TxFrameEffect DEF TypeOK
  <2> HIDE DEF h
  <2>5. ~ tx[n].confirm
    BY <1>4, ReceivedPlain DEF Alloc
  <2>6. FramesSound'
    <3>1. {"ENCRYPT", "DELAY"} \subseteq Underway
      BY DEF Underway, TxStates, SecStates, Pending
    <3>2. FrameSound(n)'
      BY <2>4, <3>1 DEF FrameSound
    <3>3. \A k \in Slots \ {n} : FrameSound(k)'
      BY <1>0, <2>4 DEF FramesSound, FrameSound
    <3> QED BY <3>2, <3>3 DEF FramesSound
  <2>7. QueueSound'
    BY <1>0, <2>1 DEF QueueSound
  <2>8. \A s \in Reqs, k \in Slots :
          Linked(s, k) /\ reqs[s].state = "WAIT_CONF" => s # r /\ k # n /\ Linked(s, k)'
    BY <1>0, <2>1, <2>4, <2>5 DEF Linked
  <2>9. \A s \in Reqs : reqs'[s].state = "WAIT_CONF" => \E k \in Slots : Linked(s, k)'
    <3>1. Linked(r, n)'
      BY <2>1, <2>4 DEF Linked
    <3> QED BY <2>1, <2>8, <3>1 DEF LinksSound
  <2>10. \A k \in Slots : tx'[k].confirm =>
          \E s \in Reqs : reqs'[s].state = "WAIT_CONF" /\ reqs'[s].frame = k
    <3> SUFFICES ASSUME NEW k \in Slots, tx'[k].confirm
                 PROVE  \E s \in Reqs : reqs'[s].state = "WAIT_CONF" /\ reqs'[s].frame = k
      OBVIOUS
    <3>1. CASE k = n
      BY <1>0, <2>1, <3>1
    <3>2. CASE k # n
      <4>1. PICK s \in Reqs : reqs[s].state = "WAIT_CONF" /\ reqs[s].frame = k
        BY <2>4, <3>2 DEF LinksSound
      <4> QED BY <1>0, <2>1, <4>1
    <3> QED BY <3>1, <3>2
  <2>11. \A j \in DOMAIN queue : Waiting(j) =>
           /\ j # i /\ reqs'[queue[j]] = reqs[queue[j]]
           /\ reqs[queue[j]].frame # n
    BY <1>r, <1>0, <1>2, <2>1, <2>8, QueueTyped DEF Waiting, LinksSound, Linked
  <2>12. ASSUME NEW a \in DOMAIN queue, NEW b \in DOMAIN queue, a < b,
                reqs'[queue[b]].state = "WAIT_CONF"
         PROVE  reqs'[queue[a]].frame # reqs'[queue[b]].frame
    <3>1. \A j \in DOMAIN queue : j # i => reqs'[queue[j]] = reqs[queue[j]]
      BY <1>2, <2>1
    <3>2. CASE b = i
      <4>1. Waiting(a) /\ a # i
        BY <1>1, <2>12, <3>2, QueueTyped
      <4> QED BY <1>r, <2>1, <2>11, <3>2, <4>1
    <3>3. CASE b # i
      <4>1. Waiting(b) /\ reqs'[queue[b]] = reqs[queue[b]] /\ reqs[queue[b]].frame # n
        BY <2>11, <2>12, <3>1, <3>3 DEF Waiting
      <4>2. CASE a = i
        BY <1>r, <2>1, <4>1, <4>2
      <4>3. CASE a # i
        BY <2>12, <3>1, <4>1, <4>3 DEF LinksSound
      <4> QED BY <4>2, <4>3
    <3> QED BY <3>2, <3>3
  <2>13. LinksSound'
    BY <1>0, <2>9, <2>10, <2>12 DEF LinksSound, Waiting
  <2> QED BY <2>6, <2>7, <2>13 DEF Sound
<1> QED BY <1>r, <1>3, <1>4 DEF ReqSend

LEMMA ReqConfirmSound ==
  ASSUME SInv, NEW i \in DOMAIN queue, ReqStep(i), ReqConfirm(i)
  PROVE  Sound
<1> USE DEF SInv, CInv, IInv
<1> DEFINE from(a) == IF a < i THEN a ELSE a + 1
<1>r. PICK r \in Reqs : r = queue[i]
  BY QueueTyped
<1>0. /\ UNCHANGED <<state, hdr, tx, secEncrypt>>
      /\ reqs[r].state = "CONFIRM" /\ queue' = Unlink(i)
  BY <1>r DEF ReqStep, ReqConfirm, security, frames
<1>1. reqs'[r] = IdleReq /\ \A s \in Reqs \ {r} : reqs'[s] = reqs[s]
  BY <1>r DEF ReqConfirm, TypeOK
<1>2. IdleReq.state = "IDLE"
  BY DEF IdleReq
<1>3. /\ Len(queue) \in Nat /\ i \in 1 .. Len(queue) /\ DOMAIN queue = 1 .. Len(queue)
      /\ DOMAIN queue' = 1 .. Len(queue) - 1
      /\ \A a \in DOMAIN queue' : queue'[a] = queue[from(a)]
  <2>1. queue' \in Seq(Reqs) /\ Len(queue') = Len(queue) - 1
    BY <1>0, Unlinked
  <2>2. DOMAIN queue' = 1 .. Len(queue')
    BY <2>1
  <2> QED BY <1>0, <2>1, <2>2, QueueTyped, Unlinked
<1>4. \A a \in DOMAIN queue' : from(a) \in DOMAIN queue /\ from(a) # i
  BY <1>3
<1>5. \A a, b \in DOMAIN queue' : (from(a) = from(b) => a = b) /\ (a < b => from(a) < from(b))
  BY <1>3
<1>6. \A j \in DOMAIN queue : j # i => \E a \in DOMAIN queue' : from(a) = j
  <2> SUFFICES ASSUME NEW j \in DOMAIN queue, j # i
               PROVE  \E a \in DOMAIN queue' : from(a) = j
    OBVIOUS
  <2>1. CASE j < i
    BY <1>3, <2>1
  <2>2. CASE j > i
    <3>1. j - 1 \in DOMAIN queue' /\ from(j - 1) = j
      BY <1>3, <2>2
    <3> QED BY <3>1
  <2> QED BY <1>3, <2>1, <2>2
<1> HIDE DEF from
<1>7. \A a \in DOMAIN queue' : queue'[a] \in Reqs \ {r} /\ reqs'[queue'[a]] = reqs[queue[from(a)]]
  <2> SUFFICES ASSUME NEW a \in DOMAIN queue'
               PROVE  queue'[a] \in Reqs \ {r} /\ reqs'[queue'[a]] = reqs[queue[from(a)]]
    OBVIOUS
  <2>1. queue'[a] = queue[from(a)] /\ from(a) \in DOMAIN queue /\ from(a) # i
    BY <1>3, <1>4
  <2>2. queue[from(a)] \in Reqs /\ queue[from(a)] # r
    BY <1>r, <2>1, QueueTyped DEF QueueSound
  <2> QED BY <1>1, <2>1, <2>2
<1>8. FramesSound'
  BY <1>0 DEF FramesSound, FrameSound
<1>9. QueueSound'
  <2>1. \A a, b \in DOMAIN queue' : queue'[a] = queue'[b] => a = b
    BY <1>3, <1>4, <1>5 DEF QueueSound
  <2>2. ASSUME NEW s \in Reqs
        PROVE  reqs'[s].state # "IDLE" <=> \E a \in DOMAIN queue' : queue'[a] = s
    <3>1. CASE s = r
      BY <1>1, <1>2, <1>7, <3>1
    <3>2. CASE s # r
      BY <1>r, <1>1, <1>3, <1>4, <1>6, <3>2 DEF QueueSound
    <3> QED BY <3>1, <3>2
  <2>3. \A s \in Reqs : reqs'[s].state = "IDLE" => reqs'[s] = IdleReq
    BY <1>1 DEF QueueSound
  <2>4. \A s \in Reqs : reqs'[s].state = "INITIAL" => reqs'[s].frame = NULL /\ ~ reqs'[s].acked
    BY <1>1, <1>2 DEF QueueSound
  <2> QED BY <2>1, <2>2, <2>3, <2>4 DEF QueueSound
<1>10. LinksSound'
  <2>1. \A s \in Reqs : reqs'[s].state = "WAIT_CONF" =>
          s # r /\ reqs[s].state = "WAIT_CONF" /\ \A k \in Slots : Linked(s, k) => Linked(s, k)'
    BY <1>0, <1>1, <1>2 DEF Linked
  <2>2. \A k \in Slots : tx'[k].confirm =>
          \E s \in Reqs : reqs'[s].state = "WAIT_CONF" /\ reqs'[s].frame = k
    BY <1>0, <1>1 DEF LinksSound
  <2>3. ASSUME NEW a \in DOMAIN queue', NEW b \in DOMAIN queue', a < b,
               reqs'[queue'[b]].state = "WAIT_CONF"
        PROVE  reqs'[queue'[a]].frame # reqs'[queue'[b]].frame
    BY <1>4, <1>5, <1>7, <2>3 DEF LinksSound, Waiting
  <2> QED BY <2>1, <2>2, <2>3 DEF LinksSound, Waiting
<1> QED BY <1>8, <1>9, <1>10 DEF Sound

LEMMA AppSound == SInv /\ AppStep => Sound
<1> SUFFICES ASSUME SInv, AppStep PROVE Sound
  OBVIOUS
<1> USE DEF SInv, CInv, IInv
<1>0. UNCHANGED <<state, hdr, tx, secEncrypt>>
  BY DEF AppStep, frames, security
<1>1. CASE UNCHANGED requests
  BY <1>0, <1>1, SteadyElse, SteadySteps DEF Sound
<1>2. ASSUME NEW r \in Reqs, NEW opt \in Options, NWK_DataReq(r, opt)
      PROVE  Sound
  <2> DEFINE new == [IdleReq EXCEPT !.state = "INITIAL", !.opt = opt]
  <2>1. /\ reqs[r].state = "IDLE" /\ reqs'[r] = new
        /\ \A s \in Reqs \ {r} : reqs'[s] = reqs[s]
    BY <1>2 DEF NWK_DataReq, TypeOK
  <2>2. new.state = "INITIAL" /\ new.frame = NULL /\ ~ new.acked
    BY DEF IdleReq
  <2> HIDE DEF new
  <2>3. /\ Len(queue) \in Nat /\ DOMAIN queue = 1 .. Len(queue)
        /\ DOMAIN queue' = 1 .. Len(queue) + 1 /\ queue'[1] = r
        /\ \A j \in 2 .. Len(queue) + 1 : queue'[j] = queue[j - 1]
    <3>1. queue' = <<r>> \o queue /\ queue \in Seq(Reqs) /\ <<r>> \in Seq(Reqs)
      BY <1>2 DEF NWK_DataReq, TypeOK
    <3>2. Len(<<r>>) = 1 /\ <<r>>[1] = r
      OBVIOUS
    <3> DEFINE one == <<r>>
    <3>3. queue' = one \o queue /\ one \in Seq(Reqs) /\ Len(one) = 1 /\ one[1] = r
      BY <3>1, <3>2
    <3> HIDE DEF one
    <3>4. /\ Len(queue') = 1 + Len(queue) /\ queue' \in Seq(Reqs)
          /\ \A j \in 1 .. 1 + Len(queue) :
               queue'[j] = IF j <= 1 THEN one[j] ELSE queue[j - 1]
      BY <3>1, <3>3, ConcatProperties
    <3> QED BY <3>1, <3>3, <3>4
  <2>4. \A j \in DOMAIN queue : queue[j] \in Reqs \ {r}
    BY <2>1, QueueTyped DEF QueueSound
  <2>5. \A j \in DOMAIN queue' : j # 1 =>
          j - 1 \in DOMAIN queue /\ queue'[j] = queue[j - 1] /\ queue'[j] # r
          /\ reqs'[queue'[j]] = reqs[queue[j - 1]]
    BY <2>1, <2>3, <2>4
  <2>6. FramesSound'
    BY <1>0 DEF FramesSound, FrameSound
  <2>7. QueueSound'
    <3>1. \A a, b \in DOMAIN queue' : queue'[a] = queue'[b] => a = b
      <4> SUFFICES ASSUME NEW a \in DOMAIN queue', NEW b \in DOMAIN queue', queue'[a] = queue'[b]
                   PROVE  a = b
        OBVIOUS
      <4>1. CASE a = 1 \/ b = 1
        BY <2>3, <2>5, <4>1
      <4>2. CASE a # 1 /\ b # 1
        <5>1. a - 1 = b - 1
          BY <2>5, <4>2 DEF QueueSound
        <5> QED BY <2>3, <5>1
      <4> QED BY <4>1, <4>2
    <3>2. ASSUME NEW s \in Reqs
          PROVE  reqs'[s].state # "IDLE" <=> \E a \in DOMAIN queue' : queue'[a] = s
      <4>1. CASE s = r
        <5>1. 1 \in DOMAIN queue'
          BY <2>3
        <5> QED BY <2>1, <2>2, <2>3, <4>1, <5>1
      <4>2. CASE s # r
        <5>1. (\E a \in DOMAIN queue' : queue'[a] = s) <=> (\E j \in DOMAIN queue : queue[j] = s)
          <6>1. ASSUME NEW j \in DOMAIN queue, queue[j] = s
                PROVE  \E a \in DOMAIN queue' : queue'[a] = s
            <7>1. j + 1 \in DOMAIN queue' /\ j + 1 \in 2 .. Len(queue) + 1 /\ (j + 1) - 1 = j
              BY <2>3
            <7>2. queue'[j + 1] = s
              BY <2>3, <6>1, <7>1
            <7> QED BY <7>1, <7>2
          <6>2. ASSUME NEW a \in DOMAIN queue', queue'[a] = s
                PROVE  \E j \in DOMAIN queue : queue[j] = s
            BY <2>3, <2>5, <4>2, <6>2
          <6> QED BY <6>1, <6>2
        <5> QED BY <2>1, <4>2, <5>1 DEF QueueSound
      <4> QED BY <4>1, <4>2
    <3>3. \A s \in Reqs : reqs'[s].state = "IDLE" => reqs'[s] = IdleReq
      BY <2>1, <2>2 DEF QueueSound
    <3>4. \A s \in Reqs : reqs'[s].state = "INITIAL" => reqs'[s].frame = NULL /\ ~ reqs'[s].acked
      BY <2>1, <2>2 DEF QueueSound
    <3> QED BY <3>1, <3>2, <3>3, <3>4 DEF QueueSound
  <2>8. LinksSound'
    <3>1. \A s \in Reqs : reqs'[s].state = "WAIT_CONF" =>
            reqs[s].state = "WAIT_CONF" /\ \A k \in Slots : Linked(s, k) => Linked(s, k)'
      BY <1>0, <2>1, <2>2 DEF Linked
    <3>2. \A k \in Slots : tx'[k].confirm =>
            \E s \in Reqs : reqs'[s].state = "WAIT_CONF" /\ reqs'[s].frame = k
      BY <1>0, <2>1 DEF LinksSound
    <3>3. ASSUME NEW a \in DOMAIN queue', NEW b \in DOMAIN queue', a < b,
                 reqs'[queue'[b]].state = "WAIT_CONF"
          PROVE  reqs'[queue'[a]].frame # reqs'[queue'[b]].frame
      <4>1. /\ b # 1 /\ b - 1 \in DOMAIN queue /\ Waiting(b - 1)
            /\ reqs'[queue'[b]] = reqs[queue[b - 1]]
        BY <2>3, <2>5, <3>3 DEF Waiting
      <4>2. CASE a = 1
        <5>1. reqs'[queue'[a]].frame = NULL
          BY <2>1, <2>2, <2>3, <4>2
        <5>2. PICK k \in Slots : reqs[queue[b - 1]].frame = k
          BY <4>1, QueueTyped DEF LinksSound, Linked, Waiting
        <5> QED BY <4>1, <5>1, <5>2
      <4>3. CASE a # 1
        <5>1. a - 1 \in DOMAIN queue /\ a - 1 < b - 1 /\ reqs'[queue'[a]] = reqs[queue[a - 1]]
          BY <2>3, <2>5, <3>3, <4>3
        <5> QED BY <4>1, <5>1 DEF LinksSound
      <4> QED BY <4>2, <4>3
    <3> QED BY <3>1, <3>2, <3>3 DEF LinksSound, Waiting
  <2> QED BY <2>6, <2>7, <2>8 DEF Sound
<1> QED BY <1>1, <1>2 DEF AppStep, requests

LEMMA SoundInit == Init => SInv
<1> SUFFICES ASSUME Init PROVE SInv
  OBVIOUS
<1>1. FramesSound
  BY DEF Init, FramesSound, FrameSound, NoTx
<1>2. queue = <<>> /\ DOMAIN queue = {} /\ \A r \in Reqs : reqs[r] = IdleReq
  BY DEF Init
<1>3. IdleReq.state = "IDLE"
  BY DEF IdleReq
<1>4. QueueSound
  BY <1>2, <1>3 DEF QueueSound
<1>5. \A n \in Slots : ~ tx[n].confirm
  BY DEF Init, NoTx
<1>6. LinksSound
  BY <1>2, <1>3, <1>5 DEF LinksSound
<1> QED BY <1>1, <1>4, <1>6, CountInit DEF SInv

LEMMA SoundNext == SInv /\ [Next]_vars => SInv'
<1> SUFFICES ASSUME SInv, [Next]_vars PROVE Sound
  BY CountNext DEF SInv, Sound
<1>1. CASE UNCHANGED requests /\ \A n \in Slots : Steady(n)
  BY <1>1, SteadySteps DEF Sound
<1>2. CASE RxEnd \/ TxEnd \/ ReqNone \/ TimersDone \/ UNCHANGED vars
  <2>1. UNCHANGED <<state, hdr, tx, secEncrypt>> /\ UNCHANGED requests
    BY <1>2 DEF RxEnd, TxEnd, ReqNone, TimersDone, frames, security, requests, vars
  <2> QED BY <1>1, <2>1, SteadyElse
<1>3. CASE Phy
  BY <1>1, <1>3, PhySteady DEF Phy, PhyIdle, PhyRx, PhyConf, requests
<1>4. ASSUME NEW n \in Slots, RxStep(n) PROVE Sound
  BY <1>1, <1>4, RxSteady DEF RxStep
<1>5. ASSUME NEW n \in Slots, TxStep(n) PROVE Sound
  <2>1. CASE TxConfirm(n)
    BY <1>5, <2>1, TxConfirmSound
  <2>2. CASE ~ TxConfirm(n)
    <3>1. UNCHANGED requests
      BY <1>5, <2>2, Zenon DEF TxStep, TxEncrypt, TxDelay, TxSend, TxSent, requests
    <3> QED BY <1>1, <1>5, <2>2, <3>1, TxSteady
  <2> QED BY <2>1, <2>2
<1>6. ASSUME NEW i \in DOMAIN queue, ReqStep(i) PROVE Sound
  BY <1>6, ReqSendSound, ReqConfirmSound DEF ReqStep
<1>7. CASE SecStep
  BY <1>1, <1>7, SecSteady DEF SecStep
<1>8. CASE AckTick \/ DelayTick
  BY <1>1, <1>8, TicksSteady DEF AckTick, DelayTick
<1> QED BY <1>2, <1>3, <1>4, <1>5, <1>6, <1>7, <1>8, AppSound DEF Next, Rx, Tx, Req

LEMMA SoundInvariant == Spec => []SInv
BY SoundInit, SoundNext, PTL DEF Spec

(* A frame of a request and the request point at each other                *)
(* (ConfirmMatches).                                                       *)
THEOREM ConfirmsMatch == Spec => []ConfirmMatches
BY SoundInvariant, LinksMatch, PTL

(***************************************************************************)
(* The engine implements the service.                                      *)
(***************************************************************************)
Succeeds(q) == q.state = "CONFIRM" /\ q.status = "SUCCESS"
CallOf(q) == Service!Call(Phase(q.state), q.opt.ack, q.acked, Succeeds(q))

LEMMA CallsAre ==
  /\ Calls = [r \in Reqs |-> CallOf(reqs[r])]
  /\ Calls' = [r \in Reqs |-> CallOf(reqs'[r])]
BY Zenon DEF Calls, CallOf, Succeeds, Service!Call

(* One request changes, and the others do not.                             *)
LEMMA CallsChange ==
  ASSUME NEW r \in Reqs, \A s \in Reqs \ {r} : reqs'[s] = reqs[s]
  PROVE  Calls' = [Calls EXCEPT ![r] = CallOf(reqs'[r])]
BY CallsAre

LEMMA IdleCall == CallOf(IdleReq) = Service!Idle
<1>1. Phase("IDLE") = "idle"
  BY DEF Phase
<1>2. Succeeds(IdleReq) = FALSE
  BY DEF Succeeds, IdleReq
<1> QED BY <1>1, <1>2, Zenon DEF CallOf, IdleReq, NoOption, Service!Idle

LEMMA Asks ==
  ASSUME NEW r \in Reqs, NEW opt \in Options, SInv, NWK_DataReq(r, opt)
  PROVE  Service!Ask(r)
<1>1. /\ reqs[r] = IdleReq
      /\ reqs'[r] = [IdleReq EXCEPT !.state = "INITIAL", !.opt = opt]
      /\ \A s \in Reqs \ {r} : reqs'[s] = reqs[s]
  BY DEF NWK_DataReq, SInv, QueueSound, CInv, IInv, TypeOK
<1>2. Calls[r] = Service!Idle
  BY <1>1, CallsAre, IdleCall
<1>3. opt.ack \in BOOLEAN
  BY ConstantsOK DEF Option
<1>4. CallOf(reqs'[r]) = Service!Call("asked", opt.ack, FALSE, FALSE)
  <2>1. reqs'[r].state = "INITIAL" /\ reqs'[r].opt = opt /\ reqs'[r].acked = FALSE
    BY <1>1 DEF IdleReq
  <2>2. Phase("INITIAL") = "asked"
    BY DEF Phase
  <2>3. Succeeds(reqs'[r]) = FALSE
    BY <2>1 DEF Succeeds
  <2> QED BY <2>1, <2>2, <2>3, Zenon DEF CallOf
<1>5. Calls' = [Calls EXCEPT ![r] = CallOf(reqs'[r])]
  BY <1>1, CallsChange
<1> QED BY <1>2, <1>3, <1>4, <1>5, Zenon DEF Service!Ask

(* A decision: an asked call gets an answer that fits.                     *)
LEMMA Decides ==
  ASSUME NEW r \in Reqs, TypeOK, TypeOK',
         reqs[r].state \in {"INITIAL", "WAIT_CONF"}, reqs'[r].state = "CONFIRM",
         reqs'[r].opt = reqs[r].opt,
         reqs[r].opt.ack => (reqs'[r].status = "SUCCESS" <=> reqs'[r].acked),
         \A s \in Reqs \ {r} : reqs'[s] = reqs[s]
  PROVE  Service!Decide(r)
<1> DEFINE acked == reqs'[r].acked
           ok == Succeeds(reqs'[r])
<1>1. acked \in BOOLEAN /\ ok \in BOOLEAN
  BY DEF TypeOK, ReqInfo, Succeeds
<1>2. reqs[r].opt.ack => (ok <=> acked)
  BY DEF Succeeds
<1>3. Calls[r] = CallOf(reqs[r])
  BY CallsAre
<1>4. Phase(reqs[r].state) = "asked" /\ Phase(reqs'[r].state) = "decided"
  BY DEF Phase
<1>5. Calls[r].phase = "asked" /\ Calls[r].wants = reqs[r].opt.ack
  BY <1>3, <1>4 DEF CallOf, Service!Call
<1>6. CallOf(reqs'[r]) = Service!Call("decided", Calls[r].wants, acked, ok)
  BY <1>4, <1>5, Zenon DEF CallOf
<1>7. Calls' = [Calls EXCEPT ![r] = CallOf(reqs'[r])]
  BY CallsChange
<1> HIDE DEF acked, ok
<1> QED BY <1>1, <1>2, <1>5, <1>6, <1>7, Zenon DEF Service!Decide

LEMMA Answers ==
  ASSUME NEW r \in Reqs, TypeOK, reqs[r].state = "CONFIRM",
         reqs' = [reqs EXCEPT ![r] = IdleReq]
  PROVE  Service!Answer(r)
<1>1. reqs'[r] = IdleReq /\ \A s \in Reqs \ {r} : reqs'[s] = reqs[s]
  BY DEF TypeOK
<1>2. Calls' = [Calls EXCEPT ![r] = Service!Idle]
  BY <1>1, CallsChange, IdleCall
<1>3. Calls[r].phase = "decided"
  <2>1. Phase(reqs[r].state) = "decided"
    BY DEF Phase
  <2>2. Calls[r] = CallOf(reqs[r])
    BY CallsAre
  <2> QED BY <2>1, <2>2 DEF CallOf, Service!Call
<1> QED BY <1>2, <1>3, Zenon DEF Service!Answer

(* nwkDataReqSendFrame changes no call when it gets a frame, and decides   *)
(* the call when it does not.                                              *)
LEMMA Sends ==
  ASSUME SInv, TypeOK', NEW i \in DOMAIN queue, ReqSend(i)
  PROVE  Calls' = Calls \/ Service!Decide(queue[i])
<1> USE DEF SInv, CInv, IInv
<1>r. PICK r \in Reqs : r = queue[i]
  BY QueueTyped
<1>0. reqs[r].state = "INITIAL" /\ ~ reqs[r].acked
  BY <1>r DEF ReqSend, QueueSound
<1>1. ASSUME NEW n \in Slots,
             reqs' = [reqs EXCEPT ![r].frame = n, ![r].state = "WAIT_CONF"]
      PROVE  Calls' = Calls
  <2>1. /\ reqs'[r].state = "WAIT_CONF" /\ reqs'[r].opt = reqs[r].opt
        /\ reqs'[r].acked = reqs[r].acked
        /\ \A s \in Reqs \ {r} : reqs'[s] = reqs[s]
    BY <1>1 DEF TypeOK, ReqInfo
  <2>2. Phase("INITIAL") = Phase("WAIT_CONF")
    BY DEF Phase
  <2>3. Succeeds(reqs'[r]) = FALSE /\ Succeeds(reqs[r]) = FALSE
    BY <1>0, <2>1 DEF Succeeds
  <2>4. CallOf(reqs'[r]) = CallOf(reqs[r])
    BY <1>0, <2>1, <2>2, <2>3, Zenon DEF CallOf
  <2>5. \A s \in Reqs : CallOf(reqs'[s]) = CallOf(reqs[s])
    BY <2>1, <2>4
  <2> QED BY <2>5, CallsAre
<1>2. ASSUME reqs' = [reqs EXCEPT ![r].state = "CONFIRM", ![r].status = "OUT_OF_MEMORY"]
      PROVE  Service!Decide(r)
  <2>1. /\ reqs'[r].state = "CONFIRM" /\ reqs'[r].opt = reqs[r].opt
        /\ reqs'[r].status = "OUT_OF_MEMORY" /\ reqs'[r].acked = reqs[r].acked
        /\ \A s \in Reqs \ {r} : reqs'[s] = reqs[s]
    BY <1>2 DEF TypeOK, ReqInfo
  <2> QED BY <1>0, <2>1, Decides
<1> QED BY <1>r, <1>1, <1>2, Zenon DEF ReqSend

(* nwkDataReqTxConf decides the call with the outcome of its own frame.    *)
LEMMA Confirms ==
  ASSUME SInv, TypeOK', NEW n \in Slots, TxConfirm(n)
  PROVE  reqs' = reqs \/ \E r \in Reqs : Service!Decide(r)
<1> USE DEF SInv, CInv, IInv
<1>1. ASSUME tx[n].confirm, NEW i \in DOMAIN queue, FirstOwner(i, n),
             reqs' = [reqs EXCEPT ![queue[i]].state = "CONFIRM",
                                  ![queue[i]].status = tx[n].status,
                                  ![queue[i]].acked = tx[n].acked]
      PROVE  \E r \in Reqs : Service!Decide(r)
  <2>r. PICK r \in Reqs : r = queue[i]
    BY QueueTyped
  <2>1. reqs[r].state = "WAIT_CONF" /\ Linked(r, n)
    BY <1>1, <2>r, FirstOwnerWaits DEF Waiting
  <2>2. /\ reqs'[r].state = "CONFIRM" /\ reqs'[r].opt = reqs[r].opt
        /\ reqs'[r].status = tx[n].status /\ reqs'[r].acked = tx[n].acked
        /\ \A s \in Reqs \ {r} : reqs'[s] = reqs[s]
    BY SMTT(30), <1>1, <2>r DEF TypeOK, ReqInfo
  <2>3. reqs[r].opt.ack => (tx[n].status = "SUCCESS" <=> tx[n].acked)
    BY <2>1 DEF TxConfirm, FramesSound, FrameSound, Linked
  <2> QED BY <2>1, <2>2, <2>3, Decides
<1> QED BY <1>1, Zenon DEF TxConfirm

LEMMA ServiceStep == SInv /\ SInv' /\ [Next]_vars => [Service!Next]_Calls
<1> SUFFICES ASSUME SInv, SInv', [Next]_vars
             PROVE  Calls' = Calls \/ \E r \in Reqs :
                      Service!Ask(r) \/ Service!Decide(r) \/ Service!Answer(r)
  BY Zenon DEF Service!Next
<1>0. TypeOK /\ TypeOK'
  BY DEF SInv, CInv, IInv
<1>1. CASE reqs' = reqs
  BY <1>1, CallsAre
<1>2. ASSUME NEW n \in Slots, TxStep(n)
      PROVE  reqs' = reqs \/ \E r \in Reqs : Service!Decide(r)
  <2>1. CASE TxConfirm(n)
    BY <1>0, <2>1, Confirms
  <2> QED BY <1>2, <2>1, Zenon DEF TxStep, TxEncrypt, TxDelay, TxSend, TxSent
<1>3. ASSUME NEW i \in DOMAIN queue, ReqStep(i)
      PROVE  \/ Calls' = Calls
             \/ \E r \in Reqs : Service!Decide(r) \/ Service!Answer(r)
  <2>r. PICK r \in Reqs : r = queue[i]
    BY <1>0, QueueTyped
  <2>1. CASE ReqSend(i)
    BY <1>0, <2>r, <2>1, Sends
  <2>2. CASE ReqConfirm(i)
    BY <1>0, <2>r, <2>2, Answers DEF ReqConfirm
  <2> QED BY <1>3, <2>1, <2>2 DEF ReqStep
<1>4. CASE AppStep
  <2>1. reqs' = reqs \/ \E r \in Reqs, opt \in Options : NWK_DataReq(r, opt)
    BY <1>4, Zenon DEF AppStep, requests
  <2> QED BY <1>1, <2>1, Asks
<1>5. CASE Phy \/ Rx
  BY <1>1, <1>5, Zenon DEF Phy, PhyIdle, PhyRx, PhyConf, Rx, RxEnd, RxStep, requests
<1>6. CASE SecStep \/ AckTick \/ DelayTick \/ TimersDone \/ TxEnd \/ ReqNone \/ UNCHANGED vars
  BY <1>1, <1>6, Zenon
     DEF SecStep, AckTick, DelayTick, TimersDone, TxEnd, ReqNone, requests, vars
<1> QED BY <1>1, <1>2, <1>3, <1>4, <1>5, <1>6, Zenon DEF Next, Tx, Req

LEMMA ServiceInit == Init => Service!Init
<1> SUFFICES ASSUME Init PROVE Calls = [r \in Reqs |-> Service!Idle]
  BY DEF Service!Init
<1> QED BY CallsAre, IdleCall DEF Init

(* To the application the engine is the service: each request is answered  *)
(* once, with the outcome of its own frame (ImplementsService).            *)
THEOREM EngineServes == Spec => ImplementsService
<1>1. SInv /\ SInv' /\ [Next]_vars => [Service!Next]_Calls
  BY ServiceStep
<1> QED BY <1>1, ServiceInit, SoundInvariant, PTL DEF Spec, ImplementsService, Service!Spec
=============================================================================
