------------------------------- MODULE NwkCore -------------------------------
(***************************************************************************)
(* The frame engine of one Lightweight Mesh node: the frame buffer pool    *)
(* (nwkFrame.c), the data request queue (nwkDataReq.c), the transmit and   *)
(* receive state machines (nwkTx.c, nwkRx.c), the encryption pipeline      *)
(* (nwkSecurity.c) and the radio and timers that drive them.               *)
(*                                                                         *)
(* Everything runs on one super-loop (SYS_TaskHandler, NWK_TaskHandler,    *)
(* APP_TaskHandler).  `task' is the handler being run and `cur' the frame  *)
(* a sweep over the pool visited last, so that a step is one iteration of  *)
(* a handler's loop.  The route table and the duplicate table are          *)
(* abstracted to the answers they may give: any route lookup may know a    *)
(* next hop or not, any received frame may be reported as a duplicate.     *)
(***************************************************************************)
EXTENDS Integers, Sequences, FiniteSets, SequencesExt

CONSTANTS
  NBuf,       \* NWK_BUFFERS_AMOUNT, the frames of the pool
  Reqs,       \* the NWK_DataReq_t objects of the application
  Options,    \* the [ack, sec, ll, bpan, dst] a request may be issued with
  Inbound,    \* the headers of the frames the radio may deliver
  AckTicks,   \* NWK_ACK_WAIT_TIME / NWK_TX_ACK_WAIT_TIMER_INTERVAL + 1
  MaxJitter,  \* NWK_TX_DELAY_JITTER_MASK + 1
  SeqSize,     \* 256: nwkSeqNum is a uint8_t
  MaxBlocks,  \* the most cipher blocks a payload size may stand for (16 for a uint8_t)
  NULL

Slots == 1 .. NBuf
Seqs  == 0 .. SeqSize - 1

Statuses  == {"SUCCESS", "ERROR", "OUT_OF_MEMORY", "NO_ACK",
              "PHY_CHANNEL_ACCESS_FAILURE", "PHY_NO_ACK"}
RxStates  == {"RECEIVED", "DECRYPT", "INDICATE", "ROUTE", "FINISH"}
TxStates  == {"ENCRYPT", "WAIT_DELAY", "DELAY", "SEND", "WAIT_CONF", "SENT",
              "WAIT_ACK", "CONFIRM"}
Pending   == {"ENCRYPT_PENDING", "DECRYPT_PENDING"}
SecStates == Pending \cup {"PROCESS", "SEC_CONFIRM"}
States    == {"FREE"} \cup RxStates \cup TxStates \cup SecStates
Tasks     == {"phy", "rx", "tx", "req", "sec", "timer", "app"}

(* Addresses as this node tells them apart: itself, another node, the      *)
(* broadcast address (NWK_ROUTE_UNKNOWN is the same number, 0xffff).       *)
Addrs == {"self", "node", "all"}

Option == [ack : BOOLEAN, sec : BOOLEAN, ll : BOOLEAN, bpan : BOOLEAN,
           dst : {"node", "all"}]

(* What a frame carries: data for a callback that answers true or false    *)
(* (a closed endpoint counts as false), or the ACK command for sequence    *)
(* number `acks'.                                                          *)
Loads == {"taken", "refused", "ack"}

Header == [src : Addrs, dst : Addrs, mac : Addrs, ack : BOOLEAN,
           sec : BOOLEAN, ll : BOOLEAN, mc : BOOLEAN, bpan : BOOLEAN,
           seq : Seqs, load : Loads, acks : Seqs]
(* `acked' is no field of the code: it records that the ACK command has    *)
(* been received, for the properties to speak about.                       *)
TxInfo == [status : Statuses, timeout : Int, confirm : BOOLEAN, acked : BOOLEAN]
ReqInfo == [state : {"IDLE", "INITIAL", "WAIT_CONF", "CONFIRM"},
            frame : Slots \cup {NULL}, status : Statuses, opt : Option,
            acked : BOOLEAN]

(* What nwkFrameAlloc clears a frame to, and a request that is not queued. *)
NoHeader == [src |-> "node", dst |-> "node", mac |-> "node", ack |-> FALSE,
             sec |-> FALSE, ll |-> FALSE, mc |-> FALSE, bpan |-> FALSE,
             seq |-> 0, load |-> "refused", acks |-> 0]
NoTx == [status |-> "SUCCESS", timeout |-> 0, confirm |-> FALSE, acked |-> FALSE]
NoOption == [ack |-> FALSE, sec |-> FALSE, ll |-> FALSE, bpan |-> FALSE, dst |-> "node"]
IdleReq == [state |-> "IDLE", frame |-> NULL, status |-> "SUCCESS",
            opt |-> NoOption, acked |-> FALSE]

ASSUME ConstantsOK ==
  /\ NBuf \in Nat \ {0} /\ AckTicks \in Nat \ {0} /\ MaxJitter \in Nat \ {0}
  /\ SeqSize \in Nat \ {0} /\ MaxBlocks \in Nat \ {0}
  /\ Options \subseteq Option /\ Inbound \subseteq Header
  /\ IsFiniteSet(Reqs)
  /\ NULL \notin Slots /\ NULL \notin Reqs

VARIABLES
  state,       \* NwkFrame_t.state of every frame of the pool
  hdr,         \* its header
  tx,          \* its tx part: status, timeout, whether confirm is set
  reqs,        \* the request objects of the application
  queue,       \* nwkDataReqQueue, newest request first
  lock,        \* nwkIb.lock
  radio,       \* nwkTxPhyActiveFrame
  secFrames,   \* nwkSecurityActiveFrames
  secActive,   \* nwkSecurityActiveFrame
  secEncrypt,  \* nwkSecurityEncrypt
  secLeft,     \* cipher blocks left of the active frame (nwkSecuritySize)
  ackTimer,    \* nwkTxAckWaitTimer is in the timer list
  delayTimer,  \* nwkTxDelayTimer is in the timer list
  nwkSeq,      \* nwkIb.nwkSeqNum
  task,        \* the task handler the super-loop is running
  cur          \* the frame its sweep visited last, 0 before the first

frames   == <<state, hdr, tx>>
requests == <<reqs, queue>>
security == <<secFrames, secActive, secEncrypt, secLeft>>
timers   == <<ackTimer, delayTimer>>
vars     == <<frames, requests, lock, radio, security, timers, nwkSeq, task, cur>>

Init ==
  /\ state = [n \in Slots |-> "FREE"]
  /\ hdr = [n \in Slots |-> NoHeader]
  /\ tx = [n \in Slots |-> NoTx]
  /\ reqs = [r \in Reqs |-> IdleReq]
  /\ queue = <<>>
  /\ lock = 0
  /\ radio = NULL
  /\ secFrames = 0 /\ secActive = NULL /\ secEncrypt = FALSE /\ secLeft = 0
  /\ ackTimer = FALSE /\ delayTimer = FALSE
  /\ nwkSeq = 0
  /\ task = "phy" /\ cur = 0

(***************************************************************************)
(* The frame pool.                                                         *)
(***************************************************************************)
AllocUnchecked(n) == \A m \in 1 .. n - 1 : state[m] # "FREE"    \* faulty variant
Alloc(n) == state[n] = "FREE" /\ \A m \in 1 .. n - 1 : state[m] # "FREE"
Exhausted == \A n \in Slots : state[n] # "FREE"

Free(n) ==
  /\ state' = [state EXCEPT ![n] = "FREE"]
  /\ hdr' = [hdr EXCEPT ![n] = NoHeader]
  /\ tx' = [tx EXCEPT ![n] = NoTx]
  /\ lock' = lock - 1

(* A sweep acts on the frames of S in order and passes over the others.    *)
Visits(n, S) == n \in S /\ n > cur /\ \A m \in S : m > cur => n <= m
SweepEnds(S) == \A m \in S : m <= cur

Goto(t) == task' = t /\ cur' = 0

(***************************************************************************)
(* nwkTxFrame: queue frame n, with header h, for transmission.  `kind' is  *)
(* "request" for a frame of the queue (its confirm is nwkDataReqTxConf),   *)
(* "command" for one of the network layer, "routing" for one of another    *)
(* node that is passed on.  st and hs are the states and headers that the  *)
(* calling handler has already changed.                                    *)
(***************************************************************************)
NextSeqWide == nwkSeq + 1                                          \* faulty variant
NextSeq == (nwkSeq + 1) % SeqSize

(* nwkRoutePrepareTx, or the destination itself on the broadcast PAN.      *)
MacDsts(h, kind) ==
  IF h.bpan \/ h.ll \/ h.dst = "all" THEN {h.dst}
  ELSE IF kind = "routing" THEN {"node"} ELSE {"node", "all"}

Delays(mac) == IF mac = "all" THEN 1 .. MaxJitter ELSE {0}

Outgoing(d, kind) == [status |-> "SUCCESS", timeout |-> d,
                      confirm |-> kind = "request", acked |-> FALSE]

TxFrame(st, hs, ts, n, h, kind) ==
  \E mac \in MacDsts(h, kind) : \E d \in Delays(mac) :
    /\ state' = [st EXCEPT ![n] = IF h.sec /\ kind # "routing"
                                   THEN "ENCRYPT" ELSE "DELAY"]
    /\ hdr' = [hs EXCEPT ![n] = [h EXCEPT !.mac = mac]]
    /\ tx' = [ts EXCEPT ![n] = Outgoing(d, kind)]

(* A command of the network layer to the node h came from                  *)
(* (nwkRxSendAck, nwkRouteSendRouteError).                                 *)
Command(h, sec) ==
  [src |-> "self", dst |-> h.src, mac |-> h.src, ack |-> FALSE, sec |-> sec,
   ll |-> FALSE, mc |-> FALSE, bpan |-> FALSE, seq |-> NextSeq,
   load |-> "taken", acks |-> 0]

(***************************************************************************)
(* PHY_TaskHandler: one received frame, or the end of the transmission.    *)
(* The radio receives nothing while it transmits; a frame for which the    *)
(* pool has no room, or which is no data frame, is dropped (PhyIdle).      *)
(***************************************************************************)
PhyIdle ==
  /\ task = "phy" /\ Goto("rx")
  /\ UNCHANGED <<frames, requests, lock, radio, security, timers, nwkSeq>>

PhyRx(h) ==
  /\ task = "phy" /\ radio = NULL /\ Goto("rx")
  /\ \E n \in Slots :
       /\ Alloc(n)
       /\ state' = [state EXCEPT ![n] = "RECEIVED"]
       /\ hdr' = [hdr EXCEPT ![n] = h]
       /\ tx' = tx
       /\ lock' = lock + 1
  /\ UNCHANGED <<requests, radio, security, timers, nwkSeq>>

(* nwkTxConvertPhyStatus and PHY_DataConf.                                 *)
PhyConf(status) ==
  /\ task = "phy" /\ radio # NULL /\ Goto("rx")
  /\ tx' = [tx EXCEPT ![radio].status = status]
  /\ state' = [state EXCEPT ![radio] = "SENT"]
  /\ radio' = NULL
  /\ lock' = lock - 1
  /\ UNCHANGED <<hdr, requests, security, timers, nwkSeq>>

PhyStatuses == {"SUCCESS", "PHY_CHANNEL_ACCESS_FAILURE", "PHY_NO_ACK", "ERROR"}

(***************************************************************************)
(* nwkRxTaskHandler.                                                       *)
(***************************************************************************)
RxReady == {n \in Slots : state[n] \in RxStates}

ForUs(h) == h.dst \in {"self", "all"}
Deliver(h) == IF h.sec THEN "DECRYPT" ELSE "INDICATE"

(* nwkRxHandleReceivedFrame up to the duplicate filter: frames the filter  *)
(* never sees.                                                             *)
Unfiltered(h) ==
  h.mc \/ h.bpan \/ (h.dst = "all" /\ h.ack) \/ h.src = "self"

(* The state nwkRxHandleReceivedFrame leaves the frame in.                 *)
Sorted(h, dup) ==
  IF h.mc THEN "FINISH"
  ELSE IF h.bpan THEN IF ForUs(h) THEN Deliver(h) ELSE "FINISH"
  ELSE IF (h.dst = "all" /\ h.ack) \/ h.src = "self" \/ dup THEN "FINISH"
  ELSE IF ForUs(h) THEN Deliver(h)
  ELSE IF h.mac = "self" THEN "ROUTE" ELSE "FINISH"

Relays(h, dup) ==
  ~ Unfiltered(h) /\ ~ dup /\ h.mac = "all" /\ h.dst # "self" /\ ~ h.ll

RxReceived(n) ==
  /\ state[n] = "RECEIVED"
  /\ \E dup \in BOOLEAN :
       LET st == [state EXCEPT ![n] = Sorted(hdr[n], dup)] IN
       \/ /\ Relays(hdr[n], dup)               \* nwkTxBroadcastFrame
          /\ \E m \in Slots : \E d \in 1 .. MaxJitter :
               /\ Alloc(m)
               /\ state' = [st EXCEPT ![m] = "DELAY"]
               /\ hdr' = [hdr EXCEPT ![m] = hdr[n]]
               /\ tx' = [tx EXCEPT ![m] = Outgoing(d, "routing")]
          /\ lock' = lock + 1
       \/ /\ Relays(hdr[n], dup) => Exhausted
          /\ state' = st
          /\ UNCHANGED <<hdr, tx, lock>>
  /\ UNCHANGED <<secFrames, nwkSeq>>

RxDecryptUncounted(n) ==                                           \* faulty variant
  /\ state[n] = "DECRYPT"
  /\ state' = [state EXCEPT ![n] = "DECRYPT_PENDING"]
  /\ UNCHANGED <<hdr, tx, lock, nwkSeq, secFrames>>

RxDecrypt(n) ==
  /\ state[n] = "DECRYPT"
  /\ state' = [state EXCEPT ![n] = "DECRYPT_PENDING"]
  /\ secFrames' = secFrames + 1
  /\ UNCHANGED <<hdr, tx, lock, nwkSeq>>

(* nwkTxAckReceived takes the first frame that waits for this number.      *)
AcknowledgesLate(h, m) ==                                          \* faulty variant
  h.load = "ack" /\ state[m] \in {"WAIT_ACK", "CONFIRM"} /\ hdr[m].seq = h.acks
Acknowledges(h, m) ==
  h.load = "ack" /\ state[m] = "WAIT_ACK" /\ hdr[m].seq = h.acks
Acknowledged(h) ==
  {m \in Slots : Acknowledges(h, m) /\ \A k \in 1 .. m - 1 : ~ Acknowledges(h, k)}

(* nwkRxHandleIndication: whether the indication is acknowledged.  The     *)
(* node has an address of its own: it is not the broadcast address.        *)
SendsAck(h) ==
  /\ ~ h.bpan
  /\ \/ h.mac = "all" /\ h.dst = "self"
     \/ h.ack /\ (h.load = "taken" \/ Acknowledged(h) # {})

RxIndicate(n) ==
  /\ state[n] = "INDICATE"
  /\ LET h  == hdr[n]
         st == [m \in Slots |-> IF m = n THEN "FINISH"
                                ELSE IF m \in Acknowledged(h) THEN "CONFIRM"
                                ELSE state[m]]
         ts == [m \in Slots |-> IF m \in Acknowledged(h)
                                THEN [tx[m] EXCEPT !.acked = TRUE] ELSE tx[m]]
     IN \/ /\ SendsAck(h)                      \* nwkRxSendAck
           /\ \E m \in Slots : Alloc(m) /\
                TxFrame(st, hdr, ts, m, Command(h, h.sec), "command")
           /\ lock' = lock + 1
           /\ nwkSeq' = NextSeq
        \/ /\ SendsAck(h) => Exhausted
           /\ state' = st /\ tx' = ts
           /\ UNCHANGED <<hdr, lock, nwkSeq>>
  /\ UNCHANGED secFrames

(* nwkRouteFrame: pass the frame on, or free it and report a route error.  *)
RxRoute(n) ==
  /\ state[n] = "ROUTE"
  /\ \/ TxFrame(state, hdr, tx, n, hdr[n], "routing") /\ UNCHANGED <<lock, nwkSeq>>
     \/ /\ \E m \in Slots :
             /\ Alloc(m)
             /\ TxFrame([state EXCEPT ![n] = "FREE"], [hdr EXCEPT ![n] = NoHeader],
                        [tx EXCEPT ![n] = NoTx], m, Command(hdr[n], FALSE), "command")
        /\ nwkSeq' = NextSeq /\ lock' = lock
     \/ Exhausted /\ Free(n) /\ nwkSeq' = nwkSeq
  /\ UNCHANGED secFrames

RxFinish(n) == state[n] = "FINISH" /\ Free(n) /\ UNCHANGED <<secFrames, nwkSeq>>

RxStep(n) ==
  /\ task = "rx" /\ Visits(n, RxReady)
  /\ RxReceived(n) \/ RxDecrypt(n) \/ RxIndicate(n) \/ RxRoute(n) \/ RxFinish(n)
  /\ cur' = n
  /\ UNCHANGED <<requests, radio, secActive, secEncrypt, secLeft, timers, task>>

RxEnd ==
  /\ task = "rx" /\ SweepEnds(RxReady) /\ Goto("tx")
  /\ UNCHANGED <<frames, requests, lock, radio, security, timers, nwkSeq>>

(***************************************************************************)
(* nwkTxTaskHandler.                                                       *)
(***************************************************************************)
TxReadyBusy ==                                                     \* faulty variant
  {n \in Slots : state[n] \in {"ENCRYPT", "DELAY", "SENT", "CONFIRM", "SEND"}}
TxReady ==
  {n \in Slots : \/ state[n] \in {"ENCRYPT", "DELAY", "SENT", "CONFIRM"}
                 \/ state[n] = "SEND" /\ radio = NULL}

TxEncrypt(n) ==
  /\ state[n] = "ENCRYPT"
  /\ state' = [state EXCEPT ![n] = "ENCRYPT_PENDING"]
  /\ secFrames' = secFrames + 1
  /\ UNCHANGED <<hdr, tx, reqs, lock, radio, timers>>

TxDelay(n) ==
  /\ state[n] = "DELAY"
  /\ \/ /\ tx[n].timeout > 0
        /\ state' = [state EXCEPT ![n] = "WAIT_DELAY"]
        /\ delayTimer' = TRUE
     \/ /\ tx[n].timeout = 0
        /\ state' = [state EXCEPT ![n] = "SEND"]
        /\ delayTimer' = delayTimer
  /\ UNCHANGED <<hdr, tx, reqs, lock, radio, secFrames, ackTimer>>

TxSend(n) ==
  /\ state[n] = "SEND"
  /\ radio' = n
  /\ state' = [state EXCEPT ![n] = "WAIT_CONF"]
  /\ lock' = lock + 1
  /\ UNCHANGED <<hdr, tx, reqs, secFrames, timers>>

TxSent(n) ==
  /\ state[n] = "SENT"
  /\ \/ /\ tx[n].status = "SUCCESS" /\ hdr[n].src = "self" /\ hdr[n].ack
        /\ state' = [state EXCEPT ![n] = "WAIT_ACK"]
        /\ tx' = [tx EXCEPT ![n].timeout = AckTicks]
        /\ ackTimer' = TRUE
     \/ /\ ~ (tx[n].status = "SUCCESS" /\ hdr[n].src = "self" /\ hdr[n].ack)
        /\ state' = [state EXCEPT ![n] = "CONFIRM"]
        /\ UNCHANGED <<tx, ackTimer>>
  /\ UNCHANGED <<hdr, reqs, lock, radio, secFrames, delayTimer>>

(* nwkDataReqTxConf: the first request of the queue that points at frame n *)
Owns(i, n) == reqs[queue[i]].frame = n
FirstOwner(i, n) == Owns(i, n) /\ \A j \in 1 .. i - 1 : ~ Owns(j, n)

TxConfirm(n) ==
  /\ state[n] = "CONFIRM"
  /\ \/ /\ tx[n].confirm
        /\ \E i \in DOMAIN queue :
             /\ FirstOwner(i, n)
             /\ reqs' = [reqs EXCEPT ![queue[i]].state = "CONFIRM",
                                     ![queue[i]].status = tx[n].status,
                                     ![queue[i]].acked = tx[n].acked]
     \/ /\ tx[n].confirm => \A i \in DOMAIN queue : ~ Owns(i, n)
        /\ reqs' = reqs
  /\ Free(n)
  /\ UNCHANGED <<radio, secFrames, timers>>

TxStep(n) ==
  /\ task = "tx" /\ Visits(n, TxReady)
  /\ TxEncrypt(n) \/ TxDelay(n) \/ TxSend(n) \/ TxSent(n) \/ TxConfirm(n)
  /\ cur' = n
  /\ UNCHANGED <<queue, secActive, secEncrypt, secLeft, nwkSeq, task>>

TxEnd ==
  /\ task = "tx" /\ SweepEnds(TxReady) /\ Goto("req")
  /\ UNCHANGED <<frames, requests, lock, radio, security, timers, nwkSeq>>

(***************************************************************************)
(* nwkDataReqTaskHandler: the first request of the queue that is not       *)
(* waiting for its frame, if any.                                          *)
(***************************************************************************)
Waiting(i) == reqs[queue[i]].state = "WAIT_CONF"
Handles(i) == ~ Waiting(i) /\ \A j \in 1 .. i - 1 : Waiting(j)

FrameHeader(opt, mac) ==
  [src |-> "self", dst |-> opt.dst, mac |-> mac, ack |-> opt.ack,
   sec |-> opt.sec, ll |-> opt.ll, mc |-> FALSE, bpan |-> opt.bpan,
   seq |-> NextSeq, load |-> "taken", acks |-> 0]

ReqSend(i) ==                                    \* nwkDataReqSendFrame
  /\ reqs[queue[i]].state = "INITIAL"
  /\ \/ \E n \in Slots :
          /\ Alloc(n)
          /\ reqs' = [reqs EXCEPT ![queue[i]].frame = n,
                                  ![queue[i]].state = "WAIT_CONF"]
          /\ TxFrame(state, hdr, tx, n,
                     FrameHeader(reqs[queue[i]].opt, "all"), "request")
          /\ nwkSeq' = NextSeq
          /\ lock' = lock + 1
     \/ /\ Exhausted
        /\ reqs' = [reqs EXCEPT ![queue[i]].state = "CONFIRM",
                                ![queue[i]].status = "OUT_OF_MEMORY"]
        /\ UNCHANGED <<frames, nwkSeq, lock>>
  /\ queue' = queue

UnlinkHead(i) == Tail(queue)                                       \* faulty variant
Unlink(i) == RemoveAt(queue, i)

ReqConfirm(i) ==                                 \* nwkDataReqConfirm
  /\ reqs[queue[i]].state = "CONFIRM"
  /\ queue' = Unlink(i)
  /\ reqs' = [reqs EXCEPT ![queue[i]] = IdleReq]
  /\ lock' = lock - 1
  /\ UNCHANGED <<frames, nwkSeq>>

ReqStep(i) ==
  /\ task = "req" /\ Handles(i) /\ Goto("sec")
  /\ ReqSend(i) \/ ReqConfirm(i)
  /\ UNCHANGED <<radio, security, timers>>

ReqNone ==
  /\ task = "req" /\ \A i \in DOMAIN queue : Waiting(i)
  /\ Goto("sec")
  /\ UNCHANGED <<frames, requests, lock, radio, security, timers, nwkSeq>>

(***************************************************************************)
(* nwkSecurityTaskHandler: one frame at a time goes through the cipher, a  *)
(* block per pass of the loop.  The payload may be empty: a request of no  *)
(* data, or a received frame that is all MIC.  Of one shorter than the MIC *)
(* the size wraps to any number.                                           *)
(***************************************************************************)
SecStart(n) ==
  /\ secFrames # 0 /\ secActive = NULL
  /\ state[n] \in Pending /\ \A m \in 1 .. n - 1 : state[m] \notin Pending
  /\ secActive' = n
  /\ secEncrypt' = (state[n] = "ENCRYPT_PENDING")
  /\ secLeft' \in 0 .. MaxBlocks
  /\ state' = [state EXCEPT ![n] = "PROCESS"]
  /\ secFrames' = secFrames

SecProcess ==                                    \* with SYS_EncryptConf
  /\ secFrames # 0 /\ secActive # NULL /\ state[secActive] = "PROCESS"
  /\ secLeft' = IF secLeft = 0 THEN 0 ELSE secLeft - 1
  /\ state' = [state EXCEPT ![secActive] =
                 IF secLeft > 1 THEN "PROCESS" ELSE "SEC_CONFIRM"]
  /\ UNCHANGED <<secFrames, secActive, secEncrypt>>

SecConfirm ==                                    \* mic: nwkSecurityProcessMic
  /\ secFrames # 0 /\ secActive # NULL /\ state[secActive] = "SEC_CONFIRM"
  /\ \E mic \in BOOLEAN :
       state' = [state EXCEPT ![secActive] =
                   IF secEncrypt THEN "DELAY"
                   ELSE IF mic THEN "INDICATE" ELSE "FINISH"]
  /\ secActive' = NULL /\ secEncrypt' = FALSE
  /\ secFrames' = secFrames - 1
  /\ secLeft' = secLeft

SecIdle ==
  /\ \/ secFrames = 0
     \/ secActive = NULL /\ \A n \in Slots : state[n] \notin Pending
  /\ UNCHANGED <<state, security>>

SecStep ==
  /\ task = "sec" /\ Goto("timer")
  /\ (\E n \in Slots : SecStart(n)) \/ SecProcess \/ SecConfirm \/ SecIdle
  /\ UNCHANGED <<hdr, tx, requests, lock, radio, timers, nwkSeq>>

(***************************************************************************)
(* SYS_TimerTaskHandler: a running timer may be due; it leaves the timer   *)
(* list before its handler runs, which starts it again if a frame waits.   *)
(***************************************************************************)
Waits(n, s) == state[n] = s
ExpiresAtZero(n, s) == state[n] = s /\ tx[n].timeout = 0           \* faulty variant
Expires(n, s) == state[n] = s /\ tx[n].timeout = 1
Ticked(n, s) == IF Waits(n, s) THEN [tx[n] EXCEPT !.timeout = @ - 1] ELSE tx[n]
RestartsIfDue(s) == \E n \in Slots : Expires(n, s)                 \* faulty variant
Restarts(s) == \E n \in Slots : Waits(n, s)
TimedOutSilently(t) == t                                           \* faulty variant
TimedOut(t) == [t EXCEPT !.status = "NO_ACK"]                      \* nwkTxConfirm

AckTick ==                                       \* nwkTxAckWaitTimerHandler
  /\ task = "timer" /\ ackTimer
  /\ state' = [n \in Slots |-> IF Expires(n, "WAIT_ACK") THEN "CONFIRM" ELSE state[n]]
  /\ tx' = [n \in Slots |-> IF Expires(n, "WAIT_ACK")
                            THEN TimedOut(Ticked(n, "WAIT_ACK")) ELSE Ticked(n, "WAIT_ACK")]
  /\ ackTimer' = Restarts("WAIT_ACK")
  /\ UNCHANGED <<hdr, requests, lock, radio, security, delayTimer, nwkSeq, task, cur>>

DelayTick ==                                     \* nwkTxDelayTimerHandler
  /\ task = "timer" /\ delayTimer
  /\ state' = [n \in Slots |-> IF Expires(n, "WAIT_DELAY") THEN "SEND" ELSE state[n]]
  /\ tx' = [n \in Slots |-> Ticked(n, "WAIT_DELAY")]
  /\ delayTimer' = Restarts("WAIT_DELAY")
  /\ UNCHANGED <<hdr, requests, lock, radio, security, ackTimer, nwkSeq, task, cur>>

TimersDone ==
  /\ task = "timer" /\ Goto("app")
  /\ UNCHANGED <<frames, requests, lock, radio, security, timers, nwkSeq>>

(***************************************************************************)
(* APP_TaskHandler: the application may issue a request that is not queued *)
(* (NWK_DataReq).                                                          *)
(***************************************************************************)
NWK_DataReq(r, opt) ==
  /\ reqs[r].state = "IDLE"
  /\ reqs' = [reqs EXCEPT ![r] = [IdleReq EXCEPT !.state = "INITIAL", !.opt = opt]]
  /\ queue' = <<r>> \o queue
  /\ lock' = lock + 1

AppStep ==
  /\ task = "app" /\ Goto("phy")
  /\ \/ \E r \in Reqs, opt \in Options : NWK_DataReq(r, opt)
     \/ UNCHANGED <<requests, lock>>
  /\ UNCHANGED <<frames, radio, security, timers, nwkSeq>>

-----------------------------------------------------------------------------
Phy == PhyIdle \/ (\E h \in Inbound : PhyRx(h)) \/ (\E s \in PhyStatuses : PhyConf(s))
Rx  == RxEnd \/ \E n \in Slots : RxStep(n)
Tx  == TxEnd \/ \E n \in Slots : TxStep(n)
Req == ReqNone \/ \E i \in DOMAIN queue : ReqStep(i)

Next == Phy \/ Rx \/ Tx \/ Req \/ SecStep \/ AckTick \/ DelayTick \/ TimersDone \/ AppStep

Spec == Init /\ [][Next]_vars

(***************************************************************************)
(* The loop never stops (main calls the handlers for ever), a transmission *)
(* always ends (the radio retries a bounded number of times and raises     *)
(* txEnd), and a running timer is eventually due (the hardware timer       *)
(* interrupt keeps counting).                                              *)
(***************************************************************************)
Fairness ==
  /\ WF_vars(Next)
  /\ SF_vars(\E s \in PhyStatuses : PhyConf(s))
  /\ SF_vars(AckTick) /\ SF_vars(DelayTick)
  /\ WF_vars(TimersDone)

FairSpec == Spec /\ Fairness

-----------------------------------------------------------------------------
(* Every variable keeps its type.                                          *)
TypeOK ==
  /\ state \in [Slots -> States]
  /\ hdr \in [Slots -> Header]
  /\ tx \in [Slots -> TxInfo]
  /\ reqs \in [Reqs -> ReqInfo]
  /\ queue \in Seq(Reqs)
  /\ lock \in Int
  /\ radio \in Slots \cup {NULL}
  /\ secFrames \in Int /\ secActive \in Slots \cup {NULL}
  /\ secEncrypt \in BOOLEAN /\ secLeft \in 0 .. MaxBlocks
  /\ ackTimer \in BOOLEAN /\ delayTimer \in BOOLEAN
  /\ nwkSeq \in Seqs
  /\ task \in Tasks /\ cur \in 0 .. NBuf

Allocated == {n \in Slots : state[n] # "FREE"}

(* nwkIb.lock, which NWK_Busy reports, counts exactly the allocated frames, *)
(* the queued requests and the transmission in progress: every error path  *)
(* gives back what it took, and the node is not busy for ever.             *)
LockAccounting ==
  lock = Cardinality(Allocated) + Len(queue) + (IF radio = NULL THEN 0 ELSE 1)

(* The radio belongs to the one frame in WAIT_CONF, so that PHY_DataConf   *)
(* reports to the frame that was sent and never to a freed one.            *)
RadioOwner == \A n \in Slots : state[n] = "WAIT_CONF" <=> radio = n

(* nwkSecurityActiveFrames counts the frames the cipher has still to do,   *)
(* and only the active one is in it: a lost count would leave frames       *)
(* pending for ever, a second active frame would mix two cipher streams.   *)
(* A frame leaves the cipher when the last of its blocks is through, one   *)
(* that has none included.                                                 *)
CipherExclusive ==
  /\ secFrames = Cardinality({n \in Slots : state[n] \in SecStates})
  /\ \A n \in Slots : state[n] \in {"PROCESS", "SEC_CONFIRM"} <=> secActive = n
  /\ \A n \in Slots : state[n] = "SEC_CONFIRM" => secLeft = 0

(* A frame that waits for a delay or an acknowledgement has a timer that   *)
(* will reach it, and ticks left: the restart rule of the two timer        *)
(* handlers never leaves a frame behind, and the timeouts they decrement   *)
(* never pass zero (they are uint16_t and would start again at 65535).     *)
WaitersTimed ==
  \A n \in Slots :
    /\ state[n] = "WAIT_ACK" => ackTimer /\ tx[n].timeout > 0
    /\ state[n] = "WAIT_DELAY" => delayTimer /\ tx[n].timeout > 0

(* A frame of a request and the request point at each other: the first     *)
(* request of the queue with this frame (the one nwkDataReqTxConf finds)   *)
(* is waiting for it, although a confirmed request keeps its stale frame   *)
(* pointer until it leaves the queue and the slot may be taken again.      *)
Partners(i, n) ==
  Waiting(i) /\ Owns(i, n) /\ \A j \in 1 .. i - 1 : ~ Owns(j, n)
ConfirmMatches ==
  /\ \A n \in Slots : tx[n].confirm => \E i \in DOMAIN queue : Partners(i, n)
  /\ \A i \in DOMAIN queue : Waiting(i) =>
       \E n \in Slots : Partners(i, n) /\ tx[n].confirm

(* To the application the engine is a service that answers each request    *)
(* once, with the outcome of the request's own frame: success, if it asked *)
(* for an acknowledgement, exactly when the ACK command with its sequence  *)
(* number has been received in time.                                       *)
Phase(s) == IF s = "IDLE" THEN "idle" ELSE IF s = "CONFIRM" THEN "decided" ELSE "asked"
Calls == [r \in Reqs |->
            [phase |-> Phase(reqs[r].state), wants |-> reqs[r].opt.ack,
             acked |-> reqs[r].acked,
             ok |-> reqs[r].state = "CONFIRM" /\ reqs[r].status = "SUCCESS"]]
Service == INSTANCE DataService WITH calls <- Calls
ImplementsService == Service!Spec

(* An acknowledgement that arrives after the timeout, or twice, confirms   *)
(* nothing: a frame leaves WAIT_ACK once, and what it is confirmed with    *)
(* does not change until its request has taken it.                         *)
OutcomeStands ==
  [][\A n \in Slots :
       state[n] = "CONFIRM" /\ state'[n] # "FREE"
         => state'[n] = "CONFIRM" /\ tx'[n] = tx[n]]_vars

(* Whether the air becomes quiet.  The cipher takes the lowest pending     *)
(* frame first and needs several passes for each, so that an endless       *)
(* stream of secured frames can keep a higher slot waiting.                *)
QuietAir == <>[][~ \E h \in Inbound : PhyRx(h)]_vars

(* Every request is confirmed to the application (which waits for it with  *)
(* its busy flag), whatever the radio reports and however often the pool   *)
(* is exhausted.                                                           *)
RequestsConfirmed == QuietAir => \A r \in Reqs : reqs[r].state # "IDLE" ~> reqs[r].state = "IDLE"

(* No frame stays in the pool for ever, whatever path it takes.            *)
FramesReleased == QuietAir => \A n \in Slots : state[n] # "FREE" ~> state[n] = "FREE"

=============================================================================
