------------------------------ MODULE PhyDriver ------------------------------
(***************************************************************************)
(* The radio driver (phy.c for the ATmegaRFR2) and the transceiver under   *)
(* it.  The transceiver receives, acknowledges and sends by itself and     *)
(* raises flags; the driver looks at the flags once in a pass of the       *)
(* super-loop, copies the frame out, waits for the transceiver and lets it *)
(* have its buffer back.  The transceiver is external: it is what the      *)
(* driver needs it to be.                                                  *)
(***************************************************************************)
EXTENDS Naturals

CONSTANT Frames  \* the frames other nodes send

Own == "own"     \* a frame of this node, in the frame buffer

VARIABLES
  phyState, phyRxState,
  cpu,        \* where the driver is in PHY_TaskHandler
  indicated,  \* history: changes with every PHY_DataInd
  handed,     \* history: the frame last given to PHY_DataInd
  trxStatus,  \* the transceiver: its state,
  rxEnd, txEnd,  \* two flags of IRQ_STATUS,
  buffer,     \* its frame buffer,
  protected,  \* whether rxSafeMode keeps the frame in it,
  pending     \* and the frame that raised rxEnd

driver == <<phyState, phyRxState, cpu, indicated, handed>>
flags  == <<rxEnd, txEnd>>
memory == <<buffer, protected, pending>>
vars   == <<driver, trxStatus, flags, memory>>

(* PHY_Init; the frame buffer holds anything.                              *)
Init ==
  /\ phyState = "IDLE" /\ phyRxState = FALSE /\ cpu = "loop"
  /\ indicated = FALSE /\ handed = Own
  /\ trxStatus = "TRX_OFF" /\ rxEnd = FALSE /\ txEnd = FALSE
  /\ buffer = Own /\ protected = FALSE /\ pending = Own

-----------------------------------------------------------------------------
(* The transceiver.  A frame that is being received or acknowledged is     *)
(* lost when the driver changes the state; the protection ends with it.    *)
RxStart(f) ==
  /\ trxStatus = "RX_AACK_ON" /\ ~ protected
  /\ trxStatus' = "BUSY_RX_AACK" /\ buffer' = f
  /\ UNCHANGED <<driver, flags, protected, pending>>

(* The checksum was wrong, or the frame is not for this node.              *)
RxFail ==
  /\ trxStatus = "BUSY_RX_AACK" /\ ~ protected
  /\ trxStatus' = "RX_AACK_ON"
  /\ UNCHANGED <<driver, flags, memory>>

RxComplete(acked) ==
  /\ trxStatus = "BUSY_RX_AACK" /\ ~ protected
  /\ rxEnd' = TRUE /\ protected' = TRUE
  /\ pending' = IF rxEnd THEN pending ELSE buffer
  /\ trxStatus' = IF acked THEN "BUSY_RX_AACK" ELSE "RX_AACK_ON"
  /\ UNCHANGED <<driver, txEnd, buffer>>

AckSent ==
  /\ trxStatus = "BUSY_RX_AACK" /\ protected
  /\ trxStatus' = "RX_AACK_ON" /\ txEnd' = TRUE
  /\ UNCHANGED <<driver, rxEnd, memory>>

TxComplete ==
  /\ trxStatus = "BUSY_TX_ARET"
  /\ trxStatus' = "TX_ARET_ON" /\ txEnd' = TRUE
  /\ UNCHANGED <<driver, rxEnd, memory>>

RxOver == RxFail \/ \E acked \in BOOLEAN : RxComplete(acked)

Transceiver ==
  \/ \E f \in Frames : RxStart(f)
  \/ RxOver \/ AckSent \/ TxComplete

-----------------------------------------------------------------------------
(* phyTrxSetState, and the clearing of the flags that follows it.          *)
phyTrxSetState(s) == trxStatus' = s /\ protected' = FALSE
StaleFlags == rxEnd' = rxEnd /\ txEnd' = FALSE                      \* faulty variant
ClearFlags == rxEnd' = FALSE /\ txEnd' = FALSE

phySetRxState(rx) ==
  /\ phyTrxSetState(IF rx THEN "RX_AACK_ON" ELSE "TRX_OFF") /\ ClearFlags

InLoop == cpu = "loop" /\ cpu' = "loop"

(* appInit calls it when nothing has been sent.                            *)
PHY_SetRxState(rx) ==
  /\ InLoop /\ phyState = "IDLE"
  /\ phyRxState' = rx /\ phySetRxState(rx)
  /\ UNCHANGED <<phyState, indicated, handed, buffer, pending>>

(* Called before that only.                                                *)
PHY_RandomReq ==
  /\ InLoop /\ phyState = "IDLE" /\ ~ phyRxState
  /\ phySetRxState(phyRxState)
  /\ UNCHANGED <<phyState, phyRxState, indicated, handed, buffer, pending>>

(* NWK_SleepReq and NWK_WakeupReq, of an application that looks at         *)
(* NWK_Busy before.                                                        *)
PHY_Sleep ==
  /\ InLoop /\ phyState = "IDLE"
  /\ phyState' = "SLEEP" /\ phyTrxSetState("SLEEP")
  /\ UNCHANGED <<phyRxState, indicated, handed, flags, buffer, pending>>

PHY_Wakeup ==
  /\ InLoop /\ phyState = "SLEEP"
  /\ phyState' = "IDLE" /\ phySetRxState(phyRxState)
  /\ UNCHANGED <<phyRxState, indicated, handed, buffer, pending>>

(* nwkTxTaskHandler has one frame with the radio at a time.                *)
DataReqHasty ==                                                    \* faulty variant
  /\ InLoop /\ phyState = "IDLE"
  /\ phyTrxSetState("BUSY_TX_ARET") /\ UNCHANGED flags
  /\ buffer' = Own /\ phyState' = "TX_WAIT_END"
  /\ UNCHANGED <<phyRxState, indicated, handed, pending>>
PHY_DataReq ==
  /\ InLoop /\ phyState = "IDLE"
  /\ phyTrxSetState("BUSY_TX_ARET") /\ ClearFlags
  /\ buffer' = Own /\ phyState' = "TX_WAIT_END"
  /\ UNCHANGED <<phyRxState, indicated, handed, pending>>

(* PHY_TaskHandler: the frame, while it is being copied and indicated, the *)
(* wait for the end of its acknowledgement, and the release of the buffer. *)
TaskRx ==
  /\ cpu = "loop" /\ phyState # "SLEEP" /\ rxEnd
  /\ cpu' = "copy"
  /\ UNCHANGED <<phyState, phyRxState, indicated, handed, trxStatus, flags, memory>>

Indicate ==
  /\ cpu = "copy" /\ cpu' = "wait"
  /\ handed' = buffer /\ indicated' = ~ indicated
  /\ UNCHANGED <<phyState, phyRxState, trxStatus, flags, memory>>

ReleaseFlagOnly ==                                                 \* faulty variant
  /\ cpu = "wait" /\ trxStatus = "RX_AACK_ON"
  /\ cpu' = "loop" /\ ClearFlags
  /\ UNCHANGED <<phyState, phyRxState, indicated, handed, trxStatus, memory>>
Release ==
  /\ cpu = "wait" /\ trxStatus = "RX_AACK_ON"
  /\ cpu' = "loop" /\ ClearFlags /\ protected' = FALSE
  /\ UNCHANGED <<phyState, phyRxState, indicated, handed, trxStatus, buffer, pending>>

TaskTx ==
  /\ InLoop /\ phyState # "SLEEP" /\ ~ rxEnd /\ txEnd
  /\ IF trxStatus = "TX_ARET_ON"
     THEN phySetRxState(phyRxState) /\ phyState' = "IDLE"
     ELSE ClearFlags /\ UNCHANGED <<phyState, trxStatus, protected>>
  /\ UNCHANGED <<phyRxState, indicated, handed, buffer, pending>>

TaskHandler == TaskRx \/ Indicate \/ Release \/ TaskTx

Calls ==
  \/ \E rx \in BOOLEAN : PHY_SetRxState(rx)
  \/ PHY_RandomReq \/ PHY_Sleep \/ PHY_Wakeup \/ PHY_DataReq

Next == Transceiver \/ Calls \/ TaskHandler

Spec == Init /\ [][Next]_vars

Fairness ==
  /\ WF_vars(RxOver) /\ WF_vars(AckSent) /\ WF_vars(TxComplete)
  /\ WF_vars(TaskRx) /\ WF_vars(Indicate) /\ WF_vars(Release) /\ WF_vars(TaskTx)

FairSpec == Spec /\ Fairness

-----------------------------------------------------------------------------
(* Until it is indicated, a frame stays in the buffer as it arrived,       *)
(* whatever arrives after it.                                              *)
FrameKept == phyState = "IDLE" /\ rxEnd => buffer = pending /\ protected

(* A node that listens will always be able to receive again: the buffer is *)
(* given back, no transmission or wait for the transceiver lasts for ever. *)
Hears == trxStatus = "RX_AACK_ON" /\ ~ protected
Attentive == phyRxState ~> Hears \/ ~ phyRxState \/ phyState = "SLEEP"

(* The driver is what the network layer takes it for.                      *)
Service == INSTANCE PhyService WITH sending <- phyState = "TX_WAIT_END"
ImplementsService == Service!Spec

(* A frame that the sender knows to be acknowledged is indicated.  Not so: *)
(* a transmission that begins between the end of the frame and the next    *)
(* look at the flags drops it.                                             *)
AcknowledgedIndicated == [][rxEnd /\ ~ rxEnd' => cpu = "wait"]_vars
=============================================================================
