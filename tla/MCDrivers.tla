----------------------------- MODULE MCDrivers -----------------------------
(* The two drivers that the super-loop calls around the network layer, the *)
(* radio and the timers, with the hardware at work meanwhile.  They share  *)
(* nothing, so that one of them is at work in a behaviour.                 *)
EXTENDS PhyDriver, SysTimer, TLC

CONSTANTS fast, slow, once

VARIABLE works

(* A periodic timer shorter than a tick, as appLSDebounceTimer is, and two *)
(* that are not multiples of it.                                           *)
Intervals == fast :> 1 @@ slow :> 3 @@ once :> 4

all == <<works, vars, clock>>

ByTimers(A) == works = "timers" /\ A /\ UNCHANGED <<works, vars>>
ByRadio(A) == works = "radio" /\ A /\ UNCHANGED <<works, clock>>

MCInit == Init /\ TimersInit /\ works \in {"timers", "radio"}

MCNext == ByRadio(Next) \/ ByTimers(TimersNext)

RadioFair ==
  /\ WF_all(ByRadio(RxOver)) /\ WF_all(ByRadio(AckSent)) /\ WF_all(ByRadio(TxComplete))
  /\ WF_all(ByRadio(TaskRx)) /\ WF_all(ByRadio(Indicate))
  /\ WF_all(ByRadio(Release)) /\ WF_all(ByRadio(TaskTx))

TimersFair ==
  /\ WF_all(ByTimers(TIMER4_COMPA_vect)) /\ SF_all(ByTimers(Enter))
  /\ SF_all(ByTimers(Expire)) /\ WF_all(ByTimers(HandlerDone))
  /\ SF_all(ByTimers(Leave))

MCSpec == MCInit /\ [][MCNext]_all /\ RadioFair /\ TimersFair
=============================================================================
