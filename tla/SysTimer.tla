------------------------------ MODULE SysTimer ------------------------------
(***************************************************************************)
(* The software timers (sysTimer.c) and the hardware tick that drives them *)
(* (halTimer.c).  The running timers form a list in the order in which     *)
(* they are due, each with the time left after the one before it.  The     *)
(* tick interrupt may come at any moment; a timer may be started or        *)
(* stopped by any task, and by the handler of a timer that is due.  Names  *)
(* differ from those of PhyDriver, so that one module may extend both.     *)
(***************************************************************************)
EXTENDS Naturals, Sequences, FiniteSets, SequencesExt

CONSTANTS
  Timers,     \* the SYS_Timer_t objects
  Interval,   \* their intervals
  Periodic,   \* those in SYS_TIMER_PERIODIC_MODE
  TickTime,   \* HAL_TIMER_INTERVAL
  IrqSize,    \* 256: halTimerIrqCount is a uint8_t
  NONE

ASSUME TimerConstantsOK ==
  /\ Interval \in [Timers -> Nat \ {0}] /\ Periodic \subseteq Timers
  /\ TickTime \in Nat \ {0} /\ IrqSize \in Nat \ {0, 1} /\ NONE \notin Timers

VARIABLES
  timers,   \* the timer list
  timeout,  \* SYS_Timer_t.timeout, while the timer is in the list
  irq,      \* halTimerIrqCount
  elapsed,  \* the local variable of SYS_TimerTaskHandler
  loop,     \* whether that handler is running
  handler   \* the timer whose handler is being called

clock == <<timers, timeout, irq, elapsed, loop, handler>>

TimersInit ==
  /\ timers = <<>> /\ timeout = [t \in Timers |-> 0]
  /\ irq = 0 /\ elapsed = 0 /\ loop = FALSE /\ handler = NONE

StartedAhead(t) == timers # <<>> /\ Head(timers) = t             \* faulty variant
SYS_TimerStarted(t) == \E i \in DOMAIN timers : timers[i] = t

(* The time at which the i-th timer of list l is due.                      *)
DueAt(l, ts, i) ==
  LET sum[k \in 0 .. Len(l)] == IF k = 0 THEN 0 ELSE sum[k - 1] + ts[l[k]]
  IN  sum[i]

(* placeTimer: behind the timers that are due no later.                    *)
AheadOfEquals(l, ts, t) ==                                         \* faulty variant
  Cardinality({i \in DOMAIN l : ts[l[i]] <= Interval[t]})
Place(l, ts, t) == Cardinality({i \in DOMAIN l : DueAt(l, ts, i) <= Interval[t]})

Placed(l, ts, t) ==
  LET k == Place(l, ts, t)
      d == Interval[t] - DueAt(l, ts, k)
  IN  [list |-> InsertAt(l, k + 1, t),
       left |-> [s \in Timers |->
                   IF s = t THEN d
                   ELSE IF k < Len(l) /\ s = l[k + 1] THEN ts[s] - d ELSE ts[s]]]

SYS_TimerStart(t) ==
  /\ ~ SYS_TimerStarted(t)
  /\ timers' = Placed(timers, timeout, t).list
  /\ timeout' = Placed(timers, timeout, t).left
  /\ UNCHANGED <<irq, elapsed, loop, handler>>

(* What the next timer gains when the i-th is stopped.                     *)
Inherits(i) == IF i < Len(timers) THEN {timers[i + 1]} ELSE {}

SYS_TimerStop(t) ==
  \E i \in DOMAIN timers :
    /\ timers[i] = t
    /\ timers' = RemoveAt(timers, i)
    /\ timeout' = [s \in Timers |-> IF s = t THEN 0
                     ELSE timeout[s] + (IF s \in Inherits(i) THEN timeout[t] ELSE 0)]
    /\ UNCHANGED <<irq, elapsed, loop, handler>>

(* Tasks run between two calls of the timer handler, timer handlers within *)
(* one.                                                                    *)
Tasks ==
  /\ loop => handler # NONE
  /\ \E t \in Timers : SYS_TimerStart(t) \/ SYS_TimerStop(t)

TIMER4_COMPA_vect ==
  /\ irq' = (irq + 1) % IrqSize
  /\ UNCHANGED <<timers, timeout, elapsed, loop, handler>>

(***************************************************************************)
(* SYS_TimerTaskHandler.                                                   *)
(***************************************************************************)
Enter ==
  /\ ~ loop /\ irq # 0
  /\ elapsed' = irq * TickTime /\ irq' = 0
  /\ loop' = TRUE
  /\ UNCHANGED <<timers, timeout, handler>>

Due == timers # <<>> /\ timeout[Head(timers)] <= elapsed

Again(l, ts, t) ==
  IF t \in Periodic THEN Placed(l, ts, t) ELSE [list |-> l, left |-> ts]

ExpireOnce ==                                                      \* faulty variant
  /\ loop /\ handler = NONE /\ Due
  /\ elapsed' = elapsed - timeout[Head(timers)]
  /\ timers' = Tail(timers)
  /\ handler' = Head(timers)
  /\ UNCHANGED <<timeout, irq, loop>>
Expire ==
  /\ loop /\ handler = NONE /\ Due
  /\ LET t == Head(timers)
         next == Again(Tail(timers), [timeout EXCEPT ![t] = 0], t)
     IN  /\ elapsed' = elapsed - timeout[t]
         /\ timers' = next.list /\ timeout' = next.left
         /\ handler' = t
  /\ UNCHANGED <<irq, loop>>

HandlerDone ==
  /\ handler # NONE /\ handler' = NONE
  /\ UNCHANGED <<timers, timeout, irq, elapsed, loop>>

LeaveEarly ==                                                      \* faulty variant
  /\ loop /\ handler = NONE /\ ~ Due
  /\ elapsed' = 0 /\ loop' = FALSE
  /\ UNCHANGED <<timers, timeout, irq, handler>>
Leave ==
  /\ loop /\ handler = NONE /\ ~ Due
  /\ timeout' = [t \in Timers |-> IF timers # <<>> /\ t = Head(timers)
                                  THEN timeout[t] - elapsed ELSE timeout[t]]
  /\ elapsed' = 0 /\ loop' = FALSE
  /\ UNCHANGED <<timers, irq, handler>>

TimersTask == Enter \/ Expire \/ HandlerDone \/ Leave

TimersNext == Tasks \/ TIMER4_COMPA_vect \/ TimersTask

TimersSpec == TimersInit /\ [][TimersNext]_clock

(* The tick keeps coming and the super-loop keeps calling the handler.     *)
TimersFairness ==
  /\ WF_clock(TIMER4_COMPA_vect) /\ SF_clock(Enter)
  /\ SF_clock(Expire) /\ WF_clock(HandlerDone) /\ SF_clock(Leave)

FairTimersSpec == TimersSpec /\ TimersFairness

-----------------------------------------------------------------------------
TimersTypeOK ==
  /\ timers \in Seq(Timers) /\ timeout \in [Timers -> Nat]
  /\ irq \in 0 .. IrqSize - 1 /\ elapsed \in Nat
  /\ loop \in BOOLEAN /\ handler \in Timers \cup {NONE}

(* No timer is in the list twice (it would be linked to itself), although  *)
(* handlers start timers, their own too, while the list is being worked    *)
(* off; and what is not in the list has no time left.                      *)
LinkedOnce == \A i, j \in DOMAIN timers : timers[i] = timers[j] => i = j

(* The list of differences is a set of countdowns.                         *)
Position(t) == CHOOSE i \in DOMAIN timers : timers[i] = t
Left == [t \in {s \in Timers : SYS_TimerStarted(s)} |-> DueAt(timers, timeout, Position(t))]
Timing == INSTANCE Countdown WITH left <- Left, debt <- elapsed
ImplementsCountdown == Timing!Spec

(* A timer that is started expires or is stopped, whatever the others do.  *)
EventuallyDue == \A t \in Timers :
  SYS_TimerStarted(t) ~> handler = t \/ ~ SYS_TimerStarted(t)
=============================================================================
