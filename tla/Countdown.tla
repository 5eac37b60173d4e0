----------------------------- MODULE Countdown -----------------------------
(***************************************************************************)
(* What the software timers promise: every running timer counts down from  *)
(* its interval; time passes in lumps, and of a lump the timers take their *)
(* share in the order in which they are due.  What a handler starts counts *)
(* from the moment its own timer was due, not from the end of the lump, so *)
(* that a periodic timer does not drift.                                   *)
(***************************************************************************)
EXTENDS Naturals

CONSTANTS
  Timers,    \* the timers
  Interval,  \* their intervals
  Periodic   \* those that start again by themselves

VARIABLES
  left,  \* the time left of every running timer
  debt   \* the time that has passed and is not yet taken off

Running == DOMAIN left
OnlyOf(S) == [t \in S |-> left[t]]
Add(f, t, d) == [s \in DOMAIN f \cup {t} |-> IF s = t THEN d ELSE f[s]]

Init == left = [t \in {} |-> 0] /\ debt = 0

Start(t) == t \notin Running /\ left' = Add(left, t, Interval[t]) /\ debt' = debt

Stop(t) == t \in Running /\ left' = OnlyOf(Running \ {t}) /\ debt' = debt

Pass == debt = 0 /\ debt' \in Nat \ {0} /\ left' = left

Expire(t) ==
  /\ t \in Running /\ left[t] <= debt
  /\ \A s \in Running : left[t] <= left[s]
  /\ LET rest == [s \in Running \ {t} |-> left[s] - left[t]]
     IN  left' = IF t \in Periodic THEN Add(rest, t, Interval[t]) ELSE rest
  /\ debt' = debt - left[t]

Settle ==
  /\ \A t \in Running : left[t] > debt
  /\ left' = [t \in Running |-> left[t] - debt]
  /\ debt' = 0

Next == Pass \/ Settle \/ \E t \in Timers : Start(t) \/ Stop(t) \/ Expire(t)

Spec == Init /\ [][Next]_<<left, debt>>
=============================================================================
