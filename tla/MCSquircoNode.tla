----------------------------- MODULE MCSquircoNode -----------------------------
(* Two kinds of traffic of one application: reports, commands and readings, *)
(* or the join chains of several hubs.                                      *)
EXTENDS MCSquircoApp

VARIABLE traffic

Heard == IF traffic = "node" THEN NodeTraffic ELSE JoinTraffic

AllTraffic == NodeTraffic \cup JoinTraffic

MCRx == RxDone \/ \E m \in Heard : appDataInd(m)

MCTimer ==
  \/ TimersDone \/ appAsyncJoinTimerHandler \/ appAsyncJoinChainResetTimerHandler
  \/ traffic = "node" /\ \E c \in Sensed : Sense(c)

MCStep == MCRx \/ Net \/ MCTimer \/ App

MCInit == Init /\ traffic \in {"node", "join"}

MCSpec == MCInit /\ [][MCStep /\ UNCHANGED traffic]_<<vars, traffic>>
=============================================================================
