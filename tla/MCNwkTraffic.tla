----------------------------- MODULE MCNwkTraffic -----------------------------
(* Kinds of traffic of one node that are too large to interleave: other     *)
(* nodes' frames and no request of the application, those that compete for  *)
(* the cipher apart from the plain ones, or the application's requests and  *)
(* the acknowledgements they ask for.                                       *)
EXTENDS MCNwkCore

VARIABLE traffic

Encrypted == {h \in WildAir : h.sec}

Heard ==
  CASE traffic = "secured"  -> Encrypted
    [] traffic = "plain"    -> WildAir \ Encrypted
    [] traffic = "requests" -> Acks

AllAir == WildAir \cup Acks

MCPhy == PhyIdle \/ (\E h \in Heard : PhyRx(h)) \/ \E s \in PhyStatuses : PhyConf(s)

MCAppStep == AppStep /\ (traffic # "requests" => queue' = queue)

MCStep ==
  MCPhy \/ Rx \/ Tx \/ Req \/ SecStep \/ AckTick \/ DelayTick \/ TimersDone \/ MCAppStep

MCInit == Init /\ traffic \in {"secured", "plain", "requests"}

MCSpec == MCInit /\ [][MCStep /\ UNCHANGED traffic]_<<vars, traffic>>
=============================================================================
