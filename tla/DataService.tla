---------------------------- MODULE DataService ----------------------------
(***************************************************************************)
(* What the network layer promises an application about its data requests  *)
(* (NWK_DataReq): each is answered once, and if it asked for an            *)
(* acknowledgement the answer is success exactly when the acknowledgement  *)
(* has arrived.                                                            *)
(***************************************************************************)
CONSTANT Reqs

VARIABLE calls  \* per request: its phase, whether it wants an acknowledgement,
                \* whether that has arrived, and whether the answer is success

Call(phase, wants, acked, ok) ==
  [phase |-> phase, wants |-> wants, acked |-> acked, ok |-> ok]
Idle == Call("idle", FALSE, FALSE, FALSE)

Init == calls = [r \in Reqs |-> Idle]

Ask(r) ==
  /\ calls[r] = Idle
  /\ \E wants \in BOOLEAN :
       calls' = [calls EXCEPT ![r] = Call("asked", wants, FALSE, FALSE)]

Decide(r) ==
  /\ calls[r].phase = "asked"
  /\ \E acked, ok \in BOOLEAN :
       /\ calls[r].wants => (ok <=> acked)
       /\ calls' = [calls EXCEPT ![r] = Call("decided", calls[r].wants, acked, ok)]

Answer(r) ==
  /\ calls[r].phase = "decided"
  /\ calls' = [calls EXCEPT ![r] = Idle]

Next == \E r \in Reqs : Ask(r) \/ Decide(r) \/ Answer(r)

Spec == Init /\ [][Next]_calls
=============================================================================
