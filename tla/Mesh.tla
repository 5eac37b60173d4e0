-------------------------------- MODULE Mesh --------------------------------
(***************************************************************************)
(* Lightweight Mesh nodes in the air of one PAN: Source sends its reports  *)
(* to Sink, one at a time, each asking for an acknowledgement, and every   *)
(* node learns routes from what it hears, filters duplicates, floods,      *)
(* forwards and answers.  Composes what NwkCore, NwkRoute and NwkDuplicate *)
(* show of one node: here a node deals with a received frame in one step,  *)
(* up to the frames that leave it, and its tables have room for everyone.  *)
(*                                                                         *)
(* The air fails at most MaxFaults times: a link appears, goes or changes, *)
(* a frame or its hardware acknowledgement is lost, or a node restarts.    *)
(***************************************************************************)
EXTENDS Naturals

CONSTANTS
  Node, Source, Sink,
  Topologies,    \* the link qualities there may be between the nodes; 0 is no link
  DefaultScore,  \* NWK_ROUTE_DEFAULT_SCORE
  MaxSeq,        \* the frames of a node's own that one report may cause
  MaxFaults,
  ALL            \* NWK_BROADCAST_ADDR, which is NWK_ROUTE_UNKNOWN too

ASSUME MeshConstantsOK ==
  /\ Source \in Node /\ Sink \in Node \ {Source} /\ ALL \notin Node
  /\ Topologies \subseteq [Node \X Node -> Nat]
  /\ DefaultScore \in Nat \ {0} /\ MaxSeq \in Nat \ {0} /\ MaxFaults \in Nat

VARIABLES
  lqi,     \* environment: the quality of each link
  faults,  \* environment: how often the air has failed
  route,   \* nwkRouteTable of each node: the entry for each destination
  seen,    \* nwkRxDuplicateRejectionTable of each node: the frames it knows
  nwkSeq,  \* nwkIb.nwkSeqNum of each node, counted from the report
  out,     \* the frames each node is about to send, with macDstAddr
  report,  \* the report of the source
  taken    \* history: how often the sink's application got the report

air  == <<lqi, faults>>
node == <<route, seen, nwkSeq, out>>
vars == <<air, node, report, taken>>

NoRoute == [hop |-> ALL, score |-> 0, lqi |-> 0]
NoTable == [d \in Node |-> NoRoute]

Init ==
  /\ lqi \in Topologies /\ faults = 0
  /\ route = [n \in Node |-> NoTable]
  /\ seen = [n \in Node |-> {}]
  /\ nwkSeq = [n \in Node |-> 0]
  /\ out = [n \in Node |-> {}]
  /\ report = "idle" /\ taken = 0

Near(n) == {m \in Node : lqi[n, m] > 0}
Id(f) == <<f.src, f.seq>>
Packet(f, to) == [frame |-> f, to |-> to]

(***************************************************************************)
(* The route table (NwkRoute).  A frame f heard from node `from', sent to  *)
(* macDstAddr `to'.                                                        *)
(***************************************************************************)
Switches(n, e, f, from, to) ==
  \/ e = NoRoute
  \/ e.hop # from /\ lqi[from, n] > e.lqi
  \/ to = ALL /\ f.dst = n

nwkRouteFrameReceived(n, f, from, to) ==
  [route[n] EXCEPT ![f.src] =
     IF Switches(n, @, f, from, to)
     THEN [hop |-> from, score |-> DefaultScore, lqi |-> lqi[from, n]]
     ELSE [@ EXCEPT !.lqi = lqi[from, n]]]

nwkRouteRemove(table, d) == [table EXCEPT ![d] = NoRoute]

Kept(table, d, ok) == table                                        \* faulty variant
nwkRouteFrameSent(table, d, ok) ==
  IF table[d] = NoRoute THEN table
  ELSE IF ok THEN [table EXCEPT ![d].score = DefaultScore]
  ELSE IF table[d].score = 1 THEN nwkRouteRemove(table, d)
  ELSE [table EXCEPT ![d].score = @ - 1]

(***************************************************************************)
(* nwkRxHandleReceivedFrame, and what follows from it: the indication with *)
(* its acknowledgement, or the routing with its route error.               *)
(***************************************************************************)
AnswersFlood(n, f, to) == f.dst = n                                \* faulty variant
Acknowledges(n, f, to) == f.dst = n /\ (to = ALL \/ f.kind = "data")

Command(n, f, kind, about) ==
  [src |-> n, dst |-> f.src, seq |-> nwkSeq[n], kind |-> kind, about |-> about]

(* The tables and frames of a node after a frame it knows, and a new one;  *)
(* `again' tells that the frame comes once more, because its sender missed *)
(* the hardware acknowledgement.                                           *)
Known(n, f, from, to) ==
  LET table == nwkRouteFrameReceived(n, f, from, to)
  IN  [route |-> IF to = n THEN nwkRouteRemove(table, f.dst) ELSE table,
       seen |-> seen[n], own |-> {}, passed |-> {}]

New(n, f, from, to, again) ==
  LET heard  == nwkRouteFrameReceived(n, f, from, to)
      table  == IF f.kind = "error" /\ f.dst = n THEN nwkRouteRemove(heard, f.about) ELSE heard
      failed == f.dst # n /\ to = n /\ table[f.dst] = NoRoute
      reply(kind, about) == {Packet(Command(n, f, kind, about), table[f.src].hop)}
  IN  [route  |-> IF again THEN nwkRouteRemove(table, f.dst) ELSE table,
       seen   |-> seen[n] \cup {Id(f)},
       own    |-> IF failed THEN reply("error", f.dst)
                  ELSE IF Acknowledges(n, f, to) THEN reply("ack", f.seq) ELSE {},
       passed |-> IF f.dst = n \/ failed THEN {}
                  ELSE {Packet(f, IF to = ALL THEN ALL ELSE table[f.dst].hop)}]

Forgetful(n, f, from, to, again) ==                                \* faulty variant
  IF f.src = n \/ Id(f) \in seen[n]
  THEN [route |-> route[n], seen |-> seen[n], own |-> {}, passed |-> {}]
  ELSE [New(n, f, from, to, again) EXCEPT !.seen = seen[n]]
Received(n, f, from, to, again) ==
  IF f.src = n THEN [route |-> route[n], seen |-> seen[n], own |-> {}, passed |-> {}]
  ELSE IF Id(f) \in seen[n] THEN Known(n, f, from, to)
  ELSE New(n, f, from, to, again)

(***************************************************************************)
(* A node sends a frame, and the nodes in `heard' receive it.  A frame is  *)
(* confirmed to the routes with the status of the radio, but the report of *)
(* the source when its acknowledgement comes, or does not.                 *)
(***************************************************************************)
Confirms(f) ==
  /\ f.kind = "ack" /\ f.dst = Source /\ f.about = 0 /\ Id(f) \notin seen[Source]
  /\ report = "sent"

SentTable(n, f, ok) ==
  IF n = Source /\ f.kind = "data" /\ ok THEN route[n]
  ELSE nwkRouteFrameSent(route[n], f.dst, ok)

Transmit(n, p, heard, again, ok) ==
  LET f == p.frame
      got == [m \in heard |-> Received(m, f, n, IF p.to = ALL THEN ALL ELSE m, again)]
      acked == Source \in heard /\ Confirms(f)
  IN
  /\ route' = [m \in Node |->
       IF m = n THEN SentTable(n, f, ok)
       ELSE IF m \notin heard THEN route[m]
       ELSE IF m = Source /\ acked THEN nwkRouteFrameSent(got[m].route, Sink, TRUE)
       ELSE got[m].route]
  /\ seen' = [m \in Node |-> IF m \in heard THEN got[m].seen ELSE seen[m]]
  /\ nwkSeq' = [m \in Node |-> IF m \in heard /\ got[m].own # {} THEN nwkSeq[m] + 1
                               ELSE nwkSeq[m]]
  /\ out' = [m \in Node |->
       IF m = n THEN out[n] \ {p}
       ELSE IF m \in heard THEN out[m] \cup got[m].own \cup got[m].passed ELSE out[m]]
  /\ taken' = IF Sink \in heard /\ f.kind = "data" /\ got[Sink].own # {} THEN taken + 1
              ELSE taken
  /\ report' = IF acked THEN "acked"
               ELSE IF n = Source /\ f.kind = "data" THEN IF ok THEN "sent" ELSE "failed"
               ELSE report
  /\ lqi' = lqi

Fails(n) == faults' = faults + n /\ faults' <= MaxFaults

(* A unicast frame, which the radio sends again until the receiver's       *)
(* hardware acknowledges it: it may be lost, or all its acknowledgements,  *)
(* or only the first of them.                                              *)
Unicast(n, p) ==
  /\ p.to # ALL
  /\ \/ p.to \in Near(n) /\ Fails(0) /\ Transmit(n, p, {p.to}, FALSE, TRUE)
     \/ p.to \in Near(n) /\ Fails(1) /\ \E again, ok \in BOOLEAN :
          (again \/ ~ ok) /\ Transmit(n, p, {p.to}, again, ok)
     \/ p.to \in Near(n) /\ Fails(1) /\ Transmit(n, p, {}, FALSE, FALSE)
     \/ p.to \notin Near(n) /\ Fails(0) /\ Transmit(n, p, {}, FALSE, FALSE)

(* A broadcast frame, which some neighbours may miss, or all if the        *)
(* channel never gets free.                                                *)
Broadcast(n, p) ==
  /\ p.to = ALL
  /\ \/ Fails(0) /\ Transmit(n, p, Near(n), FALSE, TRUE)
     \/ Fails(1) /\ \E heard \in SUBSET Near(n), ok \in BOOLEAN :
          (ok \/ heard = {}) /\ Transmit(n, p, heard, FALSE, ok)

Send(n) == \E p \in out[n] : Unicast(n, p) \/ Broadcast(n, p)

Quiet == \A n \in Node : out[n] = {}

(* The acknowledgement did not come within NWK_ACK_WAIT_TIME, in which the *)
(* air becomes quiet.                                                      *)
Timeout ==
  /\ Quiet /\ report = "sent"
  /\ report' = "failed"
  /\ route' = [route EXCEPT ![Source] = nwkRouteFrameSent(@, Sink, FALSE)]
  /\ UNCHANGED <<air, seen, nwkSeq, out, taken>>

(* The next report: the frames of the last one are gone, so that sequence  *)
(* numbers count from here.                                                *)
Report ==
  LET f == [src |-> Source, dst |-> Sink, seq |-> 0, kind |-> "data", about |-> 0] IN
  /\ Quiet /\ report \in {"idle", "acked", "failed"}
  /\ report' = "queued" /\ taken' = 0
  /\ seen' = [n \in Node |-> {}]
  /\ nwkSeq' = [n \in Node |-> IF n = Source THEN 1 ELSE 0]
  /\ out' = [out EXCEPT ![Source] = {Packet(f, route[Source][Sink].hop)}]
  /\ UNCHANGED <<air, route>>

Change ==
  /\ Fails(1)
  /\ lqi' \in Topologies /\ lqi' # lqi
  /\ UNCHANGED <<node, report, taken>>

(* NWK_Init: what the node knew and was about to send is lost, and its     *)
(* sequence numbers start again.  (A sink that restarts may take a report  *)
(* twice; it stays up.)                                                    *)
Restart(n) ==
  /\ Fails(1) /\ n # Sink
  /\ route' = [route EXCEPT ![n] = NoTable]
  /\ seen' = [seen EXCEPT ![n] = {}]
  /\ nwkSeq' = [nwkSeq EXCEPT ![n] = 0]
  /\ out' = [out EXCEPT ![n] = {}]
  /\ report' = IF n = Source /\ report # "idle" THEN "failed" ELSE report
  /\ UNCHANGED <<lqi, taken>>

Next ==
  \/ \E n \in Node : Send(n) \/ Restart(n)
  \/ Timeout \/ Report \/ Change

Spec == Init /\ [][Next]_vars

(* The transmit handler gets round to every frame, the acknowledgement     *)
(* timer runs, and the application keeps reporting.                        *)
Fairness ==
  /\ \A n \in Node : WF_vars(Send(n))
  /\ WF_vars(Timeout) /\ WF_vars(Report)

FairSpec == Spec /\ Fairness

-----------------------------------------------------------------------------
Frame == [src : Node, dst : Node, seq : 0 .. MaxSeq - 1, kind : {"data", "ack", "error"},
          about : Node \cup (0 .. MaxSeq - 1)]

(* Every variable keeps its type; the frames of its own that a node sends  *)
(* for one report are bounded, so that acknowledgements of acknowledgements*)
(* and route errors about route errors come to an end.                     *)
TypeOK ==
  /\ lqi \in Topologies /\ faults \in 0 .. MaxFaults
  /\ route \in [Node -> [Node ->
       [hop : Node \cup {ALL}, score : 0 .. DefaultScore, lqi : Nat]]]
  /\ \A n, d \in Node : route[n][d].score = 0 => route[n][d] = NoRoute
  /\ seen \in [Node -> SUBSET (Node \X (0 .. MaxSeq - 1))]
  /\ nwkSeq \in [Node -> 0 .. MaxSeq]
  /\ \A n \in Node : \A p \in out[n] : p.frame \in Frame /\ p.to \in Node \cup {ALL}
  /\ report \in {"idle", "queued", "sent", "acked", "failed"} /\ taken \in Nat

(* However often the air repeats, floods and forwards it, the sink's       *)
(* application gets a report at most once, and a report that counts as     *)
(* acknowledged has been there.                                            *)
DeliveredOnce == taken <= 1 /\ (report = "acked" => taken = 1)

(* Once the air works, reports reach the sink again and again, whatever    *)
(* stale routes the failures left behind (they are worn out by the reports *)
(* that fail), and every flood dies out.                                   *)
Delivered == []<>(Quiet /\ taken = 1)

(* Their acknowledgements come back, too, unless two nodes take each other *)
(* for the way to the source, which nothing resolves: a duplicate that     *)
(* comes back makes one of the two forget its route, and the next flood    *)
(* teaches it the same one.                                                *)
Loop == \E n, m \in Node \ {Source} : route[n][Source].hop = m /\ route[m][Source].hop = n
Acknowledged == []<>(report = "acked" \/ Loop)

(* Without a loop clause it holds of one relay, not of two.                *)
AcknowledgedAlways == []<>(report = "acked")
=============================================================================
