----------------------------- MODULE MeshProofs -----------------------------
(***************************************************************************)
(* A report reaches the application of the sink at most once, and before   *)
(* it counts as acknowledged, for any number of nodes, any links and any   *)
(* faults of the air.                                                      *)
(***************************************************************************)
EXTENDS Mesh, TLAPS

(* The frame of the report, and whether the source still waits for it.     *)
ReportFrame == [src |-> Source, dst |-> Sink, seq |-> 0, kind |-> "data", about |-> 0]
Awaited == report \in {"queued", "sent"}
IsAnswer(f) == f.kind = "ack" /\ f.dst = Source /\ f.about = 0

Shapes ==
  /\ DOMAIN seen = Node /\ DOMAIN out = Node /\ nwkSeq \in [Node -> Nat]
  /\ report \in {"idle", "queued", "sent", "acked", "failed"}

(* The only data on the air is the report, and the source holds it until   *)
(* it has sent it.                                                         *)
DataSound ==
  /\ \A n \in Node : \A p \in out[n] : p.frame.kind = "data" => p.frame = ReportFrame
  /\ \A p \in out[Source] : p.frame.kind = "data" =>
       /\ report = "queued"
       /\ \A q \in out[Source] : q.frame.kind = "data" => p = q

(* While the source waits for the answer to its report, the number 0 is    *)
(* the report's, so that an acknowledgement of number 0 comes from a sink  *)
(* that has taken it.                                                      *)
NumberSound ==
  Awaited =>
    /\ nwkSeq[Source] > 0
    /\ \A n \in Node : \A p \in out[n] :
         /\ p.frame.src = Source /\ p.frame.seq = 0 => p.frame.kind = "data"
         /\ IsAnswer(p.frame) => taken = 1

(* The sink's duplicate filter knows the report once it has taken it.      *)
TakenSound ==
  /\ taken \in {0, 1}
  /\ taken = 1 => <<Source, 0>> \in seen[Sink]
  /\ report = "acked" => taken = 1

MInv == Shapes /\ DataSound /\ NumberSound /\ TakenSound

LEMMA StartsSound == Init => MInv
<1> SUFFICES ASSUME Init PROVE MInv
  OBVIOUS
<1> USE MeshConstantsOK
<1>1. Shapes
  BY DEF Init, Shapes
<1>2. \A n \in Node : out[n] = {}
  BY DEF Init
<1> QED BY <1>1, <1>2 DEF Init, MInv, DataSound, NumberSound, Awaited, TakenSound

(* What a node makes of a frame it receives: it passes the frame itself    *)
(* on, answers it with a command of its own, and does either only for a    *)
(* frame of another node that it has not seen.                             *)
LEMMA ReceivedEffect ==
  ASSUME NEW n, NEW f, NEW from, NEW to, NEW again,
         NEW r, r = Received(n, f, from, to, again)
  PROVE  /\ seen[n] \subseteq r.seen
         /\ \A q \in r.passed : q.frame = f /\ f.src # n
         /\ r.own # {} => f.src # n /\ Id(f) \notin seen[n] /\ Id(f) \in r.seen
         /\ \A q \in r.own :
              /\ q.frame.src = n /\ q.frame.seq = nwkSeq[n] /\ q.frame.kind # "data"
              /\ q.frame.dst = f.src
              /\ q.frame.kind = "ack" => f.dst = n /\ q.frame.about = f.seq
<1>1. CASE f.src = n
  <2>1. r = [route |-> route[n], seen |-> seen[n], own |-> {}, passed |-> {}]
    BY <1>1 DEF Received
  <2> QED BY <2>1
<1>2. CASE f.src # n /\ Id(f) \in seen[n]
  <2>1. r.seen = seen[n] /\ r.own = {} /\ r.passed = {}
    BY <1>2 DEF Received, Known
  <2> QED BY <2>1
<1>3. CASE f.src # n /\ Id(f) \notin seen[n]
  <2>1. r = New(n, f, from, to, again)
    BY <1>3 DEF Received
  <2>2. r.seen = seen[n] \cup {Id(f)}
    BY <2>1 DEF New
  <2>3. ASSUME NEW q \in r.passed PROVE q.frame = f
    <3>1. \E hop : q = Packet(f, hop)
      BY <2>1, <2>3 DEF New
    <3> QED BY <3>1 DEF Packet
  <2>4. ASSUME NEW q \in r.own
        PROVE  \E hop : \/ q = Packet(Command(n, f, "error", f.dst), hop)
                        \/ f.dst = n /\ q = Packet(Command(n, f, "ack", f.seq), hop)
    BY <2>1, <2>4 DEF New, Acknowledges
  <2>5. ASSUME NEW q \in r.own
        PROVE  /\ q.frame.src = n /\ q.frame.seq = nwkSeq[n] /\ q.frame.kind # "data"
               /\ q.frame.dst = f.src
               /\ q.frame.kind = "ack" => f.dst = n /\ q.frame.about = f.seq
    BY <2>4, <2>5 DEF Packet, Command
  <2> QED BY <1>3, <2>2, <2>3, <2>5
<1> QED BY <1>1, <1>2, <1>3

LEMMA TransmitSound ==
  ASSUME MInv, NEW n \in Node, NEW p \in out[n], NEW heard, NEW again, NEW ok,
         Transmit(n, p, heard, again, ok)
  PROVE  MInv'
<1> USE MeshConstantsOK
<1> DEFINE f == p.frame
           Got(m) == Received(m, f, n, IF p.to = ALL THEN ALL ELSE m, again)
           acked == Source \in heard /\ Confirms(f)
<1>1. /\ seen' = [m \in Node |-> IF m \in heard THEN Got(m).seen ELSE seen[m]]
      /\ nwkSeq' = [m \in Node |-> IF m \in heard /\ Got(m).own # {} THEN nwkSeq[m] + 1
                                   ELSE nwkSeq[m]]
      /\ out' = [m \in Node |->
           IF m = n THEN out[n] \ {p}
           ELSE IF m \in heard THEN out[m] \cup Got(m).own \cup Got(m).passed ELSE out[m]]
      /\ taken' = IF Sink \in heard /\ f.kind = "data" /\ Got(Sink).own # {} THEN taken + 1
                  ELSE taken
      /\ report' = IF acked THEN "acked"
                   ELSE IF n = Source /\ f.kind = "data" THEN IF ok THEN "sent" ELSE "failed"
                   ELSE report
  BY Zenon DEF Transmit
<1>2. ASSUME NEW m
      PROVE  /\ seen[m] \subseteq Got(m).seen
             /\ \A q \in Got(m).passed : q.frame = f /\ f.src # m
             /\ Got(m).own # {} => f.src # m /\ Id(f) \notin seen[m] /\ Id(f) \in Got(m).seen
             /\ \A q \in Got(m).own :
                  /\ q.frame.src = m /\ q.frame.seq = nwkSeq[m] /\ q.frame.kind # "data"
                  /\ q.frame.dst = f.src
                  /\ q.frame.kind = "ack" => f.dst = m /\ q.frame.about = f.seq
  <2>1. \E to : Got(m) = Received(m, f, n, to, again)
    OBVIOUS
  <2> HIDE DEF Got, f
  <2> QED BY <2>1, ReceivedEffect
<1> HIDE DEF Got
<1>3. f.kind = "data" => f = ReportFrame /\ Id(f) = <<Source, 0>>
  BY DEF MInv, DataSound, ReportFrame, Id
<1>4. acked => report = "sent" /\ f.kind = "ack" /\ taken = 1
  BY DEF Confirms, MInv, NumberSound, Awaited, IsAnswer
<1>5. n = Source /\ f.kind = "data" => report = "queued"
  BY DEF MInv, DataSound
<1> HIDE DEF f, acked
(* A packet that is there after the step was there, is passed on, or is    *)
(* the command of a node that heard the frame.                             *)
<1>6. ASSUME NEW m \in Node, NEW q \in out'[m]
      PROVE  \/ q \in out[m] /\ (m = n => q # p)
             \/ q.frame = f /\ f.src # m
             \/ m \in heard /\ q \in Got(m).own
  BY <1>1, <1>2, <1>6
<1>7. Shapes'
  <2>1. report' \in {"idle", "queued", "sent", "acked", "failed"}
    BY <1>1 DEF MInv, Shapes
  <2> QED BY <1>1, <2>1 DEF MInv, Shapes
<1>8. DataSound'
  <2>1. ASSUME NEW m \in Node, NEW q \in out'[m], q.frame.kind = "data"
        PROVE  q.frame = ReportFrame
    BY <1>2, <1>3, <1>6, <2>1 DEF MInv, DataSound
  <2>2. ASSUME NEW q \in out'[Source], q.frame.kind = "data"
        PROVE  q \in out[Source] /\ (n = Source => q # p)
    <3>1. ~ (q.frame = f /\ f.src # Source)
      BY <1>3, <2>2 DEF ReportFrame
    <3> QED BY <1>2, <1>6, <2>2, <3>1
  <2>3. ASSUME NEW q \in out'[Source], q.frame.kind = "data"
        PROVE  report' = "queued"
    <3>1. report = "queued"
      BY <2>2, <2>3 DEF MInv, DataSound
    <3>2. ~ (n = Source /\ f.kind = "data")
      BY <2>2, <2>3 DEF MInv, DataSound, f
    <3> QED BY <1>1, <1>4, <3>1, <3>2
  <2> QED BY <2>1, <2>2, <2>3 DEF MInv, DataSound
<1>9. TakenSound'
  <2>1. CASE Sink \in heard /\ f.kind = "data" /\ Got(Sink).own # {}
    <3>1. <<Source, 0>> \notin seen[Sink] /\ <<Source, 0>> \in seen'[Sink]
      BY <1>1, <1>2, <1>3, <2>1
    <3>2. taken = 0 /\ taken' = 1
      BY <1>1, <2>1, <3>1 DEF MInv, TakenSound
    <3> QED BY <3>1, <3>2 DEF TakenSound
  <2>2. CASE ~ (Sink \in heard /\ f.kind = "data" /\ Got(Sink).own # {})
    <3>1. taken' = taken /\ seen[Sink] \subseteq seen'[Sink]
      BY <1>1, <1>2, <2>2
    <3>2. report' = "acked" => report = "acked" \/ acked
      BY <1>1
    <3> QED BY <1>4, <3>1, <3>2 DEF MInv, TakenSound
  <2> QED BY <2>1, <2>2
<1>10. taken = 1 => taken' = 1
  BY <1>1, <1>9 DEF TakenSound
<1>11. NumberSound'
  <2> SUFFICES ASSUME Awaited'
               PROVE  /\ nwkSeq'[Source] > 0
                      /\ \A m \in Node : \A q \in out'[m] :
                           /\ q.frame.src = Source /\ q.frame.seq = 0 => q.frame.kind = "data"
                           /\ IsAnswer(q.frame) => taken' = 1
    BY DEF NumberSound, IsAnswer
  <2>1. Awaited
    BY <1>1, <1>5 DEF Awaited
  <2>2. nwkSeq[Source] \in Nat /\ nwkSeq[Source] > 0
    BY <2>1 DEF MInv, NumberSound, Shapes
  <2>3. nwkSeq'[Source] > 0
    BY <1>1, <2>2
  <2>4. f.src = Source /\ f.seq = 0 => f.kind = "data"
    BY <2>1 DEF MInv, NumberSound, f
  <2>5. IsAnswer(f) => taken = 1
    BY <2>1 DEF MInv, NumberSound, f
  <2>6. ASSUME NEW m \in Node, NEW q \in out'[m], q.frame.src = Source, q.frame.seq = 0
        PROVE  q.frame.kind = "data"
    BY <1>2, <1>6, <2>1, <2>2, <2>4, <2>6 DEF MInv, NumberSound
  <2>7. ASSUME NEW m \in Node, NEW q \in out'[m], IsAnswer(q.frame)
        PROVE  taken' = 1
    <3>1. CASE q \in out[m]
      BY <1>10, <2>1, <2>7, <3>1 DEF MInv, NumberSound
    <3>2. CASE q.frame = f
      BY <1>10, <2>5, <2>7, <3>2
    <3>3. CASE m \in heard /\ q \in Got(m).own
      <4>1. f.src = Source /\ f.seq = 0 /\ f.dst = m
        BY <1>2, <2>7, <3>3 DEF IsAnswer
      <4>2. f.kind = "data" /\ m = Sink
        BY <1>3, <2>4, <4>1 DEF ReportFrame
      <4>3. taken' = taken + 1
        BY <1>1, <3>3, <4>2
      <4> QED BY <1>9, <4>3 DEF MInv, TakenSound
    <3> QED BY <1>6, <3>1, <3>2, <3>3
  <2> QED BY <2>3, <2>6, <2>7
<1> QED BY <1>7, <1>8, <1>9, <1>11 DEF MInv

LEMMA StepSound == MInv /\ [Next]_vars => MInv'
<1> SUFFICES ASSUME MInv, [Next]_vars PROVE MInv'
  OBVIOUS
<1> USE MeshConstantsOK
<1>1. ASSUME NEW n \in Node, Send(n) PROVE MInv'
  <2>1. PICK p \in out[n] : Unicast(n, p) \/ Broadcast(n, p)
    BY <1>1 DEF Send
  <2>2. \E heard, again, ok : Transmit(n, p, heard, again, ok)
    BY <2>1, Zenon DEF Unicast, Broadcast
  <2> QED BY <2>2, TransmitSound
<1>2. ASSUME NEW n \in Node, Restart(n) PROVE MInv'
  <2>1. /\ n # Sink /\ taken' = taken
        /\ seen' = [seen EXCEPT ![n] = {}] /\ nwkSeq' = [nwkSeq EXCEPT ![n] = 0]
        /\ out' = [out EXCEPT ![n] = {}]
        /\ report' = IF n = Source /\ report # "idle" THEN "failed" ELSE report
    BY <1>2 DEF Restart
  <2>2. \A m \in Node : out'[m] \subseteq out[m] /\ (m = n => out'[m] = {})
    BY <2>1 DEF MInv, Shapes
  <2>3. Awaited' => Awaited /\ n # Source
    BY <2>1 DEF Awaited
  <2>4. Shapes'
    BY <2>1 DEF MInv, Shapes
  <2>5. DataSound'
    <3>1. ASSUME NEW q \in out'[Source] PROVE report' = report /\ q \in out[Source]
      BY <2>1, <2>2, <3>1
    <3> QED BY <2>2, <3>1 DEF MInv, DataSound
  <2>6. NumberSound'
    BY <2>1, <2>2, <2>3 DEF MInv, NumberSound, IsAnswer
  <2>7. TakenSound'
    BY <2>1 DEF MInv, TakenSound, Shapes
  <2> QED BY <2>4, <2>5, <2>6, <2>7 DEF MInv
<1>3. CASE Timeout
  <2>1. report = "sent" /\ report' = "failed" /\ UNCHANGED <<seen, nwkSeq, out, taken>>
    BY <1>3 DEF Timeout
  <2> QED BY <2>1 DEF MInv, Shapes, DataSound, NumberSound, TakenSound, Awaited
<1>4. CASE Report
  <2>1. /\ \A m \in Node : out[m] = {}
        /\ report' = "queued" /\ taken' = 0 /\ seen' = [m \in Node |-> {}]
        /\ nwkSeq' = [m \in Node |-> IF m = Source THEN 1 ELSE 0]
        /\ out' = [out EXCEPT ![Source] = {Packet(ReportFrame, route[Source][Sink].hop)}]
    BY <1>4 DEF Report, Quiet, ReportFrame
  <2>2. PICK hop : out'[Source] = {Packet(ReportFrame, hop)}
    BY <2>1 DEF MInv, Shapes
  <2>3. \A m \in Node : \A q \in out'[m] : q.frame = ReportFrame /\ q = Packet(ReportFrame, hop)
    BY <2>1, <2>2 DEF Packet, MInv, Shapes
  <2>4. Shapes'
    BY <2>1 DEF MInv, Shapes
  <2>5. DataSound'
    BY <2>1, <2>3 DEF DataSound
  <2>6. NumberSound'
    BY <2>1, <2>3 DEF NumberSound, IsAnswer, ReportFrame
  <2> QED BY <2>1, <2>4, <2>5, <2>6 DEF MInv, TakenSound
<1>5. CASE Change \/ UNCHANGED vars
  <2>1. UNCHANGED <<seen, nwkSeq, out, report, taken>>
    BY <1>5 DEF Change, vars, node
  <2> QED BY <2>1 DEF MInv, Shapes, DataSound, NumberSound, TakenSound, Awaited
<1> QED BY <1>1, <1>2, <1>3, <1>4, <1>5 DEF Next

LEMMA MeshSound == Spec => []MInv
BY StartsSound, StepSound, PTL DEF Spec

(* However often the air repeats, floods and forwards a report, and        *)
(* whatever nodes but the sink restart, the sink's application gets it at  *)
(* most once, and a report that counts as acknowledged has been there      *)
(* (DeliveredOnce).                                                        *)
THEOREM ReportsDeliveredOnce == Spec => []DeliveredOnce
<1>1. MInv => DeliveredOnce
  BY DEF MInv, TakenSound, DeliveredOnce
<1> QED BY <1>1, MeshSound, PTL
=============================================================================
