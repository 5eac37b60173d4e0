--------------------------- MODULE RouteDiscovery ---------------------------
(***************************************************************************)
(* Route discovery (nwkRouteDiscovery.c) between several nodes: a request  *)
(* is flooded, each node keeping the sender through which it came with the *)
(* best quality, and the destination's reply goes back over those senders, *)
(* leaving routes both ways.  A frame waits in the pool meanwhile, until   *)
(* the timer ends the discovery.                                           *)
(*                                                                         *)
(* The times left of the entries are abstracted to their being live or     *)
(* not; multicast is left out; the route table is a map (RouteMap).        *)
(***************************************************************************)
EXTENDS Naturals, FiniteSets, FiniteSetsExt

CONSTANTS
  Nodes,
  Lqi,         \* the quality of the link from a node to another; none is 0
  NonRouting,  \* the nodes with NWK_ROUTE_NON_ROUTING in their address
  Wanted,      \* the <<source, destination>> pairs of the frames
  TableSize,   \* NWK_ROUTE_DISCOVERY_TABLE_SIZE
  MaxFaults,   \* frames lost, requests the pool has no room for, routes that fail
  NONE

Best == 255    \* NWK_ROUTE_DISCOVERY_BEST_LINK_QUALITY
NoLink == 0

Slots == 1 .. TableSize
Entry == [live : BOOLEAN, src : Nodes \cup {NONE}, dst : Nodes \cup {NONE},
          sender : Nodes \cup {NONE}, fwd : 0 .. Best, rev : 0 .. Best]
Command == [id : {"request", "reply"}, from : Nodes, to : Nodes,
            src : Nodes, dst : Nodes, lq : 0 .. Best]

ASSUME DiscoveryConstantsOK ==
  /\ Lqi \in [Nodes \X Nodes -> 0 .. Best] /\ NonRouting \subseteq Nodes
  /\ Wanted \subseteq Nodes \X Nodes /\ \A p \in Wanted : p[1] # p[2]
  /\ TableSize \in Nat \ {0} /\ MaxFaults \in Nat
  /\ IsFiniteSet(Nodes) /\ NONE \notin Nodes

VARIABLES
  table,    \* nwkRouteDiscoveryTable
  timer,    \* nwkRouteDiscoveryTimer is in the timer list
  sweep,    \* how many slots its handler has been through
  route,    \* next hops
  waiting,  \* the destinations for which frames are in NWK_RD_STATE_WAIT_FOR_ROUTE
  air,      \* the commands under way
  clean,    \* history: the discovery that began alone, while nothing came between
  faults

vars == <<table, timer, sweep, route, waiting, air, clean, faults>>

(* nwkRouteDiscoveryInit; the rest of an entry is zero, nobody's address.  *)
NoEntry == [live |-> FALSE, src |-> NONE, dst |-> NONE, sender |-> NONE,
            fwd |-> NoLink, rev |-> NoLink]
Init ==
  /\ table = [n \in Nodes |-> [i \in Slots |-> NoEntry]]
  /\ timer = [n \in Nodes |-> FALSE] /\ sweep = [n \in Nodes |-> 0]
  /\ route = [n \in Nodes |-> [d \in Nodes |-> NONE]]
  /\ waiting = [n \in Nodes |-> {}]
  /\ air = {} /\ clean = {} /\ faults = 0

Fault == faults < MaxFaults /\ faults' = faults + 1

Is(e, s, d) == e.live /\ e.src = s /\ e.dst = d
HasEntry(n, s, d) == \E i \in Slots : Is(table[n][i], s, d)
(* nwkRouteDiscoveryFindEntry and the slot nwkRouteDiscoveryNewEntry takes *)
Finds(n, i, s, d) == Is(table[n][i], s, d) /\ \A j \in 1 .. i - 1 : ~ Is(table[n][j], s, d)
Takes(n, i) == ~ table[n][i].live /\ \A j \in 1 .. i - 1 : table[n][j].live

New(s, d, sender, fwd, rev) ==
  [live |-> TRUE, src |-> s, dst |-> d, sender |-> sender, fwd |-> fwd, rev |-> rev]

UpdateLq(a, b) == (a * b) \div 256

(* nwkRouteDiscoverySendRequest, heard by the neighbours, and              *)
(* nwkRouteDiscoverySendReply.                                             *)
Neighbours(n) == {m \in Nodes : Lqi[<<n, m>>] > 0}
Requests(n, s, d, lq) ==
  {[id |-> "request", from |-> n, to |-> m, src |-> s, dst |-> d, lq |-> lq] :
     m \in Neighbours(n)}
Reply(n, m, s, d, lq) ==
  {[id |-> "reply", from |-> n, to |-> m, src |-> s, dst |-> d, lq |-> lq]}

-----------------------------------------------------------------------------
(* nwkRouteDiscoveryRequest, from nwkRoutePrepareTx for a frame that has   *)
(* no route; tab and wait are the node's table and the destinations of its *)
(* other waiting frames.                                                   *)
Alone == \A m \in Nodes, i \in Slots : ~ table[m][i].live

Request(n, d, tab, wait) ==
  \/ /\ \E i \in Slots : Is(tab[i], n, d)
     /\ table' = [table EXCEPT ![n] = tab]
     /\ waiting' = [waiting EXCEPT ![n] = wait \cup {d}]
     /\ UNCHANGED <<air, clean, faults>>
  \/ /\ ~ \E i \in Slots : Is(tab[i], n, d)
     /\ \E i \in Slots :
          /\ ~ tab[i].live /\ \A j \in 1 .. i - 1 : tab[j].live
          /\ table' = [table EXCEPT ![n] = [tab EXCEPT ![i] = New(n, d, NONE, NoLink, NoLink)]]
     /\ \/ /\ air' = air \cup Requests(n, n, d, Best)
           /\ waiting' = [waiting EXCEPT ![n] = wait \cup {d}]
           /\ clean' = IF Alone THEN {<<n, d>>} ELSE {}
           /\ UNCHANGED faults
        \/ /\ Fault                                  \* nwkFrameAlloc fails
           /\ waiting' = [waiting EXCEPT ![n] = wait]
           /\ clean' = {} /\ UNCHANGED air
  \/ /\ \A i \in Slots : tab[i].live /\ ~ Is(tab[i], n, d)
     /\ table' = [table EXCEPT ![n] = tab]
     /\ waiting' = [waiting EXCEPT ![n] = wait]
     /\ UNCHANGED <<air, clean, faults>>

(* Whether nwkRouteDiscoveryNewEntry was called, which starts the timer.   *)
Started(n) == \E i \in Slots : table'[n][i].live /\ ~ table[n][i].live

Send(n, d) ==
  /\ <<n, d>> \in Wanted /\ sweep[n] = 0
  /\ route[n][d] = NONE /\ d \notin waiting[n]
  /\ Request(n, d, table[n], waiting[n])
  /\ timer' = [timer EXCEPT ![n] = @ \/ Started(n)]
  /\ UNCHANGED <<sweep, route>>

-----------------------------------------------------------------------------
(* nwkRouteDiscoveryRequestReceived.                                       *)
FirstOnly(e, lq) == FALSE                                         \* faulty variant
Improves(e, lq) == lq > e.fwd

(* The slot the request goes to: its entry, if that is improved, or a new  *)
(* one.                                                                    *)
Slot(n, i, c, lq) ==
  \/ Finds(n, i, c.src, c.dst) /\ Improves(table[n][i], lq)
  \/ ~ HasEntry(n, c.src, c.dst) /\ Takes(n, i)

Concerns(n, c) == c.src # n /\ (c.dst = n \/ n \notin NonRouting)

RequestReceived(n, c) ==
  LET lq == UpdateLq(c.lq, Lqi[<<c.from, n>>]) IN
  /\ c.id = "request"
  /\ \/ /\ Concerns(n, c)
        /\ \E i \in Slots :
             /\ Slot(n, i, c, lq)
             /\ table' = [table EXCEPT ![n][i] =
                  New(c.src, c.dst, c.from, lq,
                      IF HasEntry(n, c.src, c.dst) THEN @.rev ELSE NoLink)]
        /\ IF c.dst = n
           THEN /\ route' = [route EXCEPT ![n][c.src] = c.from]
                /\ air' = (air \ {c}) \cup Reply(n, c.from, c.src, c.dst, lq)
           ELSE /\ route' = route
                /\ air' = (air \ {c}) \cup Requests(n, c.src, c.dst, lq)
     \/ /\ Concerns(n, c) => \A i \in Slots : ~ Slot(n, i, c, lq)
        /\ air' = air \ {c} /\ UNCHANGED <<table, route>>
  /\ timer' = [timer EXCEPT ![n] = @ \/ Started(n)]

(* nwkRouteDiscoveryReplyReceived.                                         *)
Accepts(e, lq) == lq > e.rev
Answered(e, lq) == [e EXCEPT !.rev = lq]

(* The routes a node keeps that passes a reply on.                         *)
RelayedAcross(r, c, sender) ==                                     \* faulty variant
  [r EXCEPT ![c.dst] = sender, ![c.src] = c.from]
Relayed(r, c, sender) == [r EXCEPT ![c.dst] = c.from, ![c.src] = sender]

ReplyReceived(n, c) ==
  /\ c.id = "reply"
  /\ \/ \E i \in Slots :
          /\ Finds(n, i, c.src, c.dst) /\ Accepts(table[n][i], c.lq)
          /\ table' = [table EXCEPT ![n][i] = Answered(@, c.lq)]
          /\ IF c.src = n
             THEN /\ route' = [route EXCEPT ![n][c.dst] = c.from]
                  /\ air' = air \ {c}
             ELSE /\ route' = [route EXCEPT ![n] = Relayed(@, c, table[n][i].sender)]
                  /\ air' = (air \ {c}) \cup Reply(n, table[n][i].sender, c.src, c.dst, c.lq)
     \/ /\ ~ \E i \in Slots : Finds(n, i, c.src, c.dst) /\ Accepts(table[n][i], c.lq)
        /\ air' = air \ {c} /\ UNCHANGED <<table, route>>
  /\ UNCHANGED timer

Receive(c) ==
  /\ c \in air /\ sweep[c.to] = 0
  /\ RequestReceived(c.to, c) \/ ReplyReceived(c.to, c)
  /\ UNCHANGED <<sweep, waiting, clean, faults>>

(* A command is lost, or the pool of its sender had no room for it.        *)
Lose(c) ==
  /\ c \in air /\ air' = air \ {c} /\ Fault
  /\ clean' = clean \ {<<c.src, c.dst>>}
  /\ UNCHANGED <<table, timer, sweep, route, waiting>>

(* nwkRouteFrameSent and the route errors of others take a route away, at  *)
(* any node.                                                               *)
RouteFails(n, d) ==
  /\ route[n][d] # NONE /\ Fault
  /\ route' = [route EXCEPT ![n][d] = NONE]
  /\ clean' = {}
  /\ UNCHANGED <<table, timer, sweep, waiting, air>>

-----------------------------------------------------------------------------
(* nwkRouteDiscoveryTimerHandler, one slot after the other; the timer is   *)
(* out of the list when it begins.                                         *)
Visits(n) == sweep[n] # 0 \/ timer[n]
At(n) == sweep[n] + 1
Running(n) == sweep[n] # 0 /\ timer[n]
NextSlot(n) == sweep' = [sweep EXCEPT ![n] = (@ + 1) % TableSize]

StaysOnce(n) ==                                                    \* faulty variant
  /\ Visits(n) /\ table[n][At(n)].live
  /\ NextSlot(n) /\ timer' = [timer EXCEPT ![n] = Running(n)]
  /\ UNCHANGED <<table, route, waiting, air, clean, faults>>
Stays(n) ==
  /\ Visits(n) /\ table[n][At(n)].live
  /\ NextSlot(n) /\ timer' = [timer EXCEPT ![n] = TRUE]
  /\ UNCHANGED <<table, route, waiting, air, clean, faults>>

(* A second is long enough for a request and its replies to have died down *)
Settled(s, d) == \A c \in air : c.src # s \/ c.dst # d

Expired(e) == [e EXCEPT !.live = FALSE]

(* nwkRouteDiscoveryDone, for an entry of the node's own.                  *)
Done(n, e, tab) ==
  \/ /\ e.src # n \/ e.dst \notin waiting[n]
     /\ table' = [table EXCEPT ![n] = tab]
     /\ UNCHANGED <<waiting, air, clean, faults>>
  \/ /\ e.src = n /\ e.dst \in waiting[n]
     /\ e.rev = NoLink \/ route[n][e.dst] # NONE       \* confirmed, or sent
     /\ waiting' = [waiting EXCEPT ![n] = @ \ {e.dst}]
     /\ table' = [table EXCEPT ![n] = tab]
     /\ UNCHANGED <<air, clean, faults>>
  \/ /\ e.src = n /\ e.dst \in waiting[n]
     /\ e.rev # NoLink /\ route[n][e.dst] = NONE       \* nwkTxFrame asks again
     /\ Request(n, e.dst, tab, waiting[n] \ {e.dst})

Expires(n) ==
  /\ Visits(n)
  /\ LET e == table[n][At(n)] IN
       /\ e.live => Settled(e.src, e.dst)
       /\ Done(n, e, [table[n] EXCEPT ![At(n)] = Expired(@)])
  /\ NextSlot(n)
  /\ timer' = [timer EXCEPT ![n] = Running(n) \/ \E i \in Slots :
                 table'[n][i].live /\ (i = At(n) \/ ~ table[n][i].live)]
  /\ route' = route

Next ==
  \/ \E p \in Wanted : Send(p[1], p[2])
  \/ \E c \in air : Receive(c) \/ Lose(c)
  \/ \E n \in Nodes : Stays(n) \/ Expires(n)
  \/ \E n, d \in Nodes : RouteFails(n, d)

Spec == Init /\ [][Next]_vars

(* Nodes handle what they receive, the tick keeps coming, and the times    *)
(* left run out.                                                           *)
FairSpec ==
  /\ Spec
  /\ \A p \in Wanted : SF_vars(\E c \in air : <<c.src, c.dst>> = p /\ Receive(c))
  /\ \A n \in Nodes :
       /\ WF_vars(Stays(n) \/ Expires(n))
       /\ \A i \in Slots : SF_vars(At(n) = i /\ Expires(n))

-----------------------------------------------------------------------------
TypeOK ==
  /\ table \in [Nodes -> [Slots -> Entry]]
  /\ timer \in [Nodes -> BOOLEAN] /\ sweep \in [Nodes -> 0 .. TableSize - 1]
  /\ route \in [Nodes -> [Nodes -> Nodes \cup {NONE}]]
  /\ waiting \in [Nodes -> SUBSET Nodes]
  /\ air \subseteq Command /\ clean \subseteq Wanted /\ faults \in 0 .. MaxFaults

(* Followed hop by hop from a node, the routes to a destination end: at    *)
(* it, or where there is none; never in a circle, although each node       *)
(* replaces its sender and its next hop on its own.  Only one node seeks   *)
(* the destination, in one discovery after the other, and it seeks none    *)
(* itself: replies of two discoveries that overlap, or a request that      *)
(* leaves routes back, would write the same next hops.                     *)
Hop(n, d) == IF n = d \/ route[n][d] = NONE THEN n ELSE route[n][d]
Walk(n, d, k) ==
  LET at[j \in 0 .. k] == IF j = 0 THEN n ELSE Hop(at[j - 1], d) IN at[k]
Ends(d) ==
  \A n \in Nodes :
    LET last == Walk(n, d, Cardinality(Nodes)) IN Hop(last, d) = last
SoughtAlone(p) == \A q \in Wanted \ {p} : p[2] \notin {q[1], q[2]}
RoutesEnd == \A p \in Wanted : SoughtAlone(p) => Ends(p[2])

(* As long as no route is taken away, they end at the destination: no node *)
(* learns a route to one that has none, whatever commands are lost.        *)
Leads(d) ==
  \A n \in Nodes : route[n][d] # NONE => Walk(n, d, Cardinality(Nodes)) = d
RoutesLead == \A p \in Wanted : SoughtAlone(p) => Leads(p[2])

(* The same for every destination, once no discovery is under way.  Not    *)
(* so: two nodes that seek it at the same time can be left with routes     *)
(* through one another.                                                    *)
RoutesEndForAll == Alone /\ air = {} => \A p \in Wanted : Ends(p[2])

(* The same for the routes that a reply leaves back to the source.  Not so *)
(* either: a node routes to the sender it had when the reply came, and a   *)
(* better request may since have turned the senders round.                 *)
RoutesBackEnd == Alone /\ air = {} => \A p \in Wanted : Ends(p[1])

(* With nothing lost and no other discovery at the same time, the route    *)
(* that a discovery leaves at its source is one of the best quality there  *)
(* is, the product of the links' as the nodes round it.  That depends on   *)
(* the links: where two qualities are rounded to the same, a reply may be  *)
(* sent back to a node it has come from, and is dropped there.             *)
BestWithin(s) ==
  LET q[k \in 0 .. Cardinality(Nodes)] ==
        IF k = 0 THEN [n \in Nodes |-> IF n = s THEN Best ELSE 0]
        ELSE [n \in Nodes |->
                Max({q[k - 1][n]} \cup {UpdateLq(q[k - 1][m], Lqi[<<m, n>>]) :
                                          m \in {x \in Nodes : x = s \/ x \notin NonRouting}})]
  IN  q[Cardinality(Nodes)]
QualityAlong(s, d) ==
  LET q[k \in 0 .. Cardinality(Nodes)] ==
        IF k = 0 THEN Best
        ELSE LET m == Walk(s, d, k - 1) IN
             IF m = d THEN q[k - 1] ELSE UpdateLq(q[k - 1], Lqi[<<m, Hop(m, d)>>])
  IN  q[Cardinality(Nodes)]
FindsBest ==
  \A p \in clean :
    Settled(p[1], p[2]) /\ HasEntry(p[1], p[1], p[2]) /\ BestWithin(p[1])[p[2]] > 0
      => /\ Walk(p[1], p[2], Cardinality(Nodes)) = p[2]
         /\ QualityAlong(p[1], p[2]) = BestWithin(p[1])[p[2]]

(* A frame that waits for a route is sent or confirmed in the end.         *)
FramesLeave == \A p \in Wanted : p[2] \in waiting[p[1]] ~> p[2] \notin waiting[p[1]]

(* A frame is given up only when the discovery it waits for is over.  Not  *)
(* so: an expired entry for the same destination in another slot is taken  *)
(* for one that has just expired, at every tick.                           *)
GivenUpLast ==
  [][\A p \in Wanted :
       p[2] \in waiting[p[1]] /\ p[2] \notin waiting'[p[1]] /\ route[p[1]][p[2]] = NONE
         => \A i \in Slots : ~ Is(table'[p[1]][i], p[1], p[2])]_vars
=============================================================================
