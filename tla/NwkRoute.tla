------------------------------ MODULE NwkRoute ------------------------------
(***************************************************************************)
(* The route table of a Lightweight Mesh node (nwkRoute.c) as this build   *)
(* has it: no route discovery, no multicast, so that routes are learned    *)
(* from the frames that arrive and every entry is unicast.  The table is   *)
(* searched and changed by the receive and transmit handlers, one call at  *)
(* a time.                                                                 *)
(***************************************************************************)
EXTENDS Naturals, FiniteSets

CONSTANTS
  Size,         \* NWK_ROUTE_TABLE_SIZE
  Node,         \* the addresses of the other nodes
  NonRouting,   \* those of them that do not route (NWK_ROUTE_NON_ROUTING)
  UNKNOWN,      \* NWK_ROUTE_UNKNOWN, which is the broadcast address as well
  DefaultScore, \* NWK_ROUTE_DEFAULT_SCORE
  DefaultRank,  \* NWK_ROUTE_DEFAULT_RANK
  MaxRank,      \* NWK_ROUTE_MAX_RANK
  MaxLqi        \* the link qualities told apart are 0 .. MaxLqi

ASSUME RouteConstantsOK ==
  /\ Size \in Nat \ {0} /\ NonRouting \subseteq Node /\ UNKNOWN \notin Node
  /\ DefaultScore \in Nat \ {0} /\ MaxLqi \in Nat
  /\ DefaultRank \in Nat /\ MaxRank \in Nat
  /\ 2 <= DefaultRank /\ DefaultRank < MaxRank /\ 4 <= MaxRank

Index == 0 .. Size - 1
Entry == [dst : Node \cup {UNKNOWN}, hop : Node, score : Nat, rank : Nat, lqi : 0 .. MaxLqi]

VARIABLES
  table,  \* nwkRouteTable
  lost    \* history: failures in a row of each entry since it last worked

vars == <<table, lost>>

Init ==
  /\ \E n \in Node :
       table = [i \in Index |-> [dst |-> UNKNOWN, hop |-> n, score |-> 0, rank |-> 0, lqi |-> 0]]
  /\ lost = [i \in Index |-> 0]

(* NWK_RouteFindEntry: the first entry for d.  No node has the broadcast   *)
(* address, which is also that of a free entry.                            *)
Finds(i, d) == table[i].dst = d /\ \A j \in 0 .. i - 1 : table[j].dst # d
KnownButLast(d) == \E i \in 0 .. Size - 2 : table[i].dst = d        \* faulty variant
Known(d) == \E i \in Index : table[i].dst = d

(* NWK_RouteNewEntry: the first entry of rank zero, or the first of the    *)
(* lowest rank.  Nothing in this firmware marks an entry fixed.            *)
TakesAny(i) == table[i].rank = 0 \/ \A j \in Index : table[j].rank # 0  \* faulty variant
Takes(i) ==
  IF \E j \in Index : table[j].rank = 0
  THEN table[i].rank = 0 /\ \A j \in 0 .. i - 1 : table[j].rank # 0
  ELSE /\ \A j \in Index : table[i].rank <= table[j].rank
       /\ \A j \in 0 .. i - 1 : table[i].rank < table[j].rank

(* NWK_RouteFreeEntry *)
Freed(e) == [e EXCEPT !.dst = UNKNOWN, !.rank = 0]

(***************************************************************************)
(* nwkRouteFrameReceived: a frame of the node's own PAN from node src,     *)
(* heard from node mac; `sought' tells that it was sent to anyone in       *)
(* search of this node.                                                    *)
(***************************************************************************)
Ignored(src, mac) == mac \in NonRouting /\ mac # src

Better(e, mac, lqi, sought) == (e.hop # mac /\ lqi > e.lqi) \/ sought

FrameReceived(src, mac, lqi, sought) ==
  /\ ~ Ignored(src, mac)
  /\ \/ \E i \in Index :
          /\ Finds(i, src)
          /\ table' = [table EXCEPT ![i] =
               IF Better(@, mac, lqi, sought)
               THEN [@ EXCEPT !.hop = mac, !.score = DefaultScore, !.lqi = lqi]
               ELSE [@ EXCEPT !.lqi = lqi]]
          /\ lost' = [lost EXCEPT ![i] = IF Better(table[i], mac, lqi, sought) THEN 0 ELSE @]
     \/ /\ ~ Known(src)
        /\ \E i \in Index :
             /\ Takes(i)
             /\ table' = [table EXCEPT ![i] =
                  [dst |-> src, hop |-> mac, score |-> DefaultScore,
                   rank |-> DefaultRank, lqi |-> lqi]]
             /\ lost' = [lost EXCEPT ![i] = 0]

(***************************************************************************)
(* nwkRouteFrameSent: a unicast frame to dst has been sent, or not.        *)
(***************************************************************************)
(* nwkRouteNormalizeRanks, over the whole table.                           *)
Halved(rank) == rank \div 2                                        \* faulty variant
Normalized(rank) == rank \div 2 + 1

Sent(dst) ==
  \E i \in Index :
    /\ Finds(i, dst)
    /\ LET worked == [table EXCEPT ![i].score = DefaultScore, ![i].rank = @ + 1] IN
         table' = IF worked[i].rank = MaxRank
                  THEN [j \in Index |-> [worked[j] EXCEPT !.rank = Normalized(@)]]
                  ELSE worked
    /\ lost' = [lost EXCEPT ![i] = 0]

Weakened(e) ==
  IF e.score = 1 THEN [Freed(e) EXCEPT !.score = 0] ELSE [e EXCEPT !.score = @ - 1]

FailedLate(dst) ==                                                 \* faulty variant
  \E i \in Index :
    /\ Finds(i, dst)
    /\ table' = [table EXCEPT ![i] =
         IF @.score = 0 THEN Freed(@) ELSE [@ EXCEPT !.score = @ - 1]]
    /\ lost' = [lost EXCEPT ![i] = IF table[i].score = 0 THEN 0 ELSE @ + 1]
FailedForEver(dst) ==                                              \* faulty variant
  \E i \in Index :
    /\ Finds(i, dst)
    /\ table' = [table EXCEPT ![i].score = @ - 1]
    /\ lost' = [lost EXCEPT ![i] = @ + 1]
Failed(dst) ==
  \E i \in Index :
    /\ Finds(i, dst)
    /\ table' = [table EXCEPT ![i] = Weakened(@)]
    /\ lost' = [lost EXCEPT ![i] = IF table[i].score = 1 THEN 0 ELSE @ + 1]

(* nwkRouteRemove, for a route error or a duplicate that was routed here.  *)
Remove(dst) ==
  \E i \in Index :
    /\ Finds(i, dst)
    /\ table' = [table EXCEPT ![i] = Freed(@)]
    /\ lost' = [lost EXCEPT ![i] = 0]

Next ==
  \/ \E src, mac \in Node, lqi \in 0 .. MaxLqi, sought \in BOOLEAN :
       FrameReceived(src, mac, lqi, sought)
  \/ \E dst \in Node : Sent(dst) \/ Failed(dst) \/ Remove(dst)

Spec == Init /\ [][Next]_vars

-----------------------------------------------------------------------------
Live == {i \in Index : table[i].dst # UNKNOWN}

TypeOK == table \in [Index -> Entry] /\ lost \in [Index -> Nat]

(* No destination has two routes: the search would see the first and leave *)
(* the other stale for ever.                                               *)
OneRoute == \A i, j \in Live : table[i].dst = table[j].dst => i = j

(* Ranks order the entries for replacement: one in use always has more     *)
(* than a free one, whatever number of times the ranks have been halved,   *)
(* so that a route in use is never given up while an entry is free; and    *)
(* the rank, a uint8_t, never wraps.                                       *)
RanksOrdered ==
  /\ \A i \in Live : table[i].rank \in 2 .. MaxRank - 1
  /\ \A i \in Index \ Live : table[i].rank <= 1

(* A next hop that fails is tried at most DefaultScore times in a row      *)
(* before its route is given up, and the score of a route in use is what   *)
(* its failures leave; it never passes zero (it has four bits).            *)
FailuresCounted ==
  \A i \in Live : table[i].score + lost[i] = DefaultScore /\ table[i].score > 0

(* The table is a route map: what a search finds is a function of the      *)
(* destination, and no step changes more than one route of it.             *)
Routes == [d \in {table[i].dst : i \in Live} |->
             LET i == CHOOSE j \in Live : Finds(j, d) IN table[i].hop]
Map == INSTANCE RouteMap WITH Addr <- Node, routes <- Routes
ImplementsMap == Map!Spec
=============================================================================
