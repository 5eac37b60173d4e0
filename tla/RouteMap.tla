------------------------------ MODULE RouteMap ------------------------------
(***************************************************************************)
(* What a route table promises to the rest of the network layer: a map     *)
(* from destinations to next hops, of bounded size, that changes by one    *)
(* route at a time and gives up a route it knows for a new one only when   *)
(* it is full.                                                             *)
(***************************************************************************)
EXTENDS Naturals, FiniteSets

CONSTANTS
  Addr,   \* the addresses of nodes
  Size    \* the number of routes the map can hold

VARIABLE routes  \* the routes known: the next hop of each known destination

Without(f, d) == [x \in DOMAIN f \ {d} |-> f[x]]
With(f, d, h) == [x \in DOMAIN f \cup {d} |-> IF x = d THEN h ELSE f[x]]

Init == routes = [x \in {} |-> x]

Change(d, h) == d \in DOMAIN routes /\ routes' = With(routes, d, h)

Add(d, h) ==
  /\ d \notin DOMAIN routes /\ Cardinality(DOMAIN routes) < Size
  /\ routes' = With(routes, d, h)

Replace(d, h) ==
  /\ d \notin DOMAIN routes /\ Cardinality(DOMAIN routes) = Size
  /\ \E old \in DOMAIN routes : routes' = With(Without(routes, old), d, h)

Forget(d) == d \in DOMAIN routes /\ routes' = Without(routes, d)

Next ==
  \E d \in Addr :
    \/ Forget(d)
    \/ \E h \in Addr : Change(d, h) \/ Add(d, h) \/ Replace(d, h)

Spec == Init /\ [][Next]_routes
=============================================================================
