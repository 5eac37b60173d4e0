-------------------------- MODULE MCRouteDiscovery --------------------------
(* Small instances of RouteDiscovery; links are as good one way as the     *)
(* other.                                                                  *)
EXTENDS RouteDiscovery

CONSTANTS s, a, b, d

Joins(l, x, y) == l \in {<<x, y>>, <<y, x>>}

(* A triangle from s, with the best way round it, and one link to d.       *)
Paw ==
  [l \in Nodes \X Nodes |->
     IF Joins(l, s, a) THEN 240
     ELSE IF Joins(l, a, b) \/ Joins(l, b, d) THEN 230
     ELSE IF Joins(l, s, b) THEN 120
     ELSE 0]

(* The direct link is worse than the way over b.                           *)
Triangle ==
  [l \in Nodes \X Nodes |->
     IF Joins(l, s, b) \/ Joins(l, b, d) THEN 230 ELSE IF Joins(l, s, d) THEN 120 ELSE 0]

(* b hears s directly and, a little worse, over a, but may learn that last *)
(* and first: d does not tell the two apart.                               *)
Flat ==
  [l \in Nodes \X Nodes |->
     IF Joins(l, s, a) THEN 100
     ELSE IF Joins(l, a, b) THEN 255
     ELSE IF Joins(l, s, b) THEN 103
     ELSE IF Joins(l, b, d) THEN 20
     ELSE 0]

OneWay == {<<s, d>>}
Crossing == {<<b, s>>, <<d, a>>}
Meeting == {<<s, d>>, <<b, d>>}
TwoWays == {<<s, d>>, <<s, b>>}

(* No route is taken away: RoutesLead is about such behaviours.            *)
KeptSpec ==
  Init /\ [][Next /\ \A n, x \in Nodes : ~ RouteFails(n, x)]_vars
=============================================================================
