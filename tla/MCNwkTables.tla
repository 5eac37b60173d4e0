----------------------------- MODULE MCNwkTables -----------------------------
(* The two tables that nwkRxTaskHandler keeps of other nodes: the routes,  *)
(* with fewer entries than nodes and ranks that reach their maximum after  *)
(* two frames; or the duplicate filter, with more sources than entries and *)
(* a sequence number that wraps after a few frames.  They share nothing,   *)
(* so that one of them is at work in a behaviour.                          *)
EXTENDS NwkRoute, NwkDuplicate, TLC

VARIABLE kept

MCInit ==
  /\ Init /\ FilterInit /\ kept \in {"routes", "filter"}
  /\ kept = "filter" => \A i \in Index : table[i].hop = CHOOSE n \in Node : TRUE

MCNext ==
  \/ kept = "routes" /\ Next /\ UNCHANGED <<kept, filter>>
  \/ kept = "filter" /\ FilterNext /\ UNCHANGED <<kept, vars>>

MCSpec == MCInit /\ [][MCNext]_<<kept, vars, filter>>

SourceSymmetry == Permutations(Sources)
=============================================================================
