----------------------------- MODULE MCJoinChain -----------------------------
(* Small instances of JoinChain: the hub hears only the first node.        *)
EXTENDS JoinChain

CONSTANTS a, b, c, h, g

Line  == [n \in {a, b} |-> IF n = a THEN {h, b} ELSE {a}]
Line3 == [n \in {a, b, c} |-> IF n = a THEN {h, b} ELSE IF n = b THEN {a, c} ELSE {b}]
Two   == [n \in {a, b} |-> IF n = a THEN {h, b} ELSE {g, a}]
=============================================================================
