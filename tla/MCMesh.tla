------------------------------- MODULE MCMesh -------------------------------
(* Small instances of Mesh: a source, a sink and one or two nodes between  *)
(* them, with links of quality 1 (weak) and 2 (strong).                    *)
EXTENDS Mesh

CONSTANTS s, a, b, d

Air(strong, weak) ==
  [l \in Node \X Node |->
     IF {l[1], l[2]} \in strong THEN 2 ELSE IF {l[1], l[2]} \in weak THEN 1 ELSE 0]

Line     == Air({}, {{s, a}, {a, b}, {b, d}})
Diamond  == Air({}, {{s, a}, {s, b}, {a, d}, {b, d}})
Ladder   == Air({{s, a}, {b, d}}, {{a, b}, {s, b}})
Changing == {Line, Diamond, Ladder}

(* The middle link is the best one. *)
Humped   == {Air({{a, b}}, {{s, a}, {b, d}})}
=============================================================================
