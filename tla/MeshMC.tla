------------------------------- MODULE MeshMC -------------------------------
(***************************************************************************)
(* Small networks for TLC: a triangle, where every flood comes back to its *)
(* sender over two paths, and a ring that one node feeds.                  *)
(***************************************************************************)
EXTENDS Mesh

CONSTANTS a, b, c, d   \* model values

TriangleNodes == {a, b, c}
Triangle == [n \in TriangleNodes |-> TriangleNodes \ {n}]
TrianglePaired == [n \in TriangleNodes |-> IF n = a THEN {c} ELSE {}]

\* a feeds a ring that passes frames one way, b to c to d and back to b: a flood of two
\* hops from a must not reach d, and one that never ended would go round.
RingNodes == {a, b, c, d}
Ring ==
  [n \in RingNodes |->
    CASE n = a -> {b} [] n = b -> {c} [] n = c -> {d} [] n = d -> {b}]
RingPaired == [n \in RingNodes |-> IF n \in {a, d} THEN {c} ELSE {}]
=============================================================================
