----------------------------- MODULE MCCollider -----------------------------
(* Instances of Collider for TLC. *)
EXTENDS Collider

\* Nodes that no property tells apart may be exchanged.
NodeSymmetry == Permutations(Nodes)

\* runColliderDetector: a pass over a growing scene makes exactly the calls due.
PassIsExact == TypeOK /\ GrowingPassIsExact
=============================================================================
