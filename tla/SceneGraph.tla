----------------------------- MODULE SceneGraph -----------------------------
(***************************************************************************)
(* The part of SceneKit's node tree the app relies on, as operators on a   *)
(* value ch that maps every node to the sequence of its children.  SceneKit *)
(* itself is not in the repository: this is what Node.add, Scene.add and   *)
(* Scene.removeSceneContent expect of SCNNode.                             *)
(***************************************************************************)
EXTENDS Naturals, SequencesExt

\* s without n, which is in it at most once.
Without(s, n) ==
  IF n \in ToSet(s) THEN RemoveAt(s, CHOOSE i \in DOMAIN s : s[i] = n) ELSE s

\* removeFromParentNode: a node without a parent is left alone.
removeFromParentNode(ch, n) == [p \in DOMAIN ch |-> Without(ch[p], n)]

\* addChildNode: the node leaves its parent, if it has one, and becomes the
\* last child of p.
addChildNode(ch, p, n) ==
  LET detached == removeFromParentNode(ch, n)
  IN  [detached EXCEPT ![p] = Append(@, n)]

\* childNodes as a set.
ChildSet(ch, p) == ToSet(ch[p])

\* n lies below p in the tree: a path of at most as many edges as there are
\* nodes leads from p to n.
IsBelow(ch, p, n) ==
  LET Level[k \in 0..Cardinality(DOMAIN ch)] ==
        IF k = 0 THEN {p} ELSE UNION {ChildSet(ch, q) : q \in Level[k - 1]}
  IN  \E k \in 1..Cardinality(DOMAIN ch) : n \in Level[k]

\* A node may take a child that is neither itself nor above it.
MayAdopt(ch, p, n) == p # n /\ ~IsBelow(ch, n, p)
=============================================================================
