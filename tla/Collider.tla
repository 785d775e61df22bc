------------------------------ MODULE Collider ------------------------------
(***************************************************************************)
(* Collision detection (Scene.runColliderDetector, Node.emitCollision).    *)
(* For every camera frame the main thread submits one pass to the serial   *)
(* collisionQueue.  A pass walks all pairs of children of sceneContent and *)
(* calls the left node's JavaScript detector when the two are close.       *)
(*                                                                         *)
(* The pass holds no lock and asks for the list of children again at every *)
(* index, while the JavaScript threads add, re-parent and move nodes and   *)
(* the main thread empties the scene.  A detector runs in the middle of    *)
(* the pass and may do to the scene whatever a script may do, so its       *)
(* effects are the same actions.                                           *)
(*                                                                         *)
(* A position stands for a place further than collisionThreshold from the  *)
(* other positions: two nodes are close when their positions are equal.    *)
(***************************************************************************)
EXTENDS SceneGraph

CONSTANTS
  Nodes,       \* the nodes scripts create
  Content,     \* sceneContent
  Positions,   \* places further apart than collisionThreshold
  Start,       \* where a new node is
  None,        \* no node, no position
  MaxFrames,   \* bound: passes waiting on collisionQueue
  MaxChanges   \* bound: scene changes while one pass runs

ASSUME ColliderAssumption ==
  /\ IsFiniteSet(Nodes)
  /\ Content \notin Nodes
  /\ Start \in Positions
  /\ None \notin Nodes \cup Positions
  /\ MaxFrames \in Nat
  /\ MaxChanges \in Nat

VARIABLES
  children,    \* children[p]: child nodes of p, in order
  position,    \* position[n]: simdPosition
  detectors,   \* nodes with a collisionDetectionCallback
  removing,    \* nodes removeSceneContent has still to remove, main thread
  frames,      \* passes waiting on collisionQueue
  pc,          \* where the running pass is
  nA, nB,      \* its loop variables
  rows, cols,  \* the upper ends of its loops, each read once
  lhs, rhs,    \* the pair it looks at
  lhsAt,       \* the position it has read of lhs
  changes,     \* scene changes since the pass began
  reordered,   \* history: since then a child has left sceneContent or changed its index
  moved,       \* history: since then a node has moved or got a detector
  calls        \* history: detector calls of the pass, while neither happened

sceneVars == <<children, position, detectors>>
passVars  == <<pc, nA, nB, rows, cols, lhs, rhs, lhsAt>>
history   == <<changes, reordered, moved, calls>>
vars      == <<children, position, detectors, removing, frames, pc, nA, nB,
               rows, cols, lhs, rhs, lhsAt, changes, reordered, moved, calls>>

Labels == {"idle", "row", "pair", "rhs", "measure", "compare", "detector",
           "end", "trapped"}

Init ==
  /\ children = [p \in Nodes \cup {Content} |-> << >>]
  /\ position = [n \in Nodes |-> Start]
  /\ detectors = {}
  /\ removing = << >>
  /\ frames = 0
  /\ pc = "idle"
  /\ nA = 0 /\ nB = 0 /\ rows = 0 /\ cols = 0
  /\ lhs = None /\ rhs = None /\ lhsAt = None
  /\ changes = 0
  /\ reordered = FALSE
  /\ moved = FALSE
  /\ calls = << >>

\* An index out of range stops the whole app.
Alive == pc # "trapped"

\* A step that changes the list of children: new ones at its end are harmless.
ChangeChildren(ch) ==
  /\ Alive
  /\ pc # "idle" => changes < MaxChanges
  /\ children' = ch
  /\ changes' = IF pc = "idle" THEN 0 ELSE changes + 1
  /\ reordered' = (pc # "idle"
                   /\ (reordered \/ ~IsPrefix(children[Content], ch[Content])))
  /\ calls' = IF reordered' THEN << >> ELSE calls
  /\ UNCHANGED <<position, detectors, frames, passVars, moved>>

\* A step that changes what a collision is.
ChangeCollisions ==
  /\ Alive
  /\ pc # "idle" => changes < MaxChanges
  /\ changes' = IF pc = "idle" THEN 0 ELSE changes + 1
  /\ moved' = (pc # "idle")
  /\ calls' = << >>
  /\ UNCHANGED <<children, removing, frames, passVars, reordered>>
-----------------------------------------------------------------------------
(* JavaScript, on jsQueue or inside a detector or another callback. *)

\* scene.add(n), for a node without an imported model.
SceneAdd(n) ==
  /\ ChangeChildren(addChildNode(children, Content, n))
  /\ UNCHANGED removing

\* p.add(n): takes n out of sceneContent if it was there.
NodeAdd(p, n) ==
  /\ MayAdopt(children, p, n)
  /\ ChangeChildren(addChildNode(children, p, n))
  /\ UNCHANGED removing

\* updatePosition, localTranslation, or a step of an animation.
Move(n, x) ==
  /\ position[n] # x
  /\ position' = [position EXCEPT ![n] = x]
  /\ UNCHANGED detectors
  /\ ChangeCollisions

setCollisionDetector(n) ==
  /\ n \notin detectors
  /\ detectors' = detectors \cup {n}
  /\ UNCHANGED position
  /\ ChangeCollisions
-----------------------------------------------------------------------------
(* The main thread. *)

\* session(_:didUpdate:) -> updateColliderDetector -> collisionQueue.async.
DidUpdateFrame ==
  /\ Alive
  /\ removing = << >>
  /\ frames < MaxFrames
  /\ frames' = frames + 1
  /\ UNCHANGED <<sceneVars, removing, passVars, history>>

\* removeSceneContent walks a copy of the list of children...
RemoveSceneContent ==
  /\ Alive
  /\ removing = << >>
  /\ children[Content] # << >>
  /\ removing' = children[Content]
  /\ UNCHANGED <<sceneVars, frames, passVars, history>>

\* ... and takes each node from the parent it has by then.
RemoveNode ==
  /\ removing # << >>
  /\ removing' = Tail(removing)
  /\ ChangeChildren(removeFromParentNode(children, Head(removing)))
-----------------------------------------------------------------------------
(* collisionQueue: one pass at a time. *)

Keep == UNCHANGED <<sceneVars, removing>>
KeepHistory == UNCHANGED history

\* Faulty variant: a closed range, 0 ... count, instead of 0 ..< count.
BeginPassClosedRange ==
  /\ pc = "idle"
  /\ frames > 0
  /\ frames' = frames - 1
  /\ rows' = Len(children[Content]) + 1
  /\ nA' = 0
  /\ pc' = "row"
  /\ UNCHANGED <<nB, cols, lhs, rhs, lhsAt>>
  /\ Keep /\ KeepHistory

BeginPass ==
  /\ pc = "idle"
  /\ frames > 0
  /\ frames' = frames - 1
  /\ rows' = Len(children[Content])
  /\ nA' = 0
  /\ pc' = "row"
  /\ UNCHANGED <<nB, cols, lhs, rhs, lhsAt>>
  /\ Keep /\ KeepHistory

\* Faulty variant: a row starts after the diagonal, so that each pair is looked
\* at in one direction only.
BeginRowAfterDiagonal ==
  /\ pc = "row"
  /\ nA < rows
  /\ cols' = Len(children[Content])
  /\ nB' = IF nA + 1 < cols' THEN nA + 1 ELSE cols'
  /\ pc' = "pair"
  /\ UNCHANGED <<frames, nA, rows, lhs, rhs, lhsAt>>
  /\ Keep /\ KeepHistory

\* The outer loop: the inner bound is read again for every row.
BeginRow ==
  /\ pc = "row"
  /\ nA < rows
  /\ cols' = Len(children[Content])
  /\ nB' = 0
  /\ pc' = "pair"
  /\ UNCHANGED <<frames, nA, rows, lhs, rhs, lhsAt>>
  /\ Keep /\ KeepHistory

LastRow ==
  /\ pc = "row"
  /\ nA = rows
  /\ pc' = "end"
  /\ UNCHANGED <<frames, nA, nB, rows, cols, lhs, rhs, lhsAt>>
  /\ Keep /\ KeepHistory

LastColumn ==
  /\ pc = "pair"
  /\ nB = cols
  /\ nA' = nA + 1
  /\ nB' = 0 /\ cols' = 0
  /\ pc' = "row"
  /\ UNCHANGED <<frames, rows, lhs, rhs, lhsAt>>
  /\ Keep /\ KeepHistory

SkipDiagonal ==
  /\ pc = "pair"
  /\ nB < cols
  /\ nA = nB
  /\ nB' = nB + 1
  /\ UNCHANGED <<frames, pc, nA, rows, cols, lhs, rhs, lhsAt>>
  /\ Keep /\ KeepHistory

InRange(k) == k < Len(children[Content])

\* let lhs = children[nA]
ReadLhs ==
  /\ pc = "pair"
  /\ nB < cols
  /\ nA # nB
  /\ InRange(nA)
  /\ lhs' = children[Content][nA + 1]
  /\ pc' = "rhs"
  /\ UNCHANGED <<frames, nA, nB, rows, cols, rhs, lhsAt>>
  /\ Keep /\ KeepHistory

\* let rhs = children[nB], of a list read anew.
ReadRhs ==
  /\ pc = "rhs"
  /\ InRange(nB)
  /\ rhs' = children[Content][nB + 1]
  /\ pc' = "measure"
  /\ UNCHANGED <<frames, nA, nB, rows, cols, lhs, lhsAt>>
  /\ Keep /\ KeepHistory

\* The list has become shorter than the loop bound read earlier.
IndexTrap ==
  /\ \/ pc = "pair" /\ nB < cols /\ nA # nB /\ ~InRange(nA)
     \/ pc = "rhs" /\ ~InRange(nB)
  /\ pc' = "trapped"
  /\ UNCHANGED <<frames, nA, nB, rows, cols, lhs, rhs, lhsAt>>
  /\ Keep /\ KeepHistory

MeasureLhs ==
  /\ pc = "measure"
  /\ lhsAt' = position[lhs]
  /\ pc' = "compare"
  /\ UNCHANGED <<frames, nA, nB, rows, cols, lhs, rhs>>
  /\ Keep /\ KeepHistory

Collides == lhsAt = position[rhs]

\* emitCollision: the left node's detector, if it has one, is called with rhs.
EmitCollision ==
  /\ pc = "compare"
  /\ Collides
  /\ lhs \in detectors
  /\ pc' = "detector"
  /\ calls' = IF reordered \/ moved THEN << >> ELSE Append(calls, <<lhs, rhs>>)
  /\ UNCHANGED <<frames, nA, nB, rows, cols, lhs, rhs, lhsAt,
                 changes, reordered, moved>>
  /\ Keep

\* Faulty variant: the row is begun again after a call, to see what it changed.
NextPairRestartsRow ==
  /\ \/ pc = "compare" /\ ~(Collides /\ lhs \in detectors) /\ nB' = nB + 1
     \/ pc = "detector" /\ nB' = 0
  /\ pc' = "pair"
  /\ lhs' = None /\ rhs' = None /\ lhsAt' = None
  /\ UNCHANGED <<frames, nA, rows, cols>>
  /\ Keep /\ KeepHistory

NextPair ==
  /\ \/ pc = "compare" /\ ~(Collides /\ lhs \in detectors)
     \/ pc = "detector"
  /\ nB' = nB + 1
  /\ pc' = "pair"
  /\ lhs' = None /\ rhs' = None /\ lhsAt' = None
  /\ UNCHANGED <<frames, nA, rows, cols>>
  /\ Keep /\ KeepHistory

EndPass ==
  /\ pc = "end"
  /\ pc' = "idle"
  /\ nA' = 0 /\ rows' = 0
  /\ changes' = 0 /\ reordered' = FALSE /\ moved' = FALSE /\ calls' = << >>
  /\ UNCHANGED <<frames, nB, cols, lhs, rhs, lhsAt>>
  /\ Keep
-----------------------------------------------------------------------------
JavaScript ==
  \E n \in Nodes :
    \/ SceneAdd(n)
    \/ \E p \in Nodes : NodeAdd(p, n)
    \/ \E x \in Positions : Move(n, x)
    \/ setCollisionDetector(n)

Main == DidUpdateFrame \/ RemoveSceneContent \/ RemoveNode

Pass ==
  \/ BeginPass \/ BeginRow \/ LastRow \/ LastColumn \/ SkipDiagonal
  \/ ReadLhs \/ ReadRhs \/ IndexTrap \/ MeasureLhs
  \/ EmitCollision \/ NextPair \/ EndPass

Next == JavaScript \/ Main \/ Pass

Spec == Init /\ [][Next]_vars
-----------------------------------------------------------------------------
(* Properties *)

TypeOK ==
  /\ children \in [Nodes \cup {Content} -> Seq(Nodes)]
  /\ position \in [Nodes -> Positions]
  /\ detectors \subseteq Nodes
  /\ removing \in Seq(Nodes)
  /\ frames \in 0..MaxFrames
  /\ pc \in Labels
  /\ {nA, nB, rows, cols} \subseteq 0..Cardinality(Nodes)
  /\ {lhs, rhs} \subseteq Nodes \cup {None}
  /\ lhsAt \in Positions \cup {None}
  /\ changes \in 0..MaxChanges
  /\ reordered \in BOOLEAN
  /\ moved \in BOOLEAN
  /\ calls \in Seq(Nodes \X Nodes)

\* The detector of a is called with b.
Collide(a, b) == a # b /\ a \in detectors /\ position[a] = position[b]

\* The detector calls a set of nodes gives rise to.
Collisions(S) == {call \in S \X S : Collide(call[1], call[2])}

\* What a pass is for: it calls the detector of each node it found in the scene
\* once for each other such node close to it, and makes no call that is not a
\* collision in the scene.  Nodes added meanwhile do not spoil it: they come
\* last, and are met only in the rows begun after they came.
GrowingPassIsExact ==
  pc = "end" /\ ~reordered /\ ~moved =>
    LET found == {children[Content][i] : i \in 1..rows}
    IN  /\ Collisions(found) \subseteq ToSet(calls)
        /\ ToSet(calls) \subseteq Collisions(ChildSet(children, Content))
        /\ IsInjective(calls)

\* Only a child that leaves sceneContent can send the pass past the end of the
\* list, whatever is added or moved under it.
TrapNeedsRemoval == pc = "trapped" => reordered

\* How far the pass is: the pair it is at, and what it does with it.
Stage == [row |-> 0, pair |-> 1, rhs |-> 2, measure |-> 3, compare |-> 4,
          detector |-> 5, end |-> 6]
Progress == (nA * (Cardinality(Nodes) + 1) + nB) * 8 + Stage[pc]

GoesForward ==
  {pc, pc'} \subseteq DOMAIN Stage =>
    /\ rows' = rows
    /\ Progress' > Progress \/ UNCHANGED passVars

\* A pass ends however the scene changes under it, and whatever its detectors
\* add: the outer bound is read once, and every step of the pass goes forward.
PassGoesForward == [][GoesForward]_vars

\* "provides really nice functionality ... perfectly fine, since scenes are
\* going to be small" (Scene.swift:168): a pass over a small scene does not
\* index past the end of the list of children.
NoIndexTrap == pc # "trapped"
=============================================================================
