------------------------------- MODULE Animation -------------------------------
(***************************************************************************)
(* Animations and their completions (Node.run and the animate functions).  *)
(*                                                                         *)
(* An animation is either an SCNAction, whose completion belongs to it, or *)
(* an SCNTransaction, whose completion block is set after the transaction  *)
(* has been committed: it belongs to the transaction that is then current  *)
(* on the calling thread, the implicit one, which completes whenever       *)
(* SceneKit flushes it.                                                    *)
(*                                                                         *)
(* JavaScript may leave the argument onComplete out, which makes it        *)
(* undefined, and isNull is true of null only.                             *)
(***************************************************************************)
EXTENDS Naturals, FiniteSets

CONSTANTS
  Animations,  \* the animations scripts start
  Nodes,       \* the nodes they start them on
  Arguments,   \* what scripts give for onComplete
  None         \* no animation

\* What an animation is started with.
AnimationRecord ==
  [kind : {"action", "transaction"}, node : Nodes, onComplete : Arguments]

AnimationAssumption ==
  /\ Arguments \subseteq {"function", "null", "undefined"}
  /\ None \notin Animations \union AnimationRecord

VARIABLES
  anim,        \* anim[a]: the animation, None until it is started
  running,     \* animations under way
  inScene,     \* nodes in the scene
  current,     \* current[t]: whose block the implicit transaction of t has
  due,         \* animations whose completion SceneKit has still to call
  calling,     \* animations whose completion function is being evaluated
  called       \* history: called[a]: how often a's completion has been called

vars == <<anim, running, inScene, current, due, calling, called>>

\* jsQueue evaluates scripts, collisionQueue calls the functions of colliders,
\* SceneKit calls completions.
Threads == {"jsQueue", "collisionQueue", "SceneKit"}

Init ==
  /\ anim = [a \in Animations |-> None]
  /\ running = {}
  /\ inScene = {}
  /\ current = [t \in Threads |-> None]
  /\ due = {}
  /\ calling = {}
  /\ called = [a \in Animations |-> 0]

\* JavaScript runs in scripts and for colliders at any time, and in completions.
InJavaScript(t) == t = "SceneKit" => calling # {}

isNull(value) == value = "null"

Start(a, k, n, onComplete) ==
  /\ anim[a] = None
  /\ anim' = [anim EXCEPT ![a] = [kind |-> k, node |-> n, onComplete |-> onComplete]]
  /\ running' = running \cup {a}
  /\ UNCHANGED <<inScene, calling, called>>
-----------------------------------------------------------------------------
(* JavaScript *)

\* animateRotation, animatePosition, animateScale, animateOpacity -> run.
Run(t, a, n, onComplete) ==
  /\ InJavaScript(t)
  /\ Start(a, "action", n, onComplete)
  /\ UNCHANGED <<current, due>>

\* Setting the block of a transaction that has one: SceneKit calls the old
\* block at once or never.
SetCompletionBlock(t, a) ==
  /\ current' = [current EXCEPT ![t] = a]
  /\ due' \in {due, due \cup ({current[t]} \ {None})}

\* animateLocalTranslation: commit first, then set the block.
animateLocalTranslation(t, a, n, onComplete) ==
  /\ InJavaScript(t)
  /\ Start(a, "transaction", n, onComplete)
  /\ IF isNull(onComplete) THEN UNCHANGED <<current, due>>
                           ELSE SetCompletionBlock(t, a)

SceneAdd(n) ==
  /\ n \notin inScene
  /\ inScene' = inScene \cup {n}
  /\ UNCHANGED <<anim, running, current, due, calling, called>>

\* The main thread empties the scene for the next script.
RemoveSceneContent ==
  /\ inScene # {}
  /\ inScene' = {}
  /\ UNCHANGED <<anim, running, current, due, calling, called>>
-----------------------------------------------------------------------------
(* SceneKit *)

\* Faulty variant: an action always ends with a call.
CompletionAlways(a) == {a}

\* Faulty variant: the test for null is the wrong way round.
CompletionInverted(a) == IF isNull(anim[a].onComplete) THEN {a} ELSE {}

\* run gives the action a completion unless onComplete is null.
Completion(a) == IF isNull(anim[a].onComplete) THEN {} ELSE {a}

\* An action advances, and ends, while its node is in the scene.
ActionEnds(a) ==
  /\ a \in running
  /\ anim[a].kind = "action"
  /\ anim[a].node \in inScene
  /\ running' = running \ {a}
  /\ due' = due \cup Completion(a)
  /\ UNCHANGED <<anim, inScene, current, calling, called>>

TransactionEnds(a) ==
  /\ a \in running
  /\ anim[a].kind = "transaction"
  /\ running' = running \ {a}
  /\ UNCHANGED <<anim, inScene, current, due, calling, called>>

\* The implicit transaction of t completes.
Flush(t) ==
  /\ current[t] # None
  /\ due' = due \cup {current[t]}
  /\ current' = [current EXCEPT ![t] = None]
  /\ UNCHANGED <<anim, running, inScene, calling, called>>

\* onComplete.call of a function.
CallFunction(a) ==
  /\ a \in due
  /\ anim[a].onComplete = "function"
  /\ due' = due \ {a}
  /\ calling' = calling \cup {a}
  /\ called' = [called EXCEPT ![a] = @ + 1]
  /\ UNCHANGED <<anim, running, inScene, current>>

\* onComplete.call of anything else: a TypeError for the exception handler.
CallFails(a) ==
  /\ a \in due
  /\ anim[a].onComplete # "function"
  /\ due' = due \ {a}
  /\ called' = [called EXCEPT ![a] = @ + 1]
  /\ UNCHANGED <<anim, running, inScene, current, calling>>

CallReturns(a) ==
  /\ a \in calling
  /\ calling' = calling \ {a}
  /\ UNCHANGED <<anim, running, inScene, current, due, called>>
-----------------------------------------------------------------------------
JavaScript ==
  \/ \E t \in Threads, a \in Animations, n \in Nodes, f \in Arguments :
       Run(t, a, n, f) \/ animateLocalTranslation(t, a, n, f)
  \/ \E n \in Nodes : SceneAdd(n)

Ends(a) == ActionEnds(a) \/ TransactionEnds(a)
Calls(a) == CallFunction(a) \/ CallFails(a)

SceneKit ==
  \/ \E a \in Animations : Ends(a) \/ Calls(a) \/ CallReturns(a)
  \/ \E t \in Threads : Flush(t)

Next == JavaScript \/ RemoveSceneContent \/ SceneKit

Spec == Init /\ [][Next]_vars

\* SceneKit finishes what is in the scene and calls what is due.  That an
\* implicit transaction is ever flushed is not assumed: jsQueue has no run loop.
Fairness == \A a \in Animations : WF_vars(Ends(a)) /\ WF_vars(Calls(a))

FairSpec == Spec /\ Fairness
-----------------------------------------------------------------------------
(* Properties *)

\* The fields of nodes and transactions hold what they are declared to hold.
TypeOK ==
  /\ anim \in [Animations -> AnimationRecord \cup {None}]
  /\ running \subseteq Animations
  /\ inScene \subseteq Nodes
  /\ current \in [Threads -> Animations \cup {None}]
  /\ due \subseteq Animations
  /\ calling \subseteq Animations
  /\ called \in [Animations -> Nat]

\* One animation calls back at most once, one started with null never, and an
\* SCNAction (Node.run) not before it has ended, although completions start
\* animations, blocks replace each other and nodes come and go meanwhile.
CompletedOnce ==
  \A a \in Animations :
    /\ called[a] <= 1
    /\ called[a] = 1 =>
         /\ anim[a] # None
         /\ ~isNull(anim[a].onComplete)
         /\ anim[a].kind = "action" => a \notin running

\* a is an SCNAction of n that has still to call back.
Owed(a, n) ==
  /\ anim[a] # None
  /\ anim[a].kind = "action"
  /\ anim[a].node = n
  /\ ~isNull(anim[a].onComplete)
  /\ called[a] = 0

\* A completion handed to Node.run is called in the end, unless its node has
\* left the scene meanwhile (Scene.removeSceneContent): once it stays there
\* again, the call is owed again.
ActionCallsBack ==
  \A a \in Animations, n \in Nodes :
    Owed(a, n) ~> called[a] = 1 \/ n \notin inScene
==============================================================================
