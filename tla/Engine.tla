------------------------------- MODULE Engine -------------------------------
(***************************************************************************)
(* The JavaScript engine of the iOS client (Engine.swift) and the view     *)
(* controllers that drive it (MainVC.swift).  Three kinds of thread meet   *)
(* here: the main thread, which empties the scene and submits work; the    *)
(* serial dispatch queue jsQueue, which runs that work in order; and the   *)
(* threads on which SceneKit and the collider call back into JavaScript.   *)
(*                                                                         *)
(* Every MainVC asks for at most one script and appears once, because the  *)
(* user interface only ever presents new controllers on top.  A script run *)
(* is therefore named by the number of the MainVC that asked for it.       *)
(*                                                                         *)
(* A handler of the main thread is one action: between its first and its   *)
(* last call no other thread submits to jsQueue, and the only call of it   *)
(* another thread could notice, removeSceneContent, happens once.  A       *)
(* script is cut at its calls into native code: JavaScriptCore releases    *)
(* its lock during such a call, so callbacks on other threads run there.   *)
(*                                                                         *)
(* All scripts share one JSContext.  What a callback does is counted for   *)
(* the run that put its node in the scene or began its transaction.        *)
(***************************************************************************)
EXTENDS Naturals, Sequences

CONSTANTS
  Scripts,     \* the scripts the user can choose from
  NoScript,    \* scriptToExecute = nil
  Diverging,   \* the scripts that never return, from their evaluation or a callback
  MaxVC,       \* bound: MainVCs created in one life of the app
  MaxNodes     \* bound: nodes one script adds to the scene

ASSUME EngineAssumption ==
  /\ NoScript \notin Scripts
  /\ Diverging \subseteq Scripts
  /\ MaxVC \in Nat
  /\ MaxNodes \in Nat

VC   == 1..MaxVC
Task == [kind : {"context", "expose", "sdk", "script"}, vc : VC]

VARIABLES
  loaded,      \* number of MainVCs whose viewDidLoad has run; the last is Engine.parent
  appeared,    \* the last MainVC whose viewDidAppear has run, 0 before any
  script,      \* script[v]: scriptToExecute of the v-th MainVC
  jsQueue,     \* closures waiting on the serial queue
  context,     \* TRUE once Engine.context holds a JSContext
  exposed,     \* TRUE once scene, Mosaico, _consoleLog and the handler are bound
  console,     \* TRUE once sdk.js has defined console
  evaluating,  \* the run whose script jsQueue is evaluating, or 0
  finished,    \* runs whose completion callback has been called
  failed,      \* runs whose exception reached EngineDelegate.jsException
  blocks,      \* runs with a completion block waiting in an SCNTransaction
  callbacks,   \* runs one of whose functions is being called on another thread
  content,     \* content[v]: children of sceneContent that run v added
  leftover     \* history: runs still able to add nodes when the scene was last emptied

vcVars == <<loaded, appeared, script>>
jsVars == <<context, exposed, console>>
vars   == <<loaded, appeared, script, jsQueue, context, exposed, console,
            evaluating, finished, failed, blocks, callbacks, content, leftover>>

Init ==
  /\ loaded = 0
  /\ appeared = 0
  /\ script = [v \in VC |-> NoScript]
  /\ jsQueue = << >>
  /\ context = FALSE
  /\ exposed = FALSE
  /\ console = FALSE
  /\ evaluating = 0
  /\ finished = {}
  /\ failed = {}
  /\ blocks = {}
  /\ callbacks = {}
  /\ content = [v \in VC |-> 0]
  /\ leftover = {}

QueuedRuns == {v \in VC : \E i \in 1..Len(jsQueue) :
                              jsQueue[i] = [kind |-> "script", vc |-> v]}

\* The runs that can still add nodes to an empty scene: not started, being
\* evaluated, inside a callback, or with a callback on its way.
Active == QueuedRuns \cup blocks \cup callbacks \cup (VC \cap {evaluating})

\* Faulty variant: the list of children is edited while it is walked, so that
\* every other child stays.
RemoveEveryOther ==
  /\ content' = [v \in VC |-> content[v] \div 2]
  /\ leftover' = Active

\* Every child of sceneContent is removed, whichever run added it.
RemoveSceneContent ==
  /\ content' = [v \in VC |-> 0]
  /\ leftover' = Active
-----------------------------------------------------------------------------
(* The main thread. *)

\* Faulty variant: setup binds the interface and forgets sdk.js.
SetupTasksWithoutSdk(v) ==
  (IF v = 1 THEN << [kind |-> "context", vc |-> v] >> ELSE << >>)
    \o << [kind |-> "expose", vc |-> v] >>

\* What Engine.setup submits: exposeInterfaceToJavascript, then sdk.js.  The
\* first MainVC is also the first to name Engine.instance, whose initialiser
\* submits the creation of the context.  sdk.js is part of the app: that it is
\* not there, or cannot be read, is left out.
SetupTasks(v) ==
  (IF v = 1 THEN << [kind |-> "context", vc |-> v] >> ELSE << >>)
    \o << [kind |-> "expose", vc |-> v], [kind |-> "sdk", vc |-> v] >>

\* Faulty variant: the script just chosen overtakes the waiting closures.
SubmitFirst(v) == jsQueue' = << [kind |-> "script", vc |-> v] >> \o jsQueue

\* runScript submits the evaluation to the end of the queue.
Submit(v) == jsQueue' = Append(jsQueue, [kind |-> "script", vc |-> v])

\* viewDidLoad of a new MainVC: Engine.setup binds the interface again, empties
\* the scene and evaluates sdk.js again.
ViewDidLoad(s) ==
  /\ loaded < MaxVC
  /\ appeared = loaded
  /\ loaded = 0 => s = NoScript
  /\ loaded' = loaded + 1
  /\ script' = [script EXCEPT ![loaded + 1] = s]
  /\ jsQueue' = jsQueue \o SetupTasks(loaded + 1)
  /\ RemoveSceneContent
  /\ UNCHANGED <<appeared, jsVars, evaluating, finished, failed,
                 blocks, callbacks>>

\* viewDidAppear of a MainVC that was given a script: runScript empties the
\* scene at once and submits the evaluation.
RunScript ==
  /\ appeared < loaded
  /\ script[loaded] # NoScript
  /\ appeared' = loaded
  /\ Submit(loaded)
  /\ RemoveSceneContent
  /\ UNCHANGED <<loaded, script, jsVars, evaluating, finished, failed,
                 blocks, callbacks>>

\* viewDidAppear of a MainVC without a script.
AppearIdle ==
  /\ appeared < loaded
  /\ script[loaded] = NoScript
  /\ appeared' = loaded
  /\ UNCHANGED <<loaded, script, jsQueue, jsVars, evaluating, finished, failed,
                 blocks, callbacks, content, leftover>>
-----------------------------------------------------------------------------
(* jsQueue: one closure at a time, in the order of submission. *)

Dequeue(kind) ==
  /\ evaluating = 0
  /\ jsQueue # <<>>
  /\ Head(jsQueue).kind = kind
  /\ jsQueue' = Tail(jsQueue)
  /\ UNCHANGED <<vcVars, finished, failed, blocks, callbacks, content, leftover>>

CreateContext ==
  /\ Dequeue("context")
  /\ context' = TRUE
  /\ UNCHANGED <<exposed, console, evaluating>>

ExposeInterface ==
  /\ Dequeue("expose")
  /\ exposed' = TRUE
  /\ UNCHANGED <<context, console, evaluating>>

EvaluateSdk ==
  /\ Dequeue("sdk")
  /\ console' = TRUE
  /\ UNCHANGED <<context, exposed, evaluating>>

BeginScript ==
  /\ Dequeue("script")
  /\ evaluating' = Head(jsQueue).vc
  /\ UNCHANGED jsVars

\* scene.add: one more child of sceneContent, on whichever thread calls it.
AddNode(v) ==
  /\ content[v] < MaxNodes
  /\ content' = [content EXCEPT ![v] = @ + 1]
  /\ UNCHANGED <<vcVars, jsQueue, jsVars, evaluating, finished, failed,
                 blocks, callbacks, leftover>>

\* scene.add called by the script being evaluated.
ScriptAdd ==
  /\ evaluating # 0
  /\ AddNode(evaluating)

\* animateLocalTranslation: a completion block for the current SCNTransaction.
\* It is called whether or not the node is in the scene by then.
SetBlock(v) ==
  /\ blocks' = blocks \cup {v}
  /\ UNCHANGED <<vcVars, jsQueue, jsVars, evaluating, finished, failed,
                 callbacks, content, leftover>>

ScriptAnimates ==
  /\ evaluating # 0
  /\ SetBlock(evaluating)

\* evaluateScript returns and the completion callback is called, with a nil
\* error even when the script threw.
EndEvaluation ==
  /\ evaluating # 0
  /\ script[evaluating] \notin Diverging
  /\ finished' = finished \cup {evaluating}
  /\ evaluating' = 0
  /\ UNCHANGED <<vcVars, jsQueue, jsVars, blocks, callbacks, content, leftover>>

ScriptReturns ==
  /\ EndEvaluation
  /\ UNCHANGED failed

\* Faulty variant: the completion callback is skipped when the script throws.
ScriptThrowsSilently ==
  /\ evaluating # 0
  /\ script[evaluating] \notin Diverging
  /\ evaluating' = 0
  /\ failed' = failed \cup {evaluating}
  /\ UNCHANGED <<vcVars, jsQueue, jsVars, finished, blocks, callbacks, content,
                 leftover>>

ScriptThrows ==
  /\ EndEvaluation
  /\ failed' = failed \cup {evaluating}
-----------------------------------------------------------------------------
(* Callbacks: functions a script handed to setCollisionDetector or to an    *)
(* animation, called on the collider's or on SceneKit's thread.             *)

\* A collision, or the end of an SCNAction: decided while a node of the run is
\* in the scene.
CallbackBegins(v) ==
  /\ content[v] > 0
  /\ callbacks' = callbacks \cup {v}
  /\ UNCHANGED <<vcVars, jsQueue, jsVars, evaluating, finished, failed,
                 blocks, content, leftover>>

\* An SCNTransaction completes.
BlockBegins(v) ==
  /\ v \in blocks
  /\ blocks' = blocks \ {v}
  /\ callbacks' = callbacks \cup {v}
  /\ UNCHANGED <<vcVars, jsQueue, jsVars, evaluating, finished, failed,
                 content, leftover>>

CallbackAdd(v) ==
  /\ v \in callbacks
  /\ AddNode(v)

CallbackAnimates(v) ==
  /\ v \in callbacks
  /\ SetBlock(v)

\* Another callback of the same run may still be on its way.
EndCallback(v) ==
  /\ v \in callbacks
  /\ callbacks' \in {callbacks, callbacks \ {v}}
  /\ UNCHANGED <<vcVars, jsQueue, jsVars, evaluating, finished, blocks, content,
                 leftover>>

CallbackReturns(v) ==
  /\ EndCallback(v)
  /\ UNCHANGED failed

CallbackThrows(v) ==
  /\ EndCallback(v)
  /\ failed' = failed \cup {v}
-----------------------------------------------------------------------------
Main ==
  \/ \E s \in Scripts \cup {NoScript} : ViewDidLoad(s)
  \/ RunScript
  \/ AppearIdle

Worker ==
  \/ CreateContext
  \/ ExposeInterface
  \/ EvaluateSdk
  \/ BeginScript

Evaluation ==
  \/ ScriptAdd
  \/ ScriptAnimates
  \/ ScriptReturns
  \/ ScriptThrows

Callback ==
  \E v \in VC :
    \/ CallbackBegins(v)
    \/ BlockBegins(v)
    \/ CallbackAdd(v)
    \/ CallbackAnimates(v)
    \/ CallbackReturns(v)
    \/ CallbackThrows(v)

Next == Main \/ Worker \/ Evaluation \/ Callback

Spec == Init /\ [][Next]_vars

\* GCD runs whatever is submitted, and the evaluation of a script that is not
\* Diverging returns.  The user owes nothing, and nothing needs a callback.
FairSpec ==
  /\ Spec
  /\ WF_vars(Worker)
  /\ WF_vars(ScriptReturns \/ ScriptThrows)
-----------------------------------------------------------------------------
(* Properties *)

TypeOK ==
  /\ loaded \in 0..MaxVC
  /\ appeared \in 0..loaded
  /\ script \in [VC -> Scripts \cup {NoScript}]
  /\ jsQueue \in Seq(Task)
  /\ context \in BOOLEAN
  /\ exposed \in BOOLEAN
  /\ console \in BOOLEAN
  /\ evaluating \in 0..MaxVC
  /\ finished \subseteq VC
  /\ failed \subseteq VC
  /\ blocks \subseteq VC
  /\ callbacks \subseteq VC
  /\ content \in [VC -> 0..MaxNodes]
  /\ leftover \subseteq VC

\* A script is evaluated only in a context where the Swift interface is bound
\* and sdk.js has run ("Always gets processed first", sdk.js:10), although all
\* of that is submitted asynchronously, again for every MainVC.
SdkBeforeScript ==
  evaluating # 0 => context /\ exposed /\ console

\* Scripts are evaluated one at a time in the order they were asked for: when
\* one is being evaluated, every earlier one has run its completion callback.
EvaluationInOrder ==
  evaluating # 0 =>
    \A v \in VC : v < evaluating /\ script[v] # NoScript => v \in finished

\* What emptying the scene guarantees: a node in the scene was added by the
\* latest run, or by one that still had work in flight when runScript or setup
\* last emptied the scene.
OnlyUnfinishedRunsLeak ==
  \A v \in VC : content[v] > 0 => v = loaded \/ v \in leftover

\* "remove all the nodes that were added as part of this js script"
\* (Scene.swift:81): a script being evaluated has the scene to itself.
SceneHoldsOneScript ==
  evaluating # 0 => \A v \in VC \ {evaluating} : content[v] = 0

\* Every script asked for is evaluated to its end, as long as no script asked
\* for up to then loops forever.
EveryScriptFinishes ==
  \A v \in VC :
    (appeared >= v /\ \A u \in 1..v : script[u] \notin Diverging)
      ~> (script[v] = NoScript \/ v \in finished)
-----------------------------------------------------------------------------
(* The inductive invariant behind the safety properties. *)

IsTask(i, kind) == i \in 1..Len(jsQueue) /\ jsQueue[i].kind = kind

\* MainVCs appear one at a time, and only what has appeared is evaluated.
LifecycleInOrder == loaded <= appeared + 1 /\ evaluating <= appeared

\* Evaluations wait in the order of the MainVCs that asked for them, all of
\* them behind the one in progress.
QueueInOrder ==
  \A i \in 1..Len(jsQueue) : jsQueue[i].kind = "script" =>
    /\ jsQueue[i].vc <= appeared
    /\ jsQueue[i].vc > evaluating
    /\ \A j \in 1..Len(jsQueue) :
         j < i /\ jsQueue[j].kind = "script" => jsQueue[j].vc < jsQueue[i].vc

\* No request is lost between viewDidAppear and the completion callback.
RunsAccountedFor ==
  \A v \in 1..appeared : script[v] # NoScript =>
    \/ v \in finished
    \/ v = evaluating
    \/ \E i \in 1..Len(jsQueue) : jsQueue[i] = [kind |-> "script", vc |-> v]

\* Nothing is submitted before a MainVC is loaded; then the context exists or is the next thing to be made,
\* and what setup provides is there or on its way.
SetupSubmitted ==
  /\ loaded = 0 => jsQueue = << >>
  /\ loaded > 0 =>
       /\ context \/ IsTask(1, "context")
       /\ exposed \/ \E j \in 1..Len(jsQueue) : jsQueue[j].kind = "expose"
       /\ console \/ \E j \in 1..Len(jsQueue) : jsQueue[j].kind = "sdk"

\* Every waiting script has what setup provides in front of it.
SetupAhead ==
  \A i \in 1..Len(jsQueue) : jsQueue[i].kind = "script" =>
    /\ exposed \/ \E j \in 1..(i - 1) : jsQueue[j].kind = "expose"
    /\ console \/ \E j \in 1..(i - 1) : jsQueue[j].kind = "sdk"

\* A run that can still add nodes is the latest, or could already do so when
\* the scene was last emptied.
ActiveIsKnown == \A v \in Active : v = loaded \/ v \in leftover

\* Engine reaches no state outside this invariant, and it needs nothing else to
\* carry over from one step to the next: the FIFO order of jsQueue alone keeps
\* setup ahead of the scripts and the scripts in order.
IInv ==
  /\ TypeOK
  /\ LifecycleInOrder
  /\ QueueInOrder
  /\ RunsAccountedFor
  /\ SetupSubmitted
  /\ SetupAhead
  /\ SdkBeforeScript
  /\ ActiveIsKnown
  /\ OnlyUnfinishedRunsLeak
=============================================================================
