------------------------------ MODULE ModelImport ------------------------------
(***************************************************************************)
(* Import of glTF models (Scene.importModel, getNode, add).                *)
(*                                                                         *)
(* importModel returns an empty node at once, the proxy of the model, and  *)
(* the model follows later.  The two meet in one of two ways: the loader   *)
(* finds the proxy among the children of sceneContent, or scene.add finds  *)
(* the model in importedModelsList.  Neither side holds a lock.            *)
(*                                                                         *)
(* A key is made for one import and never used again, so the proxy stands  *)
(* for its key and for its model.                                          *)
(*                                                                         *)
(* At this commit the body of requestModelFromStorage is commented out: it *)
(* never calls its callback, no model is ever loaded, and the loader below *)
(* is unreachable.  StorageAnswers is not a step of the app as built.  It  *)
(* stands for the call of the callback that getNode hands over, which is   *)
(* the contract the other half of the code is written to; nothing says     *)
(* that it is ever taken, and no property here needs it to be.             *)
(***************************************************************************)
EXTENDS Sequences

CONSTANTS
  Proxies,     \* the nodes importModel returns
  Stored,      \* those whose callback may be called; none at this commit
  Threads,     \* threads that run JavaScript
  None         \* no node

ImportAssumption ==
  /\ Stored \subseteq Proxies
  /\ None \notin Proxies

VARIABLES
  requested,   \* imports whose model has been asked for
  answered,    \* those the storage has answered
  inScene,     \* proxies that are children of sceneContent
  wrapped,     \* proxies with all of their model, from scene.add
  adding,      \* adding[t]: the node thread t is adding to the scene, or None
  found,       \* found[t]: its model was in the table and is still to be added
  loadQueue,   \* answers waiting on loadGLTFQueue
  step,        \* what the loader does next
  loading,     \* the model it is at, or None
  importedModelsList,  \* models in the table
  direct,      \* proxies with the first root node of their model, from the loader
  loaded,      \* history: models the loader has finished with, successfully
  failed,      \* history: models that could not be unzipped or parsed
  late         \* history: models loaded between the two halves of a scene.add

storageVars == <<requested, answered>>
sceneVars   == <<inScene, wrapped, adding, found>>
tableVars   == <<importedModelsList, direct>>
history     == <<loaded, failed, late>>
vars == <<requested, answered, inScene, wrapped, adding, found, loadQueue, step,
          loading, importedModelsList, direct, loaded, failed, late>>

Init ==
  /\ requested = {}
  /\ answered = {}
  /\ inScene = {}
  /\ wrapped = {}
  /\ importedModelsList = {}
  /\ direct = {}
  /\ loaded = {}
  /\ failed = {}
  /\ late = {}
  /\ adding = [t \in Threads |-> None]
  /\ found = [t \in Threads |-> FALSE]
  /\ loadQueue = << >>
  /\ step = "idle"
  /\ loading = None

\* An index out of range, or a torn dictionary, stops the whole app.
Alive == step # "trapped"
-----------------------------------------------------------------------------
(* JavaScript and the main thread *)

SceneStep ==
  Alive /\ UNCHANGED <<storageVars, loadQueue, step, loading, tableVars, history>>

\* scene.add, first half: is the model in the table?
LookUp(t, k) ==
  /\ adding[t] = None
  /\ k \in requested
  /\ adding' = [adding EXCEPT ![t] = k]
  /\ found' = [found EXCEPT ![t] = k \in importedModelsList]
  /\ UNCHANGED <<inScene, wrapped>>
  /\ SceneStep

\* node.add(importedNode), if it was.
AddModel(t) ==
  /\ found[t]
  /\ wrapped' = wrapped \cup {adding[t]}
  /\ found' = [found EXCEPT ![t] = FALSE]
  /\ UNCHANGED <<inScene, adding>>
  /\ SceneStep

\* scene.add, second half: sceneContent.add(node).
AddProxy(t) ==
  /\ adding[t] # None
  /\ ~found[t]
  /\ inScene' = inScene \cup {adding[t]}
  /\ adding' = [adding EXCEPT ![t] = None]
  /\ UNCHANGED <<wrapped, found>>
  /\ SceneStep

Leave(S) ==
  /\ S # {}
  /\ inScene' = inScene \ S
  /\ UNCHANGED <<wrapped, adding, found>>
  /\ SceneStep

\* The scene is emptied for the next script.
RemoveSceneContent == Leave(inScene)

\* Another node adopts the proxy.
NodeAdd(k) == Leave({k} \cap inScene)

\* The table is read while the loader writes it: a data race, which may also
\* end the app.
TornLookUp(t) ==
  /\ step \in {"store", "forget"}
  /\ adding[t] = None
  /\ step' = "trapped"
  /\ UNCHANGED <<storageVars, sceneVars, loadQueue, loading, tableVars, history>>

importModel(k) ==
  /\ Alive
  /\ k \notin requested
  /\ requested' = requested \cup {k}
  /\ UNCHANGED <<answered, sceneVars, loadQueue, step, loading, tableVars, history>>

\* The callback of requestModelFromStorage, were it called.
StorageAnswers(k) ==
  /\ Alive
  /\ k \in (Stored \cap requested) \ answered
  /\ answered' = answered \cup {k}
  /\ loadQueue' = Append(loadQueue, k)
  /\ UNCHANGED <<requested, sceneVars, step, loading, tableVars, history>>
-----------------------------------------------------------------------------
(* loadGLTFQueue: one model at a time. *)

LoaderStep(from, to) ==
  /\ step = from
  /\ step' = to
  /\ UNCHANGED <<storageVars, sceneVars>>

BeginLoad ==
  /\ LoaderStep("idle", "parse")
  /\ loadQueue # << >>
  /\ loading' = Head(loadQueue)
  /\ loadQueue' = Tail(loadQueue)
  /\ UNCHANGED <<tableVars, history>>

Parsed ==
  /\ LoaderStep("parse", "store")
  /\ UNCHANGED <<loadQueue, loading, tableVars, history>>

\* catch: logged, and the callback not called.
ParseFails ==
  /\ LoaderStep("parse", "idle")
  /\ failed' = failed \cup {loading}
  /\ loading' = None
  /\ UNCHANGED <<loadQueue, tableVars, loaded, late>>

\* Faulty variant: only a model whose proxy is in the scene goes into the table.
StoreIfAdded ==
  /\ LoaderStep("store", "search")
  /\ importedModelsList' = importedModelsList \cup ({loading} \cap inScene)
  /\ UNCHANGED <<loadQueue, loading, direct, history>>

Store ==
  /\ LoaderStep("store", "search")
  /\ importedModelsList' = importedModelsList \cup {loading}
  /\ UNCHANGED <<loadQueue, loading, direct, history>>

\* The children of sceneContent, read once, have the proxy among them...
SearchFinds ==
  /\ LoaderStep("search", "attach")
  /\ loading \in inScene
  /\ UNCHANGED <<loadQueue, loading, tableVars, history>>

EndLoad ==
  /\ loading' = None
  /\ loaded' = loaded \cup {loading}
  /\ UNCHANGED <<loadQueue, direct, failed>>

\* ... or have not: the model waits in the table.
SearchFails ==
  /\ LoaderStep("search", "idle")
  /\ loading \notin inScene
  /\ EndLoad
  /\ late' = late \cup {k \in {loading} \ wrapped :
                          \E t \in Threads : adding[t] = k /\ ~found[t]}
  /\ UNCHANGED importedModelsList

\* child.addChildNode(gltfNode.childNodes[0])
Attach ==
  /\ LoaderStep("attach", "forget")
  /\ direct' = direct \cup {loading}
  /\ UNCHANGED <<loadQueue, loading, importedModelsList, history>>

\* A model without nodes has no childNodes[0].
AttachTraps ==
  /\ LoaderStep("attach", "trapped")
  /\ UNCHANGED <<loadQueue, loading, tableVars, history>>

Forget ==
  /\ LoaderStep("forget", "idle")
  /\ EndLoad
  /\ importedModelsList' = importedModelsList \ {loading}
  /\ UNCHANGED late
-----------------------------------------------------------------------------
Adds(t) == AddModel(t) \/ AddProxy(t)

JavaScript ==
  \/ \E k \in Proxies : importModel(k) \/ NodeAdd(k)
  \/ \E t \in Threads :
       \/ \E k \in Proxies : LookUp(t, k)
       \/ TornLookUp(t)
       \/ Adds(t)

Loader ==
  \/ BeginLoad \/ Parsed \/ ParseFails \/ Store
  \/ SearchFinds \/ SearchFails \/ Attach \/ AttachTraps \/ Forget

Next ==
  \/ JavaScript
  \/ RemoveSceneContent
  \/ \E k \in Proxies : StorageAnswers(k)
  \/ Loader

Spec == Init /\ [][Next]_vars
-----------------------------------------------------------------------------
(* Properties *)

\* The variables of the scene, the table and the queue hold what their types allow.
TypeOK ==
  /\ requested \subseteq Proxies
  /\ inScene \subseteq Proxies
  /\ adding \in [Threads -> Proxies \cup {None}]
  /\ found \in [Threads -> BOOLEAN]
  /\ loadQueue \in Seq(Stored)
  /\ step \in {"idle", "parse", "store", "search", "attach", "forget", "trapped"}
  /\ loading \in Stored \cup {None}
  /\ UNION {answered, wrapped, importedModelsList, direct, loaded, failed, late}
       \subseteq Stored

Shown == wrapped \cup direct

\* "This lets us add a reference to an imported model (and then use it), before
\* it has actually loaded" (Scene.swift:56), and after: once it is loaded, a
\* child of sceneContent has its model, in whichever order the two came.  Only
\* a load that falls between the two halves of one scene.add is lost.
AddedIsShown == inScene \cap loaded \subseteq Shown \cup late

\* The table keeps a model exactly until the loader has given it to its proxy:
\* what has left the table is shown, and what the loader could not place can
\* still be found by scene.add.
TableKeepsTheRest == loaded \ importedModelsList = direct \cap loaded
=============================================================================
