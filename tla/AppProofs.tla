------------------------------ MODULE AppProofs ------------------------------
(***************************************************************************)
(* Proofs about the parts of the app that MCApp puts side by side:         *)
(* animations and their completions, imported models, the way of a script  *)
(* from the editor to the list, and its token.  They hold for any number   *)
(* of animations, models, threads, scripts and lists, and any radix.       *)
(***************************************************************************)
EXTENDS MCApp, TLAPS, NaturalsInduction, WellFoundedInduction, SequenceTheorems

-----------------------------------------------------------------------------
(* Animations *)

\* The animation has been started, and has a completion to be called.
HasCompletion(a) == anim[a] # None /\ anim[a].onComplete # "null"

\* A completion is in one place at a time: with its action, as the block of one
\* transaction, due, or called.
RunningStarted == \A a \in running : anim[a] # None

DueOnce ==
  \A a \in due : /\ HasCompletion(a) /\ called[a] = 0
                 /\ anim[a].kind = "action" => a \notin running

BlocksOnce ==
  \A t \in Anim!Threads : \A a \in Animations :
    current[t] = a =>
      /\ HasCompletion(a) /\ anim[a].kind = "transaction"
      /\ a \notin due /\ called[a] = 0
      /\ \A s \in Anim!Threads : current[s] = a => s = t

CalledOnce ==
  \A a \in Animations :
    called[a] # 0 => /\ called[a] = 1 /\ HasCompletion(a)
                     /\ anim[a].kind = "action" => a \notin running

OnePlace == RunningStarted /\ DueOnce /\ BlocksOnce /\ CalledOnce

AnimInv == Anim!TypeOK /\ OnePlace

LEMMA AnimInit == Anim!Init => AnimInv
<1> SUFFICES ASSUME Anim!Init PROVE AnimInv
  OBVIOUS
<1>1. Anim!TypeOK
  BY DEF Anim!Init, Anim!TypeOK
<1>2. OnePlace
  <2>1. None \notin Animations
    BY AppAssumption DEF Anim!AnimationAssumption
  <2> QED
    BY <2>1 DEF Anim!Init, OnePlace, RunningStarted, DueOnce, BlocksOnce, CalledOnce
<1> QED
  BY <1>1, <1>2 DEF AnimInv

\* Before it is started, an animation is nowhere.
LEMMA NotStarted ==
  ASSUME AnimInv, NEW a \in Animations, anim[a] = None
  PROVE  /\ a \notin running /\ a \notin due /\ called[a] = 0
         /\ \A t \in Anim!Threads : current[t] # a
BY DEF AnimInv, OnePlace, RunningStarted, DueOnce, BlocksOnce, CalledOnce, HasCompletion

\* A record is not the sign that there is none.
LEMMA StartTyped ==
  ASSUME AnimInv, NEW a \in Animations, NEW k \in {"action", "transaction"}, NEW n \in Nodes,
         NEW f \in Arguments, Anim!Start(a, k, n, f)
  PROVE  /\ anim' \in [Animations -> Anim!AnimationRecord \union {None}]
         /\ anim'[a] # None /\ anim'[a].kind = k /\ anim'[a].onComplete = f
         /\ \A b \in Animations : b # a => anim'[b] = anim[b]
         /\ running' \subseteq Animations /\ running' = running \union {a}
         /\ anim[a] = None /\ UNCHANGED <<inScene, calling, called>>
<1> DEFINE r == [kind |-> k, node |-> n, onComplete |-> f]
<1>1. r \in Anim!AnimationRecord /\ r.kind = k /\ r.onComplete = f
  BY DEF Anim!AnimationRecord
<1>2. anim' = [anim EXCEPT ![a] = r]
  BY DEF Anim!Start
<1> HIDE DEF r
<1>3. r # None
  BY <1>1, AppAssumption DEF Anim!AnimationAssumption
<1> QED
  BY <1>1, <1>2, <1>3 DEF AnimInv, Anim!TypeOK, Anim!Start

LEMMA RunKeeps ==
  ASSUME AnimInv, NEW t \in Anim!Threads, NEW a \in Animations, NEW n \in Nodes,
         NEW f \in Arguments, Anim!Run(t, a, n, f)
  PROVE  AnimInv'
<1>1. Anim!Start(a, "action", n, f) /\ UNCHANGED <<current, due>>
  BY DEF Anim!Run
<1>2. /\ anim' \in [Animations -> Anim!AnimationRecord \union {None}]
      /\ anim'[a] # None /\ anim'[a].kind = "action" /\ anim'[a].onComplete = f
      /\ \A b \in Animations : b # a => anim'[b] = anim[b]
      /\ running' \subseteq Animations /\ running' = running \union {a}
      /\ anim[a] = None /\ UNCHANGED <<inScene, calling, called>>
  BY <1>1, StartTyped
<1>3. /\ a \notin running /\ a \notin due /\ called[a] = 0
      /\ \A s \in Anim!Threads : current[s] # a
  BY <1>2, NotStarted
<1>4. Anim!TypeOK'
  BY <1>1, <1>2 DEF AnimInv, Anim!TypeOK
<1>5. RunningStarted' /\ DueOnce'
  BY <1>1, <1>2, <1>3 DEF AnimInv, OnePlace, RunningStarted, DueOnce, HasCompletion, Anim!TypeOK
<1>6. BlocksOnce'
  BY <1>1, <1>2, <1>3 DEF AnimInv, OnePlace, BlocksOnce, HasCompletion
<1>7. CalledOnce'
  BY <1>1, <1>2, <1>3 DEF AnimInv, OnePlace, CalledOnce, HasCompletion
<1> QED
  BY <1>4, <1>5, <1>6, <1>7 DEF AnimInv, OnePlace

LEMMA TranslationKeeps ==
  ASSUME AnimInv, NEW t \in Anim!Threads, NEW a \in Animations, NEW n \in Nodes,
         NEW f \in Arguments, Anim!animateLocalTranslation(t, a, n, f)
  PROVE  AnimInv'
<1>1. /\ Anim!Start(a, "transaction", n, f)
      /\ IF f = "null" THEN UNCHANGED <<current, due>>
         ELSE /\ current' = [current EXCEPT ![t] = a]
              /\ due' = due \/ due' = due \union ({current[t]} \ {None})
  BY DEF Anim!animateLocalTranslation, Anim!SetCompletionBlock, Anim!isNull
<1>2. /\ anim' \in [Animations -> Anim!AnimationRecord \union {None}]
      /\ anim'[a] # None /\ anim'[a].kind = "transaction" /\ anim'[a].onComplete = f
      /\ \A b \in Animations : b # a => anim'[b] = anim[b]
      /\ running' \subseteq Animations /\ running' = running \union {a}
      /\ anim[a] = None /\ UNCHANGED <<inScene, calling, called>>
  BY <1>1, StartTyped
<1>3. /\ a \notin running /\ a \notin due /\ called[a] = 0
      /\ \A s \in Anim!Threads : current[s] # a
  BY <1>2, NotStarted
<1>4. /\ due' \subseteq due \union {current[t]} /\ due' \subseteq Animations
      /\ current' \in [Anim!Threads -> Animations \union {None}]
      /\ \A s \in Anim!Threads : current'[s] = current[s] \/ (s = t /\ current'[s] = a /\ f # "null")
      /\ current[t] \in due' => current[t] \in due \/ current'[t] = a
  BY <1>1 DEF AnimInv, Anim!TypeOK
<1>5. Anim!TypeOK'
  BY <1>2, <1>4 DEF AnimInv, Anim!TypeOK
<1>6. RunningStarted'
  BY <1>2 DEF AnimInv, OnePlace, RunningStarted, Anim!TypeOK
<1>7. DueOnce'
  <2> SUFFICES ASSUME NEW b \in due'
               PROVE  /\ HasCompletion(b)' /\ called'[b] = 0
                      /\ anim'[b].kind = "action" => b \notin running'
    BY DEF DueOnce
  <2>1. b \in Animations /\ (b \in due \/ b = current[t])
    BY <1>4
  <2>2. b # a
    BY <1>3, <2>1
  <2>3. CASE b \in due
    BY <1>2, <2>1, <2>2, <2>3 DEF AnimInv, OnePlace, DueOnce, HasCompletion
  <2>4. CASE b = current[t]
    BY <1>2, <2>1, <2>2, <2>4 DEF AnimInv, OnePlace, BlocksOnce, HasCompletion
  <2> QED
    BY <2>1, <2>3, <2>4
<1>8. BlocksOnce'
  <2> SUFFICES ASSUME NEW s \in Anim!Threads, NEW b \in Animations, current'[s] = b
               PROVE  /\ HasCompletion(b)' /\ anim'[b].kind = "transaction"
                      /\ b \notin due' /\ called'[b] = 0
                      /\ \A u \in Anim!Threads : current'[u] = b => u = s
    BY DEF BlocksOnce
  <2>1. CASE b = a
    BY <1>2, <1>3, <1>4, <2>1 DEF HasCompletion
  <2>2. CASE b # a
    <3>1. /\ current[s] = b /\ HasCompletion(b) /\ anim[b].kind = "transaction"
          /\ b \notin due /\ called[b] = 0
          /\ \A u \in Anim!Threads : current[u] = b => u = s
      BY <1>4, <2>2 DEF AnimInv, OnePlace, BlocksOnce
    <3>2. b \notin due'
      BY <1>4, <2>2, <3>1
    <3> QED
      BY <1>2, <1>4, <2>2, <3>1, <3>2 DEF HasCompletion
  <2> QED
    BY <2>1, <2>2
<1>9. CalledOnce'
  BY <1>2, <1>3 DEF AnimInv, OnePlace, CalledOnce, HasCompletion
<1> QED
  BY <1>5, <1>6, <1>7, <1>8, <1>9 DEF AnimInv, OnePlace

\* The scene comes and goes, completions return.
LEMMA SceneKeeps ==
  ASSUME AnimInv, UNCHANGED <<anim, running, current, due, called>>,
         inScene' \subseteq Nodes, calling' \subseteq Animations
  PROVE  AnimInv'
BY DEF AnimInv, Anim!TypeOK, OnePlace, RunningStarted, DueOnce, BlocksOnce, CalledOnce, HasCompletion

LEMMA EndsKeep ==
  ASSUME AnimInv, NEW a \in Animations, Anim!Ends(a)
  PROVE  AnimInv'
<1>1. /\ a \in running /\ running' = running \ {a} /\ anim[a] # None
      /\ UNCHANGED <<anim, inScene, current, calling, called>>
      /\ \/ due' = due
         \/ anim[a].kind = "action" /\ anim[a].onComplete # "null" /\ due' = due \union {a}
  BY DEF AnimInv, OnePlace, RunningStarted, Anim!Ends, Anim!ActionEnds, Anim!TransactionEnds,
     Anim!Completion, Anim!isNull
<1>2. Anim!TypeOK'
  BY <1>1 DEF AnimInv, Anim!TypeOK
<1>3. RunningStarted' /\ CalledOnce'
  BY <1>1 DEF AnimInv, OnePlace, RunningStarted, CalledOnce, HasCompletion
<1>4. due' # due => called[a] = 0
  BY <1>1 DEF AnimInv, OnePlace, CalledOnce
<1>5. DueOnce'
  BY <1>1, <1>4 DEF AnimInv, OnePlace, DueOnce, HasCompletion
<1>6. BlocksOnce'
  BY <1>1 DEF AnimInv, OnePlace, BlocksOnce, HasCompletion
<1> QED
  BY <1>2, <1>3, <1>5, <1>6 DEF AnimInv, OnePlace

LEMMA FlushKeeps ==
  ASSUME AnimInv, NEW t \in Anim!Threads, Anim!Flush(t)
  PROVE  AnimInv'
<1>1. /\ current[t] \in Animations /\ due' = due \union {current[t]}
      /\ current' = [current EXCEPT ![t] = None]
      /\ UNCHANGED <<anim, running, inScene, calling, called>>
  BY DEF AnimInv, Anim!TypeOK, Anim!Flush
<1>2. Anim!TypeOK'
  BY <1>1 DEF AnimInv, Anim!TypeOK
<1>3. RunningStarted' /\ CalledOnce'
  BY <1>1 DEF AnimInv, OnePlace, RunningStarted, CalledOnce, HasCompletion
<1>4. DueOnce'
  BY <1>1 DEF AnimInv, OnePlace, DueOnce, BlocksOnce, HasCompletion
<1>5. BlocksOnce'
  <2>1. None \notin Animations
    BY AppAssumption DEF Anim!AnimationAssumption
  <2>2. \A s \in Anim!Threads : current'[s] = None \/ (s # t /\ current'[s] = current[s])
    BY <1>1 DEF AnimInv, Anim!TypeOK
  <2> QED
    BY <1>1, <2>1, <2>2 DEF AnimInv, OnePlace, BlocksOnce, HasCompletion
<1> QED
  BY <1>2, <1>3, <1>4, <1>5 DEF AnimInv, OnePlace

LEMMA CallsKeep ==
  ASSUME AnimInv, NEW a \in Animations, Anim!Calls(a)
  PROVE  AnimInv'
<1>1. /\ a \in due /\ due' = due \ {a} /\ called' = [called EXCEPT ![a] = @ + 1]
      /\ calling' \subseteq Animations
      /\ UNCHANGED <<anim, running, inScene, current>>
  BY DEF AnimInv, Anim!TypeOK, Anim!Calls, Anim!CallFunction, Anim!CallFails
<1>2. /\ called[a] = 0 /\ HasCompletion(a) /\ (anim[a].kind = "action" => a \notin running)
      /\ \A t \in Anim!Threads : current[t] # a
  BY <1>1 DEF AnimInv, OnePlace, DueOnce, BlocksOnce
<1>3. /\ called' \in [Animations -> Nat] /\ called'[a] = 1
      /\ \A b \in Animations : b # a => called'[b] = called[b]
  BY <1>1, <1>2 DEF AnimInv, Anim!TypeOK
<1>4. Anim!TypeOK'
  BY <1>1, <1>3 DEF AnimInv, Anim!TypeOK
<1>5. RunningStarted' /\ DueOnce'
  BY <1>1, <1>3 DEF AnimInv, OnePlace, RunningStarted, DueOnce, HasCompletion, Anim!TypeOK
<1>6. BlocksOnce'
  BY <1>1, <1>2, <1>3 DEF AnimInv, OnePlace, BlocksOnce, HasCompletion
<1>7. CalledOnce'
  BY <1>1, <1>2, <1>3 DEF AnimInv, OnePlace, CalledOnce, HasCompletion
<1> QED
  BY <1>4, <1>5, <1>6, <1>7 DEF AnimInv, OnePlace

LEMMA AnimStep ==
  ASSUME AnimInv, Anim!Next \/ UNCHANGED animVars
  PROVE  AnimInv'
<1>1. CASE Anim!JavaScript
  <2>1. ASSUME NEW n \in Nodes, Anim!SceneAdd(n) PROVE AnimInv'
    BY <2>1, SceneKeeps DEF AnimInv, Anim!TypeOK, Anim!SceneAdd
  <2> QED
    BY <1>1, <2>1, RunKeeps, TranslationKeeps DEF Anim!JavaScript
<1>2. CASE Anim!RemoveSceneContent
  BY <1>2, SceneKeeps DEF AnimInv, Anim!TypeOK, Anim!RemoveSceneContent
<1>3. CASE Anim!SceneKit
  <2>1. ASSUME NEW a \in Animations, Anim!CallReturns(a) PROVE AnimInv'
    BY <2>1, SceneKeeps DEF AnimInv, Anim!TypeOK, Anim!CallReturns
  <2> QED
    BY <1>3, <2>1, EndsKeep, CallsKeep, FlushKeeps DEF Anim!SceneKit
<1>4. CASE UNCHANGED animVars
  BY <1>4, SceneKeeps DEF animVars, AnimInv, Anim!TypeOK
<1> QED
  BY <1>1, <1>2, <1>3, <1>4 DEF Anim!Next

\* One animation calls back at most once, one started with null never, and an
\* SCNAction (Node.run) not before it has ended, whatever its completions start
\* and whichever blocks replace each other.
THEOREM CompletionsComeOnce == Spec => []CompletedOnce
<1>1. Init => AnimInv
  BY AnimInit DEF Init
<1>2. AnimInv /\ [Next]_vars => AnimInv'
  BY AnimStep DEF Next, vars
<1>3. AnimInv => CompletedOnce
  BY DEF AnimInv, OnePlace, CalledOnce, HasCompletion, CompletedOnce, Anim!CompletedOnce,
     Anim!TypeOK, Anim!isNull
<1> QED
  BY <1>1, <1>2, <1>3, PTL DEF Spec

-----------------------------------------------------------------------------
(* Imported models *)

\* A model is in the queue, with the loader, or done with, and was asked for once.
QueueOnce ==
  /\ \A i \in 1..Len(loadQueue) : loadQueue[i] \in answered \ (loaded \union failed \union {loading})
  /\ \A i, j \in 1..Len(loadQueue) : loadQueue[i] = loadQueue[j] => i = j

\* What the loader has done so far with the model it is at.
AtLoader ==
  /\ step = "idle" => loading = None
  /\ step \notin {"idle", "trapped"} => loading \in answered \ (loaded \union failed)
  /\ step \in {"parse", "store"} => loading \notin importedModelsList
  /\ step \in {"search", "attach", "forget"} => loading \in importedModelsList
  /\ step \in {"parse", "store", "search", "attach"} => loading \notin direct
  /\ step = "forget" => loading \in direct

\* The table and the scene have models the loader has finished with, or is at.
OnlyLoaded ==
  /\ importedModelsList \subseteq loaded \union {loading}
  /\ direct \subseteq loaded \union {loading}
  /\ loaded \union failed \subseteq answered

\* A scene.add that did not find the model in the table: it was shown before,
\* or came between the two halves.
SceneMeets ==
  /\ placed \intersect loaded \subseteq wrapped \union direct \union late
  /\ \A t \in JSThreads :
       /\ found[t] => adding[t] \in Stored
       /\ ~ found[t] /\ adding[t] \in loaded => adding[t] \in wrapped \union direct \union late

ImportInv ==
  Import!TypeOK /\ QueueOnce /\ AtLoader /\ OnlyLoaded /\ SceneMeets /\ Import!TableKeepsTheRest

LEMMA NoneStored == None \notin Proxies /\ None \notin Stored /\ Stored \subseteq Proxies
  BY AppAssumption DEF Import!ImportAssumption

LEMMA ImportInit == Import!Init => ImportInv
<1> SUFFICES ASSUME Import!Init PROVE ImportInv
  OBVIOUS
<1>1. Len(loadQueue) = 0 /\ loadQueue \in Seq(Stored)
  BY DEF Import!Init
<1>2. Import!TypeOK
  BY <1>1 DEF Import!Init, Import!TypeOK
<1>3. QueueOnce
  BY <1>1 DEF QueueOnce
<1>4. AtLoader /\ OnlyLoaded /\ Import!TableKeepsTheRest
  BY DEF Import!Init, AtLoader, OnlyLoaded, Import!TableKeepsTheRest
<1>5. SceneMeets
  BY DEF Import!Init, SceneMeets
<1> QED
  BY <1>2, <1>3, <1>4, <1>5 DEF ImportInv

\* The types that a step of JavaScript leaves as they are.
LEMMA SceneStepKeeps ==
  ASSUME ImportInv, Import!SceneStep, placed' \subseteq Proxies, wrapped' \subseteq Stored,
         adding' \in [JSThreads -> Proxies \union {None}], found' \in [JSThreads -> BOOLEAN],
         SceneMeets'
  PROVE  ImportInv'
<1>1. /\ UNCHANGED <<requested, answered, loadQueue, step, loading, importedModelsList, direct>>
      /\ UNCHANGED <<loaded, failed, late>>
  BY DEF Import!SceneStep, Import!storageVars, Import!tableVars, Import!history
<1>2. Import!TypeOK'
  BY <1>1 DEF ImportInv, Import!TypeOK
<1>3. QueueOnce' /\ AtLoader' /\ OnlyLoaded' /\ Import!TableKeepsTheRest'
  BY <1>1 DEF ImportInv, QueueOnce, AtLoader, OnlyLoaded, Import!TableKeepsTheRest
<1> QED
  BY <1>2, <1>3 DEF ImportInv

LEMMA LookUpKeeps ==
  ASSUME ImportInv, NEW t \in JSThreads, NEW k \in Proxies, Import!LookUp(t, k)
  PROVE  ImportInv'
<1>1. /\ adding' = [adding EXCEPT ![t] = k] /\ found' = [found EXCEPT ![t] = k \in importedModelsList]
      /\ UNCHANGED <<placed, wrapped, direct, loaded, late>> /\ Import!SceneStep
  BY DEF Import!LookUp, Import!SceneStep, Import!tableVars, Import!history
<1>2. /\ adding' \in [JSThreads -> Proxies \union {None}] /\ adding'[t] = k
      /\ \A s \in JSThreads : s # t => adding'[s] = adding[s]
  BY <1>1 DEF ImportInv, Import!TypeOK
<1>3. found' \in [JSThreads -> BOOLEAN]
  BY <1>1 DEF ImportInv, Import!TypeOK
<1>7. /\ found'[t] = (k \in importedModelsList)
      /\ \A s \in JSThreads : s # t => found'[s] = found[s]
  BY <1>1 DEF ImportInv, Import!TypeOK
<1>4. importedModelsList \subseteq Stored /\ placed \subseteq Proxies /\ wrapped \subseteq Stored
  BY DEF ImportInv, Import!TypeOK
<1>5. k \notin importedModelsList /\ k \in loaded => k \in direct
  BY DEF ImportInv, Import!TableKeepsTheRest
<1>6. SceneMeets'
  <2>1. placed' \intersect loaded' \subseteq wrapped' \union direct' \union late'
    BY <1>1 DEF ImportInv, SceneMeets
  <2>2. ASSUME NEW s \in JSThreads
        PROVE  /\ found'[s] => adding'[s] \in Stored
               /\ ~ found'[s] /\ adding'[s] \in loaded => adding'[s] \in wrapped \union direct \union late
    <3>1. CASE s = t
      BY <1>2, <1>4, <1>5, <1>7, <3>1
    <3>2. CASE s # t
      BY <1>2, <1>7, <3>2 DEF ImportInv, SceneMeets
    <3> QED
      BY <3>1, <3>2
  <2> QED
    BY <1>1, <2>1, <2>2 DEF SceneMeets
<1> QED
  <2>1. placed' \subseteq Proxies /\ wrapped' \subseteq Stored
    BY <1>1, <1>4
  <2> QED
    BY <1>1, <1>2, <1>3, <1>6, <2>1, SceneStepKeeps

LEMMA AddModelKeeps ==
  ASSUME ImportInv, NEW t \in JSThreads, Import!AddModel(t)
  PROVE  ImportInv'
<1>1. /\ found[t] /\ wrapped' = wrapped \union {adding[t]} /\ found' = [found EXCEPT ![t] = FALSE]
      /\ UNCHANGED <<placed, adding, direct, loaded, late>> /\ Import!SceneStep
  BY DEF Import!AddModel, Import!SceneStep, Import!tableVars, Import!history
<1>2. adding[t] \in Stored /\ wrapped' \subseteq Stored
  BY <1>1 DEF ImportInv, SceneMeets, Import!TypeOK
<1>3. /\ found' \in [JSThreads -> BOOLEAN] /\ ~ found'[t]
      /\ \A s \in JSThreads : s # t => found'[s] = found[s]
  BY <1>1 DEF ImportInv, Import!TypeOK
<1>4. SceneMeets'
  BY <1>1, <1>3 DEF ImportInv, SceneMeets
<1> QED
  BY <1>1, <1>2, <1>3, <1>4, SceneStepKeeps DEF ImportInv, Import!TypeOK

LEMMA AddProxyKeeps ==
  ASSUME ImportInv, NEW t \in JSThreads, Import!AddProxy(t)
  PROVE  ImportInv'
<1>1. /\ adding[t] # None /\ ~ found[t] /\ placed' = placed \union {adding[t]}
      /\ adding' = [adding EXCEPT ![t] = None]
      /\ UNCHANGED <<wrapped, found, direct, loaded, late>> /\ Import!SceneStep
  BY DEF Import!AddProxy, Import!SceneStep, Import!tableVars, Import!history
<1>2. /\ adding[t] \in Proxies /\ placed' \subseteq Proxies
      /\ adding' \in [JSThreads -> Proxies \union {None}] /\ adding'[t] = None
      /\ \A s \in JSThreads : s # t => adding'[s] = adding[s]
  BY <1>1 DEF ImportInv, Import!TypeOK
<1>3. None \notin loaded
  BY NoneStored DEF ImportInv, Import!TypeOK
<1>4. SceneMeets'
  <2>1. placed' \intersect loaded \subseteq wrapped \union direct \union late
    BY <1>1 DEF ImportInv, SceneMeets
  <2> QED
    BY <1>1, <1>2, <1>3, <2>1 DEF ImportInv, SceneMeets
<1> QED
  BY <1>1, <1>2, <1>4, SceneStepKeeps DEF ImportInv, Import!TypeOK

LEMMA LeaveKeeps ==
  ASSUME ImportInv, NEW S, Import!Leave(S)
  PROVE  ImportInv'
<1>1. placed' = placed \ S /\ UNCHANGED <<wrapped, adding, found, direct, loaded, late>> /\ Import!SceneStep
  BY DEF Import!Leave, Import!SceneStep, Import!tableVars, Import!history
<1>2. SceneMeets'
  BY <1>1 DEF ImportInv, SceneMeets
<1> QED
  BY <1>1, <1>2, SceneStepKeeps DEF ImportInv, Import!TypeOK

\* Asked for, answered, or stopped.
LEMMA RequestsKeep ==
  ASSUME ImportInv,
         \/ \E k \in Proxies : Import!importModel(k) \/ Import!StorageAnswers(k)
         \/ \E t \in JSThreads : Import!TornLookUp(t)
  PROVE  ImportInv'
<1>1. ASSUME NEW k \in Proxies, Import!importModel(k) PROVE ImportInv'
  BY <1>1 DEF Import!importModel, Import!sceneVars, Import!tableVars, Import!history, ImportInv,
     Import!TypeOK, QueueOnce, AtLoader, OnlyLoaded, SceneMeets, Import!TableKeepsTheRest
<1>2. ASSUME NEW t \in JSThreads, Import!TornLookUp(t) PROVE ImportInv'
  BY <1>2 DEF Import!TornLookUp, Import!storageVars, Import!sceneVars, Import!tableVars,
     Import!history, ImportInv, Import!TypeOK, QueueOnce, AtLoader, OnlyLoaded, SceneMeets,
     Import!TableKeepsTheRest
<1>3. ASSUME NEW k \in Proxies, Import!StorageAnswers(k) PROVE ImportInv'
  <2>1. /\ k \in Stored /\ k \notin answered /\ answered' = answered \union {k}
        /\ loadQueue' = Append(loadQueue, k)
        /\ UNCHANGED <<requested, placed, wrapped, adding, found, step, loading>>
        /\ UNCHANGED <<importedModelsList, direct, loaded, failed, late>>
        /\ step # "trapped"
    BY <1>3 DEF Import!StorageAnswers, Import!Alive, Import!sceneVars, Import!tableVars, Import!history
  <2>2. loadQueue \in Seq(Stored) /\ Len(loadQueue) \in Nat
    BY LenProperties DEF ImportInv, Import!TypeOK
  <2> DEFINE q == loadQueue'
  <2>3. /\ q \in Seq(Stored) /\ Len(q) = Len(loadQueue) + 1
        /\ \A i \in 1..Len(loadQueue) : q[i] = loadQueue[i]
        /\ q[Len(loadQueue) + 1] = k
    BY <2>1, <2>2, AppendProperties
  <2> HIDE DEF q
  <2>4. Import!TypeOK'
    BY <2>1, <2>3 DEF ImportInv, Import!TypeOK, q
  <2>5. k \notin loaded \union failed \union {loading}
    <3>1. loaded \subseteq answered /\ failed \subseteq answered
      BY DEF ImportInv, OnlyLoaded
    <3>2. loading \in answered \union {None}
      BY <2>1 DEF ImportInv, AtLoader
    <3> QED
      BY <2>1, <3>1, <3>2, NoneStored
  <2>6. QueueOnce'
    BY <2>1, <2>2, <2>3, <2>5 DEF ImportInv, QueueOnce, q
  <2>7. AtLoader' /\ OnlyLoaded' /\ SceneMeets' /\ Import!TableKeepsTheRest'
    BY <2>1 DEF ImportInv, AtLoader, OnlyLoaded, SceneMeets, Import!TableKeepsTheRest
  <2> QED
    BY <2>4, <2>6, <2>7 DEF ImportInv
<1> QED
  BY <1>1, <1>2, <1>3

\* Types that a step of the loader has to keep.
LEMMA LoaderTypes ==
  ASSUME ImportInv, UNCHANGED <<requested, answered, placed, wrapped, adding, found>>,
         loadQueue' \in Seq(Stored), loading' \in Stored \union {None},
         step' \in {"idle", "parse", "store", "search", "attach", "forget", "trapped"},
         importedModelsList' \union direct' \union loaded' \union failed' \union late' \subseteq Stored
  PROVE  Import!TypeOK'
BY DEF ImportInv, Import!TypeOK

LEMMA BeginLoadKeeps ==
  ASSUME ImportInv, Import!BeginLoad
  PROVE  ImportInv'
<1>1. /\ step = "idle" /\ step' = "parse" /\ loadQueue # << >>
      /\ loading' = Head(loadQueue) /\ loadQueue' = Tail(loadQueue)
      /\ UNCHANGED <<requested, answered, placed, wrapped, adding, found>>
      /\ UNCHANGED <<importedModelsList, direct, loaded, failed, late>>
  BY DEF Import!BeginLoad, Import!LoaderStep, Import!storageVars, Import!sceneVars,
     Import!tableVars, Import!history
<1>2. loadQueue \in Seq(Stored) /\ Len(loadQueue) \in Nat
  BY LenProperties DEF ImportInv, Import!TypeOK
<1> DEFINE q == loadQueue'
<1>3. /\ q \in Seq(Stored) /\ Len(q) = Len(loadQueue) - 1
      /\ \A i \in 1..Len(q) : q[i] = loadQueue[i + 1]
  BY <1>1, <1>2, HeadTailProperties
<1>4. Len(loadQueue) >= 1 /\ loading' = loadQueue[1] /\ loading' \in Stored
  <2>1. Len(loadQueue) # 0
    BY <1>1, <1>2, EmptySeq
  <2> QED
    BY <1>1, <1>2, <2>1, ElementOfSeq
<1> HIDE DEF q
<1>5. loading' \in answered \ (loaded \union failed)
  BY <1>2, <1>4 DEF ImportInv, QueueOnce
<1>6. Import!TypeOK'
  BY <1>1, <1>3, <1>4, LoaderTypes DEF q, ImportInv, Import!TypeOK
<1>7. QueueOnce'
  <2>1. \A i \in 1..Len(q) : i + 1 \in 1..Len(loadQueue) /\ i + 1 # 1
    BY <1>2, <1>3
  <2>2. \A i \in 1..Len(q) : q[i] \in answered \ (loaded \union failed) /\ q[i] # loading'
    BY <1>2, <1>3, <1>4, <2>1 DEF ImportInv, QueueOnce
  <2>3. ASSUME NEW i \in 1..Len(q), NEW j \in 1..Len(q), q[i] = q[j] PROVE i = j
    <3>1. loadQueue[i + 1] = loadQueue[j + 1]
      BY <1>3, <2>3
    <3>2. i + 1 = j + 1
      BY <2>1, <3>1 DEF ImportInv, QueueOnce
    <3> QED
      BY <3>2
  <2> QED
    BY <1>1, <2>2, <2>3 DEF QueueOnce, q
<1>8. loading = None /\ None \notin importedModelsList /\ None \notin direct
  BY <1>1, NoneStored DEF ImportInv, AtLoader, Import!TypeOK
<1>9. AtLoader' /\ OnlyLoaded'
  BY <1>1, <1>5, <1>8 DEF ImportInv, AtLoader, OnlyLoaded
<1>10. SceneMeets' /\ Import!TableKeepsTheRest'
  BY <1>1 DEF ImportInv, SceneMeets, Import!TableKeepsTheRest
<1> QED
  BY <1>6, <1>7, <1>9, <1>10 DEF ImportInv

\* The loader is at a model that was answered, in every step but idle.
LEMMA Loading ==
  ASSUME ImportInv, step \notin {"idle", "trapped"}
  PROVE  loading \in Stored /\ loading \in answered \ (loaded \union failed) /\ loading # None
BY NoneStored DEF ImportInv, AtLoader, Import!TypeOK

LEMMA StoreKeeps ==
  ASSUME ImportInv, Import!Parsed \/ Import!Store \/ Import!SearchFinds \/ Import!AttachTraps
  PROVE  ImportInv'
<1>1. /\ step \in {"parse", "store", "search", "attach"}
      /\ UNCHANGED <<requested, answered, placed, wrapped, adding, found, loadQueue, loading>>
      /\ UNCHANGED <<direct, loaded, failed, late>>
      /\ \/ step = "parse" /\ step' = "store" /\ importedModelsList' = importedModelsList
         \/ /\ step = "store" /\ step' = "search"
            /\ importedModelsList' = importedModelsList \union {loading}
         \/ step = "search" /\ step' = "attach" /\ importedModelsList' = importedModelsList
         \/ step = "attach" /\ step' = "trapped" /\ importedModelsList' = importedModelsList
  BY DEF Import!Parsed, Import!Store, Import!SearchFinds, Import!AttachTraps, Import!LoaderStep,
     Import!storageVars, Import!sceneVars, Import!tableVars, Import!history
<1>2. loading \in Stored /\ loading \in answered \ (loaded \union failed)
  BY <1>1, Loading
<1>3. Import!TypeOK'
  BY <1>1, <1>2, LoaderTypes DEF ImportInv, Import!TypeOK
<1>4. QueueOnce' /\ AtLoader' /\ OnlyLoaded'
  BY <1>1, <1>2 DEF ImportInv, QueueOnce, AtLoader, OnlyLoaded
<1>5. SceneMeets' /\ Import!TableKeepsTheRest'
  BY <1>1, <1>2 DEF ImportInv, SceneMeets, Import!TableKeepsTheRest
<1> QED
  BY <1>3, <1>4, <1>5 DEF ImportInv

LEMMA AttachKeeps ==
  ASSUME ImportInv, Import!Attach
  PROVE  ImportInv'
<1>1. /\ step = "attach" /\ step' = "forget" /\ direct' = direct \union {loading}
      /\ UNCHANGED <<requested, answered, placed, wrapped, adding, found, loadQueue, loading>>
      /\ UNCHANGED <<importedModelsList, loaded, failed, late>>
  BY DEF Import!Attach, Import!LoaderStep, Import!storageVars, Import!sceneVars, Import!history
<1>2. loading \in Stored /\ loading \in answered \ (loaded \union failed)
  BY <1>1, Loading
<1>3. Import!TypeOK'
  BY <1>1, <1>2, LoaderTypes DEF ImportInv, Import!TypeOK
<1>4. QueueOnce' /\ AtLoader' /\ OnlyLoaded'
  BY <1>1, <1>2 DEF ImportInv, QueueOnce, AtLoader, OnlyLoaded
<1>5. SceneMeets' /\ Import!TableKeepsTheRest'
  BY <1>1, <1>2 DEF ImportInv, SceneMeets, Import!TableKeepsTheRest
<1> QED
  BY <1>3, <1>4, <1>5 DEF ImportInv

LEMMA ParseFailsKeeps ==
  ASSUME ImportInv, Import!ParseFails
  PROVE  ImportInv'
<1>1. /\ step = "parse" /\ step' = "idle" /\ failed' = failed \union {loading} /\ loading' = None
      /\ UNCHANGED <<requested, answered, placed, wrapped, adding, found, loadQueue>>
      /\ UNCHANGED <<importedModelsList, direct, loaded, late>>
  BY DEF Import!ParseFails, Import!LoaderStep, Import!storageVars, Import!sceneVars, Import!tableVars
<1>2. loading \in Stored /\ loading \in answered \ (loaded \union failed)
  BY <1>1, Loading
<1>3. Import!TypeOK'
  BY <1>1, <1>2, LoaderTypes DEF ImportInv, Import!TypeOK
<1>4. QueueOnce'
  <2>1. \A i \in 1..Len(loadQueue) : loadQueue[i] # None
    BY NoneStored DEF ImportInv, QueueOnce, Import!TypeOK
  <2> QED
    BY <1>1, <2>1 DEF ImportInv, QueueOnce
<1>5. AtLoader' /\ OnlyLoaded'
  BY <1>1, <1>2 DEF ImportInv, AtLoader, OnlyLoaded
<1>6. SceneMeets' /\ Import!TableKeepsTheRest'
  BY <1>1 DEF ImportInv, SceneMeets, Import!TableKeepsTheRest
<1> QED
  BY <1>3, <1>4, <1>5, <1>6 DEF ImportInv

\* The loader has finished with a model: its proxy has it, or scene.add can find it.
LEMMA EndLoadKeeps ==
  ASSUME ImportInv, Import!SearchFails \/ Import!Forget
  PROVE  ImportInv'
<1>1. /\ step \in {"search", "forget"} /\ step' = "idle" /\ loading' = None
      /\ loaded' = loaded \union {loading}
      /\ UNCHANGED <<requested, answered, placed, wrapped, adding, found, loadQueue, direct, failed>>
  BY DEF Import!SearchFails, Import!Forget, Import!EndLoad, Import!LoaderStep, Import!storageVars,
     Import!sceneVars
<1>2. \/ /\ step = "search" /\ loading \notin placed /\ importedModelsList' = importedModelsList
         /\ late' = late \union {k \in {loading} \ wrapped :
                                   \E t \in JSThreads : adding[t] = k /\ ~found[t]}
      \/ step = "forget" /\ importedModelsList' = importedModelsList \ {loading} /\ late' = late
  BY DEF Import!SearchFails, Import!Forget, Import!EndLoad, Import!LoaderStep
<1>3. loading \in Stored /\ loading \in answered \ (loaded \union failed)
  BY <1>1, Loading
<1>4. late' \subseteq late \union {loading} /\ late \subseteq late'
  BY <1>2
<1>5. Import!TypeOK'
  <2>1. importedModelsList' \subseteq importedModelsList
    BY <1>2
  <2> QED
    BY <1>1, <1>3, <1>4, <2>1, LoaderTypes DEF ImportInv, Import!TypeOK
<1>6. QueueOnce'
  <2>1. \A i \in 1..Len(loadQueue) : loadQueue[i] # None /\ loadQueue[i] # loading
    <3>1. None \notin answered
      BY NoneStored DEF ImportInv, Import!TypeOK
    <3> QED
      BY <3>1 DEF ImportInv, QueueOnce
  <2> QED
    BY <1>1, <2>1 DEF ImportInv, QueueOnce
<1>7. AtLoader' /\ OnlyLoaded'
  BY <1>1, <1>2, <1>3 DEF ImportInv, AtLoader, OnlyLoaded
<1>8. Import!TableKeepsTheRest'
  BY <1>1, <1>2, <1>3 DEF ImportInv, AtLoader, Import!TableKeepsTheRest
<1>9. SceneMeets'
  <2>1. loading \in placed' => loading \in direct'
    BY <1>1, <1>2 DEF ImportInv, AtLoader
  <2>2. placed' \intersect loaded' \subseteq wrapped' \union direct' \union late'
    BY <1>1, <1>4, <2>1 DEF ImportInv, SceneMeets
  <2>3. ASSUME NEW t \in JSThreads, ~ found[t], adding[t] \in loaded'
        PROVE  adding[t] \in wrapped \union direct \union late'
    <3>1. CASE adding[t] \in loaded
      BY <1>4, <2>3, <3>1 DEF ImportInv, SceneMeets
    <3>2. CASE adding[t] = loading
      BY <1>1, <1>2, <2>3, <3>2 DEF ImportInv, AtLoader
    <3> QED
      BY <1>1, <2>3, <3>1, <3>2
  <2>4. \A t \in JSThreads : found[t] => adding[t] \in Stored
    BY DEF ImportInv, SceneMeets
  <2> QED
    BY <1>1, <2>2, <2>3, <2>4 DEF SceneMeets
<1> QED
  BY <1>5, <1>6, <1>7, <1>8, <1>9 DEF ImportInv

LEMMA ImportStep ==
  ASSUME ImportInv, Import!Next \/ UNCHANGED importVars
  PROVE  ImportInv'
<1>1. CASE Import!JavaScript
  <2>1. ASSUME NEW k \in Proxies, Import!importModel(k) \/ Import!NodeAdd(k) PROVE ImportInv'
    BY <2>1, RequestsKeep, LeaveKeeps DEF Import!NodeAdd
  <2>2. ASSUME NEW t \in JSThreads,
               (\E k \in Proxies : Import!LookUp(t, k)) \/ Import!TornLookUp(t) \/ Import!Adds(t)
        PROVE  ImportInv'
    <3>1. ASSUME NEW k \in Proxies, Import!LookUp(t, k) PROVE ImportInv'
      BY <3>1, LookUpKeeps
    <3>2. CASE Import!TornLookUp(t)
      BY <3>2, RequestsKeep
    <3>3. CASE Import!Adds(t)
      BY <3>3, AddModelKeeps, AddProxyKeeps DEF Import!Adds
    <3> QED
      BY <2>2, <3>1, <3>2, <3>3
  <2> QED
    BY <1>1, <2>1, <2>2 DEF Import!JavaScript
<1>2. CASE Import!RemoveSceneContent
  BY <1>2, LeaveKeeps DEF Import!RemoveSceneContent
<1>3. CASE \E k \in Proxies : Import!StorageAnswers(k)
  BY <1>3, RequestsKeep
<1>4. CASE Import!Loader
  BY <1>4, BeginLoadKeeps, StoreKeeps, ParseFailsKeeps, AttachKeeps, EndLoadKeeps DEF Import!Loader
<1>5. CASE UNCHANGED importVars
  BY <1>5 DEF importVars, ImportInv, Import!TypeOK, QueueOnce, AtLoader, OnlyLoaded, SceneMeets,
     Import!TableKeepsTheRest
<1> QED
  BY <1>1, <1>2, <1>3, <1>4, <1>5 DEF Import!Next

\* A model that has been loaded is shown by its proxy in the scene, in whichever
\* order scene.add and the load came, unless the load fell between the two halves
\* of one scene.add; and what the loader could not place is in the table.
THEOREM ModelsMeetProxies == Spec => []ImportsMeet
<1>1. Init => ImportInv
  BY ImportInit DEF Init
<1>2. ImportInv /\ [Next]_vars => ImportInv'
  BY ImportStep DEF Next, vars
<1>3. ImportInv => ImportsMeet
  BY DEF ImportInv, SceneMeets, ImportsMeet, Import!AddedIsShown, Import!Shown
<1> QED
  BY <1>1, <1>2, <1>3, PTL DEF Spec
-----------------------------------------------------------------------------
(* From the editor to the list *)

Tables == [Tokens -> Texts \union {Unlisted}]

UniqueKeys(snapshot) == \A r, q \in snapshot : r.key = q.key => r = q

\* A table shows, for a token, the value of the record with the greatest key, and
\* nothing where there is no record.
Shows(table, snapshot, t) ==
  \/ Store!WithToken(snapshot, t) = {} /\ table[t] = Unlisted
  \/ \E r \in Store!WithToken(snapshot, t) :
       /\ table[t] = r.value
       /\ \A q \in Store!WithToken(snapshot, t) : q.key <= r.key

LEMMA LeastNumber ==
  ASSUME NEW S, S \subseteq Nat, S # {}
  PROVE  \E x \in S : \A y \in S : x <= y
<1> DEFINE R == {ss \in Nat \X Nat : ss[1] < ss[2]}
<1>1. IsWellFoundedOn(R, Nat)
  BY NatLessThanWellFounded, Zenon DEF OpToRel
<1>2. \A x, y \in Nat : y < x => <<y, x>> \in R
  OBVIOUS
<1> HIDE DEF R
<1>3. PICK x \in S : \A y \in S : <<y, x>> \notin R
  BY <1>1, WFMin
<1>4. ASSUME NEW y \in S PROVE x <= y
  <2>1. x \in Nat /\ y \in Nat /\ ~ (y < x)
    BY <1>2, <1>3
  <2> QED
    BY <2>1
<1> QED
  BY <1>4

\* What one turn of the loop over the children makes of the dictionary.
Assigned(table, snapshot, k) ==
  IF Store!ChildrenOf(snapshot, k) = {} THEN table
  ELSE [table EXCEPT ![Store!Child(snapshot, k).token] = Store!Child(snapshot, k).value]

\* The loop is a function from the number of keys read to the dictionary.
LoopTo(dict, n, table, snapshot) ==
  dict = [k \in 0..n |-> IF k = 0 THEN table ELSE Assigned(dict[k - 1], snapshot, k)]

LEMMA LoopExists ==
  ASSUME NEW table, NEW snapshot
  PROVE  \E dict : LoopTo(dict, MaxKey, table, snapshot)
<1> DEFINE Bad == {n \in Nat : ~ \E dict : LoopTo(dict, n, table, snapshot)}
<1>1. SUFFICES Bad = {}
  BY AppAssumption DEF Store!ScriptStoreAssumption
<1>2. SUFFICES ASSUME Bad # {} PROVE FALSE
  OBVIOUS
<1>3. PICK n \in Bad : \A m \in Bad : n <= m
  BY <1>2, LeastNumber
<1>4. CASE n = 0
  <2> DEFINE d == [k \in 0..0 |-> table]
  <2>1. d = [k \in 0..0 |-> IF k = 0 THEN table ELSE Assigned(d[k - 1], snapshot, k)]
    OBVIOUS
  <2>2. LoopTo(d, 0, table, snapshot)
    BY <2>1 DEF LoopTo
  <2> QED
    BY <1>3, <1>4, <2>2
<1>5. CASE n # 0
  <2>1. n \in Nat /\ n - 1 \in Nat /\ ~ (n <= n - 1)
    BY <1>5
  <2>2. PICK f : LoopTo(f, n - 1, table, snapshot)
    BY <1>3, <2>1
  <2> DEFINE g == [k \in 0..n |-> IF k = n THEN Assigned(f[n - 1], snapshot, n) ELSE f[k]]
  <2>3. f = [k \in 0..(n - 1) |-> IF k = 0 THEN table ELSE Assigned(f[k - 1], snapshot, k)]
    BY <2>2 DEF LoopTo
  <2>4. \A k \in 0..(n - 1) : g[k] = f[k]
    BY <2>1
  <2>5. ASSUME NEW k \in 0..n
        PROVE  g[k] = IF k = 0 THEN table ELSE Assigned(g[k - 1], snapshot, k)
    <3>1. CASE k = n
      <4>1. g[k] = Assigned(f[n - 1], snapshot, n)
        BY <3>1, <2>1
      <4>2. n - 1 \in 0..(n - 1) /\ g[n - 1] = f[n - 1]
        BY <2>1, <2>4
      <4> HIDE DEF g
      <4> QED
        BY <1>5, <3>1, <4>1, <4>2
    <3>2. CASE k # n
      <4>1. k \in 0..(n - 1) /\ (k # 0 => k - 1 \in 0..(n - 1))
        BY <3>2, <2>1
      <4>2. g[k] = f[k] /\ (k # 0 => g[k - 1] = f[k - 1])
        BY <4>1, <2>4
      <4>3. f[k] = IF k = 0 THEN table ELSE Assigned(f[k - 1], snapshot, k)
        BY <4>1, <2>3
      <4> HIDE DEF g
      <4> QED
        BY <4>2, <4>3
    <3> QED
      BY <3>1, <3>2
  <2>6. g = [k \in 0..n |-> g[k]]
    OBVIOUS
  <2> HIDE DEF g
  <2>7. [k \in 0..n |-> g[k]]
          = [k \in 0..n |-> IF k = 0 THEN table ELSE Assigned(g[k - 1], snapshot, k)]
    BY <2>5
  <2>8. LoopTo(g, n, table, snapshot)
    BY <2>6, <2>7 DEF LoopTo
  <2> QED
    BY <1>3, <2>8
<1> QED
  BY <1>4, <1>5

LEMMA MergedIsLoop ==
  ASSUME NEW table, NEW snapshot
  PROVE  \E dict : LoopTo(dict, MaxKey, table, snapshot) /\ Store!Merged(table, snapshot) = dict[MaxKey]
<1> DEFINE Body(dict) == [k \in 0..MaxKey |-> IF k = 0 THEN table ELSE Assigned(dict[k - 1], snapshot, k)]
           dict == CHOOSE d : d = Body(d)
<1>1. \E d : d = Body(d)
  <2>1. PICK d : LoopTo(d, MaxKey, table, snapshot)
    BY LoopExists
  <2>2. d = Body(d)
    BY <2>1 DEF LoopTo
  <2> HIDE DEF Body
  <2> QED
    BY <2>2
<1>2. dict = Body(dict)
  BY <1>1
<1>3. Store!Merged(table, snapshot) = dict[MaxKey]
  BY DEF Store!Merged, Assigned
<1> QED
  BY <1>2, <1>3 DEF LoopTo

LEMMA MergedShows ==
  ASSUME NEW table \in Tables, NEW old \in SUBSET Store!Record, NEW snapshot \in SUBSET Store!Record,
         old \subseteq snapshot, UniqueKeys(snapshot),
         \A t \in Tokens : Shows(table, old, t)
  PROVE  /\ Store!Merged(table, snapshot) \in Tables
         /\ \A t \in Tokens : Shows(Store!Merged(table, snapshot), snapshot, t)
<1>k. MaxKey \in Nat
  BY AppAssumption DEF Store!ScriptStoreAssumption
<1>1. PICK dict : LoopTo(dict, MaxKey, table, snapshot) /\ Store!Merged(table, snapshot) = dict[MaxKey]
  BY MergedIsLoop
<1>2. /\ dict[0] = table
      /\ \A k \in 1..MaxKey : dict[k] = Assigned(dict[k - 1], snapshot, k)
  BY <1>1, <1>k DEF LoopTo
\* After k keys a token has the value of its last record among them, or what it
\* had before.
<1> DEFINE Read(t, k) == {r \in Store!WithToken(snapshot, t) : r.key <= k}
           Good(k) ==
             /\ dict[k] \in Tables
             /\ \A t \in Tokens :
                  \/ Read(t, k) = {} /\ dict[k][t] = table[t]
                  \/ \E r \in Read(t, k) : /\ dict[k][t] = r.value
                                           /\ \A q \in Read(t, k) : q.key <= r.key
           Bad == {k \in 0..MaxKey : ~ Good(k)}
<1>t. \A r \in snapshot : r \in Store!Record /\ r.key \in 1..MaxKey /\ r.token \in Tokens /\ r.value \in Texts
  BY DEF Store!Record
<1>3. Good(0)
  <2>1. \A t : Read(t, 0) = {}
    BY <1>t DEF Store!WithToken
  <2> HIDE DEF Read
  <2> QED
    BY <1>2, <2>1
<1>4. ASSUME NEW k \in 1..MaxKey, Good(k - 1) PROVE Good(k)
  <2>1. dict[k] = Assigned(dict[k - 1], snapshot, k) /\ dict[k - 1] \in Tables
    BY <1>2, <1>4
  <2>2. CASE Store!ChildrenOf(snapshot, k) = {}
    <3>1. dict[k] = dict[k - 1]
      BY <2>1, <2>2 DEF Assigned
    <3>2. \A t : Read(t, k) = Read(t, k - 1)
      BY <2>2, <1>t, <1>k DEF Store!ChildrenOf, Store!WithToken
    <3> HIDE DEF Read
    <3> QED
      BY <1>4, <3>1, <3>2
  <2>3. CASE Store!ChildrenOf(snapshot, k) # {}
    <3> DEFINE c == Store!Child(snapshot, k)
    <3>1. c \in snapshot /\ c.key = k
      BY <2>3 DEF Store!Child, Store!ChildrenOf
    <3>2. dict[k] = [dict[k - 1] EXCEPT ![c.token] = c.value]
      BY <2>1, <2>3 DEF Assigned
    <3> HIDE DEF c
    <3>3. c.token \in Tokens /\ c.value \in Texts
      BY <3>1, <1>t
    <3>4. dict[k] \in Tables
      BY <2>1, <3>2, <3>3 DEF Tables
    <3>5. dict[k][c.token] = c.value /\ \A t \in Tokens : t # c.token => dict[k][t] = dict[k - 1][t]
      BY <2>1, <3>2, <3>3 DEF Tables
    <3>6. ASSUME NEW t \in Tokens, t # c.token PROVE Read(t, k) = Read(t, k - 1)
      BY <3>1, <3>6, <1>t, <1>k DEF UniqueKeys, Store!WithToken
    <3>7. c \in Read(c.token, k) /\ \A q \in Read(c.token, k) : q.key <= c.key
      BY <3>1, <1>t DEF Store!WithToken
    <3> HIDE DEF Read
    <3> QED
      BY <1>4, <3>3, <3>4, <3>5, <3>6, <3>7
  <2> QED
    BY <2>2, <2>3
<1> HIDE DEF Good
<1>5. Good(MaxKey)
  <2>1. SUFFICES ASSUME Bad # {} PROVE FALSE
    BY <1>k
  <2>2. PICK k \in Bad : \A m \in Bad : k <= m
    <3>1. Bad \subseteq Nat
      BY <1>k
    <3> HIDE DEF Bad
    <3> QED
      BY <2>1, <3>1, LeastNumber
  <2>3. k # 0 /\ k \in 1..MaxKey /\ k - 1 \in 0..MaxKey /\ ~ (k <= k - 1)
    BY <2>2, <1>3, <1>k
  <2> QED
    BY <1>4, <2>2, <2>3
<1>6. \A t : Read(t, MaxKey) = Store!WithToken(snapshot, t)
  BY <1>t DEF Store!WithToken
<1>7. ASSUME NEW t \in Tokens PROVE Shows(dict[MaxKey], snapshot, t)
  <2>1. CASE Store!WithToken(snapshot, t) = {} /\ dict[MaxKey][t] = table[t]
    <3>1. Store!WithToken(old, t) = {}
      BY <2>1 DEF Store!WithToken
    <3>2. table[t] = Unlisted
      BY <3>1 DEF Shows
    <3> QED
      BY <2>1, <3>2 DEF Shows
  <2>2. CASE \E r \in Store!WithToken(snapshot, t) :
               /\ dict[MaxKey][t] = r.value
               /\ \A q \in Store!WithToken(snapshot, t) : q.key <= r.key
    BY <2>2 DEF Shows
  <2> HIDE DEF Read
  <2> QED
    BY <1>5, <1>6, <2>1, <2>2 DEF Good
<1> QED
  BY <1>1, <1>5, <1>7 DEF Good

LEMMA ShowsNewest ==
  ASSUME NEW table, NEW snapshot \in SUBSET Store!Record, UniqueKeys(snapshot), NEW t,
         Shows(table, snapshot, t)
  PROVE  table[t] = Store!Newest(snapshot, t)
<1>1. CASE Store!WithToken(snapshot, t) = {}
  BY <1>1 DEF Shows, Store!Newest
<1>2. CASE Store!WithToken(snapshot, t) # {}
  <2> DEFINE W == Store!WithToken(snapshot, t)
             Top(r) == \A q \in W : q.key <= r.key
             n == CHOOSE r \in W : Top(r)
  <2>1. PICK r \in W : table[t] = r.value /\ Top(r)
    BY <1>2 DEF Shows
  <2>2. n \in W /\ Top(n)
    BY <2>1
  <2>3. Store!Newest(snapshot, t) = n.value
    BY <1>2 DEF Store!Newest
  <2>4. W \subseteq snapshot
    BY DEF Store!WithToken
  <2> HIDE DEF n, W
  <2>5. n.key \in Nat /\ r.key \in Nat
    BY <2>1, <2>2, <2>4 DEF Store!Record
  <2>6. n.key <= r.key /\ r.key <= n.key
    BY <2>1, <2>2
  <2>7. n = r
    BY <2>1, <2>2, <2>4, <2>5, <2>6 DEF UniqueKeys
  <2> QED
    BY <2>1, <2>3, <2>7
<1> QED
  BY <1>1, <1>2

\* The records of an open page or of the database have been alerted, each under a
\* key of its own.
Published == pushing \union database \subseteq alerted /\ UniqueKeys(alerted)

\* The database only grows: what a list has merged, and the answers on their way to
\* it in the order they were made, are each contained in the next.
Growing ==
  \A v \in Store!List :
    /\ seen[v] \subseteq database
    /\ \A i \in 1..Len(answers[v]) :
         /\ seen[v] \subseteq answers[v][i] /\ answers[v][i] \subseteq database
         /\ \A j \in 1..Len(answers[v]) : i <= j => answers[v][i] \subseteq answers[v][j]

TablesShow == \A v \in Store!List, t \in Tokens : Shows(scripts[v], seen[v], t)

ListOnScreen == top = "list" => opened \in Store!List

StoreInv ==
  /\ Store!TypeOK /\ Published /\ Growing /\ TablesShow /\ ListOnScreen
  /\ Store!LaunchedWasAlerted

LEMMA StoreInit == Store!Init => StoreInv
<1> SUFFICES ASSUME Store!Init PROVE StoreInv
  OBVIOUS
<1>1. /\ MaxLists \in Nat /\ MaxRequests \in Nat
      /\ \A v \in Store!List : answers[v] = << >> /\ Len(answers[v]) = 0 /\ seen[v] = {}
  BY AppAssumption DEF Store!ScriptStoreAssumption, Store!Init
<1>2. Store!TypeOK
  <2>1. << >> \in Seq(SUBSET Store!Record)
    OBVIOUS
  <2> QED
    BY <1>1, <2>1 DEF Store!Init, Store!TypeOK
<1>3. TablesShow
  BY DEF TablesShow, Shows, Store!WithToken, Store!Init
<1> QED
  BY <1>1, <1>2, <1>3 DEF StoreInv, Published, UniqueKeys, Growing, ListOnScreen,
     Store!LaunchedWasAlerted, Store!Init

LEMMA AnswersTyped ==
  ASSUME StoreInv, NEW v \in Store!List
  PROVE  /\ answers[v] \in Seq(SUBSET Store!Record) /\ Len(answers[v]) \in Nat
         /\ asked[v] \in 0..MaxRequests /\ asked[v] \in Nat
BY AppAssumption, LenProperties DEF StoreInv, Store!TypeOK, Store!ScriptStoreAssumption

\* The editor and the database.
LEMMA WebKeeps ==
  ASSUME StoreInv, UNCHANGED <<top, opened, asked, answers, scripts, seen, launched>>,
         \/ Store!Web
         \/ \E r \in pushing : Store!ServerStores(r)
  PROVE  StoreInv'
<1>1. ASSUME NEW k \in 1..MaxKey, NEW t \in Tokens, NEW x \in Texts, Store!publishCallback(k, t, x)
      PROVE  /\ Store!TypeOK' /\ Published' /\ alerted \subseteq alerted' /\ database' = database
  <2> DEFINE r == [key |-> k, token |-> t, value |-> x]
  <2>1. /\ pushing' = pushing \union {r} /\ alerted' = alerted \union {r} /\ database' = database
        /\ \A q \in alerted : q.key # r.key
    BY <1>1 DEF Store!publishCallback
  <2>2. r \in Store!Record
    BY DEF Store!Record
  <2> HIDE DEF r
  <2> QED
    BY <2>1, <2>2 DEF StoreInv, Store!TypeOK, Published, UniqueKeys
<1>2. ASSUME NEW r \in pushing, Store!ServerStores(r)
      PROVE  /\ Store!TypeOK' /\ Published' /\ alerted' = alerted /\ database \subseteq database'
  BY <1>2 DEF Store!ServerStores, StoreInv, Store!TypeOK, Published
<1>3. ASSUME NEW lost \in SUBSET pushing, Store!PageCloses(lost)
      PROVE  /\ Store!TypeOK' /\ Published' /\ alerted' = alerted /\ database' = database
  BY <1>3 DEF Store!PageCloses, StoreInv, Store!TypeOK, Published
<1>4. /\ Store!TypeOK' /\ Published' /\ alerted \subseteq alerted' /\ database \subseteq database'
  <2>1. CASE Store!Web
    BY <2>1, <1>1, <1>3 DEF Store!Web
  <2>2. CASE \E r \in pushing : Store!ServerStores(r)
    BY <2>2, <1>2
  <2> QED
    BY <2>1, <2>2
<1>5. Growing' /\ TablesShow' /\ ListOnScreen' /\ Store!LaunchedWasAlerted'
  BY <1>4 DEF StoreInv, Growing, TablesShow, ListOnScreen, Store!LaunchedWasAlerted
<1> QED
  BY <1>4, <1>5 DEF StoreInv

\* The screens, and the requests they send.
LEMMA ScreenKeeps ==
  ASSUME StoreInv, UNCHANGED <<pushing, alerted, database, answers, scripts, seen>>,
         Store!TypeOK', ListOnScreen', Store!LaunchedWasAlerted'
  PROVE  StoreInv'
BY DEF StoreInv, Published, Growing, TablesShow

LEMMA RequestTyped ==
  ASSUME StoreInv, NEW v \in Store!List, Store!requestScriptsFromDatabase(v)
  PROVE  /\ asked' \in [Store!List -> 0..MaxRequests]
         /\ \A u \in Store!List : asked'[u] + Len(answers[u]) <= MaxRequests
<1>1. asked' = [asked EXCEPT ![v] = @ + 1] /\ asked[v] + Len(answers[v]) < MaxRequests
  BY DEF Store!requestScriptsFromDatabase
<1>2. /\ asked \in [Store!List -> 0..MaxRequests] /\ MaxRequests \in Nat
      /\ \A u \in Store!List : asked[u] + Len(answers[u]) <= MaxRequests
  BY AppAssumption DEF StoreInv, Store!TypeOK, Store!ScriptStoreAssumption
<1>3. asked[v] \in Nat /\ Len(answers[v]) \in Nat
  BY AnswersTyped
<1>4. asked[v] + 1 \in 0..MaxRequests /\ (asked[v] + 1) + Len(answers[v]) <= MaxRequests
  BY <1>1, <1>2, <1>3
<1> QED
  BY <1>1, <1>2, <1>4

LEMMA ScreensKeep ==
  ASSUME StoreInv,
         \/ Store!presentScriptVC
         \/ Store!handleRefresh
         \/ Store!didTapBackButton
  PROVE  StoreInv'
<1>m. MaxLists \in Nat
  BY AppAssumption DEF Store!ScriptStoreAssumption
<1>1. CASE Store!presentScriptVC
  <2>1. /\ opened + 1 \in Store!List /\ opened' = opened + 1 /\ top' = "list"
        /\ Store!requestScriptsFromDatabase(opened + 1)
        /\ UNCHANGED <<pushing, alerted, database, answers, scripts, seen, launched>>
    BY <1>1, <1>m DEF StoreInv, Store!TypeOK, Store!presentScriptVC, Store!webVars, Store!List
  <2>2. Store!TypeOK'
    <3>1. /\ asked' \in [Store!List -> 0..MaxRequests]
          /\ \A u \in Store!List : asked'[u] + Len(answers[u]) <= MaxRequests
      BY <2>1, RequestTyped
    <3>2. opened' \in 0..MaxLists /\ top' \in {"main", "list"}
      BY <2>1, <1>m DEF Store!List
    <3> QED
      BY <2>1, <3>1, <3>2 DEF StoreInv, Store!TypeOK
  <2>3. ListOnScreen' /\ Store!LaunchedWasAlerted'
    BY <2>1 DEF StoreInv, ListOnScreen, Store!LaunchedWasAlerted
  <2> QED
    BY <2>1, <2>2, <2>3, ScreenKeeps
<1>2. CASE Store!handleRefresh
  <2>1. /\ opened \in Store!List /\ opened' = opened /\ top' = top
        /\ Store!requestScriptsFromDatabase(opened)
        /\ UNCHANGED <<pushing, alerted, database, answers, scripts, seen, launched>>
    BY <1>2 DEF StoreInv, ListOnScreen, Store!handleRefresh, Store!webVars
  <2>2. Store!TypeOK'
    BY <2>1, RequestTyped DEF StoreInv, Store!TypeOK
  <2>3. ListOnScreen' /\ Store!LaunchedWasAlerted'
    BY <2>1 DEF StoreInv, ListOnScreen, Store!LaunchedWasAlerted
  <2> QED
    BY <2>1, <2>2, <2>3, ScreenKeeps
<1>3. CASE Store!didTapBackButton
  <2>1. /\ top' = "main"
        /\ UNCHANGED <<pushing, alerted, database, opened, asked, answers, scripts, seen, launched>>
    BY <1>3 DEF Store!didTapBackButton, Store!webVars
  <2>2. Store!TypeOK' /\ ListOnScreen' /\ Store!LaunchedWasAlerted'
    BY <2>1 DEF StoreInv, Store!TypeOK, ListOnScreen, Store!LaunchedWasAlerted
  <2> QED
    BY <2>1, <2>2, ScreenKeeps
<1> QED
  BY <1>1, <1>2, <1>3

\* What is listed was published, so what is picked was alerted.
LEMMA SelectKeeps ==
  ASSUME StoreInv, NEW t \in Tokens, Store!didSelectRowAt(t)
  PROVE  StoreInv'
<1> DEFINE x == scripts[opened][t]
<1>1. /\ top = "list" /\ top' = "main" /\ x # Unlisted
      /\ launched' = launched \union {[token |-> t, value |-> x]}
      /\ UNCHANGED <<pushing, alerted, database, opened, asked, answers, scripts, seen>>
  BY DEF Store!didSelectRowAt, Store!webVars
<1>2. opened \in Store!List
  BY <1>1 DEF StoreInv, ListOnScreen
<1>3. PICK r \in seen[opened] : r.token = t /\ r.value = x
  BY <1>1, <1>2 DEF StoreInv, TablesShow, Shows, Store!WithToken
<1>4. r \in alerted /\ x \in Texts
  <2>1. r \in alerted
    BY <1>2, <1>3 DEF StoreInv, Growing, Published
  <2> QED
    BY <1>3, <2>1 DEF StoreInv, Store!TypeOK, Store!Record
<1> HIDE DEF x
<1>5. Store!TypeOK'
  BY <1>1, <1>4 DEF StoreInv, Store!TypeOK
<1>6. ListOnScreen'
  BY <1>1 DEF ListOnScreen
<1>7. Store!LaunchedWasAlerted'
  BY <1>1, <1>3, <1>4 DEF StoreInv, Store!LaunchedWasAlerted
<1> QED
  BY <1>1, <1>5, <1>6, <1>7, ScreenKeeps

LEMMA AnswerKeeps ==
  ASSUME StoreInv, NEW v \in Store!List, Store!ServerAnswers(v)
  PROVE  StoreInv'
<1>1. /\ asked[v] > 0 /\ asked' = [asked EXCEPT ![v] = @ - 1]
      /\ answers' = [answers EXCEPT ![v] = Append(@, database)]
      /\ UNCHANGED <<pushing, alerted, database, top, opened, scripts, seen, launched>>
  BY DEF Store!ServerAnswers, Store!webVars
<1>2. /\ answers[v] \in Seq(SUBSET Store!Record) /\ Len(answers[v]) \in Nat
      /\ asked[v] \in 0..MaxRequests /\ asked[v] \in Nat
  BY AnswersTyped
<1> DEFINE q == Append(answers[v], database)
<1>3. /\ q \in Seq(SUBSET Store!Record) /\ Len(q) = Len(answers[v]) + 1
      /\ \A i \in 1..Len(answers[v]) : q[i] = answers[v][i]
      /\ q[Len(answers[v]) + 1] = database
  BY <1>2, AppendProperties DEF StoreInv, Store!TypeOK
<1>4. /\ answers' \in [Store!List -> Seq(SUBSET Store!Record)] /\ answers'[v] = q
      /\ \A u \in Store!List : u # v => answers'[u] = answers[u]
  BY <1>1, <1>3 DEF StoreInv, Store!TypeOK
<1> HIDE DEF q
<1>5. /\ asked' \in [Store!List -> 0..MaxRequests] /\ asked'[v] = asked[v] - 1
      /\ \A u \in Store!List : u # v => asked'[u] = asked[u]
  <2>1. asked[v] - 1 \in 0..MaxRequests
    BY <1>1, <1>2, AppAssumption DEF Store!ScriptStoreAssumption
  <2> QED
    BY <1>1, <2>1 DEF StoreInv, Store!TypeOK
<1>6. Store!TypeOK'
  <2>1. \A u \in Store!List : asked'[u] + Len(answers'[u]) <= MaxRequests
    <3>1. asked[v] + Len(answers[v]) <= MaxRequests
      BY DEF StoreInv, Store!TypeOK
    <3>2. asked'[v] + Len(answers'[v]) = asked[v] + Len(answers[v])
      <4>1. asked'[v] = asked[v] - 1 /\ Len(answers'[v]) = Len(q)
        BY <1>4, <1>5
      <4>2. Len(q) = Len(answers[v]) + 1 /\ asked[v] \in Nat /\ Len(answers[v]) \in Nat
        BY <1>2, <1>3
      <4> QED
        BY <4>1, <4>2
    <3>3. asked'[v] + Len(answers'[v]) <= MaxRequests
      BY <3>1, <3>2
    <3>4. ASSUME NEW u \in Store!List, u # v PROVE asked'[u] + Len(answers'[u]) <= MaxRequests
      BY <3>4, <1>4, <1>5 DEF StoreInv, Store!TypeOK
    <3> QED
      BY <3>3, <3>4
  <2> QED
    BY <1>1, <1>4, <1>5, <2>1 DEF StoreInv, Store!TypeOK
<1>7. Growing'
  <2>1. \A i \in 1..Len(q) : (i \in 1..Len(answers[v]) /\ q[i] = answers[v][i])
                             \/ (i = Len(answers[v]) + 1 /\ q[i] = database)
    BY <1>2, <1>3
  <2>2. ASSUME NEW i \in 1..Len(q)
        PROVE  /\ seen[v] \subseteq q[i] /\ q[i] \subseteq database
               /\ \A j \in 1..Len(q) : i <= j => q[i] \subseteq q[j]
    <3>1. seen[v] \subseteq q[i] /\ q[i] \subseteq database
      BY <2>1 DEF StoreInv, Growing
    <3>2. ASSUME NEW j \in 1..Len(q), i <= j PROVE q[i] \subseteq q[j]
      <4>1. CASE j = Len(answers[v]) + 1
        BY <3>1, <4>1, <1>3
      <4>2. CASE j # Len(answers[v]) + 1
        <5>1. i \in 1..Len(answers[v]) /\ j \in 1..Len(answers[v])
          BY <1>2, <1>3, <3>2, <4>2
        <5> QED
          BY <5>1, <3>2, <1>3 DEF StoreInv, Growing
      <4> QED
        BY <4>1, <4>2
    <3> QED
      BY <3>1, <3>2
  <2>3. ASSUME NEW u \in Store!List
        PROVE  /\ seen[u] \subseteq database
               /\ \A i \in 1..Len(answers'[u]) :
                    /\ seen[u] \subseteq answers'[u][i] /\ answers'[u][i] \subseteq database
                    /\ \A j \in 1..Len(answers'[u]) : i <= j => answers'[u][i] \subseteq answers'[u][j]
    <3>1. CASE u = v
      BY <1>4, <2>2, <3>1 DEF StoreInv, Growing
    <3>2. CASE u # v
      BY <1>4, <3>2 DEF StoreInv, Growing
    <3> QED
      BY <3>1, <3>2
  <2> QED
    BY <1>1, <2>3 DEF Growing
<1>8. Published' /\ TablesShow' /\ ListOnScreen' /\ Store!LaunchedWasAlerted'
  BY <1>1 DEF StoreInv, Published, TablesShow, ListOnScreen, Store!LaunchedWasAlerted
<1> QED
  BY <1>6, <1>7, <1>8 DEF StoreInv

LEMMA ReceiveKeeps ==
  ASSUME StoreInv, NEW v \in Store!List, Store!ReceiveSnapshot(v)
  PROVE  StoreInv'
<1> DEFINE s == Head(answers[v])
           q == Tail(answers[v])
           m == Store!Merged(scripts[v], s)
<1>1. /\ answers[v] # << >>
      /\ scripts' = [scripts EXCEPT ![v] = m] /\ seen' = [seen EXCEPT ![v] = s]
      /\ answers' = [answers EXCEPT ![v] = q]
      /\ UNCHANGED <<pushing, alerted, database, top, opened, asked, launched>>
  BY DEF Store!ReceiveSnapshot, Store!webVars
<1>2. /\ answers[v] \in Seq(SUBSET Store!Record) /\ Len(answers[v]) \in Nat
      /\ asked[v] \in Nat
  BY AnswersTyped
<1>3. /\ q \in Seq(SUBSET Store!Record) /\ Len(q) = Len(answers[v]) - 1
      /\ \A i \in 1..Len(q) : q[i] = answers[v][i + 1]
  BY <1>1, <1>2, HeadTailProperties
<1>4. Len(answers[v]) >= 1 /\ s = answers[v][1] /\ s \in SUBSET Store!Record
  <2>1. Len(answers[v]) # 0
    BY <1>1, <1>2, EmptySeq
  <2> QED
    BY <1>1, <1>2, <2>1, ElementOfSeq
<1>5. /\ seen[v] \subseteq s /\ s \subseteq database
      /\ \A i \in 1..Len(q) : s \subseteq q[i] /\ q[i] \subseteq database
      /\ \A i, j \in 1..Len(q) : i <= j => q[i] \subseteq q[j]
  <2>1. \A i \in 1..Len(q) : i + 1 \in 1..Len(answers[v]) /\ 1 <= i + 1
    BY <1>2, <1>3
  <2>2. 1 \in 1..Len(answers[v])
    BY <1>2, <1>4
  <2>3. \A i, j \in 1..Len(q) : i <= j => i + 1 <= j + 1
    BY <1>2, <1>3
  <2>4. /\ \A i \in 1..Len(answers[v]) : /\ seen[v] \subseteq answers[v][i]
                                          /\ answers[v][i] \subseteq database
        /\ \A i, j \in 1..Len(answers[v]) : i <= j => answers[v][i] \subseteq answers[v][j]
    BY DEF StoreInv, Growing
  <2> HIDE DEF q, s
  <2>5. seen[v] \subseteq s /\ s \subseteq database
    BY <1>4, <2>2, <2>4
  <2>6. ASSUME NEW i \in 1..Len(q) PROVE s \subseteq q[i] /\ q[i] \subseteq database
    BY <1>3, <1>4, <2>1, <2>2, <2>4
  <2>7. ASSUME NEW i \in 1..Len(q), NEW j \in 1..Len(q), i <= j PROVE q[i] \subseteq q[j]
    BY <1>3, <2>1, <2>3, <2>4, <2>7
  <2> QED
    BY <2>5, <2>6, <2>7
<1>6. /\ m \in Tables /\ \A t \in Tokens : Shows(m, s, t)
  <2>1. scripts[v] \in Tables /\ seen[v] \in SUBSET Store!Record
    BY DEF StoreInv, Store!TypeOK, Tables
  <2>2. \A t \in Tokens : Shows(scripts[v], seen[v], t)
    BY DEF StoreInv, TablesShow
  <2>3. UniqueKeys(s)
    BY <1>5 DEF StoreInv, Published, UniqueKeys
  <2> HIDE DEF s
  <2> QED
    BY <1>4, <1>5, <2>1, <2>2, <2>3, MergedShows
<1> HIDE DEF s, q, m
<1>7. /\ answers' \in [Store!List -> Seq(SUBSET Store!Record)] /\ answers'[v] = q
      /\ scripts' \in [Store!List -> Tables] /\ scripts'[v] = m
      /\ seen' \in [Store!List -> SUBSET Store!Record] /\ seen'[v] = s
      /\ \A u \in Store!List : u # v => /\ answers'[u] = answers[u]
                                        /\ scripts'[u] = scripts[u]
                                        /\ seen'[u] = seen[u]
  BY <1>1, <1>3, <1>4, <1>6 DEF StoreInv, Store!TypeOK, Tables
<1>8. Store!TypeOK'
  <2>1. \A u \in Store!List : asked'[u] + Len(answers'[u]) <= MaxRequests
    <3>1. asked[v] + Len(q) <= MaxRequests
      BY <1>2, <1>3, AppAssumption DEF StoreInv, Store!TypeOK, Store!ScriptStoreAssumption
    <3> QED
      BY <1>1, <1>7, <3>1 DEF StoreInv, Store!TypeOK
  <2> QED
    BY <1>1, <1>7, <2>1 DEF StoreInv, Store!TypeOK, Tables
<1>9. Growing'
  BY <1>1, <1>5, <1>7 DEF StoreInv, Growing
<1>10. TablesShow'
  <2> SUFFICES ASSUME NEW u \in Store!List, NEW t \in Tokens PROVE Shows(scripts'[u], seen'[u], t)
    BY DEF TablesShow, Shows, Store!WithToken
  <2>1. CASE u = v
    BY <2>1, <1>6, <1>7
  <2>2. CASE u # v
    BY <2>2, <1>7 DEF StoreInv, TablesShow
  <2> QED
    BY <2>1, <2>2
<1>11. Published' /\ ListOnScreen' /\ Store!LaunchedWasAlerted'
  BY <1>1 DEF StoreInv, Published, ListOnScreen, Store!LaunchedWasAlerted
<1> QED
  BY <1>8, <1>9, <1>10, <1>11 DEF StoreInv

LEMMA StoreStep ==
  ASSUME StoreInv, Store!Next \/ UNCHANGED storeVars
  PROVE  StoreInv'
<1>1. CASE Store!Web \/ \E r \in pushing : Store!ServerStores(r)
  <2>1. UNCHANGED <<top, opened, asked, answers, scripts, seen, launched>>
    BY <1>1 DEF Store!Web, Store!publishCallback, Store!PageCloses, Store!ServerStores, Store!appVars
  <2> QED
    BY <1>1, <2>1, WebKeeps
<1>2. CASE \E v \in Store!List : Store!ServerAnswers(v)
  BY <1>2, AnswerKeeps
<1>3. CASE Store!App
  BY <1>3, ScreensKeep, SelectKeeps, ReceiveKeeps DEF Store!App
<1>4. CASE UNCHANGED storeVars
  BY <1>4 DEF storeVars, StoreInv, Store!TypeOK, Published, Growing, TablesShow, ListOnScreen,
     Store!LaunchedWasAlerted
<1> QED
  BY <1>1, <1>2, <1>3, <1>4 DEF Store!Next, Store!Server

\* Merging without clearing is enough, however records arrive and requests overlap:
\* each list shows what the database held when the answer it merged last was made,
\* and what a MainVC is given to run was published under the token picked.
THEOREM ListsShowSnapshots == Spec => []ListsAreTrue
<1>1. Init => StoreInv
  BY StoreInit DEF Init
<1>2. StoreInv /\ [Next]_vars => StoreInv'
  BY StoreStep DEF Next, vars, storeVars
<1>3. StoreInv => ListsAreTrue
  <2> SUFFICES ASSUME StoreInv PROVE ListsAreTrue
    OBVIOUS
  <2>1. ASSUME NEW v \in Store!List, NEW t \in Tokens
        PROVE  scripts[v][t] = Store!Newest(seen[v], t)
    <3>1. seen[v] \in SUBSET Store!Record /\ Shows(scripts[v], seen[v], t)
      BY DEF StoreInv, Store!TypeOK, TablesShow
    <3>2. UniqueKeys(seen[v])
      BY DEF StoreInv, Growing, Published, UniqueKeys
    <3> QED
      BY <3>1, <3>2, ShowsNewest
  <2> QED
    BY <2>1 DEF StoreInv, ListsAreTrue, Store!ListShowsSnapshot
<1> QED
  BY <1>1, <1>2, <1>3, PTL DEF Spec
-----------------------------------------------------------------------------
(* Tokens *)

\* Facts of arithmetic where no factor is a constant.
LEMMA Products ==
  ASSUME NEW a \in Nat, NEW b \in Nat
  PROVE  a * b \in Nat
BY SMT

LEMMA Grow ==
  ASSUME NEW a \in Nat, NEW b \in Nat, NEW c \in Nat, a <= b
  PROVE  a * c <= b * c
BY SMT

\* A quotient is the one that leaves less than the divisor.
LEMMA DivIs ==
  ASSUME NEW n \in Nat, NEW q \in Nat, NEW r \in Nat, NEW d \in Nat \ {0}, n = q * d + r, r < d
  PROVE  n \div d = q
BY SMT

LEMMA DivMod ==
  ASSUME NEW n \in Nat, NEW d \in Nat \ {0}
  PROVE  /\ n \div d \in Nat /\ n % d \in Nat /\ n % d < d
         /\ n = (n \div d) * d + (n % d)
BY SMT


\* Dividing twice is dividing by the product.
LEMMA DivDiv ==
  ASSUME NEW n \in Nat, NEW a \in Nat \ {0}, NEW b \in Nat \ {0}
  PROVE  n \div (a * b) = (n \div a) \div b
<1> DEFINE q == n \div a
           r == n % a
           p == q \div b
           s == q % b
<1>1. q \in Nat /\ r \in Nat /\ r < a /\ n = q * a + r
  BY DivMod
<1>2. p \in Nat /\ s \in Nat /\ s < b /\ q = p * b + s
  BY <1>1, DivMod
<1> HIDE DEF q, r, p, s
<1>3. q * a = p * (a * b) + s * a
  BY <1>1, <1>2
<1>4. s * a + a <= a * b /\ s * a \in Nat /\ a * b \in Nat \ {0}
  BY <1>2, SMT
<1>5. n = p * (a * b) + (s * a + r) /\ s * a + r < a * b /\ s * a + r \in Nat
  <2> DEFINE x == s * a
             y == a * b
             z == p * (a * b)
  <2>1. x \in Nat /\ y \in Nat /\ z \in Nat /\ x + a <= y /\ q * a = z + x
    BY <1>2, <1>3, <1>4, Products
  <2> HIDE DEF x, y, z
  <2>2. n = z + (x + r) /\ x + r < y /\ x + r \in Nat
    BY <1>1, <2>1
  <2> QED
    BY <2>2 DEF x, y, z
<1>6. n \div (a * b) = p
  BY <1>4, <1>5, <1>2, DivIs
<1> QED
  BY <1>6 DEF p, q

PowerTo(f, n) == f = [d \in 0..n |-> IF d = 0 THEN 1 ELSE Base * f[d - 1]]

LEMMA PowerExists ==
  ASSUME NEW n \in Nat
  PROVE  \E f : PowerTo(f, n)
<1> DEFINE Bad == {m \in Nat : ~ \E f : PowerTo(f, m)}
<1>1. SUFFICES ASSUME Bad # {} PROVE FALSE
  OBVIOUS
<1>2. PICK m \in Bad : \A i \in Bad : m <= i
  BY <1>1, LeastNumber
<1>3. CASE m = 0
  <2> DEFINE f == [d \in 0..0 |-> 1]
  <2>1. f = [d \in 0..0 |-> IF d = 0 THEN 1 ELSE Base * f[d - 1]]
    OBVIOUS
  <2>2. PowerTo(f, 0)
    BY <2>1 DEF PowerTo
  <2> QED
    BY <1>2, <1>3, <2>2
<1>4. CASE m # 0
  <2>1. m \in Nat /\ m - 1 \in Nat /\ ~ (m <= m - 1)
    BY <1>4
  <2>2. PICK f : PowerTo(f, m - 1)
    BY <1>2, <2>1
  <2> DEFINE g == [d \in 0..m |-> IF d = m THEN Base * f[m - 1] ELSE f[d]]
  <2>3. f = [d \in 0..(m - 1) |-> IF d = 0 THEN 1 ELSE Base * f[d - 1]]
    BY <2>2 DEF PowerTo
  <2>4. \A d \in 0..(m - 1) : g[d] = f[d]
    BY <2>1
  <2>5. ASSUME NEW d \in 0..m
        PROVE  g[d] = IF d = 0 THEN 1 ELSE Base * g[d - 1]
    <3>1. CASE d = m
      <4>1. g[d] = Base * f[m - 1]
        BY <3>1, <2>1
      <4>2. m - 1 \in 0..(m - 1) /\ g[m - 1] = f[m - 1]
        BY <2>1, <2>4
      <4> HIDE DEF g
      <4> QED
        BY <1>4, <3>1, <4>1, <4>2
    <3>2. CASE d # m
      <4>1. d \in 0..(m - 1) /\ (d # 0 => d - 1 \in 0..(m - 1))
        BY <3>2, <2>1
      <4>2. g[d] = f[d] /\ (d # 0 => g[d - 1] = f[d - 1])
        BY <4>1, <2>4
      <4>3. f[d] = IF d = 0 THEN 1 ELSE Base * f[d - 1]
        BY <4>1, <2>3
      <4> HIDE DEF g
      <4> QED
        BY <4>2, <4>3
    <3> QED
      BY <3>1, <3>2
  <2>6. g = [d \in 0..m |-> g[d]]
    OBVIOUS
  <2> HIDE DEF g
  <2>7. [d \in 0..m |-> g[d]] = [d \in 0..m |-> IF d = 0 THEN 1 ELSE Base * g[d - 1]]
    BY <2>5
  <2>8. PowerTo(g, m)
    BY <2>6, <2>7 DEF PowerTo
  <2> QED
    BY <1>2, <2>8
<1> QED
  BY <1>3, <1>4

LEMMA TokenConstants ==
  /\ Base \in Nat \ {0} /\ Base >= 2
  /\ Digits \in Nat \ {0}
  /\ Parts \in Nat \ {0}
BY AppAssumption DEF Tok!TokenAssumption

LEMMA PowerIsRecursive == PowerTo(Tok!Power, Digits + 1)
<1> DEFINE Body(f) == [d \in 0..(Digits + 1) |-> IF d = 0 THEN 1 ELSE Base * f[d - 1]]
<1>1. \E f : f = Body(f)
  <2>1. PICK f : PowerTo(f, Digits + 1)
    BY PowerExists, TokenConstants
  <2>2. f = Body(f)
    BY <2>1 DEF PowerTo
  <2> HIDE DEF Body
  <2> QED
    BY <2>2
<1>2. Tok!Power = CHOOSE f : f = Body(f)
  BY DEF Tok!Power
<1>3. Tok!Power = Body(Tok!Power)
  <2> HIDE DEF Body
  <2> QED
    BY <1>1, <1>2
<1> QED
  BY <1>3 DEF PowerTo

LEMMA PowerSteps ==
  /\ Tok!Power[0] = 1
  /\ \A d \in 0..Digits : Tok!Power[d + 1] = Base * Tok!Power[d]
<1>1. Tok!Power = [d \in 0..(Digits + 1) |-> IF d = 0 THEN 1 ELSE Base * Tok!Power[d - 1]]
  BY PowerIsRecursive DEF PowerTo
<1>2. \A d \in 0..(Digits + 1) : Tok!Power[d] = IF d = 0 THEN 1 ELSE Base * Tok!Power[d - 1]
  BY <1>1
<1>3. 0 \in 0..(Digits + 1)
  BY TokenConstants
<1>4. ASSUME NEW d \in 0..Digits PROVE Tok!Power[d + 1] = Base * Tok!Power[d]
  <2>1. d + 1 \in 0..(Digits + 1) /\ d + 1 # 0 /\ (d + 1) - 1 = d
    BY TokenConstants
  <2> QED
    BY <1>2, <2>1
<1> QED
  BY <1>2, <1>3, <1>4

LEMMA PowersArePositive == \A d \in 0..(Digits + 1) : Tok!Power[d] \in Nat \ {0}
<1> DEFINE Bad == {d \in 0..(Digits + 1) : Tok!Power[d] \notin Nat \ {0}}
<1>1. SUFFICES ASSUME Bad # {} PROVE FALSE
  OBVIOUS
<1>2. Bad \subseteq Nat
  BY TokenConstants
<1>3. PICK d \in Bad : \A i \in Bad : d <= i
  BY <1>1, <1>2, LeastNumber
<1>4. d # 0
  BY PowerSteps, <1>3
<1>5. d - 1 \in 0..Digits /\ d - 1 \in 0..(Digits + 1) /\ ~ (d <= d - 1) /\ (d - 1) + 1 = d
  BY <1>3, <1>4, TokenConstants
<1>6. Tok!Power[d - 1] \in Nat \ {0}
  BY <1>3, <1>5
<1>7. Tok!Power[d] = Base * Tok!Power[d - 1]
  BY <1>5, PowerSteps
<1>8. Base * Tok!Power[d - 1] \in Nat \ {0}
  BY <1>6, TokenConstants, SMT
<1> QED
  BY <1>3, <1>7, <1>8

\* A number with fewer digits is smaller.
LEMMA PowersGrow ==
  ASSUME NEW d \in 0..Digits
  PROVE  Tok!Power[d] <= Tok!Power[Digits]
<1> DEFINE Bad == {i \in 0..Digits : ~ (Tok!Power[Digits - i] <= Tok!Power[Digits])}
<1>1. SUFFICES Bad = {}
  <2>1. Digits - d \in 0..Digits /\ Digits - (Digits - d) = d
    BY TokenConstants
  <2> QED
    BY <2>1
<1>2. SUFFICES ASSUME Bad # {} PROVE FALSE
  OBVIOUS
<1>3. Bad \subseteq Nat
  BY TokenConstants
<1>4. PICK i \in Bad : \A j \in Bad : i <= j
  BY <1>2, <1>3, LeastNumber
<1>5. i \in 0..Digits /\ ~ (Tok!Power[Digits - i] <= Tok!Power[Digits])
  BY <1>4
<1>6. Tok!Power[Digits] \in Nat \ {0} /\ Tok!Power[Digits - i] \in Nat \ {0}
  BY <1>5, PowersArePositive, TokenConstants
<1>7. i # 0
  <2> SUFFICES ASSUME i = 0 PROVE FALSE
    OBVIOUS
  <2>1. Digits - i = Digits
    BY TokenConstants
  <2> QED
    BY <1>5, <1>6, <2>1
<1>8. i - 1 \in 0..Digits /\ ~ (i <= i - 1) /\ Digits - i \in 0..Digits
      /\ (Digits - i) + 1 = Digits - (i - 1)
  BY <1>5, <1>7, TokenConstants
<1>9. Tok!Power[Digits - (i - 1)] <= Tok!Power[Digits]
  BY <1>4, <1>8
<1>10. Tok!Power[Digits - (i - 1)] = Base * Tok!Power[Digits - i]
  BY <1>8, PowerSteps
<1>11. Tok!Power[Digits - i] <= Base * Tok!Power[Digits - i]
  <2> DEFINE p == Tok!Power[Digits - i]
  <2>1. p \in Nat
    BY <1>6
  <2> HIDE DEF p
  <2>2. p <= Base * p
    BY <2>1, TokenConstants, SMT
  <2> QED
    BY <2>2 DEF p
<1> DEFINE x == Tok!Power[Digits - i]
           y == Base * Tok!Power[Digits - i]
           z == Tok!Power[Digits]
<1>12. x \in Nat /\ z \in Nat /\ y \in Nat /\ x <= y /\ y <= z /\ ~ (x <= z)
  BY <1>5, <1>6, <1>9, <1>10, <1>11, Products, TokenConstants
<1> HIDE DEF x, y, z
<1> QED
  BY <1>12

\* The leading one and the token's digits.
Led(m) == Tok!Capacity + m

LEMMA CapacityIsPositive == Tok!Capacity \in Nat \ {0} /\ Tok!Capacity = Tok!Power[Digits]
BY PowersArePositive, TokenConstants DEF Tok!Capacity

LEMMA ScaledIsLed ==
  ASSUME NEW r \in 0..(Tok!Capacity * Parts - 1)
  PROVE  /\ r \div Parts \in Nat /\ r \div Parts < Tok!Capacity
         /\ Tok!Scaled(r) = Led(r \div Parts)
<1> DEFINE c == Tok!Capacity
           m == r \div Parts
           s == r % Parts
           w == c * Parts
           x == m * Parts
<1>1. c \in Nat \ {0} /\ w \in Nat /\ r \in Nat /\ r < w
  <2>1. c \in Nat \ {0} /\ w \in Nat
    BY CapacityIsPositive, TokenConstants, Products
  <2> HIDE DEF c, w
  <2>2. r \in 0..(w - 1)
    BY DEF w, c
  <2> QED
    BY <2>1, <2>2
<1>2. m \in Nat /\ s \in Nat /\ s < Parts /\ r = x + s /\ x \in Nat
  BY <1>1, DivMod, TokenConstants, Products
<1> HIDE DEF m, s, x
<1>3. m < c
  <2> SUFFICES ASSUME ~ (m < c) PROVE FALSE
    OBVIOUS
  <2> HIDE DEF c, w
  <2>1. c <= m
    BY <1>1, <1>2
  <2>2. w <= x
    BY <1>1, <1>2, <2>1, TokenConstants, Grow DEF w, x
  <2> QED
    BY <1>1, <1>2, <2>2
<1>4. (w + r) \div Parts = c + m
  <2> HIDE DEF c, w
  <2>1. (c + m) * Parts = w + x
    BY <1>1, <1>2, TokenConstants, SMT DEF w, x
  <2>2. w + r \in Nat /\ c + m \in Nat /\ w + r = (c + m) * Parts + s
    BY <1>1, <1>2, <2>1
  <2>3. c + m \in Nat /\ w + r \in Nat /\ s \in Nat /\ Parts \in Nat \ {0} /\ s < Parts
    BY <1>2, <2>2, TokenConstants
  <2> DEFINE n == w + r
             q == c + m
  <2>4. n \in Nat /\ q \in Nat /\ n = q * Parts + s
    BY <2>2
  <2> HIDE DEF n, q
  <2>5. n \div Parts = q
    BY <2>3, <2>4, DivIs
  <2> QED
    BY <2>5 DEF n, q
<1> QED
  BY <1>2, <1>3, <1>4 DEF Tok!Scaled, Led, m

\* The leading one is the first of Digits + 1 digits.
LEMMA LedIsLong ==
  ASSUME NEW m \in Nat, m < Tok!Capacity
  PROVE  Tok!Length(Led(m)) = Digits + 1
<1> DEFINE n == Led(m)
           Fits(d) == Tok!Power[d - 1] <= n /\ n < Tok!Power[d]
<1>1. n \in Nat \ {0} /\ Tok!Capacity <= n /\ n < Tok!Capacity + Tok!Capacity
  BY CapacityIsPositive DEF Led
<1>2. Tok!Power[Digits + 1] = Base * Tok!Capacity
  BY PowerSteps, CapacityIsPositive, TokenConstants
<1>3. Tok!Capacity + Tok!Capacity <= Base * Tok!Capacity
  <2> DEFINE c == Tok!Capacity
  <2>1. c \in Nat
    BY CapacityIsPositive
  <2> HIDE DEF c
  <2>2. 2 * c <= Base * c
    BY <2>1, TokenConstants, Grow
  <2>3. c + c = 2 * c
    BY <2>1
  <2>4. c + c <= Base * c
    BY <2>2, <2>3
  <2> QED
    BY <2>4 DEF c
<1> HIDE DEF n
<1>4. Digits + 1 \in 1..(Digits + 1) /\ Fits(Digits + 1)
  <2>1. Digits + 1 \in 1..(Digits + 1) /\ (Digits + 1) - 1 = Digits
    BY TokenConstants
  <2>2. Tok!Power[Digits + 1] \in Nat /\ Tok!Capacity \in Nat
    BY PowersArePositive, CapacityIsPositive, TokenConstants
  <2> QED
    BY <1>1, <1>2, <1>3, <2>1, <2>2, CapacityIsPositive
<1>5. ASSUME NEW d \in 1..(Digits + 1), Fits(d) PROVE d = Digits + 1
  <2> SUFFICES ASSUME d # Digits + 1 PROVE FALSE
    OBVIOUS
  <2>1. d \in 0..Digits /\ d \in 0..(Digits + 1)
    BY TokenConstants
  <2>2. Tok!Power[d] <= Tok!Capacity /\ Tok!Power[d] \in Nat /\ Tok!Capacity \in Nat
    BY <2>1, PowersGrow, PowersArePositive, CapacityIsPositive
  <2> QED
    BY <1>1, <1>5, <2>2
<1>6. (CHOOSE d \in 1..(Digits + 1) : Fits(d)) = Digits + 1
  <2> HIDE DEF Fits
  <2> QED
    BY <1>4, <1>5
<1>7. Tok!Length(n) = CHOOSE d \in 1..(Digits + 1) : Fits(d)
  BY <1>1 DEF Tok!Length
<1> QED
  BY <1>6, <1>7 DEF n

\* The digits that are left without the leading one.
LEMMA DigitsOfAToken ==
  ASSUME NEW m \in Nat, m < Tok!Capacity
  PROVE  LET s == Tail(Tok!toString(Led(m))) IN
         /\ Len(s) = Digits
         /\ \A i \in 1..Digits : s[i] = (Led(m) \div Tok!Power[Digits - i]) % Base
<1> DEFINE s == Tail(Tok!toString(Led(m)))
           g(i) == (Led(m) \div Tok!Power[(Digits + 1) - i]) % Base
           t == [i \in 1..(Digits + 1) |-> g(i)]
<1>1. Tok!toString(Led(m)) = t
  BY LedIsLong DEF Tok!toString
<1>2. \A i \in 1..(Digits + 1) : g(i) \in Nat
  <2> SUFFICES ASSUME NEW i \in 1..(Digits + 1) PROVE g(i) \in Nat
    OBVIOUS
  <2>1. (Digits + 1) - i \in 0..(Digits + 1)
    BY TokenConstants
  <2>2. Tok!Power[(Digits + 1) - i] \in Nat \ {0} /\ Led(m) \in Nat
    BY <2>1, PowersArePositive, CapacityIsPositive DEF Led
  <2>3. Led(m) \div Tok!Power[(Digits + 1) - i] \in Nat
    BY <2>2, DivMod
  <2> QED
    BY <2>3, DivMod, TokenConstants
<1> HIDE DEF g
<1>3. t \in Seq(Nat) /\ Len(t) = Digits + 1 /\ \A i \in 1..(Digits + 1) : t[i] = g(i)
  BY <1>2, TokenConstants
<1> HIDE DEF t
<1>4. t # << >>
  BY <1>3, EmptySeq, TokenConstants
<1>5. /\ Len(Tail(t)) = Digits
      /\ \A i \in 1..Digits : Tail(t)[i] = t[i + 1]
  BY <1>3, <1>4, HeadTailProperties, TokenConstants
<1>6. ASSUME NEW i \in 1..Digits
      PROVE  s[i] = (Led(m) \div Tok!Power[Digits - i]) % Base
  <2>1. i + 1 \in 1..(Digits + 1) /\ (Digits + 1) - (i + 1) = Digits - i
    BY TokenConstants
  <2>2. g(i + 1) = (Led(m) \div Tok!Power[Digits - i]) % Base
    BY <2>1 DEF g
  <2> QED
    BY <1>1, <1>3, <1>5, <2>1, <2>2
<1> QED
  BY <1>1, <1>5, <1>6

\* The quotient one digit further.
LEMMA OneDigitMore ==
  ASSUME NEW m \in Nat, NEW k \in 1..Digits
  PROVE  LET q == Led(m) \div Tok!Power[Digits - k] IN
         /\ q \in Nat /\ q % Base \in 0..(Base - 1)
         /\ q = (Led(m) \div Tok!Power[Digits - (k - 1)]) * Base + (q % Base)
<1> DEFINE n == Led(m)
           p == Tok!Power[Digits - k]
           q == n \div p
<1>1. Digits - k \in 0..Digits /\ Digits - k \in 0..(Digits + 1)
      /\ (Digits - k) + 1 = Digits - (k - 1)
  BY TokenConstants
<1>2. p \in Nat \ {0} /\ n \in Nat
  BY <1>1, PowersArePositive, CapacityIsPositive DEF Led
<1>3. Tok!Power[Digits - (k - 1)] = Base * p
  BY <1>1, PowerSteps
<1> HIDE DEF n, p
<1>4. q \in Nat
  BY <1>2, DivMod
<1>5. n \div (p * Base) = q \div Base
  BY <1>2, TokenConstants, DivDiv
<1>6. p * Base = Base * p
  BY <1>2, TokenConstants
<1>7. n \div Tok!Power[Digits - (k - 1)] = q \div Base
  BY <1>3, <1>5, <1>6
<1> HIDE DEF q
<1>8. q % Base \in Nat /\ q % Base < Base /\ q = (q \div Base) * Base + (q % Base)
  BY <1>4, DivMod, TokenConstants
<1>9. q % Base \in 0..(Base - 1)
  BY <1>8, TokenConstants
<1> QED
  BY <1>4, <1>7, <1>8, <1>9 DEF q, p, n

\* A token read as a number is the number it was made of.
LEMMA TokenIsRead ==
  ASSUME NEW m \in Nat, m < Tok!Capacity
  PROVE  Tok!NumberOf(Tail(Tok!toString(Led(m)))) = m
<1> DEFINE n == Led(m)
           s == Tail(Tok!toString(Led(m)))
           q(k) == n \div Tok!Power[Digits - k]
<1>1. Len(s) = Digits /\ \A k \in 1..Digits : s[k] = q(k) % Base
  BY DigitsOfAToken
<1> HIDE DEF s
<1>2. \A k \in 0..Digits : q(k) \in Nat
  <2> SUFFICES ASSUME NEW k \in 0..Digits PROVE q(k) \in Nat
    OBVIOUS
  <2>1. Digits - k \in 0..(Digits + 1)
    BY TokenConstants
  <2>2. Tok!Power[Digits - k] \in Nat \ {0} /\ n \in Nat
    BY <2>1, PowersArePositive, CapacityIsPositive DEF Led
  <2> QED
    BY <2>2, DivMod
<1>3. \A k \in 1..Digits : q(k) = q(k - 1) * Base + s[k] /\ s[k] \in 0..(Base - 1)
  BY <1>1, OneDigitMore
<1>4. q(0) = 1 /\ q(Digits) = n
  <2>1. n \in Nat /\ n = 1 * Tok!Power[Digits] + m /\ m < Tok!Power[Digits]
        /\ Tok!Power[Digits] \in Nat \ {0} /\ Digits - 0 = Digits /\ Digits - Digits = 0
    BY CapacityIsPositive, TokenConstants DEF Led
  <2>2. n \div Tok!Power[Digits] = 1
    <3> DEFINE p == Tok!Power[Digits]
    <3>1. n \in Nat /\ n = 1 * p + m /\ m < p /\ p \in Nat \ {0} /\ 1 \in Nat
      BY <2>1
    <3> HIDE DEF p, n
    <3>2. n \div p = 1
      BY <3>1, DivIs
    <3> QED
      BY <3>2 DEF p
  <2>3. n \div 1 = n
    BY <2>1, DivIs
  <2> QED
    BY <2>1, <2>2, <2>3, PowerSteps
<1> HIDE DEF q
<1> DEFINE Body(value) == [k \in 0..Digits |-> IF k = 0 THEN 0 ELSE value[k - 1] * Base + s[k]]
<1>5. \E value : value = Body(value)
  <2> DEFINE value == [k \in 0..Digits |-> q(k) - Tok!Power[k]]
  <2>1. ASSUME NEW k \in 0..Digits
        PROVE  value[k] = IF k = 0 THEN 0 ELSE value[k - 1] * Base + s[k]
    <3>1. CASE k = 0
      <4>1. value[0] = q(0) - Tok!Power[0]
        BY TokenConstants
      <4> QED
        BY <3>1, <4>1, <1>4, PowerSteps
    <3>2. CASE k # 0
      <4>1. k \in 1..Digits /\ k - 1 \in 0..Digits /\ (k - 1) + 1 = k /\ k - 1 \in 0..(Digits + 1)
        BY <3>2, TokenConstants
      <4> DEFINE a == q(k - 1)
                 p == Tok!Power[k - 1]
      <4>2. a \in Nat /\ p \in Nat /\ s[k] \in Nat /\ q(k) = a * Base + s[k] /\ Tok!Power[k] = Base * p
        BY <4>1, <1>2, <1>3, PowersArePositive, PowerSteps
      <4>3. value[k] = q(k) - Tok!Power[k] /\ value[k - 1] = a - p
        BY <4>1
      <4> HIDE DEF a, p, value
      <4>4. (a * Base + s[k]) - Base * p = (a - p) * Base + s[k]
        BY <4>2, TokenConstants, SMT
      <4> QED
        BY <3>2, <4>2, <4>3, <4>4
    <3> QED
      BY <3>1, <3>2
  <2>2. value = [k \in 0..Digits |-> value[k]]
    OBVIOUS
  <2> HIDE DEF value
  <2>3. value = Body(value)
    BY <2>1, <2>2
  <2> HIDE DEF Body
  <2> QED
    BY <2>3
<1> DEFINE value == CHOOSE f : f = Body(f)
<1>6. Tok!NumberOf(s) = value[Digits]
  BY <1>1 DEF Tok!NumberOf
<1>7. value = Body(value)
  <2> HIDE DEF Body
  <2> QED
    BY <1>5
<1> HIDE DEF value
<1>8. \A k \in 0..Digits : value[k] = IF k = 0 THEN 0 ELSE value[k - 1] * Base + s[k]
  BY <1>7
<1> DEFINE Bad == {k \in 0..Digits : ~ (value[k] \in Int /\ value[k] + Tok!Power[k] = q(k))}
<1>9. Bad = {}
  <2>1. SUFFICES ASSUME Bad # {} PROVE FALSE
    OBVIOUS
  <2>2. Bad \subseteq Nat
    BY TokenConstants
  <2>3. PICK k \in Bad : \A j \in Bad : k <= j
    BY <2>1, <2>2, LeastNumber
  <2>4. k \in 0..Digits
    BY <2>3
  <2>5. CASE k = 0
    <3>1. value[0] = 0
      BY <1>8, <2>4, <2>5
    <3> QED
      BY <2>3, <2>5, <3>1, <1>4, PowerSteps
  <2>6. CASE k # 0
    <3>1. k \in 1..Digits /\ k - 1 \in 0..Digits /\ (k - 1) + 1 = k /\ ~ (k <= k - 1)
          /\ k - 1 \in 0..(Digits + 1)
      BY <2>4, <2>6, TokenConstants
    <3> DEFINE a == value[k - 1]
               p == Tok!Power[k - 1]
    <3>2. a \in Int /\ a + p = q(k - 1)
      BY <2>3, <3>1
    <3>3. p \in Nat /\ s[k] \in Nat /\ q(k) = q(k - 1) * Base + s[k] /\ Tok!Power[k] = Base * p
      BY <3>1, <1>3, PowersArePositive, PowerSteps
    <3>4. value[k] = a * Base + s[k]
      BY <1>8, <2>4, <2>6
    <3> HIDE DEF a, p
    <3>5. (a * Base + s[k]) + Base * p = (a + p) * Base + s[k] /\ a * Base + s[k] \in Int
      BY <3>2, <3>3, TokenConstants, SMT
    <3>6. value[k] \in Int /\ value[k] + Tok!Power[k] = q(k)
      BY <3>2, <3>3, <3>4, <3>5
    <3> QED
      BY <2>3, <3>6
  <2> QED
    BY <2>5, <2>6
<1>10. value[Digits] \in Int /\ value[Digits] + Tok!Power[Digits] = q(Digits)
  BY <1>9, TokenConstants
<1>11. value[Digits] + Tok!Capacity = Tok!Capacity + m
  BY <1>4, <1>10, CapacityIsPositive DEF Led
<1>12. value[Digits] = m
  BY <1>10, <1>11, CapacityIsPositive
<1> QED
  BY <1>6, <1>12 DEF s

\* A token is the one that its random number makes.
TokenInv ==
  /\ random \in 0..(Tok!Capacity * Parts - 1)
  /\ token = << >> \/ token = Tail(Tok!toString(Tok!Scaled(random)))

\* Editor._token: every token has all its digits, and Math.random() picks among all of
\* them evenly, for any radix, number of digits and fineness of the fraction.
THEOREM TokensAreUniform == Spec => []TokenIsUniform
<1>1. Init => TokenInv
  BY DEF Init, Tok!Init, TokenInv
<1>2. TokenInv /\ [Next]_vars => TokenInv'
  <2> SUFFICES ASSUME TokenInv, [Next]_vars PROVE TokenInv'
    OBVIOUS
  <2> DEFINE Made(r) == Tail(Tok!toString(Tok!Scaled(r)))
  <2>1. /\ random \in 0..(Tok!Capacity * Parts - 1)
        /\ token = << >> \/ token = Made(random)
    BY DEF TokenInv
  <2>2. TokenInv' <=> /\ random' \in 0..(Tok!Capacity * Parts - 1)
                      /\ token' = << >> \/ token' = Made(random')
    BY DEF TokenInv, Tok!Capacity, Tok!Power, Tok!toString, Tok!Length, Tok!Scaled
  <2>3. random' = random /\ (token' = token \/ token' = Made(random))
    BY DEF Next, vars, tokenVars, Tok!Next, Tok!MakeToken
  <2> HIDE DEF Made
  <2> QED
    BY <2>1, <2>2, <2>3
<1>3. TokenInv => TokenIsUniform
  <2> SUFFICES ASSUME TokenInv, token # << >>
               PROVE  /\ Len(token) = Digits
                      /\ \A i \in DOMAIN token : token[i] \in 0..(Base - 1)
                      /\ Tok!NumberOf(token) = random \div Parts
    BY DEF TokenIsUniform, Tok!TokenIsUniform
  <2> DEFINE m == random \div Parts
  <2>1. m \in Nat /\ m < Tok!Capacity /\ token = Tail(Tok!toString(Led(m)))
    BY ScaledIsLed DEF TokenInv
  <2> HIDE DEF m
  <2>2. Len(token) = Digits /\ \A i \in 1..Digits : token[i] = (Led(m) \div Tok!Power[Digits - i]) % Base
    BY <2>1, DigitsOfAToken
  <2>3. Tok!NumberOf(token) = m
    BY <2>1, TokenIsRead
  <2>4. ASSUME NEW i \in 1..Digits PROVE token[i] \in 0..(Base - 1)
    <3>1. (Led(m) \div Tok!Power[Digits - i]) % Base \in 0..(Base - 1)
      BY <2>1, OneDigitMore
    <3> QED
      BY <2>2, <3>1
  <2>5. DOMAIN token = 1..Digits
    BY <2>1, <2>2
  <2> QED
    BY <2>2, <2>3, <2>4, <2>5 DEF m
<1> QED
  BY <1>1, <1>2, <1>3, PTL DEF Spec
=============================================================================
