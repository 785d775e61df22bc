------------------------------- MODULE MCApp -------------------------------
(***************************************************************************)
(* The parts of Mosaico that share no state with each other at the level   *)
(* they are modelled at, checked in one run: animations, imported models,  *)
(* the script store and tokens.  Every behaviour is one of a single part.  *)
(***************************************************************************)
EXTENDS Naturals

CONSTANTS None

CONSTANTS Animations, Nodes, Arguments
VARIABLES anim, running, inScene, current, due, calling, called
Anim == INSTANCE Animation

CONSTANTS Proxies, Stored, JSThreads
VARIABLES requested, answered, placed, wrapped, adding, found, loadQueue, step,
          loading, importedModelsList, direct, loaded, failed, late
Import == INSTANCE ModelImport WITH inScene <- placed, Threads <- JSThreads

CONSTANTS Tokens, Texts, Unlisted, MaxKey, MaxLists, MaxRequests
VARIABLES pushing, alerted, database, top, opened, asked, answers, scripts, seen,
          launched
Store == INSTANCE ScriptStore

CONSTANTS Base, Digits, Parts
VARIABLES random, token
Tok == INSTANCE Token

ASSUME AppAssumption ==
  /\ Anim!AnimationAssumption
  /\ Import!ImportAssumption
  /\ Store!ScriptStoreAssumption
  /\ Tok!TokenAssumption

VARIABLE part

animVars   == <<anim, running, inScene, current, due, calling, called>>
importVars == <<requested, answered, placed, wrapped, adding, found, loadQueue,
                step, loading, importedModelsList, direct, loaded, failed, late>>
storeVars  == <<pushing, alerted, database, top, opened, asked, answers, scripts,
                seen, launched>>
tokenVars  == <<random, token>>
vars == <<animVars, importVars, storeVars, tokenVars, part>>

Init ==
  /\ part \in {"animation", "import", "store", "token"}
  /\ Anim!Init /\ Import!Init /\ Store!Init /\ Tok!Init
  /\ part # "token" => random = 0

Next ==
  \/ /\ part = "animation" /\ Anim!Next
     /\ UNCHANGED <<part, importVars, storeVars, tokenVars>>
  \/ /\ part = "import" /\ Import!Next
     /\ UNCHANGED <<part, animVars, storeVars, tokenVars>>
  \/ /\ part = "store" /\ Store!Next
     /\ UNCHANGED <<part, animVars, importVars, tokenVars>>
  \/ /\ part = "token" /\ Tok!Next
     /\ UNCHANGED <<part, animVars, importVars, storeVars>>

\* Each part is fair as it is alone, the imports not at all; the parts that stand
\* still owe nothing.
Spec ==
  Init /\ [][Next]_vars /\ Anim!Fairness /\ Store!Fairness
-----------------------------------------------------------------------------
\* Node.run and the animate functions: one call per animation at most, and in
\* the end, while its node stays in the scene.
CompletedOnce   == Anim!TypeOK /\ Anim!CompletedOnce
ActionCallsBack == Anim!ActionCallsBack

\* Scene.importModel and add, were a model ever loaded: whatever comes first, it
\* is shown or can still be found.
ImportsMeet ==
  Import!TypeOK /\ Import!AddedIsShown /\ Import!TableKeepsTheRest

\* ScriptVC: a list shows the last snapshot it was given, and hands out only
\* what was published under the token picked.
ListsAreTrue ==
  Store!TypeOK /\ Store!ListShowsSnapshot /\ Store!LaunchedWasAlerted
RequestShowsStored == Store!RequestShowsStored

\* Editor._token: every token is complete and as likely as the others.
TokenIsUniform == Tok!TokenIsUniform
=============================================================================
