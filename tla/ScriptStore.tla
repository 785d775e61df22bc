---------------------------- MODULE ScriptStore ----------------------------
(***************************************************************************)
(* How a script travels from the web editor (components/editor/index.js)   *)
(* through the Firebase database to the list of scripts in the iOS client  *)
(* (ScriptVC.swift).  The editor pushes a record and shows its token; a     *)
(* ScriptVC asks for a snapshot of the database when it is loaded and at   *)
(* each refresh, and merges what comes back, on the main thread, into a    *)
(* dictionary from tokens to scripts.                                      *)
(*                                                                         *)
(* The push is not awaited.  Its key is made from the clock of the browser *)
(* that publishes, so keys need not follow the order in which the records  *)
(* reach the server; a snapshot lists its records in the order of the keys.*)
(*                                                                         *)
(* Every selection shows a new MainVC and every MainVC a new ScriptVC; the *)
(* older lists stay alive underneath, and their answers still arrive.      *)
(***************************************************************************)
EXTENDS Naturals, Sequences

CONSTANTS
  Tokens,      \* the tokens _token can draw
  Texts,       \* the scripts publishers write
  Unlisted,    \* the dictionary has no entry
  MaxKey,      \* bound: scripts published
  MaxLists,    \* bound: ScriptVCs loaded in one life of the app
  MaxRequests  \* bound: unanswered requests of one ScriptVC

ScriptStoreAssumption ==
  /\ Unlisted \notin Texts
  /\ MaxKey \in Nat
  /\ MaxLists \in Nat
  /\ MaxRequests \in Nat \ {0}

Record == [key : 1..MaxKey, token : Tokens, value : Texts]
List   == 1..MaxLists

VARIABLES
  pushing,     \* records pushed and not yet stored, in open browser pages
  alerted,     \* records whose token the editor has shown
  database,    \* the records below "scripts"
  top,         \* the view controller on screen: "main" or "list"
  opened,      \* number of ScriptVCs loaded; the last may be on screen
  asked,       \* asked[v]: requests of the v-th ScriptVC the server has not answered
  answers,     \* answers[v]: snapshots on their way to its main-thread block
  scripts,     \* scripts[v]: the dictionary its table shows
  seen,        \* history: seen[v] is the last snapshot merged
  launched     \* what has been handed to a MainVC as scriptToExecute, by token

webVars == <<pushing, alerted>>
appVars == <<top, opened, asked, answers, scripts, seen, launched>>
vars    == <<pushing, alerted, database, top, opened, asked, answers, scripts,
             seen, launched>>

Init ==
  /\ pushing = {}
  /\ alerted = {}
  /\ database = {}
  /\ top = "main"
  /\ opened = 0
  /\ asked = [v \in List |-> 0]
  /\ answers = [v \in List |-> << >>]
  /\ scripts = [v \in List |-> [t \in Tokens |-> Unlisted]]
  /\ seen = [v \in List |-> {}]
  /\ launched = {}
-----------------------------------------------------------------------------
(* The web editor. *)

\* The record is pushed under a fresh key and its token shown at once.  Nothing
\* compares the token with those already in use.
publishCallback(k, t, x) ==
  LET r == [key |-> k, token |-> t, value |-> x]
  IN  /\ \A q \in alerted : q.key # k
      /\ pushing' = pushing \cup {r}
      /\ alerted' = alerted \cup {r}
      /\ UNCHANGED <<database, appVars>>

\* A record arrives at the server.  Sent again after a reconnection it would be
\* written under the same key, with no effect.
ServerStores(r) ==
  /\ r \in pushing
  /\ pushing' = pushing \ {r}
  /\ database' = database \cup {r}
  /\ UNCHANGED <<alerted, appVars>>

\* A page is closed, and the records it had still to send are lost with it.
PageCloses(lost) ==
  /\ lost # {}
  /\ lost \subseteq pushing
  /\ pushing' = pushing \ lost
  /\ UNCHANGED <<alerted, database, appVars>>
-----------------------------------------------------------------------------
(* The iOS client, main thread. *)

requestScriptsFromDatabase(v) ==
  /\ asked[v] + Len(answers[v]) < MaxRequests
  /\ asked' = [asked EXCEPT ![v] = @ + 1]

\* MainVC.presentScriptVC and viewDidLoad of the new list.
presentScriptVC ==
  /\ top = "main"
  /\ opened < MaxLists
  /\ opened' = opened + 1
  /\ top' = "list"
  /\ requestScriptsFromDatabase(opened + 1)
  /\ UNCHANGED <<webVars, database, answers, scripts, seen, launched>>

\* Pull to refresh: the indicator is stopped without waiting for the answer, so
\* the user may pull again.
handleRefresh ==
  /\ top = "list"
  /\ requestScriptsFromDatabase(opened)
  /\ UNCHANGED <<webVars, database, top, opened, answers, scripts, seen, launched>>

\* The server answers the oldest request of a list with what it holds by then.
ServerAnswers(v) ==
  /\ asked[v] > 0
  /\ asked' = [asked EXCEPT ![v] = @ - 1]
  /\ answers' = [answers EXCEPT ![v] = Append(@, database)]
  /\ UNCHANGED <<webVars, database, top, opened, scripts, seen, launched>>

\* snapshot.children, by their place in the order of the keys: one or none.
ChildrenOf(snapshot, k) == {r \in snapshot : r.key = k}

Child(snapshot, k) == CHOOSE r \in ChildrenOf(snapshot, k) : TRUE

\* Faulty variant: a token already listed keeps its script.
MergedFirstWins(table, snapshot) ==
  LET dict[k \in 0..MaxKey] ==
        IF k = 0 THEN table
        ELSE IF \/ ChildrenOf(snapshot, k) = {}
                \/ dict[k - 1][Child(snapshot, k).token] # Unlisted
        THEN dict[k - 1]
        ELSE [dict[k - 1] EXCEPT ![Child(snapshot, k).token] = Child(snapshot, k).value]
  IN  dict[MaxKey]

\* The loop over the children: dict[k] is the dictionary when the children up to
\* the k-th key have been read.  It is not cleared first.
Merged(table, snapshot) ==
  LET dict[k \in 0..MaxKey] ==
        IF k = 0 THEN table
        ELSE IF ChildrenOf(snapshot, k) = {} THEN dict[k - 1]
        ELSE [dict[k - 1] EXCEPT ![Child(snapshot, k).token] = Child(snapshot, k).value]
  IN  dict[MaxKey]

\* The block given to observeSingleEvent, for whichever list asked.
ReceiveSnapshot(v) ==
  /\ answers[v] # << >>
  /\ scripts' = [scripts EXCEPT ![v] = Merged(@, Head(answers[v]))]
  /\ seen' = [seen EXCEPT ![v] = Head(answers[v])]
  /\ answers' = [answers EXCEPT ![v] = Tail(@)]
  /\ UNCHANGED <<webVars, database, top, opened, asked, launched>>

\* The user picks the row of token t; a new MainVC gets the script listed.
didSelectRowAt(t) ==
  /\ top = "list"
  /\ scripts[opened][t] # Unlisted
  /\ launched' = launched \cup {[token |-> t, value |-> scripts[opened][t]]}
  /\ top' = "main"
  /\ UNCHANGED <<webVars, database, opened, asked, answers, scripts, seen>>

\* A new MainVC without a script.
didTapBackButton ==
  /\ top = "list"
  /\ top' = "main"
  /\ UNCHANGED <<webVars, database, opened, asked, answers, scripts, seen, launched>>
-----------------------------------------------------------------------------
Web ==
  \/ \E k \in 1..MaxKey, t \in Tokens, x \in Texts : publishCallback(k, t, x)
  \/ \E lost \in SUBSET pushing : PageCloses(lost)

Server ==
  \/ \E r \in pushing : ServerStores(r)
  \/ \E v \in List : ServerAnswers(v)

App ==
  \/ presentScriptVC
  \/ handleRefresh
  \/ \E v \in List : ReceiveSnapshot(v)
  \/ \E t \in Tokens : didSelectRowAt(t)
  \/ didTapBackButton

Next == Web \/ Server \/ App

Spec == Init /\ [][Next]_vars

\* The network works, and the main thread runs the blocks it is given.  Nobody
\* has to publish, refresh, or keep a page open, and no push has to arrive.
Fairness ==
  \A v \in List : WF_vars(ServerAnswers(v)) /\ WF_vars(ReceiveSnapshot(v))

FairSpec == Spec /\ Fairness
-----------------------------------------------------------------------------
(* Properties *)

TypeOK ==
  /\ pushing \subseteq Record
  /\ alerted \subseteq Record
  /\ database \subseteq Record
  /\ top \in {"main", "list"}
  /\ opened \in 0..MaxLists
  /\ asked \in [List -> 0..MaxRequests]
  /\ answers \in [List -> Seq(SUBSET Record)]
  /\ \A v \in List : asked[v] + Len(answers[v]) <= MaxRequests
  /\ scripts \in [List -> [Tokens -> Texts \cup {Unlisted}]]
  /\ seen \in [List -> SUBSET Record]
  /\ launched \subseteq [token : Tokens, value : Texts]

WithToken(snapshot, t) == {r \in snapshot : r.token = t}

\* What a table should show for a snapshot: the script last published, by key,
\* under each token, and no other token.
Newest(snapshot, t) ==
  IF WithToken(snapshot, t) = {}
  THEN Unlisted
  ELSE (CHOOSE r \in WithToken(snapshot, t) :
          \A q \in WithToken(snapshot, t) : q.key <= r.key).value

\* Merging without clearing is enough: after each answer a list shows exactly
\* what the database held when that answer was made, however records arrive
\* and requests overlap.
ListShowsSnapshot ==
  \A v \in List, t \in Tokens : scripts[v][t] = Newest(seen[v], t)

\* Whatever a MainVC is given to run was published, and its publisher was shown
\* the token under which it was picked.
LaunchedWasAlerted ==
  launched \subseteq {[token |-> r.token, value |-> r.value] : r \in alerted}

\* A list that has an unanswered request comes to show every record stored by
\* now, or a newer one under the same token.
RequestShowsStored ==
  \A v \in List, k \in 1..MaxKey :
    (asked[v] > 0 /\ \E r \in database : r.key = k)
      ~> (\E r \in database, q \in seen[v] :
            /\ r.key = k
            /\ q.token = r.token
            /\ q.key >= k
            /\ scripts[v][r.token] = q.value)
=============================================================================
