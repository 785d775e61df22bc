---------------------------- MODULE EngineProofs ----------------------------
(***************************************************************************)
(* Proofs about Engine, for every set of scripts and every number of       *)
(* MainVCs: IInv is inductive, and the safety properties follow from it.   *)
(* Only three actions change what waits on jsQueue; the lemmas about them  *)
(* first say where each waiting task was before the step.                  *)
(***************************************************************************)
EXTENDS Engine, TLAPS, SequenceTheorems

USE EngineAssumption DEF EngineAssumption, VC

-----------------------------------------------------------------------------
(* How the three kinds of step move the tasks. *)

\* Submit puts one task behind the others.
LEMMA SubmitMoves ==
  ASSUME jsQueue \in Seq(Task), NEW v \in VC, Submit(v)
  PROVE  /\ jsQueue' \in Seq(Task)
         /\ Len(jsQueue') = Len(jsQueue) + 1
         /\ \A i \in 1..Len(jsQueue) : jsQueue'[i] = jsQueue[i]
         /\ jsQueue'[Len(jsQueue) + 1] = [kind |-> "script", vc |-> v]
<1>1. [kind |-> "script", vc |-> v] \in Task
  BY DEF Task
<1> QED
  BY <1>1, AppendProperties DEF Submit

\* Dequeue takes the first task and moves the others forward.
LEMMA DequeueMoves ==
  ASSUME jsQueue \in Seq(Task), NEW kind, Dequeue(kind)
  PROVE  /\ jsQueue' \in Seq(Task)
         /\ Len(jsQueue) > 0
         /\ Len(jsQueue') = Len(jsQueue) - 1
         /\ \A i \in 1..Len(jsQueue') : jsQueue'[i] = jsQueue[i + 1]
         /\ jsQueue[1] = Head(jsQueue)
         /\ Head(jsQueue) \in Task
<1>1. jsQueue # << >>
  BY DEF Dequeue
<1>2. Head(jsQueue) = jsQueue[1]
  BY <1>1
<1> QED
  BY <1>1, <1>2, HeadTailProperties, EmptySeq DEF Dequeue

\* Setup puts only tasks of the new MainVC behind the others, among them an
\* "expose" and an "sdk", and for the first MainVC a "context" before all.
LEMMA SetupMoves ==
  ASSUME jsQueue \in Seq(Task), NEW v \in VC, jsQueue' = jsQueue \o SetupTasks(v)
  PROVE  /\ jsQueue' \in Seq(Task)
         /\ Len(jsQueue') > Len(jsQueue)
         /\ \A i \in 1..Len(jsQueue) : jsQueue'[i] = jsQueue[i]
         /\ \A i \in 1..Len(jsQueue') :
              i > Len(jsQueue) => jsQueue'[i].kind # "script"
         /\ \E i \in 1..Len(jsQueue') : jsQueue'[i].kind = "expose"
         /\ \E i \in 1..Len(jsQueue') : jsQueue'[i].kind = "sdk"
         /\ v = 1 /\ jsQueue = << >> => jsQueue'[1].kind = "context"
<1> DEFINE c == [kind |-> "context", vc |-> v]
           e == [kind |-> "expose", vc |-> v]
           k == [kind |-> "sdk", vc |-> v]
           q == jsQueue
<1>1. c \in Task /\ e \in Task /\ k \in Task
  BY DEF Task
<1>2. q \in Seq(Task) /\ Len(q) \in Nat
  BY LenProperties
<1>3. CASE v = 1
  <2>1. SetupTasks(v) = << c, e, k >>
    <3>1. SetupTasks(v) = << c >> \o << e, k >>
      BY <1>3 DEF SetupTasks
    <3>2. << c >> \in Seq(Task) /\ << e, k >> \in Seq(Task) /\ << c, e, k >> \in Seq(Task)
      BY <1>1
    <3>3. << c >> \o << e, k >> \in Seq(Task) /\ Len(<< c >> \o << e, k >>) = 3
      BY <3>2, ConcatProperties
    <3>4. \A i \in 1..3 : (<< c >> \o << e, k >>)[i] = << c, e, k >>[i]
      BY <3>2, ConcatProperties
    <3> HIDE DEF c, e, k
    <3> QED
      BY <3>1, <3>2, <3>3, <3>4, SeqEqual, Len(<< c, e, k >>) = 3
  <2>2. << c, e, k >> \in Seq(Task) /\ Len(<< c, e, k >>) = 3
    BY <1>1
  <2>3. /\ jsQueue' \in Seq(Task)
        /\ Len(jsQueue') = Len(q) + 3
        /\ \A i \in 1..(Len(q) + 3) :
             jsQueue'[i] = IF i <= Len(q) THEN q[i] ELSE << c, e, k >>[i - Len(q)]
    BY <1>2, <2>1, <2>2, ConcatProperties
  <2>4. /\ \A i \in 1..Len(q) : jsQueue'[i] = q[i]
        /\ jsQueue'[Len(q) + 1] = c
        /\ jsQueue'[Len(q) + 2] = e
        /\ jsQueue'[Len(q) + 3] = k
    BY <1>2, <2>3
  <2>5. \A i \in 1..Len(jsQueue') : i > Len(q) =>
          i = Len(q) + 1 \/ i = Len(q) + 2 \/ i = Len(q) + 3
    BY <1>2, <2>3
  <2>6. q = << >> => Len(q) = 0
    OBVIOUS
  <2> QED
    BY <1>2, <2>3, <2>4, <2>5, <2>6
<1>4. CASE v # 1
  <2>1. SetupTasks(v) = << e, k >>
    BY <1>1, <1>4, ConcatEmptySeq DEF SetupTasks
  <2>2. << e, k >> \in Seq(Task) /\ Len(<< e, k >>) = 2
    BY <1>1
  <2>3. /\ jsQueue' \in Seq(Task)
        /\ Len(jsQueue') = Len(q) + 2
        /\ \A i \in 1..(Len(q) + 2) :
             jsQueue'[i] = IF i <= Len(q) THEN q[i] ELSE << e, k >>[i - Len(q)]
    BY <1>2, <2>1, <2>2, ConcatProperties
  <2>4. /\ \A i \in 1..Len(q) : jsQueue'[i] = q[i]
        /\ jsQueue'[Len(q) + 1] = e
        /\ jsQueue'[Len(q) + 2] = k
    BY <1>2, <2>3
  <2>5. \A i \in 1..Len(jsQueue') : i > Len(q) => i = Len(q) + 1 \/ i = Len(q) + 2
    BY <1>2, <2>3
  <2> QED
    BY <1>2, <1>4, <2>3, <2>4, <2>5
<1> QED
  BY <1>3, <1>4
-----------------------------------------------------------------------------
(* Init, and the steps that leave jsQueue and its evaluation alone. *)

LEMMA InitHolds == Init => IInv
<1> SUFFICES ASSUME Init PROVE IInv
  OBVIOUS
<1>1. TypeOK
  <2>1. jsQueue \in Seq(Task)
    BY EmptySeq DEF Init
  <2>2. content \in [VC -> 0..MaxNodes] /\ script \in [VC -> Scripts \cup {NoScript}]
    BY DEF Init
  <2>3. context \in BOOLEAN /\ exposed \in BOOLEAN /\ console \in BOOLEAN
    BY DEF Init
  <2>4. loaded \in 0..MaxVC /\ appeared \in 0..loaded /\ evaluating \in 0..MaxVC
    BY DEF Init
  <2>5. finished = {} /\ failed = {} /\ blocks = {} /\ callbacks = {} /\ leftover = {}
    BY DEF Init
  <2> QED
    BY <2>1, <2>2, <2>3, <2>4, <2>5 DEF TypeOK
<1>2. Len(jsQueue) = 0
  BY DEF Init
<1>3. QueuedRuns = {} /\ Active = {}
  BY <1>2 DEF Init, QueuedRuns, Active
<1> QED
  BY <1>1, <1>2, <1>3
  DEF Init, IInv, LifecycleInOrder, QueueInOrder, RunsAccountedFor, SetupSubmitted, SetupAhead,
      SdkBeforeScript, ActiveIsKnown, OnlyUnfinishedRunsLeak

\* The part of IInv that is about jsQueue.
QueueInv ==
  /\ LifecycleInOrder
  /\ QueueInOrder
  /\ RunsAccountedFor
  /\ SetupSubmitted
  /\ SetupAhead
  /\ SdkBeforeScript

LEMMA QueueFrame ==
  ASSUME QueueInv, UNCHANGED <<vcVars, jsQueue, jsVars, evaluating, finished>>
  PROVE  QueueInv'
BY DEF QueueInv, LifecycleInOrder, QueueInOrder, RunsAccountedFor, SetupSubmitted, SetupAhead,
       SdkBeforeScript, IsTask, vcVars, jsVars

\* AddNode by a run that is active, or whose node is in the scene.
LEMMA AddNodeStep ==
  ASSUME IInv, NEW v \in VC, v \in Active, AddNode(v)
  PROVE  IInv'
<1>1. TypeOK'
  BY DEF IInv, TypeOK, AddNode, vcVars, jsVars
<1>2. QueueInv'
  BY QueueFrame DEF IInv, QueueInv, AddNode
<1>3. Active' = Active
  BY DEF AddNode, Active, QueuedRuns, vcVars
<1>4. ActiveIsKnown'
  BY <1>3 DEF IInv, ActiveIsKnown, AddNode, vcVars
<1>5. OnlyUnfinishedRunsLeak'
  BY DEF IInv, TypeOK, ActiveIsKnown, OnlyUnfinishedRunsLeak, AddNode, vcVars
<1> QED
  BY <1>1, <1>2, <1>4, <1>5 DEF IInv, QueueInv

LEMMA SetBlockStep ==
  ASSUME IInv, NEW v \in VC, v \in Active, SetBlock(v)
  PROVE  IInv'
<1>1. TypeOK'
  BY DEF IInv, TypeOK, SetBlock, vcVars, jsVars
<1>2. QueueInv'
  BY QueueFrame DEF IInv, QueueInv, SetBlock
<1>3. Active' = Active
  BY DEF SetBlock, Active, QueuedRuns, vcVars
<1>4. ActiveIsKnown' /\ OnlyUnfinishedRunsLeak'
  BY <1>3 DEF IInv, ActiveIsKnown, OnlyUnfinishedRunsLeak, SetBlock, vcVars
<1> QED
  BY <1>1, <1>2, <1>4 DEF IInv, QueueInv

LEMMA CallbackBeginsStep ==
  ASSUME IInv, NEW v \in VC, CallbackBegins(v)
  PROVE  IInv'
<1>1. TypeOK'
  BY DEF IInv, TypeOK, CallbackBegins, vcVars, jsVars
<1>2. QueueInv'
  BY QueueFrame DEF IInv, QueueInv, CallbackBegins
<1>3. Active' = Active \cup {v}
  BY DEF CallbackBegins, Active, QueuedRuns, vcVars
<1>4. v = loaded \/ v \in leftover
  BY DEF IInv, OnlyUnfinishedRunsLeak, CallbackBegins
<1>5. ActiveIsKnown' /\ OnlyUnfinishedRunsLeak'
  BY <1>3, <1>4
  DEF IInv, ActiveIsKnown, OnlyUnfinishedRunsLeak, CallbackBegins, vcVars
<1> QED
  BY <1>1, <1>2, <1>5 DEF IInv, QueueInv

LEMMA BlockBeginsStep ==
  ASSUME IInv, NEW v \in VC, BlockBegins(v)
  PROVE  IInv'
<1>1. TypeOK'
  BY DEF IInv, TypeOK, BlockBegins, vcVars, jsVars
<1>2. QueueInv'
  BY QueueFrame DEF IInv, QueueInv, BlockBegins
<1>3. Active' \subseteq Active
  BY DEF BlockBegins, Active, QueuedRuns, vcVars
<1>4. ActiveIsKnown' /\ OnlyUnfinishedRunsLeak'
  BY <1>3 DEF IInv, ActiveIsKnown, OnlyUnfinishedRunsLeak, BlockBegins, vcVars
<1> QED
  BY <1>1, <1>2, <1>4 DEF IInv, QueueInv

LEMMA EndCallbackStep ==
  ASSUME IInv, NEW v \in VC, EndCallback(v),
         failed' = failed \/ failed' = failed \cup {v}
  PROVE  IInv'
<1>1. TypeOK'
  BY DEF IInv, TypeOK, EndCallback, vcVars, jsVars
<1>2. QueueInv'
  BY QueueFrame DEF IInv, QueueInv, EndCallback
<1>3. Active' \subseteq Active
  BY DEF EndCallback, Active, QueuedRuns, vcVars
<1>4. ActiveIsKnown' /\ OnlyUnfinishedRunsLeak'
  BY <1>3 DEF IInv, ActiveIsKnown, OnlyUnfinishedRunsLeak, EndCallback, vcVars
<1> QED
  BY <1>1, <1>2, <1>4 DEF IInv, QueueInv
-----------------------------------------------------------------------------
(* The end of an evaluation. *)

LEMMA EndEvaluationStep ==
  ASSUME IInv, EndEvaluation, failed' = failed \/ failed' = failed \cup {evaluating}
  PROVE  IInv'
<1>1. evaluating \in VC
  BY DEF IInv, TypeOK, EndEvaluation
<1>2. TypeOK'
  <2>1. finished' \subseteq VC /\ failed' \subseteq VC
    BY <1>1 DEF IInv, TypeOK, EndEvaluation
  <2>2. evaluating' \in 0..MaxVC
    BY DEF EndEvaluation
  <2> QED
    BY <2>1, <2>2 DEF IInv, TypeOK, EndEvaluation, vcVars, jsVars
<1>3. LifecycleInOrder' /\ SdkBeforeScript'
  BY DEF IInv, TypeOK, LifecycleInOrder, SdkBeforeScript, EndEvaluation, vcVars
<1>4. QueueInOrder'
  <2>1. \A i \in 1..Len(jsQueue) : jsQueue[i] \in Task
    BY ElementOfSeq DEF IInv, TypeOK
  <2>2. \A i \in 1..Len(jsQueue) : jsQueue[i].vc > 0
    BY <2>1 DEF Task
  <2> QED
    BY <2>2 DEF IInv, QueueInOrder, EndEvaluation, vcVars
<1>5. RunsAccountedFor'
  BY DEF IInv, RunsAccountedFor, EndEvaluation, vcVars
<1>6. SetupSubmitted' /\ SetupAhead'
  BY DEF IInv, SetupSubmitted, SetupAhead, IsTask, EndEvaluation, vcVars, jsVars
<1>7. Active' \subseteq Active
  BY DEF EndEvaluation, Active, QueuedRuns, vcVars
<1>8. ActiveIsKnown' /\ OnlyUnfinishedRunsLeak'
  BY <1>7 DEF IInv, ActiveIsKnown, OnlyUnfinishedRunsLeak, EndEvaluation, vcVars
<1> QED
  BY <1>2, <1>3, <1>4, <1>5, <1>6, <1>8 DEF IInv
-----------------------------------------------------------------------------
(* The steps of the worker. *)

\* Whatever the first task is, the others keep their order and what is ahead of
\* them, apart from the task that is taken.
LEMMA DequeueKeepsOrder ==
  ASSUME IInv, NEW kind, Dequeue(kind), evaluating' = 0
  PROVE  QueueInOrder' /\ Active' \subseteq Active
<1>1. jsQueue \in Seq(Task)
  BY DEF IInv, TypeOK
<1>2. Len(jsQueue) \in Nat /\ \A i \in 1..Len(jsQueue) : jsQueue[i].vc \in VC
  <2>1. Len(jsQueue) \in Nat /\ \A i \in 1..Len(jsQueue) : jsQueue[i] \in Task
    BY <1>1, LenProperties, ElementOfSeq
  <2> QED
    BY <2>1 DEF Task
<1>3. /\ Len(jsQueue') = Len(jsQueue) - 1
      /\ \A i \in 1..Len(jsQueue') : jsQueue'[i] = jsQueue[i + 1]
  BY <1>1, DequeueMoves
<1>4. \A i \in 1..Len(jsQueue') : i + 1 \in 1..Len(jsQueue)
  BY <1>2, <1>3
<1>5. QueueInOrder'
  <2>1. appeared' = appeared
    BY DEF Dequeue, vcVars
  <2> SUFFICES ASSUME NEW i \in 1..Len(jsQueue'), jsQueue'[i].kind = "script"
               PROVE  /\ jsQueue'[i].vc <= appeared'
                      /\ jsQueue'[i].vc > evaluating'
                      /\ \A j \in 1..Len(jsQueue') :
                           j < i /\ jsQueue'[j].kind = "script"
                             => jsQueue'[j].vc < jsQueue'[i].vc
    BY DEF QueueInOrder
  <2>2. jsQueue'[i].vc <= appeared' /\ jsQueue'[i].vc > evaluating'
    BY <1>2, <1>3, <1>4, <2>1 DEF IInv, QueueInOrder
  <2>3. ASSUME NEW j \in 1..Len(jsQueue'), j < i, jsQueue'[j].kind = "script"
        PROVE  jsQueue'[j].vc < jsQueue'[i].vc
    <3>1. j + 1 < i + 1
      BY <2>3
    <3> QED
      BY <1>3, <1>4, <2>3, <3>1 DEF IInv, QueueInOrder
  <2> QED
    BY <2>2, <2>3
<1>6. QueuedRuns' \subseteq QueuedRuns
  BY <1>3, <1>4 DEF QueuedRuns
<1>7. Active' \subseteq Active
  BY <1>6 DEF Active, Dequeue
<1> QED
  BY <1>5, <1>7

\* A task of another kind than the one taken is still there, one place further
\* to the front.
LEMMA DequeueKeepsOthers ==
  ASSUME IInv, NEW kind, Dequeue(kind),
         NEW n \in 1..Len(jsQueue), NEW j \in 1..n, jsQueue[j].kind # kind
  PROVE  j - 1 \in 1..(n - 1) /\ j - 1 \in 1..Len(jsQueue') /\ jsQueue'[j - 1] = jsQueue[j]
<1>1. jsQueue \in Seq(Task) /\ Len(jsQueue) \in Nat
  BY LenProperties DEF IInv, TypeOK
<1>2. /\ Len(jsQueue') = Len(jsQueue) - 1
      /\ \A i \in 1..Len(jsQueue') : jsQueue'[i] = jsQueue[i + 1]
      /\ jsQueue[1] = Head(jsQueue)
  BY <1>1, DequeueMoves
<1>3. j # 1
  BY <1>2 DEF Dequeue
<1>4. j - 1 \in 1..(n - 1) /\ j - 1 \in 1..Len(jsQueue') /\ (j - 1) + 1 = j
  BY <1>1, <1>2, <1>3
<1> QED
  BY <1>2, <1>4

\* What the three tasks of setup have in common.
LEMMA SetupTaskStep ==
  ASSUME IInv, NEW kind, Dequeue(kind), kind # "script",
         evaluating' = evaluating,
         kind = "context" => context',
         kind = "expose" => exposed',
         kind = "sdk" => console',
         context => context', exposed => exposed', console => console',
         context' \in BOOLEAN, exposed' \in BOOLEAN, console' \in BOOLEAN
  PROVE  IInv'
<1>1. jsQueue \in Seq(Task) /\ Len(jsQueue) \in Nat
  BY LenProperties DEF IInv, TypeOK
<1>2. /\ jsQueue' \in Seq(Task)
      /\ Len(jsQueue) > 0
      /\ Len(jsQueue') = Len(jsQueue) - 1
      /\ \A i \in 1..Len(jsQueue') : jsQueue'[i] = jsQueue[i + 1]
      /\ jsQueue[1] = Head(jsQueue)
  BY <1>1, DequeueMoves
<1>3. \A i \in 1..Len(jsQueue') : i + 1 \in 1..Len(jsQueue)
  BY <1>1, <1>2
<1>4. evaluating = 0 /\ evaluating' = 0
  BY DEF Dequeue
<1>5. TypeOK'
  BY <1>2 DEF IInv, TypeOK, Dequeue, vcVars
<1>6. QueueInOrder' /\ Active' \subseteq Active
  BY <1>4, DequeueKeepsOrder
<1>7. RunsAccountedFor'
  <2> SUFFICES ASSUME NEW v \in 1..appeared, script[v] # NoScript, v \notin finished
               PROVE  \E i \in 1..Len(jsQueue') :
                        jsQueue'[i] = [kind |-> "script", vc |-> v]
    BY DEF RunsAccountedFor, Dequeue, vcVars
  <2>1. PICK i \in 1..Len(jsQueue) : jsQueue[i] = [kind |-> "script", vc |-> v]
    BY <1>4 DEF IInv, RunsAccountedFor
  <2>2. jsQueue[i].kind # kind
    BY <2>1
  <2> QED
    BY <1>1, <1>2, <2>1, <2>2, DequeueKeepsOthers
<1>8. SetupSubmitted'
  <2>0. loaded > 0 /\ loaded' = loaded
    BY DEF IInv, TypeOK, SetupSubmitted, Dequeue, vcVars
  <2>1. context'
    BY <1>2, <2>0 DEF IInv, SetupSubmitted, IsTask, Dequeue
  <2>2. exposed' \/ \E j \in 1..Len(jsQueue') : jsQueue'[j].kind = "expose"
    <3> SUFFICES ASSUME ~exposed' PROVE \E j \in 1..Len(jsQueue') : jsQueue'[j].kind = "expose"
      OBVIOUS
    <3>1. PICK j \in 1..Len(jsQueue) : jsQueue[j].kind = "expose"
      BY <2>0 DEF IInv, SetupSubmitted
    <3> QED
      BY <1>1, <1>2, <3>1, DequeueKeepsOthers
  <2>3. console' \/ \E j \in 1..Len(jsQueue') : jsQueue'[j].kind = "sdk"
    <3> SUFFICES ASSUME ~console' PROVE \E j \in 1..Len(jsQueue') : jsQueue'[j].kind = "sdk"
      OBVIOUS
    <3>1. PICK j \in 1..Len(jsQueue) : jsQueue[j].kind = "sdk"
      BY <2>0 DEF IInv, SetupSubmitted
    <3> QED
      BY <1>1, <1>2, <3>1, DequeueKeepsOthers
  <2> QED
    BY <2>0, <2>1, <2>2, <2>3 DEF SetupSubmitted
<1>9. SetupAhead'
  <2> SUFFICES ASSUME NEW i \in 1..Len(jsQueue'), jsQueue'[i].kind = "script"
               PROVE  /\ exposed' \/ \E j \in 1..(i - 1) : jsQueue'[j].kind = "expose"
                      /\ console' \/ \E j \in 1..(i - 1) : jsQueue'[j].kind = "sdk"
    BY DEF SetupAhead
  <2>1. i + 1 \in 1..Len(jsQueue) /\ jsQueue[i + 1].kind = "script" /\ i \in 1..Len(jsQueue)
    BY <1>1, <1>2, <1>3
  <2>2. exposed \/ \E j \in 1..i : jsQueue[j].kind = "expose"
    BY <2>1 DEF IInv, SetupAhead
  <2>3. console \/ \E j \in 1..i : jsQueue[j].kind = "sdk"
    BY <2>1 DEF IInv, SetupAhead
  <2>4. exposed' \/ \E j \in 1..(i - 1) : jsQueue'[j].kind = "expose"
    BY <2>1, <2>2, DequeueKeepsOthers
  <2>5. console' \/ \E j \in 1..(i - 1) : jsQueue'[j].kind = "sdk"
    BY <2>1, <2>3, DequeueKeepsOthers
  <2> QED
    BY <2>4, <2>5
<1>10. ActiveIsKnown' /\ OnlyUnfinishedRunsLeak'
  BY <1>6 DEF IInv, ActiveIsKnown, OnlyUnfinishedRunsLeak, Dequeue, vcVars
<1> QED
  BY <1>4, <1>5, <1>6, <1>7, <1>8, <1>9, <1>10
  DEF IInv, TypeOK, LifecycleInOrder, SdkBeforeScript, Dequeue, vcVars

\* The script at the head of jsQueue has nothing in front of it, so everything
\* setup provides is already there.
LEMMA BeginScriptStep ==
  ASSUME IInv, BeginScript
  PROVE  IInv'
<1> DEFINE v == Head(jsQueue).vc
<1>1. jsQueue \in Seq(Task) /\ Len(jsQueue) \in Nat
  BY LenProperties DEF IInv, TypeOK
<1>2. /\ jsQueue' \in Seq(Task)
      /\ Len(jsQueue) > 0
      /\ Len(jsQueue') = Len(jsQueue) - 1
      /\ \A i \in 1..Len(jsQueue') : jsQueue'[i] = jsQueue[i + 1]
      /\ jsQueue[1] = Head(jsQueue)
      /\ Head(jsQueue) \in Task
  BY <1>1, DequeueMoves DEF BeginScript
<1>3. /\ evaluating = 0
      /\ jsQueue[1].kind = "script"
      /\ v \in VC
      /\ 1 \in 1..Len(jsQueue)
      /\ evaluating' = v
  BY <1>1, <1>2 DEF BeginScript, Dequeue, Task
<1>4. v <= appeared /\ loaded > 0
  BY <1>2, <1>3 DEF IInv, TypeOK, QueueInOrder
<1>5. \A i \in 1..Len(jsQueue') : i + 1 \in 1..Len(jsQueue) /\ 1 < i + 1
  BY <1>1, <1>2
<1>6. TypeOK'
  BY <1>2, <1>3 DEF IInv, TypeOK, BeginScript, Dequeue, vcVars, jsVars
<1>7. LifecycleInOrder'
  BY <1>3, <1>4 DEF IInv, LifecycleInOrder, BeginScript, Dequeue, vcVars
<1>8. QueueInOrder'
  <2> SUFFICES ASSUME NEW i \in 1..Len(jsQueue'), jsQueue'[i].kind = "script"
               PROVE  /\ jsQueue'[i].vc <= appeared
                      /\ jsQueue'[i].vc > v
                      /\ \A j \in 1..Len(jsQueue') :
                           j < i /\ jsQueue'[j].kind = "script"
                             => jsQueue'[j].vc < jsQueue'[i].vc
    BY <1>3 DEF QueueInOrder, BeginScript, Dequeue, vcVars
  <2>1. i + 1 \in 1..Len(jsQueue) /\ jsQueue[i + 1] = jsQueue'[i]
    BY <1>2, <1>5
  <2>2. jsQueue'[i].vc <= appeared /\ jsQueue[1].vc < jsQueue'[i].vc
    BY <1>3, <1>5, <2>1 DEF IInv, QueueInOrder
  <2>3. jsQueue'[i] \in Task
    BY <1>2, ElementOfSeq
  <2>4. jsQueue'[i].vc > v
    BY <1>2, <1>3, <2>2, <2>3 DEF Task
  <2>5. ASSUME NEW j \in 1..Len(jsQueue'), j < i, jsQueue'[j].kind = "script"
        PROVE  jsQueue'[j].vc < jsQueue'[i].vc
    <3>1. j + 1 < i + 1 /\ j + 1 \in 1..Len(jsQueue) /\ jsQueue[j + 1] = jsQueue'[j]
      BY <1>2, <1>5, <2>5
    <3> QED
      BY <2>1, <2>5, <3>1 DEF IInv, QueueInOrder
  <2> QED
    BY <2>2, <2>4, <2>5
<1>9. RunsAccountedFor'
  <2> SUFFICES ASSUME NEW u \in 1..appeared, script[u] # NoScript, u \notin finished, u # v
               PROVE  \E i \in 1..Len(jsQueue') :
                        jsQueue'[i] = [kind |-> "script", vc |-> u]
    BY <1>3 DEF RunsAccountedFor, BeginScript, Dequeue, vcVars
  <2>1. PICK i \in 1..Len(jsQueue) : jsQueue[i] = [kind |-> "script", vc |-> u]
    BY <1>3 DEF IInv, RunsAccountedFor
  <2>2. i # 1
    BY <1>2, <2>1
  <2>3. i - 1 \in 1..Len(jsQueue') /\ (i - 1) + 1 = i
    BY <1>1, <1>2, <2>2
  <2> QED
    BY <1>2, <2>1, <2>3
<1>10. context /\ exposed /\ console
  <2>1. context
    BY <1>3, <1>4 DEF IInv, SetupSubmitted, IsTask
  <2>2. exposed /\ console
    BY <1>3 DEF IInv, SetupAhead
  <2> QED
    BY <2>1, <2>2
<1>11. SetupSubmitted' /\ SetupAhead' /\ SdkBeforeScript'
  BY <1>4, <1>10
  DEF SetupSubmitted, SetupAhead, SdkBeforeScript, BeginScript, Dequeue, jsVars, vcVars
<1>12. Active' \subseteq Active
  <2>1. QueuedRuns' \subseteq QueuedRuns
    BY <1>2, <1>5 DEF QueuedRuns
  <2>2. jsQueue[1] = [kind |-> "script", vc |-> v]
    BY <1>2, <1>3 DEF Task
  <2>3. v \in QueuedRuns
    BY <1>3, <2>2 DEF QueuedRuns
  <2> QED
    BY <1>3, <2>1, <2>3 DEF Active, BeginScript, Dequeue
<1>13. ActiveIsKnown' /\ OnlyUnfinishedRunsLeak'
  BY <1>12
  DEF IInv, ActiveIsKnown, OnlyUnfinishedRunsLeak, BeginScript, Dequeue, vcVars
<1> QED
  BY <1>6, <1>7, <1>8, <1>9, <1>11, <1>13 DEF IInv
-----------------------------------------------------------------------------
(* The main thread. *)

\* What emptying the scene does to the parts of IInv about the scene.
LEMMA EmptiedScene ==
  ASSUME IInv, RemoveSceneContent,
         \A v \in Active' : v = loaded' \/ v \in Active
  PROVE  /\ ActiveIsKnown'
         /\ OnlyUnfinishedRunsLeak'
         /\ content' \in [VC -> 0..MaxNodes]
         /\ leftover' \subseteq VC
<1>1. Active \subseteq VC
  BY DEF IInv, TypeOK, Active, QueuedRuns
<1> QED
  BY <1>1 DEF ActiveIsKnown, OnlyUnfinishedRunsLeak, RemoveSceneContent

LEMMA AppearIdleStep ==
  ASSUME IInv, AppearIdle
  PROVE  IInv'
<1>1. TypeOK'
  BY DEF IInv, TypeOK, AppearIdle, jsVars
<1>2. /\ appeared \in Nat /\ loaded \in Nat /\ appeared' = loaded /\ appeared < loaded
      /\ \A i \in 1..Len(jsQueue) : jsQueue[i] \in Task
  BY ElementOfSeq DEF IInv, TypeOK, AppearIdle
<1>3. LifecycleInOrder' /\ loaded = appeared + 1
  BY <1>2 DEF IInv, TypeOK, LifecycleInOrder, AppearIdle
<1>4. QueueInOrder'
  BY <1>2 DEF IInv, QueueInOrder, Task, AppearIdle
<1>5. RunsAccountedFor'
  <2>1. \A v \in 1..appeared' : script'[v] # NoScript => v \in 1..appeared
    BY <1>2, <1>3 DEF AppearIdle
  <2> QED
    BY <2>1 DEF IInv, RunsAccountedFor, AppearIdle
<1>6. SetupSubmitted' /\ SetupAhead' /\ SdkBeforeScript'
  BY DEF IInv, SetupSubmitted, SetupAhead, SdkBeforeScript, IsTask, AppearIdle, jsVars
<1>7. Active' = Active
  BY DEF Active, QueuedRuns, AppearIdle
<1>8. ActiveIsKnown' /\ OnlyUnfinishedRunsLeak'
  BY <1>7 DEF IInv, ActiveIsKnown, OnlyUnfinishedRunsLeak, AppearIdle
<1> QED
  BY <1>1, <1>3, <1>4, <1>5, <1>6, <1>8 DEF IInv

LEMMA RunScriptStep ==
  ASSUME IInv, RunScript
  PROVE  IInv'
<1> DEFINE n == Len(jsQueue)
<1>1. /\ jsQueue \in Seq(Task) /\ n \in Nat
      /\ appeared \in Nat /\ loaded \in VC /\ evaluating \in Nat
      /\ loaded = appeared + 1 /\ appeared' = loaded /\ evaluating < loaded
      /\ \A i \in 1..n : jsQueue[i] \in Task
  BY LenProperties, ElementOfSeq DEF IInv, TypeOK, LifecycleInOrder, RunScript
<1>2. /\ jsQueue' \in Seq(Task)
      /\ Len(jsQueue') = n + 1
      /\ \A i \in 1..n : jsQueue'[i] = jsQueue[i]
      /\ jsQueue'[n + 1] = [kind |-> "script", vc |-> loaded]
  BY <1>1, SubmitMoves DEF RunScript
<1>3. 1..Len(jsQueue') = 1..n \cup {n + 1}
  BY <1>1, <1>2
<1>4. LifecycleInOrder'
  BY <1>1 DEF LifecycleInOrder, RunScript
<1>5. QueueInOrder'
  <2>1. \A i \in 1..n : jsQueue[i].kind = "script" => jsQueue[i].vc <= appeared
    BY DEF IInv, QueueInOrder
  <2> SUFFICES ASSUME NEW i \in 1..Len(jsQueue'), jsQueue'[i].kind = "script"
               PROVE  /\ jsQueue'[i].vc <= loaded
                      /\ jsQueue'[i].vc > evaluating
                      /\ \A j \in 1..Len(jsQueue') :
                           j < i /\ jsQueue'[j].kind = "script"
                             => jsQueue'[j].vc < jsQueue'[i].vc
    BY <1>1 DEF QueueInOrder, RunScript
  <2>2. CASE i = n + 1
    <3>1. \A j \in 1..Len(jsQueue') : j < i => j \in 1..n /\ jsQueue'[j] = jsQueue[j]
      BY <1>1, <1>2, <1>3, <2>2
    <3>2. \A j \in 1..n : jsQueue[j].vc \in Nat
      BY <1>1 DEF Task
    <3> QED
      BY <1>1, <1>2, <2>1, <2>2, <3>1, <3>2
  <2>3. CASE i \in 1..n
    <3>1. jsQueue'[i] = jsQueue[i] /\ jsQueue[i].vc \in Nat
      BY <1>1, <1>2, <2>3 DEF Task
    <3>2. jsQueue[i].vc <= appeared /\ jsQueue[i].vc > evaluating
      BY <2>3, <3>1 DEF IInv, QueueInOrder
    <3>3. \A j \in 1..Len(jsQueue') : j < i => j \in 1..n /\ jsQueue'[j] = jsQueue[j]
      BY <1>1, <1>2, <1>3, <2>3
    <3>4. \A j \in 1..n : j < i /\ jsQueue[j].kind = "script"
            => jsQueue[j].vc < jsQueue[i].vc
      BY <2>3, <3>1 DEF IInv, QueueInOrder
    <3> QED
      BY <1>1, <3>1, <3>2, <3>3, <3>4
  <2> QED
    BY <1>3, <2>2, <2>3
<1>6. RunsAccountedFor'
  <2> SUFFICES ASSUME NEW v \in 1..loaded, script[v] # NoScript,
                      v \notin finished, v # evaluating
               PROVE  \E i \in 1..Len(jsQueue') :
                        jsQueue'[i] = [kind |-> "script", vc |-> v]
    BY <1>1 DEF RunsAccountedFor, RunScript
  <2>1. CASE v = loaded
    BY <1>2, <1>3, <2>1
  <2>2. CASE v \in 1..appeared
    <3>1. PICK i \in 1..n : jsQueue[i] = [kind |-> "script", vc |-> v]
      BY <2>2 DEF IInv, RunsAccountedFor
    <3> QED
      BY <1>2, <1>3, <3>1
  <2> QED
    BY <1>1, <2>1, <2>2
<1>7. SetupSubmitted'
  BY <1>1, <1>2, <1>3 DEF IInv, SetupSubmitted, IsTask, RunScript, jsVars
<1>8. SetupAhead'
  <2> SUFFICES ASSUME NEW i \in 1..Len(jsQueue'), jsQueue'[i].kind = "script"
               PROVE  /\ exposed \/ \E j \in 1..(i - 1) : jsQueue'[j].kind = "expose"
                      /\ console \/ \E j \in 1..(i - 1) : jsQueue'[j].kind = "sdk"
    BY DEF SetupAhead, RunScript, jsVars
  <2>1. /\ exposed \/ \E j \in 1..(i - 1) : j \in 1..n /\ jsQueue[j].kind = "expose"
        /\ console \/ \E j \in 1..(i - 1) : j \in 1..n /\ jsQueue[j].kind = "sdk"
    <3>1. CASE i = n + 1
      BY <1>1, <3>1 DEF IInv, SetupSubmitted
    <3>2. CASE i \in 1..n
      <4>1. \A j \in 1..(i - 1) : j \in 1..n
        BY <1>1, <3>2
      <4> QED
        BY <1>2, <3>2, <4>1 DEF IInv, SetupAhead
    <3> QED
      BY <1>3, <3>1, <3>2
  <2> QED
    BY <1>2, <2>1
<1>9. SdkBeforeScript'
  BY DEF IInv, SdkBeforeScript, RunScript, jsVars
<1>10. \A v \in Active' : v = loaded' \/ v \in Active
  <2>1. QueuedRuns' \subseteq QueuedRuns \cup {loaded}
    BY <1>2, <1>3 DEF QueuedRuns
  <2> QED
    BY <2>1 DEF Active, RunScript
<1>11. /\ ActiveIsKnown' /\ OnlyUnfinishedRunsLeak'
       /\ content' \in [VC -> 0..MaxNodes] /\ leftover' \subseteq VC
  BY <1>10, EmptiedScene DEF RunScript
<1>12. TypeOK'
  BY <1>1, <1>2, <1>11 DEF IInv, TypeOK, RunScript, jsVars
<1> QED
  BY <1>4, <1>5, <1>6, <1>7, <1>8, <1>9, <1>11, <1>12 DEF IInv

LEMMA ViewDidLoadStep ==
  ASSUME IInv, NEW s \in Scripts \cup {NoScript}, ViewDidLoad(s)
  PROVE  IInv'
<1> DEFINE n == Len(jsQueue)
<1>1. /\ jsQueue \in Seq(Task) /\ n \in Nat
      /\ appeared \in Nat /\ evaluating \in Nat /\ evaluating <= appeared
      /\ loaded = appeared /\ loaded' = loaded + 1 /\ loaded + 1 \in VC
      /\ appeared' = appeared
  BY LenProperties DEF IInv, TypeOK, LifecycleInOrder, ViewDidLoad
<1>2. /\ jsQueue' \in Seq(Task)
      /\ Len(jsQueue') > n
      /\ \A i \in 1..n : jsQueue'[i] = jsQueue[i]
      /\ \A i \in 1..Len(jsQueue') : i > n => jsQueue'[i].kind # "script"
      /\ \E i \in 1..Len(jsQueue') : jsQueue'[i].kind = "expose"
      /\ \E i \in 1..Len(jsQueue') : jsQueue'[i].kind = "sdk"
      /\ loaded + 1 = 1 /\ jsQueue = << >> => jsQueue'[1].kind = "context"
  BY <1>1, SetupMoves DEF ViewDidLoad
<1>3. /\ Len(jsQueue') \in Nat
      /\ 1..n \subseteq 1..Len(jsQueue')
      /\ \A i \in 1..Len(jsQueue') : jsQueue'[i].kind = "script" => i \in 1..n
  BY <1>1, <1>2, LenProperties
<1>4. LifecycleInOrder'
  BY <1>1 DEF LifecycleInOrder, ViewDidLoad
<1>5. QueueInOrder'
  <2> SUFFICES ASSUME NEW i \in 1..Len(jsQueue'), jsQueue'[i].kind = "script"
               PROVE  /\ jsQueue'[i].vc <= appeared
                      /\ jsQueue'[i].vc > evaluating
                      /\ \A j \in 1..Len(jsQueue') :
                           j < i /\ jsQueue'[j].kind = "script"
                             => jsQueue'[j].vc < jsQueue'[i].vc
    BY DEF QueueInOrder, ViewDidLoad
  <2>1. i \in 1..n /\ jsQueue'[i] = jsQueue[i]
    BY <1>2, <1>3
  <2>2. \A j \in 1..Len(jsQueue') : jsQueue'[j].kind = "script"
          => j \in 1..n /\ jsQueue'[j] = jsQueue[j]
    BY <1>2, <1>3
  <2> QED
    BY <2>1, <2>2 DEF IInv, QueueInOrder
<1>6. RunsAccountedFor'
  <2> SUFFICES ASSUME NEW v \in 1..appeared, script'[v] # NoScript,
                      v \notin finished, v # evaluating
               PROVE  \E i \in 1..Len(jsQueue') :
                        jsQueue'[i] = [kind |-> "script", vc |-> v]
    BY DEF RunsAccountedFor, ViewDidLoad
  <2>1. script'[v] = script[v]
    BY <1>1 DEF IInv, TypeOK, ViewDidLoad
  <2>2. PICK i \in 1..n : jsQueue[i] = [kind |-> "script", vc |-> v]
    BY <2>1 DEF IInv, RunsAccountedFor
  <2> QED
    BY <1>2, <1>3, <2>2
<1>7. SetupSubmitted'
  <2>1. context' = context /\ exposed' = exposed /\ console' = console
    BY DEF ViewDidLoad, jsVars
  <2>2. context \/ IsTask(1, "context")'
    <3>1. CASE loaded > 0
      BY <1>2, <1>3, <3>1 DEF IInv, SetupSubmitted, IsTask
    <3>2. CASE loaded = 0
      BY <1>1, <1>2, <1>3, <3>2 DEF IInv, SetupSubmitted, IsTask
    <3> QED
      BY <1>1, <3>1, <3>2
  <2> QED
    BY <1>1, <1>2, <2>1, <2>2 DEF SetupSubmitted
<1>8. SetupAhead'
  <2> SUFFICES ASSUME NEW i \in 1..Len(jsQueue'), jsQueue'[i].kind = "script"
               PROVE  /\ exposed \/ \E j \in 1..(i - 1) : jsQueue'[j].kind = "expose"
                      /\ console \/ \E j \in 1..(i - 1) : jsQueue'[j].kind = "sdk"
    BY DEF SetupAhead, ViewDidLoad, jsVars
  <2>1. i \in 1..n /\ \A j \in 1..i : jsQueue'[j] = jsQueue[j]
    BY <1>1, <1>2, <1>3
  <2> QED
    BY <2>1 DEF IInv, SetupAhead
<1>9. SdkBeforeScript'
  BY DEF IInv, SdkBeforeScript, ViewDidLoad, jsVars
<1>10. \A v \in Active' : v = loaded' \/ v \in Active
  <2>1. QueuedRuns' \subseteq QueuedRuns
    <3> SUFFICES ASSUME NEW v \in VC, NEW i \in 1..Len(jsQueue'),
                        jsQueue'[i] = [kind |-> "script", vc |-> v]
                 PROVE  v \in QueuedRuns
      BY DEF QueuedRuns
    <3>1. i \in 1..n
      BY <1>3
    <3> QED
      BY <1>2, <3>1 DEF QueuedRuns
  <2> QED
    BY <2>1 DEF Active, ViewDidLoad
<1>11. /\ ActiveIsKnown' /\ OnlyUnfinishedRunsLeak'
       /\ content' \in [VC -> 0..MaxNodes] /\ leftover' \subseteq VC
  BY <1>10, EmptiedScene DEF ViewDidLoad
<1>12. TypeOK'
  <2>1. script' \in [VC -> Scripts \cup {NoScript}]
    BY <1>1 DEF IInv, TypeOK, ViewDidLoad
  <2>2. loaded' \in 0..MaxVC /\ appeared' \in 0..loaded'
    BY <1>1
  <2> QED
    BY <1>2, <1>11, <2>1, <2>2 DEF IInv, TypeOK, ViewDidLoad, jsVars
<1> QED
  BY <1>4, <1>5, <1>6, <1>7, <1>8, <1>9, <1>11, <1>12 DEF IInv
-----------------------------------------------------------------------------
LEMMA NextStep ==
  ASSUME IInv, [Next]_vars
  PROVE  IInv'
<1>1. ASSUME NEW s \in Scripts \cup {NoScript}, ViewDidLoad(s) PROVE IInv'
  BY <1>1, ViewDidLoadStep
<1>2. CASE RunScript
  BY <1>2, RunScriptStep
<1>3. CASE AppearIdle
  BY <1>3, AppearIdleStep
<1>4. CASE CreateContext
  BY <1>4, SetupTaskStep DEF CreateContext, IInv, TypeOK
<1>5. CASE ExposeInterface
  BY <1>5, SetupTaskStep DEF ExposeInterface, IInv, TypeOK
<1>6. CASE EvaluateSdk
  BY <1>6, SetupTaskStep DEF EvaluateSdk, IInv, TypeOK
<1>7. CASE BeginScript
  BY <1>7, BeginScriptStep
<1>8. evaluating # 0 => evaluating \in VC /\ evaluating \in Active
  BY DEF IInv, TypeOK, Active
<1>9. CASE ScriptAdd
  BY <1>8, <1>9, AddNodeStep DEF ScriptAdd
<1>10. CASE ScriptAnimates
  BY <1>8, <1>10, SetBlockStep DEF ScriptAnimates
<1>11. CASE ScriptReturns
  BY <1>11, EndEvaluationStep DEF ScriptReturns
<1>12. CASE ScriptThrows
  BY <1>12, EndEvaluationStep DEF ScriptThrows
<1>13. ASSUME NEW v \in VC, CallbackBegins(v) PROVE IInv'
  BY <1>13, CallbackBeginsStep
<1>14. ASSUME NEW v \in VC, BlockBegins(v) PROVE IInv'
  BY <1>14, BlockBeginsStep
<1>15. ASSUME NEW v \in VC, CallbackAdd(v) PROVE IInv'
  BY <1>15, AddNodeStep DEF CallbackAdd, Active
<1>16. ASSUME NEW v \in VC, CallbackAnimates(v) PROVE IInv'
  BY <1>16, SetBlockStep DEF CallbackAnimates, Active
<1>17. ASSUME NEW v \in VC, CallbackReturns(v) PROVE IInv'
  BY <1>17, EndCallbackStep DEF CallbackReturns
<1>18. ASSUME NEW v \in VC, CallbackThrows(v) PROVE IInv'
  BY <1>18, EndCallbackStep DEF CallbackThrows
<1>19. CASE UNCHANGED vars
  <2>1. Active' = Active
    BY <1>19 DEF vars, Active, QueuedRuns
  <2> QED
    BY <1>19, <2>1
    DEF vars, IInv, TypeOK, LifecycleInOrder, QueueInOrder, RunsAccountedFor,
        SetupSubmitted, SetupAhead, IsTask, SdkBeforeScript, ActiveIsKnown,
        OnlyUnfinishedRunsLeak
<1> QED
  BY <1>1, <1>2, <1>3, <1>4, <1>5, <1>6, <1>7, <1>9, <1>10, <1>11, <1>12,
     <1>13, <1>14, <1>15, <1>16, <1>17, <1>18, <1>19
  DEF Next, Main, Worker, Evaluation, Callback

\* Every reachable state satisfies the inductive invariant.
THEOREM Invariance == Spec => []IInv
<1>1. Init => IInv
  BY InitHolds
<1>2. IInv /\ [Next]_vars => IInv'
  BY NextStep
<1> QED
  BY <1>1, <1>2, PTL DEF Spec

\* The variables keep the types of the Swift properties they stand for.
THEOREM TypeCorrectness == Spec => []TypeOK
<1>1. IInv => TypeOK
  BY DEF IInv
<1> QED
  BY <1>1, Invariance, PTL

\* However MainVCs come and go, no script is evaluated before the context
\* exists, the interface is bound and sdk.js has run.
THEOREM SetupComesFirst == Spec => []SdkBeforeScript
<1>1. IInv => SdkBeforeScript
  BY DEF IInv
<1> QED
  BY <1>1, Invariance, PTL

\* Scripts are evaluated in the order they were asked for, none overtaken and
\* none forgotten.
THEOREM ScriptsInOrder == Spec => []EvaluationInOrder
<1>1. IInv => EvaluationInOrder
  <2> SUFFICES ASSUME IInv, evaluating # 0,
                      NEW v \in VC, v < evaluating, script[v] # NoScript
               PROVE  v \in finished
    BY DEF EvaluationInOrder
  <2>1. v \in 1..appeared
    BY DEF IInv, TypeOK, LifecycleInOrder
  <2>2. ~ \E i \in 1..Len(jsQueue) : jsQueue[i] = [kind |-> "script", vc |-> v]
    BY DEF IInv, TypeOK, QueueInOrder
  <2> QED
    BY <2>1, <2>2 DEF IInv, TypeOK, RunsAccountedFor
<1> QED
  BY <1>1, Invariance, PTL

\* A node found in the scene belongs to the latest run or to one that still had
\* work to do when the scene was last emptied.
THEOREM LeaksAreUnfinished == Spec => []OnlyUnfinishedRunsLeak
<1>1. IInv => OnlyUnfinishedRunsLeak
  BY DEF IInv
<1> QED
  BY <1>1, Invariance, PTL
=============================================================================
