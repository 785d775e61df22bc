--------------------------- MODULE ColliderProofs ---------------------------
(***************************************************************************)
(* Proofs about Collider, for any number of nodes, places, frames and      *)
(* changes of the scene: a pass over a scene from which nothing leaves     *)
(* stays within the list of children and makes exactly the calls due.      *)
(***************************************************************************)
EXTENDS MCCollider, TLAPS, FiniteSetTheorems, SequenceTheorems

-----------------------------------------------------------------------------
(* Lists of children *)

Lists == {s \in Seq(Nodes) : IsInjective(s)}

\* A node that is removed is gone, the others keep their order.
LEMMA WithoutIsList ==
  ASSUME NEW s \in Lists, NEW n \in Nodes
  PROVE  Without(s, n) \in Lists /\ n \notin ToSet(Without(s, n))
<1>1. s \in Seq(Nodes) /\ IsInjective(s) /\ Len(s) \in Nat /\ DOMAIN s = 1..Len(s)
  BY LenProperties DEF Lists
<1>2. CASE n \notin ToSet(s)
  BY <1>1, <1>2 DEF Without, Lists
<1>3. CASE n \in ToSet(s)
  <2> DEFINE k == CHOOSE i \in DOMAIN s : s[i] = n
             a == SubSeq(s, 1, k - 1)
             b == SubSeq(s, k + 1, Len(s))
             t == a \o b
  <2>1. k \in 1..Len(s) /\ s[k] = n
    BY <1>1, <1>3 DEF ToSet
  <2>2. Without(s, n) = t
    BY <1>3 DEF Without, RemoveAt
  <2> HIDE DEF k
  <2>3. \A i \in 1..Len(s) : s[i] \in Nodes
    BY <1>1, ElementOfSeq
  <2>4. /\ a \in Seq(Nodes) /\ Len(a) = k - 1
        /\ \A i \in 1..(k - 1) : a[i] = s[i]
    <3>1. 1 \in Int /\ k - 1 \in Int /\ \A i \in 1..(k - 1) : s[i] \in Nodes
      BY <1>1, <2>1, <2>3
    <3>2. /\ a \in Seq(Nodes) /\ Len(a) = (IF 1 <= k - 1 THEN (k - 1) - 1 + 1 ELSE 0)
          /\ \A i \in 1..((k - 1) - 1 + 1) : a[i] = s[1 + i - 1]
      BY <3>1, SubSeqProperties
    <3> HIDE DEF a
    <3> QED
      BY <3>2, <2>1, <1>1
  <2>5. /\ b \in Seq(Nodes) /\ Len(b) = Len(s) - k
        /\ \A i \in 1..(Len(s) - k) : b[i] = s[k + i]
    <3>1. k + 1 \in Int /\ Len(s) \in Int /\ \A i \in (k + 1)..Len(s) : s[i] \in Nodes
      BY <1>1, <2>1, <2>3
    <3>2. /\ b \in Seq(Nodes)
          /\ Len(b) = (IF k + 1 <= Len(s) THEN Len(s) - (k + 1) + 1 ELSE 0)
          /\ \A i \in 1..(Len(s) - (k + 1) + 1) : b[i] = s[(k + 1) + i - 1]
      BY <3>1, SubSeqProperties
    <3> HIDE DEF b
    <3>3. Len(s) - (k + 1) + 1 = Len(s) - k /\ \A i \in Int : (k + 1) + i - 1 = k + i
      BY <2>1, <1>1
    <3>4. Len(b) = Len(s) - k
      <4>1. CASE k + 1 <= Len(s)
        BY <3>2, <3>3, <4>1
      <4>2. CASE ~ (k + 1 <= Len(s))
        <5>1. k \in 1..Len(s) /\ Len(s) \in Nat
          BY <1>1, <2>1
        <5>2. k = Len(s) /\ Len(s) - k = 0
          BY <4>2, <5>1
        <5> QED
          BY <3>2, <4>2, <5>2
      <4> QED
        BY <4>1, <4>2
    <3>5. \A i \in 1..(Len(s) - k) : b[i] = s[k + i]
      <4>1. \A i \in 1..(Len(s) - k) : i \in Int
        OBVIOUS
      <4> QED
        BY <3>2, <3>3, <4>1
    <3> QED
      BY <3>2, <3>4, <3>5
  <2> HIDE DEF a, b
  <2>6. /\ t \in Seq(Nodes) /\ Len(t) = Len(a) + Len(b)
        /\ \A i \in 1..Len(a) : t[i] = a[i]
        /\ \A i \in (Len(a) + 1)..(Len(a) + Len(b)) : t[i] = b[i - Len(a)]
    <3>1. /\ a \o b \in Seq(Nodes) /\ Len(a \o b) = Len(a) + Len(b)
          /\ \A i \in 1..(Len(a) + Len(b)) :
               (a \o b)[i] = IF i <= Len(a) THEN a[i] ELSE b[i - Len(a)]
      BY <2>4, <2>5, ConcatProperties
    <3>2. Len(a) \in Nat /\ Len(b) \in Nat
      BY <2>4, <2>5, LenProperties
    <3> HIDE DEF t
    <3>3. /\ t \in Seq(Nodes) /\ Len(t) = Len(a) + Len(b)
          /\ \A i \in 1..(Len(a) + Len(b)) :
               t[i] = IF i <= Len(a) THEN a[i] ELSE b[i - Len(a)]
      BY <3>1, Zenon DEF t
    <3> QED
      BY <3>2, <3>3
  <2> HIDE DEF t
  <2>7. DOMAIN t = 1..Len(t) /\ Len(t) = Len(s) - 1
    <3>1. DOMAIN t = 1..Len(t)
      BY <2>6, LenProperties
    <3> QED
      BY <3>1, <2>1, <2>4, <2>5, <2>6, <1>1
  <2> DEFINE at(i) == IF i < k THEN i ELSE i + 1
  <2>8. ASSUME NEW i \in DOMAIN t
        PROVE  at(i) \in 1..Len(s) /\ at(i) # k /\ t[i] = s[at(i)]
    <3>1. i \in 1..(Len(s) - 1) /\ k \in 1..Len(s) /\ Len(s) \in Nat
      BY <1>1, <2>1, <2>7
    <3>2. CASE i < k
      <4>1. i \in 1..Len(a) /\ i \in 1..(k - 1)
        BY <3>1, <3>2, <2>4
      <4> QED
        BY <3>1, <3>2, <4>1, <2>4, <2>6
    <3>3. CASE ~ (i < k)
      <4>1. /\ i \in (Len(a) + 1)..(Len(a) + Len(b)) /\ i - Len(a) \in 1..(Len(s) - k)
            /\ k + (i - Len(a)) = i + 1
        BY <3>1, <3>3, <2>4, <2>5
      <4>2. t[i] = b[i - Len(a)]
        BY <4>1, <2>6
      <4>3. b[i - Len(a)] = s[k + (i - Len(a))]
        BY <4>1, <2>5
      <4> QED
        BY <3>1, <3>3, <4>1, <4>2, <4>3
    <3> QED
      BY <3>2, <3>3
  <2>9. IsInjective(t)
    <3>1. SUFFICES ASSUME NEW i \in DOMAIN t, NEW j \in DOMAIN t, t[i] = t[j] PROVE i = j
      BY DEF IsInjective
    <3>2. at(i) = at(j)
      BY <2>8, <3>1, <1>1 DEF IsInjective
    <3>3. i \in Nat /\ j \in Nat /\ k \in Nat
      BY <2>1, <2>7, <1>1
    <3> QED
      BY <3>2, <3>3
  <2>10. n \notin ToSet(t)
    <3>1. SUFFICES ASSUME NEW i \in DOMAIN t, t[i] = n PROVE FALSE
      BY DEF ToSet
    <3> QED
      BY <2>1, <2>8, <3>1, <1>1 DEF IsInjective
  <2> QED
    BY <2>2, <2>6, <2>9, <2>10 DEF Lists
<1> QED
  BY <1>2, <1>3

LEMMA AppendToList ==
  ASSUME NEW s \in Lists, NEW n \in Nodes, n \notin ToSet(s)
  PROVE  Append(s, n) \in Lists
<1> DEFINE t == Append(s, n)
<1>1. s \in Seq(Nodes) /\ IsInjective(s) /\ Len(s) \in Nat /\ DOMAIN s = 1..Len(s)
  BY LenProperties DEF Lists
<1>2. /\ t \in Seq(Nodes) /\ Len(t) = Len(s) + 1
      /\ \A i \in 1..Len(s) : t[i] = s[i]
      /\ t[Len(s) + 1] = n
  BY <1>1, AppendProperties
<1> HIDE DEF t
<1>3. DOMAIN t = 1..(Len(s) + 1)
  BY <1>2, LenProperties
<1>4. \A i \in 1..Len(s) : s[i] # n
  BY <1>1 DEF ToSet
<1>5. ASSUME NEW i \in DOMAIN t, NEW j \in DOMAIN t, t[i] = t[j] PROVE i = j
  <2>1. CASE i \in 1..Len(s) /\ j \in 1..Len(s)
    BY <1>1, <1>2, <1>5, <2>1 DEF IsInjective
  <2>2. CASE i \notin 1..Len(s) \/ j \notin 1..Len(s)
    BY <1>1, <1>2, <1>3, <1>4, <1>5, <2>2
  <2> QED
    BY <2>1, <2>2
<1> QED
  BY <1>2, <1>5 DEF Lists, IsInjective, t

Trees == [Nodes \union {Content} -> Lists]

LEMMA RemovedIsTree ==
  ASSUME NEW ch \in Trees, NEW n \in Nodes
  PROVE  /\ removeFromParentNode(ch, n) \in Trees
         /\ \A p \in Nodes \union {Content} : n \notin ToSet(removeFromParentNode(ch, n)[p])
BY WithoutIsList DEF removeFromParentNode, Trees

LEMMA AddedIsTree ==
  ASSUME NEW ch \in Trees, NEW n \in Nodes, NEW p \in Nodes \union {Content}
  PROVE  addChildNode(ch, p, n) \in Trees
<1> DEFINE d == removeFromParentNode(ch, n)
<1>1. d \in Trees /\ n \notin ToSet(d[p])
  BY RemovedIsTree
<1> HIDE DEF d
<1>2. Append(d[p], n) \in Lists
  BY <1>1, AppendToList DEF Trees
<1>3. [d EXCEPT ![p] = Append(@, n)] \in Trees
  BY <1>1, <1>2 DEF Trees
<1> QED
  BY <1>3 DEF addChildNode, d

\* No list is longer than there are nodes.
LEMMA ListsAreShort ==
  ASSUME NEW s \in Lists, IsFiniteSet(Nodes)
  PROVE  Len(s) \in Nat /\ Cardinality(Nodes) \in Nat /\ Len(s) <= Cardinality(Nodes)
<1>1. s \in Seq(Nodes) /\ Len(s) \in Nat /\ DOMAIN s = 1..Len(s)
  BY LenProperties DEF Lists
<1>2. s \in [1..Len(s) -> Nodes]
  BY <1>1, LenProperties
<1>3. s \in Injection(1..Len(s), Nodes)
  BY <1>1, <1>2 DEF Injection, IsInjective, Lists
<1>4. Cardinality(1..Len(s)) <= Cardinality(Nodes)
  BY <1>3, FS_Injection
<1>5. Cardinality(1..Len(s)) = Len(s)
  <2>1. 1 \in Int /\ Len(s) \in Int
    BY <1>1
  <2>2. Cardinality(1..Len(s)) = (IF 1 > Len(s) THEN 0 ELSE Len(s) - 1 + 1)
    BY <2>1, FS_Interval
  <2> QED
    BY <1>1, <2>2
<1>6. Cardinality(Nodes) \in Nat
  BY FS_CardinalityType
<1> QED
  BY <1>1, <1>4, <1>5, <1>6

\* A list that grew has its old elements at their old places.
LEMMA PrefixKeeps ==
  ASSUME NEW s \in Lists, NEW t \in Lists, IsPrefix(s, t)
  PROVE  Len(s) <= Len(t) /\ \A i \in 1..Len(s) : t[i] = s[i]
<1>1. /\ s \in Seq(Nodes) /\ Len(s) \in Nat /\ t \in Seq(Nodes) /\ Len(t) \in Nat
      /\ Len(s) <= Len(t) /\ SubSeq(s, 1, Len(s)) = SubSeq(t, 1, Len(s))
  BY LenProperties DEF Lists, IsPrefix
<1>2. SubSeq(s, 1, Len(s)) = s
  BY <1>1, SubSeqFull
<1>3. \A i \in 1..Len(s) : t[i] \in Nodes
  BY <1>1, ElementOfSeq
<1>4. \A i \in 1..(Len(s) - 1 + 1) : SubSeq(t, 1, Len(s))[i] = t[1 + i - 1]
  <2>1. 1 \in Int /\ Len(s) \in Int
    BY <1>1
  <2> QED
    BY <1>3, <2>1, SubSeqProperties
<1> QED
  <2> DEFINE u == SubSeq(t, 1, Len(s))
  <2>1. u = s /\ \A i \in 1..(Len(s) - 1 + 1) : u[i] = t[1 + i - 1]
    BY <1>1, <1>2, <1>4
  <2> HIDE DEF u
  <2> QED
    BY <1>1, <2>1

-----------------------------------------------------------------------------
(* The inductive invariant *)

list == children[Content]

InPair == {"pair", "rhs", "measure", "compare", "detector"}

Sound ==
  /\ children \in Trees
  /\ position \in [Nodes -> Positions]
  /\ detectors \subseteq Nodes
  /\ removing \in Seq(Nodes)
  /\ frames \in 0..MaxFrames
  /\ pc \in Labels
  /\ changes \in 0..MaxChanges
  /\ reordered \in BOOLEAN
  /\ moved \in BOOLEAN
  /\ calls \in Seq(Nodes \X Nodes)
  /\ {lhs, rhs} \subseteq Nodes \union {None}
  /\ lhsAt \in Positions \union {None}

\* Where the pass is in its loops.
Loops ==
  /\ {nA, nB, rows, cols} \subseteq 0..Cardinality(Nodes)
  /\ nA <= rows /\ nB <= cols
  /\ pc \in {"idle", "row", "end"} => nB = 0 /\ cols = 0
  /\ pc \in InPair => nA < rows
  /\ pc \in {"rhs", "measure", "compare", "detector"} => nB < cols /\ nA # nB
  /\ pc = "end" => nA = rows
  /\ pc \in {"rhs", "measure", "compare", "detector"} => lhs \in Nodes
  /\ pc \in {"measure", "compare", "detector"} => rhs \in Nodes

\* Nothing is known of a pass before it begins.
Fresh == pc = "idle" => ~ reordered /\ ~ moved /\ calls = << >>

\* The loops stay within a list that only grows, and nodes are where they
\* were read.
Within ==
  ~ reordered =>
    /\ pc # "trapped"
    /\ pc # "idle" => rows <= Len(list) /\ cols <= Len(list)
    /\ pc \in InPair => rows <= cols
    /\ pc \in {"rhs", "measure", "compare", "detector"} => lhs = list[nA + 1]
    /\ pc \in {"measure", "compare", "detector"} => rhs = list[nB + 1]
    /\ ~ moved /\ pc \in {"compare", "detector"} => lhsAt = position[lhs]

\* The pass has dealt with the i-th and the j-th child.
Before(i, j) ==
  \/ i <= nA
  \/ i = nA + 1 /\ j <= nB
  \/ i = nA + 1 /\ j = nB + 1 /\ pc = "detector"

Undisturbed == pc # "idle" /\ ~ reordered /\ ~ moved

CallsAreDue ==
  Undisturbed => \A k \in DOMAIN calls :
    \E i, j \in 1..Len(list) :
      /\ i # j /\ Before(i, j)
      /\ calls[k] = <<list[i], list[j]>> /\ Collide(list[i], list[j])

DueAreCalled ==
  Undisturbed => \A i, j \in 1..rows :
    Before(i, j) /\ i # j /\ Collide(list[i], list[j]) =>
      \E k \in DOMAIN calls : calls[k] = <<list[i], list[j]>>

CalledOnce == IsInjective(calls)

IInv == Sound /\ Loops /\ Fresh /\ Within /\ CallsAreDue /\ DueAreCalled /\ CalledOnce

Numbers ==
  /\ Cardinality(Nodes) \in Nat /\ nA \in Nat /\ nB \in Nat /\ rows \in Nat /\ cols \in Nat
  /\ list \in Seq(Nodes) /\ Len(list) \in Nat /\ DOMAIN list = 1..Len(list)
  /\ Len(list) <= Cardinality(Nodes)
  /\ \A i \in 1..Len(list) : list[i] \in Nodes
  /\ IsInjective(list)

LEMMA NumbersKnown ==
  ASSUME children \in Trees, Loops
  PROVE  Numbers
<1>1. list \in Lists
  BY DEF Trees, list
<1>2. Len(list) \in Nat /\ Cardinality(Nodes) \in Nat /\ Len(list) <= Cardinality(Nodes)
  BY <1>1, ListsAreShort, ColliderAssumption
<1>3. list \in Seq(Nodes) /\ DOMAIN list = 1..Len(list) /\ IsInjective(list)
  BY <1>1, LenProperties DEF Lists
<1>4. \A i \in 1..Len(list) : list[i] \in Nodes
  BY <1>3, ElementOfSeq
<1>5. nA \in Nat /\ nB \in Nat /\ rows \in Nat /\ cols \in Nat
  BY <1>2 DEF Loops
<1> QED
  BY <1>2, <1>3, <1>4, <1>5 DEF Numbers

LEMMA NoCalls == << >> \in Seq(Nodes \X Nodes) /\ DOMAIN << >> = {} /\ IsInjective(<< >>)
<1>1. << >> \in Seq(Nodes \X Nodes)
  OBVIOUS
<1>2. DOMAIN << >> = {}
  <2>1. Len(<< >>) = 0 /\ DOMAIN << >> = 1..Len(<< >>)
    BY <1>1, LenProperties, EmptySeq
  <2> QED
    BY <2>1
<1> QED
  BY <1>1, <1>2 DEF IsInjective

LEMMA InvInit == Init => IInv
<1> SUFFICES ASSUME Init PROVE IInv
  OBVIOUS
<1>1. << >> \in Lists /\ << >> \in Seq(Nodes)
  <2>1. << >> \in Seq(Nodes)
    OBVIOUS
  <2> QED
    BY <2>1, NoCalls DEF Lists
<1>2. children \in Trees
  BY <1>1 DEF Init, Trees
<1>3. Sound
  <2>1. position \in [Nodes -> Positions]
    BY ColliderAssumption DEF Init
  <2>2. 0 \in 0..MaxFrames /\ 0 \in 0..MaxChanges
    BY ColliderAssumption
  <2> QED
    BY <1>1, <1>2, <2>1, <2>2, NoCalls DEF Init, Sound, Labels
<1>4. Loops
  <2>1. Cardinality(Nodes) \in Nat
    BY ColliderAssumption, FS_CardinalityType
  <2> QED
    BY <2>1 DEF Init, Loops, InPair
<1>5. Fresh /\ Within /\ CallsAreDue /\ DueAreCalled
  BY DEF Init, Fresh, Within, CallsAreDue, DueAreCalled, Undisturbed, InPair
<1>6. CalledOnce
  BY NoCalls DEF Init, CalledOnce
<1> QED
  BY <1>3, <1>4, <1>5, <1>6 DEF IInv

-----------------------------------------------------------------------------
(* The scene changes *)

\* What ChangeChildren does, whatever it makes of the lists.
Reshape ==
  /\ Alive
  /\ pc # "idle" => changes < MaxChanges
  /\ children' \in Trees
  /\ changes' = IF pc = "idle" THEN 0 ELSE changes + 1
  /\ reordered' = (pc # "idle"
                   /\ (reordered \/ ~IsPrefix(children[Content], children'[Content])))
  /\ calls' = IF reordered' THEN << >> ELSE calls
  /\ removing' \in Seq(Nodes)
  /\ UNCHANGED <<position, detectors, frames, passVars, moved>>

LEMMA ReshapeKeeps ==
  ASSUME IInv, Reshape
  PROVE  IInv'
<1>1. Numbers
  BY NumbersKnown DEF IInv, Sound
<1>2. Sound'
  <2>1. changes' \in 0..MaxChanges
    BY ColliderAssumption DEF IInv, Sound, Reshape
  <2> QED
    BY <2>1, NoCalls DEF IInv, Sound, Reshape, passVars
<1>3. Loops'
  BY DEF IInv, Loops, Reshape, passVars, InPair
<1>4. Numbers'
  <2>1. list' \in Lists
    BY DEF Reshape, Trees, list
  <2> DEFINE t == list'
  <2>2. t \in Lists
    BY <2>1
  <2> HIDE DEF t
  <2>3. Len(t) \in Nat /\ Cardinality(Nodes) \in Nat /\ Len(t) <= Cardinality(Nodes)
    BY <2>2, ListsAreShort, ColliderAssumption
  <2>4. t \in Seq(Nodes) /\ DOMAIN t = 1..Len(t) /\ IsInjective(t)
    BY <2>2, LenProperties DEF Lists
  <2>5. \A i \in 1..Len(t) : t[i] \in Nodes
    BY <2>4, ElementOfSeq
  <2>6. nA' \in Nat /\ nB' \in Nat /\ rows' \in Nat /\ cols' \in Nat
    BY <1>1 DEF Numbers, Reshape, passVars
  <2> QED
    BY <2>3, <2>4, <2>5, <2>6 DEF Numbers, t
<1>5. Fresh'
  BY DEF IInv, Fresh, Reshape, passVars
<1>6. CASE pc = "idle" \/ reordered'
  <2>1. Within'
    BY <1>6 DEF IInv, Within, Fresh, Reshape, passVars, InPair
  <2>2. CallsAreDue' /\ DueAreCalled'
    BY <1>6 DEF CallsAreDue, DueAreCalled, Undisturbed, Reshape, passVars
  <2>3. CalledOnce'
    BY <1>6, NoCalls DEF IInv, CalledOnce, Reshape
  <2> QED
    BY <1>2, <1>3, <1>5, <2>1, <2>2, <2>3 DEF IInv
<1>7. CASE pc # "idle" /\ ~ reordered'
  <2>1. /\ ~ reordered /\ IsPrefix(list, list') /\ calls' = calls /\ pc' = pc
        /\ nA' = nA /\ nB' = nB /\ rows' = rows /\ cols' = cols
        /\ lhs' = lhs /\ rhs' = rhs /\ lhsAt' = lhsAt
        /\ position' = position /\ detectors' = detectors /\ moved' = moved
    BY <1>7 DEF Reshape, list, passVars
  <2>2. Len(list) <= Len(list') /\ \A i \in 1..Len(list) : list'[i] = list[i]
    <3>1. list \in Lists /\ list' \in Lists
      BY DEF IInv, Sound, Reshape, Trees, list
    <3> QED
      BY <2>1, <3>1, PrefixKeeps
  <2>3. Within'
    <3>1. /\ pc # "trapped" /\ rows <= Len(list) /\ cols <= Len(list)
          /\ pc \in InPair => rows <= cols
          /\ pc \in {"rhs", "measure", "compare", "detector"} => lhs = list[nA + 1] /\ nA < rows
          /\ pc \in {"measure", "compare", "detector"} => rhs = list[nB + 1]
          /\ pc \in {"rhs", "measure", "compare", "detector"} => nB < cols
          /\ ~ moved /\ pc \in {"compare", "detector"} => lhsAt = position[lhs]
      BY <1>7, <2>1 DEF IInv, Within, Loops, InPair
    <3>2. rows <= Len(list') /\ cols <= Len(list')
      BY <1>1, <1>4, <2>2, <3>1 DEF Numbers
    <3>3. pc \in {"rhs", "measure", "compare", "detector"} => lhs = list'[nA + 1]
      BY <1>1, <2>2, <3>1 DEF Numbers
    <3>4. pc \in {"measure", "compare", "detector"} => rhs = list'[nB + 1]
      BY <1>1, <2>2, <3>1 DEF Numbers
    <3> QED
      BY <2>1, <3>1, <3>2, <3>3, <3>4 DEF Within, InPair
  <2>4. CallsAreDue'
    <3> SUFFICES ASSUME Undisturbed', NEW k \in DOMAIN calls'
                 PROVE  (\E i, j \in 1..Len(list) :
                          /\ i # j /\ Before(i, j)
                          /\ calls[k] = <<list[i], list[j]>> /\ Collide(list[i], list[j]))'
      BY DEF CallsAreDue
    <3>1. PICK i \in 1..Len(list), j \in 1..Len(list) :
             /\ i # j /\ Before(i, j)
             /\ calls[k] = <<list[i], list[j]>> /\ Collide(list[i], list[j])
      BY <2>1 DEF IInv, CallsAreDue, Undisturbed
    <3>2. i \in 1..Len(list') /\ j \in 1..Len(list')
      BY <1>1, <1>4, <2>2 DEF Numbers
    <3>3. Before(i, j)'
      BY <2>1, <3>1 DEF Before
    <3>4. list'[i] = list[i] /\ list'[j] = list[j]
      BY <2>2
    <3>5. calls'[k] = <<list'[i], list'[j]>> /\ Collide(list[i], list[j])'
      BY <2>1, <3>1, <3>4 DEF Collide
    <3> QED
      BY <3>1, <3>2, <3>3, <3>5
  <2>5. DueAreCalled'
    <3> SUFFICES ASSUME Undisturbed', NEW i \in 1..rows', NEW j \in 1..rows',
                        Before(i, j)', i # j, Collide(list[i], list[j])'
                 PROVE  \E k \in DOMAIN calls' : calls'[k] = <<list'[i], list'[j]>>
      BY DEF DueAreCalled
    <3>1. rows <= Len(list)
      BY <1>7, <2>1 DEF IInv, Within
    <3>2. i \in 1..Len(list) /\ j \in 1..Len(list) /\ i \in 1..rows /\ j \in 1..rows
      BY <1>1, <2>1, <3>1 DEF Numbers
    <3>3. list'[i] = list[i] /\ list'[j] = list[j]
      BY <2>2, <3>2
    <3>4. Before(i, j)
      BY <2>1 DEF Before
    <3>5. Collide(list[i], list[j])
      BY <2>1, <3>3 DEF Collide
    <3>6. \E k \in DOMAIN calls : calls[k] = <<list[i], list[j]>>
      BY <2>1, <3>2, <3>4, <3>5 DEF IInv, DueAreCalled, Undisturbed
    <3> QED
      BY <2>1, <3>3, <3>6
  <2>6. CalledOnce'
    BY <2>1 DEF IInv, CalledOnce
  <2> QED
    BY <1>2, <1>3, <1>5, <2>3, <2>4, <2>5, <2>6 DEF IInv
<1> QED
  BY <1>6, <1>7

\* A node moves, or gets a detector.
LEMMA CollisionsChange ==
  ASSUME IInv, ChangeCollisions, position' \in [Nodes -> Positions], detectors' \subseteq Nodes
  PROVE  IInv'
<1>1. Sound'
  <2>1. changes' \in 0..MaxChanges
    BY ColliderAssumption DEF IInv, Sound, ChangeCollisions
  <2>2. moved' \in BOOLEAN
    BY DEF ChangeCollisions
  <2> QED
    BY <2>1, <2>2, NoCalls DEF IInv, Sound, ChangeCollisions, passVars
<1>2. Loops'
  BY DEF IInv, Loops, ChangeCollisions, passVars, InPair
<1>3. Fresh' /\ CallsAreDue' /\ DueAreCalled'
  BY NoCalls DEF IInv, Fresh, CallsAreDue, DueAreCalled, Undisturbed, ChangeCollisions, passVars
<1>4. Within'
  BY DEF IInv, Within, ChangeCollisions, passVars, InPair, list
<1>5. CalledOnce'
  BY NoCalls DEF CalledOnce, ChangeCollisions
<1> QED
  BY <1>1, <1>2, <1>3, <1>4, <1>5 DEF IInv

LEMMA JavaScriptKeeps ==
  ASSUME IInv, JavaScript
  PROVE  IInv'
<1>1. PICK n \in Nodes :
        \/ SceneAdd(n)
        \/ \E p \in Nodes : NodeAdd(p, n)
        \/ \E x \in Positions : Move(n, x)
        \/ setCollisionDetector(n)
  BY DEF JavaScript
<1>2. children \in Trees
  BY DEF IInv, Sound
<1>3. CASE SceneAdd(n)
  <2>1. addChildNode(children, Content, n) \in Trees
    BY <1>2, AddedIsTree
  <2>2. Reshape
    BY <1>3, <2>1 DEF SceneAdd, ChangeChildren, Reshape, IInv, Sound
  <2> QED
    BY <2>2, ReshapeKeeps
<1>4. ASSUME NEW p \in Nodes, NodeAdd(p, n) PROVE IInv'
  <2>1. addChildNode(children, p, n) \in Trees
    BY <1>2, AddedIsTree
  <2>2. Reshape
    BY <1>4, <2>1 DEF NodeAdd, ChangeChildren, Reshape, IInv, Sound
  <2> QED
    BY <2>2, ReshapeKeeps
<1>5. ASSUME NEW x \in Positions, Move(n, x) PROVE IInv'
  BY <1>5, CollisionsChange DEF Move, IInv, Sound
<1>6. CASE setCollisionDetector(n)
  BY <1>6, CollisionsChange DEF setCollisionDetector, IInv, Sound
<1> QED
  BY <1>1, <1>3, <1>4, <1>5, <1>6

LEMMA MainKeeps ==
  ASSUME IInv, Main
  PROVE  IInv'
<1>1. CASE DidUpdateFrame
  <2>1. Sound'
    BY <1>1, ColliderAssumption DEF IInv, Sound, DidUpdateFrame, sceneVars, passVars, history
  <2> QED
    BY <1>1, <2>1 DEF IInv, DidUpdateFrame, sceneVars, passVars, history, Loops, Fresh, Within,
         CallsAreDue, DueAreCalled, CalledOnce, Undisturbed, Before, Collide, InPair, list
<1>2. CASE RemoveSceneContent
  <2>1. children[Content] \in Seq(Nodes)
    BY DEF IInv, Sound, Trees, Lists
  <2>2. Sound'
    BY <1>2, <2>1 DEF IInv, Sound, RemoveSceneContent, sceneVars, passVars, history
  <2> QED
    BY <1>2, <2>2 DEF IInv, RemoveSceneContent, sceneVars, passVars, history, Loops, Fresh, Within,
         CallsAreDue, DueAreCalled, CalledOnce, Undisturbed, Before, Collide, InPair, list
<1>3. CASE RemoveNode
  <2>1. Head(removing) \in Nodes /\ Tail(removing) \in Seq(Nodes)
    BY <1>3, HeadTailProperties DEF RemoveNode, IInv, Sound
  <2>2. removeFromParentNode(children, Head(removing)) \in Trees
    BY <2>1, RemovedIsTree DEF IInv, Sound
  <2>3. Reshape
    BY <1>3, <2>1, <2>2 DEF RemoveNode, ChangeChildren, Reshape
  <2> QED
    BY <2>3, ReshapeKeeps
<1> QED
  BY <1>1, <1>2, <1>3 DEF Main

-----------------------------------------------------------------------------
(* A step of the pass *)

\* The scene and its history stay as they are; what the pass has dealt with
\* grows by at most pairs that give no call.
LEMMA CallsStay ==
  ASSUME IInv, Keep, calls' = calls, reordered' = reordered, moved' = moved,
         pc # "idle", pc' # "idle", rows' = rows,
         \A i, j \in Nat : Before(i, j) => Before(i, j)',
         Undisturbed =>
           \A i, j \in 1..rows : /\ Before(i, j)' /\ i # j /\ Collide(list[i], list[j])
                                 => Before(i, j)
  PROVE  CallsAreDue' /\ DueAreCalled' /\ CalledOnce'
<1>1. Numbers
  BY NumbersKnown DEF IInv, Sound
<1>2. /\ list' = list /\ detectors' = detectors /\ position' = position
      /\ Undisturbed' <=> Undisturbed
  BY DEF Keep, sceneVars, list, Undisturbed
<1>3. CallsAreDue'
  <2> SUFFICES ASSUME Undisturbed', NEW k \in DOMAIN calls'
               PROVE  (\E i, j \in 1..Len(list) :
                        /\ i # j /\ Before(i, j)
                        /\ calls[k] = <<list[i], list[j]>> /\ Collide(list[i], list[j]))'
    BY DEF CallsAreDue
  <2>1. PICK i \in 1..Len(list), j \in 1..Len(list) :
           /\ i # j /\ Before(i, j)
           /\ calls[k] = <<list[i], list[j]>> /\ Collide(list[i], list[j])
    BY <1>2 DEF IInv, CallsAreDue
  <2>2. Before(i, j)'
    BY <1>1, <2>1 DEF Numbers
  <2> QED
    BY <1>2, <2>1, <2>2 DEF Collide
<1>4. DueAreCalled'
  <2> SUFFICES ASSUME Undisturbed', NEW i \in 1..rows', NEW j \in 1..rows',
                      Before(i, j)', i # j, Collide(list[i], list[j])'
               PROVE  \E k \in DOMAIN calls' : calls'[k] = <<list'[i], list'[j]>>
    BY DEF DueAreCalled
  <2>1. Collide(list[i], list[j])
    BY <1>2 DEF Collide
  <2>2. Before(i, j)
    BY <1>2, <2>1
  <2> QED
    BY <1>2, <2>1, <2>2 DEF IInv, DueAreCalled
<1>5. CalledOnce'
  BY DEF IInv, CalledOnce
<1> QED
  BY <1>3, <1>4, <1>5

\* What a step of the pass leaves alone.
LEMMA SoundStays ==
  ASSUME Sound, Keep, frames' \in 0..MaxFrames, pc' \in Labels, UNCHANGED changes,
         reordered' \in BOOLEAN, moved' \in BOOLEAN, calls' \in Seq(Nodes \X Nodes),
         {lhs', rhs'} \subseteq Nodes \union {None}, lhsAt' \in Positions \union {None}
  PROVE  Sound'
BY DEF Sound, Keep, sceneVars

LEMMA BeginPassKeeps ==
  ASSUME IInv, BeginPass
  PROVE  IInv'
<1>1. Numbers
  BY NumbersKnown DEF IInv, Sound
<1>2. Sound'
  <2>1. frames' \in 0..MaxFrames
    BY ColliderAssumption DEF IInv, Sound, BeginPass
  <2> QED
    BY <2>1, SoundStays DEF IInv, Sound, BeginPass, KeepHistory, history, Labels
<1>3. list' = list
  BY DEF BeginPass, Keep, sceneVars, list
<1>4. Loops'
  BY <1>1 DEF IInv, Loops, BeginPass, Numbers, InPair, list
<1>5. Within' /\ Fresh'
  BY <1>1, <1>3 DEF IInv, Loops, Within, Fresh, BeginPass, KeepHistory, history, Numbers, InPair, list
<1>6. calls' = << >>
  BY DEF IInv, Fresh, BeginPass, KeepHistory, history
<1>7. DueAreCalled'
  <2> SUFFICES ASSUME NEW i \in 1..rows', NEW j \in 1..rows', Before(i, j)' PROVE FALSE
    BY DEF DueAreCalled
  <2>1. nA' = 0 /\ nB' = 0 /\ pc' = "row" /\ rows' \in Nat
    BY <1>1 DEF IInv, Loops, BeginPass, Numbers, list
  <2> QED
    BY <2>1 DEF Before
<1>8. CallsAreDue' /\ CalledOnce'
  BY <1>6, NoCalls DEF CallsAreDue, CalledOnce
<1> QED
  BY <1>2, <1>4, <1>5, <1>7, <1>8 DEF IInv

LEMMA BeginRowKeeps ==
  ASSUME IInv, BeginRow
  PROVE  IInv'
<1>1. Numbers
  BY NumbersKnown DEF IInv, Sound
<1>2. Sound'
  BY SoundStays DEF IInv, Sound, BeginRow, KeepHistory, history, Labels
<1>3. list' = list
  BY DEF BeginRow, Keep, sceneVars, list
<1>4. Loops'
  BY <1>1 DEF IInv, Loops, BeginRow, Numbers, InPair, list
<1>5. Within' /\ Fresh'
  BY <1>1, <1>3 DEF IInv, Loops, Within, Fresh, BeginRow, KeepHistory, history, Numbers, InPair, list
<1>6. \A i, j \in Nat : Before(i, j) <=> Before(i, j)'
  BY <1>1 DEF IInv, Loops, BeginRow, Before, Numbers
<1>7. CallsAreDue' /\ DueAreCalled' /\ CalledOnce'
  BY <1>1, <1>6, CallsStay DEF BeginRow, KeepHistory, history, Numbers
<1> QED
  BY <1>2, <1>4, <1>5, <1>7 DEF IInv

LEMMA LastRowKeeps ==
  ASSUME IInv, LastRow
  PROVE  IInv'
<1>1. Numbers
  BY NumbersKnown DEF IInv, Sound
<1>2. Sound'
  BY SoundStays DEF IInv, Sound, LastRow, KeepHistory, history, Labels
<1>3. list' = list
  BY DEF LastRow, Keep, sceneVars, list
<1>4. Loops'
  BY <1>1 DEF IInv, Loops, LastRow, Numbers, InPair, list
<1>5. Within' /\ Fresh'
  BY <1>1, <1>3 DEF IInv, Loops, Within, Fresh, LastRow, KeepHistory, history, Numbers, InPair, list
<1>6. \A i, j \in Nat : Before(i, j) <=> Before(i, j)'
  BY <1>1 DEF IInv, Loops, LastRow, Before, Numbers
<1>7. CallsAreDue' /\ DueAreCalled' /\ CalledOnce'
  BY <1>1, <1>6, CallsStay DEF LastRow, KeepHistory, history, Numbers
<1> QED
  BY <1>2, <1>4, <1>5, <1>7 DEF IInv

\* A row that has been gone through had at least as many columns as there are rows.
LEMMA LastColumnKeeps ==
  ASSUME IInv, LastColumn
  PROVE  IInv'
<1>1. Numbers
  BY NumbersKnown DEF IInv, Sound
<1>2. Sound'
  BY SoundStays DEF IInv, Sound, LastColumn, KeepHistory, history, Labels
<1>3. list' = list
  BY DEF LastColumn, Keep, sceneVars, list
<1>4. Loops'
  BY <1>1 DEF IInv, Loops, LastColumn, Numbers, InPair, list
<1>5. Within' /\ Fresh'
  BY <1>1, <1>3 DEF IInv, Loops, Within, Fresh, LastColumn, KeepHistory, history, Numbers, InPair, list
<1>6. \A i, j \in Nat : Before(i, j) => Before(i, j)'
  BY <1>1 DEF LastColumn, Before, Numbers
<1>7. ASSUME Undisturbed, NEW i \in 1..rows, NEW j \in 1..rows, Before(i, j)'
      PROVE  Before(i, j)
  <2>1. rows <= cols /\ nB = cols
    BY <1>7 DEF IInv, Within, LastColumn, InPair, Undisturbed
  <2> QED
    BY <1>1, <1>7, <2>1 DEF LastColumn, Before, Numbers
<1>8. CallsAreDue' /\ DueAreCalled' /\ CalledOnce'
  BY <1>6, <1>7, CallsStay DEF LastColumn, KeepHistory, history
<1> QED
  BY <1>2, <1>4, <1>5, <1>8 DEF IInv

LEMMA SkipDiagonalKeeps ==
  ASSUME IInv, SkipDiagonal
  PROVE  IInv'
<1>1. Numbers
  BY NumbersKnown DEF IInv, Sound
<1>2. Sound'
  BY SoundStays DEF IInv, Sound, SkipDiagonal, KeepHistory, history, Labels
<1>3. list' = list
  BY DEF SkipDiagonal, Keep, sceneVars, list
<1>4. Loops'
  BY <1>1 DEF IInv, Loops, SkipDiagonal, Numbers, InPair, list
<1>5. Within' /\ Fresh'
  BY <1>1, <1>3 DEF IInv, Loops, Within, Fresh, SkipDiagonal, KeepHistory, history, Numbers, InPair, list
<1>6. \A i, j \in Nat : Before(i, j) => Before(i, j)'
  BY <1>1 DEF SkipDiagonal, Before, Numbers
<1>7. ASSUME NEW i \in 1..rows, NEW j \in 1..rows, Before(i, j)', i # j
      PROVE  Before(i, j)
  BY <1>1, <1>7 DEF SkipDiagonal, Before, Numbers
<1>8. CallsAreDue' /\ DueAreCalled' /\ CalledOnce'
  BY <1>6, <1>7, CallsStay DEF SkipDiagonal, KeepHistory, history
<1> QED
  BY <1>2, <1>4, <1>5, <1>8 DEF IInv

\* The three steps that read a pair.
LEMMA ReadKeeps ==
  ASSUME IInv, ReadLhs \/ ReadRhs \/ MeasureLhs
  PROVE  IInv'
<1>1. Numbers
  BY NumbersKnown DEF IInv, Sound
<1>2. Keep /\ KeepHistory /\ UNCHANGED <<frames, nA, nB, rows, cols>>
  BY DEF ReadLhs, ReadRhs, MeasureLhs
<1>3. list' = list
  BY <1>2 DEF Keep, sceneVars, list
<1>4. Sound' /\ Loops'
  <2>1. CASE ReadLhs
    <3>1. lhs' \in Nodes
      BY <1>1, <2>1 DEF ReadLhs, InRange, Numbers, list
    <3>2. Sound'
      BY <2>1, <3>1, SoundStays DEF IInv, Sound, ReadLhs, KeepHistory, history, Labels
    <3> QED
      BY <1>1, <2>1, <3>1, <3>2 DEF IInv, Loops, ReadLhs, InPair
  <2>2. CASE ReadRhs
    <3>1. rhs' \in Nodes
      BY <1>1, <2>2 DEF ReadRhs, InRange, Numbers, list
    <3>2. Sound'
      BY <2>2, <3>1, SoundStays DEF IInv, Sound, ReadRhs, KeepHistory, history, Labels
    <3> QED
      BY <1>1, <2>2, <3>1, <3>2 DEF IInv, Loops, ReadRhs, InPair
  <2>3. CASE MeasureLhs
    <3>1. lhsAt' \in Positions
      BY <2>3 DEF MeasureLhs, IInv, Loops, Sound
    <3>2. Sound'
      BY <2>3, <3>1, SoundStays DEF IInv, Sound, MeasureLhs, KeepHistory, history, Labels
    <3> QED
      BY <1>1, <2>3, <3>1, <3>2 DEF IInv, Loops, MeasureLhs, InPair
  <2> QED
    BY <2>1, <2>2, <2>3
<1>5. Within' /\ Fresh'
  <2>1. CASE ReadLhs
    BY <1>2, <1>3, <2>1 DEF IInv, Within, Fresh, ReadLhs, Keep, KeepHistory, history, sceneVars, InPair, list
  <2>2. CASE ReadRhs
    BY <1>2, <1>3, <2>2 DEF IInv, Within, Fresh, ReadRhs, Keep, KeepHistory, history, sceneVars, InPair, list
  <2>3. CASE MeasureLhs
    BY <1>2, <1>3, <2>3 DEF IInv, Within, Fresh, MeasureLhs, Keep, KeepHistory, history, sceneVars, InPair, list
  <2> QED
    BY <2>1, <2>2, <2>3
<1>6. pc # "idle" /\ pc # "detector" /\ pc' # "idle" /\ pc' # "detector"
  BY DEF ReadLhs, ReadRhs, MeasureLhs
<1>7. \A i, j \in Nat : Before(i, j) <=> Before(i, j)'
  BY <1>2, <1>6 DEF Before
<1>8. CallsAreDue' /\ DueAreCalled' /\ CalledOnce'
  BY <1>1, <1>2, <1>6, <1>7, CallsStay DEF KeepHistory, history, Numbers
<1> QED
  BY <1>4, <1>5, <1>8 DEF IInv

\* The bounds that were read only trap when the list is shorter than then.
LEMMA IndexTrapKeeps ==
  ASSUME IInv, IndexTrap
  PROVE  IInv'
<1>1. Numbers
  BY NumbersKnown DEF IInv, Sound
<1>2. reordered
  <2> SUFFICES ASSUME ~ reordered PROVE FALSE
    OBVIOUS
  <2>1. rows <= Len(list) /\ cols <= Len(list) /\ nA < rows /\ nB < cols
    BY DEF IInv, Within, Loops, IndexTrap, InPair
  <2> QED
    BY <1>1, <2>1 DEF IndexTrap, InRange, Numbers, list
<1>3. Sound'
  BY SoundStays DEF IInv, Sound, IndexTrap, KeepHistory, history, Labels
<1>4. Loops'
  BY DEF IInv, Loops, IndexTrap, InPair
<1>5. Within' /\ Fresh' /\ CallsAreDue' /\ DueAreCalled' /\ CalledOnce'
  BY <1>2 DEF IInv, Within, Fresh, CallsAreDue, DueAreCalled, CalledOnce, Undisturbed, IndexTrap,
       KeepHistory, history
<1> QED
  BY <1>3, <1>4, <1>5 DEF IInv

LEMMA EmitCollisionKeeps ==
  ASSUME IInv, EmitCollision
  PROVE  IInv'
<1>1. Numbers
  BY NumbersKnown DEF IInv, Sound
<1>2. /\ pc = "compare" /\ pc' = "detector" /\ Keep
      /\ UNCHANGED <<nA, nB, rows, cols, lhs, rhs, lhsAt, reordered, moved>>
      /\ lhs \in detectors /\ lhsAt = position[rhs]
      /\ calls' = IF reordered \/ moved THEN << >> ELSE Append(calls, <<lhs, rhs>>)
  BY DEF EmitCollision, Collides
<1>3. /\ list' = list /\ detectors' = detectors /\ position' = position
      /\ Undisturbed' <=> Undisturbed
  BY <1>2 DEF Keep, sceneVars, list, Undisturbed
<1>4. lhs \in Nodes /\ rhs \in Nodes /\ nA < rows /\ nB < cols /\ nA # nB
  BY <1>2 DEF IInv, Loops, InPair
<1>5. Sound'
  <2>1. calls' \in Seq(Nodes \X Nodes)
    <3>1. <<lhs, rhs>> \in Nodes \X Nodes /\ calls \in Seq(Nodes \X Nodes)
      BY <1>4 DEF IInv, Sound
    <3>2. Append(calls, <<lhs, rhs>>) \in Seq(Nodes \X Nodes)
      BY <3>1, AppendProperties
    <3> QED
      BY <1>2, <3>2, NoCalls
  <2> QED
    BY <1>2, <2>1, SoundStays DEF IInv, Sound, EmitCollision, Labels
<1>6. Loops'
  BY <1>2 DEF IInv, Loops, InPair
<1>7. Within' /\ Fresh'
  BY <1>2, <1>3 DEF IInv, Within, Fresh, InPair
<1>8. CASE reordered \/ moved
  <2>1. CalledOnce'
    BY <1>2, <1>8, NoCalls DEF CalledOnce
  <2>2. CallsAreDue' /\ DueAreCalled'
    BY <1>2, <1>8 DEF CallsAreDue, DueAreCalled, Undisturbed
  <2> QED
    BY <1>5, <1>6, <1>7, <2>1, <2>2 DEF IInv
<1>9. CASE ~ (reordered \/ moved)
  <2> DEFINE c == <<lhs, rhs>>
             d == calls'
  <2>0. PICK a \in Nat, b \in Nat : a = nA + 1 /\ b = nB + 1
    BY <1>1 DEF Numbers
  <2>1. /\ rows <= Len(list) /\ cols <= Len(list) /\ rows <= cols
        /\ lhs = list[a] /\ rhs = list[b] /\ lhsAt = position[lhs]
    BY <1>2, <1>9, <2>0 DEF IInv, Within, InPair
  <2>2. a \in 1..Len(list) /\ b \in 1..Len(list) /\ a # b
    BY <1>1, <1>4, <2>0, <2>1 DEF Numbers
  <2>3. lhs # rhs
    BY <1>1, <2>1, <2>2 DEF Numbers, IsInjective
  <2>4. Collide(lhs, rhs)
    BY <1>2, <2>1, <2>3 DEF Collide
  <2>5. Undisturbed
    BY <1>2, <1>9 DEF Undisturbed
  <2>6. /\ calls \in Seq(Nodes \X Nodes) /\ Len(calls) \in Nat /\ DOMAIN calls = 1..Len(calls)
        /\ c \in Nodes \X Nodes
    BY <1>4, LenProperties DEF IInv, Sound
  <2>7. d = Append(calls, c)
    BY <1>2, <1>9
  <2> HIDE DEF c, d
  <2>8. /\ DOMAIN d = 1..(Len(calls) + 1)
        /\ \A k \in DOMAIN calls : k \in DOMAIN d /\ d[k] = calls[k]
        /\ Len(calls) + 1 \in DOMAIN d /\ d[Len(calls) + 1] = c
    <3>1. /\ d \in Seq(Nodes \X Nodes) /\ Len(d) = Len(calls) + 1
          /\ \A k \in 1..Len(calls) : d[k] = calls[k]
          /\ d[Len(calls) + 1] = c
      BY <2>6, <2>7, AppendProperties
    <3>2. DOMAIN d = 1..(Len(calls) + 1)
      BY <3>1, LenProperties
    <3> QED
      BY <2>6, <3>1, <3>2
  <2>9. \A i, j \in Nat : Before(i, j)' <=> Before(i, j) \/ (i = a /\ j = b)
    BY <1>1, <1>2, <2>0 DEF Before, Numbers
  <2>10. ~ Before(a, b)
    BY <1>1, <1>2, <2>0 DEF Before, Numbers
  <2>11. \A k \in DOMAIN calls :
           \E i, j \in 1..Len(list) :
             /\ i # j /\ Before(i, j)
             /\ calls[k] = <<list[i], list[j]>> /\ Collide(list[i], list[j])
    BY <2>5 DEF IInv, CallsAreDue
  <2>12. CallsAreDue'
    <3> SUFFICES ASSUME NEW k \in DOMAIN d
                 PROVE  \E i, j \in 1..Len(list) :
                          /\ i # j /\ Before(i, j)'
                          /\ d[k] = <<list[i], list[j]>> /\ Collide(list[i], list[j])
      BY <1>3 DEF CallsAreDue, Collide, d
    <3>1. CASE k \in DOMAIN calls
      <4>1. PICK i \in 1..Len(list), j \in 1..Len(list) :
               /\ i # j /\ Before(i, j)
               /\ calls[k] = <<list[i], list[j]>> /\ Collide(list[i], list[j])
        BY <2>11, <3>1
      <4>2. i \in Nat /\ j \in Nat
        BY <1>1 DEF Numbers
      <4> QED
        BY <2>8, <2>9, <3>1, <4>1, <4>2
    <3>2. CASE k = Len(calls) + 1
      <4>1. Before(a, b)'
        BY <2>9
      <4>2. d[k] = <<list[a], list[b]>> /\ Collide(list[a], list[b])
        BY <2>1, <2>4, <2>8, <3>2 DEF c
      <4> QED
        BY <2>2, <4>1, <4>2
    <3> QED
      BY <2>6, <2>8, <3>1, <3>2
  <2>13. DueAreCalled'
    <3> SUFFICES ASSUME NEW i \in 1..rows, NEW j \in 1..rows,
                        Before(i, j)', i # j, Collide(list[i], list[j])
                 PROVE  \E k \in DOMAIN d : d[k] = <<list[i], list[j]>>
      <4>1. SUFFICES ASSUME NEW i \in 1..rows', NEW j \in 1..rows',
                            Before(i, j)', i # j, Collide(list[i], list[j])'
                     PROVE  \E k \in DOMAIN calls' : calls'[k] = <<list'[i], list'[j]>>
        BY DEF DueAreCalled
      <4>2. Collide(list[i], list[j]) /\ i \in 1..rows /\ j \in 1..rows
        BY <1>2, <1>3, <4>1 DEF Collide
      <4> QED
        BY <1>3, <4>1, <4>2 DEF d
    <3>1. i \in Nat /\ j \in Nat
      BY <1>1 DEF Numbers
    <3>2. CASE Before(i, j)
      <4>1. PICK k \in DOMAIN calls : calls[k] = <<list[i], list[j]>>
        BY <2>5, <3>2 DEF IInv, DueAreCalled
      <4> QED
        BY <2>8, <4>1
    <3>3. CASE i = a /\ j = b
      BY <2>1, <2>8, <3>3 DEF c
    <3> QED
      BY <2>9, <3>1, <3>2, <3>3
  <2>14. CalledOnce'
    <3>1. \A k \in DOMAIN calls : calls[k] # c
      <4> SUFFICES ASSUME NEW k \in DOMAIN calls, calls[k] = c PROVE FALSE
        OBVIOUS
      <4>1. PICK i \in 1..Len(list), j \in 1..Len(list) :
               Before(i, j) /\ calls[k] = <<list[i], list[j]>>
        BY <2>11
      <4>2. list[i] = list[a] /\ list[j] = list[b]
        BY <2>1, <4>1 DEF c
      <4>3. i = a /\ j = b
        BY <1>1, <2>2, <4>2 DEF Numbers, IsInjective
      <4> QED
        BY <2>10, <4>1, <4>3
    <3>2. IsInjective(calls)
      BY DEF IInv, CalledOnce
    <3>3. ASSUME NEW k \in DOMAIN d, NEW m \in DOMAIN d, d[k] = d[m] PROVE k = m
      <4>1. /\ k \in DOMAIN calls \/ k = Len(calls) + 1
            /\ m \in DOMAIN calls \/ m = Len(calls) + 1
        BY <2>6, <2>8
      <4> QED
        BY <2>8, <3>1, <3>2, <3>3, <4>1 DEF IsInjective
    <3> QED
      BY <3>3 DEF CalledOnce, IsInjective, d
  <2> QED
    BY <1>5, <1>6, <1>7, <2>12, <2>13, <2>14 DEF IInv
<1> QED
  BY <1>8, <1>9

LEMMA NextPairKeeps ==
  ASSUME IInv, NextPair
  PROVE  IInv'
<1>1. Numbers
  BY NumbersKnown DEF IInv, Sound
<1>2. /\ pc \in {"compare", "detector"} /\ pc' = "pair" /\ Keep /\ KeepHistory
      /\ nB' = nB + 1 /\ UNCHANGED <<nA, rows, cols>>
      /\ pc = "compare" => ~ (lhsAt = position[rhs] /\ lhs \in detectors)
  BY DEF NextPair, Collides
<1>3. Sound'
  BY SoundStays DEF IInv, Sound, NextPair, KeepHistory, history, Labels
<1>4. list' = list
  BY <1>2 DEF Keep, sceneVars, list
<1>5. Loops'
  BY <1>1, <1>2 DEF IInv, Loops, Numbers, InPair
<1>6. Within' /\ Fresh'
  BY <1>1, <1>2, <1>4 DEF IInv, Within, Fresh, KeepHistory, history, Numbers, InPair
<1>7. \A i, j \in Nat : Before(i, j) => Before(i, j)'
  BY <1>1, <1>2 DEF Before, Numbers
<1>8. ASSUME Undisturbed, NEW i \in 1..rows, NEW j \in 1..rows, Before(i, j)', i # j,
             Collide(list[i], list[j])
      PROVE  Before(i, j)
  <2>1. Before(i, j) \/ (i = nA + 1 /\ j = nB + 1 /\ pc = "compare")
    BY <1>1, <1>2, <1>8 DEF Before, Numbers
  <2>2. CASE i = nA + 1 /\ j = nB + 1 /\ pc = "compare"
    <3>1. lhs = list[i] /\ rhs = list[j] /\ lhsAt = position[lhs]
      BY <1>8, <2>2 DEF IInv, Within, Undisturbed
    <3> QED
      BY <1>2, <1>8, <2>2, <3>1 DEF Collide
  <2> QED
    BY <2>1, <2>2
<1>9. CallsAreDue' /\ DueAreCalled' /\ CalledOnce'
  BY <1>2, <1>7, <1>8, CallsStay DEF KeepHistory, history
<1> QED
  BY <1>3, <1>5, <1>6, <1>9 DEF IInv

LEMMA EndPassKeeps ==
  ASSUME IInv, EndPass
  PROVE  IInv'
<1>1. Sound'
  <2>1. changes' \in 0..MaxChanges
    BY ColliderAssumption DEF EndPass
  <2> QED
    BY <2>1, NoCalls DEF IInv, Sound, EndPass, Keep, sceneVars, Labels
<1>2. Numbers
  BY NumbersKnown DEF IInv, Sound
<1>3. Loops'
  BY <1>2 DEF IInv, Loops, EndPass, Numbers, InPair
<1>4. Within' /\ Fresh' /\ CallsAreDue' /\ DueAreCalled' /\ CalledOnce'
  BY NoCalls DEF Within, Fresh, CallsAreDue, DueAreCalled, CalledOnce, Undisturbed, EndPass, InPair
<1> QED
  BY <1>1, <1>3, <1>4 DEF IInv

-----------------------------------------------------------------------------
(* Theorems *)

LEMMA StepKeeps ==
  ASSUME IInv, [Next]_vars
  PROVE  IInv'
<1>1. CASE JavaScript
  BY <1>1, JavaScriptKeeps
<1>2. CASE Main
  BY <1>2, MainKeeps
<1>3. CASE Pass
  BY <1>3, BeginPassKeeps, BeginRowKeeps, LastRowKeeps, LastColumnKeeps, SkipDiagonalKeeps,
     ReadKeeps, IndexTrapKeeps, EmitCollisionKeeps, NextPairKeeps, EndPassKeeps DEF Pass
<1>4. CASE UNCHANGED vars
  BY <1>4 DEF vars, IInv, Sound, Loops, Fresh, Within, CallsAreDue, DueAreCalled, CalledOnce,
     Undisturbed, Before, Collide, InPair, list
<1> QED
  BY <1>1, <1>2, <1>3, <1>4 DEF Next

\* The inductive invariant: the loops of runColliderDetector stay within a list
\* that only grows, and what has been called is what was due so far.
THEOREM Invariance == Spec => []IInv
<1>1. Init => IInv
  BY InvInit
<1>2. IInv /\ [Next]_vars => IInv'
  BY StepKeeps
<1> QED
  BY <1>1, <1>2, PTL DEF Spec

LEMMA ExactFromInv ==
  ASSUME IInv
  PROVE  PassIsExact
<1>1. Numbers
  BY NumbersKnown DEF IInv, Sound
<1>2. TypeOK
  <2>1. children \in [Nodes \cup {Content} -> Seq(Nodes)]
    BY DEF IInv, Sound, Trees, Lists
  <2> QED
    BY <2>1 DEF IInv, Sound, Loops, TypeOK
<1>3. GrowingPassIsExact
  <2> DEFINE found == {children[Content][i] : i \in 1..rows}
  <2> SUFFICES ASSUME pc = "end", ~ reordered, ~ moved
               PROVE  /\ Collisions(found) \subseteq ToSet(calls)
                      /\ ToSet(calls) \subseteq Collisions(ChildSet(children, Content))
                      /\ IsInjective(calls)
    BY DEF GrowingPassIsExact
  <2>1. Undisturbed /\ nA = rows /\ rows <= Len(list)
    BY DEF Undisturbed, IInv, Within, Loops
  <2>2. ASSUME NEW call \in Collisions(found) PROVE call \in ToSet(calls)
    <3>1. PICK i \in 1..rows, j \in 1..rows : call = <<list[i], list[j]>>
      BY <2>2 DEF Collisions, list
    <3>2. Collide(list[i], list[j])
      BY <2>2, <3>1 DEF Collisions
    <3>3. i # j /\ Before(i, j)
      BY <1>1, <2>1, <3>2 DEF Collide, Before, Numbers
    <3>4. PICK k \in DOMAIN calls : calls[k] = <<list[i], list[j]>>
      BY <2>1, <3>2, <3>3 DEF IInv, DueAreCalled
    <3> QED
      BY <3>1, <3>4 DEF ToSet
  <2>3. ASSUME NEW k \in DOMAIN calls PROVE calls[k] \in Collisions(ChildSet(children, Content))
    <3>1. PICK i \in 1..Len(list), j \in 1..Len(list) :
             calls[k] = <<list[i], list[j]>> /\ Collide(list[i], list[j])
      BY <2>1 DEF IInv, CallsAreDue
    <3>2. list[i] \in ChildSet(children, Content) /\ list[j] \in ChildSet(children, Content)
      BY <1>1 DEF Numbers, ChildSet, ToSet, list
    <3> QED
      BY <3>1, <3>2 DEF Collisions
  <2>4. IsInjective(calls)
    BY DEF IInv, CalledOnce
  <2> QED
    BY <2>2, <2>3, <2>4 DEF ToSet
<1> QED
  BY <1>2, <1>3 DEF PassIsExact

\* A pass during which no child leaves the scene and nothing moves calls the
\* detector of every node it found, once for every other such node close to it,
\* and makes no other call (Scene.runColliderDetector), for any number of nodes,
\* whatever is added meanwhile.
THEOREM PassesAreExact == Spec => []PassIsExact
BY Invariance, ExactFromInv, PTL

\* An index past the end of the list of children, which stops the app, takes a
\* child that left the scene during the pass: adding and moving never do it.
THEOREM TrapsNeedRemoval == Spec => []TrapNeedsRemoval
<1>1. IInv => TrapNeedsRemoval
  BY DEF IInv, Sound, Within, TrapNeedsRemoval
<1> QED
  BY <1>1, Invariance, PTL

-----------------------------------------------------------------------------
(* A pass goes forward *)

\* The steps of the pass, as Progress sees them: to the next statement about the
\* same pair, to the next pair of the row, or to the next row.
LEMMA ProgressGrows ==
  ASSUME NEW a \in Nat, NEW b \in Nat, NEW w \in Nat, NEW x \in 0..6, NEW y \in 0..6
  PROVE  /\ x < y => (a * w + b) * 8 + y > (a * w + b) * 8 + x
         /\ (a * w + (b + 1)) * 8 + y > (a * w + b) * 8 + x
         /\ b < w => ((a + 1) * w + 0) * 8 + y > (a * w + b) * 8 + x
<1>1. a * w \in Nat /\ (a + 1) * w = a * w + w
  OBVIOUS
<1> DEFINE p == a * w
<1>2. p \in Nat /\ (a + 1) * w = p + w
  BY <1>1
<1> HIDE DEF p
<1>3. /\ x < y => (p + b) * 8 + y > (p + b) * 8 + x
      /\ (p + (b + 1)) * 8 + y > (p + b) * 8 + x
      /\ b < w => ((p + w) + 0) * 8 + y > (p + b) * 8 + x
  BY <1>2
<1> QED
  BY <1>2, <1>3 DEF p

LEMMA Stages ==
  /\ DOMAIN Stage = {"row", "pair", "rhs", "measure", "compare", "detector", "end"}
  /\ \A l \in DOMAIN Stage : Stage[l] \in 0..6
  /\ Stage["row"] = 0 /\ Stage["pair"] = 1 /\ Stage["rhs"] = 2 /\ Stage["measure"] = 3
  /\ Stage["compare"] = 4 /\ Stage["detector"] = 5 /\ Stage["end"] = 6
BY DEF Stage

LEMMA StepGoesForward ==
  ASSUME IInv, [Next]_vars
  PROVE  GoesForward
<1> SUFFICES ASSUME pc \in DOMAIN Stage, pc' \in DOMAIN Stage
             PROVE  rows' = rows /\ (Progress' > Progress \/ UNCHANGED passVars)
  BY DEF GoesForward
<1>1. Numbers
  BY NumbersKnown DEF IInv, Sound
<1>2. nA \in Nat /\ nB \in Nat /\ Cardinality(Nodes) + 1 \in Nat /\ nB < Cardinality(Nodes) + 1
  BY <1>1 DEF Numbers, IInv, Loops
<1>3. CASE UNCHANGED passVars
  BY <1>3 DEF passVars
<1>4. CASE Pass
  <2>1. pc # "idle" /\ pc' # "idle" /\ pc' # "trapped"
    BY Stages
  <2>2. rows' = rows
    BY <1>4, <2>1 DEF Pass, BeginPass, BeginRow, LastRow, LastColumn, SkipDiagonal, ReadLhs, ReadRhs,
       IndexTrap, MeasureLhs, EmitCollision, NextPair, EndPass
  <2>3. \/ nA' = nA /\ nB' = nB /\ Stage[pc] < Stage[pc']
        \/ nA' = nA /\ nB' = nB + 1
        \/ nA' = nA + 1 /\ nB' = 0
    <3>1. CASE BeginRow
      BY <3>1, Stages DEF BeginRow, IInv, Loops
    <3>2. CASE LastRow \/ ReadLhs \/ ReadRhs \/ MeasureLhs \/ EmitCollision
      BY <3>2, Stages DEF LastRow, ReadLhs, ReadRhs, MeasureLhs, EmitCollision
    <3>3. CASE LastColumn \/ SkipDiagonal \/ NextPair
      BY <3>3 DEF LastColumn, SkipDiagonal, NextPair
    <3> QED
      BY <1>4, <2>1, <3>1, <3>2, <3>3 DEF Pass, BeginPass, IndexTrap, EndPass
  <2>4. Stage[pc] \in 0..6 /\ Stage[pc'] \in 0..6
    BY Stages
  <2> DEFINE x == Stage[pc]
             y == Stage[pc']
             w == Cardinality(Nodes) + 1
  <2>5. (nA' * w + nB') * 8 + y > (nA * w + nB) * 8 + x
    <3>1. x \in 0..6 /\ y \in 0..6 /\ w \in Nat /\ nB < w
      BY <1>2, <2>4
    <3>2. \/ nA' = nA /\ nB' = nB /\ x < y
          \/ nA' = nA /\ nB' = nB + 1
          \/ nA' = nA + 1 /\ nB' = 0
      BY <2>3
    <3> HIDE DEF x, y, w
    <3>3. /\ x < y => (nA * w + nB) * 8 + y > (nA * w + nB) * 8 + x
          /\ (nA * w + (nB + 1)) * 8 + y > (nA * w + nB) * 8 + x
          /\ nB < w => ((nA + 1) * w + 0) * 8 + y > (nA * w + nB) * 8 + x
      BY <1>2, <3>1, ProgressGrows
    <3> QED
      BY <3>1, <3>2, <3>3
  <2> QED
    BY <2>2, <2>5 DEF Progress
<1> QED
  BY <1>3, <1>4 DEF Next, JavaScript, Main, vars, SceneAdd, NodeAdd, Move, setCollisionDetector,
     DidUpdateFrame, RemoveSceneContent, RemoveNode, ChangeChildren, ChangeCollisions, passVars

\* Every step of a pass goes forward, however the scene changes under it: the
\* outer bound is read once, and a detector's additions do not prolong a row.
THEOREM PassesGoForward == Spec => PassGoesForward
<1>1. IInv /\ [Next]_vars => GoesForward
  BY StepGoesForward
<1>2. IInv /\ [Next]_vars => [GoesForward]_vars
  BY <1>1
<1> QED
  BY <1>2, Invariance, PTL DEF Spec, PassGoesForward
=============================================================================
