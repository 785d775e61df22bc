--------------------------- MODULE LibraryProofs ---------------------------
(***************************************************************************)
(* Proofs about the parts of leveldb that keep memory, open files and      *)
(* directories, for every size of them:                                    *)
(*   SkipList    readers without a lock see the list as it was at some     *)
(*               moment (ReadsAreExact);                                   *)
(*   PosixEnv    no permit is lost or given twice, and the locks keep      *)
(*               threads and processes apart;                              *)
(*   Arena       pieces of memory do not overlap and are aligned (with the *)
(*               two of PosixEnv: LimitsHold);                             *)
(*   TableCache  a handle has one reference for every client and one for   *)
(*               the cache (HandlesAreCounted), and the tables that are    *)
(*               open are bounded (OpenTablesBounded);                     *)
(*   Repair      no entry is destroyed, however often a repair is stopped  *)
(*               and run again, and one that ends leaves a database that   *)
(*               opens, with all there was to find (RepairIsSafe).         *)
(* Each part has an inductive invariant of its own; a step of one part     *)
(* leaves the variables of the others alone.                               *)
(***************************************************************************)
EXTENDS MCLibraries, TLAPS, FiniteSetTheorems, SequenceTheorems, NaturalsInduction, WellFoundedInduction

\* Every set of numbers that is not empty has a least one.
LEMMA LeastNumber ==
  ASSUME NEW S, S \subseteq Nat, S # {}
  PROVE  \E x \in S : \A y \in S : x <= y
<1> DEFINE R == {ss \in Nat \X Nat : ss[1] < ss[2]}
<1>1. IsWellFoundedOn(R, Nat)
  BY NatLessThanWellFounded, Zenon DEF OpToRel
<1>2. \A x, y \in Nat : y < x => <<y, x>> \in R
  OBVIOUS
<1> HIDE DEF R
<1>3. PICK x \in S : \A y \in S : <<y, x>> \notin R
  BY <1>1, WFMin
<1>4. ASSUME NEW y \in S PROVE x <= y
  <2>1. x \in Nat /\ y \in Nat /\ ~ (y < x)
    BY <1>2, <1>3
  <2> QED
    BY <2>1
<1> QED
  BY <1>4

\* ... and a greatest one if it is bounded.
LEMMA GreatestNumber ==
  ASSUME NEW S, NEW n \in Nat, S \subseteq 0..n, S # {}
  PROVE  \E x \in S : \A y \in S : y <= x
<1> DEFINE D == {d \in Nat : n - d \in S}
<1>1. D # {}
  <2>1. PICK x \in S : TRUE
    OBVIOUS
  <2>2. x \in 0..n /\ n - x \in Nat /\ n - (n - x) = x
    BY <2>1
  <2> QED
    BY <2>1, <2>2
<1>2. D \subseteq Nat
  OBVIOUS
<1>3. \A d \in D : n - d \in S
  OBVIOUS
<1>4. \A y \in S : n - y \in D
  <2>1. ASSUME NEW y \in S PROVE n - y \in D
    <3>1. y \in 0..n /\ n - y \in Nat /\ n - (n - y) = y
      OBVIOUS
    <3> QED
      BY <3>1
  <2> QED
    BY <2>1
<1> HIDE DEF D
<1>5. PICK d \in D : \A e \in D : d <= e
  BY <1>1, <1>2, LeastNumber
<1>6. ASSUME NEW y \in S PROVE y <= n - d
  <2>1. d \in Nat /\ y \in 0..n /\ d <= n - y
    BY <1>2, <1>4, <1>5
  <2> QED
    BY <2>1
<1> QED
  BY <1>3, <1>6

\* What Max and Min of the community modules return.
LEMMA MaxIs ==
  ASSUME NEW S, NEW n \in Nat, S \subseteq 0..n, NEW x \in S, \A y \in S : y <= x
  PROVE  List!Max(S) = x
<1>1. \A y \in S : y \in Nat
  OBVIOUS
<1>2. \A y \in S : x >= y
  BY <1>1
<1>3. \A z \in S : (\A y \in S : z >= y) => z = x
  BY <1>1
<1> QED
  BY <1>2, <1>3 DEF List!Max

\* Cardinality means in every instance what the library's theorems are about.
LEMMA SameCardinality ==
  /\ \A S : Env!IsFiniteSet(S) <=> IsFiniteSet(S)
  /\ \A S : Memory!IsFiniteSet(S) <=> IsFiniteSet(S)
  /\ \A S : Cache!IsFiniteSet(S) <=> IsFiniteSet(S)
  /\ \A S : Env!Cardinality(S) = Cardinality(S)
  /\ \A S : Memory!Cardinality(S) = Cardinality(S)
  /\ \A S : Cache!Cardinality(S) = Cardinality(S)
<1>1. \A S : Env!IsFiniteSet(S) <=> IsFiniteSet(S)
  BY DEF Env!IsFiniteSet, IsFiniteSet
<1>2. \A S : Memory!IsFiniteSet(S) <=> IsFiniteSet(S)
  BY DEF Memory!IsFiniteSet, IsFiniteSet
<1>3. \A S : Cache!IsFiniteSet(S) <=> IsFiniteSet(S)
  BY DEF Cache!IsFiniteSet, IsFiniteSet
<1>4. \A S : Env!Cardinality(S) = Cardinality(S)
  BY DEF Env!Cardinality, Cardinality
<1>5. \A S : Memory!Cardinality(S) = Cardinality(S)
  BY DEF Memory!Cardinality, Cardinality
<1>6. \A S : Cache!Cardinality(S) = Cardinality(S)
  BY DEF Cache!Cardinality, Cardinality
<1> QED
  BY <1>1, <1>2, <1>3, <1>4, <1>5, <1>6

\* The least element, as Min of the list returns it.
LEMMA MinIs ==
  ASSUME NEW S, S \subseteq Nat, NEW x \in S, \A y \in S : x <= y
  PROVE  List!Min(S) = x
<1>1. \A z \in S : (\A y \in S : z <= y) => z = x
  OBVIOUS
<1> QED
  BY <1>1 DEF List!Min
-----------------------------------------------------------------------------
(* The skip list *)

IsLinked(n, l) == next[n][l] # List!Uninitialized

\* At each level a node points to the first linked one that is greater, and what
\* is linked at a level is linked at those below.
LevelsSorted ==
  /\ next \in [List!Nodes -> [List!Heights ->
                 List!Keys \union {List!NULL, List!Uninitialized}]]
  /\ \A l \in List!Heights : IsLinked(List!head_, l)
  /\ \A n \in List!Nodes, l \in List!Heights : IsLinked(n, l) =>
       /\ n < next[n][l]
       /\ next[n][l] \in List!Keys => IsLinked(next[n][l], l)
       /\ \A k \in List!Keys : IsLinked(k, l) /\ n < k => next[n][l] <= k
  /\ \A k \in List!Keys, l, m \in List!Heights :
       m <= l /\ IsLinked(k, l) => IsLinked(k, m)

\* p is the last node before k at level l.
IsBefore(p, k, l) ==
  /\ p \in List!Nodes /\ p < k /\ IsLinked(p, l)
  /\ \A n \in List!Keys : IsLinked(n, l) /\ n < k => n <= p

\* The key of an Insert is linked at the levels that are done, and the nodes
\* found for the others are still those before it.
Inserting(i) ==
  /\ i = [key |-> i.key, height |-> i.height, done |-> i.done, prev |-> i.prev]
  /\ i.key \in List!Keys /\ i.height \in List!Heights
  /\ i.done \in Nat /\ i.done < i.height
  /\ \A l \in List!Heights : IsLinked(i.key, l) <=> l <= i.done
  /\ \A l \in (i.done + 1)..i.height : IsBefore(i.prev[l], i.key, l)

InsertInv ==
  /\ max_height \in List!Heights
  /\ insert # << >> => insert = <<insert[1]>> /\ Inserting(insert[1])

IdleReaders == [pc : {"idle"}, node : List!Keys \union {List!NULL}]

Searches == [pc : {"search"}, op : {"seek", "prev", "last"}, key : List!Keys,
             node : List!Nodes, level : List!Heights]

\* A reader is at a node that is linked at the level it searches, and has not
\* passed what it looks for.
ReaderInv(s) ==
  \/ s \in IdleReaders /\ (s.node # List!NULL => IsLinked(s.node, 1))
  \/ /\ s \in Searches /\ IsLinked(s.node, s.level)
     /\ s.op \in {"seek", "prev"} => s.node < s.key

ReadersInv ==
  /\ DOMAIN iter = Readers
  /\ iter = [r \in Readers |-> iter[r]]
  /\ \A r \in Readers : ReaderInv(iter[r])

ListInv == LevelsSorted /\ InsertInv /\ ReadersInv

\* Keys, nodes and heights are numbers.
LEMMA ListConstants ==
  /\ MaxRank \in Nat /\ kMaxHeight \in Nat /\ kMaxHeight >= 1
  /\ List!Keys = 1..MaxRank /\ List!head_ = 0 /\ List!NULL = MaxRank + 1
  /\ List!Uninitialized = MaxRank + 2 /\ List!Nodes = 0..MaxRank
  /\ List!Heights = 1..kMaxHeight /\ 1 \in List!Heights
BY LibrariesAssumption DEF List!SkipListAssumption, List!Keys, List!head_, List!NULL,
   List!Uninitialized, List!Nodes, List!Heights

\* The empty list is sorted, and no reader is anywhere.
LEMMA ListStarts ==
  List!Init => ListInv
<1>1. SUFFICES ASSUME List!Init PROVE ListInv
  OBVIOUS
<1>2. LevelsSorted
  BY <1>1, ListConstants DEF List!Init, LevelsSorted, IsLinked
<1>3. InsertInv
  BY <1>1, ListConstants DEF List!Init, InsertInv
<1>4. ReadersInv
  BY <1>1, ListConstants DEF List!Init, ReadersInv, ReaderInv, IdleReaders
<1> QED
  BY <1>2, <1>3, <1>4 DEF ListInv

\* The nodes linked at a level are those whose pointer there has been set: each
\* of them has a node before it that points to it.
LEMMA LinkedIs ==
  ASSUME LevelsSorted, NEW l \in List!Heights
  PROVE  List!Linked(l) = {n \in List!Keys : IsLinked(n, l)}
<1> USE ListConstants
<1>1. ASSUME NEW n \in List!Keys, NEW m \in List!Nodes, next[m][l] = n
      PROVE  IsLinked(n, l)
  <2>1. next[m][l] # MaxRank + 2 /\ next[m][l] \in List!Keys
    BY <1>1
  <2>2. IsLinked(m, l)
    BY <2>1 DEF IsLinked
  <2>3. IsLinked(next[m][l], l)
    BY <2>1, <2>2 DEF LevelsSorted
  <2> QED
    BY <1>1, <2>3
<1>2. ASSUME NEW n \in List!Keys, IsLinked(n, l)
      PROVE  \E m \in List!Nodes : next[m][l] = n
  <2> DEFINE S == {m \in List!Nodes : m < n /\ IsLinked(m, l)}
  <2>1. S \subseteq 0..MaxRank /\ 0 \in S
    BY DEF LevelsSorted
  <2>2. PICK m \in S : \A y \in S : y <= m
    BY <2>1, GreatestNumber
  <2>3. m \in List!Nodes /\ m < n /\ IsLinked(m, l)
    BY <2>2
  <2>4. m < next[m][l] /\ next[m][l] <= n /\ next[m][l] \in 1..MaxRank /\ IsLinked(next[m][l], l)
    BY <2>3, <1>2 DEF LevelsSorted, IsLinked
  <2>5. CASE next[m][l] < n
    <3>1. next[m][l] \in S
      BY <2>4, <2>5
    <3> QED
      BY <2>2, <2>4, <3>1, <2>1
  <2> QED
    BY <2>3, <2>4, <2>5
<1> QED
  BY <1>1, <1>2 DEF List!Linked

\* The nodes FindGreaterOrEqual returns are before the key, next to it.
LEMMA PrevIsBefore ==
  ASSUME LevelsSorted, NEW l \in List!Heights, NEW k \in 0..(MaxRank + 1), k > 0
  PROVE  /\ IsBefore(List!Max({0} \union {n \in List!Linked(l) : n < k}), k, l)
<1> USE ListConstants
<1> DEFINE S == {0} \union {n \in List!Linked(l) : n < k}
<1>1. \A n : n \in S <=> n = 0 \/ (n \in List!Keys /\ IsLinked(n, l) /\ n < k)
  BY LinkedIs
<1>2. S \subseteq 0..MaxRank /\ S # {}
  BY <1>1
<1> HIDE DEF S
<1>3. PICK p \in S : \A y \in S : y <= p
  BY <1>2, GreatestNumber
<1>4. List!Max(S) = p
  BY <1>2, <1>3, MaxIs
<1>5. IsBefore(p, k, l)
  <2>1. p \in 0..MaxRank /\ p < k
    BY <1>1, <1>2, <1>3
  <2>2. IsLinked(p, l)
    BY <1>1, <1>3 DEF LevelsSorted
  <2>3. \A n \in List!Keys : IsLinked(n, l) /\ n < k => n <= p
    BY <1>1, <1>3
  <2> QED
    BY <2>1, <2>2, <2>3 DEF IsBefore
<1> QED
  BY <1>4, <1>5 DEF S

\* What is before k is the greatest of what is linked and less.
LEMMA BeforeIs ==
  ASSUME LevelsSorted, NEW l \in List!Heights, NEW k \in 0..(MaxRank + 1), NEW p, IsBefore(p, k, l)
  PROVE  List!Max({0} \union {n \in List!Linked(l) : n < k}) = p
<1> USE ListConstants
<1> DEFINE S == {0} \union {n \in List!Linked(l) : n < k}
<1>1. \A n : n \in S <=> n = 0 \/ (n \in List!Keys /\ IsLinked(n, l) /\ n < k)
  BY LinkedIs
<1>2. S \subseteq 0..MaxRank
  BY <1>1
<1> HIDE DEF S
<1>3. p \in S
  BY <1>1 DEF IsBefore
<1>4. \A y \in S : y <= p
  BY <1>1 DEF IsBefore
<1>5. List!Max(S) = p
  BY <1>2, <1>3, <1>4, MaxIs
<1> QED
  BY <1>5 DEF S

\* The next node is the least that is linked and greater than k, from a node
\* that is at most k, when what follows it is not.
LEMMA AfterIs ==
  ASSUME LevelsSorted, NEW l \in List!Heights, NEW n \in List!Nodes, IsLinked(n, l),
         NEW k \in List!Nodes, n <= k, k < next[n][l]
  PROVE  List!Min({List!NULL} \union {m \in List!Linked(l) : m > k}) = next[n][l]
<1> USE ListConstants
<1> DEFINE S == {List!NULL} \union {m \in List!Linked(l) : m > k}
<1>1. \A m : m \in S <=> m = List!NULL \/ (m \in List!Keys /\ IsLinked(m, l) /\ m > k)
  BY LinkedIs
<1>2. S \subseteq Nat
  BY <1>1
<1> HIDE DEF S
<1>3. /\ next[n][l] \in 1..(MaxRank + 1)
      /\ next[n][l] \in List!Keys => IsLinked(next[n][l], l)
      /\ \A m \in List!Keys : IsLinked(m, l) /\ n < m => next[n][l] <= m
  BY DEF LevelsSorted, IsLinked
<1>4. next[n][l] \in S
  BY <1>1, <1>3
<1>5. \A y \in S : next[n][l] <= y
  BY <1>1, <1>3
<1>6. List!Min(S) = next[n][l]
  BY <1>2, <1>4, <1>5, MinIs
<1> QED
  BY <1>6 DEF S
-----------------------------------------------------------------------------
\* A node that is prepared is not yet in the list.
LEMMA InsertStartKeeps ==
  ASSUME ListInv, NEW k \in List!Keys, NEW height \in List!Heights, List!InsertStart(k, height)
  PROVE  ListInv'
<1> USE ListConstants
<1>1. UNCHANGED <<next, iter>> /\ insert = << >> /\ k \notin List!Linked(1)
  BY DEF List!InsertStart
<1>2. LevelsSorted'
  BY <1>1 DEF ListInv, LevelsSorted, IsLinked
<1>3. ReadersInv'
  BY <1>1 DEF ListInv, ReadersInv, ReaderInv, IsLinked
<1>p. PICK before : before = [l \in 1..height |-> List!Prev(k, l)]
  OBVIOUS
<1>i. PICK i : i = [key |-> k, height |-> height, done |-> 0, prev |-> before]
  OBVIOUS
<1>4. insert' = <<i>>
  BY <1>p, <1>i DEF List!InsertStart
<1>5. max_height' \in List!Heights
  <2> DEFINE S == {max_height, height}
  <2>1. S \subseteq 0..kMaxHeight /\ S # {} /\ S \subseteq List!Heights
    BY DEF ListInv, InsertInv
  <2>2. max_height' = List!Max(S)
    BY DEF List!InsertStart
  <2> HIDE DEF S
  <2>3. PICK x \in S : \A y \in S : y <= x
    BY <2>1, GreatestNumber
  <2> QED
    BY <2>1, <2>2, <2>3, MaxIs
<1>6. \A l \in List!Heights : ~ IsLinked(k, l)
  <2>1. ~ IsLinked(k, 1)
    BY <1>1, LinkedIs DEF ListInv
  <2> QED
    BY <2>1 DEF ListInv, LevelsSorted
<1>7. ASSUME NEW l \in 1..height
      PROVE  IsBefore(i.prev[l], k, l)
  <2>1. l \in List!Heights
    OBVIOUS
  <2>2. List!Prev(k, l) = List!Max({0} \union {n \in List!Linked(l) : n < k})
    BY DEF List!Prev
  <2>3. i.prev[l] = List!Prev(k, l)
    BY <1>p, <1>i
  <2>4. k \in 0..(MaxRank + 1) /\ k > 0
    OBVIOUS
  <2> HIDE ListConstants
  <2>5. IsBefore(List!Max({0} \union {n \in List!Linked(l) : n < k}), k, l)
    BY <2>1, <2>4, PrevIsBefore DEF ListInv
  <2> QED
    BY <2>2, <2>3, <2>5
<1>8. \A n : \A l \in List!Heights : IsLinked(n, l)' <=> IsLinked(n, l)
  BY <1>1 DEF IsLinked
<1>9. Inserting(i)'
  <2>1. /\ i = [key |-> i.key, height |-> i.height, done |-> i.done, prev |-> i.prev]
        /\ i.key = k /\ i.height = height /\ i.done = 0
    BY <1>i
  <2>2. \A l \in List!Heights : IsLinked(i.key, l)' <=> l <= i.done
    BY <2>1, <1>6, <1>8
  <2>3. \A l \in (i.done + 1)..i.height : IsBefore(i.prev[l], i.key, l)'
    BY <2>1, <1>7, <1>8 DEF IsBefore
  <2> QED
    BY <2>1, <2>2, <2>3 DEF Inserting
<1>10. insert'[1] = i
  BY <1>4
<1>11. InsertInv'
  BY <1>4, <1>5, <1>9, <1>10 DEF InsertInv, Inserting, IsBefore, IsLinked
<1> QED
  BY <1>2, <1>3, <1>11 DEF ListInv

\* The pointers of a level are set to a new node and from it; nothing else moves.
LEMMA InsertLinkKeeps ==
  ASSUME ListInv, List!InsertLink
  PROVE  ListInv'
<1> USE ListConstants
<1>1. PICK i : insert = <<i>> /\ Inserting(i)
  BY DEF ListInv, InsertInv, List!InsertLink
<1> DEFINE k == i.key
           l == i.done + 1
           p == i.prev[l]
<1>q. PICK q : q = next[p][l]
  OBVIOUS
<1>2. /\ next' = [next EXCEPT ![k][l] = q, ![p][l] = k]
      /\ insert' = IF l = i.height THEN << >> ELSE <<[i EXCEPT !.done = @ + 1]>>
      /\ UNCHANGED <<max_height, iter>>
  BY <1>1, <1>q DEF List!InsertLink, List!LevelToLink
<1>3. /\ k \in List!Keys /\ l \in List!Heights /\ ~ IsLinked(k, l) /\ l \in (i.done + 1)..i.height
      /\ i.done \in Nat /\ i.height \in List!Heights
  BY <1>1 DEF Inserting
<1>4. IsBefore(p, k, l)
  BY <1>1, <1>3 DEF Inserting
<1>5. p \in List!Nodes /\ p < k /\ IsLinked(p, l) /\ p # k /\ k \in List!Nodes
  BY <1>3, <1>4 DEF IsBefore
<1>6. /\ q \in 1..(MaxRank + 1) /\ k < q
      /\ q \in List!Keys => IsLinked(q, l)
      /\ \A n \in List!Keys : IsLinked(n, l) /\ p < n => q <= n
  <2>1. /\ q \in 1..(MaxRank + 1) /\ p < q
        /\ q \in List!Keys => IsLinked(q, l)
        /\ \A n \in List!Keys : IsLinked(n, l) /\ p < n => q <= n
    <3>1. next[p] \in [List!Heights -> List!Keys \union {List!NULL, List!Uninitialized}]
      BY <1>5 DEF ListInv, LevelsSorted
    <3>2. q \in 1..(MaxRank + 1)
      <4>1. q = next[p][l] /\ q # List!Uninitialized
        BY <1>q, <1>5 DEF IsLinked
      <4>2. q \in List!Keys \union {List!NULL}
        BY <4>1, <3>1, <1>3
      <4> QED
        BY <4>2
    <3>3. /\ p < q
          /\ q \in List!Keys => IsLinked(q, l)
          /\ \A n \in List!Keys : IsLinked(n, l) /\ p < n => q <= n
      BY <1>q, <1>3, <1>5 DEF ListInv, LevelsSorted
    <3> QED
      BY <3>2, <3>3, <1>3, <1>5, <1>q DEF ListInv, LevelsSorted
  <2>2. q # k
    BY <2>1, <1>3
  <2>3. ~ (q < k)
    BY <2>1, <1>3, <1>4 DEF IsBefore
  <2> QED
    BY <2>1, <2>2, <2>3, <1>3
<1> HIDE DEF k, l, p
<1>7. /\ next' \in [List!Nodes -> [List!Heights -> List!Keys \union {List!NULL, List!Uninitialized}]]
      /\ next'[k][l] = q /\ next'[p][l] = k
      /\ \A n \in List!Nodes, m \in List!Heights :
           (m = l => n \notin {k, p}) => next'[n][m] = next[n][m]
  <2>1. next \in [List!Nodes -> [List!Heights -> List!Keys \union {List!NULL, List!Uninitialized}]]
    BY DEF ListInv, LevelsSorted
  <2>2. q \in List!Keys \union {List!NULL, List!Uninitialized}
    BY <1>6
  <2>3. PICK g : g = [next EXCEPT ![k][l] = q]
    OBVIOUS
  <2>4. /\ g \in [List!Nodes -> [List!Heights -> List!Keys \union {List!NULL, List!Uninitialized}]]
        /\ g[k][l] = q
        /\ \A n \in List!Nodes, m \in List!Heights : n # k \/ m # l => g[n][m] = next[n][m]
    BY <2>1, <2>2, <2>3, <1>3, <1>5
  <2>5. next' = [g EXCEPT ![p][l] = k]
    BY <1>2, <2>3
  <2>6. /\ next' \in [List!Nodes -> [List!Heights -> List!Keys \union {List!NULL, List!Uninitialized}]]
        /\ next'[p][l] = k
        /\ \A n \in List!Nodes, m \in List!Heights : n # p \/ m # l => next'[n][m] = g[n][m]
    BY <2>4, <2>5, <1>3, <1>5
  <2> QED
    BY <2>4, <2>6, <1>3, <1>5
\* Exactly the new node is linked, at this level.
<1>8. \A n \in List!Nodes, m \in List!Heights :
        IsLinked(n, m)' <=> IsLinked(n, m) \/ (n = k /\ m = l)
  <2>1. IsLinked(k, l)'
    BY <1>6, <1>7 DEF IsLinked
  <2>2. IsLinked(p, l)'
    BY <1>3, <1>7 DEF IsLinked
  <2>3. \A n \in List!Nodes, m \in List!Heights :
          (m = l => n \notin {k, p}) => (IsLinked(n, m)' <=> IsLinked(n, m))
    BY <1>7 DEF IsLinked
  <2> QED
    BY <2>1, <2>2, <2>3, <1>5
<1>9. LevelsSorted'
  <2>1. \A m \in List!Heights : IsLinked(List!head_, m)'
    BY <1>8 DEF ListInv, LevelsSorted
  <2>2. ASSUME NEW n \in List!Nodes, NEW m \in List!Heights, IsLinked(n, m)'
        PROVE  /\ n < next'[n][m]
               /\ next'[n][m] \in List!Keys => IsLinked(next[n][m], m)'
               /\ \A x \in List!Keys : IsLinked(x, m)' /\ n < x => next'[n][m] <= x
    <3>1. CASE m = l /\ n = k
      <4>1. \A x \in List!Keys : IsLinked(x, l)' /\ k < x => q <= x
        BY <1>3, <1>5, <1>6, <1>8
      <4> QED
        BY <3>1, <4>1, <1>3, <1>6, <1>7, <1>8
    <3>2. CASE m = l /\ n = p
      <4>1. \A x \in List!Keys : IsLinked(x, l)' /\ p < x => k <= x
        BY <1>3, <1>5, <1>6, <1>8
      <4> QED
        BY <3>2, <4>1, <1>3, <1>5, <1>7, <1>8
    <3>3. CASE m = l => n \notin {k, p}
      <4>1. IsLinked(n, m) /\ next'[n][m] = next[n][m]
        BY <2>2, <3>3, <1>7, <1>8
      <4>x. PICK z : z = next[n][m]
        OBVIOUS
      <4>2. /\ n < z
            /\ z \in List!Keys => IsLinked(z, m)
            /\ \A x \in List!Keys : IsLinked(x, m) /\ n < x => z <= x
        BY <4>1, <4>x DEF ListInv, LevelsSorted
      <4>3. m = l /\ n < k => z <= k
        <5>1. SUFFICES ASSUME m = l, n < k PROVE z <= k
          OBVIOUS
        <5>2. n < p
          <6>1. n = 0 \/ n \in List!Keys
            OBVIOUS
          <6>2. n <= p
            BY <6>1, <5>1, <4>1, <1>3, <1>4, <1>5 DEF IsBefore
          <6> QED
            BY <6>2, <5>1, <3>3, <1>5
        <5>3. p \in List!Keys
          BY <5>2, <1>5
        <5>4. z <= p
          BY <4>2, <5>1, <5>2, <5>3, <1>5
        <5>5. z \in Nat
          BY <4>1, <4>x DEF ListInv, LevelsSorted, IsLinked
        <5> QED
          BY <5>4, <5>5, <1>3, <1>5
      <4>4. \A x \in List!Keys : IsLinked(x, m)' /\ n < x => z <= x
        BY <4>2, <4>3, <1>8
      <4>5. z \in List!Keys => IsLinked(z, m)'
        BY <4>2, <1>8
      <4>6. next'[n][m] = z
        BY <4>1, <4>x
      <4> QED
        BY <4>2, <4>4, <4>5, <4>6
    <3> QED
      BY <3>1, <3>2, <3>3
  <2>3. ASSUME NEW x \in List!Keys, NEW m \in List!Heights, NEW y \in List!Heights,
               y <= m, IsLinked(x, m)'
        PROVE  IsLinked(x, y)'
    <3>1. CASE IsLinked(x, m)
      BY <3>1, <2>3, <1>8 DEF ListInv, LevelsSorted
    <3>2. CASE x = k /\ m = l
      <4>1. y = l \/ y <= i.done
        BY <2>3, <3>2, <1>3 DEF l
      <4>2. y <= i.done => IsLinked(k, y)
        BY <1>1 DEF Inserting, k
      <4> QED
        BY <4>1, <4>2, <3>2, <1>8
    <3> QED
      BY <2>3, <3>1, <3>2, <1>8
  <2>4. next' \in [List!Nodes -> [List!Heights -> List!Keys \union {List!NULL, List!Uninitialized}]]
    BY <1>7
  <2> QED
    BY <2>1, <2>2, <2>3, <2>4 DEF LevelsSorted
<1>10. InsertInv'
  <2>1. max_height' \in List!Heights
    BY <1>2 DEF ListInv, InsertInv
  <2>2. CASE l = i.height
    BY <2>1, <2>2, <1>2 DEF InsertInv
  <2>3. CASE l # i.height
    <3> DEFINE j == [i EXCEPT !.done = @ + 1]
    <3>1. insert' = <<j>>
      BY <1>2, <2>3
    <3>2. /\ j = [key |-> j.key, height |-> j.height, done |-> j.done, prev |-> j.prev]
          /\ j.key = k /\ j.height = i.height /\ j.done = l /\ j.prev = i.prev
      BY <1>1 DEF Inserting, k, l
    <3> HIDE DEF j
    <3>3. l < i.height /\ l \in Nat
      BY <2>3, <1>3
    <3>4. \A m \in List!Heights : IsLinked(k, m)' <=> m <= l
      <4>1. ASSUME NEW m \in List!Heights PROVE IsLinked(k, m)' <=> m <= l
        <5>1. IsLinked(k, m) <=> m <= i.done
          BY <1>1 DEF Inserting, k
        <5>2. m <= l <=> m <= i.done \/ m = l
          BY <1>3 DEF l
        <5> QED
          BY <5>1, <5>2, <1>5, <1>8
      <4> QED
        BY <4>1
    <3>5. ASSUME NEW m \in (l + 1)..i.height PROVE IsBefore(i.prev[m], k, m)'
      <4>1. m \in (i.done + 1)..i.height /\ m # l /\ m \in List!Heights
        BY <1>3 DEF l
      <4>2. IsBefore(i.prev[m], k, m)
        BY <4>1, <1>1 DEF Inserting, k
      <4> QED
        BY <4>1, <4>2, <1>8 DEF IsBefore
    <3>6. Inserting(j)'
      BY <3>2, <3>3, <3>4, <3>5, <1>3 DEF Inserting
    <3>7. insert'[1] = j
      BY <3>1
    <3> QED
      BY <2>1, <3>1, <3>6, <3>7 DEF InsertInv, Inserting, IsBefore, IsLinked
  <2> QED
    BY <2>2, <2>3
<1>11. ReadersInv'
  <2>1. ASSUME NEW s, ReaderInv(s) PROVE ReaderInv(s)'
    BY <2>1, <1>8 DEF ReaderInv, IdleReaders, Searches
  <2> QED
    BY <2>1, <1>2 DEF ListInv, ReadersInv, ReaderInv, IsLinked
<1> QED
  BY <1>9, <1>10, <1>11 DEF ListInv
-----------------------------------------------------------------------------
\* A reader that moves to a good state keeps the rest.
LEMMA ReaderMoves ==
  ASSUME ListInv, NEW r \in Readers, NEW to, ReaderInv(to), iter' = [iter EXCEPT ![r] = to],
         UNCHANGED <<next, max_height, insert>>
  PROVE  ListInv'
<1>1. LevelsSorted' /\ InsertInv'
  BY DEF ListInv, LevelsSorted, InsertInv, Inserting, IsBefore, IsLinked
<1>2. \A s : ReaderInv(s)' <=> ReaderInv(s)
  BY DEF ReaderInv, IsLinked
<1>3. /\ iter' = [q \in Readers |-> IF q = r THEN to ELSE iter[q]]
      /\ \A q \in Readers : iter'[q] = IF q = r THEN to ELSE iter[q]
  BY DEF ListInv, ReadersInv
<1>4. ASSUME NEW q \in Readers PROVE ReaderInv(iter[q])'
  <2>1. PICK s : s = iter'[q]
    OBVIOUS
  <2>2. ReaderInv(s)
    BY <1>3, <2>1 DEF ListInv, ReadersInv
  <2>3. ReaderInv(s)'
    BY <1>2, <2>2
  <2> QED
    BY <2>1, <2>3 DEF ReaderInv, IsLinked
<1>5. iter' = [q \in Readers |-> iter'[q]] /\ DOMAIN iter' = Readers
  BY <1>3
<1> QED
  BY <1>1, <1>4, <1>5 DEF ListInv, ReadersInv

\* A reader that starts is at the head.
LEMMA SearchKeeps ==
  ASSUME ListInv, NEW r \in Readers, NEW k \in List!Keys, NEW op \in {"seek", "prev", "last"},
         List!Search(r, op, k)
  PROVE  ListInv' /\ List!ReadIsExact(r)
<1> USE ListConstants
<1>1. PICK height \in 1..max_height :
        iter' = [iter EXCEPT ![r] = [pc |-> "search", op |-> op, key |-> k,
                                     node |-> List!head_, level |-> height]]
  BY DEF List!Search
<1>2. PICK to : to = [pc |-> "search", op |-> op, key |-> k, node |-> List!head_, level |-> height]
  OBVIOUS
<1>3. height \in List!Heights /\ List!head_ \in List!Nodes
  BY DEF ListInv, InsertInv
<1>4. to \in Searches /\ to.node = List!head_ /\ to.level = height /\ to.key = k
  BY <1>2, <1>3 DEF Searches
<1>5. ReaderInv(to)
  BY <1>3, <1>4 DEF ReaderInv, ListInv, LevelsSorted
<1>6. iter'[r] = to
  BY <1>1, <1>2 DEF ListInv, ReadersInv
<1>7. List!ReadIsExact(r)
  BY <1>2, <1>6 DEF List!ReadIsExact
<1> QED
  BY <1>1, <1>2, <1>5, <1>7, ReaderMoves DEF List!Search

\* An idle reader follows a link of level 0.
LEMMA FollowKeeps ==
  ASSUME ListInv, NEW r \in Readers, NEW from \in List!Nodes, List!Follow(r, from)
  PROVE  ListInv' /\ List!ReadIsExact(r)
<1> USE ListConstants
<1>1. /\ iter[r].pc = "idle" /\ from \in {List!head_, iter[r].node} \ {List!NULL}
      /\ iter' = [iter EXCEPT ![r].node = next[from][1]]
      /\ UNCHANGED <<next, max_height, insert>>
  BY DEF List!Follow
<1>2. iter[r] \in IdleReaders /\ (iter[r].node # List!NULL => IsLinked(iter[r].node, 1))
  BY <1>1 DEF ListInv, ReadersInv, ReaderInv, Searches
<1>3. IsLinked(from, 1)
  BY <1>1, <1>2 DEF ListInv, LevelsSorted
<1>4. PICK n : n = next[from][1]
  OBVIOUS
<1>5. /\ n \in 1..(MaxRank + 1) /\ from < n
      /\ n \in List!Keys => IsLinked(n, 1)
  BY <1>3, <1>4 DEF ListInv, LevelsSorted, IsLinked
<1>6. PICK to : to = [iter[r] EXCEPT !.node = n]
  OBVIOUS
<1>7. to = [pc |-> "idle", node |-> n] /\ to \in IdleReaders /\ to.node = n
  BY <1>2, <1>5, <1>6 DEF IdleReaders
<1>8. ReaderInv(to)
  BY <1>5, <1>7 DEF ReaderInv
<1>9. iter' = [iter EXCEPT ![r] = to] /\ iter'[r] = to
  BY <1>1, <1>4, <1>6 DEF ListInv, ReadersInv
<1>10. n = List!Min({List!NULL} \union {m \in List!Linked(1) : m > from})
  <2>1. /\ LevelsSorted /\ 1 \in List!Heights /\ from \in List!Nodes
        /\ from <= from /\ from < next[from][1]
    BY <1>4, <1>5 DEF ListInv
  <2> HIDE ListConstants
  <2> QED
    BY <2>1, <1>3, <1>4, AfterIs
<1>11. List!ReadIsExact(r)
  <2>1. iter'[r].node = n /\ n # List!Uninitialized /\ from \in {List!head_, iter[r].node}
    BY <1>1, <1>5, <1>7, <1>9
  <2> HIDE ListConstants
  <2> QED
    BY <1>1, <1>10, <2>1 DEF List!ReadIsExact
<1> QED
  BY <1>1, <1>8, <1>9, <1>11, ReaderMoves

\* The search ends at the lowest level, between what is less than its key and
\* what is not.
LEMMA StepKeeps ==
  ASSUME ListInv, NEW r \in Readers, List!Step(r)
  PROVE  ListInv' /\ List!ReadIsExact(r)
<1> USE ListConstants
<1>1. PICK s : s = iter[r]
  OBVIOUS
<1>2. /\ s \in Searches /\ s.pc = "search" /\ IsLinked(s.node, s.level)
      /\ s.op \in {"seek", "prev"} => s.node < s.key
  BY <1>1 DEF ListInv, ReadersInv, ReaderInv, IdleReaders, List!Step
<1>t. /\ s.node \in List!Nodes /\ s.level \in List!Heights /\ s.key \in List!Keys
      /\ s.op \in {"seek", "prev", "last"}
      /\ s = [pc |-> s.pc, op |-> s.op, key |-> s.key, node |-> s.node, level |-> s.level]
  BY <1>2 DEF Searches
<1>3. PICK n : n = next[s.node][s.level]
  OBVIOUS
<1>4. /\ n \in 1..(MaxRank + 1) /\ s.node < n
      /\ n \in List!Keys => IsLinked(n, s.level)
      /\ \A k \in List!Keys : IsLinked(k, s.level) /\ s.node < k => n <= k
  BY <1>2, <1>t, <1>3 DEF ListInv, LevelsSorted, IsLinked
<1>5. PICK found : found = IF s.op = "seek" THEN n
                           ELSE IF s.node = List!head_ THEN List!NULL ELSE s.node
  OBVIOUS
<1>6. PICK to : to = IF List!Passes(s.op, s.key, n) THEN [s EXCEPT !.node = n]
                     ELSE IF s.level > 1 THEN [s EXCEPT !.level = @ - 1]
                     ELSE [pc |-> "idle", node |-> found]
  OBVIOUS
<1>7. iter' = [iter EXCEPT ![r] = to] /\ UNCHANGED <<next, max_height, insert>>
  BY <1>1, <1>3, <1>5, <1>6 DEF List!Step
<1>8. iter'[r] = to
  BY <1>7 DEF ListInv, ReadersInv
<1>9. CASE List!Passes(s.op, s.key, n)
  <2>1. n \in List!Keys /\ (s.op \in {"seek", "prev"} => n < s.key)
    <3>1. n # List!NULL
      BY <1>9 DEF List!Passes
    <3>2. s.op = "seek" => n < s.key
      BY <1>9 DEF List!Passes
    <3>3. s.op = "prev" => n < s.key
      BY <1>9 DEF List!Passes
    <3> QED
      BY <3>1, <3>2, <3>3, <1>4, <1>t
  <2>2. /\ to = [pc |-> s.pc, op |-> s.op, key |-> s.key, node |-> n, level |-> s.level]
        /\ to \in Searches
    BY <1>2, <1>6, <1>9, <1>t, <2>1 DEF Searches
  <2>3. ReaderInv(to)
    BY <2>1, <2>2, <1>4 DEF ReaderInv
  <2>4. List!ReadIsExact(r)
    BY <2>1, <2>2, <1>2, <1>8 DEF List!ReadIsExact
  <2> QED
    BY <2>3, <2>4, <1>7, ReaderMoves
<1>10. CASE ~ List!Passes(s.op, s.key, n) /\ s.level > 1
  <2>1. s.level - 1 \in List!Heights /\ s.level - 1 <= s.level
    BY <1>t, <1>10
  <2>2. IsLinked(s.node, s.level - 1)
    <3>1. s.node = 0 \/ s.node \in List!Keys
      BY <1>t
    <3> QED
      BY <3>1, <2>1, <1>2, <1>t DEF ListInv, LevelsSorted
  <2>3. /\ to = [pc |-> s.pc, op |-> s.op, key |-> s.key, node |-> s.node, level |-> s.level - 1]
        /\ to \in Searches
    BY <1>2, <1>6, <1>10, <1>t, <2>1 DEF Searches
  <2>4. ReaderInv(to)
    BY <2>2, <2>3, <1>2 DEF ReaderInv
  <2>5. List!ReadIsExact(r)
    BY <2>3, <1>2, <1>t, <1>8 DEF List!ReadIsExact
  <2> QED
    BY <2>4, <2>5, <1>7, ReaderMoves
<1>11. CASE ~ List!Passes(s.op, s.key, n) /\ ~ (s.level > 1)
  <2>1. s.level = 1
    BY <1>t, <1>11
  <2>2. to = [pc |-> "idle", node |-> found]
    BY <1>6, <1>11
  <2>3. found \in List!Keys \union {List!NULL} /\ (found # List!NULL => IsLinked(found, 1))
    BY <1>2, <1>4, <1>5, <1>t, <2>1
  <2>4. to \in IdleReaders /\ to.node = found /\ to.pc = "idle"
    BY <2>2, <2>3 DEF IdleReaders
  <2>5. ReaderInv(to)
    BY <2>3, <2>4 DEF ReaderInv
  <2>6. ASSUME s.op = "seek"
        PROVE  found = List!Min({List!NULL} \union {m \in List!Linked(1) : m > s.key - 1})
    <3>1. n = List!NULL \/ s.key <= n
      BY <1>4, <1>11, <1>t, <2>6 DEF List!Passes
    <3>2. s.key - 1 \in List!Nodes /\ s.node <= s.key - 1 /\ s.key - 1 < n
      BY <3>1, <1>2, <1>4, <1>t, <2>6
    <3>3. found = next[s.node][1] /\ IsLinked(s.node, 1)
      BY <1>2, <1>3, <1>5, <2>1, <2>6
    <3> QED
      BY <3>2, <3>3, <1>3, <1>t, <2>1, AfterIs DEF ListInv
  <2>7. ASSUME s.op # "seek", NEW k \in 0..(MaxRank + 1), k > 0, s.node < k, k <= n
        PROVE  List!Max({0} \union {m \in List!Linked(1) : m < k}) = s.node
    <3>1. \A m \in List!Keys : IsLinked(m, 1) /\ m < k => m <= s.node
      BY <1>4, <1>t, <2>1, <2>7
    <3>2. IsBefore(s.node, k, 1)
      BY <3>1, <1>2, <1>t, <2>1, <2>7 DEF IsBefore
    <3> HIDE ListConstants
    <3> QED
      BY <3>2, <2>7, ListConstants, BeforeIs DEF ListInv
  <2>8. ASSUME s.op = "prev"
        PROVE  List!Max({0} \union {m \in List!Linked(1) : m < s.key}) = s.node
    <3>1. s.key <= n /\ s.node < s.key /\ s.key \in 0..(MaxRank + 1) /\ s.key > 0
      BY <1>2, <1>4, <1>11, <1>t, <2>8 DEF List!Passes
    <3> QED
      BY <3>1, <2>7, <2>8
  <2>9. ASSUME s.op = "last"
        PROVE  List!Max({0} \union {m \in List!Linked(1) : m < List!NULL}) = s.node
    <3>1. n = List!NULL
      BY <1>11, <2>9 DEF List!Passes
    <3> QED
      BY <3>1, <1>4, <2>7, <2>9
  <2>10. List!ReadIsExact(r)
    <3>1. iter[r].pc = "search" /\ iter'[r].pc = "idle" /\ iter'[r].node = found
      BY <1>1, <1>2, <1>8, <2>4
    <3>2. found # List!Uninitialized
      BY <2>3
    <3>3. s.op = "prev" => found = IF s.node = 0 THEN List!NULL ELSE s.node
      BY <1>5
    <3>4. s.op = "last" => found = IF s.node = 0 THEN List!NULL ELSE s.node
      BY <1>5
    <3> HIDE ListConstants
    <3>5. CASE s.op = "seek"
      BY <3>1, <3>2, <3>5, <2>6, <1>1 DEF List!ReadIsExact
    <3>6. CASE s.op = "prev"
      BY <3>1, <3>2, <3>3, <3>6, <2>8, <1>1 DEF List!ReadIsExact
    <3>7. CASE s.op = "last"
      BY <3>1, <3>2, <3>4, <3>7, <2>9, <1>1 DEF List!ReadIsExact
    <3> QED
      BY <3>5, <3>6, <3>7, <1>t
  <2> QED
    BY <2>5, <2>10, <1>7, ReaderMoves
<1> QED
  BY <1>9, <1>10, <1>11

\* Every step of the list keeps its invariant,
LEMMA ListStep ==
  ASSUME ListInv, List!Next
  PROVE  ListInv' /\ \A r \in Readers : iter'[r] # iter[r] => List!ReadIsExact(r)
<1>1. ASSUME NEW k \in List!Keys, NEW height \in List!Heights, List!InsertStart(k, height)
      PROVE  ListInv' /\ UNCHANGED iter
  BY <1>1, InsertStartKeeps DEF List!InsertStart
<1>2. ASSUME List!InsertLink
      PROVE  ListInv' /\ UNCHANGED iter
  BY <1>2, InsertLinkKeeps DEF List!InsertLink
<1>3. ASSUME NEW q \in Readers,
             \/ \E k \in List!Keys, op \in {"seek", "prev", "last"} : List!Search(q, op, k)
             \/ List!Step(q)
             \/ \E from \in List!Nodes : List!Follow(q, from)
      PROVE  ListInv' /\ \A r \in Readers : iter'[r] # iter[r] => List!ReadIsExact(r)
  <2>1. ListInv' /\ List!ReadIsExact(q)
    BY <1>3, SearchKeeps, FollowKeeps, StepKeeps
  <2>2. \A r \in Readers : r # q => iter'[r] = iter[r]
    BY <1>3 DEF List!Search, List!Step, List!Follow, ListInv, ReadersInv
  <2> QED
    BY <2>1, <2>2
<1> QED
  BY <1>1, <1>2, <1>3 DEF List!Next

\* ... and so does one that leaves the list alone.
LEMMA ListStutter ==
  ASSUME ListInv, UNCHANGED listVars
  PROVE  ListInv'
BY DEF ListInv, LevelsSorted, InsertInv, Inserting, IsBefore, ReadersInv, ReaderInv, IsLinked, listVars

\* SkipList, Node::Next: readers of the memtable take no lock, and for any number
\* of readers, keys and levels every answer of a search or of a step of an
\* iterator is that of the set of the keys linked at that moment.
THEOREM ReadersTakeNoLock ==
  Spec => ReadsAreExact
<1>1. Init => ListInv
  BY ListStarts DEF Init
<1>2. ASSUME ListInv, [Next]_vars
      PROVE  ListInv' /\ \A r \in Readers : iter'[r] # iter[r] => List!ReadIsExact(r)
  <2>1. CASE List!Next
    BY <1>2, <2>1, ListStep
  <2>2. CASE UNCHANGED listVars
    BY <1>2, <2>2, ListStutter DEF listVars
  <2> QED
    BY <1>2, <2>1, <2>2 DEF Next, vars
<1>3. [Next]_vars => [Next]_vars
  OBVIOUS
<1>4. Spec => []ListInv
  BY <1>1, <1>2, PTL DEF Spec
<1>5. ASSUME ListInv, [Next]_vars
      PROVE  [\A r \in Readers : iter'[r] # iter[r] => List!ReadIsExact(r)]_(List!vars)
  BY <1>5, <1>2
<1> QED
  BY <1>4, <1>5, PTL DEF Spec, ReadsAreExact, List!ReadsAreExact
-----------------------------------------------------------------------------
(* Limiter *)

\* The limits are numbers, and the files finitely many.
LEMMA EnvConstants ==
  /\ IsFiniteSet(Files)
  /\ MaxMmaps \in Nat /\ MaxOpenFiles \in Nat
  /\ Env!NoProcess \notin Processes
BY LibrariesAssumption, SameCardinality DEF Env!PosixEnvAssumption

FileStates == [pc : {"closed", "check", "acquire", "map", "open", "release"},
               limiter : Env!Limiters \union {"none"}]

\* Does a file in state s have a permit of the limiter l?
HasPermit(s, l) == s.limiter = l /\ s.pc \in {"map", "open", "release"}

Holding(l) == {f \in Files : HasPermit(tables[f], l)}

\* A file that no limiter took is open at once, and only a mapping is mapped.
FilesTyped ==
  /\ tables \in [Files -> FileStates]
  /\ \A f \in Files : /\ tables[f].limiter = "none" => tables[f].pc = "open"
                      /\ tables[f].pc \in {"closed", "map"} => tables[f].limiter = "mmap"

PermitsCounted ==
  /\ allowed_ \in [Env!Limiters -> Nat]
  /\ \A l \in Env!Limiters : allowed_[l] + Cardinality(Holding(l)) = Env!Limit[l]

LimitInv == FilesTyped /\ PermitsCounted

\* A step of one file changes at most whether that file holds a permit.
LEMMA HoldingMoves ==
  ASSUME tables \in [Files -> FileStates], NEW f \in Files, NEW to \in FileStates,
         tables' = [tables EXCEPT ![f] = to], NEW l \in Env!Limiters
  PROVE  Holding(l)' = IF HasPermit(to, l) THEN Holding(l) \union {f}
                       ELSE Holding(l) \ {f}
BY DEF Holding, HasPermit

\* One if the file holds a permit of l.
Permits(s, l) == IF HasPermit(s, l) THEN 1 ELSE 0

\* The permits that are left and those that are held add up, if they do for the
\* one file that moves.
LEMMA StepCounts ==
  ASSUME LimitInv, NEW f \in Files, NEW to \in FileStates,
         tables' = [tables EXCEPT ![f] = to], allowed_' \in [Env!Limiters -> Nat],
         \A l \in Env!Limiters :
           allowed_'[l] + Permits(to, l) = allowed_[l] + Permits(tables[f], l)
  PROVE  PermitsCounted'
<1>1. SUFFICES ASSUME NEW l \in Env!Limiters
               PROVE  allowed_'[l] + Cardinality(Holding(l)') = Env!Limit[l]
  BY DEF PermitsCounted, Env!Limit
<1> DEFINE H == Holding(l)
<1>2. /\ allowed_ \in [Env!Limiters -> Nat] /\ allowed_[l] \in Nat /\ allowed_'[l] \in Nat
      /\ allowed_[l] + Cardinality(H) = Env!Limit[l]
      /\ tables \in [Files -> FileStates]
  BY DEF LimitInv, PermitsCounted, FilesTyped
<1>3. IsFiniteSet(H) /\ Cardinality(H) \in Nat
  <2>1. H \subseteq Files
    BY DEF Holding
  <2> QED
    BY <2>1, FS_Subset, FS_CardinalityType, EnvConstants
<1>4. f \in H <=> HasPermit(tables[f], l)
  BY DEF Holding
<1>5. H' = IF HasPermit(to, l) THEN H \union {f} ELSE H \ {f}
  BY <1>2, HoldingMoves
<1>6. Cardinality(H \union {f}) = IF f \in H THEN Cardinality(H) ELSE Cardinality(H) + 1
  BY <1>3, FS_AddElement
<1>7. Cardinality(H \ {f}) = IF f \in H THEN Cardinality(H) - 1 ELSE Cardinality(H)
  BY <1>3, FS_RemoveElement
<1>8. allowed_'[l] + Permits(to, l) = allowed_[l] + Permits(tables[f], l)
  OBVIOUS
<1> HIDE DEF H
<1>9. CASE HasPermit(to, l)
  BY <1>2, <1>3, <1>4, <1>5, <1>6, <1>8, <1>9 DEF Permits, H
<1>10. CASE ~ HasPermit(to, l)
  BY <1>2, <1>3, <1>4, <1>5, <1>7, <1>8, <1>10 DEF Permits, H
<1> QED
  BY <1>9, <1>10

\* No file holds a permit at the start.
LEMMA LimitInit == Env!Init => LimitInv
<1> SUFFICES ASSUME Env!Init PROVE LimitInv
  OBVIOUS
<1>1. FilesTyped
  BY DEF Env!Init, FilesTyped, FileStates, Env!Closed, Env!Limiters
<1>2. \A l \in Env!Limiters : Holding(l) = {}
  BY DEF Env!Init, Holding, HasPermit, Env!Closed
<1>3. Env!Limit \in [Env!Limiters -> Nat]
  BY EnvConstants DEF Env!Limit
<1>4. PermitsCounted
  <2>1. allowed_ = Env!Limit
    BY DEF Env!Init
  <2>2. \A l \in Env!Limiters : Env!Limit[l] \in Nat /\ Env!Limit[l] + 0 = Env!Limit[l]
    BY <1>3
  <2> QED
    BY <2>1, <2>2, <1>2, <1>3, FS_EmptySet DEF PermitsCounted
<1> QED
  BY <1>1, <1>4 DEF LimitInv

\* Every step of a file keeps the count: a permit is taken where allowed_ is
\* counted down, and given back where it is counted up.
LEMMA LimitStep == LimitInv /\ [Env!Next]_(Env!vars) => LimitInv'
<1> SUFFICES ASSUME LimitInv, [Env!Next]_(Env!vars) PROVE LimitInv'
  OBVIOUS
<1>1. CASE UNCHANGED <<allowed_, tables>>
  BY <1>1 DEF LimitInv, FilesTyped, PermitsCounted, Holding, HasPermit
<1>2. CASE Env!FileNext
  <2> USE DEF FileStates, Env!Limiters
  <2>1. /\ tables \in [Files -> FileStates] /\ allowed_ \in [Env!Limiters -> Nat]
        /\ "mmap" \in Env!Limiters
    BY DEF LimitInv, FilesTyped, PermitsCounted
  <2>2. PICK f \in Files : \/ Env!OpenFile(f) \/ Env!Check(f) \/ Env!Acquire(f) \/ Env!Map(f)
                           \/ Env!MapFails(f) \/ Env!CloseFile(f) \/ Env!Release(f)
    BY <1>2 DEF Env!FileNext
  <2>3. /\ tables[f] \in FileStates
        /\ tables[f].limiter = "none" => tables[f].pc = "open"
        /\ tables[f].pc \in {"closed", "map"} => tables[f].limiter = "mmap"
    BY <2>1 DEF LimitInv, FilesTyped
  <2> DEFINE Moves(to) ==
        /\ to \in FileStates
        /\ tables' = [tables EXCEPT ![f] = to]
        /\ to.limiter = "none" => to.pc = "open"
        /\ to.pc \in {"closed", "map"} => to.limiter = "mmap"
        /\ allowed_' \in [Env!Limiters -> Nat]
        /\ \A l \in Env!Limiters :
             allowed_'[l] + Permits(to, l) = allowed_[l] + Permits(tables[f], l)
  <2>4. \E to : Moves(to)
    <3> USE <2>1, <2>3 DEF Env!FileStep, Permits, HasPermit
    <3>1. CASE Env!OpenFile(f)
      <4>1. Moves([pc |-> "check", limiter |-> "mmap"])
        BY <3>1 DEF Env!OpenFile
      <4> QED
        BY <4>1
    <3>2. CASE Env!Check(f)
      <4>1. Moves(tables'[f])
        BY <3>2 DEF Env!Check, Env!Refused
      <4> QED
        BY <4>1
    <3>3. CASE Env!Acquire(f)
      <4>1. Moves(tables'[f])
        BY <3>3 DEF Env!Acquire, Env!Refused
      <4> QED
        BY <4>1
    <3>4. CASE Env!Map(f)
      <4>1. Moves(tables'[f])
        BY <3>4 DEF Env!Map
      <4> QED
        BY <4>1
    <3>5. CASE Env!MapFails(f)
      <4>1. Moves(Env!Closed)
        BY <3>5 DEF Env!MapFails, Env!Closed
      <4> QED
        BY <4>1
    <3>6. CASE Env!CloseFile(f)
      <4>1. Moves(tables'[f])
        BY <3>6 DEF Env!CloseFile, Env!Closed
      <4> QED
        BY <4>1
    <3>7. CASE Env!Release(f)
      <4>1. Moves(Env!Closed)
        BY <3>7 DEF Env!Release, Env!Closed
      <4> QED
        BY <4>1
    <3> QED
      BY <2>2, <3>1, <3>2, <3>3, <3>4, <3>5, <3>6, <3>7
  <2>5. PICK to : Moves(to)
    BY <2>4
  <2>6. PermitsCounted'
    BY <2>5, StepCounts
  <2>7. FilesTyped'
    BY <2>1, <2>5 DEF FilesTyped, LimitInv
  <2> QED
    BY <2>6, <2>7 DEF LimitInv
<1>3. CASE Env!LockNext
  BY <1>1, <1>3 DEF Env!LockNext, Env!LockFile, Env!SetLock, Env!Unlock, Env!Remove, Env!Close, Env!LockStep, Env!limitVars
<1>4. CASE Env!ThreadNext
  BY <1>1, <1>4 DEF Env!ThreadNext, Env!Schedule, Env!BGThread, Env!TakeItem, Env!RunItem, Env!limitVars
<1> QED
  BY <1>1, <1>2, <1>3, <1>4 DEF Env!Next, Env!vars, Env!limitVars

\* What the count of the permits says of Limiter.
LEMMA LimitHolds == LimitInv => Env!LimitsHold
<1> SUFFICES ASSUME LimitInv, NEW l \in Env!Limiters
             PROVE  /\ Cardinality(Env!Using(l)) <= Env!Limit[l]
                    /\ allowed_[l] + Cardinality(Holding(l)) = Env!Limit[l]
  BY SameCardinality DEF Env!LimitsHold, Holding, HasPermit
<1>1. Env!Using(l) \subseteq Holding(l) /\ Holding(l) \subseteq Files
  BY DEF Env!Using, Holding, HasPermit
<1>2. /\ IsFiniteSet(Holding(l)) /\ Cardinality(Holding(l)) \in Nat
      /\ Cardinality(Env!Using(l)) \in Nat
      /\ Cardinality(Env!Using(l)) <= Cardinality(Holding(l))
  BY <1>1, FS_Subset, FS_CardinalityType, EnvConstants
<1>3. allowed_[l] \in Nat /\ allowed_[l] + Cardinality(Holding(l)) = Env!Limit[l]
  BY DEF LimitInv, PermitsCounted
<1> QED
  BY <1>2, <1>3
-----------------------------------------------------------------------------
(* PosixLockTable *)

LockStates == {"idle", "inserted", "refused", "holds", "denied", "unlocked",
               "removing", "closing"}

\* A thread in one of these steps of LockFile or UnlockFile has the entry.
Inside(p, t) ==
  locker[p][t] \in {"inserted", "holds", "denied", "removing", "unlocked"}

\* The entry is there while a thread is inside, and there is never a second
\* one; the lock of fcntl is with a process only while a thread of it holds it.
LockInv ==
  /\ locks_ \in [Processes -> BOOLEAN]
  /\ locker \in [Processes -> [Threads -> LockStates]]
  /\ \A p \in Processes :
       /\ \A t \in Threads : Inside(p, t) => locks_[p] = TRUE
       /\ \A t, u \in Threads : Inside(p, t) /\ Inside(p, u) => t = u
       /\ owner = p => \E t \in Threads : locker[p][t] = "holds"

\* No lock is held at the start.
LEMMA LockInit == Env!Init => LockInv
<1> SUFFICES ASSUME Env!Init PROVE LockInv
  OBVIOUS
<1>1. locks_ \in [Processes -> BOOLEAN]
  BY DEF Env!Init
<1>3. locker \in [Processes -> [Threads -> LockStates]]
  BY DEF Env!Init, LockStates
<1>4. \A p \in Processes : owner # p
  BY EnvConstants DEF Env!Init
<1>2. \A p \in Processes, t \in Threads : ~ Inside(p, t)
  BY DEF Env!Init, Inside
<1> QED
  BY <1>1, <1>2, <1>3, <1>4 DEF LockInv

\* A thread gets in only through the table of its process.
LEMMA LockStepKeeps == LockInv /\ [Env!Next]_(Env!vars) => LockInv'
<1> SUFFICES ASSUME LockInv, [Env!Next]_(Env!vars) PROVE LockInv'
  OBVIOUS
<1>1. CASE UNCHANGED Env!lockVars
  BY <1>1 DEF LockInv, Inside, Env!lockVars
<1>2. CASE Env!LockNext
  <2>1. PICK p \in Processes, t \in Threads :
          \/ Env!LockFile(p, t) \/ Env!SetLock(p, t)
          \/ Env!Unlock(p, t) \/ Env!Remove(p, t) \/ Env!Close(p, t)
    BY <1>2 DEF Env!LockNext
  <2> USE DEF LockStates
  <2> DEFINE Moves(to) == Env!LockStep(p, t, locker[p][t], to)
  <2>2. PICK to \in LockStates : Moves(to)
    <3>1. CASE Env!LockFile(p, t)
      <4>1. Moves("refused") \/ Moves("inserted")
        BY <3>1 DEF Env!LockFile, Env!LockStep
      <4> QED
        BY <4>1
    <3>2. CASE Env!SetLock(p, t)
      <4>1. Moves("holds") \/ Moves("denied")
        BY <3>2 DEF Env!SetLock, Env!LockStep
      <4> QED
        BY <4>1
    <3>3. CASE Env!Unlock(p, t)
      <4>1. Moves("unlocked")
        BY <3>3 DEF Env!Unlock, Env!LockStep
      <4> QED
        BY <4>1
    <3>4. CASE Env!Remove(p, t)
      <4>1. Moves("closing") \/ Moves("idle")
        BY <3>4 DEF Env!Remove, Env!LockStep
      <4> QED
        BY <4>1
    <3>5. CASE Env!Close(p, t)
      <4>1. Moves("idle") \/ Moves("removing")
        BY <3>5 DEF Env!Close, Env!LockStep
      <4> QED
        BY <4>1
    <3> QED
      BY <2>1, <3>1, <3>2, <3>3, <3>4, <3>5
  <2>3. /\ locker' \in [Processes -> [Threads -> LockStates]]
        /\ locker'[p][t] = to
        /\ \A q \in Processes, u \in Threads :
             ~ (q = p /\ u = t) => locker'[q][u] = locker[q][u]
    BY <2>2 DEF Env!LockStep, LockInv
  <2>4. locks_' \in [Processes -> BOOLEAN]
    BY <2>1 DEF Env!LockFile, Env!SetLock, Env!Unlock, Env!Remove, Env!Close, LockInv
  <2>5. \A q \in Processes : q # p => locks_'[q] = locks_[q]
    BY <2>1 DEF Env!LockFile, Env!SetLock, Env!Unlock, Env!Remove, Env!Close, LockInv
  <2>6. ASSUME NEW q \in Processes
        PROVE  /\ \A u \in Threads : Inside(q, u)' => locks_'[q] = TRUE
               /\ \A u, w \in Threads : Inside(q, u)' /\ Inside(q, w)' => u = w
               /\ owner' = q => \E u \in Threads : locker'[q][u] = "holds"
    <3> USE <2>3, <2>4, <2>5, EnvConstants DEF LockInv, Inside, Env!LockStep
    <3>1. CASE Env!LockFile(p, t)
      <4>1. /\ locker[p][t] = "idle" /\ owner' = owner
            /\ locks_' = [locks_ EXCEPT ![p] = TRUE]
            /\ IF locks_[p] THEN to = "refused" ELSE to = "inserted"
        <5>1. locker[p][t] = "idle" /\ owner' = owner /\ locks_' = [locks_ EXCEPT ![p] = TRUE]
          BY <3>1 DEF Env!LockFile
        <5>2. locker' = [locker EXCEPT ![p][t] = IF locks_[p] THEN "refused" ELSE "inserted"]
          BY <3>1 DEF Env!LockFile
        <5>3. locker'[p][t] = IF locks_[p] THEN "refused" ELSE "inserted"
          BY <5>2
        <5> QED
          BY <5>1, <5>3
      <4>2. locks_'[p] = TRUE
        BY <4>1
      <4>3. CASE locks_[p]
        <5>1. to = "refused"
          BY <4>1, <4>3
        <5>2. \A u \in Threads : Inside(q, u)' => Inside(q, u)
          BY <5>1
        <5>3. \A u \in Threads : locker[q][u] = "holds" => locker'[q][u] = "holds"
          BY <4>1
        <5>4. locks_'[q] = locks_[q]
          BY <4>2, <4>3
        <5> QED
          BY <4>1, <5>2, <5>3, <5>4
      <4>4. CASE ~ locks_[p]
        <5>1. \A u \in Threads : ~ Inside(p, u)
          BY <4>4
        <5> QED
          BY <4>1, <4>2, <5>1
      <4> QED
        BY <4>3, <4>4
    <3>2. CASE Env!SetLock(p, t)
      BY <2>2, <3>2 DEF Env!SetLock
    <3>3. CASE Env!Unlock(p, t)
      BY <2>2, <3>3 DEF Env!Unlock
    <3>4. CASE Env!Remove(p, t)
      BY <2>2, <3>4 DEF Env!Remove
    <3>5. CASE Env!Close(p, t)
      BY <2>2, <3>5 DEF Env!Close
    <3> QED
      BY <2>1, <3>1, <3>2, <3>3, <3>4, <3>5
  <2> QED
    BY <2>3, <2>4, <2>6 DEF LockInv
<1>3. CASE Env!FileNext
  BY <1>1, <1>3 DEF Env!FileNext, Env!OpenFile, Env!Check, Env!Acquire, Env!Map, Env!MapFails, Env!CloseFile,
                    Env!Release, Env!FileStep
<1>4. CASE Env!ThreadNext
  BY <1>1, <1>4 DEF Env!ThreadNext, Env!Schedule, Env!BGThread, Env!TakeItem, Env!RunItem
<1> QED
  BY <1>1, <1>2, <1>3, <1>4 DEF Env!Next, Env!vars

\* What that says of the locks.
LEMMA LockHolds == LockInv => Env!LocksAreKept
<1> SUFFICES ASSUME LockInv, NEW p \in Processes
             PROVE  LET holders == {t \in Threads : locker[p][t] = "holds"}
                    IN  /\ Cardinality(holders) <= 1
                        /\ owner = p => holders # {}
  BY SameCardinality DEF Env!LocksAreKept
<1> DEFINE holders == {t \in Threads : locker[p][t] = "holds"}
<1>1. \A t, u \in holders : t = u
  BY DEF LockInv, Inside
<1>2. Cardinality(holders) <= 1
  <2>1. CASE holders = {}
    BY <2>1, FS_EmptySet
  <2>2. CASE \E t \in holders : TRUE
    <3>1. PICK t \in holders : holders = {t}
      BY <1>1, <2>2
    <3> QED
      BY <3>1, FS_Singleton
  <2> QED
    BY <2>1, <2>2
<1>3. owner = p => holders # {}
  BY DEF LockInv
<1> QED
  BY <1>2, <1>3
-----------------------------------------------------------------------------
(* The arena *)

\* Neither the alignment nor a request is 0.
LEMMA ArenaConstants ==
  ArenaBlock \in Nat /\ Align \in Nat \ {0} /\ Requests \subseteq Nat \ {0}
BY LibrariesAssumption DEF Memory!ArenaAssumption

Pieces == [block : Nat \ {0}, from : Nat, bytes : Nat \ {0}, aligned : BOOLEAN]

\* A piece lies in its block, before the pointer if that is the block in use.
InBlock(g) ==
  /\ g.block <= Len(blocks_)
  /\ g.from + g.bytes <= blocks_[g.block]
  /\ g.aligned => g.from % Align = 0
  /\ g.block = alloc_ptr_[1] => g.from + g.bytes <= alloc_ptr_[2]

Apart(g, h) == g.block # h.block \/ g.from + g.bytes <= h.from

ArenaTyped ==
  /\ alloc_ptr_ \in Nat \X Nat /\ alloc_bytes_remaining_ \in Nat
  /\ blocks_ \in Seq(Nat) /\ memory_usage_ \in Nat /\ given \in Seq(Pieces)

\* The pieces of the block in use end at the pointer, and what remains is the
\* rest of that block; what is given and what remains has been accounted for.
ArenaInv ==
  /\ ArenaTyped
  /\ IF alloc_ptr_[1] = 0 THEN alloc_bytes_remaining_ = 0
     ELSE /\ alloc_ptr_[1] <= Len(blocks_)
          /\ alloc_ptr_[2] + alloc_bytes_remaining_ = blocks_[alloc_ptr_[1]]
  /\ \A i \in DOMAIN given : InBlock(given[i])
  /\ \A i, j \in DOMAIN given : i < j => Apart(given[i], given[j])
  /\ IsFiniteSet(Memory!Taken)
  /\ Cardinality(Memory!Taken) + alloc_bytes_remaining_ <= memory_usage_

\* A new arena has given nothing.
LEMMA ArenaStarts ==
  Memory!Init => ArenaInv
<1> SUFFICES ASSUME Memory!Init PROVE ArenaInv
  OBVIOUS
<1>1. Memory!Taken = {}
  BY DEF Memory!Init, Memory!Taken
<1>2. IsFiniteSet(Memory!Taken) /\ Cardinality(Memory!Taken) = 0
  BY <1>1, FS_EmptySet
<1>3. ArenaTyped
  BY DEF Memory!Init, ArenaTyped
<1> QED
  BY <1>2, <1>3 DEF ArenaInv, Memory!Init

\* A piece has no more units than bytes.
LEMMA UnitsAreCounted ==
  ASSUME NEW g \in Pieces
  PROVE  IsFiniteSet(Memory!Units(g)) /\ Cardinality(Memory!Units(g)) <= g.bytes
         /\ Cardinality(Memory!Units(g)) \in Nat
<1>1. g.from \in Nat /\ g.bytes \in Nat \ {0}
  BY DEF Pieces
<1> DEFINE I == g.from..(g.from + g.bytes - 1)
           f == [u \in I |-> <<g.block, u>>]
<1>2. IsFiniteSet(I) /\ Cardinality(I) = g.bytes
  <2>1. PICK last \in Int : last = g.from + g.bytes - 1
    BY <1>1
  <2>2. g.from \in Int /\ ~ (g.from > last) /\ last - g.from + 1 = g.bytes
    BY <1>1, <2>1
  <2>3. IsFiniteSet(g.from..last) /\ Cardinality(g.from..last) = g.bytes
    BY <2>2, FS_Interval
  <2> QED
    BY <2>1, <2>3
<1>3. f \in Surjection(I, Memory!Units(g))
  BY DEF Memory!Units, Surjection
<1> HIDE DEF I, f
<1>4. IsFiniteSet(Memory!Units(g)) /\ Cardinality(Memory!Units(g)) <= Cardinality(I)
  BY <1>2, <1>3, FS_Surjection
<1> QED
  BY <1>2, <1>4, FS_CardinalityType

\* One more piece takes at most its size.
LEMMA GivenIsTaken ==
  ASSUME given \in Seq(Pieces), IsFiniteSet(Memory!Taken), NEW g \in Pieces, given' = Append(given, g)
  PROVE  /\ IsFiniteSet(Memory!Taken')
         /\ Cardinality(Memory!Taken') <= Cardinality(Memory!Taken) + g.bytes
<1>1. DOMAIN given' = DOMAIN given \union {Len(given) + 1} /\ given'[Len(given) + 1] = g
      /\ \A i \in DOMAIN given : given'[i] = given[i]
  OBVIOUS
<1>2. Memory!Taken' = UNION {Memory!Units(given'[i]) : i \in DOMAIN given'}
  BY DEF Memory!Taken, Memory!Units
<1>3. Memory!Taken' = Memory!Taken \union Memory!Units(g)
  BY <1>1, <1>2 DEF Memory!Taken
<1>4. g.bytes \in Nat
  BY DEF Pieces
<1> DEFINE T == Memory!Taken
           U == Memory!Units(g)
<1>5. IsFiniteSet(T) /\ IsFiniteSet(U) /\ Cardinality(T) \in Nat /\ Cardinality(U) \in Nat
      /\ Cardinality(U) <= g.bytes
  BY UnitsAreCounted, FS_CardinalityType
<1>6. IsFiniteSet(T \cap U)
  BY <1>5, FS_Subset
<1> HIDE DEF T, U
<1>7. Cardinality(T \cap U) \in Nat
  BY <1>6, FS_CardinalityType
<1>8. IsFiniteSet(T \union U) /\ Cardinality(T \union U) = Cardinality(T) + Cardinality(U) - Cardinality(T \cap U)
  BY <1>5, FS_Union
<1>9. Cardinality(T \union U) <= Cardinality(T) + g.bytes
  BY <1>4, <1>5, <1>7, <1>8
<1> QED
  BY <1>3, <1>8, <1>9 DEF T, U

\* The slop of AllocateAligned reaches the next multiple of the alignment.
LEMMA SlopAligns ==
  ASSUME alloc_ptr_ \in Nat \X Nat
  PROVE  Memory!Slop \in Nat /\ (alloc_ptr_[2] + Memory!Slop) % Align = 0
<1>1. ASSUME NEW o \in Nat, NEW a \in Nat \ {0}
      PROVE  (a - (o % a)) % a \in Nat /\ (o + ((a - (o % a)) % a)) % a = 0
  <2>1. a - (o % a) \in Nat
    BY <1>1
  <2>2. (a - (o % a)) % a \in Nat
    BY <2>1
  <2>3. (o + ((a - (o % a)) % a)) % a = 0
    BY <1>1
  <2> QED
    BY <2>2, <2>3
<1>2. alloc_ptr_[2] \in Nat
  OBVIOUS
<1> QED
  BY <1>1, <1>2, ArenaConstants DEF Memory!Slop

\* A piece that is cut from the block in use, or from a new one, keeps all others
\* apart.
LEMMA ArenaGives ==
  ASSUME ArenaInv, NEW g \in Pieces, given' = Append(given, g),
         ArenaTyped',
         Len(blocks_) <= Len(blocks_'), \A b \in 1..Len(blocks_) : blocks_'[b] = blocks_[b],
         IF alloc_ptr_[1]' = 0 THEN alloc_bytes_remaining_' = 0
         ELSE /\ alloc_ptr_[1]' <= Len(blocks_')
              /\ alloc_ptr_[2]' + alloc_bytes_remaining_' = blocks_'[alloc_ptr_[1]'],
         InBlock(g)',
         \/ alloc_ptr_[1]' = alloc_ptr_[1] /\ alloc_ptr_[2] <= alloc_ptr_[2]'
         \/ alloc_ptr_[1]' = Len(blocks_) + 1,
         \/ g.block = Len(blocks_) + 1
         \/ g.block = alloc_ptr_[1] /\ alloc_ptr_[2] <= g.from,
         memory_usage_' + alloc_bytes_remaining_ >= memory_usage_ + g.bytes + alloc_bytes_remaining_'
  PROVE  ArenaInv'
<1>1. DOMAIN given' = DOMAIN given \union {Len(given) + 1} /\ given'[Len(given) + 1] = g
      /\ \A i \in DOMAIN given : given'[i] = given[i] /\ given[i] \in Pieces /\ i < Len(given) + 1
  <2>1. given \in Seq(Pieces)
    BY DEF ArenaInv, ArenaTyped
  <2>2. DOMAIN given = 1..Len(given) /\ Len(given) \in Nat
    BY <2>1
  <2>3. DOMAIN given' = 1..(Len(given) + 1) /\ given'[Len(given) + 1] = g
        /\ \A i \in DOMAIN given : given'[i] = given[i] /\ given[i] \in Pieces
    BY <2>1
  <2> QED
    BY <2>2, <2>3
<1>2. /\ \A i \in DOMAIN given : InBlock(given[i])
      /\ \A i, j \in DOMAIN given : i < j => Apart(given[i], given[j])
      /\ Len(blocks_) \in Nat /\ alloc_ptr_[1] \in Nat /\ alloc_ptr_[2] \in Nat
      /\ alloc_ptr_[1]' \in Nat /\ alloc_ptr_[2]' \in Nat
  <2>1. /\ \A i \in DOMAIN given : InBlock(given[i])
        /\ \A i, j \in DOMAIN given : i < j => Apart(given[i], given[j])
    BY DEF ArenaInv
  <2>2. Len(blocks_) \in Nat /\ alloc_ptr_[1] \in Nat /\ alloc_ptr_[2] \in Nat
    BY DEF ArenaInv, ArenaTyped
  <2>3. alloc_ptr_[1]' \in Nat /\ alloc_ptr_[2]' \in Nat
    BY DEF ArenaTyped
  <2> QED
    BY <2>1, <2>2, <2>3
<1>3. ASSUME NEW h \in Pieces, InBlock(h)
      PROVE  InBlock(h)' /\ Apart(h, g)
  <2>1. h.block \in Nat \ {0} /\ h.from + h.bytes \in Nat /\ g.from \in Nat /\ h.block \in 1..Len(blocks_)
    <3>1. h.block \in Nat \ {0} /\ h.from \in Nat /\ h.bytes \in Nat /\ g.from \in Nat
      BY DEF Pieces
    <3>2. h.block <= Len(blocks_) /\ Len(blocks_) \in Nat
      BY <1>2, <1>3 DEF InBlock
    <3>3. h.block \in 1..Len(blocks_)
      BY <3>1, <3>2
    <3>4. h.from + h.bytes \in Nat
      BY <3>1
    <3> QED
      BY <3>1, <3>3, <3>4
  <2>2. InBlock(h)'
    <3>1. h.block <= Len(blocks_') /\ blocks_'[h.block] = blocks_[h.block]
      BY <1>2, <2>1
    <3>2. h.block = alloc_ptr_[1]' => h.from + h.bytes <= alloc_ptr_[2]'
      <4>1. h.block # Len(blocks_) + 1
        BY <1>2, <2>1
      <4>2. h.block = alloc_ptr_[1] => h.from + h.bytes <= alloc_ptr_[2]
        BY <1>3 DEF InBlock
      <4> QED
        BY <4>1, <4>2, <1>2, <2>1
    <3> QED
      BY <3>1, <3>2, <1>3 DEF InBlock
  <2>3. Apart(h, g)
    BY <1>2, <1>3, <2>1 DEF InBlock, Apart
  <2> QED
    BY <2>2, <2>3
<1>4. ASSUME NEW i \in DOMAIN given' PROVE InBlock(given[i])'
  <2>1. PICK h : h = given'[i]
    OBVIOUS
  <2>2. h = g \/ (h \in Pieces /\ InBlock(h))
    BY <1>1, <1>2, <2>1
  <2>3. InBlock(h)'
    BY <1>3, <2>2
  <2> QED
    BY <2>1, <2>3 DEF InBlock
<1>5. ASSUME NEW i \in DOMAIN given', NEW j \in DOMAIN given', i < j PROVE Apart(given'[i], given'[j])
  <2>1. i \in DOMAIN given
    BY <1>1, <1>5
  <2>2. CASE j \in DOMAIN given
    BY <2>1, <2>2, <1>1, <1>2, <1>5
  <2>3. CASE j = Len(given) + 1
    BY <2>1, <2>3, <1>1, <1>2, <1>3
  <2> QED
    BY <1>1, <2>2, <2>3
<1>6. IsFiniteSet(Memory!Taken') /\ Cardinality(Memory!Taken') <= Cardinality(Memory!Taken) + g.bytes
  BY GivenIsTaken DEF ArenaInv, ArenaTyped
<1>7. Cardinality(Memory!Taken') + alloc_bytes_remaining_' <= memory_usage_'
  <2>1. Cardinality(Memory!Taken) \in Nat /\ Cardinality(Memory!Taken') \in Nat
    BY <1>6, FS_CardinalityType DEF ArenaInv
  <2>2. /\ alloc_bytes_remaining_ \in Nat /\ alloc_bytes_remaining_' \in Nat /\ memory_usage_ \in Nat
        /\ memory_usage_' \in Nat /\ g.bytes \in Nat
        /\ Cardinality(Memory!Taken) + alloc_bytes_remaining_ <= memory_usage_
    BY DEF ArenaInv, ArenaTyped, Pieces
  <2>3. \A before, after, rest, left, usage, total, bytes \in Nat :
          /\ before + rest <= usage /\ after <= before + bytes
          /\ total + rest >= usage + bytes + left
          => after + left <= total
    OBVIOUS
  <2> QED
    BY <2>1, <2>2, <2>3, <1>6
<1>8. \A i, j \in DOMAIN given' : i < j => Apart(given[i], given[j])'
  BY <1>5 DEF Apart
<1> QED
  BY <1>4, <1>6, <1>7, <1>8 DEF ArenaInv

\* A piece from the current block is behind all others in it.
LEMMA FromBlockKeeps ==
  ASSUME ArenaInv, NEW slop \in Nat, NEW bytes \in Nat \ {0}, NEW aligned \in BOOLEAN,
         aligned => (alloc_ptr_[2] + slop) % Align = 0,
         Memory!FromBlock(slop, bytes, aligned)
  PROVE  ArenaInv'
<1>1. /\ slop + bytes <= alloc_bytes_remaining_
      /\ given' = Append(given, [block |-> alloc_ptr_[1], from |-> alloc_ptr_[2] + slop,
                                 bytes |-> bytes, aligned |-> aligned])
      /\ alloc_ptr_' = [alloc_ptr_ EXCEPT ![2] = @ + slop + bytes]
      /\ alloc_bytes_remaining_' = alloc_bytes_remaining_ - (slop + bytes)
      /\ UNCHANGED <<blocks_, memory_usage_>>
  BY DEF Memory!FromBlock, Memory!Gives
<1>2. PICK b \in Nat, o \in Nat : alloc_ptr_ = <<b, o>>
  BY DEF ArenaInv, ArenaTyped
<1>3. /\ alloc_ptr_[1] = b /\ alloc_ptr_[2] = o /\ alloc_ptr_' = <<b, o + slop + bytes>>
  BY <1>1, <1>2
<1>4. /\ alloc_bytes_remaining_ \in Nat /\ alloc_bytes_remaining_' \in Nat
      /\ alloc_bytes_remaining_' + slop + bytes = alloc_bytes_remaining_
      /\ memory_usage_ \in Nat
  BY <1>1 DEF ArenaInv, ArenaTyped
<1>5. b # 0 /\ b <= Len(blocks_) /\ o + alloc_bytes_remaining_ = blocks_[b]
  BY <1>1, <1>3, <1>4 DEF ArenaInv
<1>6. PICK g : g = [block |-> b, from |-> o + slop, bytes |-> bytes, aligned |-> aligned]
  OBVIOUS
<1>7. /\ g \in Pieces /\ g.block = b /\ g.from = o + slop /\ g.bytes = bytes /\ g.aligned = aligned
      /\ given' = Append(given, g)
  BY <1>1, <1>3, <1>5, <1>6 DEF Pieces
<1>8. ArenaTyped'
  <2>1. alloc_ptr_' \in Nat \X Nat
    BY <1>3
  <2>2. given' \in Seq(Pieces)
    BY <1>7 DEF ArenaInv, ArenaTyped
  <2> QED
    BY <2>1, <2>2, <1>1, <1>4 DEF ArenaInv, ArenaTyped
<1>9. /\ Len(blocks_) <= Len(blocks_') /\ \A c \in 1..Len(blocks_) : blocks_'[c] = blocks_[c]
      /\ Len(blocks_) \in Nat
  BY <1>1 DEF ArenaInv, ArenaTyped
<1>10. alloc_ptr_'[1] = b /\ alloc_ptr_'[2] = o + slop + bytes
  BY <1>3
<1>11. InBlock(g)'
  BY <1>1, <1>3, <1>4, <1>5, <1>7, <1>9, <1>10 DEF InBlock
<1>12. alloc_ptr_'[2] + alloc_bytes_remaining_' = blocks_'[b]
  BY <1>1, <1>4, <1>5, <1>10
<1>13. IF alloc_ptr_'[1] = 0 THEN alloc_bytes_remaining_' = 0
       ELSE /\ alloc_ptr_'[1] <= Len(blocks_')
            /\ alloc_ptr_'[2] + alloc_bytes_remaining_' = blocks_'[alloc_ptr_'[1]]
  BY <1>1, <1>5, <1>10, <1>12
<1>14. g.block = alloc_ptr_[1] /\ alloc_ptr_[2] <= g.from
  BY <1>3, <1>7
<1>15. memory_usage_' + alloc_bytes_remaining_ >= memory_usage_ + g.bytes + alloc_bytes_remaining_'
  BY <1>1, <1>4, <1>7
<1>16. g \in Pieces /\ given' = Append(given, g)
  BY <1>7
<1>17. alloc_ptr_'[1] = alloc_ptr_[1] /\ alloc_ptr_[2] <= alloc_ptr_'[2]
  BY <1>3, <1>10
<1> QED
  BY <1>8, <1>9, <1>11, <1>13, <1>14, <1>15, <1>16, <1>17, ArenaGives

\* A piece from a new block overlaps none.
LEMMA FallbackKeeps ==
  ASSUME ArenaInv, NEW bytes \in Nat \ {0}, NEW aligned \in BOOLEAN,
         Memory!AllocateFallback(bytes, aligned)
  PROVE  ArenaInv'
<1> DEFINE new == Len(blocks_) + 1
<1>1. PICK size : /\ size = IF bytes > ArenaBlock \div 4 THEN bytes ELSE ArenaBlock
                  /\ blocks_' = Append(blocks_, size)
                  /\ memory_usage_' = memory_usage_ + size + Align
  BY DEF Memory!AllocateFallback, Memory!AllocateNewBlock
<1>2. size \in Nat /\ bytes <= size /\ (bytes <= ArenaBlock \div 4 => size = ArenaBlock /\ bytes <= ArenaBlock)
  BY <1>1, ArenaConstants
<1>3. /\ ArenaTyped /\ Len(blocks_) \in Nat /\ new \in Nat /\ memory_usage_ \in Nat
      /\ alloc_bytes_remaining_ \in Nat
  BY DEF ArenaInv, ArenaTyped
<1>4. /\ Len(blocks_') = new /\ blocks_'[new] = size /\ blocks_' \in Seq(Nat)
      /\ \A c \in 1..Len(blocks_) : blocks_'[c] = blocks_[c]
  BY <1>1, <1>2, <1>3 DEF ArenaTyped
<1>5. PICK g : g = [block |-> new, from |-> 0, bytes |-> bytes, aligned |-> aligned]
  OBVIOUS
<1>6. /\ g \in Pieces /\ g.block = new /\ g.from = 0 /\ g.bytes = bytes
      /\ given' = Append(given, g)
  BY <1>3, <1>5 DEF Pieces, Memory!AllocateFallback, Memory!Gives
<1>7. 0 % Align = 0
  BY ArenaConstants
<1>8. PICK b \in Nat, o \in Nat : alloc_ptr_ = <<b, o>>
  BY <1>3 DEF ArenaTyped
<1>9. b <= Len(blocks_) /\ (b = 0 => alloc_bytes_remaining_ = 0)
      /\ (b # 0 => o + alloc_bytes_remaining_ = blocks_[b])
  BY <1>3, <1>8 DEF ArenaInv
<1>10. memory_usage_' \in Nat /\ memory_usage_' >= memory_usage_ + size
  BY <1>1, <1>2, <1>3, ArenaConstants
<1>11. CASE bytes > ArenaBlock \div 4
  <2>1. UNCHANGED <<alloc_ptr_, alloc_bytes_remaining_>> /\ size = bytes
    BY <1>1, <1>11 DEF Memory!AllocateFallback
  <2>2. alloc_ptr_'[1] = b /\ alloc_ptr_'[2] = o /\ alloc_ptr_[1] = b /\ alloc_ptr_[2] = o
    BY <2>1, <1>8
  <2> HIDE DEF new
  <2>3. ArenaTyped'
    BY <2>1, <1>3, <1>4, <1>6, <1>10 DEF ArenaTyped
  <2>4. InBlock(g)'
    BY <2>1, <2>2, <1>3, <1>4, <1>6, <1>7, <1>9 DEF InBlock, new
  <2> QED
    <3>1. /\ Len(blocks_) <= Len(blocks_')
          /\ IF b = 0 THEN alloc_bytes_remaining_' = 0
             ELSE b <= Len(blocks_') /\ o + alloc_bytes_remaining_' = blocks_'[b]
      BY <2>1, <1>3, <1>4, <1>9 DEF new
    <3>2. memory_usage_' + alloc_bytes_remaining_ >= memory_usage_ + g.bytes + alloc_bytes_remaining_'
      <4>1. \A m, n, k, rest \in Nat : n >= m + k => n + rest >= m + k + rest
        OBVIOUS
      <4>2. memory_usage_' >= memory_usage_ + bytes
        BY <2>1, <1>10
      <4> QED
        BY <4>1, <4>2, <2>1, <1>3, <1>6, <1>10
    <3> QED
      BY <2>2, <2>3, <2>4, <3>1, <3>2, <1>3, <1>4, <1>6, ArenaGives DEF new
<1>12. CASE ~ (bytes > ArenaBlock \div 4)
  <2>1. alloc_ptr_' = <<new, bytes>> /\ alloc_bytes_remaining_' = ArenaBlock - bytes
    BY <1>12 DEF Memory!AllocateFallback
  <2>2. size = ArenaBlock /\ bytes <= ArenaBlock /\ ArenaBlock \in Nat
    BY <1>1, <1>2, <1>12, ArenaConstants
  <2>3. /\ alloc_ptr_'[1] = new /\ alloc_ptr_'[2] = bytes /\ alloc_ptr_[1] = b /\ alloc_ptr_[2] = o
        /\ alloc_bytes_remaining_' \in Nat /\ alloc_bytes_remaining_' + bytes = size
    BY <2>1, <2>2, <1>8
  <2> HIDE DEF new
  <2>4. ArenaTyped'
    <3>1. alloc_ptr_' \in Nat \X Nat /\ alloc_bytes_remaining_' \in Nat
      BY <2>1, <2>3, <1>3
    <3>2. given' \in Seq(Pieces)
      BY <1>3, <1>6 DEF ArenaTyped
    <3> QED
      BY <3>1, <3>2, <1>4, <1>10 DEF ArenaTyped
  <2>5. InBlock(g)'
    BY <2>3, <1>2, <1>3, <1>4, <1>6, <1>7 DEF InBlock
  <2> QED
    <3>1. /\ Len(blocks_) <= Len(blocks_') /\ new # 0 /\ new <= Len(blocks_')
          /\ bytes + alloc_bytes_remaining_' = blocks_'[new]
      BY <2>3, <1>3, <1>4 DEF new
    <3>2. memory_usage_' + alloc_bytes_remaining_ >= memory_usage_ + g.bytes + alloc_bytes_remaining_'
      <4>1. \A m, n, k, s, rest, left \in Nat :
              n >= m + s /\ left + k = s => n + rest >= m + k + left
        OBVIOUS
      <4> QED
        BY <4>1, <2>3, <1>2, <1>3, <1>6, <1>10
    <3> QED
      BY <2>3, <2>4, <2>5, <3>1, <3>2, <1>3, <1>4, <1>6, ArenaGives DEF new
<1> QED
  BY <1>11, <1>12

\* Every allocation keeps the invariant of the arena.
LEMMA ArenaStep ==
  ArenaInv /\ [Memory!Next]_(Memory!vars) => ArenaInv'
<1> SUFFICES ASSUME ArenaInv, [Memory!Next]_(Memory!vars) PROVE ArenaInv'
  OBVIOUS
<1>1. CASE UNCHANGED Memory!vars
  BY <1>1 DEF ArenaInv, ArenaTyped, InBlock, Apart, Memory!Taken, Memory!Units, Memory!vars
<1>2. CASE Memory!Next
  <2>1. PICK bytes \in Requests : Memory!Allocate(bytes) \/ Memory!AllocateAligned(bytes)
    BY <1>2 DEF Memory!Next
  <2>2. bytes \in Nat \ {0}
    BY ArenaConstants
  <2>3. CASE Memory!Allocate(bytes)
    BY <2>2, <2>3, FromBlockKeeps, FallbackKeeps DEF Memory!Allocate
  <2>4. CASE Memory!AllocateAligned(bytes)
    <3>1. Memory!Slop \in Nat /\ (alloc_ptr_[2] + Memory!Slop) % Align = 0
      BY SlopAligns DEF ArenaInv, ArenaTyped
    <3> QED
      BY <3>1, <2>2, <2>4, FromBlockKeeps, FallbackKeeps DEF Memory!AllocateAligned
  <2> QED
    BY <2>1, <2>3, <2>4
<1> QED
  BY <1>1, <1>2

\* What that says of the memory that is given.
LEMMA ArenaHolds == ArenaInv => Memory!MemoryIsKept
<1> SUFFICES ASSUME ArenaInv PROVE Memory!MemoryIsKept
  OBVIOUS
<1>1. \A i \in DOMAIN given : given[i] \in Pieces
  BY DEF ArenaInv, ArenaTyped
<1>2. ASSUME NEW i \in DOMAIN given, NEW j \in DOMAIN given, i < j
      PROVE  Memory!Units(given[i]) \cap Memory!Units(given[j]) = {}
  <2>1. Apart(given[i], given[j])
    BY <1>2 DEF ArenaInv
  <2>2. given[i] \in Pieces /\ given[j] \in Pieces
    BY <1>1
  <2> QED
    BY <2>1, <2>2 DEF Apart, Memory!Units, Pieces
<1>3. \A i \in DOMAIN given :
        /\ given[i].from + given[i].bytes <= blocks_[given[i].block]
        /\ given[i].aligned => given[i].from % Align = 0
  BY DEF ArenaInv, InBlock
<1>4. Cardinality(Memory!Taken) <= memory_usage_
  <2>1. Cardinality(Memory!Taken) \in Nat
    BY FS_CardinalityType DEF ArenaInv
  <2> QED
    BY <2>1 DEF ArenaInv, ArenaTyped
<1> QED
  BY <1>2, <1>3, <1>4, SameCardinality DEF Memory!MemoryIsKept
-----------------------------------------------------------------------------
\* Limiter, PosixLockTable, Arena: with any number of files opened at once, the
\* tables that use a mapping or a descriptor stay within its limit, and no permit
\* is lost or given twice, whichever opens fail; at most one thread of a process
\* holds the lock of the database; and the pieces of an arena are apart, aligned
\* and accounted for, whatever the sizes asked for.
THEOREM LimitsAreKept ==
  Spec => []LimitsHold
<1>1. Init => LimitInv /\ LockInv /\ ArenaInv
  BY LimitInit, LockInit, ArenaStarts DEF Init
<1>2. LimitInv /\ LockInv /\ ArenaInv /\ [Next]_vars => (LimitInv /\ LockInv /\ ArenaInv)'
  <2> SUFFICES ASSUME LimitInv, LockInv, ArenaInv, [Next]_vars
               PROVE  LimitInv' /\ LockInv' /\ ArenaInv'
    OBVIOUS
  <2>1. [Env!Next]_(Env!vars)
    BY DEF Next, vars, envVars, Env!Next, Env!vars, Env!limitVars, Env!lockVars, Env!bgVars
  <2>2. [Memory!Next]_(Memory!vars)
    BY DEF Next, vars, arenaVars, Memory!vars
  <2> QED
    BY <2>1, <2>2, LimitStep, LockStepKeeps, ArenaStep
<1>3. LimitInv /\ LockInv /\ ArenaInv => LimitsHold
  BY LimitHolds, LockHolds, ArenaHolds DEF LimitsHold
<1> QED
  BY <1>1, <1>2, <1>3, PTL DEF Spec
-----------------------------------------------------------------------------
(* The cache of open tables *)

\* The least handle, as Min of the cache returns it.
LEMMA CacheMin ==
  ASSUME NEW S, S \subseteq Nat, NEW x \in S, \A y \in S : x <= y
  PROVE  Cache!Min(S) = x
<1>1. \A z \in S : (\A y \in S : z <= y) => z = x
  OBVIOUS
<1> QED
  BY <1>1 DEF Cache!Min

Lists == {s \in Seq(Cache!Handles) : Cache!IsInjective(s)}

\* A handle that is removed is gone, the others keep their order.
LEMMA RemoveFirstIs ==
  ASSUME NEW s \in Lists, NEW n
  PROVE  /\ Cache!RemoveFirst(s, n) \in Lists
         /\ Cache!ToSet(Cache!RemoveFirst(s, n)) = Cache!ToSet(s) \ {n}
         /\ Len(Cache!RemoveFirst(s, n)) = IF n \in Cache!ToSet(s) THEN Len(s) - 1 ELSE Len(s)
         /\ n \notin Cache!ToSet(s) => Cache!RemoveFirst(s, n) = s
<1>1. s \in Seq(Cache!Handles) /\ Cache!IsInjective(s) /\ Len(s) \in Nat /\ DOMAIN s = 1..Len(s)
  BY LenProperties DEF Lists
<1>2. CASE n \notin Cache!ToSet(s)
  <2>1. ~ \E i \in 1..Len(s) : s[i] = n
    BY <1>1, <1>2 DEF Cache!ToSet
  <2>2. Cache!RemoveFirst(s, n) = s
    BY <2>1 DEF Cache!RemoveFirst
  <2> QED
    BY <1>2, <2>2
<1>3. CASE n \in Cache!ToSet(s)
  <2>k. PICK k : k = Cache!Min({j \in 1..Len(s) : s[j] = n})
    OBVIOUS
  <2> DEFINE a == SubSeq(s, 1, k - 1)
             b == SubSeq(s, k + 1, Len(s))
             t == a \o b
  <2>1. k \in 1..Len(s) /\ s[k] = n
    <3> DEFINE S == {j \in 1..Len(s) : s[j] = n}
    <3>1. S \subseteq Nat /\ S # {}
      BY <1>1, <1>3 DEF Cache!ToSet
    <3>2. \A j \in S : j \in 1..Len(s) /\ s[j] = n
      OBVIOUS
    <3>3. k = Cache!Min(S)
      BY <2>k
    <3> HIDE DEF S
    <3>4. PICK x \in S : \A y \in S : x <= y
      BY <3>1, LeastNumber
    <3>5. k = x
      BY <3>1, <3>3, <3>4, CacheMin
    <3> QED
      BY <3>2, <3>4, <3>5
  <2>2. Cache!RemoveFirst(s, n) = t
    <3>1. \E i \in 1..Len(s) : s[i] = n
      BY <2>1
    <3>2. Cache!RemoveFirst(s, n) = Cache!RemoveAt(s, k)
      BY <2>k, <3>1 DEF Cache!RemoveFirst, Cache!SelectInSeq
    <3> QED
      BY <3>2 DEF Cache!RemoveAt
  <2>3. \A i \in 1..Len(s) : s[i] \in Cache!Handles
    BY <1>1, ElementOfSeq
  <2>4. /\ a \in Seq(Cache!Handles) /\ Len(a) = k - 1
        /\ \A i \in 1..(k - 1) : a[i] = s[i]
    <3>1. 1 \in Int /\ k - 1 \in Int /\ \A i \in 1..(k - 1) : s[i] \in Cache!Handles
      BY <1>1, <2>1, <2>3
    <3>2. /\ a \in Seq(Cache!Handles) /\ Len(a) = (IF 1 <= k - 1 THEN (k - 1) - 1 + 1 ELSE 0)
          /\ \A i \in 1..((k - 1) - 1 + 1) : a[i] = s[1 + i - 1]
      BY <3>1, SubSeqProperties
    <3> HIDE DEF a
    <3> QED
      BY <3>2, <2>1, <1>1
  <2>5. /\ b \in Seq(Cache!Handles) /\ Len(b) = Len(s) - k
        /\ \A i \in 1..(Len(s) - k) : b[i] = s[k + i]
    <3>1. k + 1 \in Int /\ Len(s) \in Int /\ \A i \in (k + 1)..Len(s) : s[i] \in Cache!Handles
      BY <1>1, <2>1, <2>3
    <3>2. /\ b \in Seq(Cache!Handles)
          /\ Len(b) = (IF k + 1 <= Len(s) THEN Len(s) - (k + 1) + 1 ELSE 0)
          /\ \A i \in 1..(Len(s) - (k + 1) + 1) : b[i] = s[(k + 1) + i - 1]
      BY <3>1, SubSeqProperties
    <3> HIDE DEF b
    <3>3. Len(s) - (k + 1) + 1 = Len(s) - k /\ \A i \in Int : (k + 1) + i - 1 = k + i
      BY <2>1, <1>1
    <3>4. Len(b) = Len(s) - k
      <4>1. CASE k + 1 <= Len(s)
        BY <3>2, <3>3, <4>1
      <4>2. CASE ~ (k + 1 <= Len(s))
        <5>1. k \in 1..Len(s) /\ Len(s) \in Nat
          BY <1>1, <2>1
        <5>2. k = Len(s) /\ Len(s) - k = 0
          BY <4>2, <5>1
        <5> QED
          BY <3>2, <4>2, <5>2
      <4> QED
        BY <4>1, <4>2
    <3>5. \A i \in 1..(Len(s) - k) : b[i] = s[k + i]
      <4>1. \A i \in 1..(Len(s) - k) : i \in Int
        OBVIOUS
      <4> QED
        BY <3>2, <3>3, <4>1
    <3> QED
      BY <3>2, <3>4, <3>5
  <2> HIDE DEF a, b
  <2>6. /\ t \in Seq(Cache!Handles) /\ Len(t) = Len(a) + Len(b)
        /\ \A i \in 1..Len(a) : t[i] = a[i]
        /\ \A i \in (Len(a) + 1)..(Len(a) + Len(b)) : t[i] = b[i - Len(a)]
    <3>1. /\ a \o b \in Seq(Cache!Handles) /\ Len(a \o b) = Len(a) + Len(b)
          /\ \A i \in 1..(Len(a) + Len(b)) :
               (a \o b)[i] = IF i <= Len(a) THEN a[i] ELSE b[i - Len(a)]
      BY <2>4, <2>5, ConcatProperties
    <3>2. Len(a) \in Nat /\ Len(b) \in Nat
      BY <2>4, <2>5, LenProperties
    <3> HIDE DEF t
    <3>3. /\ t \in Seq(Cache!Handles) /\ Len(t) = Len(a) + Len(b)
          /\ \A i \in 1..(Len(a) + Len(b)) :
               t[i] = IF i <= Len(a) THEN a[i] ELSE b[i - Len(a)]
      BY <3>1, Zenon DEF t
    <3> QED
      BY <3>2, <3>3
  <2> HIDE DEF t
  <2>7. DOMAIN t = 1..Len(t) /\ Len(t) = Len(s) - 1
    <3>1. DOMAIN t = 1..Len(t)
      BY <2>6, LenProperties
    <3> QED
      BY <3>1, <2>1, <2>4, <2>5, <2>6, <1>1
  <2> DEFINE at(i) == IF i < k THEN i ELSE i + 1
  <2>8. ASSUME NEW i \in DOMAIN t
        PROVE  at(i) \in 1..Len(s) /\ at(i) # k /\ t[i] = s[at(i)]
    <3>1. i \in 1..(Len(s) - 1) /\ k \in 1..Len(s) /\ Len(s) \in Nat
      BY <1>1, <2>1, <2>7
    <3>2. CASE i < k
      <4>1. i \in 1..Len(a) /\ i \in 1..(k - 1)
        BY <3>1, <3>2, <2>4
      <4> QED
        BY <3>1, <3>2, <4>1, <2>4, <2>6
    <3>3. CASE ~ (i < k)
      <4>1. /\ i \in (Len(a) + 1)..(Len(a) + Len(b)) /\ i - Len(a) \in 1..(Len(s) - k)
            /\ k + (i - Len(a)) = i + 1
        BY <3>1, <3>3, <2>4, <2>5
      <4>2. t[i] = b[i - Len(a)]
        BY <4>1, <2>6
      <4>3. b[i - Len(a)] = s[k + (i - Len(a))]
        BY <4>1, <2>5
      <4> QED
        BY <3>1, <3>3, <4>1, <4>2, <4>3
    <3> QED
      BY <3>2, <3>3
  <2>9. Cache!IsInjective(t)
    <3>1. SUFFICES ASSUME NEW i \in DOMAIN t, NEW j \in DOMAIN t, t[i] = t[j] PROVE i = j
      BY DEF Cache!IsInjective
    <3>2. at(i) = at(j)
      BY <2>8, <3>1, <1>1 DEF Cache!IsInjective
    <3>3. i \in Nat /\ j \in Nat /\ k \in Nat
      BY <2>1, <2>7, <1>1
    <3> QED
      BY <3>2, <3>3
  <2>10. Cache!ToSet(t) = Cache!ToSet(s) \ {n}
    <3>1. ASSUME NEW i \in DOMAIN t PROVE t[i] \in Cache!ToSet(s) /\ t[i] # n
      BY <2>1, <2>8, <1>1 DEF Cache!IsInjective, Cache!ToSet
    <3>2. ASSUME NEW j \in DOMAIN s, s[j] # n PROVE \E i \in DOMAIN t : t[i] = s[j]
      <4>1. j \in 1..Len(s) /\ j # k /\ k \in 1..Len(s) /\ Len(s) \in Nat
        BY <1>1, <2>1, <3>2
      <4>2. CASE j < k
        <5>1. j \in DOMAIN t /\ at(j) = j
          BY <4>1, <4>2, <2>7
        <5> QED
          BY <5>1, <2>8
      <4>3. CASE ~ (j < k)
        <5>1. j - 1 \in DOMAIN t /\ ~ (j - 1 < k) /\ (j - 1) + 1 = j
          BY <4>1, <4>3, <2>7
        <5>2. at(j - 1) = j
          BY <5>1
        <5> QED
          BY <5>1, <5>2, <2>8
      <4> QED
        BY <4>2, <4>3
    <3>3. Cache!ToSet(t) \subseteq Cache!ToSet(s) \ {n}
      BY <3>1 DEF Cache!ToSet
    <3>4. Cache!ToSet(s) \ {n} \subseteq Cache!ToSet(t)
      BY <3>2 DEF Cache!ToSet
    <3> QED
      BY <3>3, <3>4
  <2> QED
    BY <1>3, <2>2, <2>6, <2>7, <2>9, <2>10 DEF Lists
<1> QED
  BY <1>2, <1>3

\* A handle that is not in a list can be appended to it.
LEMMA AppendToList ==
  ASSUME NEW s \in Lists, NEW n \in Cache!Handles, n \notin Cache!ToSet(s)
  PROVE  Append(s, n) \in Lists /\ Cache!ToSet(Append(s, n)) = Cache!ToSet(s) \union {n}
<1> DEFINE t == Append(s, n)
<1>1. s \in Seq(Cache!Handles) /\ Cache!IsInjective(s) /\ Len(s) \in Nat /\ DOMAIN s = 1..Len(s)
  BY LenProperties DEF Lists
<1>2. /\ t \in Seq(Cache!Handles) /\ Len(t) = Len(s) + 1
      /\ \A i \in 1..Len(s) : t[i] = s[i]
      /\ t[Len(s) + 1] = n
  BY <1>1, AppendProperties
<1> HIDE DEF t
<1>3. DOMAIN t = 1..(Len(s) + 1)
  BY <1>2, LenProperties
<1>4. \A i \in 1..Len(s) : s[i] # n
  BY <1>1 DEF Cache!ToSet
<1>5. ASSUME NEW i \in DOMAIN t, NEW j \in DOMAIN t, t[i] = t[j] PROVE i = j
  <2>1. CASE i \in 1..Len(s) /\ j \in 1..Len(s)
    BY <1>1, <1>2, <1>5, <2>1 DEF Cache!IsInjective
  <2>2. CASE i \notin 1..Len(s) \/ j \notin 1..Len(s)
    BY <1>1, <1>2, <1>3, <1>4, <1>5, <2>2
  <2> QED
    BY <2>1, <2>2
<1>6. Cache!ToSet(t) = Cache!ToSet(s) \union {n}
  BY <1>1, <1>2, <1>3 DEF Cache!ToSet
<1>7. t \in Lists
  BY <1>2, <1>5 DEF Lists, Cache!IsInjective
<1> QED
  BY <1>6, <1>7 DEF t

-----------------------------------------------------------------------------
Entries == [key : FileNumbers \union {Cache!NULL}, refs : Nat, in_cache : BOOLEAN]

Shards == [entry : [Cache!Handles -> Entries], lru : Lists, in_use : SUBSET Cache!Handles, usage : Nat]

Counts == [Cache!Handles -> Nat]

Cached(s) == {h \in Cache!Handles : s.entry[h].in_cache}

\* The references of a shard, if u counts those of the clients.
Counted(s, u) ==
  /\ s \in Shards
  /\ \A h \in Cache!Handles :
       s.entry[h].refs = IF s.entry[h].in_cache THEN u[h] + 1 ELSE u[h]
  /\ s.in_use = {h \in Cached(s) : u[h] > 0}
  /\ Cache!ToSet(s.lru) = {h \in Cached(s) : u[h] = 0}
  /\ s.usage = Cardinality(Cached(s))

OneOfEach(s) == \A g, h \in Cached(s) : s.entry[g].key = s.entry[h].key => g = h

SameKeys(s, r) == \A h \in Cache!Handles : r.entry[h].key = s.entry[h].key

\* There are MaxOpenTables handles.
LEMMA CacheConstants ==
  /\ capacity_ \in Nat /\ IsFiniteSet(Clients) /\ Cardinality(Clients) \in Nat
  /\ Cache!MaxOpenTables \in Nat /\ Cache!NULL = 0 /\ Cache!NULL \notin Cache!Handles
  /\ Cache!Handles = 1..Cache!MaxOpenTables
  /\ IsFiniteSet(Cache!Handles) /\ Cardinality(Cache!Handles) = Cache!MaxOpenTables
  /\ \E m \in {capacity_, Cardinality(Clients)} :
       /\ capacity_ <= m /\ Cardinality(Clients) <= m
       /\ Cache!MaxOpenTables = m + Cardinality(Clients)
<1>1. capacity_ \in Nat /\ IsFiniteSet(Clients) /\ Cardinality(Clients) \in Nat
  BY LibrariesAssumption, SameCardinality, FS_CardinalityType DEF Cache!TableCacheAssumption
<1> DEFINE S == {capacity_, Cardinality(Clients)}
<1>2. PICK m \in S : m \in Nat /\ capacity_ <= m /\ Cardinality(Clients) <= m
  BY <1>1
<1>3. Cache!Max(S) = m
  <2>1. \A y \in S : y \in Nat /\ m >= y
    BY <1>1, <1>2
  <2> HIDE DEF S
  <2>2. \A z \in S : (\A y \in S : z >= y) => z = m
    BY <2>1
  <2> QED
    BY <2>1, <2>2 DEF Cache!Max
<1>4. Cache!MaxOpenTables = m + Cardinality(Clients)
  BY <1>3, SameCardinality DEF Cache!MaxOpenTables
<1>5. Cache!MaxOpenTables \in Nat
  BY <1>1, <1>2, <1>4
<1>6. /\ Cache!NULL = 0 /\ Cache!NULL \notin Cache!Handles
      /\ Cache!Handles = 1..Cache!MaxOpenTables
  BY <1>5 DEF Cache!NULL, Cache!Handles
<1>7. IsFiniteSet(Cache!Handles) /\ Cardinality(Cache!Handles) = Cache!MaxOpenTables
  <2>1. IsFiniteSet(1..Cache!MaxOpenTables)
        /\ Cardinality(1..Cache!MaxOpenTables) = IF 1 > Cache!MaxOpenTables THEN 0
                                                 ELSE Cache!MaxOpenTables - 1 + 1
    BY <1>5, FS_Interval
  <2> QED
    BY <2>1, <1>5, <1>6
<1> QED
  BY <1>1, <1>2, <1>4, <1>5, <1>6, <1>7

\* The handles of the cache can be counted.
LEMMA CachedIsFinite ==
  ASSUME NEW s
  PROVE  IsFiniteSet(Cached(s)) /\ Cardinality(Cached(s)) \in Nat
<1>1. Cached(s) \subseteq Cache!Handles
  BY DEF Cached
<1> QED
  BY <1>1, CacheConstants, FS_Subset, FS_CardinalityType

\* The entries of s but for h, which keeps its key.
With(s, h, refs, in_cache) ==
  [s.entry EXCEPT ![h] = [key |-> s.entry[h].key, refs |-> refs, in_cache |-> in_cache]]

\* What With changes and what not.
LEMMA WithIs ==
  ASSUME NEW s \in Shards, NEW h \in Cache!Handles, NEW n \in Nat, NEW b \in BOOLEAN
  PROVE  /\ With(s, h, n, b) \in [Cache!Handles -> Entries]
         /\ With(s, h, n, b)[h].refs = n /\ With(s, h, n, b)[h].in_cache = b
         /\ \A g \in Cache!Handles : With(s, h, n, b)[g].key = s.entry[g].key
         /\ \A g \in Cache!Handles \ {h} : With(s, h, n, b)[g] = s.entry[g]
<1>1. s.entry \in [Cache!Handles -> Entries] /\ s.entry[h].key \in FileNumbers \union {Cache!NULL}
  BY DEF Shards, Entries
<1>2. [key |-> s.entry[h].key, refs |-> n, in_cache |-> b] \in Entries
  BY <1>1 DEF Entries
<1> QED
  BY <1>1, <1>2 DEF With

\* The update of a reference count, as With.
LEMMA RefsSet ==
  ASSUME NEW s \in Shards, NEW h \in Cache!Handles, NEW n
  PROVE  [s EXCEPT !.entry[h].refs = n] =
           [entry |-> With(s, h, n, s.entry[h].in_cache), lru |-> s.lru, in_use |-> s.in_use,
            usage |-> s.usage]
<1>1. s = [entry |-> s.entry, lru |-> s.lru, in_use |-> s.in_use, usage |-> s.usage]
  BY DEF Shards
<1>2. s.entry[h] = [key |-> s.entry[h].key, refs |-> s.entry[h].refs, in_cache |-> s.entry[h].in_cache]
  BY DEF Shards, Entries
<1>3. [s.entry EXCEPT ![h].refs = n] = With(s, h, n, s.entry[h].in_cache)
  BY <1>2 DEF With
<1>4. [s EXCEPT !.entry[h].refs = n] =
        [entry |-> [s.entry EXCEPT ![h].refs = n], lru |-> s.lru, in_use |-> s.in_use, usage |-> s.usage]
  BY <1>1
<1> QED
  BY <1>3, <1>4

\* LRU_Remove takes a handle off both lists.
LEMMA RemovedIs ==
  ASSUME NEW s \in Shards, NEW h \in Cache!Handles
  PROVE  /\ Cache!LRU_Remove(s, h) =
              [entry |-> s.entry, lru |-> Cache!RemoveFirst(s.lru, h), in_use |-> s.in_use \ {h},
               usage |-> s.usage]
         /\ Cache!LRU_Remove(s, h) \in Shards
<1>1. s = [entry |-> s.entry, lru |-> s.lru, in_use |-> s.in_use, usage |-> s.usage]
  BY DEF Shards
<1>2. Cache!RemoveFirst(s.lru, h) \in Lists
  BY RemoveFirstIs DEF Shards
<1>3. Cache!LRU_Remove(s, h) =
        [entry |-> s.entry, lru |-> Cache!RemoveFirst(s.lru, h), in_use |-> s.in_use \ {h},
         usage |-> s.usage]
  <2>1. PICK a, b : a = Cache!RemoveFirst(s.lru, h) /\ b = s.in_use \ {h}
    OBVIOUS
  <2>2. Cache!LRU_Remove(s, h) = [s EXCEPT !.lru = a, !.in_use = b]
    BY <2>1, Zenon DEF Cache!LRU_Remove
  <2>3. [s EXCEPT !.lru = a, !.in_use = b] = [entry |-> s.entry, lru |-> a, in_use |-> b, usage |-> s.usage]
    <3>1. PICK e, l, i, u : s = [entry |-> e, lru |-> l, in_use |-> i, usage |-> u]
      BY <1>1
    <3>q. PICK q : q = [s EXCEPT !.lru = a, !.in_use = b]
      OBVIOUS
    <3>2. q = [entry |-> e, lru |-> a, in_use |-> b, usage |-> u]
      BY <3>1, <3>q
    <3>3. s.entry = e /\ s.usage = u
      BY <3>1
    <3> QED
      BY <3>q, <3>2, <3>3
  <2> QED
    BY <2>1, <2>2, <2>3
<1> QED
  BY <1>2, <1>3 DEF Shards

\* Ref takes a handle that nobody uses from one list to the other.
LEMMA RefIs ==
  ASSUME NEW s \in Shards, NEW h \in Cache!Handles, s.entry[h].in_cache
  PROVE  LET moves == s.entry[h].refs = 1 IN
         Cache!Ref(s, h) =
           [entry  |-> With(s, h, s.entry[h].refs + 1, TRUE),
            lru    |-> IF moves THEN Cache!RemoveFirst(s.lru, h) ELSE s.lru,
            in_use |-> IF moves THEN (s.in_use \ {h}) \union {h} ELSE s.in_use,
            usage  |-> s.usage]
<1>b. s.entry[h].in_cache = TRUE
  BY DEF Shards, Entries
<1>1. CASE s.entry[h].refs = 1
  <2>1. PICK q : q = Cache!LRU_Remove(s, h)
    OBVIOUS
  <2>2. PICK r : r = [q EXCEPT !.in_use = @ \union {h}]
    OBVIOUS
  <2>3. q = [entry |-> s.entry, lru |-> Cache!RemoveFirst(s.lru, h), in_use |-> s.in_use \ {h},
             usage |-> s.usage]
    BY <2>1, RemovedIs
  <2>4. r = [entry |-> s.entry, lru |-> Cache!RemoveFirst(s.lru, h),
             in_use |-> (s.in_use \ {h}) \union {h}, usage |-> s.usage]
    BY <2>2, <2>3
  <2>5. r \in Shards
    BY <2>4, RemoveFirstIs DEF Shards
  <2>6. Cache!Ref(s, h) = [r EXCEPT !.entry[h].refs = r.entry[h].refs + 1]
    BY <1>1, <2>1, <2>2 DEF Cache!Ref
  <2>7. Cache!Ref(s, h) = [entry |-> With(r, h, r.entry[h].refs + 1, r.entry[h].in_cache),
                           lru |-> r.lru, in_use |-> r.in_use, usage |-> r.usage]
    BY <2>5, <2>6, RefsSet
  <2>8. With(r, h, r.entry[h].refs + 1, r.entry[h].in_cache) = With(s, h, s.entry[h].refs + 1, TRUE)
    BY <2>4, <1>b DEF With
  <2> QED
    BY <1>1, <2>4, <2>7, <2>8
<1>2. CASE s.entry[h].refs # 1
  <2>1. Cache!Ref(s, h) = [s EXCEPT !.entry[h].refs = s.entry[h].refs + 1]
    BY <1>2 DEF Cache!Ref
  <2> QED
    BY <1>2, <1>b, <2>1, RefsSet
<1> QED
  BY <1>1, <1>2

\* Unref appends the handle to the LRU list if the cache alone is left.
LEMMA UnrefIs ==
  ASSUME NEW s \in Shards, NEW h \in Cache!Handles, s.entry[h].refs > 0
  PROVE  LET moves == s.entry[h].refs = 2 /\ s.entry[h].in_cache IN
         Cache!Unref(s, h) =
           [entry  |-> With(s, h, s.entry[h].refs - 1, s.entry[h].in_cache),
            lru    |-> IF moves THEN Append(Cache!RemoveFirst(s.lru, h), h) ELSE s.lru,
            in_use |-> IF moves THEN s.in_use \ {h} ELSE s.in_use,
            usage  |-> s.usage]
<1>t. s.entry[h].refs \in Nat /\ s.entry[h].refs - 1 \in Nat /\ s.entry[h].in_cache \in BOOLEAN
  BY DEF Shards, Entries
<1>1. PICK less : less = [s EXCEPT !.entry[h].refs = s.entry[h].refs - 1]
  OBVIOUS
<1>2. less = [entry |-> With(s, h, s.entry[h].refs - 1, s.entry[h].in_cache), lru |-> s.lru,
              in_use |-> s.in_use, usage |-> s.usage]
  BY <1>1, RefsSet
<1>3. less.entry[h].refs = s.entry[h].refs - 1 /\ less.entry[h].in_cache = s.entry[h].in_cache
  BY <1>2, <1>t, WithIs
<1>4. less \in Shards
  BY <1>2, <1>t, WithIs DEF Shards
<1>5. Cache!Unref(s, h) = IF less.entry[h].in_cache /\ less.entry[h].refs = 1
                          THEN [Cache!LRU_Remove(less, h) EXCEPT !.lru = Append(@, h)] ELSE less
  BY <1>1 DEF Cache!Unref
<1>6. CASE s.entry[h].refs = 2 /\ s.entry[h].in_cache
  <2>1. PICK q : q = Cache!LRU_Remove(less, h)
    OBVIOUS
  <2>2. q = [entry |-> less.entry, lru |-> Cache!RemoveFirst(s.lru, h), in_use |-> s.in_use \ {h},
             usage |-> s.usage]
    BY <2>1, <1>2, <1>4, RemovedIs
  <2>3. Cache!Unref(s, h) = [q EXCEPT !.lru = Append(@, h)]
    BY <1>3, <1>5, <1>6, <2>1
  <2>4. [q EXCEPT !.lru = Append(@, h)] =
          [entry |-> less.entry, lru |-> Append(Cache!RemoveFirst(s.lru, h), h),
           in_use |-> s.in_use \ {h}, usage |-> s.usage]
    <3>1. PICK a : a = Append(q.lru, h)
      OBVIOUS
    <3>2. [q EXCEPT !.lru = Append(@, h)] = [q EXCEPT !.lru = a]
      BY <3>1, Zenon
    <3>3. [q EXCEPT !.lru = a] = [entry |-> less.entry, lru |-> a, in_use |-> s.in_use \ {h}, usage |-> s.usage]
      BY <2>2
    <3>4. a = Append(Cache!RemoveFirst(s.lru, h), h)
      BY <2>2, <3>1
    <3> QED
      BY <3>2, <3>3, <3>4, Zenon
  <2>5. less.entry = With(s, h, s.entry[h].refs - 1, s.entry[h].in_cache)
    BY <1>2
  <2> HIDE DEF With
  <2> QED
    BY <1>6, <2>3, <2>4, <2>5
<1>7. CASE ~ (s.entry[h].refs = 2 /\ s.entry[h].in_cache)
  BY <1>2, <1>3, <1>5, <1>7, <1>t
<1> QED
  BY <1>6, <1>7

\* FinishErase takes a handle off its list and drops the reference of the cache.
LEMMA FinishEraseIs ==
  ASSUME NEW s \in Shards, NEW h \in Cache!Handles, s.entry[h].refs > 0, s.usage > 0
  PROVE  Cache!FinishErase(s, h) =
           [entry  |-> With(s, h, s.entry[h].refs - 1, FALSE),
            lru    |-> Cache!RemoveFirst(s.lru, h),
            in_use |-> s.in_use \ {h},
            usage  |-> s.usage - 1]
<1>t. s.entry[h].refs \in Nat /\ s.usage - 1 \in Nat
  BY DEF Shards, Entries
<1>1. PICK q : q = Cache!LRU_Remove(s, h)
  OBVIOUS
<1>2. /\ q = [entry |-> s.entry, lru |-> Cache!RemoveFirst(s.lru, h), in_use |-> s.in_use \ {h},
              usage |-> s.usage]
      /\ q \in Shards
  BY <1>1, RemovedIs
<1>3. PICK t : t = [q EXCEPT !.entry[h].in_cache = FALSE, !.usage = @ - 1]
  OBVIOUS
<1>4. s.entry[h] = [key |-> s.entry[h].key, refs |-> s.entry[h].refs, in_cache |-> s.entry[h].in_cache]
  BY DEF Shards, Entries
<1>5. [s.entry EXCEPT ![h].in_cache = FALSE] = With(s, h, s.entry[h].refs, FALSE)
  <2>1. \A b : [s.entry EXCEPT ![h].in_cache = b] = With(s, h, s.entry[h].refs, b)
    BY <1>4 DEF With
  <2> QED
    BY <2>1, Zenon
<1>6. t = [entry |-> With(s, h, s.entry[h].refs, FALSE), lru |-> q.lru, in_use |-> q.in_use,
           usage |-> s.usage - 1]
  <2>1. t = [entry |-> [s.entry EXCEPT ![h].in_cache = FALSE], lru |-> q.lru, in_use |-> q.in_use,
             usage |-> s.usage - 1]
    BY <1>2, <1>3
  <2> QED
    BY <2>1, <1>5
<1>7. t \in Shards /\ t.entry[h].refs = s.entry[h].refs /\ t.entry[h].in_cache = FALSE
  <2>1. PICK b \in BOOLEAN : b = FALSE
    OBVIOUS
  <2>2. PICK w : w = With(s, h, s.entry[h].refs, b)
    OBVIOUS
  <2>3. w \in [Cache!Handles -> Entries] /\ w[h].refs = s.entry[h].refs /\ w[h].in_cache = b
    BY <1>t, <2>2, WithIs
  <2>4. t = [entry |-> w, lru |-> q.lru, in_use |-> q.in_use, usage |-> s.usage - 1]
    BY <1>6, <2>1, <2>2
  <2>5. t \in Shards
    BY <1>2, <1>t, <2>3, <2>4 DEF Shards
  <2> QED
    BY <2>1, <2>3, <2>4, <2>5
<1>8. Cache!FinishErase(s, h) = Cache!Unref(t, h)
  BY <1>1, <1>3, CacheConstants DEF Cache!FinishErase
<1>9. Cache!Unref(t, h) = [entry |-> With(t, h, s.entry[h].refs - 1, FALSE), lru |-> t.lru,
                           in_use |-> t.in_use, usage |-> t.usage]
  BY <1>7, UnrefIs
<1>10. With(t, h, s.entry[h].refs - 1, FALSE) = With(s, h, s.entry[h].refs - 1, FALSE)
  <2>1. t.entry = With(s, h, s.entry[h].refs, FALSE)
    BY <1>6
  <2>2. t.entry[h].key = s.entry[h].key
    BY <2>1 DEF With, Shards
  <2>3. s.entry \in [Cache!Handles -> Entries]
    BY DEF Shards
  <2> QED
    BY <2>1, <2>2, <2>3 DEF With
<1> QED
  BY <1>2, <1>6, <1>8, <1>9, <1>10

\* The shard when only the references and the lists of h change.
Moved(s, h, refs, lru, in_use) ==
  [entry |-> With(s, h, refs, s.entry[h].in_cache), lru |-> lru, in_use |-> in_use,
   usage |-> s.usage]

Sets(v, u, h, n) == v \in Counts /\ v[h] = n /\ \A g \in Cache!Handles \ {h} : v[g] = u[g]

\* The lists may differ in h, which is in one of them if it is in the cache.
ListsMove(s, h, n, lru, in_use) ==
  /\ lru \in Lists /\ in_use \in SUBSET Cache!Handles
  /\ Cache!ToSet(lru) \subseteq Cache!Handles
  /\ h \in in_use <=> s.entry[h].in_cache /\ n > 0
  /\ h \in Cache!ToSet(lru) <=> s.entry[h].in_cache /\ n = 0
  /\ \A g \in Cache!Handles \ {h} : /\ g \in in_use <=> g \in s.in_use
                                    /\ g \in Cache!ToSet(lru) <=> g \in Cache!ToSet(s.lru)

\* Such a change keeps the count, if it is the one of the clients.
LEMMA CountedMoves ==
  ASSUME NEW s, NEW u \in Counts, Counted(s, u), NEW h \in Cache!Handles, NEW n \in Nat,
         NEW refs \in Nat, refs = IF s.entry[h].in_cache THEN n + 1 ELSE n,
         NEW lru, NEW in_use, ListsMove(s, h, n, lru, in_use),
         NEW v, Sets(v, u, h, n)
  PROVE  LET r == Moved(s, h, refs, lru, in_use)
         IN Counted(r, v) /\ Cached(r) = Cached(s) /\ SameKeys(s, r)
<1>r. PICK r : r = Moved(s, h, refs, lru, in_use)
  OBVIOUS
<1> USE DEF ListsMove
<1> DEFINE b == s.entry[h].in_cache
<1>1. /\ s \in Shards /\ b \in BOOLEAN /\ s.usage \in Nat
      /\ s.entry \in [Cache!Handles -> Entries]
  BY DEF Counted, Shards, Entries
<1>2. /\ With(s, h, refs, b) \in [Cache!Handles -> Entries]
      /\ With(s, h, refs, b)[h].refs = refs /\ With(s, h, refs, b)[h].in_cache = b
      /\ \A g \in Cache!Handles : With(s, h, refs, b)[g].key = s.entry[g].key
      /\ \A g \in Cache!Handles \ {h} : With(s, h, refs, b)[g] = s.entry[g]
  BY <1>1, WithIs
<1>3. /\ r.entry = With(s, h, refs, b) /\ r.lru = lru /\ r.in_use = in_use /\ r.usage = s.usage
      /\ r = [entry |-> r.entry, lru |-> r.lru, in_use |-> r.in_use, usage |-> r.usage]
  BY <1>r DEF Moved
<1>4. r \in Shards
  BY <1>1, <1>2, <1>3 DEF Shards
<1>5. \A g \in Cache!Handles : r.entry[g].in_cache = s.entry[g].in_cache
  BY <1>2, <1>3
<1>6. Cached(r) = Cached(s)
  BY <1>5 DEF Cached
<1>7. v \in Counts /\ v[h] = n /\ \A g \in Cache!Handles \ {h} : v[g] = u[g]
  BY DEF Sets
<1>8. SameKeys(s, r)
  BY <1>2, <1>3 DEF SameKeys
<1>9. ASSUME NEW g \in Cache!Handles
      PROVE  r.entry[g].refs = IF r.entry[g].in_cache THEN v[g] + 1 ELSE v[g]
  <2>1. CASE g = h
    <3>1. r.entry[h].refs = refs /\ r.entry[h].in_cache = s.entry[h].in_cache /\ v[h] = n
      BY <1>2, <1>3, <1>5, <1>7
    <3> QED
      BY <2>1, <3>1
  <2>2. CASE g # h
    <3>1. r.entry[g] = s.entry[g] /\ v[g] = u[g]
      BY <2>2, <1>2, <1>3, <1>7
    <3> QED
      BY <3>1 DEF Counted
  <2> QED
    BY <2>1, <2>2
<1>10. r.in_use = {g \in Cached(r) : v[g] > 0}
  <2>1. \A g \in Cache!Handles \ {h} : g \in in_use <=> g \in Cached(s) /\ v[g] > 0
    BY <1>7 DEF Counted
  <2>2. h \in in_use <=> h \in Cached(s) /\ v[h] > 0
    BY <1>7 DEF Cached
  <2>3. Cached(s) \subseteq Cache!Handles
    BY DEF Cached
  <2> QED
    BY <2>1, <2>2, <2>3, <1>3, <1>6
<1>11. Cache!ToSet(r.lru) = {g \in Cached(r) : v[g] = 0}
  <2>1. \A g \in Cache!Handles \ {h} : g \in Cache!ToSet(lru) <=> g \in Cached(s) /\ v[g] = 0
    BY <1>7 DEF Counted
  <2>2. h \in Cache!ToSet(lru) <=> h \in Cached(s) /\ v[h] = 0
    BY <1>7 DEF Cached
  <2>3. Cached(s) \subseteq Cache!Handles
    BY DEF Cached
  <2> QED
    BY <2>1, <2>2, <2>3, <1>3, <1>6
<1>12. r.usage = Cardinality(Cached(r))
  BY <1>3, <1>6 DEF Counted
<1> QED
  BY <1>r, <1>4, <1>6, <1>8, <1>9, <1>10, <1>11, <1>12 DEF Counted

\* What the count says of one handle.
LEMMA CountedFacts ==
  ASSUME NEW s, NEW u \in Counts, Counted(s, u), NEW h \in Cache!Handles
  PROVE  /\ s \in Shards /\ s.lru \in Lists /\ s.in_use \in SUBSET Cache!Handles
         /\ u[h] \in Nat /\ s.entry[h].in_cache \in BOOLEAN
         /\ s.entry[h].refs = IF s.entry[h].in_cache THEN u[h] + 1 ELSE u[h]
         /\ h \in s.in_use <=> s.entry[h].in_cache /\ u[h] > 0
         /\ h \in Cache!ToSet(s.lru) <=> s.entry[h].in_cache /\ u[h] = 0
         /\ h \in Cached(s) <=> s.entry[h].in_cache
         /\ Cache!ToSet(s.lru) \subseteq Cache!Handles
<1>1. s \in Shards
  BY DEF Counted
<1>2. s.lru \in Lists /\ s.in_use \in SUBSET Cache!Handles /\ s.entry[h].in_cache \in BOOLEAN
  BY <1>1 DEF Shards, Entries
<1>3. h \in Cached(s) <=> s.entry[h].in_cache
  BY DEF Cached
<1>4. Cached(s) \subseteq Cache!Handles
  BY DEF Cached
<1> QED
  BY <1>1, <1>2, <1>3, <1>4 DEF Counted, Counts

\* Ref keeps the count for a client more,
LEMMA RefKeeps ==
  ASSUME NEW s, NEW u \in Counts, Counted(s, u), NEW h \in Cached(s),
         NEW v, Sets(v, u, h, u[h] + 1)
  PROVE  LET r == Cache!Ref(s, h)
         IN Counted(r, v) /\ Cached(r) = Cached(s) /\ SameKeys(s, r)
<1>h. h \in Cache!Handles
  BY DEF Cached
<1>1. /\ s \in Shards /\ s.lru \in Lists /\ s.in_use \in SUBSET Cache!Handles
      /\ u[h] \in Nat /\ s.entry[h].in_cache /\ s.entry[h].refs = u[h] + 1
      /\ h \in s.in_use <=> u[h] > 0
      /\ h \in Cache!ToSet(s.lru) <=> u[h] = 0
      /\ Cache!ToSet(s.lru) \subseteq Cache!Handles
  BY <1>h, CountedFacts
<1>b. s.entry[h].in_cache = TRUE
  BY <1>h, <1>1, CountedFacts
<1> DEFINE moves == s.entry[h].refs = 1
<1>2. PICK lru, in_use : /\ lru = IF moves THEN Cache!RemoveFirst(s.lru, h) ELSE s.lru
                         /\ in_use = IF moves THEN (s.in_use \ {h}) \union {h} ELSE s.in_use
  OBVIOUS
<1>3. Cache!Ref(s, h) = [entry |-> With(s, h, u[h] + 2, s.entry[h].in_cache), lru |-> lru, in_use |-> in_use,
           usage |-> s.usage]
  <2>1. s.entry[h].refs + 1 = u[h] + 2
    BY <1>1
  <2> QED
    BY <2>1, <1>h, <1>1, <1>2, <1>b, RefIs
<1>4. /\ lru \in Lists
      /\ Cache!ToSet(lru) = IF moves THEN Cache!ToSet(s.lru) \ {h} ELSE Cache!ToSet(s.lru)
  BY <1>1, <1>2, RemoveFirstIs
<1>5. moves <=> u[h] = 0
  BY <1>1
<1> HIDE DEF moves
<1>6. /\ in_use \in SUBSET Cache!Handles /\ h \in in_use /\ h \notin Cache!ToSet(lru)
      /\ \A g \in Cache!Handles \ {h} : /\ g \in in_use <=> g \in s.in_use
                                        /\ g \in Cache!ToSet(lru) <=> g \in Cache!ToSet(s.lru)
  BY <1>h, <1>1, <1>2, <1>4, <1>5
<1>7. u[h] + 2 = (u[h] + 1) + 1 /\ u[h] + 1 \in Nat /\ u[h] + 2 \in Nat /\ u[h] + 1 > 0 /\ u[h] + 1 # 0
  BY <1>1
<1>8. PICK n \in Nat, refs \in Nat : n = u[h] + 1 /\ refs = u[h] + 2
  BY <1>7
<1>9. /\ refs = IF s.entry[h].in_cache THEN n + 1 ELSE n
      /\ Cache!ToSet(lru) \subseteq Cache!Handles
      /\ h \in in_use <=> s.entry[h].in_cache /\ n > 0
      /\ h \in Cache!ToSet(lru) <=> s.entry[h].in_cache /\ n = 0
  BY <1>1, <1>4, <1>6, <1>7, <1>8
<1>10. Cache!Ref(s, h) = Moved(s, h, refs, lru, in_use)
  BY <1>3, <1>8 DEF Moved
<1>11. ListsMove(s, h, n, lru, in_use)
  BY <1>4, <1>6, <1>9 DEF ListsMove
<1>12. Sets(v, u, h, n)
  BY <1>8
<1> QED
  BY <1>h, <1>9, <1>10, <1>11, <1>12, CountedMoves

\* ... and Unref for one less.
LEMMA UnrefKeeps ==
  ASSUME NEW s, NEW u \in Counts, Counted(s, u), NEW h \in Cache!Handles, u[h] > 0,
         NEW v, Sets(v, u, h, u[h] - 1)
  PROVE  LET r == Cache!Unref(s, h)
         IN Counted(r, v) /\ Cached(r) = Cached(s) /\ SameKeys(s, r)
<1>1. /\ s \in Shards /\ s.lru \in Lists /\ s.in_use \in SUBSET Cache!Handles
      /\ u[h] \in Nat /\ s.entry[h].in_cache \in BOOLEAN
      /\ s.entry[h].refs = IF s.entry[h].in_cache THEN u[h] + 1 ELSE u[h]
      /\ h \in s.in_use <=> s.entry[h].in_cache
      /\ h \notin Cache!ToSet(s.lru)
      /\ Cache!ToSet(s.lru) \subseteq Cache!Handles
  <2>1. u[h] # 0
    BY DEF Counts
  <2> QED
    BY <2>1, CountedFacts
<1> DEFINE moves == s.entry[h].refs = 2 /\ s.entry[h].in_cache
<1>2. PICK lru, in_use : /\ lru = IF moves THEN Append(Cache!RemoveFirst(s.lru, h), h) ELSE s.lru
                         /\ in_use = IF moves THEN s.in_use \ {h} ELSE s.in_use
  OBVIOUS
<1>3. PICK n \in Nat, refs \in Nat : /\ n = u[h] - 1 /\ refs = s.entry[h].refs - 1
                                     /\ refs = IF s.entry[h].in_cache THEN n + 1 ELSE n
  BY <1>1
<1>4. Cache!Unref(s, h) = [entry |-> With(s, h, refs, s.entry[h].in_cache), lru |-> lru, in_use |-> in_use,
           usage |-> s.usage]
  <2>1. s.entry[h].refs > 0
    BY <1>1
  <2> QED
    BY <2>1, <1>1, <1>2, <1>3, UnrefIs
<1>5. moves <=> n = 0 /\ s.entry[h].in_cache
  BY <1>1, <1>3
<1>6. /\ lru \in Lists
      /\ Cache!ToSet(lru) = IF moves THEN Cache!ToSet(s.lru) \union {h} ELSE Cache!ToSet(s.lru)
  <2>1. Cache!RemoveFirst(s.lru, h) = s.lru
    BY <1>1, RemoveFirstIs
  <2>2. Append(s.lru, h) \in Lists /\ Cache!ToSet(Append(s.lru, h)) = Cache!ToSet(s.lru) \union {h}
    BY <1>1, AppendToList
  <2> QED
    BY <2>1, <2>2, <1>1, <1>2
<1> HIDE DEF moves
<1>7. /\ in_use \in SUBSET Cache!Handles
      /\ h \in in_use <=> s.entry[h].in_cache /\ n > 0
      /\ h \in Cache!ToSet(lru) <=> s.entry[h].in_cache /\ n = 0
      /\ Cache!ToSet(lru) \subseteq Cache!Handles
      /\ \A g \in Cache!Handles \ {h} : /\ g \in in_use <=> g \in s.in_use
                                        /\ g \in Cache!ToSet(lru) <=> g \in Cache!ToSet(s.lru)
  BY <1>1, <1>2, <1>5, <1>6
<1>8. Sets(v, u, h, n) /\ refs = IF s.entry[h].in_cache THEN n + 1 ELSE n
  BY <1>3
<1>9. ListsMove(s, h, n, lru, in_use)
  BY <1>6, <1>7 DEF ListsMove
<1>10. Cache!Unref(s, h) = Moved(s, h, refs, lru, in_use)
  BY <1>4 DEF Moved
<1> QED
  BY <1>8, <1>9, <1>10, CountedMoves

\* FinishErase leaves all others as they are, and h to those who use it.
LEMMA EraseKeeps ==
  ASSUME NEW s, NEW u \in Counts, Counted(s, u), NEW h \in Cached(s)
  PROVE  LET r == Cache!FinishErase(s, h)
         IN /\ Counted(r, u) /\ Cached(r) = Cached(s) \ {h} /\ SameKeys(s, r)
            /\ r.lru = Cache!RemoveFirst(s.lru, h)
<1>h. h \in Cache!Handles
  BY DEF Cached
<1>1. /\ s \in Shards /\ s.lru \in Lists /\ s.in_use \in SUBSET Cache!Handles /\ s.usage \in Nat
      /\ u[h] \in Nat /\ s.entry[h].refs = u[h] + 1 /\ s.entry \in [Cache!Handles -> Entries]
  BY <1>h, CountedFacts DEF Counted, Shards
<1>2. s.usage = Cardinality(Cached(s)) /\ s.usage > 0
  <2>1. s.usage = Cardinality(Cached(s))
    BY DEF Counted
  <2>2. Cardinality(Cached(s)) # 0
    BY CachedIsFinite, FS_EmptySet
  <2> QED
    BY <2>1, <2>2, <1>1
<1>3. PICK b \in BOOLEAN : b = FALSE
  OBVIOUS
<1>4. PICK w : w = With(s, h, u[h], b)
  OBVIOUS
<1>5. PICK r : r = Cache!FinishErase(s, h)
  OBVIOUS
<1>6. r = [entry |-> w, lru |-> Cache!RemoveFirst(s.lru, h), in_use |-> s.in_use \ {h},
           usage |-> s.usage - 1]
  <2>1. s.entry[h].refs > 0 /\ s.entry[h].refs - 1 = u[h]
    BY <1>1
  <2> QED
    BY <2>1, <1>h, <1>1, <1>2, <1>3, <1>4, <1>5, FinishEraseIs
<1>7. /\ w \in [Cache!Handles -> Entries] /\ w[h].refs = u[h] /\ w[h].in_cache = b
      /\ \A g \in Cache!Handles : w[g].key = s.entry[g].key
      /\ \A g \in Cache!Handles \ {h} : w[g] = s.entry[g]
  BY <1>h, <1>1, <1>4, WithIs
<1>8. /\ r.entry = w /\ r.lru = Cache!RemoveFirst(s.lru, h) /\ r.in_use = s.in_use \ {h}
      /\ r.usage = s.usage - 1
  BY <1>6
<1>9. r.lru \in Lists /\ Cache!ToSet(r.lru) = Cache!ToSet(s.lru) \ {h}
  BY <1>1, <1>8, RemoveFirstIs
<1>10. r \in Shards
  <2>1. s.usage - 1 \in Nat /\ s.in_use \ {h} \in SUBSET Cache!Handles
    BY <1>1, <1>2
  <2> QED
    BY <2>1, <1>6, <1>7, <1>8, <1>9 DEF Shards
<1>11. Cached(r) = Cached(s) \ {h}
  BY <1>3, <1>7, <1>8 DEF Cached
<1>12. SameKeys(s, r)
  BY <1>7, <1>8 DEF SameKeys
<1>13. ASSUME NEW g \in Cache!Handles
       PROVE  r.entry[g].refs = IF r.entry[g].in_cache THEN u[g] + 1 ELSE u[g]
  <2>1. CASE g = h
    BY <2>1, <1>3, <1>7, <1>8
  <2>2. CASE g # h
    BY <2>2, <1>7, <1>8 DEF Counted
  <2> QED
    BY <2>1, <2>2
<1>14. r.in_use = {g \in Cached(r) : u[g] > 0}
  BY <1>8, <1>11 DEF Counted
<1>15. Cache!ToSet(r.lru) = {g \in Cached(r) : u[g] = 0}
  BY <1>9, <1>11 DEF Counted
<1>16. r.usage = Cardinality(Cached(r))
  <2>1. Cardinality(Cached(s) \ {h}) = Cardinality(Cached(s)) - 1
    BY CachedIsFinite, FS_RemoveElement
  <2> QED
    BY <2>1, <1>2, <1>8, <1>11
<1>17. Counted(r, u)
  BY <1>10, <1>13, <1>14, <1>15, <1>16 DEF Counted
<1> QED
  BY <1>5, <1>8, <1>11, <1>12, <1>17

\* The hash table has a handle for a key, or none has it.
LEMMA LookupIs ==
  ASSUME NEW s, NEW key
  PROVE  LET h == Cache!TableLookup(s, key)
         IN \/ h = Cache!NULL /\ \A g \in Cached(s) : s.entry[g].key # key
            \/ h \in Cached(s) /\ s.entry[h].key = key /\ h # Cache!NULL
<1> DEFINE found == {h \in Cache!Handles : s.entry[h].in_cache /\ s.entry[h].key = key}
<1>1. Cache!TableLookup(s, key) = IF found = {} THEN Cache!NULL ELSE CHOOSE h \in found : TRUE
  BY DEF Cache!TableLookup
<1>2. \A h \in found : h \in Cached(s) /\ s.entry[h].key = key /\ h # Cache!NULL
  BY CacheConstants DEF Cached
<1>3. \A g \in Cached(s) : s.entry[g].key = key => g \in found
  BY DEF Cached
<1> HIDE DEF found
<1> QED
  BY <1>1, <1>2, <1>3

\* The handles that stay keep their keys, and are all that is in the cache.
Shrinks(s, r) == Cached(r) \subseteq Cached(s) /\ SameKeys(s, r)

\* Nothing new is in the cache, and no key twice.
LEMMA ShrinksKeepsOne ==
  ASSUME NEW s, NEW r, Shrinks(s, r), OneOfEach(s)
  PROVE  OneOfEach(r)
BY DEF Shrinks, OneOfEach, SameKeys, Cached

\* A turn of the loop removes one handle that nobody uses, or nothing.
LEMMA OldestKeeps ==
  ASSUME NEW s, NEW u \in Counts, Counted(s, u), OneOfEach(s), NEW limit \in Nat
  PROVE  LET r == Cache!EvictOldest(s, limit)
         IN /\ Counted(r, u) /\ Shrinks(s, r)
            /\ IF s.usage > limit /\ s.lru # << >> THEN Len(r.lru) = Len(s.lru) - 1 ELSE r = s
<1>1. CASE ~ (s.usage > limit /\ s.lru # << >>)
  BY <1>1 DEF Cache!EvictOldest, Shrinks, SameKeys
<1>2. CASE s.usage > limit /\ s.lru # << >>
  <2>1. s.lru \in Seq(Cache!Handles)
    BY DEF Counted, Shards, Lists
  <2>2. PICK h : h = Head(s.lru)
    OBVIOUS
  <2>3. h \in Cache!ToSet(s.lru)
    <3>1. Len(s.lru) \in Nat /\ Len(s.lru) # 0 /\ 1 \in DOMAIN s.lru /\ h = s.lru[1]
      BY <1>2, <2>1, <2>2
    <3> QED
      BY <3>1 DEF Cache!ToSet
  <2>4. h \in Cached(s)
    BY <2>3 DEF Counted
  <2>5. Cache!TableLookup(s, s.entry[h].key) = h
    BY <2>4, LookupIs DEF OneOfEach
  <2>6. Cache!EvictOldest(s, limit) = Cache!FinishErase(s, h)
    BY <1>2, <2>2, <2>5 DEF Cache!EvictOldest
  <2>7. PICK r : r = Cache!FinishErase(s, h)
    OBVIOUS
  <2>8. /\ Counted(r, u) /\ Cached(r) = Cached(s) \ {h} /\ SameKeys(s, r)
        /\ r.lru = Cache!RemoveFirst(s.lru, h)
    BY <2>4, <2>7, EraseKeeps
  <2>9. Len(r.lru) = Len(s.lru) - 1
    <3>1. s.lru \in Lists
      BY DEF Counted, Shards
    <3> QED
      BY <3>1, <2>3, <2>8, RemoveFirstIs
  <2> QED
    BY <1>2, <2>6, <2>7, <2>8, <2>9 DEF Shrinks
<1> QED
  BY <1>1, <1>2

\* The loop as a function from the number of its turns to the shard.
LoopTo(f, n, s, limit) ==
  f = [turns \in 0..n |-> IF turns = 0 THEN s ELSE Cache!EvictOldest(f[turns - 1], limit)]

\* The loop runs for any number of turns.
LEMMA LoopExists ==
  ASSUME NEW last \in Nat, NEW s, NEW limit
  PROVE  \E f : LoopTo(f, last, s, limit)
<1> DEFINE Bad == {n \in Nat : ~ \E f : LoopTo(f, n, s, limit)}
<1>1. SUFFICES Bad = {}
  OBVIOUS
<1>2. SUFFICES ASSUME Bad # {} PROVE FALSE
  OBVIOUS
<1>3. PICK n \in Bad : \A m \in Bad : n <= m
  <2>1. Bad \subseteq Nat
    OBVIOUS
  <2> HIDE DEF Bad
  <2> QED
    BY <1>2, <2>1, LeastNumber
<1>4. CASE n = 0
  <2> DEFINE d == [k \in 0..0 |-> s]
  <2>1. d = [k \in 0..0 |-> IF k = 0 THEN s ELSE Cache!EvictOldest(d[k - 1], limit)]
    OBVIOUS
  <2>2. LoopTo(d, 0, s, limit)
    BY <2>1 DEF LoopTo
  <2> QED
    BY <1>3, <1>4, <2>2
<1>5. CASE n # 0
  <2>1. n \in Nat /\ n - 1 \in Nat /\ ~ (n <= n - 1)
    BY <1>5
  <2>2. PICK f : LoopTo(f, n - 1, s, limit)
    BY <1>3, <2>1
  <2> DEFINE g == [k \in 0..n |-> IF k = n THEN Cache!EvictOldest(f[n - 1], limit) ELSE f[k]]
  <2>3. f = [k \in 0..(n - 1) |-> IF k = 0 THEN s ELSE Cache!EvictOldest(f[k - 1], limit)]
    BY <2>2 DEF LoopTo
  <2>4. \A k \in 0..(n - 1) : g[k] = f[k]
    BY <2>1
  <2>5. ASSUME NEW k \in 0..n
        PROVE  g[k] = IF k = 0 THEN s ELSE Cache!EvictOldest(g[k - 1], limit)
    <3>1. CASE k = n
      <4>1. g[k] = Cache!EvictOldest(f[n - 1], limit)
        BY <3>1, <2>1
      <4>2. n - 1 \in 0..(n - 1) /\ g[n - 1] = f[n - 1]
        BY <2>1, <2>4
      <4> HIDE DEF g
      <4> QED
        BY <1>5, <3>1, <4>1, <4>2
    <3>2. CASE k # n
      <4>1. k \in 0..(n - 1) /\ (k # 0 => k - 1 \in 0..(n - 1))
        BY <3>2, <2>1
      <4>2. g[k] = f[k] /\ (k # 0 => g[k - 1] = f[k - 1])
        BY <4>1, <2>4
      <4>3. f[k] = IF k = 0 THEN s ELSE Cache!EvictOldest(f[k - 1], limit)
        BY <4>1, <2>3
      <4> HIDE DEF g
      <4> QED
        BY <4>2, <4>3
    <3> QED
      BY <3>1, <3>2
  <2>6. g = [k \in 0..n |-> g[k]]
    OBVIOUS
  <2> HIDE DEF g
  <2>7. LoopTo(g, n, s, limit)
    BY <2>5, <2>6 DEF LoopTo
  <2> QED
    BY <1>3, <2>7
<1> QED
  BY <1>4, <1>5

\* After the loop the usage is within the limit, or all handles are in use.
LEMMA EvictToKeeps ==
  ASSUME NEW s, NEW u \in Counts, Counted(s, u), OneOfEach(s), NEW limit \in Nat
  PROVE  LET r == Cache!EvictTo(s, limit)
         IN Counted(r, u) /\ Shrinks(s, r) /\ (r.usage > limit => r.lru = << >>)
<1>n. PICK n \in Nat : n = Len(s.lru)
  BY DEF Counted, Shards, Lists
<1> DEFINE Body(f) == [turns \in 0..n |-> IF turns = 0 THEN s ELSE Cache!EvictOldest(f[turns - 1], limit)]
<1>1. PICK after : after = CHOOSE f : f = Body(f)
  OBVIOUS
<1>2. Cache!EvictTo(s, limit) = after[n]
  BY <1>n, <1>1 DEF Cache!EvictTo
<1>3. after = Body(after)
  <2>1. PICK f : LoopTo(f, n, s, limit)
    BY LoopExists
  <2>2. f = Body(f)
    BY <2>1 DEF LoopTo
  <2> HIDE DEF Body
  <2> QED
    BY <1>1, <2>2
<1>4. /\ after[0] = s
      /\ \A k \in 1..n : after[k] = Cache!EvictOldest(after[k - 1], limit)
  BY <1>3
<1> HIDE DEF Body
<1> DEFINE Good(k) == /\ Counted(after[k], u) /\ Shrinks(s, after[k])
                      /\ after[k].usage > limit => Len(after[k].lru) <= n - k
           Bad == {k \in Nat : k \in 0..n /\ ~ Good(k)}
<1>5. Good(0)
  BY <1>n, <1>4 DEF Shrinks, SameKeys
<1>6. ASSUME NEW k \in 1..n, Good(k - 1) PROVE Good(k)
  <2>1. PICK p, q : p = after[k - 1] /\ q = after[k]
    OBVIOUS
  <2>2. Counted(p, u) /\ Shrinks(s, p) /\ (p.usage > limit => Len(p.lru) <= n - (k - 1))
    BY <1>6, <2>1
  <2>3. OneOfEach(p)
    BY <2>2, ShrinksKeepsOne
  <2>4. q = Cache!EvictOldest(p, limit)
    BY <1>4, <2>1
  <2>5. /\ Counted(q, u) /\ Shrinks(p, q)
        /\ IF p.usage > limit /\ p.lru # << >> THEN Len(q.lru) = Len(p.lru) - 1 ELSE q = p
    BY <2>2, <2>3, <2>4, OldestKeeps
  <2>6. Shrinks(s, q)
    BY <2>2, <2>5 DEF Shrinks, SameKeys
  <2>7. q.usage > limit => Len(q.lru) <= n - k
    <3>1. CASE p.usage > limit /\ p.lru # << >>
      <4>1. Len(p.lru) \in Nat
        BY <2>2 DEF Counted, Shards, Lists
      <4> QED
        BY <3>1, <4>1, <2>2, <2>5
    <3>2. CASE ~ (p.usage > limit /\ p.lru # << >>)
      <4>1. q = p
        BY <3>2, <2>5
      <4>2. q.usage > limit => q.lru = << >>
        BY <3>2, <4>1
      <4>3. Len(<< >>) = 0 /\ 0 <= n - k
        OBVIOUS
      <4> QED
        BY <4>2, <4>3
    <3> QED
      BY <3>1, <3>2
  <2> QED
    BY <2>1, <2>5, <2>6, <2>7
<1> HIDE DEF Good
<1>7. Bad = {}
  <2> SUFFICES ASSUME Bad # {} PROVE FALSE
    OBVIOUS
  <2>1. Bad \subseteq Nat /\ \A k \in Nat : k \in Bad <=> k \in 0..n /\ ~ Good(k)
    OBVIOUS
  <2> HIDE DEF Bad
  <2>2. PICK k \in Bad : \A m \in Bad : k <= m
    BY <2>1, LeastNumber
  <2>3. k # 0 /\ k \in 1..n /\ k - 1 \in Nat /\ k - 1 \in 0..n /\ ~ (k <= k - 1)
    BY <2>1, <2>2, <1>5
  <2>4. Good(k - 1)
    BY <2>1, <2>2, <2>3
  <2> QED
    BY <2>1, <2>2, <2>3, <2>4, <1>6
<1>8. Good(n)
  BY <1>7
<1>9. PICK r : r = Cache!EvictTo(s, limit)
  OBVIOUS
<1>10. Counted(r, u) /\ Shrinks(s, r) /\ (r.usage > limit => Len(r.lru) <= n - n)
  BY <1>2, <1>8, <1>9 DEF Good
<1>11. r.lru \in Seq(Cache!Handles)
  BY <1>10 DEF Counted, Shards, Lists
<1>12. r.usage > limit => r.lru = << >>
  <2>1. n - n = 0 /\ Len(r.lru) \in Nat
    BY <1>11
  <2> QED
    BY <2>1, <1>10, <1>11
<1> QED
  BY <1>9, <1>10, <1>12

\* The shard with a new handle, and the keys it has then.
Added(s, h, key) ==
  [entry |-> [s.entry EXCEPT ![h] = [key |-> key, refs |-> 2, in_cache |-> TRUE]],
   lru |-> s.lru, in_use |-> s.in_use \union {h}, usage |-> s.usage + 1]

KeySet(s, r, h, key) ==
  r.entry[h].key = key /\ \A g \in Cache!Handles \ {h} : r.entry[g].key = s.entry[g].key

\* The new handle has two references, and is in use.
LEMMA AddKeeps ==
  ASSUME NEW s, NEW u \in Counts, Counted(s, u), NEW h \in Cache!Handles, s.entry[h].refs = 0,
         NEW key \in FileNumbers, NEW v, Sets(v, u, h, 1)
  PROVE  LET r == Added(s, h, key)
         IN Counted(r, v) /\ Cached(r) = Cached(s) \union {h} /\ KeySet(s, r, h, key)
<1>1. /\ s \in Shards /\ s.lru \in Lists /\ s.in_use \in SUBSET Cache!Handles /\ s.usage \in Nat
      /\ s.entry \in [Cache!Handles -> Entries] /\ u[h] \in Nat /\ u[h] = 0
      /\ ~ s.entry[h].in_cache /\ h \notin s.in_use /\ h \notin Cache!ToSet(s.lru)
      /\ h \notin Cached(s)
  BY CountedFacts DEF Counted, Shards
<1>2. PICK b \in BOOLEAN : b = TRUE
  OBVIOUS
<1>3. PICK new : new = [key |-> key, refs |-> 2, in_cache |-> b]
  OBVIOUS
<1>4. new \in Entries /\ new.key = key /\ new.refs = 2 /\ new.in_cache = b
  BY <1>3 DEF Entries
<1>5. PICK w : w = [s.entry EXCEPT ![h] = new]
  OBVIOUS
<1>6. w \in [Cache!Handles -> Entries] /\ w[h] = new /\ \A g \in Cache!Handles \ {h} : w[g] = s.entry[g]
  BY <1>1, <1>4, <1>5
<1>7. PICK r : r = Added(s, h, key)
  OBVIOUS
<1>8. r = [entry |-> w, lru |-> s.lru, in_use |-> s.in_use \union {h}, usage |-> s.usage + 1]
  <2>1. w = [s.entry EXCEPT ![h] = [key |-> key, refs |-> 2, in_cache |-> TRUE]]
    BY <1>2, <1>3, <1>5, Zenon
  <2> QED
    BY <1>7, <2>1, Zenon DEF Added
<1>9. /\ r.entry = w /\ r.lru = s.lru /\ r.in_use = s.in_use \union {h} /\ r.usage = s.usage + 1
  BY <1>8
<1>10. r \in Shards
  BY <1>1, <1>6, <1>8 DEF Shards
<1>11. Cached(r) = Cached(s) \union {h}
  BY <1>2, <1>4, <1>6, <1>9 DEF Cached
<1>12. KeySet(s, r, h, key)
  BY <1>4, <1>6, <1>9 DEF KeySet
<1>13. v \in Counts /\ v[h] = 1 /\ \A g \in Cache!Handles \ {h} : v[g] = u[g]
  BY DEF Sets
<1>14. ASSUME NEW g \in Cache!Handles
       PROVE  r.entry[g].refs = IF r.entry[g].in_cache THEN v[g] + 1 ELSE v[g]
  <2>1. CASE g = h
    <3>1. r.entry[h] = new /\ new.in_cache /\ new.refs = v[h] + 1
      BY <1>2, <1>4, <1>6, <1>9, <1>13
    <3> QED
      BY <2>1, <3>1
  <2>2. CASE g # h
    BY <2>2, <1>6, <1>9, <1>13 DEF Counted
  <2> QED
    BY <2>1, <2>2
<1>15. r.in_use = {g \in Cached(r) : v[g] > 0}
  <2>1. \A g \in Cache!Handles \ {h} : g \in s.in_use <=> g \in Cached(s) /\ v[g] > 0
    BY <1>13 DEF Counted
  <2>2. Cached(s) \subseteq Cache!Handles
    BY DEF Cached
  <2> QED
    BY <2>1, <2>2, <1>1, <1>9, <1>11, <1>13
<1>16. Cache!ToSet(r.lru) = {g \in Cached(r) : v[g] = 0}
  <2>1. \A g \in Cache!Handles \ {h} : g \in Cache!ToSet(s.lru) <=> g \in Cached(s) /\ v[g] = 0
    BY <1>13 DEF Counted
  <2>2. Cached(s) \subseteq Cache!Handles /\ Cache!ToSet(s.lru) \subseteq Cached(s)
    BY DEF Cached, Counted
  <2> QED
    BY <2>1, <2>2, <1>1, <1>9, <1>11, <1>13
<1>17. r.usage = Cardinality(Cached(r))
  <2>1. Cardinality(Cached(s) \union {h}) = Cardinality(Cached(s)) + 1
    BY <1>1, CachedIsFinite, FS_AddElement
  <2> QED
    BY <2>1, <1>9, <1>11 DEF Counted
<1> QED
  BY <1>7, <1>10, <1>11, <1>12, <1>14, <1>15, <1>16, <1>17 DEF Counted

\* A cache without a capacity hands the table out and keeps nothing.
LEMMA PassKeeps ==
  ASSUME NEW s, NEW u \in Counts, Counted(s, u), NEW h \in Cache!Handles, s.entry[h].refs = 0,
         NEW key \in FileNumbers, NEW v, Sets(v, u, h, 1), capacity_ = 0
  PROVE  LET r == Cache!Insert(s, h, key)
         IN Counted(r, v) /\ Cached(r) = Cached(s) /\ KeySet(s, r, h, key)
<1>1. /\ s \in Shards /\ s.lru \in Lists /\ s.in_use \in SUBSET Cache!Handles /\ s.usage \in Nat
      /\ s.entry \in [Cache!Handles -> Entries] /\ u[h] \in Nat /\ u[h] = 0
      /\ ~ s.entry[h].in_cache /\ h \notin Cached(s)
  BY CountedFacts DEF Counted, Shards
<1>2. PICK b \in BOOLEAN : b = FALSE
  OBVIOUS
<1>3. PICK new : new = [key |-> key, refs |-> 1, in_cache |-> b]
  OBVIOUS
<1>4. new \in Entries /\ new.key = key /\ new.refs = 1 /\ new.in_cache = b
  BY <1>3 DEF Entries
<1>5. PICK w : w = [s.entry EXCEPT ![h] = new]
  OBVIOUS
<1>6. w \in [Cache!Handles -> Entries] /\ w[h] = new /\ \A g \in Cache!Handles \ {h} : w[g] = s.entry[g]
  BY <1>1, <1>4, <1>5
<1>7. PICK r : r = Cache!Insert(s, h, key)
  OBVIOUS
<1>8. r = [entry |-> w, lru |-> s.lru, in_use |-> s.in_use, usage |-> s.usage]
  <2>1. s = [entry |-> s.entry, lru |-> s.lru, in_use |-> s.in_use, usage |-> s.usage]
    BY <1>1 DEF Shards
  <2>2. new = [key |-> key, refs |-> 1, in_cache |-> FALSE]
    BY <1>2, <1>3, Zenon
  <2>3. r = [s EXCEPT !.entry[h] = new]
    BY <1>7, <2>2, Zenon DEF Cache!Insert
  <2>4. r = [s EXCEPT !.entry = [s.entry EXCEPT ![h] = new]]
    BY <2>1, <2>3
  <2> QED
    BY <2>1, <2>4, <1>5
<1>9. /\ r.entry = w /\ r.lru = s.lru /\ r.in_use = s.in_use /\ r.usage = s.usage
  BY <1>8
<1>10. r \in Shards
  BY <1>1, <1>6, <1>8 DEF Shards
<1>11. Cached(r) = Cached(s)
  BY <1>1, <1>2, <1>4, <1>6, <1>9 DEF Cached
<1>12. KeySet(s, r, h, key)
  BY <1>4, <1>6, <1>9 DEF KeySet
<1>13. v \in Counts /\ v[h] = 1 /\ \A g \in Cache!Handles \ {h} : v[g] = u[g]
  BY DEF Sets
<1>14. ASSUME NEW g \in Cache!Handles
       PROVE  r.entry[g].refs = IF r.entry[g].in_cache THEN v[g] + 1 ELSE v[g]
  <2>1. CASE g = h
    BY <2>1, <1>2, <1>4, <1>6, <1>9, <1>13
  <2>2. CASE g # h
    BY <2>2, <1>6, <1>9, <1>13 DEF Counted
  <2> QED
    BY <2>1, <2>2
<1>15. \A g \in Cached(s) : g \in Cache!Handles \ {h} /\ v[g] = u[g]
  BY <1>1, <1>13 DEF Cached
<1>16. r.in_use = {g \in Cached(r) : v[g] > 0} /\ Cache!ToSet(r.lru) = {g \in Cached(r) : v[g] = 0}
  BY <1>9, <1>11, <1>15 DEF Counted
<1>17. r.usage = Cardinality(Cached(r))
  BY <1>9, <1>11 DEF Counted
<1> QED
  BY <1>7, <1>10, <1>11, <1>12, <1>14, <1>16, <1>17 DEF Counted

\* The new handle replaces the one that has the key, and the loop makes room.
LEMMA InsertKeeps ==
  ASSUME NEW s, NEW u \in Counts, Counted(s, u), OneOfEach(s), NEW h \in Cache!Handles,
         s.entry[h].refs = 0, NEW key \in FileNumbers, NEW v, Sets(v, u, h, 1)
  PROVE  LET r == Cache!Insert(s, h, key)
         IN /\ Counted(r, v) /\ OneOfEach(r) /\ KeySet(s, r, h, key)
            /\ r.usage = s.usage \/ r.usage <= capacity_ \/ r.lru = << >>
<1>c. h \notin Cached(s) /\ Cached(s) \subseteq Cache!Handles /\ v \in Counts
  BY CountedFacts DEF Cached, Sets
<1>1. CASE capacity_ = 0
  <2>1. PICK r : r = Cache!Insert(s, h, key)
    OBVIOUS
  <2>2. Counted(r, v) /\ Cached(r) = Cached(s) /\ KeySet(s, r, h, key)
    BY <1>1, <2>1, PassKeeps
  <2>3. OneOfEach(r)
    BY <1>c, <2>2 DEF OneOfEach, KeySet
  <2>4. r.usage = s.usage
    BY <2>2 DEF Counted
  <2> QED
    BY <2>1, <2>2, <2>3, <2>4
<1>2. CASE capacity_ # 0
  <2>1. PICK old : old = Cache!TableLookup(s, key)
    OBVIOUS
  <2>2. PICK added : added = Added(s, h, key)
    OBVIOUS
  <2>3. PICK erased : erased = Cache!FinishErase(added, old)
    OBVIOUS
  <2>4. PICK r : r = Cache!EvictTo(erased, capacity_)
    OBVIOUS
  <2>5. Cache!Insert(s, h, key) = r
    <3>1. s = [entry |-> s.entry, lru |-> s.lru, in_use |-> s.in_use, usage |-> s.usage]
      BY DEF Counted, Shards
    <3>2. PICK new, i, n : /\ new = [key |-> key, refs |-> 2, in_cache |-> TRUE]
                           /\ i = s.in_use \union {h} /\ n = s.usage + 1
      OBVIOUS
    <3>3. [s EXCEPT !.entry[h] = new, !.in_use = i, !.usage = n] =
            [entry |-> [s.entry EXCEPT ![h] = new], lru |-> s.lru, in_use |-> i, usage |-> n]
      <4>1. PICK e, l, j, k : s = [entry |-> e, lru |-> l, in_use |-> j, usage |-> k]
        BY <3>1
      <4>2. s.entry = e /\ s.lru = l
        BY <4>1
      <4>3. PICK w : w = [e EXCEPT ![h] = new]
        OBVIOUS
      <4>4. PICK q : q = [s EXCEPT !.entry[h] = new, !.in_use = i, !.usage = n]
        OBVIOUS
      <4>5. q = [s EXCEPT !.entry = w, !.in_use = i, !.usage = n]
        BY <4>2, <4>3, <4>4
      <4>6. q = [entry |-> w, lru |-> l, in_use |-> i, usage |-> n]
        BY <4>1, <4>5
      <4> QED
        BY <4>2, <4>3, <4>4, <4>6
    <3>4. [s EXCEPT !.entry[h] = [key |-> key, refs |-> 2, in_cache |-> TRUE],
                    !.in_use = @ \union {h}, !.usage = @ + 1] =
          [s EXCEPT !.entry[h] = new, !.in_use = i, !.usage = n]
      BY <3>2, Zenon
    <3>5. added = [s EXCEPT !.entry[h] = [key |-> key, refs |-> 2, in_cache |-> TRUE],
                            !.in_use = @ \union {h}, !.usage = @ + 1]
      BY <2>2, <3>2, <3>3, <3>4, Zenon DEF Added
    <3> QED
      BY <1>2, <2>1, <2>3, <2>4, <3>5, Zenon DEF Cache!Insert
  <2>6. Counted(added, v) /\ Cached(added) = Cached(s) \union {h} /\ KeySet(s, added, h, key)
    BY <2>2, AddKeeps
  <2>7. CASE old = Cache!NULL
    <3>1. erased = added /\ \A g \in Cached(s) : s.entry[g].key # key
      BY <2>1, <2>3, <2>7, LookupIs, CacheConstants DEF Cache!FinishErase
    <3>2. OneOfEach(erased)
      BY <1>c, <2>6, <3>1 DEF OneOfEach, KeySet
    <3>3. Counted(erased, v) /\ KeySet(s, erased, h, key)
      BY <2>6, <3>1
    <3>4. Counted(r, v) /\ Shrinks(erased, r) /\ (r.usage > capacity_ => r.lru = << >>)
      BY <1>c, <2>4, <3>2, <3>3, EvictToKeeps, CacheConstants
    <3>5. OneOfEach(r)
      BY <3>2, <3>4, ShrinksKeepsOne
    <3>6. KeySet(s, r, h, key)
      BY <3>3, <3>4 DEF KeySet, Shrinks, SameKeys
    <3>7. r.usage <= capacity_ \/ r.lru = << >>
      BY <3>4, CacheConstants DEF Counted, Shards
    <3> QED
      BY <2>5, <3>4, <3>5, <3>6, <3>7
  <2>8. CASE old # Cache!NULL
    <3>1. /\ old \in Cached(s) /\ s.entry[old].key = key /\ old # h
          /\ \A g \in Cached(s) : s.entry[g].key = key => g = old
      BY <1>c, <2>1, <2>8, LookupIs DEF OneOfEach
    <3>2. Counted(erased, v) /\ Cached(erased) = Cached(added) \ {old} /\ SameKeys(added, erased)
      BY <1>c, <2>3, <2>6, <3>1, EraseKeeps
    <3>3. KeySet(s, erased, h, key)
      BY <2>6, <3>2 DEF KeySet, SameKeys
    <3>4. OneOfEach(erased)
      BY <1>c, <2>6, <3>1, <3>2, <3>3 DEF OneOfEach, KeySet
    <3>5. Counted(r, v) /\ Shrinks(erased, r) /\ (r.usage > capacity_ => r.lru = << >>)
      BY <1>c, <2>4, <3>2, <3>4, EvictToKeeps, CacheConstants
    <3>6. OneOfEach(r)
      BY <3>4, <3>5, ShrinksKeepsOne
    <3>7. KeySet(s, r, h, key)
      BY <3>3, <3>5 DEF KeySet, Shrinks, SameKeys
    <3>8. r.usage <= capacity_ \/ r.lru = << >>
      BY <3>5, CacheConstants DEF Counted, Shards
    <3> QED
      BY <2>5, <3>5, <3>6, <3>7, <3>8
  <2> QED
    BY <2>7, <2>8
<1> QED
  BY <1>1, <1>2

-----------------------------------------------------------------------------
ClientStates ==
  {Cache!Idle} \union [pc : {"open"}, file : FileNumbers]
    \union [pc : {"read"}, file : FileNumbers, handle : Cache!Handles]

Reads(state, h) == state.pc = "read" /\ state.handle = h

ReadersOf(f, h) == {c \in Clients : Reads(f[c], h)}

\* The references of the clients, if f says what they do.
Uses(f) == [h \in Cache!Handles |-> Cardinality(ReadersOf(f, h))]

\* Clients can be counted.
LEMMA ReadersAreFinite ==
  ASSUME NEW f, NEW h
  PROVE  IsFiniteSet(ReadersOf(f, h)) /\ Cardinality(ReadersOf(f, h)) \in Nat
<1>1. ReadersOf(f, h) \subseteq Clients
  BY DEF ReadersOf
<1> QED
  BY <1>1, CacheConstants, FS_Subset, FS_CardinalityType

\* A handle is in use if a client reads from it.
LEMMA UsesAreCounts ==
  ASSUME NEW f
  PROVE  /\ Uses(f) \in Counts
         /\ \A h \in Cache!Handles : /\ Uses(f)[h] = 0 <=> ReadersOf(f, h) = {}
                                     /\ Uses(f)[h] > 0 <=> ReadersOf(f, h) # {}
<1>1. ASSUME NEW h \in Cache!Handles
      PROVE  /\ Uses(f)[h] = Cardinality(ReadersOf(f, h)) /\ Uses(f)[h] \in Nat
             /\ Uses(f)[h] = 0 <=> ReadersOf(f, h) = {}
  BY ReadersAreFinite, FS_EmptySet DEF Uses
<1>2. Uses(f) \in Counts
  BY <1>1 DEF Counts, Uses
<1>3. \A h \in Cache!Handles : Uses(f)[h] > 0 <=> ReadersOf(f, h) # {}
  BY <1>1
<1> QED
  BY <1>1, <1>2, <1>3

Goes(f, c, to, g) ==
  f \in [Clients -> ClientStates] /\ to \in ClientStates /\ g = [f EXCEPT ![c] = to]

\* A client that takes a handle is counted, and one that returns it no longer.
LEMMA UsesMove ==
  ASSUME NEW f, NEW c \in Clients, NEW to, NEW g, Goes(f, c, to, g), NEW h \in Cache!Handles
  PROVE  Uses(g)[h] = IF Reads(to, h)
                      THEN IF Reads(f[c], h) THEN Uses(f)[h] ELSE Uses(f)[h] + 1
                      ELSE IF Reads(f[c], h) THEN Uses(f)[h] - 1 ELSE Uses(f)[h]
<1>1. g[c] = to /\ \A d \in Clients \ {c} : g[d] = f[d]
  BY DEF Goes
<1>2. ReadersOf(g, h) = IF Reads(to, h) THEN ReadersOf(f, h) \union {c} ELSE ReadersOf(f, h) \ {c}
  BY <1>1 DEF ReadersOf
<1>3. c \in ReadersOf(f, h) <=> Reads(f[c], h)
  BY DEF ReadersOf
<1>4. /\ Cardinality(ReadersOf(f, h) \union {c}) =
           IF c \in ReadersOf(f, h) THEN Cardinality(ReadersOf(f, h))
           ELSE Cardinality(ReadersOf(f, h)) + 1
      /\ Cardinality(ReadersOf(f, h) \ {c}) =
           IF c \in ReadersOf(f, h) THEN Cardinality(ReadersOf(f, h)) - 1
           ELSE Cardinality(ReadersOf(f, h))
  BY ReadersAreFinite, FS_AddElement, FS_RemoveElement
<1>5. Uses(g)[h] = Cardinality(ReadersOf(g, h)) /\ Uses(f)[h] = Cardinality(ReadersOf(f, h))
  BY DEF Uses
<1> QED
  BY <1>2, <1>3, <1>4, <1>5

\* A client that starts to read adds one reference,
LEMMA TakesHandle ==
  ASSUME NEW f, NEW c \in Clients, NEW to, NEW g, Goes(f, c, to, g), f[c].pc # "read", to.pc = "read"
  PROVE  Sets(Uses(g), Uses(f), to.handle, Uses(f)[to.handle] + 1)
<1>1. \A h \in Cache!Handles : ~ Reads(f[c], h) /\ (Reads(to, h) <=> h = to.handle)
  BY DEF Reads
<1>2. to.handle \in Cache!Handles
  BY DEF Goes, ClientStates, Cache!Idle
<1>3. \A h \in Cache!Handles : Uses(g)[h] = IF h = to.handle THEN Uses(f)[h] + 1 ELSE Uses(f)[h]
  BY <1>1, UsesMove
<1> QED
  BY <1>2, <1>3, UsesAreCounts DEF Sets

\* ... one that stops takes it away,
LEMMA ReturnsHandle ==
  ASSUME NEW f, NEW c \in Clients, NEW to, NEW g, Goes(f, c, to, g), f[c].pc = "read", to.pc # "read"
  PROVE  Sets(Uses(g), Uses(f), f[c].handle, Uses(f)[f[c].handle] - 1)
<1>1. \A h \in Cache!Handles : ~ Reads(to, h) /\ (Reads(f[c], h) <=> h = f[c].handle)
  BY DEF Reads
<1>2. \A h \in Cache!Handles :
        Uses(g)[h] = IF h = f[c].handle THEN Uses(f)[h] - 1 ELSE Uses(f)[h]
  BY <1>1, UsesMove
<1>3. f[c].handle \in Cache!Handles
  BY DEF Goes, ClientStates, Cache!Idle
<1> QED
  BY <1>2, <1>3, UsesAreCounts DEF Sets

\* ... and others change nothing.
LEMMA KeepsHandles ==
  ASSUME NEW f, NEW c \in Clients, NEW to, NEW g, Goes(f, c, to, g), f[c].pc # "read", to.pc # "read"
  PROVE  Uses(g) = Uses(f)
<1>1. \A h \in Cache!Handles : ~ Reads(to, h) /\ ~ Reads(f[c], h)
  BY DEF Reads
<1>2. \A h \in Cache!Handles : Uses(g)[h] = Uses(f)[h]
  BY <1>1, UsesMove
<1> QED
  BY <1>2 DEF Uses

\* Every client has one handle, or is about to.
LEMMA HandlesInUse ==
  ASSUME NEW f \in [Clients -> ClientStates]
  PROVE  LET busy    == {h \in Cache!Handles : Uses(f)[h] > 0}
             opening == {c \in Clients : f[c].pc = "open"}
         IN /\ IsFiniteSet(busy) /\ IsFiniteSet(opening)
            /\ Cardinality(busy) \in Nat /\ Cardinality(opening) \in Nat
            /\ Cardinality(busy) + Cardinality(opening) <= Cardinality(Clients)
<1> DEFINE busy    == {h \in Cache!Handles : Uses(f)[h] > 0}
           opening == {c \in Clients : f[c].pc = "open"}
           reading == {c \in Clients : f[c].pc = "read"}
           held    == [c \in reading |-> f[c].handle]
<1>1. busy \subseteq Cache!Handles /\ opening \subseteq Clients /\ reading \subseteq Clients
  OBVIOUS
<1>2. \A h \in Cache!Handles : h \in busy <=> \E c \in reading : f[c].handle = h
  BY UsesAreCounts DEF ReadersOf, Reads
<1>3. \A c \in reading : f[c].handle \in Cache!Handles
  BY DEF ClientStates, Cache!Idle
<1>4. reading \intersect opening = {}
  OBVIOUS
<1>5. held \in [reading -> busy] /\ \A h \in busy : \E c \in reading : held[c] = h
  <2> HIDE DEF reading, busy
  <2> QED
    BY <1>1, <1>2, <1>3
<1> HIDE DEF busy, opening, reading, held
<1>6. held \in Surjection(reading, busy)
  BY <1>5 DEF Surjection
<1>7. /\ IsFiniteSet(opening) /\ Cardinality(opening) \in Nat
      /\ IsFiniteSet(reading) /\ Cardinality(reading) \in Nat
  BY <1>1, CacheConstants, FS_Subset, FS_CardinalityType
<1>8. IsFiniteSet(busy) /\ Cardinality(busy) \in Nat /\ Cardinality(busy) <= Cardinality(reading)
  BY <1>6, <1>7, FS_Surjection, FS_CardinalityType
<1>9. Cardinality(reading \union opening) = Cardinality(reading) + Cardinality(opening)
  <2>1. Cardinality(reading \union opening) =
          Cardinality(reading) + Cardinality(opening) - Cardinality(reading \intersect opening)
    BY <1>7, FS_Union
  <2> QED
    BY <2>1, <1>4, <1>7, FS_EmptySet
<1>10. Cardinality(reading \union opening) <= Cardinality(Clients)
  <2>1. reading \union opening \in SUBSET Clients
    BY <1>1
  <2> QED
    BY <2>1, CacheConstants, FS_Subset
<1>11. Cardinality(busy) + Cardinality(opening) <= Cardinality(Clients)
  BY <1>7, <1>8, <1>9, <1>10, CacheConstants
<1> QED
  BY <1>7, <1>8, <1>11 DEF busy, opening

\* What is true of the cache at all times.
CacheTyped ==
  /\ client \in [Clients -> ClientStates]
  /\ Counted(Cache!Shard, Uses(client))
  /\ OneOfEach(Cache!Shard)

ReadersHaveTheirs == \A c \in Clients : client[c].pc = "read" => entry[client[c].handle].key = client[c].file

UsageBounded == usage_ <= capacity_ \/ usage_ <= Cardinality(Clients)

CacheInv == CacheTyped /\ ReadersHaveTheirs /\ UsageBounded

\* The fields of the shard are the variables.
LEMMA ShardIs ==
  /\ Cache!Shard.entry = entry /\ Cache!Shard.lru = lru_ /\ Cache!Shard.in_use = in_use_
  /\ Cache!Shard.usage = usage_
BY DEF Cache!Shard

\* A table is open for the cache or for a client, so that the bound leaves a
\* handle for every client that is about to open one.
LEMMA OpenIsBounded ==
  ASSUME CacheInv
  PROVE  LET open    == {h \in Cache!Handles : entry[h].refs > 0}
             opening == {c \in Clients : client[c].pc = "open"}
         IN /\ IsFiniteSet(open) /\ Cardinality(open) \in Nat /\ Cardinality(opening) \in Nat
            /\ Cardinality(open) + Cardinality(opening) <= Cache!MaxOpenTables
<1> DEFINE open    == {h \in Cache!Handles : entry[h].refs > 0}
           opening == {c \in Clients : client[c].pc = "open"}
           busy    == {h \in Cache!Handles : Uses(client)[h] > 0}
           cached  == Cached(Cache!Shard)
<1>1. /\ IsFiniteSet(busy) /\ Cardinality(busy) \in Nat /\ Cardinality(opening) \in Nat
      /\ Cardinality(busy) + Cardinality(opening) <= Cardinality(Clients)
  BY HandlesInUse DEF CacheInv, CacheTyped
<1>2. IsFiniteSet(cached) /\ Cardinality(cached) \in Nat
  BY CachedIsFinite
<1>3. Cardinality(cached) <= capacity_ \/ Cardinality(cached) <= Cardinality(Clients)
  BY ShardIs DEF CacheInv, CacheTyped, UsageBounded, Counted
<1>4. open \subseteq cached \union busy
  <2>1. ASSUME NEW h \in Cache!Handles, entry[h].refs > 0, h \notin cached PROVE h \in busy
    <3>1. entry[h].refs = Uses(client)[h]
      BY <2>1, ShardIs, UsesAreCounts, CountedFacts DEF CacheInv, CacheTyped
    <3> QED
      BY <2>1, <3>1
  <2> QED
    BY <2>1
<1> HIDE DEF open, opening, busy, cached
<1>5. IsFiniteSet(cached \union busy) /\ Cardinality(cached \union busy) \in Nat
      /\ Cardinality(cached \union busy) <= Cardinality(cached) + Cardinality(busy)
  <2>1. /\ IsFiniteSet(cached \union busy)
        /\ Cardinality(cached \union busy) =
             Cardinality(cached) + Cardinality(busy) - Cardinality(cached \intersect busy)
    BY <1>1, <1>2, FS_Union
  <2>2. Cardinality(cached \intersect busy) \in Nat
    BY <1>2, FS_Intersection, FS_CardinalityType
  <2> QED
    BY <2>1, <2>2, <1>1, <1>2, FS_CardinalityType
<1>6. /\ IsFiniteSet(open) /\ Cardinality(open) \in Nat
      /\ Cardinality(open) <= Cardinality(cached \union busy)
  BY <1>4, <1>5, FS_Subset, FS_CardinalityType
<1>7. PICK m \in Nat : /\ capacity_ <= m /\ Cardinality(Clients) <= m
                       /\ Cache!MaxOpenTables = m + Cardinality(Clients)
  BY CacheConstants
<1>8. Cardinality(open) + Cardinality(opening) <= Cache!MaxOpenTables
  <2>1. \A o, p, b, k, x, cap, all \in Nat :
          o <= x /\ x <= k + b /\ b + p <= all /\ (k <= cap \/ k <= all)
            /\ cap <= m /\ all <= m => o + p <= m + all
    BY <1>7
  <2> QED
    BY <2>1, <1>1, <1>2, <1>3, <1>5, <1>6, <1>7, CacheConstants
<1> QED
  BY <1>1, <1>6, <1>8 DEF open, opening

\* The cache is empty at the start.
LEMMA CacheStarts ==
  ASSUME Cache!Init
  PROVE  CacheInv
<1>1. client \in [Clients -> ClientStates] /\ \A c \in Clients : client[c] = Cache!Idle
  BY DEF Cache!Init, ClientStates
<1>2. \A c \in Clients : client[c].pc # "read"
  BY <1>1 DEF Cache!Idle
<1>3. \A h \in Cache!Handles : ReadersOf(client, h) = {}
  BY <1>2 DEF ReadersOf, Reads
<1>4. \A h \in Cache!Handles : Uses(client)[h] = 0
  BY <1>3, UsesAreCounts
<1>5. /\ entry \in [Cache!Handles -> Entries]
      /\ \A h \in Cache!Handles : entry[h].refs = 0 /\ ~ entry[h].in_cache
  <2>1. PICK b \in BOOLEAN : b = FALSE
    OBVIOUS
  <2>2. entry = [h \in Cache!Handles |-> [key |-> Cache!NULL, refs |-> 0, in_cache |-> b]]
    BY <2>1, Zenon DEF Cache!Init
  <2>3. [key |-> Cache!NULL, refs |-> 0, in_cache |-> b] \in Entries
    BY DEF Entries
  <2> QED
    BY <2>1, <2>2, <2>3
<1>6. lru_ = << >> /\ in_use_ = {} /\ usage_ = 0
  BY DEF Cache!Init
<1>7. << >> \in Lists /\ Cache!ToSet(<< >>) = {}
  BY DEF Lists, Cache!IsInjective, Cache!ToSet
<1>8. Cached(Cache!Shard) = {}
  BY <1>5, ShardIs DEF Cached
<1>9. Cache!Shard \in Shards
  BY <1>5, <1>6, <1>7 DEF Cache!Shard, Shards
<1>10. Counted(Cache!Shard, Uses(client))
  BY <1>4, <1>5, <1>6, <1>7, <1>8, <1>9, ShardIs, FS_EmptySet DEF Counted
<1>11. UsageBounded
  BY <1>6, CacheConstants DEF UsageBounded
<1> QED
  BY <1>1, <1>2, <1>8, <1>10, <1>11 DEF CacheInv, CacheTyped, ReadersHaveTheirs, OneOfEach

\* What the invariant says of handles and of open tables.
LEMMA CacheHolds ==
  ASSUME CacheInv
  PROVE  Cache!HandlesAreCounted /\ Cache!OpenTablesBounded
<1>1. Cache!OpenTablesBounded
  BY OpenIsBounded, SameCardinality DEF Cache!OpenTablesBounded
<1> DEFINE cached == {h \in Cache!Handles : entry[h].in_cache}
<1>2. cached = Cached(Cache!Shard)
  BY ShardIs DEF Cached
<1>3. \A h \in Cache!Handles : Cache!Users(h) = ReadersOf(client, h)
  BY DEF Cache!Users, ReadersOf, Reads
<1>4. ASSUME NEW h \in Cache!Handles
      PROVE  /\ Uses(client)[h] = Cache!Cardinality(Cache!Users(h)) /\ Uses(client)[h] \in Nat
             /\ h \in cached <=> entry[h].in_cache
             /\ entry[h].refs = IF entry[h].in_cache THEN Uses(client)[h] + 1 ELSE Uses(client)[h]
  BY <1>3, SameCardinality, ShardIs, UsesAreCounts DEF CacheInv, CacheTyped, Uses, Counted, Counts
<1>5. \A h \in Cache!Handles : \A c \in Cache!Users(h) : entry[h].key = client[c].file
  BY DEF CacheInv, ReadersHaveTheirs, Cache!Users
<1>6. /\ in_use_ = {h \in cached : Uses(client)[h] > 0}
      /\ Cache!ToSet(lru_) = {h \in cached : Uses(client)[h] = 0}
      /\ usage_ = Cardinality(cached) /\ lru_ \in Lists
      /\ \A g, h \in cached : entry[g].key = entry[h].key => g = h
  BY <1>2, ShardIs DEF CacheInv, CacheTyped, Counted, OneOfEach, Shards
<1>7. \A h \in cached : /\ entry[h].refs > 1 <=> Uses(client)[h] > 0
                        /\ entry[h].refs = 1 <=> Uses(client)[h] = 0
  BY <1>4
<1> HIDE DEF cached
<1>8. /\ in_use_ = {h \in cached : entry[h].refs > 1}
      /\ Cache!ToSet(lru_) = {h \in cached : entry[h].refs = 1}
  <2>1. {h \in cached : entry[h].refs > 1} = {h \in cached : Uses(client)[h] > 0}
    BY <1>7
  <2>2. {h \in cached : entry[h].refs = 1} = {h \in cached : Uses(client)[h] = 0}
    BY <1>7
  <2> QED
    BY <2>1, <2>2, <1>6
<1>9. \A h \in Cache!Handles :
        entry[h].refs = Cache!Cardinality(Cache!Users(h)) + (IF h \in cached THEN 1 ELSE 0)
  BY <1>4
<1>10. usage_ = Cache!Cardinality(cached) /\ Cache!IsInjective(lru_)
  BY <1>6, SameCardinality DEF Lists
<1> QED
  BY <1>1, <1>5, <1>6, <1>8, <1>9, <1>10 DEF Cache!HandlesAreCounted, cached

KeysKept(r) ==
  \A c \in Clients : client'[c].pc = "read" => r.entry[client'[c].handle].key = client'[c].file

UsageKept(r) == r.usage <= usage_ \/ r.usage <= capacity_ \/ r.usage <= Cardinality(Clients)

\* The invariant holds after a step whose shard has all of it.
LEMMA CacheGoes ==
  ASSUME CacheInv, NEW r, Cache!SetShard(r), client' \in [Clients -> ClientStates],
         Counted(r, Uses(client')), OneOfEach(r), KeysKept(r), UsageKept(r)
  PROVE  CacheInv'
<1>1. entry' = r.entry /\ lru_' = r.lru /\ in_use_' = r.in_use /\ usage_' = r.usage
  BY DEF Cache!SetShard
<1>2. r \in Shards
  BY DEF Counted
<1>3. r = [entry |-> r.entry, lru |-> r.lru, in_use |-> r.in_use, usage |-> r.usage]
  BY <1>2 DEF Shards
<1>4. Cache!Shard' = r
  BY <1>1, <1>3 DEF Cache!Shard
<1>5. UsageBounded'
  <2>1. r.usage \in Nat /\ usage_ \in Nat
    BY <1>2, ShardIs DEF Shards, CacheInv, CacheTyped, Counted
  <2>2. \A a, b, cap, all \in Nat : (a <= b \/ a <= cap \/ a <= all) /\ (b <= cap \/ b <= all)
                                      => a <= cap \/ a <= all
    OBVIOUS
  <2>3. r.usage <= capacity_ \/ r.usage <= Cardinality(Clients)
    BY <2>1, <2>2, CacheConstants DEF CacheInv, UsageBounded, UsageKept
  <2> QED
    BY <1>1, <2>3 DEF UsageBounded
<1>6. CacheTyped'
  BY <1>4 DEF CacheTyped
<1>7. ReadersHaveTheirs'
  BY <1>1 DEF ReadersHaveTheirs, KeysKept
<1> QED
  BY <1>5, <1>6, <1>7 DEF CacheInv

\* One client moves, and the handles keep their keys.
LEMMA KeysStay ==
  ASSUME CacheInv, NEW r, SameKeys(Cache!Shard, r), NEW c \in Clients, NEW to,
         Goes(client, c, to, client'), to.pc = "read" => r.entry[to.handle].key = to.file
  PROVE  KeysKept(r)
<1>1. client' = [client EXCEPT ![c] = to] /\ client \in [Clients -> ClientStates]
  BY DEF Goes
<1>2. client'[c] = to /\ \A d \in Clients \ {c} : client'[d] = client[d]
  BY <1>1
<1>3. ASSUME NEW d \in Clients \ {c}, client[d].pc = "read"
      PROVE  r.entry[client[d].handle].key = client[d].file
  <2>1. client[d].handle \in Cache!Handles
    BY <1>1, <1>3 DEF ClientStates, Cache!Idle
  <2>2. entry[client[d].handle].key = client[d].file
    BY <1>3 DEF CacheInv, ReadersHaveTheirs
  <2> QED
    BY <2>1, <2>2, ShardIs DEF SameKeys
<1> QED
  BY <1>2, <1>3 DEF KeysKept

\* A client finds its table.
LEMMA FindCachedKeeps ==
  ASSUME CacheInv, NEW c \in Clients, NEW file \in FileNumbers, Cache!FindCached(c, file)
  PROVE  CacheInv'
<1>1. PICK s, h, r : /\ s = Cache!Shard /\ h = Cache!TableLookup(Cache!Shard, file)
                     /\ r = Cache!Ref(Cache!Shard, h)
  OBVIOUS
<1>2. h \in Cached(s) /\ s.entry[h].key = file /\ h \in Cache!Handles
  BY <1>1, LookupIs DEF Cache!FindCached, Cached
<1>3. PICK to : to = [pc |-> "read", file |-> file, handle |-> h]
  OBVIOUS
<1>4. to \in ClientStates /\ to.pc = "read" /\ to.file = file /\ to.handle = h
  BY <1>2, <1>3 DEF ClientStates
<1>5. client[c].pc # "read" /\ client' = [client EXCEPT ![c] = to] /\ Cache!SetShard(r)
  BY <1>1, <1>3 DEF Cache!FindCached, Cache!Idle
<1>6. /\ client \in [Clients -> ClientStates] /\ Counted(s, Uses(client)) /\ OneOfEach(s)
      /\ Uses(client) \in Counts
  BY <1>1, UsesAreCounts DEF CacheInv, CacheTyped
<1>7. Goes(client, c, to, client')
  BY <1>4, <1>5, <1>6 DEF Goes
<1>8. client' \in [Clients -> ClientStates]
  BY <1>4, <1>5, <1>6
<1>9. Sets(Uses(client'), Uses(client), h, Uses(client)[h] + 1)
  BY <1>4, <1>5, <1>7, TakesHandle
<1>10. Counted(r, Uses(client')) /\ Cached(r) = Cached(s) /\ SameKeys(s, r)
  BY <1>1, <1>2, <1>6, <1>9, RefKeeps
<1>11. OneOfEach(r)
  BY <1>6, <1>10, ShrinksKeepsOne DEF Shrinks
<1>12. UsageKept(r)
  <2>1. r.usage = usage_ /\ usage_ \in Nat
    BY <1>1, <1>6, <1>10, ShardIs DEF Counted, Shards
  <2> QED
    BY <2>1 DEF UsageKept
<1>13. KeysKept(r)
  <2>1. r.entry[to.handle].key = to.file
    BY <1>2, <1>4, <1>10 DEF SameKeys
  <2> QED
    BY <2>1, <1>1, <1>7, <1>10, KeysStay
<1> QED
  BY <1>5, <1>8, <1>10, <1>11, <1>12, <1>13, CacheGoes

\* A client that looks for a table, or gives up, has no handle.
LEMMA SearchKeepsCache ==
  ASSUME CacheInv, NEW c \in Clients, client[c].pc # "read", UNCHANGED Cache!cache,
         NEW to \in ClientStates, to.pc # "read", client' = [client EXCEPT ![c] = to]
  PROVE  CacheInv'
<1>1. PICK s : s = Cache!Shard
  OBVIOUS
<1>2. /\ client \in [Clients -> ClientStates] /\ Counted(s, Uses(client)) /\ OneOfEach(s)
  BY <1>1 DEF CacheInv, CacheTyped
<1>3. client' \in [Clients -> ClientStates] /\ Goes(client, c, to, client')
  BY <1>2 DEF Goes
<1>4. Uses(client') = Uses(client)
  BY <1>3, KeepsHandles
<1>5. Cache!SetShard(s)
  BY <1>1, ShardIs DEF Cache!SetShard, Cache!cache
<1>6. KeysKept(s)
  BY <1>1, <1>3, KeysStay DEF SameKeys
<1>7. UsageKept(s)
  <2>1. s.usage = usage_ /\ usage_ \in Nat
    BY <1>1, <1>2, ShardIs DEF Counted, Shards
  <2> QED
    BY <2>1 DEF UsageKept
<1> QED
  BY <1>2, <1>3, <1>4, <1>5, <1>6, <1>7, CacheGoes

\* A client is done with its table.
LEMMA ReleaseKeeps ==
  ASSUME CacheInv, NEW c \in Clients, Cache!Release(c)
  PROVE  CacheInv'
<1>1. PICK s, h, r : s = Cache!Shard /\ h = client[c].handle /\ r = Cache!Unref(Cache!Shard, h)
  OBVIOUS
<1>2. /\ client \in [Clients -> ClientStates] /\ Counted(s, Uses(client)) /\ OneOfEach(s)
      /\ Uses(client) \in Counts
  BY <1>1, UsesAreCounts DEF CacheInv, CacheTyped
<1>3. PICK to : to = Cache!Idle
  OBVIOUS
<1>4. to \in ClientStates /\ to.pc # "read"
  BY <1>3 DEF ClientStates, Cache!Idle
<1>5. client[c].pc = "read" /\ client' = [client EXCEPT ![c] = to] /\ Cache!SetShard(r)
  BY <1>1, <1>3 DEF Cache!Release
<1>6. h \in Cache!Handles
  BY <1>1, <1>2, <1>5 DEF ClientStates, Cache!Idle
<1>7. Uses(client)[h] > 0
  <2>1. c \in ReadersOf(client, h)
    BY <1>1, <1>5 DEF ReadersOf, Reads
  <2> QED
    BY <2>1, <1>6, UsesAreCounts
<1>8. client' \in [Clients -> ClientStates] /\ Goes(client, c, to, client')
  BY <1>2, <1>4, <1>5 DEF Goes
<1>9. Sets(Uses(client'), Uses(client), h, Uses(client)[h] - 1)
  BY <1>1, <1>4, <1>5, <1>8, ReturnsHandle
<1>10. Counted(r, Uses(client')) /\ Cached(r) = Cached(s) /\ SameKeys(s, r)
  BY <1>1, <1>2, <1>6, <1>7, <1>9, UnrefKeeps
<1>11. OneOfEach(r)
  BY <1>2, <1>10, ShrinksKeepsOne DEF Shrinks
<1>12. UsageKept(r)
  <2>1. r.usage = usage_ /\ usage_ \in Nat
    BY <1>1, <1>2, <1>10, ShardIs DEF Counted, Shards
  <2> QED
    BY <2>1 DEF UsageKept
<1>13. KeysKept(r)
  BY <1>1, <1>4, <1>8, <1>10, KeysStay
<1> QED
  BY <1>5, <1>8, <1>10, <1>11, <1>12, <1>13, CacheGoes

\* There is a handle that is free while a client is about to insert one.
LEMMA HandleIsLeft ==
  ASSUME CacheInv, NEW c \in Clients, client[c].pc = "open"
  PROVE  LET h == Cache!Min({x \in Cache!Handles : entry[x].refs = 0})
         IN h \in Cache!Handles /\ entry[h].refs = 0
<1> DEFINE open    == {h \in Cache!Handles : entry[h].refs > 0}
           opening == {d \in Clients : client[d].pc = "open"}
           free    == {x \in Cache!Handles : entry[x].refs = 0}
<1>1. /\ Cardinality(open) \in Nat /\ Cardinality(opening) \in Nat
      /\ Cardinality(open) + Cardinality(opening) <= Cache!MaxOpenTables
  BY OpenIsBounded
<1>2. Cardinality(opening) # 0
  <2>1. c \in opening /\ IsFiniteSet(opening)
    BY CacheConstants, FS_Subset
  <2> QED
    BY <2>1, FS_EmptySet
<1>3. open # Cache!Handles
  <2> SUFFICES ASSUME open = Cache!Handles PROVE FALSE
    OBVIOUS
  <2> HIDE DEF open, opening
  <2>1. Cardinality(open) = Cache!MaxOpenTables /\ Cache!MaxOpenTables \in Nat
    BY CacheConstants
  <2> QED
    BY <2>1, <1>1, <1>2
<1>4. \A x \in Cache!Handles : entry[x].refs \in Nat
  BY ShardIs DEF CacheInv, CacheTyped, Counted, Shards, Entries
<1>5. free # {} /\ free \subseteq Nat
  <2>1. PICK x \in Cache!Handles : ~ (entry[x].refs > 0)
    BY <1>3
  <2>2. x \in free
    BY <2>1, <1>4
  <2> QED
    BY <2>2, CacheConstants
<1>6. \A x \in free : x \in Cache!Handles /\ entry[x].refs = 0
  OBVIOUS
<1> HIDE DEF free
<1>7. PICK h \in free : \A y \in free : h <= y
  BY <1>5, LeastNumber
<1>8. Cache!Min(free) = h
  BY <1>5, <1>7, CacheMin
<1> QED
  BY <1>6, <1>8 DEF free

\* A client inserts the table it opened.
LEMMA OpenAndInsertKeeps ==
  ASSUME CacheInv, NEW c \in Clients, Cache!OpenAndInsert(c)
  PROVE  CacheInv'
<1>1. PICK s, h, file : /\ s = Cache!Shard /\ file = client[c].file
                        /\ h = Cache!Min({x \in Cache!Handles : entry[x].refs = 0})
  OBVIOUS
<1>2. PICK r : r = Cache!Insert(s, h, file)
  OBVIOUS
<1>3. PICK to : to = [pc |-> "read", file |-> file, handle |-> h]
  OBVIOUS
<1>4. client[c].pc = "open" /\ client' = [client EXCEPT ![c] = to] /\ Cache!SetShard(r)
  BY <1>1, <1>2, <1>3 DEF Cache!OpenAndInsert
<1>5. /\ client \in [Clients -> ClientStates] /\ Counted(s, Uses(client)) /\ OneOfEach(s)
      /\ Uses(client) \in Counts
  BY <1>1, UsesAreCounts DEF CacheInv, CacheTyped
<1>6. h \in Cache!Handles /\ s.entry[h].refs = 0
  BY <1>1, <1>4, HandleIsLeft, ShardIs
<1>7. file \in FileNumbers
  BY <1>1, <1>4, <1>5 DEF ClientStates, Cache!Idle
<1>8. to \in ClientStates /\ to.pc = "read" /\ to.file = file /\ to.handle = h
  BY <1>3, <1>6, <1>7 DEF ClientStates
<1>9. client' \in [Clients -> ClientStates] /\ Goes(client, c, to, client')
  BY <1>4, <1>5, <1>8 DEF Goes
<1>10. Uses(client)[h] = 0 /\ ReadersOf(client, h) = {}
  <2>1. Uses(client)[h] \in Nat /\ s.entry[h].refs = IF s.entry[h].in_cache THEN Uses(client)[h] + 1
                                                     ELSE Uses(client)[h]
    BY <1>5, <1>6, CountedFacts
  <2>2. Uses(client)[h] = 0
    BY <2>1, <1>6
  <2> QED
    BY <2>2, <1>6, UsesAreCounts
<1>11. Sets(Uses(client'), Uses(client), h, 1)
  <2>1. Sets(Uses(client'), Uses(client), h, Uses(client)[h] + 1)
    BY <1>4, <1>8, <1>9, TakesHandle
  <2> QED
    BY <2>1, <1>10
<1>12. /\ Counted(r, Uses(client')) /\ OneOfEach(r) /\ KeySet(s, r, h, file)
       /\ r.usage = s.usage \/ r.usage <= capacity_ \/ r.lru = << >>
  BY <1>2, <1>5, <1>6, <1>7, <1>11, InsertKeeps
<1>13. KeysKept(r)
  <2>1. client'[c] = to /\ \A d \in Clients \ {c} : client'[d] = client[d]
    BY <1>4, <1>5
  <2>2. r.entry[h].key = file
    BY <1>12 DEF KeySet
  <2>3. ASSUME NEW d \in Clients \ {c}, client[d].pc = "read"
        PROVE  r.entry[client[d].handle].key = client[d].file
    <3>1. client[d].handle \in Cache!Handles
      BY <1>5, <2>3 DEF ClientStates, Cache!Idle
    <3>2. client[d].handle # h
      BY <1>10, <2>3 DEF ReadersOf, Reads
    <3>3. entry[client[d].handle].key = client[d].file
      BY <2>3 DEF CacheInv, ReadersHaveTheirs
    <3> QED
      BY <3>1, <3>2, <3>3, <1>1, <1>12, ShardIs DEF KeySet
  <2> QED
    BY <2>1, <2>2, <2>3, <1>8 DEF KeysKept
<1>14. UsageKept(r)
  <2>1. CASE r.usage = s.usage
    <3>1. r.usage = usage_ /\ usage_ \in Nat
      BY <2>1, <1>1, <1>5, ShardIs DEF Counted, Shards
    <3> QED
      BY <3>1 DEF UsageKept
  <2>2. CASE r.lru = << >>
    <3> DEFINE busy == {x \in Cache!Handles : Uses(client')[x] > 0}
    <3>1. Cached(r) \subseteq busy
      <4>1. Cache!ToSet(r.lru) = {}
        BY <2>2 DEF Cache!ToSet
      <4>2. Cached(r) \subseteq Cache!Handles /\ \A x \in Cached(r) : Uses(client')[x] # 0
        BY <4>1, <1>12 DEF Cached, Counted
      <4>3. \A x \in Cache!Handles : Uses(client')[x] \in Nat
        BY UsesAreCounts DEF Counts
      <4> QED
        BY <4>2, <4>3
    <3>2. /\ IsFiniteSet(busy) /\ Cardinality(busy) \in Nat
          /\ Cardinality(busy) <= Cardinality(Clients)
      <4>1. PICK opening \in Nat : Cardinality(busy) + opening <= Cardinality(Clients)
        BY <1>9, HandlesInUse
      <4>2. IsFiniteSet(busy) /\ Cardinality(busy) \in Nat
        BY <1>9, HandlesInUse
      <4> QED
        BY <4>1, <4>2, CacheConstants
    <3> HIDE DEF busy
    <3>3. Cardinality(Cached(r)) <= Cardinality(busy) /\ Cardinality(Cached(r)) \in Nat
      BY <3>1, <3>2, FS_Subset, FS_CardinalityType
    <3>4. r.usage = Cardinality(Cached(r))
      BY <1>12 DEF Counted
    <3> QED
      BY <3>2, <3>3, <3>4, CacheConstants DEF UsageKept
  <2> QED
    BY <2>1, <2>2, <1>12 DEF UsageKept
<1> QED
  BY <1>4, <1>9, <1>12, <1>13, <1>14, CacheGoes

\* Evict and Prune take handles from the cache, and none from a client.
LEMMA ShrinkKeeps ==
  ASSUME CacheInv, UNCHANGED client, NEW r, Cache!SetShard(r), Counted(r, Uses(client)),
         Shrinks(Cache!Shard, r)
  PROVE  CacheInv'
<1>1. PICK s : s = Cache!Shard
  OBVIOUS
<1>2. /\ client \in [Clients -> ClientStates] /\ Counted(s, Uses(client)) /\ OneOfEach(s)
      /\ client' = client
  BY <1>1 DEF CacheInv, CacheTyped
<1>3. OneOfEach(r)
  BY <1>1, <1>2, ShrinksKeepsOne
<1>4. KeysKept(r)
  <2>1. ASSUME NEW d \in Clients, client[d].pc = "read"
        PROVE  r.entry[client[d].handle].key = client[d].file
    <3>1. client[d].handle \in Cache!Handles
      BY <1>2, <2>1 DEF ClientStates, Cache!Idle
    <3>2. entry[client[d].handle].key = client[d].file
      BY <2>1 DEF CacheInv, ReadersHaveTheirs
    <3> QED
      BY <3>1, <3>2, ShardIs DEF Shrinks, SameKeys
  <2> QED
    BY <2>1, <1>2 DEF KeysKept
<1>5. UsageKept(r)
  <2>1. r.usage = Cardinality(Cached(r)) /\ usage_ = Cardinality(Cached(s))
    BY <1>1, <1>2, ShardIs DEF Counted
  <2>2. Cardinality(Cached(r)) <= Cardinality(Cached(s))
    BY <1>1, CachedIsFinite, FS_Subset DEF Shrinks
  <2> QED
    BY <2>1, <2>2 DEF UsageKept
<1> QED
  BY <1>2, <1>3, <1>4, <1>5, CacheGoes

\* Every step of the cache keeps the invariant.
LEMMA CacheStep == CacheInv /\ [Cache!Next]_(Cache!vars) => CacheInv'
<1> SUFFICES ASSUME CacheInv, [Cache!Next]_(Cache!vars) PROVE CacheInv'
  OBVIOUS
<1>1. CASE UNCHANGED Cache!vars
  <2>1. UNCHANGED client /\ Cache!SetShard(Cache!Shard) /\ Shrinks(Cache!Shard, Cache!Shard)
    BY <1>1, ShardIs DEF Cache!vars, Cache!SetShard, Shrinks, SameKeys
  <2>2. Counted(Cache!Shard, Uses(client))
    BY DEF CacheInv, CacheTyped
  <2> QED
    BY <2>1, <2>2, ShrinkKeeps
<1>2. ASSUME NEW c \in Clients, NEW file \in FileNumbers, Cache!FindMissing(c, file)
      PROVE  CacheInv'
  <2>1. PICK to : to = [pc |-> "open", file |-> file]
    OBVIOUS
  <2>2. to \in ClientStates /\ to.pc # "read" /\ client[c].pc # "read"
    BY <1>2, <2>1 DEF ClientStates, Cache!FindMissing, Cache!Idle
  <2> QED
    BY <1>2, <2>1, <2>2, SearchKeepsCache DEF Cache!FindMissing
<1>3. ASSUME NEW c \in Clients, Cache!OpenFails(c) PROVE CacheInv'
  <2>1. Cache!Idle \in ClientStates /\ Cache!Idle.pc # "read" /\ client[c].pc # "read"
    BY <1>3 DEF ClientStates, Cache!OpenFails, Cache!Idle
  <2> QED
    BY <1>3, <2>1, SearchKeepsCache DEF Cache!OpenFails
<1>4. ASSUME NEW file \in FileNumbers, Cache!Evict(file) PROVE CacheInv'
  <2>1. PICK s, h, r : /\ s = Cache!Shard /\ h = Cache!TableLookup(Cache!Shard, file)
                       /\ r = Cache!FinishErase(Cache!Shard, h)
    OBVIOUS
  <2>2. h \in Cached(s)
    BY <1>4, <2>1, LookupIs DEF Cache!Evict
  <2>3. Counted(s, Uses(client)) /\ Uses(client) \in Counts
    BY <2>1, UsesAreCounts DEF CacheInv, CacheTyped
  <2>4. Counted(r, Uses(client)) /\ Cached(r) = Cached(s) \ {h} /\ SameKeys(s, r)
    BY <2>1, <2>2, <2>3, EraseKeeps
  <2>5. Shrinks(s, r)
    BY <2>4 DEF Shrinks
  <2>6. Cache!SetShard(r) /\ UNCHANGED client
    BY <1>4, <2>1 DEF Cache!Evict
  <2> QED
    BY <2>1, <2>4, <2>5, <2>6, ShrinkKeeps
<1>5. CASE Cache!Prune
  <2>1. PICK s, r : s = Cache!Shard /\ r = Cache!EvictTo(Cache!Shard, 0)
    OBVIOUS
  <2>2. Counted(s, Uses(client)) /\ OneOfEach(s) /\ Uses(client) \in Counts
    BY <2>1, UsesAreCounts DEF CacheInv, CacheTyped
  <2>3. Counted(r, Uses(client)) /\ Shrinks(s, r)
    BY <2>1, <2>2, EvictToKeeps
  <2>4. Cache!SetShard(r) /\ UNCHANGED client
    BY <1>5, <2>1 DEF Cache!Prune
  <2> QED
    BY <2>1, <2>3, <2>4, ShrinkKeeps
<1> QED
  BY <1>1, <1>2, <1>3, <1>4, <1>5, FindCachedKeeps, OpenAndInsertKeeps, ReleaseKeeps DEF Cache!Next

\* The invariant holds in every behaviour.
LEMMA CacheAlways == Spec => []CacheInv
<1>1. Init => CacheInv
  BY CacheStarts DEF Init
<1>2. CacheInv /\ [Next]_vars => CacheInv'
  <2>1. [Next]_vars => [Cache!Next]_(Cache!vars)
    BY DEF Next, vars, cacheVars, Cache!vars
  <2> QED
    BY <2>1, CacheStep
<1> QED
  BY <1>1, <1>2, PTL DEF Spec

\* LRUCache: the references of every handle are those of its clients and that of
\* the cache, whichever of them insert, release, evict or prune, so that a table
\* is closed once, when nobody can read it.
THEOREM HandlesAreCountedAlways ==
  Spec => []HandlesAreCounted
<1>1. CacheInv => HandlesAreCounted
  BY CacheHolds DEF HandlesAreCounted
<1> QED
  BY <1>1, CacheAlways, PTL

\* TableCache: the tables that are open never exceed the capacity, or the number
\* of clients where that is more, by more than the clients that read or open one.
THEOREM OpenTablesAreBounded ==
  Spec => []OpenTablesBounded
<1>1. CacheInv => OpenTablesBounded
  BY CacheHolds DEF OpenTablesBounded
<1> QED
  BY <1>1, CacheAlways, PTL
-----------------------------------------------------------------------------
(* Repair *)

\* A finite set of numbers has a bound.
LEMMA FiniteIsBounded ==
  ASSUME NEW S, S \subseteq Nat, IsFiniteSet(S)
  PROVE  \E b \in Nat : S \subseteq 0..b
<1>0. PICK n \in Nat : \E f \in Surjection(1..n, S) : TRUE
  BY FS_NatSurjection DEF ExistsSurjection
<1>1. PICK f \in Surjection(1..n, S) : TRUE
  BY <1>0
<1>2. (\A i \in 1..n : f[i] \in Nat) /\ \A x \in S : \E i \in 1..n : f[i] = x
  BY DEF Surjection
<1> DEFINE below(k) == \E b \in Nat : \A i \in 1..k : f[i] <= b
           bad == {k \in 0..n : ~ below(k)}
<1>3. below(0)
  OBVIOUS
<1>4. ASSUME NEW k \in 1..n, below(k - 1) PROVE below(k)
  <2>1. PICK b \in Nat : \A i \in 1..(k - 1) : f[i] <= b
    BY <1>4
  <2>2. f[k] \in Nat /\ \A i \in 1..k : f[i] \in Nat
    BY <1>2
  <2>3. PICK d \in Nat : b <= d /\ f[k] <= d
    <3>1. CASE b <= f[k]
      BY <2>2, <3>1
    <3>2. CASE ~ (b <= f[k])
      BY <2>2, <3>2
    <3> QED
      BY <3>1, <3>2
  <2>4. \A i \in 1..k : f[i] <= d
    BY <2>1, <2>2, <2>3
  <2> QED
    BY <2>4
<1> HIDE DEF below
<1>5. below(n)
  <2> SUFFICES ASSUME bad # {} PROVE FALSE
    OBVIOUS
  <2>1. PICK k \in bad : \A j \in bad : k <= j
    BY LeastNumber, bad \subseteq Nat
  <2>2. k \in 1..n /\ ~ below(k)
    BY <1>3
  <2>3. below(k - 1)
    BY <2>1, <2>2
  <2> QED
    BY <1>4, <2>2, <2>3
<1>6. PICK b \in Nat : \A i \in 1..n : f[i] <= b
  BY <1>5 DEF below
<1>7. \A x \in S : x \in 0..b
  BY <1>2, <1>6
<1> QED
  BY <1>7

LEMMA RepairNumbers ==
  \E b \in Nat : Sequences_ \union TableNumbers \union LogNumbers \subseteq 0..b
<1>1. \A S \in {Sequences_, TableNumbers, LogNumbers} : S \subseteq Nat /\ IsFiniteSet(S)
  <2>1. \A S : Repairs!IsFiniteSet(S) <=> IsFiniteSet(S)
    BY DEF Repairs!IsFiniteSet, IsFiniteSet
  <2> QED
    BY <2>1, LibrariesAssumption DEF Repairs!RepairAssumption
<1>2. Sequences_ \union TableNumbers \union LogNumbers \subseteq Nat
  BY <1>1
<1>3. IsFiniteSet(Sequences_ \union TableNumbers \union LogNumbers)
  BY <1>1, FS_Union
<1> QED
  BY <1>2, <1>3, FiniteIsBounded

\* Max of numbers that are bounded.
LEMMA Highest ==
  ASSUME NEW S, NEW b \in Nat, S \subseteq 0..b, S # {}
  PROVE  Repairs!Max(S) \in S /\ \A y \in S : y <= Repairs!Max(S)
<1>1. \E x \in S : \A y \in S : y <= x
  BY GreatestNumber
<1>2. \E x \in S : \A y \in S : x >= y
  BY <1>1
<1> QED
  BY <1>2 DEF Repairs!Max

\* A file is taken away.
LEMMA WithoutEffect ==
  ASSUME NEW name, NEW new, new = Repairs!Without(name)
  PROVE  /\ DOMAIN new = DOMAIN dir \ {name}
         /\ \A x \in DOMAIN dir \ {name} : new[x] = dir[x]
BY DEF Repairs!Without, Repairs!Restrict

\* The files there are, and what is held where.
InDir(name)  == name \in DOMAIN dir
InLost(name) == name \in DOMAIN lost
Copying == step \in {"archive_table", "finish_copy", "rename_copy"}
Begun   == step # "start"

RecordsOk ==
  /\ DOMAIN repairer = {"logs", "manifests", "table_numbers", "tables", "next_file_number",
                        "at", "copy"}
  /\ DOMAIN past = {"bad", "crashes", "faults"}

\* Names are pairs of a kind and a number; only tables and logs have entries.
NamesOk ==
  /\ \A f \in DOMAIN dir \union DOMAIN lost :
       f = <<f[1], f[2]>> /\ f[1] \in {"table", "log", "manifest", "temp"}
  /\ \A f \in DOMAIN dir : f[1] = "temp" => f[2] = 1
  /\ \A f \in DOMAIN dir : /\ dir[f].entries \subseteq Sequences_
                           /\ f[1] \notin {"table", "log"} => dir[f].entries = {}
  /\ \A f \in DOMAIN lost : /\ lost[f].entries \subseteq Sequences_
                            /\ f[1] \notin {"table", "log"} => lost[f].entries = {}
  /\ \E b \in Nat : \A n : InDir(Repairs!Table(n)) \/ InDir(Repairs!Log(n)) => n \in 0..b

\* New files get numbers that no table or log has.
NumbersOk ==
  Begun => /\ repairer.next_file_number \in Nat
           /\ \A n : InDir(Repairs!Table(n)) \/ InDir(Repairs!Log(n)) => n < repairer.next_file_number

\* Nothing in lost/ is overwritten: a file still to be put away is not there, and the
\* numbers of tables that are there are never given again.
LostOk ==
  /\ \A n : InDir(Repairs!Log(n)) => ~ InLost(Repairs!Log(n))
  /\ \A n : InDir(Repairs!Table(n)) /\ ~ dir[Repairs!Table(n)].ok => ~ InLost(Repairs!Table(n))
  /\ \A m : InLost(Repairs!Table(m)) =>
       /\ m \in Nat
       /\ \/ \E q \in Nat : /\ InDir(Repairs!Table(q)) /\ m <= q
                            /\ Copying => q # repairer.copy
          \/ step \in {"finish_copy", "rename_copy"} /\ m <= repairer.at

\* What the repairer knows is so.
KnownOk ==
  Begun =>
    /\ \A n \in repairer.logs : InDir(Repairs!Log(n))
    /\ \A n \in repairer.manifests : InDir(Repairs!Manifest(n))
    /\ \A n \in repairer.table_numbers : InDir(Repairs!Table(n))
    /\ \A t \in repairer.tables :
         /\ InDir(Repairs!Table(t.number)) /\ dir[Repairs!Table(t.number)].ok
         /\ t.max_sequence \in Sequences_ \union {0}
         /\ \A s \in dir[Repairs!Table(t.number)].entries : s <= t.max_sequence
    /\ step = "archive_log" => repairer.at \in repairer.logs
    /\ step \notin {"logs", "archive_log"} => repairer.logs = {}
    /\ step \in {"manifests", "current", "done"} => repairer.table_numbers = {}

\* The copy of a table that does not read to the end.
CopyOk ==
  Copying =>
    /\ repairer.at \in Nat /\ repairer.copy \in Nat /\ repairer.at < repairer.copy
    /\ repairer.at \notin repairer.table_numbers /\ repairer.copy \notin repairer.table_numbers
    /\ \A t \in repairer.tables : t.number # repairer.copy
    /\ InDir(Repairs!Table(repairer.copy))
    /\ step = "archive_table" => /\ InDir(Repairs!Table(repairer.at))
                                 /\ ~ dir[Repairs!Table(repairer.at)].ok
    /\ step # "archive_table" => /\ ~ InDir(Repairs!Table(repairer.at))
                                 /\ InLost(Repairs!Table(repairer.at))
    /\ step # "rename_copy" => /\ ~ dir[Repairs!Table(repairer.copy)].ok
                               /\ dir[Repairs!Table(repairer.copy)].entries = {}
    /\ step = "rename_copy" => dir[Repairs!Table(repairer.copy)].ok

Describes(d) ==
  /\ d.tables = {t.number : t \in repairer.tables}
  /\ d.next_file = repairer.next_file_number
  /\ d.last_sequence \in Nat /\ \A t \in repairer.tables : t.max_sequence <= d.last_sequence

DescriptorOk ==
  /\ step = "manifests" => InDir(Repairs!Temp) /\ Describes(dir[Repairs!Temp])
  /\ step \in {"current", "done"} =>
       InDir(Repairs!Manifest(1)) /\ Describes(dir[Repairs!Manifest(1)])
  /\ step = "done" => current = 1

\* Where an entry is that this run, or the next, will find.
Held(s) ==
  \/ ~ Begun /\ \E n : InDir(Repairs!Table(n)) /\ s \in dir[Repairs!Table(n)].entries
  \/ ~ Begun /\ \E n : InDir(Repairs!Log(n)) /\ s \in dir[Repairs!Log(n)].entries
  \/ Begun /\ \E n \in repairer.logs : /\ s \in dir[Repairs!Log(n)].entries
                                       /\ step = "archive_log" => n # repairer.at
  \/ Begun /\ \E n \in repairer.table_numbers : s \in dir[Repairs!Table(n)].entries
  \/ Begun /\ \E t \in repairer.tables : s \in dir[Repairs!Table(t.number)].entries
  \/ step = "archive_table" /\ s \in dir[Repairs!Table(repairer.at)].entries
  \/ step = "finish_copy" /\ s \in lost[Repairs!Table(repairer.at)].entries
  \/ step = "rename_copy" /\ s \in dir[Repairs!Table(repairer.copy)].entries

\* If nothing failed, and no copy was interrupted, this is so of every entry.
HeldOk ==
  /\ past.crashes \in Nat /\ past.faults \in Nat
  /\ past.bad = {} => ~ Copying /\ \A n : InDir(Repairs!Table(n)) => dir[Repairs!Table(n)].ok
  /\ past.faults = 0 /\ (past.crashes = 0 \/ past.bad = {}) => \A s \in Sequences_ : Held(s)

RepairInv ==
  /\ RecordsOk /\ NamesOk /\ NumbersOk /\ LostOk /\ KnownOk /\ CopyOk /\ DescriptorOk /\ HeldOk
  /\ Repairs!NothingDestroyed

\* Names of two kinds, or of two numbers, are different.
LEMMA NamesDiffer ==
  /\ \A m, n : Repairs!Table(m) = Repairs!Table(n) => m = n
  /\ \A m, n : Repairs!Log(m) = Repairs!Log(n) => m = n
  /\ \A m, n : Repairs!Manifest(m) = Repairs!Manifest(n) => m = n
  /\ \A m, n : /\ Repairs!Table(m) # Repairs!Log(n)
               /\ Repairs!Table(m) # Repairs!Manifest(n)
               /\ Repairs!Log(m) # Repairs!Manifest(n)
  /\ \A n : /\ Repairs!Table(n) # Repairs!Temp /\ Repairs!Log(n) # Repairs!Temp
            /\ Repairs!Manifest(n) # Repairs!Temp
            /\ Repairs!Table(n) = <<Repairs!Table(n)[1], Repairs!Table(n)[2]>>
            /\ Repairs!Table(n)[1] = "table" /\ Repairs!Log(n)[1] = "log"
            /\ Repairs!Manifest(n) = <<Repairs!Manifest(n)[1], Repairs!Manifest(n)[2]>>
            /\ Repairs!Manifest(n)[1] = "manifest"
  /\ Repairs!Temp = <<Repairs!Temp[1], Repairs!Temp[2]>>
  /\ Repairs!Temp[1] = "temp" /\ Repairs!Temp[2] = 1
BY DEF Repairs!Table, Repairs!Log, Repairs!Manifest, Repairs!Temp

\* Numbers are those of the names of their kind.
LEMMA NumbersAre ==
  ASSUME NamesOk
  PROVE  /\ \A n : n \in Repairs!Numbers("table") <=> InDir(Repairs!Table(n))
         /\ \A n : n \in Repairs!Numbers("log") <=> InDir(Repairs!Log(n))
         /\ \A n : n \in Repairs!Numbers("manifest") <=> InDir(Repairs!Manifest(n))
         /\ \A n \in Repairs!Numbers("temp") : n = 1
<1>1. ASSUME NEW kind, NEW n
      PROVE  n \in Repairs!Numbers(kind) <=> <<kind, n>> \in DOMAIN dir
  <2>1. ASSUME n \in Repairs!Numbers(kind) PROVE <<kind, n>> \in DOMAIN dir
    <3>1. PICK f \in {g \in DOMAIN dir : g[1] = kind} : n = f[2]
      BY <2>1 DEF Repairs!Numbers
    <3>2. f = <<kind, n>>
      BY <3>1 DEF NamesOk
    <3> QED
      BY <3>2
  <2>2. ASSUME <<kind, n>> \in DOMAIN dir PROVE n \in Repairs!Numbers(kind)
    <3>1. PICK f : f = <<kind, n>>
      OBVIOUS
    <3>2. f \in {g \in DOMAIN dir : g[1] = kind} /\ f[2] = n
      BY <2>2, <3>1
    <3> QED
      BY <3>2 DEF Repairs!Numbers
  <2> QED
    BY <2>1, <2>2
<1>2. \A n \in Repairs!Numbers("temp") : n = 1
  <2> TAKE n \in Repairs!Numbers("temp")
  <2>1. PICK f : f = <<"temp", n>>
    OBVIOUS
  <2>2. f \in DOMAIN dir /\ f[1] = "temp" /\ f[2] = n
    BY <1>1, <2>1
  <2> QED
    BY <2>2 DEF NamesOk
<1> QED
  BY <1>1, <1>2 DEF InDir, Repairs!Table, Repairs!Log, Repairs!Manifest

\* The number FindFiles begins with is above those of all tables and logs.
LEMMA NextNumberIsNew ==
  ASSUME NamesOk
  PROVE  /\ Repairs!NextNumber \in Nat
         /\ \A n : InDir(Repairs!Table(n)) \/ InDir(Repairs!Log(n)) => n < Repairs!NextNumber
<1> DEFINE S == {0} \union Repairs!Numbers("table") \union Repairs!Numbers("log")
                \union Repairs!Numbers("temp")
<1>1. PICK b \in Nat : \A n : InDir(Repairs!Table(n)) \/ InDir(Repairs!Log(n)) => n \in 0..b
  BY DEF NamesOk
<1>2. S \subseteq 0..(b + 1) /\ 0 \in S
  BY <1>1, NumbersAre
<1>3. \A n : InDir(Repairs!Table(n)) \/ InDir(Repairs!Log(n)) => n \in S
  BY NumbersAre
<1>4. Repairs!NextNumber = Repairs!Max(S) + 1
  BY DEF Repairs!NextNumber
<1> HIDE DEF S
<1>5. PICK m : m = Repairs!Max(S)
  OBVIOUS
<1>6. m \in S /\ \A y \in S : y <= m
  BY <1>2, <1>5, Highest, b + 1 \in Nat
<1>7. m \in Nat /\ \A y \in S : y \in Nat /\ y < m + 1
  BY <1>2, <1>6
<1> QED
  BY <1>3, <1>4, <1>5, <1>7

\* Of the entries there are, the highest is a number.
LEMMA HighestSequence ==
  ASSUME NEW S, S \subseteq Sequences_, NEW high, high = Repairs!Max({0} \union S)
  PROVE  high \in Sequences_ \union {0} /\ high \in Nat /\ \A s \in S : s <= high
<1>1. PICK b \in Nat : Sequences_ \subseteq 0..b
  BY RepairNumbers
<1>2. PICK D : D = {0} \union S
  OBVIOUS
<1>3. D \subseteq 0..b /\ D # {}
  BY <1>1, <1>2
<1>4. high = Repairs!Max(D)
  BY <1>2
<1>5. high \in D /\ \A s \in D : s <= high
  BY <1>3, <1>4, Highest
<1> QED
  BY <1>1, <1>2, <1>5

\* What of RepairInv is about the files alone is kept by steps that leave them.
LEMMA SameDirectory ==
  ASSUME RepairInv, dir' = dir, lost' = lost
  PROVE  NamesOk' /\ Repairs!NothingDestroyed'
         /\ \A f : InDir(f)' = InDir(f) /\ InLost(f)' = InLost(f)
BY DEF RepairInv, NamesOk, Repairs!NothingDestroyed, InDir, InLost

\* Every action keeps RepairInv.
LEMMA FindFilesKeeps ==
  ASSUME RepairInv, Repairs!FindFiles
  PROVE  RepairInv'
<1>1. /\ dir' = dir /\ lost' = lost /\ current' = current /\ past' = past
      /\ step = "start" /\ step' = "logs"
      /\ repairer' = [Repairs!Fresh EXCEPT !.logs = Repairs!Numbers("log"),
                        !.manifests = Repairs!Numbers("manifest"),
                        !.table_numbers = Repairs!Numbers("table"),
                        !.next_file_number = Repairs!NextNumber]
  BY DEF Repairs!FindFiles
<1>2. /\ repairer'.logs = Repairs!Numbers("log")
      /\ repairer'.manifests = Repairs!Numbers("manifest")
      /\ repairer'.table_numbers = Repairs!Numbers("table") /\ repairer'.tables = {}
      /\ repairer'.next_file_number = Repairs!NextNumber /\ RecordsOk'
  BY <1>1 DEF Repairs!Fresh, RecordsOk, RepairInv
<1>3. /\ NamesOk' /\ Repairs!NothingDestroyed' /\ NamesOk
      /\ \A f : InDir(f)' = InDir(f) /\ InLost(f)' = InLost(f)
  BY <1>1, SameDirectory DEF RepairInv
<1>4. NumbersOk'
  BY <1>2, <1>3, NextNumberIsNew DEF NumbersOk
<1>5. LostOk'
  BY <1>1, <1>3 DEF LostOk, RepairInv, Copying
<1>6. KnownOk'
  BY <1>1, <1>2, <1>3, NumbersAre DEF KnownOk
<1>7. CopyOk' /\ DescriptorOk'
  BY <1>1 DEF CopyOk, Copying, DescriptorOk
<1>8. HeldOk'
  <2>1. ASSUME NEW s \in Sequences_, Held(s) PROVE Held(s)'
    BY <1>1, <1>2, <1>3, <2>1, NumbersAre DEF Held, Begun
  <2> QED
    BY <1>1, <1>3, <2>1 DEF HeldOk, RepairInv, Copying
<1> QED
  BY <1>2, <1>3, <1>4, <1>5, <1>6, <1>7, <1>8 DEF RepairInv

LEMMA ConversionFailsKeeps ==
  ASSUME RepairInv, NEW n, Repairs!ConversionFails(n)
  PROVE  RepairInv'
<1>1. /\ dir' = dir /\ lost' = lost /\ current' = current
      /\ step = "logs" /\ step' = "archive_log" /\ n \in repairer.logs
      /\ repairer' = [repairer EXCEPT !.next_file_number = @ + 1, !.at = n]
      /\ past' = [past EXCEPT !.faults = @ + 1]
  BY DEF Repairs!ConversionFails
<1>2. /\ repairer'.next_file_number = repairer.next_file_number + 1 /\ repairer'.at = n
      /\ repairer'.logs = repairer.logs /\ repairer'.manifests = repairer.manifests
      /\ repairer'.table_numbers = repairer.table_numbers /\ repairer'.tables = repairer.tables
      /\ past'.bad = past.bad /\ past'.crashes = past.crashes
      /\ past'.faults = past.faults + 1 /\ RecordsOk'
  BY <1>1 DEF RepairInv, RecordsOk
<1>3. /\ NamesOk' /\ Repairs!NothingDestroyed' /\ NamesOk
      /\ \A f : InDir(f)' = InDir(f) /\ InLost(f)' = InLost(f)
  BY <1>1, SameDirectory DEF RepairInv
<1>4. NumbersOk'
  <2>1. repairer.next_file_number \in Nat
        /\ \A m : InDir(Repairs!Table(m)) \/ InDir(Repairs!Log(m)) =>
             m < repairer.next_file_number /\ m \in Nat
    BY <1>1 DEF RepairInv, NumbersOk, Begun, NamesOk
  <2> QED
    BY <1>2, <1>3, <2>1 DEF NumbersOk
<1>5. LostOk'
  BY <1>1, <1>3 DEF LostOk, RepairInv, Copying
<1>6. KnownOk'
  BY <1>1, <1>2, <1>3 DEF KnownOk, RepairInv, Begun
<1>7. CopyOk' /\ DescriptorOk'
  BY <1>1 DEF CopyOk, Copying, DescriptorOk
<1>8. HeldOk'
  BY <1>1, <1>2, <1>3 DEF HeldOk, RepairInv, Copying
<1> QED
  BY <1>2, <1>3, <1>4, <1>5, <1>6, <1>7, <1>8 DEF RepairInv

LEMMA LogsAreDoneKeeps ==
  ASSUME RepairInv, Repairs!LogsAreDone
  PROVE  RepairInv'
<1>1. /\ dir' = dir /\ lost' = lost /\ current' = current /\ repairer' = repairer /\ past' = past
      /\ step = "logs" /\ step' = "scan" /\ repairer.logs = {}
  BY DEF Repairs!LogsAreDone
<1>3. /\ NamesOk' /\ Repairs!NothingDestroyed' /\ NamesOk
      /\ \A f : InDir(f)' = InDir(f) /\ InLost(f)' = InLost(f)
  BY <1>1, SameDirectory DEF RepairInv
<1>4. NumbersOk' /\ RecordsOk'
  BY <1>1, <1>3 DEF RepairInv, NumbersOk, Begun, RecordsOk
<1>5. LostOk'
  BY <1>1, <1>3 DEF LostOk, RepairInv, Copying
<1>6. KnownOk'
  BY <1>1, <1>3 DEF KnownOk, RepairInv, Begun
<1>7. CopyOk' /\ DescriptorOk'
  BY <1>1 DEF CopyOk, Copying, DescriptorOk
<1>8. HeldOk'
  <2>1. ASSUME NEW s \in Sequences_, Held(s) PROVE Held(s)'
    BY <1>1, <1>3, <2>1 DEF Held, Begun
  <2> QED
    BY <1>1, <1>3, <2>1 DEF HeldOk, RepairInv, Copying
<1> QED
  BY <1>3, <1>4, <1>5, <1>6, <1>7, <1>8 DEF RepairInv

LEMMA ScanTableKeeps ==
  ASSUME RepairInv, NEW n, Repairs!ScanTable(n)
  PROVE  RepairInv'
<1>1. PICK t : t = Repairs!Info(n, dir[Repairs!Table(n)].entries)
  OBVIOUS
<1>2. /\ dir' = dir /\ lost' = lost /\ current' = current /\ past' = past
      /\ step = "scan" /\ step' = step
      /\ n \in repairer.table_numbers /\ dir[Repairs!Table(n)].ok
      /\ repairer' = [repairer EXCEPT !.table_numbers = @ \ {n}, !.tables = @ \union {t}]
  BY <1>1 DEF Repairs!ScanTable
<1>3. /\ repairer'.next_file_number = repairer.next_file_number
      /\ repairer'.logs = repairer.logs /\ repairer'.manifests = repairer.manifests
      /\ repairer'.table_numbers = repairer.table_numbers \ {n}
      /\ repairer'.tables = repairer.tables \union {t} /\ RecordsOk'
  BY <1>2 DEF RepairInv, RecordsOk
<1>4. /\ NamesOk' /\ Repairs!NothingDestroyed' /\ NamesOk
      /\ \A f : InDir(f)' = InDir(f) /\ InLost(f)' = InLost(f)
  BY <1>2, SameDirectory DEF RepairInv
<1>5. InDir(Repairs!Table(n))
  BY <1>2 DEF RepairInv, KnownOk, Begun
<1>6. /\ t.number = n /\ t.max_sequence \in Sequences_ \union {0}
      /\ \A s \in dir[Repairs!Table(n)].entries : s <= t.max_sequence
  <2>1. dir[Repairs!Table(n)].entries \subseteq Sequences_
    BY <1>4, <1>5 DEF NamesOk, InDir
  <2> QED
    BY <1>1, <2>1, HighestSequence DEF Repairs!Info
<1>7. NumbersOk'
  BY <1>2, <1>3, <1>4 DEF RepairInv, NumbersOk, Begun
<1>8. LostOk'
  BY <1>2, <1>4 DEF LostOk, RepairInv, Copying
<1>9. KnownOk'
  BY <1>2, <1>3, <1>4, <1>5, <1>6 DEF KnownOk, RepairInv, Begun
<1>10. CopyOk' /\ DescriptorOk'
  BY <1>2 DEF CopyOk, Copying, DescriptorOk
<1>11. HeldOk'
  <2>1. ASSUME NEW s \in Sequences_, Held(s) PROVE Held(s)'
    BY <1>2, <1>3, <1>4, <1>6, <2>1 DEF Held, Begun
  <2> QED
    BY <1>2, <1>4, <2>1 DEF HeldOk, RepairInv, Copying
<1> QED
  BY <1>3, <1>4, <1>7, <1>8, <1>9, <1>10, <1>11 DEF RepairInv

LEMMA SetCurrentFileKeeps ==
  ASSUME RepairInv, Repairs!SetCurrentFile
  PROVE  RepairInv'
<1>1. /\ dir' = dir /\ lost' = lost /\ repairer' = repairer /\ past' = past
      /\ step = "current" /\ step' = "done" /\ current' = 1
  BY DEF Repairs!SetCurrentFile
<1>3. /\ NamesOk' /\ Repairs!NothingDestroyed' /\ NamesOk
      /\ \A f : InDir(f)' = InDir(f) /\ InLost(f)' = InLost(f)
  BY <1>1, SameDirectory DEF RepairInv
<1>4. NumbersOk' /\ RecordsOk'
  BY <1>1, <1>3 DEF RepairInv, NumbersOk, Begun, RecordsOk
<1>5. LostOk'
  BY <1>1, <1>3 DEF LostOk, RepairInv, Copying
<1>6. KnownOk'
  BY <1>1, <1>3 DEF KnownOk, RepairInv, Begun
<1>7. CopyOk' /\ DescriptorOk'
  BY <1>1, <1>3 DEF CopyOk, Copying, DescriptorOk, Describes, RepairInv
<1>8. HeldOk'
  <2>1. ASSUME NEW s \in Sequences_, Held(s) PROVE Held(s)'
    BY <1>1, <1>3, <2>1 DEF Held, Begun
  <2> QED
    BY <1>1, <1>3, <2>1 DEF HeldOk, RepairInv, Copying
<1> QED
  BY <1>3, <1>4, <1>5, <1>6, <1>7, <1>8 DEF RepairInv

LEMMA RepairCrashKeeps ==
  ASSUME RepairInv, Repairs!Crash
  PROVE  RepairInv'
<1>1. /\ dir' = dir /\ lost' = lost /\ current' = current
      /\ step' = "start" /\ repairer' = Repairs!Fresh
      /\ past' = [past EXCEPT !.crashes = @ + 1]
  BY DEF Repairs!Crash
<1>2. /\ past'.bad = past.bad /\ past'.crashes = past.crashes + 1
      /\ past'.faults = past.faults /\ RecordsOk'
  BY <1>1 DEF RepairInv, RecordsOk, Repairs!Fresh
<1>3. /\ NamesOk' /\ Repairs!NothingDestroyed' /\ NamesOk
      /\ \A f : InDir(f)' = InDir(f) /\ InLost(f)' = InLost(f)
  BY <1>1, SameDirectory DEF RepairInv
<1>4. NumbersOk' /\ KnownOk' /\ CopyOk' /\ DescriptorOk'
  BY <1>1 DEF NumbersOk, KnownOk, Begun, CopyOk, Copying, DescriptorOk
<1>5. LostOk'
  <2>1. ASSUME NEW m, InLost(Repairs!Table(m))
        PROVE  m \in Nat /\ \E q \in Nat : InDir(Repairs!Table(q)) /\ m <= q
    <3>1. CASE step \in {"finish_copy", "rename_copy"} /\ m <= repairer.at
      <4>1. /\ InDir(Repairs!Table(repairer.copy)) /\ m \in Nat
            /\ repairer.at \in Nat /\ repairer.copy \in Nat /\ repairer.at < repairer.copy
        BY <2>1, <3>1 DEF RepairInv, CopyOk, Copying, LostOk
      <4>2. m <= repairer.copy
        BY <3>1, <4>1
      <4> QED
        BY <4>1, <4>2
    <3> QED
      BY <2>1, <3>1 DEF RepairInv, LostOk
  <2> QED
    BY <1>1, <1>3, <2>1 DEF LostOk, RepairInv, Copying
<1>6. HeldOk'
  <2>1. past.crashes \in Nat /\ past.faults \in Nat
    BY DEF RepairInv, HeldOk
  <2>2. ASSUME past.faults = 0, past.bad = {}, NEW s \in Sequences_ PROVE Held(s)'
    <3>1. Held(s) /\ ~ Copying /\ KnownOk
      BY <2>2 DEF RepairInv, HeldOk
    <3> QED
      BY <1>1, <1>3, <3>1 DEF Held, Begun, Copying, KnownOk
  <2>3. past'.crashes \in Nat /\ past'.crashes # 0
    BY <1>2, <2>1
  <2> QED
    BY <1>1, <1>2, <1>3, <2>1, <2>2, <2>3 DEF HeldOk, RepairInv, Copying
<1> QED
  BY <1>2, <1>3, <1>4, <1>5, <1>6 DEF RepairInv

\* A file is put in the directory.
LEMMA PutInDirectory ==
  ASSUME NEW f, NEW content, dir' = Repairs!Put(dir, f, content)
  PROVE  /\ DOMAIN dir' = DOMAIN dir \union {f} /\ dir'[f] = content
         /\ \A x \in DOMAIN dir : x # f => dir'[x] = dir[x]
         /\ \A x : InDir(x)' <=> InDir(x) \/ x = f
<1>1. PICK new : new = dir'
  OBVIOUS
<1>2. /\ DOMAIN new = DOMAIN dir \union {f} /\ new[f] = content
      /\ \A x \in DOMAIN dir : x # f => new[x] = dir[x]
  <2>1. new = Repairs!Put(dir, f, content)
    BY <1>1
  <2> QED
    BY <2>1 DEF Repairs!Put
<1> QED
  BY <1>1, <1>2 DEF InDir

LEMMA ConvertLogToTableKeeps ==
  ASSUME RepairInv, NEW n, Repairs!ConvertLogToTable(n)
  PROVE  RepairInv'
<1>1. /\ lost' = lost /\ current' = current /\ past' = past
      /\ step = "logs" /\ step' = "archive_log" /\ n \in repairer.logs
  BY DEF Repairs!ConvertLogToTable
<1>2. PICK number, entries :
        number = repairer.next_file_number /\ entries = dir[Repairs!Log(n)].entries
  OBVIOUS
<1>3. \/ entries = {} /\ dir' = dir
         /\ repairer' = [repairer EXCEPT !.next_file_number = number + 1, !.at = n]
      \/ /\ entries # {} /\ dir' = Repairs!Put(dir, Repairs!Table(number), Repairs!Readable(entries))
         /\ repairer' = [repairer EXCEPT !.next_file_number = number + 1, !.at = n,
                                         !.table_numbers = @ \union {number}]
  BY <1>2 DEF Repairs!ConvertLogToTable, Repairs!With, RepairInv, RecordsOk
<1>4. /\ repairer'.next_file_number = number + 1 /\ repairer'.at = n
      /\ repairer'.logs = repairer.logs /\ repairer'.manifests = repairer.manifests
      /\ repairer'.tables = repairer.tables
      /\ repairer.table_numbers \subseteq repairer'.table_numbers
      /\ repairer'.table_numbers \subseteq repairer.table_numbers \union {number}
      /\ RecordsOk'
  <2>1. DOMAIN repairer = {"logs", "manifests", "table_numbers", "tables", "next_file_number",
                           "at", "copy"} /\ RecordsOk
    BY DEF RepairInv, RecordsOk
  <2>2. CASE repairer' = [repairer EXCEPT !.next_file_number = number + 1, !.at = n]
    BY <1>1, <2>1, <2>2 DEF RecordsOk
  <2>3. CASE repairer' = [repairer EXCEPT !.next_file_number = number + 1, !.at = n,
                                          !.table_numbers = @ \union {number}]
    BY <1>1, <2>1, <2>3 DEF RecordsOk
  <2> QED
    BY <1>3, <2>2, <2>3
<1>5. /\ number \in Nat /\ InDir(Repairs!Log(n)) /\ entries \subseteq Sequences_
      /\ \A m : InDir(Repairs!Table(m)) \/ InDir(Repairs!Log(m)) => m < number /\ m \in Nat
  BY <1>1, <1>2 DEF RepairInv, NumbersOk, Begun, KnownOk, NamesOk, InDir
<1>6. ~ InDir(Repairs!Table(number))
  BY <1>5
<1>7. CASE entries = {} /\ dir' = dir
  <2>1. /\ NamesOk' /\ Repairs!NothingDestroyed' /\ NamesOk
        /\ \A f : InDir(f)' = InDir(f) /\ InLost(f)' = InLost(f)
    BY <1>1, <1>7, SameDirectory DEF RepairInv
  <2>2. NumbersOk'
    BY <1>4, <1>5, <2>1 DEF NumbersOk
  <2>3. LostOk'
    BY <1>1, <1>7, <2>1 DEF LostOk, RepairInv, Copying
  <2>4. repairer'.table_numbers = repairer.table_numbers
    BY <1>3, <1>7 DEF RepairInv, RecordsOk
  <2>5. KnownOk'
    BY <1>1, <1>4, <1>7, <2>1, <2>4 DEF KnownOk, RepairInv, Begun
  <2>6. CopyOk' /\ DescriptorOk'
    BY <1>1 DEF CopyOk, Copying, DescriptorOk
  <2>7. HeldOk'
    <3>1. ASSUME NEW s \in Sequences_, Held(s) PROVE Held(s)'
      BY <1>1, <1>2, <1>4, <1>7, <2>1, <2>4, <3>1 DEF Held, Begun
    <3> QED
      BY <1>1, <1>7, <2>1, <3>1 DEF HeldOk, RepairInv, Copying
  <2> QED
    BY <1>4, <2>1, <2>2, <2>3, <2>5, <2>6, <2>7 DEF RepairInv
<1>8. CASE /\ entries # {} /\ dir' = Repairs!Put(dir, Repairs!Table(number), Repairs!Readable(entries))
           /\ repairer' = [repairer EXCEPT !.next_file_number = number + 1, !.at = n,
                                           !.table_numbers = @ \union {number}]
  <2>1. PICK T : T = Repairs!Table(number)
    OBVIOUS
  <2>2. /\ DOMAIN dir' = DOMAIN dir \union {T} /\ dir'[T].entries = entries /\ dir'[T].ok
        /\ \A x \in DOMAIN dir : x # T => dir'[x] = dir[x]
        /\ T \notin DOMAIN dir /\ T = <<T[1], T[2]>> /\ T[1] = "table"
    <3>1. dir' = Repairs!Put(dir, T, Repairs!Readable(entries))
      BY <1>8, <2>1
    <3>2. /\ DOMAIN dir' = DOMAIN dir \union {T} /\ dir'[T] = Repairs!Readable(entries)
          /\ \A x \in DOMAIN dir : x # T => dir'[x] = dir[x]
      BY <3>1, PutInDirectory
    <3>3. T = <<T[1], T[2]>> /\ T[1] = "table"
      BY <2>1, NamesDiffer
    <3> QED
      BY <1>6, <2>1, <3>2, <3>3 DEF Repairs!Readable, InDir
  <2>3. /\ \A f : InDir(f)' <=> InDir(f) \/ f = T
        /\ \A f : InLost(f)' <=> InLost(f)
        /\ \A f : InDir(f) => dir'[f] = dir[f]
    BY <1>1, <2>2 DEF InDir, InLost
  <2>4. /\ \A m : Repairs!Table(m) = T <=> m = number
        /\ \A m : Repairs!Log(m) # T /\ Repairs!Manifest(m) # T
    BY <2>1, NamesDiffer
  <2>5. NamesOk'
    <3>1. PICK b \in Nat : \A m : InDir(Repairs!Table(m)) \/ InDir(Repairs!Log(m)) => m \in 0..b
      BY DEF RepairInv, NamesOk
    <3>2. PICK c \in Nat : b <= c /\ number <= c
      <4>1. CASE b <= number
        BY <1>5, <4>1
      <4>2. CASE ~ (b <= number)
        BY <1>5, <4>2
      <4> QED
        BY <4>1, <4>2
    <3>3. \A m : InDir(Repairs!Table(m))' \/ InDir(Repairs!Log(m))' => m \in 0..c
      BY <1>5, <2>3, <2>4, <3>1, <3>2
    <3> QED
      BY <1>1, <1>5, <2>2, <3>3 DEF RepairInv, NamesOk
  <2>6. NumbersOk'
    <3>1. \A m : InDir(Repairs!Table(m))' \/ InDir(Repairs!Log(m))' => m < number + 1
      BY <1>5, <2>3, <2>4
    <3> QED
      BY <1>4, <1>5, <3>1 DEF NumbersOk
  <2>7. LostOk'
    <3>1. \A m : InDir(Repairs!Table(m))' /\ ~ dir'[Repairs!Table(m)].ok => ~ InLost(Repairs!Table(m))'
      BY <2>2, <2>3, <2>4 DEF RepairInv, LostOk
    <3> QED
      BY <1>1, <2>3, <2>4, <3>1 DEF RepairInv, LostOk, Copying
  <2>8. repairer'.table_numbers = repairer.table_numbers \union {number}
    BY <1>8 DEF RepairInv, RecordsOk
  <2>9. KnownOk'
    BY <1>1, <1>4, <2>1, <2>3, <2>8 DEF KnownOk, RepairInv, Begun
  <2>10. CopyOk' /\ DescriptorOk'
    BY <1>1 DEF CopyOk, Copying, DescriptorOk
  <2>11. HeldOk'
    <3>1. ASSUME NEW s \in Sequences_, Held(s) PROVE Held(s)'
      <4>1. CASE s \in entries
        BY <1>1, <2>1, <2>2, <2>8, <4>1 DEF Held, Begun
      <4>2. CASE s \notin entries
        <5>1. KnownOk
          BY DEF RepairInv
        <5> QED
          BY <1>1, <1>2, <1>4, <2>3, <2>8, <3>1, <4>2, <5>1 DEF Held, Begun, KnownOk
      <4> QED
        BY <4>1, <4>2
    <3>2. \A m : InDir(Repairs!Table(m))' => dir'[Repairs!Table(m)].ok \/ (InDir(Repairs!Table(m)) /\ ~ dir[Repairs!Table(m)].ok)
      BY <2>2, <2>3, <2>4
    <3> QED
      BY <1>1, <3>1, <3>2 DEF HeldOk, RepairInv, Copying
  <2>12. Repairs!NothingDestroyed'
    BY <1>1, <2>2, <2>3 DEF RepairInv, Repairs!NothingDestroyed, InDir
  <2> QED
    BY <1>4, <2>5, <2>6, <2>7, <2>9, <2>10, <2>11, <2>12 DEF RepairInv
<1> QED
  BY <1>3, <1>7, <1>8

\* What ArchiveFile does.
LEMMA ArchiveEffect ==
  ASSUME NEW f, InDir(f), Repairs!Archive(f)
  PROVE  /\ DOMAIN lost' = DOMAIN lost \union {f} /\ lost'[f] = dir[f]
         /\ \A x \in DOMAIN lost : x # f => lost'[x] = lost[x]
         /\ DOMAIN dir' = DOMAIN dir \ {f} /\ \A x \in DOMAIN dir' : dir'[x] = dir[x]
         /\ \A x : InDir(x)' <=> InDir(x) /\ x # f
         /\ \A x : InLost(x)' <=> InLost(x) \/ x = f
<1>1. lost' = Repairs!Put(lost, f, dir[f]) /\ dir' = Repairs!Without(f)
  BY DEF Repairs!Archive
<1>2. /\ DOMAIN lost' = DOMAIN lost \union {f} /\ lost'[f] = dir[f]
      /\ \A x \in DOMAIN lost : x # f => lost'[x] = lost[x]
  <2>1. PICK new : new = lost'
    OBVIOUS
  <2>2. new = Repairs!Put(lost, f, dir[f])
    BY <1>1, <2>1
  <2>3. /\ DOMAIN new = DOMAIN lost \union {f} /\ new[f] = dir[f]
        /\ \A x \in DOMAIN lost : x # f => new[x] = lost[x]
    BY <2>2 DEF Repairs!Put
  <2> QED
    BY <2>1, <2>3
<1>3. DOMAIN dir' = DOMAIN dir \ {f} /\ \A x \in DOMAIN dir' : dir'[x] = dir[x]
  <2>1. PICK new : new = dir'
    OBVIOUS
  <2>2. new = Repairs!Without(f)
    BY <1>1, <2>1
  <2>3. DOMAIN new = DOMAIN dir \ {f} /\ \A x \in DOMAIN dir \ {f} : new[x] = dir[x]
    BY <2>2, WithoutEffect
  <2> QED
    BY <2>1, <2>3
<1> QED
  BY <1>2, <1>3 DEF InDir, InLost

\* A file that is put away is there with its entries, and no other is lost by it,
\* unless it has no entries.
LEMMA ArchiveKeeps ==
  ASSUME RepairInv, NEW f, InDir(f), Repairs!Archive(f),
         ~ InLost(f) \/ lost[f].entries = {}
  PROVE  NamesOk' /\ Repairs!NothingDestroyed'
<1>1. /\ DOMAIN lost' = DOMAIN lost \union {f} /\ lost'[f] = dir[f]
      /\ \A x \in DOMAIN lost : x # f => lost'[x] = lost[x]
      /\ DOMAIN dir' = DOMAIN dir \ {f} /\ \A x \in DOMAIN dir' : dir'[x] = dir[x]
      /\ \A x : InDir(x)' <=> InDir(x) /\ x # f
      /\ \A x : InLost(x)' <=> InLost(x) \/ x = f
  BY ArchiveEffect
<1>2. NamesOk'
  BY <1>1 DEF RepairInv, NamesOk, InDir
<1>3. Repairs!NothingDestroyed'
  BY <1>1 DEF RepairInv, Repairs!NothingDestroyed, InDir, InLost
<1> QED
  BY <1>2, <1>3

LEMMA ArchiveLogKeeps ==
  ASSUME RepairInv, Repairs!ArchiveLog
  PROVE  RepairInv'
<1>1. /\ current' = current /\ past' = past
      /\ step = "archive_log" /\ step' = "logs"
      /\ Repairs!Archive(Repairs!Log(repairer.at))
      /\ repairer' = [repairer EXCEPT !.logs = @ \ {repairer.at}]
  BY DEF Repairs!ArchiveLog
<1>2. /\ repairer'.next_file_number = repairer.next_file_number
      /\ repairer'.logs = repairer.logs \ {repairer.at}
      /\ repairer'.manifests = repairer.manifests
      /\ repairer'.table_numbers = repairer.table_numbers
      /\ repairer'.tables = repairer.tables /\ RecordsOk'
  BY <1>1 DEF RepairInv, RecordsOk
<1>3. PICK f : f = Repairs!Log(repairer.at)
  OBVIOUS
<1>4. InDir(f) /\ ~ InLost(f) /\ Repairs!Archive(f)
  BY <1>1, <1>3 DEF RepairInv, KnownOk, LostOk, Begun
<1>5. /\ \A x \in DOMAIN dir' : dir'[x] = dir[x]
      /\ \A x : InDir(x)' <=> InDir(x) /\ x # f
      /\ \A x : InLost(x)' <=> InLost(x) \/ x = f
  BY <1>4, ArchiveEffect
<1>6. \A x : InDir(x) /\ x # f => dir'[x] = dir[x]
  BY <1>5 DEF InDir
<1>7. NamesOk' /\ Repairs!NothingDestroyed'
  BY <1>4, ArchiveKeeps
<1>8. /\ \A m : Repairs!Table(m) # f /\ Repairs!Manifest(m) # f
      /\ \A m : Repairs!Log(m) = f => m = repairer.at
  BY <1>3, NamesDiffer
<1>9. NumbersOk'
  BY <1>1, <1>2, <1>5 DEF RepairInv, NumbersOk, Begun
<1>10. LostOk'
  BY <1>1, <1>5, <1>6, <1>8 DEF LostOk, RepairInv, Copying
<1>11. KnownOk'
  BY <1>1, <1>2, <1>3, <1>5, <1>6, <1>8 DEF KnownOk, RepairInv, Begun
<1>12. CopyOk' /\ DescriptorOk'
  BY <1>1 DEF CopyOk, Copying, DescriptorOk
<1>13. HeldOk'
  <2>1. ASSUME NEW s \in Sequences_, Held(s) PROVE Held(s)'
    <3>1. KnownOk
      BY DEF RepairInv
    <3> QED
      BY <1>1, <1>2, <1>6, <1>8, <2>1, <3>1 DEF Held, Begun, KnownOk
  <2> QED
    BY <1>1, <1>5, <1>6, <1>8, <2>1 DEF HeldOk, RepairInv, Copying
<1> QED
  BY <1>2, <1>7, <1>9, <1>10, <1>11, <1>12, <1>13 DEF RepairInv

LEMMA BeginCopyKeeps ==
  ASSUME RepairInv, NEW n, Repairs!BeginCopy(n)
  PROVE  RepairInv'
<1>1. PICK copy, T : copy = repairer.next_file_number /\ T = Repairs!Table(copy)
  OBVIOUS
<1>2. /\ lost' = lost /\ current' = current /\ past' = past
      /\ step = "scan" /\ step' = "archive_table"
      /\ n \in repairer.table_numbers /\ ~ dir[Repairs!Table(n)].ok
      /\ dir' = Repairs!Put(dir, T, Repairs!Unreadable({}))
      /\ repairer' = [repairer EXCEPT !.table_numbers = @ \ {n}, !.at = n, !.copy = copy,
                                      !.next_file_number = copy + 1]
  BY <1>1 DEF Repairs!BeginCopy, Repairs!With
<1>3. /\ repairer'.next_file_number = copy + 1 /\ repairer'.at = n /\ repairer'.copy = copy
      /\ repairer'.logs = repairer.logs /\ repairer'.manifests = repairer.manifests
      /\ repairer'.table_numbers = repairer.table_numbers \ {n}
      /\ repairer'.tables = repairer.tables /\ RecordsOk'
  BY <1>2 DEF RepairInv, RecordsOk
<1>4. /\ copy \in Nat /\ InDir(Repairs!Table(n))
      /\ \A m : InDir(Repairs!Table(m)) \/ InDir(Repairs!Log(m)) => m < copy /\ m \in Nat
  BY <1>1, <1>2 DEF RepairInv, NumbersOk, Begun, KnownOk, NamesOk
<1>5. ~ InDir(T)
  BY <1>1, <1>4
<1>6. /\ dir'[T].entries = {} /\ ~ dir'[T].ok
      /\ \A x \in DOMAIN dir : x # T => dir'[x] = dir[x]
      /\ \A x : InDir(x)' <=> InDir(x) \/ x = T
  <2>1. dir'[T] = Repairs!Unreadable({})
    BY <1>2, PutInDirectory
  <2>2. /\ \A x \in DOMAIN dir : x # T => dir'[x] = dir[x]
        /\ \A x : InDir(x)' <=> InDir(x) \/ x = T
    BY <1>2, PutInDirectory
  <2> QED
    BY <2>1, <2>2 DEF Repairs!Unreadable
<1>7. /\ \A x : InDir(x) => dir'[x] = dir[x]
      /\ \A x : InLost(x)' <=> InLost(x)
  BY <1>2, <1>5, <1>6 DEF InDir, InLost
<1>8. /\ \A m : Repairs!Table(m) = T <=> m = copy
      /\ \A m : Repairs!Log(m) # T /\ Repairs!Manifest(m) # T
      /\ T = <<T[1], T[2]>> /\ T[1] = "table"
  BY <1>1, NamesDiffer
<1>9. NamesOk'
  <2>1. \A m : InDir(Repairs!Table(m))' \/ InDir(Repairs!Log(m))' => m \in 0..copy
    BY <1>4, <1>6, <1>8
  <2> QED
    BY <1>2, <1>4, <1>6, <1>7, <1>8, <2>1 DEF RepairInv, NamesOk, InDir, InLost
<1>10. NumbersOk'
  <2>1. \A m : InDir(Repairs!Table(m))' \/ InDir(Repairs!Log(m))' => m < copy + 1
    BY <1>4, <1>6, <1>8
  <2> QED
    BY <1>3, <1>4, <2>1 DEF NumbersOk
<1>11. LostOk'
  <2>1. ASSUME NEW m, InLost(Repairs!Table(m))
        PROVE  m \in Nat /\ \E q \in Nat : InDir(Repairs!Table(q)) /\ m <= q /\ q # copy /\ q < copy
    BY <1>2, <1>4, <2>1 DEF RepairInv, LostOk
  <2>2. ~ InLost(T)
    <3>1. ASSUME InLost(T) PROVE FALSE
      BY <1>1, <1>4, <2>1, <3>1
    <3> QED
      BY <3>1
  <2> QED
    BY <1>2, <1>3, <1>6, <1>7, <1>8, <2>1, <2>2 DEF RepairInv, LostOk, Copying
<1>12. KnownOk'
  BY <1>2, <1>3, <1>6, <1>7, <1>8 DEF KnownOk, RepairInv, Begun
<1>13. CopyOk'
  <2>1. n \in Nat /\ n < copy
    BY <1>4
  <2>2. copy \notin repairer.table_numbers /\ \A t \in repairer.tables : t.number # copy
    BY <1>1, <1>2, <1>5 DEF RepairInv, KnownOk, Begun
  <2>3. InDir(Repairs!Table(n))' /\ dir'[Repairs!Table(n)] = dir[Repairs!Table(n)]
    BY <1>4, <1>6, <1>7
  <2>4. InDir(T)'
    BY <1>6
  <2> QED
    BY <1>1, <1>2, <1>3, <1>4, <1>6, <2>1, <2>2, <2>3, <2>4 DEF CopyOk
<1>14. DescriptorOk'
  BY <1>2 DEF DescriptorOk
<1>15. HeldOk'
  <2>1. ASSUME NEW s \in Sequences_, Held(s) PROVE Held(s)'
    <3>1. KnownOk
      BY DEF RepairInv
    <3> QED
      BY <1>2, <1>3, <1>4, <1>7, <2>1, <3>1 DEF Held, Begun, KnownOk
  <2>2. past.bad # {}
    BY <1>2, <1>4 DEF RepairInv, HeldOk
  <2> QED
    BY <1>2, <2>1, <2>2 DEF HeldOk, RepairInv
<1>16. Repairs!NothingDestroyed'
  BY <1>2, <1>6, <1>7 DEF RepairInv, Repairs!NothingDestroyed, InDir
<1> QED
  BY <1>3, <1>9, <1>10, <1>11, <1>12, <1>13, <1>14, <1>15, <1>16 DEF RepairInv

LEMMA ArchiveTableKeeps ==
  ASSUME RepairInv, Repairs!ArchiveTable
  PROVE  RepairInv'
<1>1. /\ current' = current /\ past' = past /\ repairer' = repairer
      /\ step = "archive_table" /\ step' = "finish_copy"
      /\ Repairs!Archive(Repairs!Table(repairer.at))
  BY DEF Repairs!ArchiveTable
<1>2. PICK f : f = Repairs!Table(repairer.at)
  OBVIOUS
<1>3. CopyOk /\ LostOk /\ KnownOk /\ HeldOk /\ Copying /\ Begun
  BY <1>1 DEF RepairInv, Copying, Begun
<1>4. InDir(f) /\ ~ dir[f].ok /\ ~ InLost(f) /\ Repairs!Archive(f)
  BY <1>1, <1>2, <1>3 DEF CopyOk, LostOk
<1>5. /\ \A x \in DOMAIN dir' : dir'[x] = dir[x]
      /\ \A x : InDir(x)' <=> InDir(x) /\ x # f
      /\ \A x : InLost(x)' <=> InLost(x) \/ x = f
      /\ lost'[f] = dir[f]
  BY <1>4, ArchiveEffect
<1>6. \A x : InDir(x) /\ x # f => dir'[x] = dir[x]
  BY <1>5 DEF InDir
<1>7. NamesOk' /\ Repairs!NothingDestroyed'
  BY <1>4, ArchiveKeeps
<1>8. /\ \A m : Repairs!Log(m) # f /\ Repairs!Manifest(m) # f
      /\ \A m : Repairs!Table(m) = f <=> m = repairer.at
  BY <1>2, NamesDiffer
<1>9. /\ repairer.at \in Nat /\ repairer.copy \in Nat /\ repairer.at < repairer.copy
      /\ repairer.at \notin repairer.table_numbers
      /\ \A t \in repairer.tables : t.number # repairer.at
  BY <1>2, <1>3, <1>4 DEF CopyOk, KnownOk
<1>10. NumbersOk' /\ RecordsOk'
  BY <1>1, <1>5 DEF RepairInv, NumbersOk, Begun, RecordsOk
<1>11. LostOk'
  <2>1. ASSUME NEW m, InLost(Repairs!Table(m))'
        PROVE  /\ m \in Nat
               /\ \/ \E q \in Nat : InDir(Repairs!Table(q))' /\ m <= q /\ q # repairer.copy
                  \/ m <= repairer.at
    <3>1. CASE m = repairer.at
      BY <1>9, <3>1
    <3>2. CASE m # repairer.at
      <4>1. InLost(Repairs!Table(m))
        BY <1>5, <1>8, <2>1, <3>2
      <4>2. m \in Nat /\ \E q \in Nat : InDir(Repairs!Table(q)) /\ m <= q /\ q # repairer.copy
        BY <1>1, <1>3, <4>1 DEF LostOk
      <4> QED
        BY <1>5, <1>8, <4>2
    <3> QED
      BY <3>1, <3>2
  <2>2. \A m : InDir(Repairs!Log(m))' => ~ InLost(Repairs!Log(m))'
    BY <1>3, <1>5, <1>8 DEF LostOk
  <2>3. \A m : InDir(Repairs!Table(m))' /\ ~ dir'[Repairs!Table(m)].ok => ~ InLost(Repairs!Table(m))'
    BY <1>3, <1>5, <1>6 DEF LostOk
  <2> QED
    BY <1>1, <2>1, <2>2, <2>3 DEF LostOk
<1>12. KnownOk'
  BY <1>1, <1>3, <1>5, <1>6, <1>8, <1>9 DEF KnownOk, Begun
<1>13. CopyOk'
  <2>0. PICK C : C = Repairs!Table(repairer.copy)
    OBVIOUS
  <2>1. InDir(C) /\ C # f
    BY <1>3, <1>8, <1>9, <2>0 DEF CopyOk
  <2>2. InDir(C)' /\ dir'[C] = dir[C]
    BY <1>5, <1>6, <2>1
  <2>3. ~ InDir(f)' /\ InLost(f)'
    BY <1>5
  <2> QED
    BY <1>1, <1>2, <1>3, <2>0, <2>2, <2>3 DEF CopyOk
<1>14. DescriptorOk'
  BY <1>1 DEF DescriptorOk
<1>15. HeldOk'
  <2>1. ASSUME NEW s \in Sequences_, Held(s) PROVE Held(s)'
    BY <1>1, <1>2, <1>3, <1>5, <1>6, <1>8, <1>9, <2>1 DEF Held, Begun, KnownOk
  <2>2. past.bad # {}
    BY <1>3 DEF HeldOk
  <2> QED
    BY <1>1, <1>3, <2>1, <2>2 DEF HeldOk
<1> QED
  BY <1>7, <1>10, <1>11, <1>12, <1>13, <1>14, <1>15 DEF RepairInv

LEMMA FinishCopyKeeps ==
  ASSUME RepairInv, Repairs!FinishCopy
  PROVE  RepairInv'
<1>1. PICK T, source : T = Repairs!Table(repairer.copy) /\ source = Repairs!Table(repairer.at)
  OBVIOUS
<1>2. PICK entries : entries = lost[source].entries
  OBVIOUS
<1>3. /\ lost' = lost /\ current' = current /\ past' = past /\ repairer' = repairer
      /\ step = "finish_copy"
      /\ \/ entries = {} /\ step' = "scan" /\ dir' = dir
         \/ entries # {} /\ step' = "rename_copy"
            /\ dir' = Repairs!Put(dir, T, Repairs!Readable(entries))
  BY <1>1, <1>2 DEF Repairs!FinishCopy, Repairs!With
<1>4. /\ RecordsOk /\ NamesOk /\ NumbersOk /\ LostOk /\ KnownOk /\ CopyOk /\ HeldOk
      /\ Copying /\ Begun
  BY <1>3 DEF RepairInv, Copying, Begun
<1>5. /\ InDir(T) /\ InLost(source) /\ ~ InDir(source) /\ dir[T].entries = {}
      /\ repairer.at \in Nat /\ repairer.copy \in Nat /\ repairer.at < repairer.copy
      /\ repairer.copy \notin repairer.table_numbers
      /\ \A t \in repairer.tables : t.number # repairer.copy
  BY <1>1, <1>3, <1>4 DEF CopyOk
<1>6. past.bad # {} /\ repairer.logs = {}
  BY <1>3, <1>4 DEF HeldOk, KnownOk
<1>7. /\ \A m : Repairs!Table(m) = T <=> m = repairer.copy
      /\ \A m : Repairs!Log(m) # T /\ Repairs!Manifest(m) # T
      /\ T = <<T[1], T[2]>> /\ T[1] = "table"
  BY <1>1, NamesDiffer
<1>8. CASE entries = {} /\ step' = "scan" /\ dir' = dir
  <2>1. /\ NamesOk' /\ Repairs!NothingDestroyed'
        /\ \A f : InDir(f)' = InDir(f) /\ InLost(f)' = InLost(f)
    BY <1>3, <1>8, SameDirectory
  <2>2. NumbersOk' /\ RecordsOk'
    BY <1>3, <1>4, <2>1 DEF NumbersOk, Begun, RecordsOk
  <2>3. LostOk'
    <3>1. ASSUME NEW m, InLost(Repairs!Table(m))
          PROVE  m \in Nat /\ \E q \in Nat : InDir(Repairs!Table(q)) /\ m <= q
      <4>1. m \in Nat /\ (m <= repairer.at => m <= repairer.copy)
        BY <1>4, <1>5, <3>1 DEF LostOk
      <4> QED
        BY <1>1, <1>4, <1>5, <3>1, <4>1 DEF LostOk
    <3> QED
      BY <1>3, <1>4, <1>8, <2>1, <3>1 DEF LostOk, Copying
  <2>4. KnownOk'
    BY <1>3, <1>4, <1>8, <2>1 DEF KnownOk, Begun
  <2>5. CopyOk' /\ DescriptorOk'
    BY <1>8 DEF CopyOk, Copying, DescriptorOk
  <2>6. HeldOk'
    <3>1. ASSUME NEW s \in Sequences_, Held(s) PROVE Held(s)'
      BY <1>1, <1>2, <1>3, <1>4, <1>8, <2>1, <3>1 DEF Held, Begun
    <3> QED
      BY <1>3, <1>4, <1>6, <3>1 DEF HeldOk
  <2> QED
    BY <2>1, <2>2, <2>3, <2>4, <2>5, <2>6 DEF RepairInv
<1>9. CASE entries # {} /\ step' = "rename_copy"
           /\ dir' = Repairs!Put(dir, T, Repairs!Readable(entries))
  <2>1. /\ dir'[T] = Repairs!Readable(entries)
        /\ \A x \in DOMAIN dir : x # T => dir'[x] = dir[x]
        /\ \A x : InDir(x)' <=> InDir(x) \/ x = T
    BY <1>9, PutInDirectory
  <2>2. /\ dir'[T].entries = entries /\ dir'[T].ok
        /\ \A x : InDir(x) /\ x # T => dir'[x] = dir[x]
        /\ \A x : InDir(x)' <=> InDir(x)
        /\ \A x : InLost(x)' <=> InLost(x)
    BY <1>3, <1>5, <2>1 DEF Repairs!Readable, InDir, InLost
  <2>3. NamesOk'
    <3>1. entries \subseteq Sequences_
      BY <1>2, <1>4, <1>5 DEF NamesOk, InLost
    <3>2. \E b \in Nat : \A m : InDir(Repairs!Table(m))' \/ InDir(Repairs!Log(m))' => m \in 0..b
      BY <1>4, <2>2 DEF NamesOk
    <3> QED
      BY <1>3, <1>4, <1>7, <2>2, <3>1, <3>2 DEF NamesOk, InDir, InLost
  <2>4. NumbersOk' /\ RecordsOk'
    BY <1>3, <1>4, <1>9, <2>2 DEF NumbersOk, Begun, RecordsOk
  <2>5. LostOk'
    <3>1. \A m : InDir(Repairs!Table(m))' /\ ~ dir'[Repairs!Table(m)].ok => ~ InLost(Repairs!Table(m))'
      BY <1>4, <2>2 DEF LostOk
    <3> QED
      BY <1>3, <1>4, <1>9, <2>2, <3>1 DEF LostOk, Copying
  <2>6. KnownOk'
    BY <1>3, <1>4, <1>5, <1>7, <1>9, <2>2 DEF KnownOk, Begun
  <2>7. CopyOk'
    BY <1>1, <1>3, <1>4, <1>5, <1>9, <2>2 DEF CopyOk
  <2>8. DescriptorOk'
    BY <1>9 DEF DescriptorOk
  <2>9. HeldOk'
    <3>1. ASSUME NEW s \in Sequences_, Held(s) PROVE Held(s)'
      BY <1>1, <1>2, <1>3, <1>4, <1>5, <1>6, <1>7, <1>9, <2>2, <3>1 DEF Held, Begun, KnownOk
    <3> QED
      BY <1>3, <1>4, <1>6, <3>1 DEF HeldOk
  <2>10. Repairs!NothingDestroyed'
    BY <1>3, <1>5, <2>2 DEF RepairInv, Repairs!NothingDestroyed, InDir
  <2> QED
    BY <2>3, <2>4, <2>5, <2>6, <2>7, <2>8, <2>9, <2>10 DEF RepairInv
<1> QED
  BY <1>3, <1>8, <1>9

\* A file takes the name of another.
LEMMA RenameEffect ==
  ASSUME NEW from, NEW to, from # to, NEW content,
         dir' = Repairs!Put(Repairs!Without(from), to, content)
  PROVE  /\ dir'[to] = content
         /\ \A x : InDir(x)' <=> (InDir(x) /\ x # from) \/ x = to
         /\ \A x : InDir(x) /\ x # from /\ x # to => dir'[x] = dir[x]
<1>1. PICK old : old = Repairs!Without(from)
  OBVIOUS
<1>2. DOMAIN old = DOMAIN dir \ {from} /\ \A x \in DOMAIN dir \ {from} : old[x] = dir[x]
  BY <1>1, WithoutEffect
<1>3. PICK new : new = dir'
  OBVIOUS
<1>4. new = Repairs!Put(old, to, content)
  BY <1>1, <1>3
<1>5. /\ DOMAIN new = DOMAIN old \union {to} /\ new[to] = content
      /\ \A x \in DOMAIN old : x # to => new[x] = old[x]
  BY <1>4 DEF Repairs!Put
<1> QED
  BY <1>2, <1>3, <1>5 DEF InDir

LEMMA RenameCopyKeeps ==
  ASSUME RepairInv, Repairs!RenameCopy
  PROVE  RepairInv'
<1>1. PICK T, source : T = Repairs!Table(repairer.copy) /\ source = Repairs!Table(repairer.at)
  OBVIOUS
<1>2. PICK t : t = Repairs!Info(repairer.at, dir[T].entries)
  OBVIOUS
<1>3. /\ lost' = lost /\ current' = current /\ past' = past
      /\ step = "rename_copy" /\ step' = "scan"
      /\ dir' = Repairs!Put(Repairs!Without(T), source, dir[T])
      /\ repairer' = [repairer EXCEPT !.tables = @ \union {t}]
  BY <1>1, <1>2 DEF Repairs!RenameCopy
<1>4. /\ RecordsOk /\ NamesOk /\ NumbersOk /\ LostOk /\ KnownOk /\ CopyOk /\ HeldOk
      /\ Copying /\ Begun
  BY <1>3 DEF RepairInv, Copying, Begun
<1>5. /\ repairer'.next_file_number = repairer.next_file_number
      /\ repairer'.logs = repairer.logs /\ repairer'.manifests = repairer.manifests
      /\ repairer'.table_numbers = repairer.table_numbers
      /\ repairer'.tables = repairer.tables \union {t} /\ RecordsOk'
  BY <1>3, <1>4 DEF RecordsOk
<1>6. /\ InDir(T) /\ dir[T].ok /\ InLost(source) /\ ~ InDir(source)
      /\ repairer.at \in Nat /\ repairer.copy \in Nat /\ repairer.at < repairer.copy
      /\ repairer.copy \notin repairer.table_numbers /\ repairer.at \notin repairer.table_numbers
      /\ \A x \in repairer.tables : x.number # repairer.copy
      /\ \A x \in repairer.tables : x.number # repairer.at
  BY <1>1, <1>3, <1>4 DEF CopyOk, KnownOk
<1>7. past.bad # {} /\ repairer.logs = {}
  BY <1>3, <1>4 DEF HeldOk, KnownOk
<1>8. /\ \A m : Repairs!Table(m) = T <=> m = repairer.copy
      /\ \A m : Repairs!Table(m) = source <=> m = repairer.at
      /\ \A m : Repairs!Log(m) # T /\ Repairs!Manifest(m) # T
      /\ \A m : Repairs!Log(m) # source /\ Repairs!Manifest(m) # source
      /\ source = <<source[1], source[2]>> /\ source[1] = "table"
  BY <1>1, NamesDiffer
<1>9. /\ dir'[source] = dir[T]
      /\ \A x : InDir(x)' <=> (InDir(x) /\ x # T) \/ x = source
      /\ \A x : InDir(x) /\ x # T => dir'[x] = dir[x]
      /\ \A x : InLost(x)' <=> InLost(x)
  <2>1. T # source
    BY <1>6
  <2>2. PICK content : content = dir[T]
    OBVIOUS
  <2>3. dir' = Repairs!Put(Repairs!Without(T), source, content)
    BY <1>3, <2>2
  <2>4. /\ dir'[source] = content
        /\ \A x : InDir(x)' <=> (InDir(x) /\ x # T) \/ x = source
        /\ \A x : InDir(x) /\ x # T /\ x # source => dir'[x] = dir[x]
    BY <2>1, <2>3, RenameEffect
  <2>5. \A x : InDir(x) => x # source
    BY <1>6
  <2>6. \A x : InLost(x)' <=> InLost(x)
    BY <1>3 DEF InLost
  <2> QED
    BY <2>2, <2>4, <2>5, <2>6
<1>10. /\ t.number = repairer.at /\ t.max_sequence \in Sequences_ \union {0}
       /\ \A s \in dir[T].entries : s <= t.max_sequence
  <2>1. dir[T].entries \subseteq Sequences_
    BY <1>4, <1>6 DEF NamesOk, InDir
  <2> QED
    BY <1>2, <2>1, HighestSequence DEF Repairs!Info
<1>11. repairer.next_file_number \in Nat /\ repairer.at < repairer.next_file_number
  BY <1>1, <1>4, <1>6 DEF NumbersOk
<1>12. NamesOk'
  <2>1. PICK b \in Nat : \A m : InDir(Repairs!Table(m)) \/ InDir(Repairs!Log(m)) => m \in 0..b
    BY <1>4 DEF NamesOk
  <2>2. repairer.at \in 0..b
    BY <1>1, <1>6, <2>1
  <2>3. \A m : InDir(Repairs!Table(m))' \/ InDir(Repairs!Log(m))' => m \in 0..b
    BY <1>8, <1>9, <2>1, <2>2
  <2>4. /\ dir[T].entries \subseteq Sequences_ /\ \A x : InDir(x) => dir[x].entries \subseteq Sequences_
        /\ \A x : InDir(x) /\ x[1] \notin {"table", "log"} => dir[x].entries = {}
        /\ \A x : InDir(x) => x = <<x[1], x[2]>> /\ x[1] \in {"table", "log", "manifest", "temp"}
        /\ \A x : InDir(x) /\ x[1] = "temp" => x[2] = 1
    BY <1>4, <1>6 DEF NamesOk, InDir
  <2>5. /\ \A x : InDir(x)' => dir'[x].entries \subseteq Sequences_
        /\ \A x : InDir(x)' /\ x[1] \notin {"table", "log"} => dir'[x].entries = {}
        /\ \A x : InDir(x)' => x = <<x[1], x[2]>> /\ x[1] \in {"table", "log", "manifest", "temp"}
        /\ \A x : InDir(x)' /\ x[1] = "temp" => x[2] = 1
    BY <1>8, <1>9, <2>4
  <2> QED
    BY <1>3, <1>4, <2>3, <2>5 DEF NamesOk, InDir
<1>13. NumbersOk'
  <2>1. \A m : InDir(Repairs!Table(m))' \/ InDir(Repairs!Log(m))' => m < repairer.next_file_number
    BY <1>4, <1>8, <1>9, <1>11 DEF NumbersOk
  <2> QED
    BY <1>5, <1>11, <2>1 DEF NumbersOk
<1>14. LostOk'
  <2>1. ASSUME NEW m, InLost(Repairs!Table(m))
        PROVE  m \in Nat /\ \E q \in Nat : InDir(Repairs!Table(q))' /\ m <= q
    BY <1>4, <1>6, <1>8, <1>9, <2>1 DEF LostOk
  <2>2. \A m : InDir(Repairs!Table(m))' /\ ~ dir'[Repairs!Table(m)].ok => ~ InLost(Repairs!Table(m))'
    BY <1>4, <1>6, <1>9 DEF LostOk
  <2>3. \A m : InDir(Repairs!Log(m))' => ~ InLost(Repairs!Log(m))'
    BY <1>4, <1>8, <1>9 DEF LostOk
  <2> QED
    BY <1>3, <1>9, <2>1, <2>2, <2>3 DEF LostOk, Copying
<1>15. KnownOk'
  BY <1>1, <1>3, <1>4, <1>5, <1>6, <1>8, <1>9, <1>10 DEF KnownOk, Begun
<1>16. CopyOk' /\ DescriptorOk'
  BY <1>3 DEF CopyOk, Copying, DescriptorOk
<1>17. HeldOk'
  <2>1. ASSUME NEW s \in Sequences_, Held(s) PROVE Held(s)'
    BY <1>1, <1>3, <1>4, <1>5, <1>6, <1>7, <1>8, <1>9, <1>10, <2>1 DEF Held, Begun, KnownOk
  <2> QED
    BY <1>3, <1>4, <1>7, <2>1 DEF HeldOk
<1>18. Repairs!NothingDestroyed'
  <2>1. \A s \in Sequences_ : (\E f : InDir(f) /\ s \in dir[f].entries)
                               => \E f : InDir(f)' /\ s \in dir'[f].entries
    BY <1>6, <1>9
  <2> QED
    BY <1>3, <2>1 DEF RepairInv, Repairs!NothingDestroyed, InDir
<1> QED
  BY <1>5, <1>12, <1>13, <1>14, <1>15, <1>16, <1>17, <1>18 DEF RepairInv

LEMMA WriteTempKeeps ==
  ASSUME RepairInv, Repairs!WriteTemp
  PROVE  RepairInv'
<1>1. PICK T, high : /\ T = Repairs!Temp
                     /\ high = Repairs!Max({0} \union {t.max_sequence : t \in repairer.tables})
  OBVIOUS
<1>2. PICK d : d = [ok |-> TRUE, entries |-> {}, tables |-> {t.number : t \in repairer.tables},
                    next_file |-> repairer.next_file_number, last_sequence |-> high]
  OBVIOUS
<1>3. /\ lost' = lost /\ current' = current /\ past' = past /\ repairer' = repairer
      /\ step = "scan" /\ step' = "manifests" /\ repairer.table_numbers = {}
      /\ dir' = Repairs!Put(dir, T, d)
  BY <1>1, <1>2 DEF Repairs!WriteTemp, Repairs!With
<1>4. /\ RecordsOk /\ NamesOk /\ NumbersOk /\ LostOk /\ KnownOk /\ HeldOk
      /\ ~ Copying /\ Begun
  BY <1>3 DEF RepairInv, Copying, Begun
<1>5. high \in Nat /\ \A t \in repairer.tables : t.max_sequence <= high
  <2>1. \A t \in repairer.tables : t.max_sequence \in Sequences_ \union {0}
    BY <1>4 DEF KnownOk
  <2>2. PICK S : S = {t.max_sequence : t \in repairer.tables}
    OBVIOUS
  <2>3. S \ {0} \subseteq Sequences_ /\ \A t \in repairer.tables : t.max_sequence \in S
    BY <2>1, <2>2
  <2>4. high = Repairs!Max({0} \union (S \ {0}))
    <3>1. {0} \union (S \ {0}) = {0} \union S
      OBVIOUS
    <3> QED
      BY <1>1, <2>2, <3>1
  <2>5. high \in Nat /\ \A x \in S \ {0} : x <= high
    BY <2>3, <2>4, HighestSequence
  <2>6. 0 <= high
    BY <2>5
  <2> QED
    BY <2>3, <2>5, <2>6
<1>6. /\ dir'[T] = d
      /\ \A x \in DOMAIN dir : x # T => dir'[x] = dir[x]
      /\ \A x : InDir(x)' <=> InDir(x) \/ x = T
  BY <1>3, PutInDirectory
<1>7. /\ \A x : InDir(x) /\ x # T => dir'[x] = dir[x]
      /\ \A x : InLost(x)' <=> InLost(x)
  BY <1>3, <1>6 DEF InDir, InLost
<1>8. /\ \A m : Repairs!Table(m) # T /\ Repairs!Log(m) # T /\ Repairs!Manifest(m) # T
      /\ T = <<T[1], T[2]>> /\ T[1] = "temp" /\ T[2] = 1
  BY <1>1, NamesDiffer
<1>9. NamesOk'
  <2>1. \E b \in Nat : \A m : InDir(Repairs!Table(m))' \/ InDir(Repairs!Log(m))' => m \in 0..b
    BY <1>4, <1>6, <1>8 DEF NamesOk
  <2>2. d.entries = {}
    BY <1>2
  <2> QED
    BY <1>3, <1>4, <1>6, <1>8, <2>1, <2>2 DEF NamesOk, InDir
<1>10. NumbersOk' /\ RecordsOk'
  BY <1>3, <1>4, <1>6, <1>8 DEF NumbersOk, Begun, RecordsOk
<1>11. LostOk'
  BY <1>3, <1>4, <1>6, <1>7, <1>8 DEF LostOk, Copying
<1>12. KnownOk'
  BY <1>3, <1>4, <1>6, <1>7, <1>8 DEF KnownOk, Begun
<1>13. CopyOk'
  BY <1>3 DEF CopyOk, Copying
<1>14. DescriptorOk'
  <2>1. /\ d.tables = {t.number : t \in repairer'.tables}
        /\ d.next_file = repairer'.next_file_number /\ d.last_sequence = high
    BY <1>2, <1>3
  <2>2. Describes(dir[Repairs!Temp])'
    BY <1>1, <1>3, <1>5, <1>6, <2>1 DEF Describes, Repairs!Temp
  <2>3. InDir(Repairs!Temp)'
    BY <1>1, <1>6 DEF Repairs!Temp
  <2> QED
    BY <1>3, <2>2, <2>3 DEF DescriptorOk
<1>15. HeldOk'
  <2>1. ASSUME NEW s \in Sequences_, Held(s) PROVE Held(s)'
    BY <1>3, <1>4, <1>7, <1>8, <2>1 DEF Held, Begun, KnownOk
  <2>2. \A m : InDir(Repairs!Table(m))' => InDir(Repairs!Table(m))
               /\ dir'[Repairs!Table(m)] = dir[Repairs!Table(m)]
    BY <1>6, <1>7, <1>8
  <2> QED
    BY <1>3, <1>4, <2>1, <2>2 DEF HeldOk, Copying
<1>16. Repairs!NothingDestroyed'
  <2>1. \A s \in Sequences_ : (\E f : InDir(f) /\ s \in dir[f].entries)
                               => \E f : InDir(f)' /\ s \in dir'[f].entries
    <3>1. InDir(T) => dir[T].entries = {}
      BY <1>4, <1>8 DEF NamesOk, InDir
    <3> QED
      BY <1>6, <1>7, <3>1
  <2> QED
    BY <1>3, <2>1 DEF RepairInv, Repairs!NothingDestroyed, InDir
<1> QED
  BY <1>9, <1>10, <1>11, <1>12, <1>13, <1>14, <1>15, <1>16 DEF RepairInv

LEMMA ArchiveManifestKeeps ==
  ASSUME RepairInv, NEW n, Repairs!ArchiveManifest(n)
  PROVE  RepairInv'
<1>1. PICK f : f = Repairs!Manifest(n)
  OBVIOUS
<1>2. /\ current' = current /\ past' = past
      /\ step = "manifests" /\ step' = step /\ n \in repairer.manifests
      /\ Repairs!Archive(f)
      /\ repairer' = [repairer EXCEPT !.manifests = @ \ {n}]
  BY <1>1 DEF Repairs!ArchiveManifest
<1>3. /\ RecordsOk /\ NamesOk /\ NumbersOk /\ LostOk /\ KnownOk /\ DescriptorOk /\ HeldOk
      /\ ~ Copying /\ Begun
  BY <1>2 DEF RepairInv, Copying, Begun
<1>4. /\ repairer'.next_file_number = repairer.next_file_number
      /\ repairer'.logs = repairer.logs
      /\ repairer'.manifests = repairer.manifests \ {n}
      /\ repairer'.table_numbers = repairer.table_numbers
      /\ repairer'.tables = repairer.tables /\ RecordsOk'
  BY <1>2, <1>3 DEF RecordsOk
<1>5. /\ \A m : Repairs!Log(m) # f /\ Repairs!Table(m) # f
      /\ \A m : Repairs!Manifest(m) = f => m = n
      /\ Repairs!Temp # f /\ f[1] = "manifest"
  BY <1>1, NamesDiffer
<1>6. InDir(f) /\ (~ InLost(f) \/ lost[f].entries = {})
  BY <1>1, <1>2, <1>3, <1>5 DEF KnownOk, NamesOk, InLost
<1>7. /\ \A x \in DOMAIN dir' : dir'[x] = dir[x]
      /\ \A x : InDir(x)' <=> InDir(x) /\ x # f
      /\ \A x : InLost(x)' <=> InLost(x) \/ x = f
  BY <1>2, <1>6, ArchiveEffect
<1>8. \A x : InDir(x) /\ x # f => dir'[x] = dir[x]
  BY <1>7 DEF InDir
<1>9. NamesOk' /\ Repairs!NothingDestroyed'
  BY <1>2, <1>6, ArchiveKeeps
<1>10. NumbersOk'
  BY <1>2, <1>3, <1>4, <1>7 DEF NumbersOk, Begun
<1>11. LostOk'
  BY <1>2, <1>3, <1>5, <1>7, <1>8 DEF LostOk, Copying
<1>12. KnownOk'
  BY <1>2, <1>3, <1>4, <1>5, <1>7, <1>8 DEF KnownOk, Begun
<1>13. CopyOk'
  BY <1>2 DEF CopyOk, Copying
<1>14. DescriptorOk'
  <2>1. PICK T : T = Repairs!Temp
    OBVIOUS
  <2>2. InDir(T) /\ Describes(dir[T]) /\ T # f
    BY <1>2, <1>3, <1>5, <2>1 DEF DescriptorOk
  <2>3. InDir(T)' /\ dir'[T] = dir[T]
    BY <1>7, <1>8, <2>2
  <2>4. Describes(dir[T])'
    BY <1>4, <2>2, <2>3 DEF Describes
  <2> QED
    BY <1>2, <2>1, <2>3, <2>4 DEF DescriptorOk, Repairs!Temp
<1>15. HeldOk'
  <2>1. ASSUME NEW s \in Sequences_, Held(s) PROVE Held(s)'
    BY <1>2, <1>3, <1>4, <1>5, <1>8, <2>1 DEF Held, Begun, KnownOk
  <2>2. \A m : InDir(Repairs!Table(m))' => InDir(Repairs!Table(m))
               /\ dir'[Repairs!Table(m)] = dir[Repairs!Table(m)]
    BY <1>5, <1>7, <1>8
  <2> QED
    BY <1>2, <1>3, <2>1, <2>2 DEF HeldOk, Copying
<1> QED
  BY <1>4, <1>9, <1>10, <1>11, <1>12, <1>13, <1>14, <1>15 DEF RepairInv

LEMMA RenameTempKeeps ==
  ASSUME RepairInv, Repairs!RenameTemp
  PROVE  RepairInv'
<1>1. PICK T, M : T = Repairs!Temp /\ M = Repairs!Manifest(1)
  OBVIOUS
<1>2. /\ lost' = lost /\ current' = current /\ past' = past /\ repairer' = repairer
      /\ step = "manifests" /\ step' = "current" /\ repairer.manifests = {}
      /\ dir' = Repairs!Put(Repairs!Without(T), M, dir[T])
  BY <1>1 DEF Repairs!RenameTemp
<1>3. /\ RecordsOk /\ NamesOk /\ NumbersOk /\ LostOk /\ KnownOk /\ DescriptorOk /\ HeldOk
      /\ ~ Copying /\ Begun
  BY <1>2 DEF RepairInv, Copying, Begun
<1>4. InDir(T) /\ Describes(dir[T])
  BY <1>1, <1>2, <1>3 DEF DescriptorOk
<1>5. /\ \A m : Repairs!Log(m) # T /\ Repairs!Table(m) # T
      /\ \A m : Repairs!Log(m) # M /\ Repairs!Table(m) # M
      /\ T # M /\ T[1] = "temp" /\ M[1] = "manifest" /\ M = <<M[1], M[2]>>
  BY <1>1, NamesDiffer
<1>6. /\ dir'[M] = dir[T]
      /\ \A x : InDir(x)' <=> (InDir(x) /\ x # T) \/ x = M
      /\ \A x : InDir(x) /\ x # T /\ x # M => dir'[x] = dir[x]
      /\ \A x : InLost(x)' <=> InLost(x)
  <2>1. PICK d : d = dir[T]
    OBVIOUS
  <2>2. dir' = Repairs!Put(Repairs!Without(T), M, d) /\ T # M
    BY <1>2, <1>5, <2>1
  <2>3. /\ dir'[M] = d
        /\ \A x : InDir(x)' <=> (InDir(x) /\ x # T) \/ x = M
        /\ \A x : InDir(x) /\ x # T /\ x # M => dir'[x] = dir[x]
    BY <2>2, RenameEffect
  <2> QED
    BY <1>2, <2>1, <2>3 DEF InLost
<1>7. dir[T].entries = {} /\ (InDir(M) => dir[M].entries = {})
  BY <1>3, <1>4, <1>5 DEF NamesOk, InDir
<1>8. NamesOk'
  <2>1. \E b \in Nat : \A m : InDir(Repairs!Table(m))' \/ InDir(Repairs!Log(m))' => m \in 0..b
    BY <1>3, <1>5, <1>6 DEF NamesOk
  <2>2. /\ \A x : InDir(x) => dir[x].entries \subseteq Sequences_
        /\ \A x : InDir(x) /\ x[1] \notin {"table", "log"} => dir[x].entries = {}
        /\ \A x : InDir(x) => x = <<x[1], x[2]>> /\ x[1] \in {"table", "log", "manifest", "temp"}
        /\ \A x : InDir(x) /\ x[1] = "temp" => x[2] = 1
    BY <1>3 DEF NamesOk, InDir
  <2>3. /\ \A x : InDir(x)' => dir'[x].entries \subseteq Sequences_
        /\ \A x : InDir(x)' /\ x[1] \notin {"table", "log"} => dir'[x].entries = {}
        /\ \A x : InDir(x)' => x = <<x[1], x[2]>> /\ x[1] \in {"table", "log", "manifest", "temp"}
        /\ \A x : InDir(x)' /\ x[1] = "temp" => x[2] = 1
    BY <1>5, <1>6, <1>7, <2>2
  <2> QED
    BY <1>2, <1>3, <2>1, <2>3 DEF NamesOk, InDir
<1>9. NumbersOk' /\ RecordsOk'
  BY <1>2, <1>3, <1>5, <1>6 DEF NumbersOk, Begun, RecordsOk
<1>10. LostOk'
  BY <1>2, <1>3, <1>5, <1>6 DEF LostOk, Copying
<1>11. KnownOk'
  BY <1>2, <1>3, <1>5, <1>6 DEF KnownOk, Begun
<1>12. CopyOk'
  BY <1>2 DEF CopyOk, Copying
<1>13. DescriptorOk'
  <2>1. Describes(dir[M])' /\ InDir(M)'
    BY <1>2, <1>4, <1>6 DEF Describes
  <2> QED
    BY <1>1, <1>2, <2>1 DEF DescriptorOk, Repairs!Manifest
<1>14. HeldOk'
  <2>1. ASSUME NEW s \in Sequences_, Held(s) PROVE Held(s)'
    BY <1>2, <1>3, <1>5, <1>6, <2>1 DEF Held, Begun, KnownOk
  <2>2. \A m : InDir(Repairs!Table(m))' => InDir(Repairs!Table(m))
               /\ dir'[Repairs!Table(m)] = dir[Repairs!Table(m)]
    BY <1>5, <1>6
  <2> QED
    BY <1>2, <1>3, <2>1, <2>2 DEF HeldOk, Copying
<1>15. Repairs!NothingDestroyed'
  <2>1. \A s \in Sequences_ : (\E f : InDir(f) /\ s \in dir[f].entries)
                               => \E f : InDir(f)' /\ s \in dir'[f].entries
    BY <1>6, <1>7
  <2> QED
    BY <1>2, <2>1 DEF RepairInv, Repairs!NothingDestroyed, InDir
<1> QED
  BY <1>8, <1>9, <1>10, <1>11, <1>12, <1>13, <1>14, <1>15 DEF RepairInv

\* Repairs!Init, the directory that is to be repaired.
LEMMA RepairStarts ==
  ASSUME Repairs!Init
  PROVE  RepairInv
<1>1. PICK names : names = {Repairs!Table(n) : n \in TableNumbers}
                           \union {Repairs!Log(n) : n \in LogNumbers}
  OBVIOUS
<1>2. PICK manifests : manifests = {Repairs!Manifest(n) : n \in ManifestNumbers}
  OBVIOUS
<1>3. PICK place \in [Sequences_ -> names], bad \in SUBSET TableNumbers :
        /\ dir = [name \in names \union manifests |->
                    IF name \in {Repairs!Table(n) : n \in bad}
                    THEN Repairs!Unreadable({s \in Sequences_ : place[s] = name})
                    ELSE Repairs!Readable({s \in Sequences_ : place[s] = name})]
        /\ lost = << >> /\ step = "start" /\ repairer = Repairs!Fresh
        /\ past = [bad |-> bad, crashes |-> 0, faults |-> 0]
  BY <1>1, <1>2 DEF Repairs!Init
<1>4. /\ DOMAIN dir = names \union manifests /\ DOMAIN lost = {}
      /\ \A f \in DOMAIN dir : dir[f].entries = {s \in Sequences_ : place[s] = f}
      /\ bad = {} => \A f \in DOMAIN dir : dir[f].ok
  BY <1>3 DEF Repairs!Unreadable, Repairs!Readable
<1>5. /\ past.bad = bad /\ past.crashes = 0 /\ past.faults = 0
      /\ RecordsOk
  BY <1>3 DEF RecordsOk, Repairs!Fresh
<1>6. /\ \A f \in names : /\ f = <<f[1], f[2]>> /\ f[1] \in {"table", "log"}
                          /\ f[2] \in TableNumbers \union LogNumbers
                          /\ f = Repairs!Table(f[2]) \/ f = Repairs!Log(f[2])
      /\ \A f \in manifests : f = <<f[1], f[2]>> /\ f[1] = "manifest"
  BY <1>1, <1>2 DEF Repairs!Table, Repairs!Log, Repairs!Manifest
<1>7. NamesOk
  <2>1. PICK b \in Nat : Sequences_ \union TableNumbers \union LogNumbers \subseteq 0..b
    BY RepairNumbers
  <2>2. \A n : InDir(Repairs!Table(n)) \/ InDir(Repairs!Log(n)) => n \in 0..b
    <3>1. \A n : (Repairs!Table(n) \in names \/ Repairs!Log(n) \in names) =>
                    n \in TableNumbers \union LogNumbers
      BY <1>1, NamesDiffer
    <3>2. \A n : Repairs!Table(n) \notin manifests /\ Repairs!Log(n) \notin manifests
      BY <1>2, NamesDiffer
    <3> QED
      BY <1>4, <2>1, <3>1, <3>2 DEF InDir
  <2>3. \A f \in DOMAIN dir : /\ f = <<f[1], f[2]>>
                              /\ f[1] \in {"table", "log", "manifest"}
    BY <1>4, <1>6
  <2>4. \A f \in DOMAIN dir : f[1] \notin {"table", "log"} => dir[f].entries = {}
    <3>1. \A s \in Sequences_ : place[s] \in names
      BY <1>3
    <3> QED
      BY <1>4, <1>6, <3>1
  <2>5. \A f \in DOMAIN dir : dir[f].entries \subseteq Sequences_
    BY <1>4
  <2> QED
    BY <1>4, <2>2, <2>3, <2>4, <2>5 DEF NamesOk
<1>8. NumbersOk /\ KnownOk /\ CopyOk /\ DescriptorOk /\ LostOk /\ ~ Copying /\ ~ Begun
  BY <1>3, <1>4 DEF NumbersOk, KnownOk, Begun, CopyOk, Copying, DescriptorOk, LostOk, InLost
<1>9. \A s \in Sequences_ : /\ place[s] \in DOMAIN dir /\ s \in dir[place[s]].entries
                            /\ \E n : place[s] = Repairs!Table(n) \/ place[s] = Repairs!Log(n)
  <2> TAKE s \in Sequences_
  <2>1. place[s] \in names
    BY <1>3
  <2>2. PICK f : f = place[s]
    OBVIOUS
  <2>3. f \in DOMAIN dir /\ s \in dir[f].entries
    BY <1>4, <2>1, <2>2
  <2>4. f = Repairs!Table(f[2]) \/ f = Repairs!Log(f[2])
    BY <1>6, <2>1, <2>2
  <2> QED
    BY <2>2, <2>3, <2>4
<1>10. HeldOk
  <2>1. \A s \in Sequences_ : Held(s)
    BY <1>8, <1>9 DEF Held, InDir
  <2> QED
    BY <1>4, <1>5, <1>8, <2>1 DEF HeldOk, InDir
<1>11. Repairs!NothingDestroyed
  BY <1>9 DEF Repairs!NothingDestroyed
<1> QED
  BY <1>5, <1>7, <1>8, <1>10, <1>11 DEF RepairInv

\* A step of the repair keeps RepairInv, which implies what a run promises.
LEMMA RepairStep ==
  ASSUME RepairInv, Repairs!Next
  PROVE  RepairInv'
BY FindFilesKeeps, ConvertLogToTableKeeps, ConversionFailsKeeps, ArchiveLogKeeps,
   LogsAreDoneKeeps, ScanTableKeeps, BeginCopyKeeps, ArchiveTableKeeps, FinishCopyKeeps,
   RenameCopyKeeps, WriteTempKeeps, ArchiveManifestKeeps, RenameTempKeeps,
   SetCurrentFileKeeps, RepairCrashKeeps DEF Repairs!Next

LEMMA RepairStutters ==
  ASSUME RepairInv, UNCHANGED repairVars
  PROVE  RepairInv'
<1>1. /\ dir' = dir /\ lost' = lost /\ current' = current /\ step' = step
      /\ repairer' = repairer /\ past' = past
  BY DEF repairVars
<1>2. /\ NamesOk' /\ Repairs!NothingDestroyed'
      /\ \A f : InDir(f)' = InDir(f) /\ InLost(f)' = InLost(f)
  BY <1>1, SameDirectory
<1>3. RecordsOk' /\ NumbersOk' /\ LostOk'
  BY <1>1, <1>2 DEF RepairInv, RecordsOk, NumbersOk, LostOk, Begun, Copying
<1>4. KnownOk'
  BY <1>1, <1>2 DEF RepairInv, KnownOk, Begun
<1>5. CopyOk'
  BY <1>1, <1>2 DEF RepairInv, CopyOk, Copying
<1>6. DescriptorOk'
  BY <1>1, <1>2 DEF RepairInv, DescriptorOk, Describes, InDir
<1>7. HeldOk'
  <2>1. ASSUME NEW s \in Sequences_, Held(s) PROVE Held(s)'
    BY <1>1, <1>2, <2>1 DEF Held, Begun
  <2> QED
    BY <1>1, <1>2, <2>1 DEF RepairInv, HeldOk, Copying
<1> QED
  BY <1>2, <1>3, <1>4, <1>5, <1>6, <1>7 DEF RepairInv

LEMMA RepairHolds ==
  ASSUME RepairInv
  PROVE  Repairs!RepairIsSafe
<1>1. CASE step # "done"
  BY <1>1 DEF RepairInv, Repairs!RepairIsSafe
<1>2. CASE step = "done"
  <2>1. /\ NamesOk /\ NumbersOk /\ KnownOk /\ DescriptorOk /\ HeldOk /\ Begun
        /\ Repairs!NothingDestroyed
    BY <1>2 DEF RepairInv, Begun
  <2>2. PICK d : d = dir[Repairs!Manifest(1)]
    OBVIOUS
  <2>3. current = 1 /\ Describes(d)
    BY <1>2, <2>1, <2>2 DEF DescriptorOk
  <2>4. /\ d.tables = {t.number : t \in repairer.tables}
        /\ d.next_file = repairer.next_file_number
        /\ d.last_sequence \in Nat /\ \A t \in repairer.tables : t.max_sequence <= d.last_sequence
    BY <2>3 DEF Describes
  <2>5. \A n \in d.tables : \E t \in repairer.tables : n = t.number
    BY <2>4
  <2>6. \A n \in d.tables : Repairs!Table(n) \in DOMAIN dir /\ dir[Repairs!Table(n)].ok
    BY <2>1, <2>5 DEF KnownOk, InDir
  <2>7. \A n \in Repairs!Numbers("table") \union Repairs!Numbers("log") : n < d.next_file
    BY <2>1, <2>4, NumbersAre DEF NumbersOk
  <2>8. Sequences_ \subseteq Nat
    <3>1. PICK b \in Nat : Sequences_ \union TableNumbers \union LogNumbers \subseteq 0..b
      BY RepairNumbers
    <3> QED
      BY <3>1
  <2>9. \A s : s \in Repairs!Found <=>
                 \E t \in repairer.tables : s \in dir[Repairs!Table(t.number)].entries
    BY <2>2, <2>4 DEF Repairs!Found
  <2>10. \A s \in Repairs!Found : s \in Sequences_ /\ s <= d.last_sequence
    <3> TAKE s \in Repairs!Found
    <3>1. PICK t \in repairer.tables : s \in dir[Repairs!Table(t.number)].entries
      BY <2>9
    <3>2. /\ s \in Sequences_ /\ s <= t.max_sequence /\ t.max_sequence \in Sequences_ \union {0}
      BY <2>1, <3>1 DEF KnownOk, NamesOk, InDir
    <3>3. s \in Nat /\ t.max_sequence \in Nat /\ t.max_sequence <= d.last_sequence
      <4>1. s \in Nat /\ Sequences_ \union {0} \subseteq Nat
        BY <2>8, <3>2
      <4>2. t.max_sequence \in Nat
        BY <3>2, <4>1
      <4> QED
        BY <2>4, <3>1, <4>1, <4>2
    <3> QED
      BY <2>4, <3>2, <3>3
  <2>11. past.faults = 0 /\ (past.crashes = 0 \/ past.bad = {}) =>
           \A s \in Sequences_ : s \in Repairs!Found
    BY <1>2, <2>1, <2>9 DEF HeldOk, Held, KnownOk
  <2>12. Repairs!DescriptorIsRight
    BY <2>2, <2>3, <2>6, <2>7, <2>10 DEF Repairs!DescriptorIsRight
  <2> QED
    BY <2>1, <2>10, <2>11, <2>12 DEF Repairs!RepairIsSafe
<1> QED
  BY <1>1, <1>2

\* RepairDB: however often it is stopped and run again, every entry that can be read
\* stays in a file of the directory or of lost/; a run that ends has set up a descriptor
\* that names tables that are there and read, with numbers above those of all files and
\* entries; and if nothing failed, the database has every entry there was.
THEOREM RepairsAreSafe ==
  Spec => []RepairIsSafe
<1> DEFINE Inv == part = "repair" => RepairInv
<1>1. Init => Inv
  BY RepairStarts DEF Init
<1>2. Inv /\ [Next]_vars => Inv'
  <2> SUFFICES ASSUME Inv, [Next]_vars, part' = "repair" PROVE RepairInv'
    OBVIOUS
  <2>1. part = "repair" /\ (Repairs!Next \/ UNCHANGED repairVars)
    BY DEF Next, vars
  <2> QED
    BY <2>1, RepairStep, RepairStutters
<1>3. Inv => RepairIsSafe
  BY RepairHolds DEF RepairIsSafe
<1> QED
  BY <1>1, <1>2, <1>3, PTL DEF Spec
=============================================================================
