-------------------------- MODULE VersionSetProofs --------------------------
(***************************************************************************)
(* Proofs about the log-structured merge tree of VersionSet, for every     *)
(* number of keys, writes, levels, snapshots and calls of CompactRange,    *)
(* and every choice of the sizes and triggers.                             *)
(*                                                                         *)
(* First the operators: sorting (Sorting), the ends of tables (Ends), the  *)
(* files a range overlaps, what SetupOtherInputs and PickCompaction choose *)
(* and what a merge writes (OutputsOfMerge).  Then four invariants, each   *)
(* resting on those before it:                                             *)
(*   TreeInv   every entry is in one table only, and what a running        *)
(*             compaction was set up with stays true until it ends;        *)
(*   OrderInv  the files of a level below 0 are in order (LevelsDisjoint); *)
(*   AgeInv    the entries of a key get older down the tree                *)
(*             (EntriesInOrder);                                           *)
(*   KeysInv   without snapshots, the entries of a key are in one file of  *)
(*             a level.                                                    *)
(* From them: what Get answers is the newest entry (GetAnswers), no flush, *)
(* move or merge changes an answer, and the tree implements KVStore.       *)
(***************************************************************************)
EXTENDS MCVersionSet, TLAPS, FiniteSetTheorems, SequenceTheorems,
        NaturalsInduction, WellFoundedInduction
-----------------------------------------------------------------------------
(* Numbers *)

\* Every set of numbers that is not empty has a least one.
LEMMA Least ==
  ASSUME NEW S, S \subseteq Nat, S # {}
  PROVE  Min(S) \in S /\ \A y \in S : Min(S) <= y
<1> DEFINE R == {ss \in Nat \X Nat : ss[1] < ss[2]}
<1>1. IsWellFoundedOn(R, Nat)
  BY NatLessThanWellFounded, Zenon DEF OpToRel
<1>2. \A x, y \in Nat : y < x => <<y, x>> \in R
  OBVIOUS
<1> HIDE DEF R
<1>3. PICK x \in S : \A y \in S : <<y, x>> \notin R
  BY <1>1, WFMin
<1>4. ASSUME NEW y \in S PROVE x <= y
  <2>1. x \in Nat /\ y \in Nat /\ ~ (y < x)
    BY <1>2, <1>3
  <2> QED
    BY <2>1
<1> QED
  BY <1>4 DEF Min

\* ... and a greatest one if there is a bound.
LEMMA Greatest ==
  ASSUME NEW S, S \subseteq Nat, S # {}, NEW b \in Nat, \A x \in S : x <= b
  PROVE  Max(S) \in S /\ \A y \in S : y <= Max(S)
<1> DEFINE above == {u \in Nat : \A x \in S : x <= u}
<1>1. Min(above) \in above /\ \A u \in above : Min(above) <= u
  BY Least, b \in above
<1>2. Min(above) \in S
  <2>1. SUFFICES ASSUME Min(above) \notin S PROVE FALSE
    OBVIOUS
  <2>2. PICK x \in S : TRUE
    OBVIOUS
  <2>3. \A y \in S : y < Min(above)
    BY <1>1, <2>1
  <2>4. Min(above) - 1 \in above
    BY <1>1, <2>2, <2>3
  <2> QED
    BY <1>1, <2>4
<1>3. \E x \in S : \A y \in S : x >= y
  BY <1>1, <1>2
<1> QED
  BY <1>3 DEF Max

\* Induction: what holds at 0, and at n + 1 whenever it holds at n, holds of all
\* numbers up to N.
LEMMA UpTo ==
  ASSUME NEW N \in Nat, NEW P, 0 \in P, \A n \in 0..(N - 1) : n \in P => n + 1 \in P
  PROVE  0..N \subseteq P
<1> DEFINE bad == {n \in 0..N : n \notin P}
<1>1. SUFFICES ASSUME bad # {} PROVE FALSE
  OBVIOUS
<1>2. Min(bad) \in bad /\ \A n \in bad : Min(bad) <= n
  BY <1>1, Least
<1>3. Min(bad) \in 1..N /\ Min(bad) - 1 \in 0..(N - 1)
  BY <1>2
<1>4. Min(bad) - 1 \in P
  BY <1>2, <1>3
<1>5. (Min(bad) - 1) + 1 = Min(bad)
  BY <1>3
<1> QED
  BY <1>2, <1>3, <1>4, <1>5

\* MaxBytesForLevel is what its recursion says.
LEMMA LimitsDefined ==
  \A l \in Levels : MaxBytesForLevel[l] = CASE l = 0 -> kL0_CompactionTrigger
                                           [] l = 1 -> LevelBytes
                                           [] OTHER -> 2 * MaxBytesForLevel[l - 1]
<1> USE VersionSetAssumption
<1> DEFINE Rule(f, l) == CASE l = 0 -> kL0_CompactionTrigger
                           [] l = 1 -> LevelBytes
                           [] OTHER -> 2 * f[l - 1]
           P == {n \in Nat : \E f : f = [l \in 0..n |-> Rule(f, l)]}
           N == kNumLevels - 1
<1>1. N \in Nat /\ Levels = 0..N
  BY DEF Levels
<1>2. 0 \in P
  <2> DEFINE f == [l \in 0..0 |-> kL0_CompactionTrigger]
  <2>1. f = [l \in 0..0 |-> Rule(f, l)]
    OBVIOUS
  <2> QED
    BY <2>1
<1>3. ASSUME NEW n \in 0..(N - 1), n \in P PROVE n + 1 \in P
  <2>1. PICK f : f = [l \in 0..n |-> Rule(f, l)]
    BY <1>3
  <2> DEFINE g == [l \in 0..(n + 1) |-> IF l = n + 1 THEN Rule(f, l) ELSE f[l]]
  <2>2. ASSUME NEW l \in 0..(n + 1) PROVE g[l] = Rule(g, l)
    <3>1. CASE l = 0
      BY <2>1, <3>1
    <3>2. CASE l # 0
      <4> HIDE DEF Rule
      <4>1. l - 1 \in 0..n /\ l - 1 # n + 1 /\ g[l - 1] = f[l - 1]
        BY <3>2
      <4>2. g[l] = Rule(f, l)
        <5>1. CASE l = n + 1
          BY <5>1
        <5>2. CASE l # n + 1
          <6>1. l \in 0..n
            BY <5>2
          <6> QED
            BY <5>2, <6>1, <2>1
        <5> QED
          BY <5>1, <5>2
      <4> QED
        BY <4>1, <4>2 DEF Rule
    <3> QED
      BY <3>1, <3>2
  <2> HIDE DEF Rule
  <2>3. g = [l \in 0..(n + 1) |-> Rule(g, l)]
    BY <2>2
  <2> HIDE DEF g
  <2>4. \E h : h = [l \in 0..(n + 1) |-> Rule(h, l)]
    BY <2>3
  <2> QED
    BY <2>4
<1> HIDE DEF Rule, N, P
<1>4. N \in P
  <2>1. 0..N \subseteq P
    BY <1>1, <1>2, <1>3, UpTo
  <2> QED
    BY <1>1, <2>1
<1>5. \E f : f = [l \in Levels |-> Rule(f, l)]
  BY <1>1, <1>4 DEF P
<1>6. MaxBytesForLevel = CHOOSE f : f = [l \in Levels |-> Rule(f, l)]
  BY DEF MaxBytesForLevel, Rule
<1>7. MaxBytesForLevel = [l \in Levels |-> Rule(MaxBytesForLevel, l)]
  BY <1>5, <1>6
<1>8. \A l \in Levels : MaxBytesForLevel[l] = Rule(MaxBytesForLevel, l)
  BY <1>7
<1> QED
  BY <1>8 DEF Rule

\* No level is full while there is nothing in it.
LEMMA LimitsArePositive ==
  \A l \in Levels : MaxBytesForLevel[l] \in Nat \ {0}
<1> USE VersionSetAssumption
<1> DEFINE P == {n \in Nat : n \in Levels => MaxBytesForLevel[n] \in Nat \ {0}}
           N == kNumLevels - 1
<1>1. N \in Nat /\ Levels = 0..N
  BY DEF Levels
<1>2. 0 \in P
  BY LimitsDefined
<1>3. ASSUME NEW n \in 0..(N - 1), n \in P PROVE n + 1 \in P
  <2>1. n \in Levels /\ n + 1 \in Levels /\ n + 1 # 0 /\ (n + 1) - 1 = n
    BY <1>1
  <2>2. MaxBytesForLevel[n] \in Nat \ {0}
    BY <1>3, <2>1
  <2>3. CASE n + 1 = 1
    BY <2>1, <2>3, LimitsDefined
  <2>4. CASE n + 1 # 1
    <3>1. MaxBytesForLevel[n + 1] = 2 * MaxBytesForLevel[n]
      BY <2>1, <2>4, LimitsDefined
    <3> QED
      BY <2>2, <3>1
  <2> QED
    BY <2>3, <2>4
<1> HIDE DEF P, N
<1>4. 0..N \subseteq P
  BY <1>1, <1>2, <1>3, UpTo
<1> QED
  BY <1>1, <1>4 DEF P

\* Finalize picks a level that has a next one.
LEMMA BestLevelIsALevel ==
  ASSUME NEW v PROVE BestLevel(v) \in 0..(kNumLevels - 2)
<1> USE VersionSetAssumption
<1> DEFINE N == kNumLevels - 2
           Fuller(l, m) == Load(v, l) * MaxBytesForLevel[m] > Load(v, m) * MaxBytesForLevel[l]
<1> HIDE DEF Fuller
<1> DEFINE Rule(f, l) == IF l = 0 THEN 0 ELSE IF Fuller(l, f[l - 1]) THEN l ELSE f[l - 1]
           P == {n \in Nat : \E f : f = [l \in 0..n |-> Rule(f, l)]}
<1>1. N \in Nat
  OBVIOUS
<1>2. 0 \in P
  <2> DEFINE f == [l \in 0..0 |-> 0]
  <2>1. f = [l \in 0..0 |-> Rule(f, l)]
    OBVIOUS
  <2> QED
    BY <2>1
<1>3. ASSUME NEW n \in 0..(N - 1), n \in P PROVE n + 1 \in P
  <2>1. PICK f : f = [l \in 0..n |-> Rule(f, l)]
    BY <1>3
  <2> DEFINE g == [l \in 0..(n + 1) |-> IF l = n + 1 THEN Rule(f, l) ELSE f[l]]
  <2>2. ASSUME NEW l \in 0..(n + 1) PROVE g[l] = Rule(g, l)
    <3>1. CASE l = 0
      BY <2>1, <3>1
    <3>2. CASE l # 0
      <4> HIDE DEF Rule
      <4>1. l - 1 \in 0..n /\ l - 1 # n + 1 /\ g[l - 1] = f[l - 1]
        BY <3>2
      <4>2. g[l] = Rule(f, l)
        <5>1. CASE l = n + 1
          BY <5>1
        <5>2. CASE l # n + 1
          <6>1. l \in 0..n
            BY <5>2
          <6> QED
            BY <5>2, <6>1, <2>1
        <5> QED
          BY <5>1, <5>2
      <4> QED
        BY <4>1, <4>2 DEF Rule
    <3> QED
      BY <3>1, <3>2
  <2> HIDE DEF Rule
  <2>3. g = [l \in 0..(n + 1) |-> Rule(g, l)]
    BY <2>2
  <2> HIDE DEF g
  <2>4. \E h : h = [l \in 0..(n + 1) |-> Rule(h, l)]
    BY <2>3
  <2> QED
    BY <2>4
<1> HIDE DEF Rule, N, P
<1>4. N \in P
  <2>1. 0..N \subseteq P
    BY <1>1, <1>2, <1>3, UpTo
  <2> QED
    BY <1>1, <2>1
<1>5. PICK f : f = [l \in 0..N |-> Rule(f, l)]
  BY <1>4 DEF P
<1> DEFINE best == CHOOSE h : h = [l \in 0..N |-> Rule(h, l)]
<1>6. BestLevel(v) = best[N]
  BY DEF BestLevel, Rule, Fuller, N
<1>7. best = [l \in 0..N |-> Rule(best, l)]
  BY <1>5
<1> HIDE DEF best
<1> DEFINE Q == {n \in Nat : n \in 0..N => best[n] \in 0..n}
<1>8. \A l \in 0..N : best[l] = Rule(best, l)
  BY <1>7
<1>9. 0 \in Q
  BY <1>1, <1>8 DEF Rule
<1>10. ASSUME NEW n \in 0..(N - 1), n \in Q PROVE n + 1 \in Q
  <2>1. n \in 0..N /\ n + 1 \in 0..N /\ n + 1 # 0 /\ (n + 1) - 1 = n
    BY <1>1
  <2>2. best[n] \in 0..n
    BY <1>10, <2>1
  <2>3. best[n + 1] = n + 1 \/ best[n + 1] = best[n]
    BY <1>8, <2>1 DEF Rule
  <2> QED
    BY <2>1, <2>2, <2>3
<1> HIDE DEF Q
<1>11. 0..N \subseteq Q
  BY <1>1, <1>9, <1>10, UpTo
<1>12. best[N] \in 0..N
  BY <1>1, <1>11 DEF Q
<1> QED
  BY <1>6, <1>12 DEF N
-----------------------------------------------------------------------------
(* Sorting *)

\* The member of S that has i - 1 before it, where Less is a relation on S.
Ranked(S, Less, i) ==
  CHOOSE x \in S : Cardinality({y \in S : <<y, x>> \in Less}) = i - 1

IsOrder(S, Less) ==
  /\ \A x \in S : <<x, x>> \notin Less
  /\ \A x, y, z \in S : <<x, y>> \in Less /\ <<y, z>> \in Less => <<x, z>> \in Less
  /\ \A x, y \in S : x # y => <<x, y>> \in Less \/ <<y, x>> \in Less

\* Counting what is before a member gives its place in the order.
LEMMA Sorting ==
  ASSUME NEW S, IsFiniteSet(S), NEW Less, IsOrder(S, Less)
  PROVE  /\ \A i \in 1..Cardinality(S) : Ranked(S, Less, i) \in S
         /\ \A x \in S : \E i \in 1..Cardinality(S) : Ranked(S, Less, i) = x
         /\ \A i, j \in 1..Cardinality(S) :
              i < j => <<Ranked(S, Less, i), Ranked(S, Less, j)>> \in Less
<1> DEFINE n == Cardinality(S)
           below(x) == {y \in S : <<y, x>> \in Less}
           rank == [x \in S |-> Cardinality(below(x)) + 1]
<1>1. n \in Nat
  BY FS_CardinalityType
<1>2. ASSUME NEW x \in S
      PROVE  IsFiniteSet(below(x)) /\ Cardinality(below(x)) \in Nat /\ Cardinality(below(x)) < n
  <2>1. below(x) \subseteq S /\ below(x) # S
    BY DEF IsOrder
  <2>2. IsFiniteSet(below(x)) /\ Cardinality(below(x)) <= n /\ Cardinality(below(x)) # n
    BY <2>1, FS_Subset
  <2>3. Cardinality(below(x)) \in Nat
    BY <2>2, FS_CardinalityType
  <2> QED
    BY <1>1, <2>2, <2>3
<1>3. ASSUME NEW x \in S, NEW y \in S, <<x, y>> \in Less
      PROVE  Cardinality(below(x)) < Cardinality(below(y))
  <2>1. below(x) \subseteq below(y) /\ below(x) # below(y)
    <3>1. x \in below(y) /\ x \notin below(x)
      BY <1>3 DEF IsOrder
    <3>2. \A z \in below(x) : z \in below(y)
      BY <1>3 DEF IsOrder
    <3> QED
      BY <3>1, <3>2
  <2>2. Cardinality(below(x)) <= Cardinality(below(y)) /\ Cardinality(below(x)) # Cardinality(below(y))
    BY <1>2, <2>1, FS_Subset
  <2>3. PICK a, b : a = Cardinality(below(x)) /\ b = Cardinality(below(y))
    OBVIOUS
  <2>4. a \in Nat /\ b \in Nat
    BY <1>2, <2>3
  <2> HIDE DEF below
  <2>5. a <= b /\ a # b
    BY <2>2, <2>3
  <2>6. a < b
    BY <2>4, <2>5
  <2> QED
    BY <2>3, <2>6
<1>4. rank \in [S -> 1..n]
  <2>1. \A x \in S : Cardinality(below(x)) + 1 \in 1..n
    BY <1>1, <1>2
  <2> QED
    BY <2>1
<1>5. \A x, y \in S : rank[x] = rank[y] => x = y
  <2> SUFFICES ASSUME NEW x \in S, NEW y \in S, x # y PROVE rank[x] # rank[y]
    OBVIOUS
  <2>1. Cardinality(below(x)) # Cardinality(below(y))
    <3>1. <<x, y>> \in Less \/ <<y, x>> \in Less
      BY DEF IsOrder
    <3>2. Cardinality(below(x)) \in Nat /\ Cardinality(below(y)) \in Nat
      BY <1>2
    <3> HIDE DEF below
    <3>3. \/ Cardinality(below(x)) < Cardinality(below(y))
          \/ Cardinality(below(y)) < Cardinality(below(x))
      BY <1>3, <3>1
    <3> QED
      BY <3>2, <3>3
  <2>2. rank[x] = Cardinality(below(x)) + 1 /\ rank[y] = Cardinality(below(y)) + 1
    OBVIOUS
  <2>3. Cardinality(below(x)) \in Nat /\ Cardinality(below(y)) \in Nat
    BY <1>2
  <2> HIDE DEF below, rank
  <2> QED
    BY <2>1, <2>2, <2>3
<1>6. rank \in Surjection(S, 1..n)
  <2>1. rank \in Injection(S, 1..n)
    BY <1>4, <1>5 DEF Injection, IsInjective
  <2>2. IsFiniteSet(1..n) /\ Cardinality(1..n) = n
    BY <1>1, FS_Interval
  <2> QED
    BY <2>1, <2>2, FS_Injection
<1>7. \A i \in 1..n : \E x \in S : rank[x] = i
  BY <1>6 DEF Surjection
<1>8. ASSUME NEW i \in 1..n
      PROVE  Ranked(S, Less, i) \in S /\ rank[Ranked(S, Less, i)] = i
  <2>1. PICK x \in S : rank[x] = i
    BY <1>7
  <2>2. Cardinality(below(x)) = i - 1
    <3>1. Cardinality(below(x)) + 1 = i
      BY <2>1
    <3>2. Cardinality(below(x)) \in Nat
      BY <1>2
    <3> QED
      BY <3>1, <3>2
  <2>3. Ranked(S, Less, i) \in S /\ Cardinality(below(Ranked(S, Less, i))) = i - 1
    BY <2>2 DEF Ranked
  <2> QED
    BY <2>3
<1> HIDE DEF rank, below, n
<1>9. ASSUME NEW x \in S PROVE \E i \in 1..n : Ranked(S, Less, i) = x
  <2>1. rank[x] \in 1..n
    BY <1>4
  <2> QED
    BY <1>5, <1>8, <2>1
<1>10. ASSUME NEW i \in 1..n, NEW j \in 1..n, i < j
       PROVE  <<Ranked(S, Less, i), Ranked(S, Less, j)>> \in Less
  <2> DEFINE x == Ranked(S, Less, i)
             y == Ranked(S, Less, j)
  <2>1. x \in S /\ y \in S /\ rank[x] = i /\ rank[y] = j
    BY <1>8
  <2> HIDE DEF x, y
  <2>2. x # y
    BY <1>10, <2>1
  <2>3. <<y, x>> \notin Less
    <3> SUFFICES ASSUME <<y, x>> \in Less PROVE FALSE
      OBVIOUS
    <3>1. Cardinality(below(y)) < Cardinality(below(x))
      BY <1>3, <2>1
    <3>2. Cardinality(below(y)) \in Nat /\ Cardinality(below(x)) \in Nat
      BY <1>2, <2>1
    <3>3. Cardinality(below(x)) + 1 = i /\ Cardinality(below(y)) + 1 = j
      BY <2>1 DEF rank
    <3> QED
      BY <1>10, <3>1, <3>2, <3>3
  <2>4. <<x, y>> \in Less
    BY <2>1, <2>2, <2>3 DEF IsOrder
  <2> QED
    BY <2>4 DEF x, y
<1> QED
  BY <1>8, <1>9, <1>10 DEF n
-----------------------------------------------------------------------------
(* Entries and tables *)

SeqsDiffer(T) == \A e, f \in T : e.seq = f.seq => e = f

Precedes(A, B)   == \A a \in A, b \in B : Before(a, b)
Newer(A, B)      == \A a \in A, b \in B : a.key = b.key => a.seq > b.seq
KeysDiffer(A, B) == \A a \in A, b \in B : a.key # b.key

LEMMA Constants ==
  /\ MaxKey \in Nat /\ MaxSequence \in Nat /\ MaxSnapshots \in Nat
  /\ kNumLevels \in Nat /\ kNumLevels >= 2
  /\ Levels = 0..(kNumLevels - 1) /\ 0 \in Levels
  /\ \A e \in Entries : e.key \in 1..MaxKey /\ e.seq \in 1..MaxSequence
                        /\ e.key \in Nat /\ e.seq \in Nat
BY VersionSetAssumption DEF Levels, Entries, Keys

LEMMA BeforeIsAnOrder ==
  /\ \A a \in Entries : ~ Before(a, a)
  /\ \A a, b, c \in Entries : Before(a, b) /\ Before(b, c) => Before(a, c)
  /\ \A a, b \in Entries : a.seq # b.seq => Before(a, b) \/ Before(b, a)
  /\ \A a, b \in Entries : Before(a, b) => ~ Before(b, a) /\ a.key <= b.key
BY Constants DEF Before

LEMMA EntriesAreFinite ==
  /\ IsFiniteSet(Entries)
  /\ \A T \in SUBSET Entries : IsFiniteSet(T) /\ Cardinality(T) \in Nat
<1>1. IsFiniteSet(Keys) /\ IsFiniteSet(1..MaxSequence) /\ IsFiniteSet(ValueTypes)
  <2>1. IsFiniteSet(1..MaxKey) /\ IsFiniteSet(1..MaxSequence)
    BY Constants, FS_Interval
  <2>2. IsFiniteSet({"value"} \cup {"deletion"})
    BY FS_Singleton, FS_AddElement
  <2>3. ValueTypes \subseteq {"value"} \cup {"deletion"}
    BY VersionSetAssumption
  <2> QED
    BY <2>1, <2>2, <2>3, FS_Subset DEF Keys
<1> DEFINE P == (Keys \X (1..MaxSequence)) \X ValueTypes
           f == [p \in P |-> [key |-> p[1][1], seq |-> p[1][2], type |-> p[2]]]
<1>2. IsFiniteSet(P)
  BY <1>1, FS_Product
<1>3. f \in Surjection(P, Entries)
  <2>1. f \in [P -> Entries]
    BY DEF Entries
  <2>2. ASSUME NEW e \in Entries PROVE \E p \in P : f[p] = e
    <3>1. <<<<e.key, e.seq>>, e.type>> \in P
      BY DEF Entries
    <3>2. f[<<<<e.key, e.seq>>, e.type>>] = e
      BY <3>1 DEF Entries
    <3> QED
      BY <3>1, <3>2
  <2> QED
    BY <2>1, <2>2 DEF Surjection
<1>4. IsFiniteSet(Entries)
  BY <1>2, <1>3, FS_Surjection
<1>5. \A T \in SUBSET Entries : IsFiniteSet(T)
  BY <1>4, FS_Subset
<1> QED
  BY <1>4, <1>5, FS_CardinalityType

LEMMA TablesAreFinite ==
  ASSUME NEW S, S \subseteq SUBSET Entries
  PROVE  IsFiniteSet(S) /\ Cardinality(S) \in Nat
<1>1. IsFiniteSet(SUBSET Entries)
  BY EntriesAreFinite, FS_SUBSET
<1>2. IsFiniteSet(S)
  BY <1>1, FS_Subset
<1> QED
  BY <1>2, FS_CardinalityType

\* The least and the greatest internal key of a table are those of two of its
\* entries.
LEMMA Ends ==
  ASSUME NEW T, T \subseteq Entries, T # {}, SeqsDiffer(T)
  PROVE  /\ Smallest(T) \in T /\ Largest(T) \in T
         /\ \A x \in T : x = Smallest(T) \/ Before(Smallest(T), x)
         /\ \A x \in T : x = Largest(T) \/ Before(x, Largest(T))
         /\ \A x \in T : Smallest(T).key <= x.key /\ x.key <= Largest(T).key
<1> DEFINE keys == {e.key : e \in T}
           seqs(k) == {e.seq : e \in {x \in T : x.key = k}}
<1>1. keys \subseteq Nat /\ keys # {} /\ MaxKey \in Nat /\ \A k \in keys : k <= MaxKey
  BY Constants
<1>2. ASSUME NEW k \in keys
      PROVE  seqs(k) \subseteq Nat /\ seqs(k) # {} /\ MaxSequence \in Nat
             /\ \A s \in seqs(k) : s <= MaxSequence
  BY Constants
<1>3. \E e \in T : \A x \in T \ {e} : Before(e, x)
  <2>1. Min(keys) \in keys /\ \A k \in keys : Min(keys) <= k
    BY <1>1, Least
  <2>2. Max(seqs(Min(keys))) \in seqs(Min(keys))
        /\ \A s \in seqs(Min(keys)) : s <= Max(seqs(Min(keys)))
    BY <1>2, <2>1, Greatest
  <2>3. PICK e \in T : e.key = Min(keys) /\ e.seq = Max(seqs(Min(keys)))
    BY <2>2
  <2>4. ASSUME NEW x \in T \ {e} PROVE Before(e, x)
    <3>1. x.key \in keys /\ e.key <= x.key
      BY <2>1, <2>3
    <3>2. x.key = e.key => x.seq \in seqs(Min(keys)) /\ x.seq <= e.seq
      BY <2>2, <2>3
    <3>3. x.seq # e.seq
      BY DEF SeqsDiffer
    <3> QED
      BY <3>1, <3>2, <3>3, Constants DEF Before
  <2> QED
    BY <2>4
<1>4. \E e \in T : \A x \in T \ {e} : Before(x, e)
  <2>1. Max(keys) \in keys /\ \A k \in keys : k <= Max(keys)
    BY <1>1, Greatest
  <2>2. Min(seqs(Max(keys))) \in seqs(Max(keys))
        /\ \A s \in seqs(Max(keys)) : Min(seqs(Max(keys))) <= s
    BY <1>2, <2>1, Least
  <2>3. PICK e \in T : e.key = Max(keys) /\ e.seq = Min(seqs(Max(keys)))
    BY <2>2
  <2>4. ASSUME NEW x \in T \ {e} PROVE Before(x, e)
    <3>1. x.key \in keys /\ x.key <= e.key
      BY <2>1, <2>3
    <3>2. x.key = e.key => x.seq \in seqs(Max(keys)) /\ e.seq <= x.seq
      BY <2>2, <2>3
    <3>3. x.seq # e.seq
      BY DEF SeqsDiffer
    <3> QED
      BY <3>1, <3>2, <3>3, Constants DEF Before
  <2> QED
    BY <2>4
<1>5. Smallest(T) \in T /\ \A x \in T : x = Smallest(T) \/ Before(Smallest(T), x)
  BY <1>3 DEF Smallest
<1>6. Largest(T) \in T /\ \A x \in T : x = Largest(T) \/ Before(x, Largest(T))
  BY <1>4 DEF Largest
<1>7. \A x \in T : Smallest(T).key <= x.key /\ x.key <= Largest(T).key
  <2> SUFFICES ASSUME NEW x \in T PROVE Smallest(T).key <= x.key /\ x.key <= Largest(T).key
    OBVIOUS
  <2>1. x \in Entries /\ Smallest(T) \in Entries /\ Largest(T) \in Entries
    BY <1>5, <1>6
  <2>2. x = Smallest(T) \/ Before(Smallest(T), x)
    BY <1>5
  <2>3. x = Largest(T) \/ Before(x, Largest(T))
    BY <1>6
  <2> QED
    BY <2>1, <2>2, <2>3, BeforeIsAnOrder, Constants
<1> QED
  BY <1>5, <1>6, <1>7
-----------------------------------------------------------------------------
(* What InOrder makes of entries, of tables and of the places of a sequence *)

LEMMA EntriesSorted ==
  ASSUME NEW S, S \subseteq Entries, SeqsDiffer(S)
  PROVE  LET s == InOrder(S, Before)
         IN /\ s \in [1..Cardinality(S) -> S] /\ Cardinality(S) \in Nat
            /\ \A e \in S : \E i \in 1..Cardinality(S) : s[i] = e
            /\ \A i, j \in 1..Cardinality(S) : i < j => Before(s[i], s[j])
<1> DEFINE s == InOrder(S, Before)
           R == {p \in S \X S : Before(p[1], p[2])}
<1>1. \A x, y \in S : <<x, y>> \in R <=> Before(x, y)
  OBVIOUS
<1>2. IsOrder(S, R)
  <2> HIDE DEF R
  <2> QED
    BY <1>1, BeforeIsAnOrder DEF IsOrder, SeqsDiffer
<1>3. s = [i \in 1..Cardinality(S) |-> CHOOSE x \in S : Cardinality({y \in S : Before(y, x)}) = i - 1]
  BY DEF InOrder
<1>4. \A x \in S : {y \in S : Before(y, x)} = {y \in S : <<y, x>> \in R}
  BY <1>1
<1> HIDE DEF R
<1>5. ASSUME NEW i \in 1..Cardinality(S) PROVE s[i] = Ranked(S, R, i)
  <2>1. \A x : (x \in S /\ Cardinality({y \in S : Before(y, x)}) = i - 1)
               <=> (x \in S /\ Cardinality({y \in S : <<y, x>> \in R}) = i - 1)
    BY <1>4
  <2>2. (CHOOSE x : x \in S /\ Cardinality({y \in S : Before(y, x)}) = i - 1)
        = (CHOOSE x : x \in S /\ Cardinality({y \in S : <<y, x>> \in R}) = i - 1)
    BY <2>1
  <2> QED
    BY <1>3, <2>2 DEF Ranked
<1>6. \A x, y \in S : <<x, y>> \in R => Before(x, y)
  BY <1>1
<1>7. IsFiniteSet(S) /\ Cardinality(S) \in Nat
  BY EntriesAreFinite
<1>8. \A i \in 1..Cardinality(S) : s[i] \in S
  BY <1>2, <1>5, <1>7, Sorting
<1>9. \A e \in S : \E i \in 1..Cardinality(S) : s[i] = e
  BY <1>2, <1>5, <1>7, Sorting
<1>10. \A i, j \in 1..Cardinality(S) : i < j => Before(s[i], s[j])
  <2>1. \A i, j \in 1..Cardinality(S) : i < j => <<s[i], s[j]>> \in R
    BY <1>2, <1>5, <1>7, Sorting
  <2> HIDE DEF s
  <2> QED
    BY <1>6, <1>8, <2>1
<1>11. s \in [1..Cardinality(S) -> S]
  BY <1>3, <1>8
<1> QED
  BY <1>7, <1>9, <1>10, <1>11

\* Tables that have something in them and nothing in common.
Disjoint(S) ==
  /\ S \subseteq (SUBSET Entries) \ {{}}
  /\ SeqsDiffer(UNION S)
  /\ \A A, B \in S : A # B => A \intersect B = {}

LEMMA TablesSorted ==
  ASSUME NEW S, Disjoint(S)
  PROVE  LET s == BySmallestKey(S)
         IN /\ s \in [1..Cardinality(S) -> S] /\ Cardinality(S) \in Nat
            /\ \A A \in S : \E i \in 1..Cardinality(S) : s[i] = A
            /\ \A i, j \in 1..Cardinality(S) : i < j => Before(Smallest(s[i]), Smallest(s[j]))
<1> DEFINE s == BySmallestKey(S)
           Less(A, B) == Before(Smallest(A), Smallest(B))
           R == {p \in S \X S : Less(p[1], p[2])}
<1>1. \A x, y \in S : <<x, y>> \in R <=> Less(x, y)
  OBVIOUS
<1>2. IsOrder(S, R)
  <2>1. ASSUME NEW A \in S PROVE Smallest(A) \in A /\ Smallest(A) \in Entries
    <3>1. A \subseteq Entries /\ A # {} /\ A \subseteq UNION S
      BY DEF Disjoint
    <3>2. SeqsDiffer(A)
      BY <3>1 DEF Disjoint, SeqsDiffer
    <3> QED
      BY <3>1, <3>2, Ends
  <2>2. ASSUME NEW A \in S, NEW B \in S, A # B PROVE Smallest(A).seq # Smallest(B).seq
    <3>1. Smallest(A) # Smallest(B)
      BY <2>1, <2>2 DEF Disjoint
    <3>2. Smallest(A) \in UNION S /\ Smallest(B) \in UNION S
      BY <2>1
    <3> QED
      BY <3>1, <3>2 DEF Disjoint, SeqsDiffer
  <2> HIDE DEF R
  <2> QED
    BY <1>1, <2>1, <2>2, BeforeIsAnOrder DEF IsOrder
<1>3. s = [i \in 1..Cardinality(S) |-> CHOOSE x \in S : Cardinality({y \in S : Less(y, x)}) = i - 1]
  BY DEF BySmallestKey, InOrder
<1> HIDE DEF Less
<1>4. \A x \in S : {y \in S : Less(y, x)} = {y \in S : <<y, x>> \in R}
  BY <1>1
<1> HIDE DEF R
<1>5. ASSUME NEW i \in 1..Cardinality(S) PROVE s[i] = Ranked(S, R, i)
  <2>1. \A x : (x \in S /\ Cardinality({y \in S : Less(y, x)}) = i - 1)
               <=> (x \in S /\ Cardinality({y \in S : <<y, x>> \in R}) = i - 1)
    BY <1>4
  <2>2. (CHOOSE x : x \in S /\ Cardinality({y \in S : Less(y, x)}) = i - 1)
        = (CHOOSE x : x \in S /\ Cardinality({y \in S : <<y, x>> \in R}) = i - 1)
    BY <2>1
  <2>3. s[i] = CHOOSE x \in S : Cardinality({y \in S : Less(y, x)}) = i - 1
    BY <1>3
  <2> HIDE DEF s
  <2> QED
    BY <2>2, <2>3 DEF Ranked
<1>6. \A x, y \in S : <<x, y>> \in R => Less(x, y)
  BY <1>1
<1>7. IsFiniteSet(S) /\ Cardinality(S) \in Nat
  BY TablesAreFinite DEF Disjoint
<1>8. \A i \in 1..Cardinality(S) : s[i] \in S
  BY <1>2, <1>5, <1>7, Sorting
<1>9. \A A \in S : \E i \in 1..Cardinality(S) : s[i] = A
  BY <1>2, <1>5, <1>7, Sorting
<1>10. \A i, j \in 1..Cardinality(S) : i < j => Less(s[i], s[j])
  <2>1. \A i, j \in 1..Cardinality(S) : i < j => <<s[i], s[j]>> \in R
    BY <1>2, <1>5, <1>7, Sorting
  <2> HIDE DEF s
  <2> QED
    BY <1>6, <1>8, <2>1
<1>11. s \in [1..Cardinality(S) -> S]
  BY <1>3, <1>8
<1> QED
  BY <1>7, <1>9, <1>10, <1>11 DEF Less

\* Without keeps the order of what it keeps.
LEMMA WithoutKeepsOrder ==
  ASSUME NEW S, NEW s \in Seq(S), NEW gone
  PROVE  /\ Without(s, gone) \in Seq(S)
         /\ ToSet(Without(s, gone)) = ToSet(s) \ gone
         /\ \A i, j \in DOMAIN Without(s, gone) : i < j =>
              \E x, y \in DOMAIN s : /\ x < y /\ s[x] = Without(s, gone)[i]
                                    /\ s[y] = Without(s, gone)[j]
<1> DEFINE kept == {i \in DOMAIN s : s[i] \notin gone}
           R == {p \in kept \X kept : p[1] < p[2]}
           order == InOrder(kept, <)
           n == Cardinality(kept)
<1>1. kept \subseteq DOMAIN s /\ DOMAIN s = 1..Len(s) /\ Len(s) \in Nat /\ kept \subseteq Nat
  BY LenProperties
<1>2. \A x, y \in kept : <<x, y>> \in R <=> x < y
  OBVIOUS
<1>3. IsFiniteSet(kept) /\ n \in Nat
  <2>1. IsFiniteSet(1..Len(s))
    BY <1>1, FS_Interval
  <2>2. IsFiniteSet(kept)
    BY <1>1, <2>1, FS_Subset
  <2> QED
    BY <2>2, FS_CardinalityType
<1>4. Without(s, gone) = [i \in 1..n |-> s[order[i]]]
  BY DEF Without
<1>5. order = [i \in 1..n |-> CHOOSE x \in kept : Cardinality({y \in kept : y < x}) = i - 1]
  BY DEF InOrder
<1>11. \A i \in DOMAIN s : i \in kept <=> s[i] \notin gone
  OBVIOUS
<1> HIDE DEF kept
<1>6. IsOrder(kept, R)
  <2> HIDE DEF R
  <2> QED
    BY <1>1, <1>2 DEF IsOrder
<1>7. \A x \in kept : {y \in kept : y < x} = {y \in kept : <<y, x>> \in R}
  BY <1>2
<1> HIDE DEF R, n, order
<1>8. ASSUME NEW i \in 1..n PROVE order[i] = Ranked(kept, R, i)
  <2>1. \A x : (x \in kept /\ Cardinality({y \in kept : y < x}) = i - 1)
               <=> (x \in kept /\ Cardinality({y \in kept : <<y, x>> \in R}) = i - 1)
    BY <1>7
  <2>2. (CHOOSE x : x \in kept /\ Cardinality({y \in kept : y < x}) = i - 1)
        = (CHOOSE x : x \in kept /\ Cardinality({y \in kept : <<y, x>> \in R}) = i - 1)
    BY <2>1
  <2> QED
    BY <1>5, <2>2 DEF Ranked
<1>9. \A i \in 1..n : order[i] \in kept
  BY <1>3, <1>6, <1>8, Sorting DEF n
<1>10. \A x \in kept : \E i \in 1..n : order[i] = x
  BY <1>3, <1>6, <1>8, Sorting DEF n
<1>12. \A i, j \in 1..n : i < j => order[i] < order[j]
  <2>1. \A i, j \in 1..n : i < j => <<order[i], order[j]>> \in R
    BY <1>3, <1>6, <1>8, Sorting DEF n
  <2> QED
    BY <1>2, <1>9, <2>1
<1>13. Without(s, gone) \in Seq(S)
  <2>1. \A i \in 1..n : s[order[i]] \in S
    BY <1>1, <1>9, ElementOfSeq
  <2> QED
    BY <1>3, <1>4, <2>1, IsASeq
<1>14. DOMAIN Without(s, gone) = 1..n /\ \A i \in 1..n : Without(s, gone)[i] = s[order[i]]
  BY <1>4
<1>15. ToSet(Without(s, gone)) = ToSet(s) \ gone
  <2>1. ASSUME NEW A \in ToSet(s) \ gone PROVE A \in ToSet(Without(s, gone))
    <3>1. PICK x \in DOMAIN s : s[x] = A
      BY DEF ToSet
    <3>2. PICK i \in 1..n : order[i] = x
      BY <1>10, <1>11, <3>1
    <3> QED
      BY <1>14, <3>1, <3>2 DEF ToSet
  <2>2. ASSUME NEW A \in ToSet(Without(s, gone)) PROVE A \in ToSet(s) \ gone
    <3>1. PICK i \in 1..n : s[order[i]] = A
      BY <1>14 DEF ToSet
    <3> QED
      BY <1>1, <1>9, <1>11, <3>1 DEF ToSet
  <2> QED
    BY <2>1, <2>2
<1>16. ASSUME NEW i \in DOMAIN Without(s, gone), NEW j \in DOMAIN Without(s, gone), i < j
       PROVE  \E x, y \in DOMAIN s : /\ x < y /\ s[x] = Without(s, gone)[i]
                                     /\ s[y] = Without(s, gone)[j]
  <2>1. order[i] \in DOMAIN s /\ order[j] \in DOMAIN s /\ order[i] < order[j]
    BY <1>1, <1>9, <1>12, <1>14, <1>16
  <2> QED
    BY <1>14, <2>1
<1> QED
  BY <1>13, <1>15, <1>16
-----------------------------------------------------------------------------
(* The files that a range of keys overlaps *)

LEMMA DisjointSubset ==
  ASSUME NEW S, Disjoint(S), NEW R, R \subseteq S
  PROVE  Disjoint(R)
<1>1. R \subseteq (SUBSET Entries) \ {{}} /\ UNION R \subseteq UNION S
  BY DEF Disjoint
<1>2. SeqsDiffer(UNION R)
  BY <1>1 DEF Disjoint, SeqsDiffer
<1> QED
  BY <1>1, <1>2 DEF Disjoint

LEMMA TableEnds ==
  ASSUME NEW S, Disjoint(S), NEW T \in S
  PROVE  /\ T \subseteq Entries /\ T # {} /\ SeqsDiffer(T)
         /\ Smallest(T) \in T /\ Largest(T) \in T
         /\ \A x \in T : Smallest(T).key <= x.key /\ x.key <= Largest(T).key
         /\ \A x \in T : x = Smallest(T) \/ Before(Smallest(T), x)
         /\ \A x \in T : x = Largest(T) \/ Before(x, Largest(T))
         /\ Smallest(T).key \in 1..MaxKey /\ Largest(T).key \in 1..MaxKey
         /\ Smallest(T).key <= Largest(T).key
<1>1. T \subseteq Entries /\ T # {}
  BY DEF Disjoint
<1>2. SeqsDiffer(T)
  <2>1. T \subseteq UNION S
    OBVIOUS
  <2> QED
    BY <2>1 DEF Disjoint, SeqsDiffer
<1>3. Smallest(T) \in Entries /\ Largest(T) \in Entries /\ Smallest(T) \in T
  BY <1>1, <1>2, Ends
<1>4. Smallest(T).key \in 1..MaxKey /\ Largest(T).key \in 1..MaxKey
  BY <1>3, Constants
<1> QED
  BY <1>1, <1>2, <1>3, <1>4, Ends

LEMMA SetEnds ==
  ASSUME NEW S, Disjoint(S), S # {}
  PROVE  /\ UNION S \subseteq Entries /\ UNION S # {}
         /\ Low(S) \in UNION S /\ High(S) \in UNION S
         /\ \A x \in UNION S : Low(S).key <= x.key /\ x.key <= High(S).key
         /\ \A x \in UNION S : x = Low(S) \/ Before(Low(S), x)
         /\ \A x \in UNION S : x = High(S) \/ Before(x, High(S))
         /\ Low(S).key \in 1..MaxKey /\ High(S).key \in 1..MaxKey
         /\ Low(S).key <= High(S).key
         /\ \A T \in S : Low(S).key <= Smallest(T).key /\ Largest(T).key <= High(S).key
<1>1. UNION S \subseteq Entries /\ UNION S # {} /\ SeqsDiffer(UNION S)
  BY DEF Disjoint
<1>2. /\ Low(S) \in UNION S /\ High(S) \in UNION S
      /\ \A x \in UNION S : Low(S).key <= x.key /\ x.key <= High(S).key
      /\ \A x \in UNION S : x = Low(S) \/ Before(Low(S), x)
      /\ \A x \in UNION S : x = High(S) \/ Before(x, High(S))
  BY <1>1, Ends DEF Low, High
<1>3. Low(S).key \in 1..MaxKey /\ High(S).key \in 1..MaxKey
  BY <1>1, <1>2, Constants
<1>4. ASSUME NEW T \in S PROVE Low(S).key <= Smallest(T).key /\ Largest(T).key <= High(S).key
  <2>1. Smallest(T) \in UNION S /\ Largest(T) \in UNION S
    BY TableEnds
  <2> QED
    BY <1>2, <2>1
<1> QED
  BY <1>1, <1>2, <1>3, <1>4

\* Two tables whose ranges do not meet share no key.
LEMMA OutsideSharesNoKey ==
  ASSUME NEW S, Disjoint(S), NEW T \in S, NEW lo \in Nat, NEW hi \in Nat,
         ~ Overlaps(T, lo, hi)
  PROVE  (\A t \in T : t.key < lo) \/ (\A t \in T : t.key > hi)
<1>1. /\ \A x \in T : Smallest(T).key <= x.key /\ x.key <= Largest(T).key
      /\ Smallest(T).key \in Nat /\ Largest(T).key \in Nat
      /\ \A x \in T : x.key \in Nat
  BY TableEnds, Constants
<1> QED
  BY <1>1 DEF Overlaps

\* In the levels under level 0 the files are those that overlap the range.
LEMMA DeepInputs ==
  ASSUME NEW v, NEW l, l # 0, NEW lo, NEW hi
  PROVE  OverlappingInputs(v, l, lo, hi) = {T \in ToSet(v[l]) : Overlaps(T, lo, hi)}
BY DEF OverlappingInputs

\* In level 0 they are those that overlap the smallest range that no file reaches
\* across.
LEMMA LevelZeroInputs ==
  ASSUME NEW v, Disjoint(ToSet(v[0])),
         NEW lo \in Nat, NEW hi \in Nat, hi <= MaxKey + 1
  PROVE  \E from, to \in Nat :
           /\ from <= lo /\ hi <= to /\ to <= MaxKey + 1
           /\ OverlappingInputs(v, 0, lo, hi) = {T \in ToSet(v[0]) : Overlaps(T, from, to)}
           /\ \A T \in ToSet(v[0]) : Overlaps(T, from, to) =>
                from <= Smallest(T).key /\ Largest(T).key <= to
           /\ \A k \in from..to : (k < lo \/ hi < k) =>
                \E T \in ToSet(v[0]) : Overlaps(T, from, to) /\ Overlaps(T, k, k)
<1> DEFINE F == ToSet(v[0])
           Closed(r) == \A T \in F :
                     Overlaps(T, r[1], r[2]) => /\ r[1] <= Smallest(T).key
                                                /\ Largest(T).key <= r[2]
           ranges == {r \in (0..lo) \X (hi..(MaxKey + 1)) : Closed(r)}
           lows  == {r[1] : r \in ranges}
           highs == {r[2] : r \in ranges}
           from == Max(lows)
           to == Min(highs)
<1>0. OverlappingInputs(v, 0, lo, hi) = {T \in F : Overlaps(T, from, to)}
  BY DEF OverlappingInputs
<1>1. \A T \in F : Smallest(T).key \in 1..MaxKey /\ Largest(T).key \in 1..MaxKey
                   /\ Smallest(T).key <= Largest(T).key
  BY TableEnds
<1>2. MaxKey \in Nat
  BY Constants
<1> HIDE DEF F
<1>3. <<0, MaxKey + 1>> \in ranges
  <2>1. Closed(<<0, MaxKey + 1>>)
    BY <1>1, <1>2
  <2>2. <<0, MaxKey + 1>> \in (0..lo) \X (hi..(MaxKey + 1))
    BY <1>2
  <2> QED
    BY <2>1, <2>2
<1>4. \A r \in ranges : r[1] \in 0..lo /\ r[2] \in hi..(MaxKey + 1) /\ Closed(r)
  OBVIOUS
<1>5. ASSUME NEW a \in 0..lo, NEW b \in hi..(MaxKey + 1), Closed(<<a, b>>)
      PROVE  <<a, b>> \in ranges
  <2>1. <<a, b>> \in (0..lo) \X (hi..(MaxKey + 1))
    OBVIOUS
  <2> QED
    BY <1>5, <2>1
<1> HIDE DEF ranges
<1>6. lows \subseteq Nat /\ lows # {} /\ \A x \in lows : x <= lo
  BY <1>3, <1>4
<1>7. highs \subseteq Nat /\ highs # {}
  BY <1>2, <1>3, <1>4
<1>8. from \in lows /\ \A x \in lows : x <= from
  BY <1>6, Greatest
<1>9. to \in highs /\ \A x \in highs : to <= x
  BY <1>7, Least
<1>10. PICK r1 \in ranges : r1[1] = from
  BY <1>8
<1>11. PICK r2 \in ranges : r2[2] = to
  BY <1>9
<1>12. \A r \in ranges : r[1] <= from /\ to <= r[2]
  BY <1>8, <1>9
<1> HIDE DEF lows, highs, from, to
<1>13. from \in 0..lo /\ to \in hi..(MaxKey + 1) /\ from \in Nat /\ to \in Nat
  BY <1>2, <1>4, <1>10, <1>11
<1>14. ASSUME NEW T \in F, Overlaps(T, from, to)
       PROVE  from <= Smallest(T).key /\ Largest(T).key <= to
  <2>1. Overlaps(T, r1[1], r1[2])
    BY <1>1, <1>2, <1>4, <1>10, <1>12, <1>13, <1>14 DEF Overlaps
  <2>2. Overlaps(T, r2[1], r2[2])
    BY <1>1, <1>2, <1>4, <1>11, <1>12, <1>13, <1>14 DEF Overlaps
  <2> QED
    BY <1>4, <1>10, <1>11, <2>1, <2>2
<1>15. ASSUME NEW k \in from..to, k < lo \/ hi < k
       PROVE  \E T \in F : Overlaps(T, from, to) /\ Overlaps(T, k, k)
  <2>1. SUFFICES ASSUME \A T \in F : Overlaps(T, from, to) => ~ Overlaps(T, k, k)
                 PROVE  FALSE
    OBVIOUS
  <2>2. k \in Nat
    BY <1>13
  <2>3. CASE k < lo
    <3>1. Closed(<<k + 1, to>>)
      BY <1>1, <1>2, <1>13, <1>14, <2>1, <2>2, <2>3 DEF Overlaps
    <3>2. <<k + 1, to>> \in ranges
      BY <1>5, <1>13, <2>2, <2>3, <3>1
    <3> QED
      BY <1>12, <1>13, <2>2, <3>2
  <2>4. CASE hi < k
    <3>1. Closed(<<from, k - 1>>)
      BY <1>1, <1>2, <1>13, <1>14, <2>1, <2>2, <2>4 DEF Overlaps
    <3>2. <<from, k - 1>> \in ranges
      BY <1>2, <1>5, <1>13, <2>2, <2>4, <3>1
    <3> QED
      BY <1>12, <1>13, <2>2, <3>2
  <2> QED
    BY <1>15, <2>3, <2>4
<1>16. /\ from <= lo /\ hi <= to /\ to <= MaxKey + 1
       /\ OverlappingInputs(v, 0, lo, hi) = {T \in F : Overlaps(T, from, to)}
       /\ \A T \in F : Overlaps(T, from, to) =>
            from <= Smallest(T).key /\ Largest(T).key <= to
       /\ \A k \in from..to : (k < lo \/ hi < k) =>
            \E T \in F : Overlaps(T, from, to) /\ Overlaps(T, k, k)
  BY <1>0, <1>2, <1>13, <1>14, <1>15
<1> QED
  BY <1>13, <1>16 DEF F

\* So no other file of level 0 shares a key with them.
LEMMA LevelZeroIsClosed ==
  ASSUME NEW v, Disjoint(ToSet(v[0])),
         NEW lo \in Nat, NEW hi \in Nat, hi <= MaxKey + 1
  PROVE  LET U == OverlappingInputs(v, 0, lo, hi)
         IN /\ U \subseteq ToSet(v[0])
            /\ \A T \in ToSet(v[0]) : Overlaps(T, lo, hi) => T \in U
            /\ \A T \in ToSet(v[0]) \ U : KeysDiffer(T, UNION U)
<1> DEFINE U == OverlappingInputs(v, 0, lo, hi)
           F == ToSet(v[0])
<1>1. PICK from \in Nat, to \in Nat :
        /\ from <= lo /\ hi <= to /\ to <= MaxKey + 1
        /\ U = {T \in F : Overlaps(T, from, to)}
        /\ \A T \in F : Overlaps(T, from, to) =>
             from <= Smallest(T).key /\ Largest(T).key <= to
  BY LevelZeroInputs
<1>2. \A T \in F : /\ Smallest(T).key \in 1..MaxKey /\ Largest(T).key \in 1..MaxKey
                   /\ \A t \in T : t.key \in Nat
                   /\ \A t \in T : Smallest(T).key <= t.key /\ t.key <= Largest(T).key
  BY TableEnds, Constants
<1>3. MaxKey \in Nat
  BY Constants
<1> HIDE DEF U, F
<1>4. \A T \in F : Overlaps(T, lo, hi) => T \in U
  BY <1>1, <1>2, <1>3 DEF Overlaps
<1>5. ASSUME NEW T \in F \ U, NEW t \in T, NEW A \in U, NEW a \in A PROVE t.key # a.key
  <2>1. from <= Smallest(A).key /\ Largest(A).key <= to /\ A \in F /\ ~ Overlaps(T, from, to)
    BY <1>1
  <2>2. from <= a.key /\ a.key <= to
    BY <1>1, <1>2, <1>3, <2>1
  <2>3. t.key < from \/ to < t.key
    BY <1>1, <1>2, <1>3, <2>1 DEF Overlaps
  <2> QED
    BY <1>1, <1>2, <2>1, <2>2, <2>3
<1>6. \A T \in F \ U : KeysDiffer(T, UNION U)
  BY <1>5 DEF KeysDiffer
<1> QED
  BY <1>1, <1>4, <1>6 DEF U, F

\* Every user key in the hull of S is in the range of a member.
Gapless(S) ==
  \A A, B \in S : \A k \in Keys :
    Smallest(A).key <= k /\ k <= Largest(B).key => \E C \in S : Overlaps(C, k, k)

\* What overlaps the keys of S in a level, and what does not.
LEMMA UnderIsWhatOverlaps ==
  ASSUME NEW v, NEW l \in Levels, Disjoint(ToSet(v[l])),
         NEW S, Disjoint(S), S # {}
  PROVE  LET U == Under(v, l, S)
         IN /\ U \subseteq ToSet(v[l])
            /\ \A T \in ToSet(v[l]) : Overlaps(T, Low(S).key, High(S).key) => T \in U
            /\ l # 0 => \A T \in U : Overlaps(T, Low(S).key, High(S).key)
            /\ l = 0 => \A T \in ToSet(v[l]) \ U : KeysDiffer(T, UNION U)
            /\ \A T \in ToSet(v[l]) \ U : \/ \A t \in T : t.key < Low(S).key
                                         \/ \A t \in T : t.key > High(S).key
            /\ \A T \in ToSet(v[l]) \ U : KeysDiffer(T, UNION S)
<1> DEFINE U == Under(v, l, S)
           F == ToSet(v[l])
           lo == Low(S).key
           hi == High(S).key
<1>1. /\ lo \in 1..MaxKey /\ hi \in 1..MaxKey /\ lo <= hi /\ MaxKey \in Nat
      /\ \A x \in UNION S : lo <= x.key /\ x.key <= hi /\ x.key \in Nat
  BY SetEnds, Constants
<1>2. U = OverlappingInputs(v, l, lo, hi)
  BY Constants DEF Under
<1>3. \A T \in F : /\ Smallest(T).key \in 1..MaxKey /\ Largest(T).key \in 1..MaxKey
                   /\ \A t \in T : t.key \in Nat
                   /\ \A t \in T : Smallest(T).key <= t.key /\ t.key <= Largest(T).key
  BY TableEnds, Constants
<1> HIDE DEF U, F, lo, hi
<1>4. /\ U \subseteq F
      /\ \A T \in F : Overlaps(T, lo, hi) => T \in U
      /\ l # 0 => \A T \in U : Overlaps(T, lo, hi)
      /\ l = 0 => \A T \in F \ U : KeysDiffer(T, UNION U)
  <2>1. CASE l # 0
    BY <1>2, <2>1, DeepInputs DEF F
  <2>2. CASE l = 0
    <3>1. lo \in Nat /\ hi \in Nat /\ hi <= MaxKey + 1
      BY <1>1
    <3>2. Disjoint(ToSet(v[0]))
      BY <2>2
    <3> QED
      BY <1>2, <2>2, <3>1, <3>2, LevelZeroIsClosed DEF F
  <2> QED
    BY <2>1, <2>2
<1>5. ASSUME NEW T \in F \ U PROVE (\A t \in T : t.key < lo) \/ (\A t \in T : t.key > hi)
  <2>1. ~ Overlaps(T, lo, hi)
    BY <1>4
  <2>2. lo \in Nat /\ hi \in Nat
    BY <1>1
  <2> QED
    BY <2>1, <2>2, OutsideSharesNoKey DEF F
<1>6. \A T \in F \ U : KeysDiffer(T, UNION S)
  BY <1>1, <1>3, <1>5 DEF KeysDiffer
<1> QED
  BY <1>4, <1>5, <1>6 DEF U, F, lo, hi
-----------------------------------------------------------------------------
(* The state of the tree *)

Files(l)  == ToSet(files[l])
Disk      == UNION {Files(l) : l \in Levels}
Flushing  == UNION ToSet(imm)
Stored    == mem \union Flushing \union UNION Disk
Inputs(c) == c.inputs[1] \union c.inputs[2]

\* No entry is stored twice, and none has a number that was not given out.
Once ==
  /\ Stored \subseteq Entries
  /\ \A e \in Stored : e.seq <= lastSequence
  /\ SeqsDiffer(Stored)
  /\ \A l \in Levels : files[l] \in Seq(SUBSET Entries)
  /\ Disjoint(Disk)
  /\ \A l, m \in Levels : l # m => Files(l) \intersect Files(m) = {}
  /\ mem \intersect (Flushing \union UNION Disk) = {}
  /\ Flushing \intersect UNION Disk = {}

\* What a compaction may start from: files of one level, and with a file of level
\* 0 all that share a key with it.
Chosen(l, S) ==
  /\ l \in 0..(kNumLevels - 2)
  /\ S # {} /\ S \subseteq Files(l)
  /\ l = 0 => \A T \in Files(0) \ S : KeysDiffer(T, UNION S)

LEMMA LevelsAreDisjoint ==
  ASSUME Once
  PROVE  /\ \A l \in Levels : Disjoint(Files(l)) /\ Files(l) \subseteq Disk
         /\ \A S \in SUBSET Disk : Disjoint(S) /\ IsFiniteSet(S) /\ Cardinality(S) \in Nat
<1>1. \A S \in SUBSET Disk : Disjoint(S)
  BY DisjointSubset DEF Once
<1>2. \A l \in Levels : Files(l) \subseteq Disk
  BY DEF Disk
<1>3. ASSUME NEW S \in SUBSET Disk PROVE IsFiniteSet(S) /\ Cardinality(S) \in Nat
  <2>1. S \subseteq SUBSET Entries
    BY <1>1 DEF Disjoint
  <2> QED
    BY <2>1, TablesAreFinite
<1> QED
  BY <1>1, <1>2, <1>3

\* What the files of S may grow to.
Expanded(l, S) == Under(files, l, S \union Under(files, l + 1, S))

LEMMA InputsOfASetup ==
  ASSUME Once, NEW l, NEW S, Chosen(l, S)
  PROVE  LET c == SetupOtherInputs(l, S)
         IN /\ c.level = l /\ c.version = files /\ c.smallest_snapshot = SmallestSnapshot
            /\ Chosen(l, c.inputs[1])
            /\ c.inputs[2] = Under(files, l + 1, c.inputs[1])
            /\ c.inputs[2] \subseteq Files(l + 1)
            /\ \/ c.inputs[1] = S
               \/ /\ Under(files, l + 1, S) \subseteq Files(l + 1)
                  /\ c.inputs[1] = Expanded(l, S)
<1> DEFINE c == SetupOtherInputs(l, S)
           next == Under(files, l + 1, S)
           expanded == Under(files, l, S \union next)
<1>1. l \in Levels /\ l + 1 \in Levels /\ l \in Nat
  BY Constants DEF Chosen
<1>2. /\ c.level = l /\ c.version = files /\ c.smallest_snapshot = SmallestSnapshot
      /\ \/ c.inputs = <<S, next>>
         \/ /\ c.inputs = <<expanded, Under(files, l + 1, expanded)>>
            /\ Cardinality(expanded) > Cardinality(S)
  BY DEF SetupOtherInputs
<1>3. /\ Disjoint(ToSet(files[l])) /\ Disjoint(ToSet(files[l + 1]))
      /\ S \subseteq Disk /\ Disjoint(S) /\ S # {} /\ Cardinality(S) \in Nat
  <2>1. S \subseteq Disk
    BY <1>1, LevelsAreDisjoint DEF Chosen
  <2> QED
    BY <1>1, <2>1, LevelsAreDisjoint DEF Chosen, Files
<1>4. next \subseteq ToSet(files[l + 1])
  BY <1>1, <1>3, UnderIsWhatOverlaps
<1> HIDE DEF next
<1>5. Disjoint(S \union next) /\ S \union next # {}
  <2>1. S \union next \subseteq Disk
    BY <1>1, <1>3, <1>4, LevelsAreDisjoint DEF Files
  <2> QED
    BY <1>3, <2>1, LevelsAreDisjoint
<1>6. /\ expanded \subseteq ToSet(files[l])
      /\ \A T \in ToSet(files[l]) :
           Overlaps(T, Low(S \union next).key, High(S \union next).key) => T \in expanded
      /\ l = 0 => \A T \in ToSet(files[l]) \ expanded : KeysDiffer(T, UNION expanded)
  BY <1>1, <1>3, <1>5, UnderIsWhatOverlaps
<1> HIDE DEF expanded
<1>7. S \subseteq expanded
  <2> SUFFICES ASSUME NEW T \in S PROVE T \in expanded
    OBVIOUS
  <2>1. /\ Low(S \union next).key <= Smallest(T).key /\ Largest(T).key <= High(S \union next).key
        /\ Low(S \union next).key \in Nat /\ High(S \union next).key \in Nat
    BY <1>5, SetEnds
  <2>2. Smallest(T).key \in Nat /\ Largest(T).key \in Nat /\ Smallest(T).key <= Largest(T).key
    BY <1>3, TableEnds
  <2>3. Overlaps(T, Low(S \union next).key, High(S \union next).key)
    BY <2>1, <2>2 DEF Overlaps
  <2> QED
    BY <1>6, <2>3 DEF Chosen, Files
<1>8. Chosen(l, expanded)
  BY <1>3, <1>6, <1>7 DEF Chosen, Files
<1>9. Under(files, l + 1, expanded) \subseteq ToSet(files[l + 1])
  <2>1. Disjoint(expanded) /\ expanded # {}
    BY <1>3, <1>6, <1>7, DisjointSubset
  <2> QED
    BY <1>1, <1>3, <2>1, UnderIsWhatOverlaps
<1> HIDE DEF c
<1>10. CASE c.inputs = <<S, next>>
  <2>1. c.inputs[1] = S /\ c.inputs[2] = next
    BY <1>10
  <2> QED
    BY <1>2, <1>4, <2>1 DEF c, next, Files
<1>11. CASE c.inputs = <<expanded, Under(files, l + 1, expanded)>>
  <2>1. c.inputs[1] = expanded /\ c.inputs[2] = Under(files, l + 1, expanded)
    BY <1>11
  <2> QED
    BY <1>2, <1>4, <1>8, <1>9, <2>1 DEF c, next, expanded, Expanded, Files
<1> QED
  BY <1>2, <1>10, <1>11

\* The level and the file of an automatic compaction.
LEMMA PickedInputs ==
  ASSUME Once, NeedsCompaction(files, file_to_compact),
         \/ file_to_compact = << >>
         \/ \E l \in 0..(kNumLevels - 2) : \E T \in Files(l) : file_to_compact = <<l, T>>
  PROVE  \E l \in 0..(kNumLevels - 2) : \E T \in Files(l) :
           LET S == IF l = 0 THEN Under(files, 0, {T}) ELSE {T}
           IN T \in S /\ Chosen(l, S) /\ PickCompaction = SetupOtherInputs(l, S)
<1> DEFINE l == IF TooFull(files) THEN BestLevel(files) ELSE file_to_compact[1]
           inKeyOrder == BySmallestKey(ToSet(files[l]))
           after == {i \in DOMAIN inKeyOrder :
                       Before(compact_pointer[l], Largest(inKeyOrder[i]))}
           T == IF ~ TooFull(files) THEN file_to_compact[2]
                ELSE inKeyOrder[IF after # {} THEN Min(after) ELSE 1]
           S == IF l = 0 THEN Under(files, 0, {T}) ELSE {T}
<1>1. PickCompaction = SetupOtherInputs(l, S)
  BY DEF PickCompaction
<1>2. l \in 0..(kNumLevels - 2) /\ T \in Files(l)
  <2>1. CASE ~ TooFull(files)
    <3>1. \E m \in 0..(kNumLevels - 2) : \E F \in Files(m) : file_to_compact = <<m, F>>
      BY <2>1 DEF NeedsCompaction
    <3>2. PICK m \in 0..(kNumLevels - 2) : \E F \in Files(m) : file_to_compact = <<m, F>>
      BY <3>1
    <3>3. PICK F \in Files(m) : file_to_compact = <<m, F>>
      BY <3>2
    <3>4. l = m /\ T = F
      BY <2>1, <3>3
    <3> QED
      BY <3>4
  <2>2. CASE TooFull(files)
    <3>1. l = BestLevel(files) /\ l \in 0..(kNumLevels - 2) /\ l \in Levels
      BY <2>2, BestLevelIsALevel, Constants
    <3>2. MaxBytesForLevel[l] \in Nat \ {0} /\ Load(files, l) >= MaxBytesForLevel[l]
      BY <2>2, <3>1, LimitsArePositive DEF TooFull
    <3>3. Disjoint(ToSet(files[l])) /\ Cardinality(ToSet(files[l])) \in Nat
          /\ files[l] \in Seq(SUBSET Entries)
      BY <3>1, LevelsAreDisjoint DEF Files, Once
    <3> HIDE DEF l
    <3>4. ToSet(files[l]) # {}
      <4> SUFFICES ASSUME ToSet(files[l]) = {} PROVE FALSE
        OBVIOUS
      <4>1. CASE l = 0
        <5>1. Len(files[0]) > 0 /\ DOMAIN files[0] = 1..Len(files[0]) /\ Len(files[0]) \in Nat
          BY <3>2, <3>3, <4>1, LenProperties DEF Load
        <5>2. files[0][1] \in ToSet(files[0])
          BY <5>1 DEF ToSet
        <5> QED
          BY <4>1, <5>2
      <4>2. CASE l # 0
        <5>1. Load(files, l) = Cardinality({})
          BY <4>2 DEF Load, Bytes
        <5> QED
          BY <3>2, <5>1, FS_EmptySet
      <4> QED
        BY <4>1, <4>2
    <3>5. inKeyOrder \in [1..Cardinality(ToSet(files[l])) -> ToSet(files[l])]
      BY <3>3, TablesSorted
    <3>6. Cardinality(ToSet(files[l])) >= 1
      BY <3>3, <3>4, TablesSorted
    <3>7. T \in ToSet(files[l])
      <4> HIDE DEF inKeyOrder
      <4>1. DOMAIN inKeyOrder = 1..Cardinality(ToSet(files[l]))
        BY <3>5
      <4>2. after \subseteq Nat /\ after \subseteq DOMAIN inKeyOrder
        BY <3>3, <4>1
      <4> HIDE DEF after
      <4>3. after # {} => Min(after) \in DOMAIN inKeyOrder
        BY <4>2, Least
      <4>4. 1 \in DOMAIN inKeyOrder
        BY <3>3, <3>6, <4>1
      <4> QED
        BY <2>2, <3>5, <4>3, <4>4
    <3> QED
      BY <3>1, <3>7 DEF Files
  <2> QED
    BY <2>1, <2>2
<1> HIDE DEF l, T
<1>3. l \in Levels /\ Disjoint(ToSet(files[l])) /\ Disjoint({T}) /\ T \in ToSet(files[l])
  <2>1. l \in Levels
    BY <1>2, Constants
  <2> QED
    BY <1>2, <2>1, LevelsAreDisjoint, DisjointSubset DEF Files
<1>4. T \in S /\ Chosen(l, S)
  <2>1. CASE l = 0
    <3>1. /\ Under(files, l, {T}) \subseteq ToSet(files[l])
          /\ \A F \in ToSet(files[l]) : Overlaps(F, Low({T}).key, High({T}).key) => F \in Under(files, l, {T})
          /\ \A F \in ToSet(files[l]) \ Under(files, l, {T}) : KeysDiffer(F, UNION Under(files, l, {T}))
      BY <1>3, <2>1, UnderIsWhatOverlaps
    <3>2. T \in Under(files, l, {T})
      <4>1. Low({T}) = Smallest(T) /\ High({T}) = Largest(T)
        BY UNION {T} = T DEF Low, High
      <4>2. Smallest(T).key <= Largest(T).key /\ Smallest(T).key \in Nat /\ Largest(T).key \in Nat
        BY <1>3, TableEnds
      <4> QED
        BY <1>3, <3>1, <4>1, <4>2 DEF Overlaps
    <3> QED
      BY <1>2, <2>1, <3>1, <3>2 DEF Chosen, Files
  <2>2. CASE l # 0
    BY <1>2, <2>2 DEF Chosen
  <2> QED
    BY <2>1, <2>2
<1> HIDE DEF S
<1> QED
  BY <1>1, <1>2, <1>4 DEF S

\* What CompactRange hands to a compaction.
LEMMA RangeInputsAreChosen ==
  ASSUME Once, NEW l \in 0..(kNumLevels - 2), NEW lo \in 0..MaxKey, NEW hi \in 1..(MaxKey + 1),
         RangeInputs(l, lo, hi) # {}
  PROVE  Chosen(l, RangeInputs(l, lo, hi))
<1> DEFINE O == OverlappingInputs(files, l, lo, hi)
           all == BySmallestKey(O)
           Total(n) == Bytes({all[i] : i \in 1..n})
           enough == {n \in DOMAIN all : l > 0 /\ Total(n) >= max_file_size}
           R == {all[i] : i \in 1..(IF enough = {} THEN Len(all) ELSE Min(enough))}
<1>1. RangeInputs(l, lo, hi) = R
  BY DEF RangeInputs
<1>2. l \in Levels /\ lo \in Nat /\ hi \in Nat /\ hi <= MaxKey + 1
  BY Constants
<1>3. O \subseteq Files(l)
  <2>1. CASE l = 0
    BY <1>2, <2>1, LevelsAreDisjoint, LevelZeroIsClosed DEF Files
  <2>2. CASE l # 0
    BY <2>2, DeepInputs DEF Files
  <2> QED
    BY <2>1, <2>2
<1>4. Disjoint(O)
  BY <1>2, <1>3, LevelsAreDisjoint, DisjointSubset
<1> HIDE DEF O
<1>5. /\ all \in [1..Cardinality(O) -> O] /\ Cardinality(O) \in Nat
      /\ \A A \in O : \E i \in 1..Cardinality(O) : all[i] = A
  BY <1>4, TablesSorted
<1> HIDE DEF all
<1>6. DOMAIN all = 1..Cardinality(O) /\ Len(all) = Cardinality(O)
  BY <1>5, LenProperties, IsASeq
<1>7. R \subseteq O
  <2>1. enough # {} => Min(enough) \in DOMAIN all
    <3>1. enough \subseteq Nat /\ enough \subseteq DOMAIN all
      BY <1>6
    <3> HIDE DEF enough
    <3> QED
      BY <3>1, Least
  <2> HIDE DEF enough
  <2> QED
    BY <1>5, <1>6, <2>1
<1>8. l = 0 => R = O
  <2> SUFFICES ASSUME l = 0 PROVE R = O
    OBVIOUS
  <2>1. enough = {}
    OBVIOUS
  <2> HIDE DEF enough
  <2>2. \A A \in O : A \in R
    BY <1>5, <1>6, <2>1
  <2> QED
    BY <1>7, <2>2
<1> HIDE DEF R
<1>9. l = 0 => \A T \in Files(0) \ R : KeysDiffer(T, UNION R)
  <2> SUFFICES ASSUME l = 0 PROVE \A T \in Files(0) \ R : KeysDiffer(T, UNION R)
    OBVIOUS
  <2>1. \A T \in ToSet(files[0]) \ O : KeysDiffer(T, UNION O)
    BY <1>2, LevelsAreDisjoint, LevelZeroIsClosed DEF Files, O
  <2> QED
    BY <1>8, <2>1 DEF Files
<1> QED
  BY <1>1, <1>3, <1>7, <1>9 DEF Chosen

\* A memtable goes below level 0 only if no file of the levels down to its own
\* overlaps it.
LEMMA LevelForMemTable ==
  ASSUME NEW T
  PROVE  LET p == PickLevelForMemTableOutput(T)
         IN /\ p \in 0..(kNumLevels - 2)
            /\ p # 0 => \A l \in 0..p : \A F \in Files(l) :
                          ~ Overlaps(F, Smallest(T).key, Largest(T).key)
<1> DEFINE lo == Smallest(T).key
           hi == Largest(T).key
           Stops(l) == \/ l = kMaxMemCompactLevel
                       \/ OverlapInLevel(files, l + 1, lo, hi)
                       \/ Bytes(Under(files, l + 2, {T})) > MaxGrandParentOverlapBytes
           stops == {l \in 0..kMaxMemCompactLevel : Stops(l)}
           p == PickLevelForMemTableOutput(T)
<1>1. p = IF OverlapInLevel(files, 0, lo, hi) THEN 0 ELSE Min(stops)
  BY DEF PickLevelForMemTableOutput
<1>2. kMaxMemCompactLevel \in Nat /\ kMaxMemCompactLevel <= kNumLevels - 2 /\ kNumLevels \in Nat
  BY VersionSetAssumption
<1>3. stops \subseteq Nat /\ stops # {}
  <2>1. kMaxMemCompactLevel \in stops
    BY <1>2
  <2> QED
    BY <2>1
<1>4. Min(stops) \in stops /\ \A l \in stops : Min(stops) <= l
  BY <1>3, Least
<1>5. \A l \in 0..kMaxMemCompactLevel : l \notin stops => ~ OverlapInLevel(files, l + 1, lo, hi)
  OBVIOUS
<1>6. stops \subseteq 0..kMaxMemCompactLevel
  OBVIOUS
<1> HIDE DEF p, stops, lo, hi
<1>7. p \in 0..(kNumLevels - 2)
  BY <1>1, <1>2, <1>4, <1>6
<1>8. ASSUME p # 0, NEW l \in 0..p PROVE ~ OverlapInLevel(files, l, lo, hi)
  <2>1. p = Min(stops) /\ ~ OverlapInLevel(files, 0, lo, hi) /\ p \in 0..kMaxMemCompactLevel
    BY <1>1, <1>4, <1>6, <1>8
  <2>2. CASE l # 0
    <3>1. l - 1 \in 0..kMaxMemCompactLevel /\ l - 1 < p
      BY <1>2, <2>1, <2>2
    <3>2. l - 1 \notin stops
      BY <1>4, <2>1, <3>1
    <3>3. (l - 1) + 1 = l
      BY <2>2
    <3> QED
      BY <1>5, <3>1, <3>2, <3>3
  <2> QED
    BY <2>1, <2>2
<1> QED
  BY <1>7, <1>8 DEF p, lo, hi, OverlapInLevel, Files

\* A came before B in level m.
WereInOrder(m, A, B) ==
  \E i, j \in DOMAIN files[m] : i < j /\ files[m][i] = A /\ files[m][j] = B

\* What an edit makes of the levels: the files that stay keep their order, those
\* added to level 0 come last, and any other level is put in order.
EditOf(v, gone, l, new) ==
  /\ \A m \in Levels : v[m] \in Seq(SUBSET Entries)
  /\ \A m \in Levels : ToSet(v[m]) = (Files(m) \ gone) \union (IF m = l THEN new ELSE {})
  /\ \A m \in Levels \ {l} : \A i, j \in DOMAIN v[m] :
       i < j => WereInOrder(m, v[m][i], v[m][j])
  /\ l # 0 => \A i, j \in DOMAIN v[l] :
       i < j => Before(Smallest(v[l][i]), Smallest(v[l][j]))
  /\ l = 0 => \A i, j \in DOMAIN v[0] : i < j =>
       \/ WereInOrder(0, v[0][i], v[0][j])
       \/ v[0][i] \in Files(0) /\ v[0][j] \in new
       \/ v[0][i] \in new /\ v[0][j] \in new /\ Before(Smallest(v[0][i]), Smallest(v[0][j]))

LEMMA EditedFiles ==
  ASSUME Once, NEW gone, NEW l \in Levels, NEW new, Disjoint(new),
         Disjoint((Files(l) \ gone) \union new)
  PROVE  EditOf(Edited(gone, l, new), gone, l, new)
<1> DEFINE v == Edited(gone, l, new)
           both == (Files(l) \ gone) \union new
           kept == Without(files[l], gone)
           added == BySmallestKey(new)
           sorted == BySmallestKey(both)
<1>1. ASSUME NEW m \in Levels
      PROVE  /\ Without(files[m], gone) \in Seq(SUBSET Entries)
             /\ ToSet(Without(files[m], gone)) = Files(m) \ gone
             /\ \A i, j \in DOMAIN Without(files[m], gone) : i < j =>
                  WereInOrder(m, Without(files[m], gone)[i], Without(files[m], gone)[j])
  BY WithoutKeepsOrder DEF Once, Files, WereInOrder
<1>2. /\ \A m \in Levels \ {l} : v[m] = Without(files[m], gone)
      /\ l = 0 => v[l] = kept \o added
      /\ l # 0 => v[l] = BySmallestKey(ToSet(kept) \union new)
  BY DEF Edited
<1>3. ASSUME NEW S, Disjoint(S)
      PROVE  /\ BySmallestKey(S) \in Seq(SUBSET Entries) /\ ToSet(BySmallestKey(S)) = S
             /\ \A i, j \in DOMAIN BySmallestKey(S) : i < j =>
                  Before(Smallest(BySmallestKey(S)[i]), Smallest(BySmallestKey(S)[j]))
  <2> DEFINE s == BySmallestKey(S)
  <2>1. /\ s \in [1..Cardinality(S) -> S] /\ Cardinality(S) \in Nat
        /\ \A A \in S : \E i \in 1..Cardinality(S) : s[i] = A
        /\ \A i, j \in 1..Cardinality(S) : i < j => Before(Smallest(s[i]), Smallest(s[j]))
    BY <1>3, TablesSorted
  <2>2. S \subseteq SUBSET Entries
    BY <1>3 DEF Disjoint
  <2> HIDE DEF s
  <2>3. s \in [1..Cardinality(S) -> SUBSET Entries]
    BY <2>1, <2>2
  <2>4. s \in Seq(SUBSET Entries)
    BY <2>1, <2>3, IsASeq
  <2>5. ToSet(s) = S
    BY <2>1 DEF ToSet
  <2> QED
    BY <2>1, <2>4, <2>5 DEF s
<1>4. /\ added \in Seq(SUBSET Entries) /\ ToSet(added) = new
      /\ \A i, j \in DOMAIN added : i < j => Before(Smallest(added[i]), Smallest(added[j]))
  BY <1>3
<1>5. /\ sorted \in Seq(SUBSET Entries) /\ ToSet(sorted) = both
      /\ \A i, j \in DOMAIN sorted : i < j => Before(Smallest(sorted[i]), Smallest(sorted[j]))
  BY <1>3
<1>6. /\ kept \in Seq(SUBSET Entries) /\ ToSet(kept) = Files(l) \ gone
      /\ \A i, j \in DOMAIN kept : i < j => WereInOrder(l, kept[i], kept[j])
  BY <1>1
<1>7. \A m \in Levels \ {l} :
        /\ v[m] \in Seq(SUBSET Entries)
        /\ ToSet(v[m]) = Files(m) \ gone
        /\ \A i, j \in DOMAIN v[m] : i < j => WereInOrder(m, v[m][i], v[m][j])
  <2> SUFFICES ASSUME NEW m \in Levels \ {l}
               PROVE  /\ v[m] \in Seq(SUBSET Entries)
                      /\ ToSet(v[m]) = Files(m) \ gone
                      /\ \A i, j \in DOMAIN v[m] : i < j => WereInOrder(m, v[m][i], v[m][j])
    OBVIOUS
  <2>1. v[m] = Without(files[m], gone)
    BY <1>2
  <2> HIDE DEF v
  <2> QED
    BY <1>1, <2>1
<1>8. CASE l = 0
  <2>1. v[l] = kept \o added
    BY <1>2, <1>8
  <2> HIDE DEF v, kept, added
  <2>2. /\ kept \o added \in Seq(SUBSET Entries)
        /\ Len(kept \o added) = Len(kept) + Len(added)
        /\ \A i \in 1..Len(kept) + Len(added) :
             (kept \o added)[i] = IF i <= Len(kept) THEN kept[i] ELSE added[i - Len(kept)]
    BY <1>4, <1>6, ConcatProperties
  <2> DEFINE s == kept \o added
  <2>3. DOMAIN kept = 1..Len(kept) /\ DOMAIN added = 1..Len(added) /\ DOMAIN s = 1..(Len(kept) + Len(added))
        /\ Len(kept) \in Nat /\ Len(added) \in Nat
    BY <1>4, <1>6, <2>2, LenProperties
  <2>4. \A i \in 1..Len(kept) : s[i] = kept[i] /\ i \in 1..(Len(kept) + Len(added))
    BY <2>2, <2>3
  <2>5. \A i \in 1..Len(added) : s[i + Len(kept)] = added[i]
                                 /\ i + Len(kept) \in 1..(Len(kept) + Len(added))
    BY <2>2, <2>3
  <2>6. \A i \in DOMAIN s : \/ i \in 1..Len(kept) /\ s[i] = kept[i]
                            \/ /\ i - Len(kept) \in 1..Len(added) /\ s[i] = added[i - Len(kept)]
                               /\ ~ (i <= Len(kept))
    BY <2>2, <2>3
  <2>7. v[l] = s
    BY <2>1
  <2> HIDE DEF s
  <2>8. ToSet(s) = both
    <3>1. \A A \in ToSet(s) : A \in ToSet(kept) \union ToSet(added)
      BY <2>3, <2>6 DEF ToSet
    <3>2. \A A \in ToSet(kept) : A \in ToSet(s)
      BY <2>3, <2>4 DEF ToSet
    <3>3. \A A \in ToSet(added) : A \in ToSet(s)
      BY <2>3, <2>5 DEF ToSet
    <3> QED
      BY <1>4, <1>6, <3>1, <3>2, <3>3
  <2>9. ASSUME NEW i \in DOMAIN s, NEW j \in DOMAIN s, i < j
        PROVE  \/ WereInOrder(0, s[i], s[j])
               \/ s[i] \in Files(0) /\ s[j] \in new
               \/ s[i] \in new /\ s[j] \in new /\ Before(Smallest(s[i]), Smallest(s[j]))
    <3>1. \A x \in DOMAIN kept : kept[x] \in Files(0)
      BY <1>6, <1>8 DEF ToSet
    <3>2. \A x \in DOMAIN added : added[x] \in new
      BY <1>4 DEF ToSet
    <3>3. CASE i \in 1..Len(kept) /\ j \in 1..Len(kept)
      BY <1>6, <1>8, <2>3, <2>4, <2>9, <3>3
    <3>4. CASE i \in 1..Len(kept) /\ j \notin 1..Len(kept)
      BY <2>3, <2>6, <3>1, <3>2, <3>4
    <3>5. CASE i \notin 1..Len(kept)
      <4>1. i \in Nat /\ j \in Nat /\ ~ (i <= Len(kept)) /\ ~ (j <= Len(kept))
        BY <2>3, <2>6, <2>9, <3>5
      <4>2. /\ i - Len(kept) \in 1..Len(added) /\ s[i] = added[i - Len(kept)]
            /\ j - Len(kept) \in 1..Len(added) /\ s[j] = added[j - Len(kept)]
            /\ i - Len(kept) < j - Len(kept)
        BY <2>3, <2>6, <2>9, <4>1
      <4> QED
        BY <1>4, <2>3, <3>2, <4>2
    <3> QED
      BY <3>3, <3>4, <3>5
  <2>10. s \in Seq(SUBSET Entries)
    BY <2>2 DEF s
  <2>11. \A m \in Levels : v[m] \in Seq(SUBSET Entries)
    BY <1>7, <2>7, <2>10
  <2> QED
    BY <1>7, <1>8, <2>7, <2>8, <2>9, <2>11 DEF EditOf, v
<1>9. CASE l # 0
  <2>1. v[l] = sorted
    BY <1>2, <1>6, <1>9
  <2> HIDE DEF v, sorted
  <2>2. \A m \in Levels : v[m] \in Seq(SUBSET Entries)
    BY <1>5, <1>7, <2>1
  <2> QED
    BY <1>5, <1>7, <1>9, <2>1, <2>2 DEF EditOf, v
<1> QED
  BY <1>8, <1>9
-----------------------------------------------------------------------------
(* What a merge writes *)

\* Why the merge of c does not write the entry e: a newer one of the key is old
\* enough for every reader, or e is a deletion with nothing left to delete.
Superseded(c, e) ==
  \/ \E f \in UNION Inputs(c) : /\ f.key = e.key /\ f.seq > e.seq
                                /\ f.seq <= c.smallest_snapshot
  \/ /\ e.type = "deletion" /\ e.seq <= c.smallest_snapshot
     /\ IsBaseLevelForKey(c, e.key)

InKeyOrder(S) == \A A, B \in S : A # B => Precedes(A, B) \/ Precedes(B, A)

\* The state of the merge after the first n entries of its input.
MergedSoFar(c, input, n, acc) ==
  /\ acc.outputs \in Seq(SUBSET Entries)
  /\ acc.open \subseteq {input[i] : i \in 1..n}
  /\ \A T \in ToSet(acc.outputs) : T # {} /\ T \subseteq {input[i] : i \in 1..n}
  /\ (UNION ToSet(acc.outputs)) \union acc.open
       = {input[i] : i \in {j \in 1..n : ~ Superseded(c, input[j])}}
  /\ InKeyOrder(ToSet(acc.outputs))
  /\ \A A \in ToSet(acc.outputs) : Precedes(A, acc.open)
  /\ n # 0 => acc.key = input[n].key /\ acc.last = input[n].seq
  /\ n = 0 => acc.key = 0

\* Entries of one key come in the order of their age.
LEMMA NewerComesFirst ==
  ASSUME NEW f \in Entries, NEW e \in Entries, f.key = e.key, f.seq > e.seq
  PROVE  Before(f, e) /\ ~ Before(e, f) /\ f # e
<1>1. f.key \in Nat /\ e.key \in Nat /\ f.seq \in Nat /\ e.seq \in Nat
  BY Constants
<1> QED
  BY <1>1 DEF Before

LEMMA BetweenOfOneKey ==
  ASSUME NEW f \in Entries, NEW g \in Entries, NEW e \in Entries, f.key = e.key,
         f = g \/ Before(f, g), Before(g, e)
  PROVE  g.key = e.key /\ g.seq <= f.seq
<1>1. /\ f.key \in Nat /\ e.key \in Nat /\ f.seq \in Nat /\ e.seq \in Nat
      /\ g.key \in Nat /\ g.seq \in Nat
  BY Constants
<1>2. g.key <= e.key
  BY <1>1 DEF Before
<1>3. CASE f = g
  BY <1>1, <1>3
<1>4. CASE Before(f, g)
  BY <1>1, <1>2, <1>4 DEF Before
<1> QED
  BY <1>3, <1>4

LEMMA AppendedSet ==
  ASSUME NEW S, NEW s \in Seq(S), NEW x \in S
  PROVE  Append(s, x) \in Seq(S) /\ ToSet(Append(s, x)) = ToSet(s) \union {x}
<1>1. /\ Append(s, x) \in Seq(S) /\ Len(Append(s, x)) = Len(s) + 1
      /\ \A i \in 1..Len(s) : Append(s, x)[i] = s[i]
      /\ Append(s, x)[Len(s) + 1] = x
  BY AppendProperties
<1>2. DOMAIN s = 1..Len(s) /\ DOMAIN Append(s, x) = 1..(Len(s) + 1) /\ Len(s) \in Nat
  BY <1>1, LenProperties
<1> QED
  BY <1>1, <1>2 DEF ToSet

\* One round of the loop.
LEMMA MergeStep ==
  ASSUME NEW c, UNION Inputs(c) \subseteq Entries, SeqsDiffer(UNION Inputs(c)),
         c.smallest_snapshot \in 0..MaxSequence,
         NEW N \in Nat, NEW input \in [1..N -> UNION Inputs(c)],
         \A f \in UNION Inputs(c) : \E i \in 1..N : input[i] = f,
         \A i, j \in 1..N : i < j => Before(input[i], input[j]),
         NEW n \in 0..(N - 1), NEW acc, MergedSoFar(c, input, n, acc)
  PROVE  MergedSoFar(c, input, n + 1, Merge(c, acc, input[n + 1]))
<1> DEFINE e == input[n + 1]
           first(i) == {input[j] : j \in 1..i}
           before == ShouldStopBefore(c, acc, e)
           closed == IF before.stop /\ acc.open # {} THEN Append(acc.outputs, acc.open)
                     ELSE acc.outputs
           kept   == IF before.stop THEN {} ELSE acc.open
           newer  == IF e.key = acc.key THEN acc.last ELSE kMaxSequenceNumber
           drop   == \/ newer <= c.smallest_snapshot
                     \/ /\ e.type = "deletion"
                        /\ e.seq <= c.smallest_snapshot
                        /\ IsBaseLevelForKey(c, e.key)
           open   == IF drop THEN kept ELSE kept \union {e}
           full   == ~ drop /\ Cardinality(open) >= max_file_size
           new    == Merge(c, acc, e)
<1>1. /\ new.outputs = IF full THEN Append(closed, open) ELSE closed
      /\ new.open = IF full THEN {} ELSE open
      /\ new.key = e.key /\ new.last = e.seq
  BY DEF Merge
<1>2. n + 1 \in 1..N /\ n \in Nat /\ e \in UNION Inputs(c) /\ e \in Entries
  OBVIOUS
<1>3. first(n) \subseteq Entries /\ first(n + 1) = first(n) \union {e}
  <2>1. 1..(n + 1) = (1..n) \union {n + 1} /\ 1..n \subseteq 1..N
    OBVIOUS
  <2> QED
    BY <2>1
<1>4. \A x \in first(n) : Before(x, e)
  BY <1>2
<1> HIDE DEF before, new
<1>5. drop <=> Superseded(c, e)
  <2>1. (newer <= c.smallest_snapshot) <=>
        \E f \in UNION Inputs(c) : f.key = e.key /\ f.seq > e.seq /\ f.seq <= c.smallest_snapshot
    <3>1. kMaxSequenceNumber = MaxSequence + 1 /\ MaxSequence \in Nat
      BY Constants DEF kMaxSequenceNumber
    <3>2. ASSUME newer <= c.smallest_snapshot
          PROVE  \E f \in UNION Inputs(c) : f.key = e.key /\ f.seq > e.seq /\ f.seq <= c.smallest_snapshot
      <4>1. e.key = acc.key
        BY <3>1, <3>2
      <4>2. n # 0
        BY <1>2, <4>1, Constants DEF MergedSoFar
      <4>3. acc.last = input[n].seq /\ input[n].key = e.key
        BY <4>1, <4>2 DEF MergedSoFar
      <4>4. input[n] \in UNION Inputs(c) /\ Before(input[n], e) /\ n \in 1..N
        BY <1>2, <4>2
      <4>5. input[n].seq > e.seq
        BY <1>2, <4>3, <4>4, Constants DEF Before
      <4>6. input[n].seq <= c.smallest_snapshot
        BY <3>2, <4>1, <4>3
      <4> QED
        BY <4>3, <4>4, <4>5, <4>6
    <3>3. ASSUME NEW f \in UNION Inputs(c), f.key = e.key, f.seq > e.seq, f.seq <= c.smallest_snapshot
          PROVE  newer <= c.smallest_snapshot
      <4>1. PICK j \in 1..N : input[j] = f
        OBVIOUS
      <4>2. f \in Entries /\ Before(f, e) /\ ~ Before(e, f) /\ f # e
        <5>1. f \in Entries /\ e \in Entries
          BY <1>2
        <5> HIDE DEF e
        <5> QED
          BY <3>3, <5>1, NewerComesFirst
      <4>3. j <= n
        <5>1. j # n + 1
          BY <4>1, <4>2
        <5>2. ~ (n + 1 < j)
          BY <1>2, <4>1, <4>2
        <5> QED
          BY <1>2, <5>1, <5>2
      <4>4. n # 0 /\ n \in 1..N /\ input[n] \in Entries /\ Before(input[n], e)
        BY <1>2, <4>3
      <4>5. f = input[n] \/ Before(f, input[n])
        BY <4>1, <4>3, <4>4
      <4>6. input[n].key = e.key /\ input[n].seq <= f.seq
        <5>1. e \in Entries
          BY <1>2
        <5> HIDE DEF e
        <5> QED
          BY <3>3, <4>2, <4>4, <4>5, <5>1, BetweenOfOneKey
      <4>7. acc.key = e.key /\ acc.last = input[n].seq
        BY <4>4, <4>6 DEF MergedSoFar
      <4> QED
        BY <3>3, <4>2, <4>4, <4>6, <4>7, Constants
    <3> QED
      BY <3>2, <3>3
  <2> HIDE DEF newer, e
  <2> QED
    BY <2>1 DEF Superseded
<1> HIDE DEF drop, newer
<1>6. /\ acc.outputs \in Seq(SUBSET Entries)
      /\ acc.open \subseteq first(n)
      /\ \A T \in ToSet(acc.outputs) : T # {} /\ T \subseteq first(n)
      /\ (UNION ToSet(acc.outputs)) \union acc.open
           = {input[i] : i \in {j \in 1..n : ~ Superseded(c, input[j])}}
      /\ InKeyOrder(ToSet(acc.outputs))
      /\ \A A \in ToSet(acc.outputs) : Precedes(A, acc.open)
  BY DEF MergedSoFar
<1>7. {input[i] : i \in {j \in 1..(n + 1) : ~ Superseded(c, input[j])}}
        = {input[i] : i \in {j \in 1..n : ~ Superseded(c, input[j])}}
          \union (IF drop THEN {} ELSE {e})
  <2>1. 1..(n + 1) = (1..n) \union {n + 1}
    BY <1>2
  <2> QED
    BY <1>5, <2>1
<1> HIDE DEF first, e
<1>8. /\ closed \in Seq(SUBSET Entries)
      /\ kept \subseteq first(n)
      /\ \A T \in ToSet(closed) : T # {} /\ T \subseteq first(n)
      /\ (UNION ToSet(closed)) \union kept
           = (UNION ToSet(acc.outputs)) \union acc.open
      /\ InKeyOrder(ToSet(closed))
      /\ \A A \in ToSet(closed) : Precedes(A, kept)
  <2>1. CASE before.stop /\ acc.open # {}
    <3>1. closed \in Seq(SUBSET Entries) /\ ToSet(closed) = ToSet(acc.outputs) \union {acc.open}
      <4>1. acc.open \in SUBSET Entries
        BY <1>3, <1>6
      <4>2. /\ Append(acc.outputs, acc.open) \in Seq(SUBSET Entries)
            /\ ToSet(Append(acc.outputs, acc.open)) = ToSet(acc.outputs) \union {acc.open}
        BY <1>6, <4>1, AppendedSet
      <4> QED
        BY <2>1, <4>2
    <3>2. kept = {}
      BY <2>1
    <3> HIDE DEF closed, kept
    <3>3. InKeyOrder(ToSet(closed))
      BY <1>6, <3>1 DEF InKeyOrder
    <3>4. (UNION ToSet(closed)) \union kept
           = (UNION ToSet(acc.outputs)) \union acc.open
      BY <3>1, <3>2
    <3> QED
      BY <1>6, <2>1, <3>1, <3>2, <3>3, <3>4 DEF Precedes
  <2>2. CASE ~ (before.stop /\ acc.open # {})
    <3>1. closed = acc.outputs /\ kept = acc.open
      BY <2>2
    <3> QED
      BY <1>6, <3>1
  <2> QED
    BY <2>1, <2>2
<1> HIDE DEF closed, kept
<1>9. /\ open \subseteq first(n + 1)
      /\ \A A \in ToSet(closed) : Precedes(A, open)
      /\ (UNION ToSet(closed)) \union open
           = {input[i] : i \in {j \in 1..(n + 1) : ~ Superseded(c, input[j])}}
  <2>1. \A A \in ToSet(closed) : Precedes(A, {e})
    BY <1>4, <1>8 DEF Precedes
  <2>2. CASE drop
    BY <1>3, <1>6, <1>7, <1>8, <2>2
  <2>3. CASE ~ drop
    <3>1. open = kept \union {e}
      BY <2>3
    <3> HIDE DEF open
    <3>2. \A A \in ToSet(closed) : Precedes(A, open)
      BY <1>8, <2>1, <3>1 DEF Precedes
    <3>3. (UNION ToSet(closed)) \union open
           = {input[i] : i \in {j \in 1..(n + 1) : ~ Superseded(c, input[j])}}
      BY <1>6, <1>7, <1>8, <2>3, <3>1
    <3> QED
      BY <1>3, <1>8, <3>1, <3>2, <3>3
  <2> QED
    BY <2>2, <2>3
<1>10. full => open # {}
  <2> SUFFICES ASSUME full PROVE open # {}
    OBVIOUS
  <2>1. e \in open
    OBVIOUS
  <2> QED
    BY <2>1
<1> HIDE DEF open, full
<1>11. /\ new.outputs \in Seq(SUBSET Entries)
       /\ new.open \subseteq first(n + 1)
       /\ \A T \in ToSet(new.outputs) : T # {} /\ T \subseteq first(n + 1)
       /\ (UNION ToSet(new.outputs)) \union new.open
            = {input[i] : i \in {j \in 1..(n + 1) : ~ Superseded(c, input[j])}}
       /\ InKeyOrder(ToSet(new.outputs))
       /\ \A A \in ToSet(new.outputs) : Precedes(A, new.open)
  <2>1. CASE full
    <3>1. new.outputs = Append(closed, open) /\ new.open = {}
      BY <1>1, <2>1
    <3>2. new.outputs \in Seq(SUBSET Entries) /\ ToSet(new.outputs) = ToSet(closed) \union {open}
      <4>1. open \in SUBSET Entries
        BY <1>2, <1>3, <1>9
      <4> HIDE DEF closed
      <4>2. /\ Append(closed, open) \in Seq(SUBSET Entries)
            /\ ToSet(Append(closed, open)) = ToSet(closed) \union {open}
        BY <1>8, <4>1, AppendedSet
      <4> QED
        BY <3>1, <4>2
    <3>3. InKeyOrder(ToSet(new.outputs))
      BY <1>8, <1>9, <3>2 DEF InKeyOrder
    <3>4. (UNION ToSet(new.outputs)) \union new.open = (UNION ToSet(closed)) \union open
      BY <3>1, <3>2
    <3>5. \A T \in ToSet(new.outputs) : T # {} /\ T \subseteq first(n + 1)
      BY <1>3, <1>8, <1>9, <1>10, <2>1, <3>2
    <3> QED
      BY <1>9, <3>1, <3>2, <3>3, <3>4, <3>5 DEF Precedes
  <2>2. CASE ~ full
    <3>1. new.outputs = closed /\ new.open = open
      BY <1>1, <2>2
    <3> QED
      BY <1>3, <1>8, <1>9, <3>1
  <2> QED
    BY <2>1, <2>2
<1>12. n + 1 # 0 /\ new.key = input[n + 1].key /\ new.last = input[n + 1].seq
  BY <1>1, <1>2 DEF e
<1>13. MergedSoFar(c, input, n + 1, new)
  BY <1>11, <1>12 DEF MergedSoFar, first
<1> QED
  BY <1>13 DEF new, e

\* The outputs hold what is not superseded, in tables one after the other.
LEMMA OutputsOfMerge ==
  ASSUME NEW c, UNION Inputs(c) \subseteq Entries, SeqsDiffer(UNION Inputs(c)),
         c.smallest_snapshot \in 0..MaxSequence
  PROVE  /\ Disjoint(Outputs(c))
         /\ UNION Outputs(c) = {e \in UNION Inputs(c) : ~ Superseded(c, e)}
         /\ InKeyOrder(Outputs(c))
<1> DEFINE start == [outputs |-> << >>, open |-> {}, key |-> 0,
                     last |-> kMaxSequenceNumber, passed |-> 0, seen_key |-> FALSE,
                     overlap |-> 0]
           input == InOrder(UNION Inputs(c), Before)
           N == Cardinality(UNION Inputs(c))
<1>1. /\ input \in [1..N -> UNION Inputs(c)] /\ N \in Nat
      /\ \A f \in UNION Inputs(c) : \E i \in 1..N : input[i] = f
      /\ \A i, j \in 1..N : i < j => Before(input[i], input[j])
  BY EntriesSorted
<1>2. Len(input) = N
  BY <1>1, LenProperties, IsASeq
<1>3. input = InOrder(UNION (c.inputs[1] \union c.inputs[2]), Before)
  BY DEF Inputs
<1>4. MergedSoFar(c, input, 0, start)
  <2>1. ToSet(<< >>) = {} /\ << >> \in Seq(SUBSET Entries)
    BY DEF ToSet
  <2> QED
    BY <2>1 DEF MergedSoFar, InKeyOrder
<1>5. ASSUME NEW n \in 0..(N - 1), NEW acc, MergedSoFar(c, input, n, acc)
      PROVE  MergedSoFar(c, input, n + 1, Merge(c, acc, input[n + 1]))
  <2> HIDE DEF input, N
  <2> QED
    BY <1>1, <1>5, MergeStep
<1> HIDE DEF input, N, start
<1> DEFINE Rule(f, n) == IF n = 0 THEN start ELSE Merge(c, f[n - 1], input[n])
           P == {n \in Nat : \E f : f = [l \in 0..n |-> Rule(f, l)]}
<1>6. 0 \in P
  <2> DEFINE f == [l \in 0..0 |-> start]
  <2>1. f = [l \in 0..0 |-> Rule(f, l)]
    OBVIOUS
  <2> QED
    BY <2>1
<1>7. ASSUME NEW n \in 0..(N - 1), n \in P PROVE n + 1 \in P
  <2>1. PICK f : f = [l \in 0..n |-> Rule(f, l)]
    BY <1>7
  <2> DEFINE g == [l \in 0..(n + 1) |-> IF l = n + 1 THEN Rule(f, l) ELSE f[l]]
  <2>2. ASSUME NEW l \in 0..(n + 1) PROVE g[l] = Rule(g, l)
    <3>1. CASE l = 0
      BY <2>1, <3>1
    <3>2. CASE l # 0
      <4> HIDE DEF Rule
      <4>1. l - 1 \in 0..n /\ l - 1 # n + 1 /\ g[l - 1] = f[l - 1]
        BY <3>2
      <4>2. g[l] = Rule(f, l)
        <5>1. CASE l = n + 1
          BY <5>1
        <5>2. CASE l # n + 1
          <6>1. l \in 0..n
            BY <5>2
          <6> QED
            BY <5>2, <6>1, <2>1
        <5> QED
          BY <5>1, <5>2
      <4> QED
        BY <4>1, <4>2 DEF Rule
    <3> QED
      BY <3>1, <3>2
  <2> HIDE DEF Rule
  <2>3. g = [l \in 0..(n + 1) |-> Rule(g, l)]
    BY <2>2
  <2> HIDE DEF g
  <2>4. \E h : h = [l \in 0..(n + 1) |-> Rule(h, l)]
    BY <2>3
  <2>5. n + 1 \in Nat
    BY <1>1
  <2> QED
    BY <2>4, <2>5
<1> HIDE DEF Rule, P
<1>8. N \in P
  <2>1. 0..N \subseteq P
    BY <1>1, <1>6, <1>7, UpTo
  <2> QED
    BY <1>1, <2>1
<1>9. PICK f : f = [l \in 0..N |-> Rule(f, l)]
  BY <1>8 DEF P
<1> DEFINE merged == CHOOSE h : h = [l \in 0..N |-> Rule(h, l)]
           done == merged[N]
<1>10. Outputs(c) = ToSet(done.outputs) \union (IF done.open = {} THEN {} ELSE {done.open})
  <2>1. Outputs(c) = LET m == CHOOSE h : h = [l \in 0..Len(input) |-> Rule(h, l)]
                         d == m[Len(input)]
                     IN ToSet(d.outputs) \union (IF d.open = {} THEN {} ELSE {d.open})
    BY <1>3 DEF Outputs, Rule, start
  <2> QED
    BY <1>2, <2>1
<1>11. merged = [l \in 0..N |-> Rule(merged, l)]
  BY <1>9
<1> HIDE DEF merged
<1>12. \A l \in 0..N : merged[l] = Rule(merged, l)
  BY <1>11
<1> DEFINE Q == {n \in Nat : n \in 0..N => MergedSoFar(c, input, n, merged[n])}
<1>13. 0 \in Q
  BY <1>1, <1>4, <1>12 DEF Rule
<1>14. ASSUME NEW n \in 0..(N - 1), n \in Q PROVE n + 1 \in Q
  <2>1. n \in 0..N /\ n + 1 \in 0..N /\ n + 1 # 0 /\ (n + 1) - 1 = n /\ n + 1 \in Nat
    BY <1>1
  <2>2. MergedSoFar(c, input, n, merged[n])
    BY <1>14, <2>1
  <2>3. merged[n + 1] = Merge(c, merged[n], input[n + 1])
    BY <1>12, <2>1 DEF Rule
  <2> QED
    BY <1>5, <2>1, <2>2, <2>3
<1> HIDE DEF Q
<1>15. 0..N \subseteq Q
  BY <1>1, <1>13, <1>14, UpTo
<1>16. MergedSoFar(c, input, N, done)
  BY <1>1, <1>15 DEF Q
<1> HIDE DEF done
<1>17. {input[i] : i \in 1..N} = UNION Inputs(c)
  BY <1>1
<1>18. {input[i] : i \in {j \in 1..N : ~ Superseded(c, input[j])}}
         = {e \in UNION Inputs(c) : ~ Superseded(c, e)}
  BY <1>1
<1>19. UNION Outputs(c) = (UNION ToSet(done.outputs)) \union done.open
  BY <1>10
<1>20. /\ UNION Outputs(c) = {e \in UNION Inputs(c) : ~ Superseded(c, e)}
       /\ \A T \in Outputs(c) : T # {} /\ T \subseteq UNION Inputs(c)
  BY <1>10, <1>16, <1>17, <1>18, <1>19 DEF MergedSoFar
<1>21. InKeyOrder(Outputs(c))
  BY <1>10, <1>16 DEF MergedSoFar, InKeyOrder
<1>22. Disjoint(Outputs(c))
  <2>1. Outputs(c) \subseteq (SUBSET Entries) \ {{}}
    BY <1>20
  <2>2. SeqsDiffer(UNION Outputs(c))
    BY <1>20 DEF SeqsDiffer
  <2>3. ASSUME NEW A \in Outputs(c), NEW B \in Outputs(c), A # B PROVE A \intersect B = {}
    <3>1. Precedes(A, B) \/ Precedes(B, A)
      BY <1>21, <2>3 DEF InKeyOrder
    <3>2. A \subseteq Entries
      BY <2>1
    <3> QED
      BY <3>1, <3>2, BeforeIsAnOrder DEF Precedes
  <2> QED
    BY <2>1, <2>2, <2>3 DEF Disjoint
<1> QED
  BY <1>20, <1>21, <1>22
-----------------------------------------------------------------------------
(* What holds of the tree whatever CompactRange and the readers do *)

Calls ==
  [pc : {"idle"}] \union
  [pc : {"write", "flush", "range", "submitted", "running"},
   level : 0..(kNumLevels - 2), lo : 0..MaxKey, begin : 0..MaxKey,
   hi : 1..(MaxKey + 1), last : 1..(kNumLevels - 1)]

Typed ==
  /\ imm = << >> \/ \E I \in SUBSET Entries : imm = <<I>>
  /\ lastSequence \in 0..MaxSequence
  /\ snapshots \in Seq(0..lastSequence)
  /\ Len(snapshots) <= MaxSnapshots
  /\ \A i, j \in DOMAIN snapshots : i < j => snapshots[i] <= snapshots[j]
  /\ manual \in Calls
  /\ scheduled \in BOOLEAN

\* A charged file is in its level, and there is a level below.
Charged ==
  \/ file_to_compact = << >>
  \/ \E l \in 0..(kNumLevels - 2) : \E T \in Files(l) : file_to_compact = <<l, T>>

\* Meanwhile nothing takes the inputs of the compaction c, puts a file that
\* shares a key with its upper inputs next to its lower ones, or gives one of its
\* keys to a level further down.
Running(c) ==
  /\ c.level \in 0..(kNumLevels - 2)
  /\ c.inputs[1] # {} /\ c.inputs[1] \subseteq Files(c.level)
  /\ c.inputs[2] \subseteq Files(c.level + 1)
  /\ c.smallest_snapshot \in 0..lastSequence
  /\ \A i \in DOMAIN snapshots : c.smallest_snapshot <= snapshots[i]
  /\ \A F \in Files(c.level + 1) \ c.inputs[2] : KeysDiffer(F, UNION c.inputs[1])
  /\ \A l \in (c.level + 2)..(kNumLevels - 1) : \A F \in Files(l) :
       \A f \in F, e \in UNION Inputs(c) :
         f.key = e.key => OverlapInLevel(c.version, l, e.key, e.key)

TreeInv ==
  /\ Typed /\ Charged /\ Once
  /\ compaction = << >> \/ \E c : compaction = <<c>> /\ Running(c)

LEMMA SmallestSnapshotIsSmallest ==
  ASSUME Typed
  PROVE  /\ SmallestSnapshot \in 0..lastSequence
         /\ \A i \in DOMAIN snapshots : SmallestSnapshot <= snapshots[i]
<1>1. CASE snapshots = << >>
  BY <1>1, Constants DEF SmallestSnapshot, Typed
<1>2. CASE snapshots # << >>
  <2>1. DOMAIN snapshots = 1..Len(snapshots) /\ Len(snapshots) \in Nat \ {0}
    BY <1>2, LenProperties, EmptySeq DEF Typed
  <2>2. SmallestSnapshot = snapshots[1]
    BY <1>2 DEF SmallestSnapshot, Typed
  <2>3. \A i \in DOMAIN snapshots : snapshots[i] \in 0..lastSequence
    BY ElementOfSeq, <2>1 DEF Typed
  <2> QED
    BY <2>1, <2>2, <2>3 DEF Typed
<1> QED
  BY <1>1, <1>2

\* A compaction that is set up can run.
LEMMA SetupRuns ==
  ASSUME Typed, Once, NEW l, NEW S, Chosen(l, S)
  PROVE  Running(SetupOtherInputs(l, S))
<1> DEFINE c == SetupOtherInputs(l, S)
<1>1. /\ c.level = l /\ c.version = files /\ c.smallest_snapshot = SmallestSnapshot
      /\ Chosen(l, c.inputs[1])
      /\ c.inputs[2] = Under(files, l + 1, c.inputs[1])
      /\ c.inputs[2] \subseteq Files(l + 1)
  BY InputsOfASetup
<1> HIDE DEF c
<1>2. l \in Levels /\ l + 1 \in Levels /\ l \in 0..(kNumLevels - 2)
  BY Constants DEF Chosen
<1>3. Disjoint(ToSet(files[l + 1])) /\ Disjoint(c.inputs[1]) /\ c.inputs[1] # {}
  BY <1>1, <1>2, LevelsAreDisjoint, DisjointSubset DEF Chosen, Files
<1>4. \A F \in ToSet(files[l + 1]) \ c.inputs[2] : KeysDiffer(F, UNION c.inputs[1])
  BY <1>1, <1>2, <1>3, UnderIsWhatOverlaps
<1>5. ASSUME NEW m \in (c.level + 2)..(kNumLevels - 1), NEW F \in Files(m), NEW f \in F,
             NEW e \in UNION Inputs(c), f.key = e.key
      PROVE  OverlapInLevel(c.version, m, e.key, e.key)
  <2>1. m \in Levels
    BY <1>1, <1>2, Constants
  <2>2. Smallest(F).key <= f.key /\ f.key <= Largest(F).key
    BY <2>1, LevelsAreDisjoint, TableEnds
  <2> QED
    BY <1>1, <1>5, <2>2 DEF OverlapInLevel, Overlaps, Files
<1>6. /\ c.smallest_snapshot \in 0..lastSequence
      /\ \A i \in DOMAIN snapshots : c.smallest_snapshot <= snapshots[i]
  BY <1>1, SmallestSnapshotIsSmallest
<1> QED
  BY <1>1, <1>2, <1>4, <1>5, <1>6 DEF Running, Chosen, Files, c

\* Steps that leave the tree alone leave it running.
LEMMA RunsOn ==
  ASSUME NEW c, Running(c), files' = files,
         lastSequence \in Nat, lastSequence' \in Nat, lastSequence <= lastSequence',
         \A i \in DOMAIN snapshots' : c.smallest_snapshot <= snapshots'[i]
  PROVE  Running(c)'
<1>1. \A l : Files(l)' = Files(l)
  BY DEF Files
<1>2. c.smallest_snapshot \in 0..lastSequence'
  BY DEF Running
<1> QED
  BY <1>1, <1>2 DEF Running

\* Replacing files by ones with the same entries, or fewer, and adding the
\* memtable that leaves, keeps every entry in one place.
LEMMA EditKeepsOnce ==
  ASSUME Once, NEW gone \in SUBSET Disk, NEW l \in Levels, NEW new, Disjoint(new),
         UNION new \subseteq (UNION gone) \union Flushing,
         files' = Edited(gone, l, new),
         Flushing' \subseteq Flushing, (UNION new) \intersect Flushing' = {},
         mem' = mem, lastSequence' = lastSequence
  PROVE  /\ Once'
         /\ \A m \in Levels : Files(m)' = (Files(m) \ gone) \union (IF m = l THEN new ELSE {})
         /\ EditOf(files', gone, l, new)
         /\ Disjoint((Files(l) \ gone) \union new)
<1>1. ASSUME NEW A \in Disk \ gone, NEW T \in new PROVE A \intersect T = {}
  <2> SUFFICES ASSUME NEW e \in A \intersect T PROVE FALSE
    OBVIOUS
  <2>1. e \notin Flushing
    BY DEF Once
  <2>2. PICK g \in gone : e \in g
    BY <2>1
  <2> QED
    BY <2>2 DEF Once, Disjoint
<1>2. ASSUME NEW rest, rest \subseteq Disk \ gone PROVE Disjoint(rest \union new)
  <2>1. rest \union new \subseteq (SUBSET Entries) \ {{}}
    BY <1>2 DEF Once, Disjoint
  <2>2. UNION (rest \union new) \subseteq Stored
    BY <1>2 DEF Stored
  <2>3. SeqsDiffer(UNION (rest \union new))
    BY <2>2 DEF SeqsDiffer, Once
  <2>4. ASSUME NEW A \in rest \union new, NEW B \in rest \union new, A # B
        PROVE  A \intersect B = {}
    <3>1. CASE A \in new /\ B \in new
      BY <2>4, <3>1 DEF Disjoint
    <3>2. CASE A \in rest /\ B \in rest
      BY <1>2, <2>4, <3>2 DEF Disjoint, Once
    <3> QED
      BY <1>1, <1>2, <3>1, <3>2
  <2> QED
    BY <2>1, <2>3, <2>4 DEF Disjoint
<1>3. \A m \in Levels : Files(m) \subseteq Disk
  BY DEF Disk
<1>4. Disjoint((Files(l) \ gone) \union new)
  BY <1>2, <1>3
<1>5. EditOf(files', gone, l, new)
  BY <1>4, EditedFiles
<1>6. \A m \in Levels : Files(m)' = (Files(m) \ gone) \union (IF m = l THEN new ELSE {})
  BY <1>5 DEF Files, EditOf
<1>7. Disk' = (Disk \ gone) \union new
  BY <1>6 DEF Disk
<1>8. Stored' \subseteq Stored
  BY <1>7 DEF Stored
<1>9. Disjoint(Disk')
  BY <1>2, <1>7
<1>10. ASSUME NEW m \in Levels, NEW k \in Levels, m # k PROVE Files(m)' \intersect Files(k)' = {}
  <2> SUFFICES ASSUME NEW A, A \in Files(m)', A \in Files(k)' PROVE FALSE
    OBVIOUS
  <2>1. A # {}
    BY <1>7, <1>9 DEF Disk, Disjoint
  <2>2. A \in Disk \ gone => A \notin new
    BY <1>1, <2>1
  <2>3. ~ (A \in Files(m) /\ A \in Files(k))
    BY <1>10 DEF Once
  <2> QED
    BY <1>3, <1>6, <1>10, <2>2, <2>3
<1>11. mem' \intersect (Flushing' \union UNION Disk') = {} /\ Flushing' \intersect UNION Disk' = {}
  BY <1>7 DEF Once
<1>12. Stored' \subseteq Entries /\ (\A e \in Stored' : e.seq <= lastSequence') /\ SeqsDiffer(Stored')
  BY <1>8 DEF Once, SeqsDiffer
<1>13. Once'
  BY <1>5, <1>9, <1>10, <1>11, <1>12 DEF Once, EditOf
<1> QED
  BY <1>4, <1>5, <1>6, <1>13
-----------------------------------------------------------------------------
(* The effect of the steps on the tree *)

\* A memtable becomes a file of a level it may go to, or leaves none.
LEMMA FlushEffect ==
  ASSUME Typed, Once, CompactMemTable
  PROVE  /\ Once'
         /\ \/ files' = files /\ Flushing = {}
            \/ \E T \in (SUBSET Entries) \ {{}}, p \in 0..(kNumLevels - 2) :
                 /\ imm = <<T>> /\ T = Flushing /\ Disjoint({T})
                 /\ p # 0 => \A l \in 0..p : \A F \in Files(l) :
                               ~ Overlaps(F, Smallest(T).key, Largest(T).key)
                 /\ EditOf(files', {}, p, {T})
                 /\ \A m \in Levels : Files(m)' = Files(m) \union (IF m = p THEN {T} ELSE {})
<1>1. PICK T \in SUBSET Entries : imm = <<T>>
  BY DEF Typed, CompactMemTable
<1>2. Flushing = T /\ imm[1] = T
  <2>1. ToSet(<<T>>) = {T}
    BY DEF ToSet
  <2> QED
    BY <1>1, <2>1 DEF Flushing
<1>3. Flushing' = {} /\ mem' = mem /\ lastSequence' = lastSequence
  <2>1. ToSet(<< >>) = {}
    BY DEF ToSet
  <2> QED
    BY <2>1 DEF Flushing, CompactMemTable
<1>4. CASE T = {}
  <2>1. files' = files
    BY <1>2, <1>4 DEF CompactMemTable, Flushed
  <2>2. Disk' = Disk /\ \A l : Files(l)' = Files(l)
    BY <2>1 DEF Disk, Files
  <2>3. Stored' \subseteq Stored
    BY <1>3, <2>2 DEF Stored
  <2>4. Once'
    BY <1>3, <2>1, <2>2, <2>3 DEF Once, SeqsDiffer
  <2> QED
    BY <1>2, <1>4, <2>1, <2>4
<1>5. CASE T # {}
  <2> DEFINE p == PickLevelForMemTableOutput(T)
  <2>1. files' = Edited({}, p, {T})
    BY <1>2, <1>5 DEF CompactMemTable, Flushed
  <2>2. /\ p \in 0..(kNumLevels - 2)
        /\ p # 0 => \A l \in 0..p : \A F \in Files(l) :
                      ~ Overlaps(F, Smallest(T).key, Largest(T).key)
    BY LevelForMemTable
  <2> HIDE DEF p
  <2>3. Disjoint({T})
    <3>1. T \subseteq Stored
      BY <1>2 DEF Stored
    <3>2. SeqsDiffer(T) /\ UNION {T} = T
      BY <3>1 DEF Once, SeqsDiffer
    <3> QED
      BY <1>5, <3>2 DEF Disjoint
  <2>4. p \in Levels /\ {} \in SUBSET Disk /\ UNION {T} = T
    BY <2>2, Constants
  <2>8. UNION {T} \subseteq (UNION {}) \union Flushing /\ Flushing' \subseteq Flushing
        /\ (UNION {T}) \intersect Flushing' = {}
    BY <1>2, <1>3
  <2>5. /\ Once' /\ EditOf(files', {}, p, {T})
        /\ \A m \in Levels : Files(m)' = (Files(m) \ {}) \union (IF m = p THEN {T} ELSE {})
    BY <1>3, <2>1, <2>3, <2>4, <2>8, EditKeepsOnce
  <2>6. \A m \in Levels : Files(m)' = Files(m) \union (IF m = p THEN {T} ELSE {})
    BY <2>5
  <2>7. T \in (SUBSET Entries) \ {{}}
    BY <1>1, <1>5
  <2> QED
    BY <1>1, <1>2, <2>2, <2>3, <2>5, <2>6, <2>7
<1> QED
  BY <1>4, <1>5

\* The files of a compaction give way to those it made of them.
LEMMA InstallEffect ==
  ASSUME Once, NEW c, Running(c), NEW new, Disjoint(new), UNION new \subseteq UNION Inputs(c),
         files' = Edited(Inputs(c), c.level + 1, new),
         mem' = mem, imm' = imm, lastSequence' = lastSequence
  PROVE  /\ Once' /\ EditOf(files', Inputs(c), c.level + 1, new)
         /\ \A m \in Levels : Files(m)' =
              (Files(m) \ Inputs(c)) \union (IF m = c.level + 1 THEN new ELSE {})
<1>1. c.level \in Levels /\ c.level + 1 \in Levels
  BY Constants DEF Running
<1>2. Inputs(c) \in SUBSET Disk
  BY <1>1 DEF Inputs, Running, Disk
<1>3. Flushing' = Flushing
  BY DEF Flushing
<1>4. (UNION new) \intersect Flushing' = {}
  BY <1>2, <1>3 DEF Once
<1>5. UNION new \subseteq (UNION Inputs(c)) \union Flushing
  OBVIOUS
<1> QED
  BY <1>1, <1>2, <1>3, <1>4, <1>5, EditKeepsOnce

\* Of two files probed the first is not in the last level.
LEMMA ChargedFile ==
  ASSUME Once, NEW k \in Keys, NEW s \in Nat, ChargeSeek(k, s)
  PROVE  \E l \in 0..(kNumLevels - 2) : \E T \in Files(l) : file_to_compact' = <<l, T>>
<1> DEFINE probes == Probes(files, k, s)
           p == CHOOSE p \in probes : \A q \in probes : p[1] <= q[1]
           n == Len(files[0])
           level == CHOOSE l \in Levels : p[2] \in Files(l)
<1>1. Cardinality(probes) > 1 /\ file_to_compact' = <<level, p[2]>>
  BY DEF ChargeSeek, Files
<1>2. n \in Nat /\ DOMAIN files[0] = 1..n /\ 0 \in Levels
  BY Constants, LenProperties DEF Once
<1>3. ASSUME NEW m \in 1..(kNumLevels - 1), FoundIn(files, m, k, s) # {}
      PROVE  FoundIn(files, m, k, s) \in Files(m)
  <2> DEFINE ends == {i \in DOMAIN files[m] :
                       ~ Before(Largest(files[m][i]), [key |-> k, seq |-> s])}
  <2>1. ends # {} /\ FoundIn(files, m, k, s) = files[m][Min(ends)]
    BY <1>3 DEF FoundIn
  <2>2. files[m] \in Seq(SUBSET Entries)
    BY Constants DEF Once
  <2>3. ends \subseteq Nat /\ ends \subseteq DOMAIN files[m]
    BY <2>2, LenProperties
  <2> HIDE DEF ends
  <2>4. Min(ends) \in DOMAIN files[m]
    BY <2>1, <2>3, Least
  <2> QED
    BY <2>1, <2>4 DEF Files, ToSet
<1>4. ASSUME NEW q \in probes
      PROVE  \/ q[1] \in 0..(n - 1) /\ q[2] \in Files(0)
             \/ \E m \in 1..(kNumLevels - 1) :
                  /\ q = <<n + m, FoundIn(files, m, k, s)>>
                  /\ FoundIn(files, m, k, s) \in Files(m)
  <2>1. CASE \E i \in DOMAIN files[0] : q = <<n - i, files[0][i]>>
    <3>1. PICK i \in DOMAIN files[0] : q = <<n - i, files[0][i]>>
      BY <2>1
    <3>2. n - i \in 0..(n - 1) /\ files[0][i] \in Files(0)
      BY <1>2, <3>1 DEF Files, ToSet
    <3> QED
      BY <3>1, <3>2
  <2>2. CASE \E m \in 1..(kNumLevels - 1) : FoundIn(files, m, k, s) # {}
                                            /\ q = <<n + m, FoundIn(files, m, k, s)>>
    BY <1>3, <2>2
  <2> QED
    BY <2>1, <2>2 DEF Probes
<1> HIDE DEF probes
<1>5. p \in probes /\ \A q \in probes : p[1] <= q[1]
  <2> DEFINE turns == {q[1] : q \in probes}
  <2>1. turns \subseteq Nat
    BY <1>2, <1>4, Constants
  <2>2. probes # {} /\ \A q \in probes : q[1] \in turns
    BY <1>1, FS_EmptySet
  <2>3. Min(turns) \in turns /\ \A t \in turns : Min(turns) <= t
    <3>1. turns # {}
      BY <2>2
    <3> HIDE DEF turns
    <3> QED
      BY <2>1, <3>1, Least
  <2> QED
    BY <2>3
<1> HIDE DEF p
<1>6. PICK q \in probes : q # p
  <2> SUFFICES ASSUME \A q \in probes : q = p PROVE FALSE
    OBVIOUS
  <2>1. probes = {p}
    BY <1>5
  <2> QED
    <3>1. Cardinality(probes) = 1
      BY <2>1, FS_Singleton
    <3> HIDE DEF level
    <3> QED
      BY <1>1, <3>1
<1>7. \E l \in 0..(kNumLevels - 2) : p[2] \in Files(l)
  <2>1. CASE p[1] \in 0..(n - 1) /\ p[2] \in Files(0)
    BY <2>1, Constants
  <2>2. CASE \E m \in 1..(kNumLevels - 1) : /\ p = <<n + m, FoundIn(files, m, k, s)>>
                                            /\ FoundIn(files, m, k, s) \in Files(m)
    <3>1. PICK m \in 1..(kNumLevels - 1) : /\ p = <<n + m, FoundIn(files, m, k, s)>>
                                           /\ FoundIn(files, m, k, s) \in Files(m)
      BY <2>2
    <3>2. m # kNumLevels - 1
      <4> SUFFICES ASSUME m = kNumLevels - 1 PROVE FALSE
        OBVIOUS
      <4>1. p[1] = n + m /\ p[1] <= q[1]
        BY <1>5, <3>1
      <4>2. CASE q[1] \in 0..(n - 1)
        <5>1. n + m <= q[1]
          BY <4>1
        <5>2. q[1] \in Nat /\ q[1] < n /\ n \in Nat
          BY <1>2, <4>2
        <5>3. m \in Nat /\ m > 0
          BY <3>1, Constants
        <5> HIDE DEF n
        <5> QED
          BY <5>1, <5>2, <5>3
      <4>3. CASE \E j \in 1..(kNumLevels - 1) : q = <<n + j, FoundIn(files, j, k, s)>>
        <5>1. PICK j \in 1..(kNumLevels - 1) : q = <<n + j, FoundIn(files, j, k, s)>>
          BY <4>3
        <5>2. q[1] = n + j /\ j = m
          BY <1>2, <4>1, <5>1, Constants
        <5> QED
          BY <1>6, <3>1, <5>1, <5>2
      <4> QED
        BY <1>4, <4>2, <4>3
    <3>3. m \in 0..(kNumLevels - 2) /\ p[2] \in Files(m)
      BY <3>1, <3>2, Constants
    <3> QED
      BY <3>3
  <2> QED
    BY <1>4, <1>5, <2>1, <2>2
<1>8. PICK l \in 0..(kNumLevels - 2) : p[2] \in Files(l)
  BY <1>7
<1>9. level = l
  <2>1. l \in Levels
    BY Constants
  <2>2. level \in Levels /\ p[2] \in Files(level)
    BY <1>8, <2>1
  <2> HIDE DEF level
  <2> QED
    BY <1>8, <2>1, <2>2 DEF Once
<1> QED
  BY <1>1, <1>8, <1>9

\* A file that does not overlap a table shares no key with it, and lies on one
\* side of it.
LEMMA OutsideIsApart ==
  ASSUME Once, NEW T, Disjoint({T}), NEW l \in Levels, NEW F \in Files(l),
         ~ Overlaps(F, Smallest(T).key, Largest(T).key)
  PROVE  /\ KeysDiffer(T, F) /\ KeysDiffer(F, T)
         /\ Precedes(T, F) \/ Precedes(F, T)
<1>1. /\ Smallest(T).key \in Nat /\ Largest(T).key \in Nat
      /\ \A t \in T : Smallest(T).key <= t.key /\ t.key <= Largest(T).key /\ t.key \in Nat
  BY TableEnds, Constants
<1>2. Disjoint(Files(l)) /\ \A f \in F : f.key \in Nat
  BY LevelsAreDisjoint, TableEnds, Constants
<1>3. \/ \A f \in F : f.key < Smallest(T).key
      \/ \A f \in F : f.key > Largest(T).key
  BY <1>1, <1>2, OutsideSharesNoKey
<1> QED
  BY <1>1, <1>2, <1>3 DEF KeysDiffer, Precedes, Before

LEMMA RunsOnAfterFlush ==
  ASSUME Typed, Once, CompactMemTable, NEW c, Running(c)
  PROVE  Running(c)'
<1>1. snapshots' = snapshots /\ lastSequence' = lastSequence /\ lastSequence \in Nat
  BY DEF CompactMemTable, Typed
<1>2. CASE files' = files
  <2>1. \A i \in DOMAIN snapshots' : c.smallest_snapshot <= snapshots'[i]
    BY <1>1 DEF Running
  <2> QED
    BY <1>1, <1>2, <2>1, RunsOn
<1>3. CASE files' # files
  <2>1. PICK T \in (SUBSET Entries) \ {{}}, p \in 0..(kNumLevels - 2) :
                 /\ imm = <<T>> /\ T = Flushing /\ Disjoint({T})
                 /\ p # 0 => \A l \in 0..p : \A F \in Files(l) :
                               ~ Overlaps(F, Smallest(T).key, Largest(T).key)
                 /\ \A m \in Levels : Files(m)' = Files(m) \union (IF m = p THEN {T} ELSE {})
    BY <1>3, FlushEffect
  <2>2. p # 0 => \A l \in 0..p : \A F \in Files(l) : KeysDiffer(T, F)
    <3> SUFFICES ASSUME p # 0, NEW l \in 0..p, NEW F \in Files(l) PROVE KeysDiffer(T, F)
      OBVIOUS
    <3>1. l \in Levels
      BY Constants
    <3> QED
      BY <2>1, <3>1, OutsideIsApart
  <2>3. c.level \in Levels /\ c.level + 1 \in Levels /\ c.level \in 0..(kNumLevels - 2) /\ kNumLevels \in Nat
    BY Constants DEF Running
  <2>4. c.inputs[1] \subseteq Files(c.level)' /\ c.inputs[2] \subseteq Files(c.level + 1)'
    BY <2>1, <2>3 DEF Running
  <2>5. ASSUME NEW F \in Files(c.level + 1)' \ c.inputs[2] PROVE KeysDiffer(F, UNION c.inputs[1])
    <3>1. CASE F \in Files(c.level + 1)
      BY <3>1 DEF Running
    <3>2. CASE F = T /\ p = c.level + 1
      <4>1. p # 0 /\ c.level \in 0..p
        BY <2>3, <3>2
      <4>2. \A A \in c.inputs[1] : KeysDiffer(T, A)
        BY <2>2, <4>1 DEF Running
      <4> QED
        BY <3>2, <4>2 DEF KeysDiffer
    <3> QED
      BY <2>1, <2>3, <3>1, <3>2
  <2>6. ASSUME NEW l \in (c.level + 2)..(kNumLevels - 1), NEW F \in Files(l)', NEW f \in F,
               NEW e \in UNION Inputs(c), f.key = e.key
        PROVE  OverlapInLevel(c.version, l, e.key, e.key)
    <3>1. l \in Levels
      BY <2>3, Constants
    <3>2. CASE F \in Files(l)
      BY <2>6, <3>2 DEF Running
    <3>3. CASE F = T /\ p = l
      <4>1. p # 0 /\ c.level \in 0..p /\ c.level + 1 \in 0..p
        BY <2>3, <3>3
      <4>2. \A A \in Inputs(c) : KeysDiffer(T, A)
        BY <2>2, <4>1 DEF Running, Inputs
      <4> QED
        BY <2>6, <3>3, <4>2 DEF KeysDiffer
    <3> QED
      BY <2>1, <3>1, <3>2, <3>3
  <2> QED
    BY <1>1, <2>4, <2>5, <2>6 DEF Running
<1> QED
  BY <1>2, <1>3

\* What MoveFile moves is a compaction that could run.
LEMMA PickedRuns ==
  ASSUME TreeInv, NeedsCompaction(files, file_to_compact)
  PROVE  Running(PickCompaction)
<1>1. \E l \in 0..(kNumLevels - 2) : \E T \in Files(l) :
        LET S == IF l = 0 THEN Under(files, 0, {T}) ELSE {T}
        IN T \in S /\ Chosen(l, S) /\ PickCompaction = SetupOtherInputs(l, S)
  BY PickedInputs DEF TreeInv, Charged
<1>2. PICK l, S : Chosen(l, S) /\ PickCompaction = SetupOtherInputs(l, S)
  BY <1>1
<1>3. Running(SetupOtherInputs(l, S))
  BY <1>2, SetupRuns DEF TreeInv
<1> QED
  BY <1>2, <1>3

LEMMA MoveEffect ==
  ASSUME TreeInv, MoveFile
  PROVE  \E c, F :
           /\ c = PickCompaction /\ Running(c) /\ Inputs(c) = {F} /\ c.inputs[1] = {F}
           /\ Disjoint({F}) /\ Once' /\ EditOf(files', {F}, c.level + 1, {F})
           /\ \A m \in Levels : Files(m)' =
                (Files(m) \ {F}) \union (IF m = c.level + 1 THEN {F} ELSE {})
<1>1. PICK c : c = PickCompaction
  OBVIOUS
<1>2. /\ IsTrivialMove(c) /\ files' = Edited(c.inputs[1], c.level + 1, c.inputs[1])
      /\ mem' = mem /\ imm' = imm /\ lastSequence' = lastSequence
  BY <1>1 DEF MoveFile, memVars
<1>3. Running(c)
  BY <1>1, PickedRuns DEF MoveFile
<1>4. c.level \in Levels
  BY <1>3, Constants DEF Running
<1>5. PICK F : c.inputs[1] = {F}
  <2>1. IsFiniteSet(c.inputs[1]) /\ Cardinality(c.inputs[1]) = 1
    <3>1. c.inputs[1] \subseteq Disk
      BY <1>3, <1>4, LevelsAreDisjoint DEF Running, TreeInv
    <3> QED
      BY <1>2, <3>1, LevelsAreDisjoint DEF IsTrivialMove, TreeInv
  <2>2. PICK F : F \in c.inputs[1]
    BY <1>3 DEF Running
  <2>3. {F} \subseteq c.inputs[1] /\ Cardinality({F}) = 1
    BY <2>2, FS_Singleton
  <2>4. {F} = c.inputs[1]
    BY <2>1, <2>3, FS_Subset
  <2> QED
    BY <2>4
<1>6. Inputs(c) = {F}
  BY <1>2, <1>5 DEF Inputs, IsTrivialMove
<1>7. Disjoint({F})
  <2>1. {F} \subseteq Files(c.level)
    BY <1>3, <1>5 DEF Running
  <2> QED
    BY <1>4, <2>1, LevelsAreDisjoint, DisjointSubset DEF TreeInv
<1>8. /\ Once' /\ EditOf(files', Inputs(c), c.level + 1, {F})
      /\ \A m \in Levels : Files(m)' =
           (Files(m) \ Inputs(c)) \union (IF m = c.level + 1 THEN {F} ELSE {})
  <2>1. files' = Edited(Inputs(c), c.level + 1, {F}) /\ UNION {F} \subseteq UNION Inputs(c)
    BY <1>2, <1>5, <1>6
  <2>2. Once
    BY DEF TreeInv
  <2> HIDE DEF TreeInv
  <2> QED
    BY <1>2, <1>3, <1>7, <2>1, <2>2, InstallEffect
<1>9. /\ EditOf(files', {F}, c.level + 1, {F})
      /\ \A m \in Levels : Files(m)' =
           (Files(m) \ {F}) \union (IF m = c.level + 1 THEN {F} ELSE {})
  BY <1>6, <1>8
<1> WITNESS c, F
<1> QED
  BY <1>1, <1>3, <1>5, <1>6, <1>7, <1>8, <1>9

LEMMA FinishEffect ==
  ASSUME TreeInv, FinishCompaction
  PROVE  \E c :
           /\ compaction = <<c>> /\ compaction' = << >> /\ Running(c)
           /\ Disjoint(Outputs(c)) /\ InKeyOrder(Outputs(c))
           /\ UNION Outputs(c) = {e \in UNION Inputs(c) : ~ Superseded(c, e)}
           /\ Once' /\ EditOf(files', Inputs(c), c.level + 1, Outputs(c))
           /\ \A m \in Levels : Files(m)' =
                (Files(m) \ Inputs(c)) \union (IF m = c.level + 1 THEN Outputs(c) ELSE {})
<1>1. PICK c : compaction = <<c>> /\ Running(c)
  BY DEF TreeInv, FinishCompaction
<1>2. /\ files' = Edited(Inputs(c), c.level + 1, Outputs(c)) /\ compaction' = << >>
      /\ mem' = mem /\ imm' = imm /\ lastSequence' = lastSequence
  BY <1>1 DEF FinishCompaction, memVars, Inputs
<1>3. UNION Inputs(c) \subseteq Stored
  <2>1. c.level \in Levels /\ c.level + 1 \in Levels
    BY <1>1, Constants DEF Running
  <2> QED
    BY <1>1, <2>1 DEF Stored, Disk, Running, Inputs
<1>4. /\ UNION Inputs(c) \subseteq Entries /\ SeqsDiffer(UNION Inputs(c))
      /\ c.smallest_snapshot \in 0..MaxSequence
  BY <1>1, <1>3, Constants DEF TreeInv, Once, SeqsDiffer, Typed, Running
<1> DEFINE new == Outputs(c)
<1>5. /\ Disjoint(new) /\ InKeyOrder(new)
      /\ UNION new = {e \in UNION Inputs(c) : ~ Superseded(c, e)}
  BY <1>4, OutputsOfMerge
<1>6. UNION new \subseteq UNION Inputs(c) /\ files' = Edited(Inputs(c), c.level + 1, new)
  BY <1>2, <1>5
<1>9. Once
  BY DEF TreeInv
<1> HIDE DEF new
<1>7. /\ Once' /\ EditOf(files', Inputs(c), c.level + 1, new)
      /\ \A m \in Levels : Files(m)' =
           (Files(m) \ Inputs(c)) \union (IF m = c.level + 1 THEN new ELSE {})
  BY <1>1, <1>2, <1>5, <1>6, <1>9, InstallEffect
<1> QED
  BY <1>1, <1>2, <1>5, <1>7 DEF new
-----------------------------------------------------------------------------
(* TreeInv is kept *)

\* Steps that change neither the files nor what is stored, and how much was
\* written only upwards.
LEMMA SameFiles ==
  ASSUME files' = files
  PROVE  /\ \A l : Files(l)' = Files(l)
         /\ Disk' = Disk
BY DEF Files, Disk

LEMMA OnceFrame ==
  ASSUME Once, UNCHANGED <<mem, imm, lastSequence, files>>
  PROVE  Once' /\ Stored' = Stored
<1>1. Flushing' = Flushing /\ Disk' = Disk /\ \A l : Files(l)' = Files(l)
  BY SameFiles DEF Flushing
<1>2. Stored' = Stored
  BY <1>1 DEF Stored
<1> QED
  BY <1>1, <1>2 DEF Once

\* The memtable becomes imm_.
LEMMA OnceAfterSwitch ==
  ASSUME Once, imm = << >>, imm' = <<mem>>, mem' = {}, files' = files,
         lastSequence' = lastSequence
  PROVE  Once' /\ Stored' = Stored
<1>1. Flushing = {} /\ Flushing' = mem
  <2>1. ToSet(<< >>) = {} /\ ToSet(<<mem>>) = {mem}
    BY DEF ToSet
  <2> QED
    BY <2>1 DEF Flushing
<1>2. Disk' = Disk /\ \A l : Files(l)' = Files(l)
  BY SameFiles
<1>3. Stored' = Stored
  BY <1>1, <1>2 DEF Stored
<1> QED
  BY <1>1, <1>2, <1>3 DEF Once

LEMMA SnapshotAdded ==
  ASSUME Typed, snapshots' = Append(snapshots, lastSequence), Len(snapshots) < MaxSnapshots
  PROVE  /\ snapshots' \in Seq(0..lastSequence)
         /\ Len(snapshots') <= MaxSnapshots
         /\ \A i, j \in DOMAIN snapshots' : i < j => snapshots'[i] <= snapshots'[j]
         /\ \A i \in DOMAIN snapshots' :
              \/ i \in DOMAIN snapshots /\ snapshots'[i] = snapshots[i]
              \/ i = Len(snapshots) + 1 /\ snapshots'[i] = lastSequence
<1>1. lastSequence \in Nat /\ lastSequence \in 0..lastSequence /\ snapshots \in Seq(0..lastSequence)
  BY DEF Typed
<1>2. /\ snapshots' \in Seq(0..lastSequence) /\ Len(snapshots') = Len(snapshots) + 1
      /\ \A i \in 1..Len(snapshots) : snapshots'[i] = snapshots[i]
      /\ snapshots'[Len(snapshots) + 1] = lastSequence
  BY <1>1, AppendProperties
<1>3. DOMAIN snapshots = 1..Len(snapshots) /\ DOMAIN snapshots' = 1..(Len(snapshots) + 1)
      /\ Len(snapshots) \in Nat
  BY <1>1, <1>2, LenProperties
<1>4. \A i \in 1..Len(snapshots) : snapshots[i] \in 0..lastSequence
  BY <1>1, ElementOfSeq
<1>5. \A i \in DOMAIN snapshots' :
        \/ i \in DOMAIN snapshots /\ snapshots'[i] = snapshots[i]
        \/ i = Len(snapshots) + 1 /\ snapshots'[i] = lastSequence
  BY <1>2, <1>3
<1>6. ASSUME NEW i \in DOMAIN snapshots', NEW j \in DOMAIN snapshots', i < j
      PROVE  snapshots'[i] <= snapshots'[j]
  <2>1. i \in DOMAIN snapshots /\ snapshots'[i] = snapshots[i]
    BY <1>2, <1>3, <1>6
  <2>2. CASE j \in DOMAIN snapshots /\ snapshots'[j] = snapshots[j]
    BY <1>6, <2>1, <2>2 DEF Typed
  <2>3. CASE snapshots'[j] = lastSequence
    BY <1>1, <1>3, <1>4, <2>1, <2>3
  <2> QED
    BY <1>5, <2>2, <2>3
<1>7. Len(snapshots') <= MaxSnapshots
  BY <1>2, <1>3, Constants
<1> QED
  BY <1>2, <1>5, <1>6, <1>7

LEMMA SnapshotRemoved ==
  ASSUME Typed, NEW i \in DOMAIN snapshots, snapshots' = RemoveAt(snapshots, i)
  PROVE  /\ snapshots' \in Seq(0..lastSequence)
         /\ Len(snapshots') <= MaxSnapshots
         /\ \A j, k \in DOMAIN snapshots' : j < k => snapshots'[j] <= snapshots'[k]
         /\ Len(snapshots') = Len(snapshots) - 1 /\ Len(snapshots') \in Nat
         /\ DOMAIN snapshots' = 1..Len(snapshots')
         /\ \A j \in DOMAIN snapshots' :
              /\ (IF j < i THEN j ELSE j + 1) \in DOMAIN snapshots
              /\ snapshots'[j] = snapshots[IF j < i THEN j ELSE j + 1]
<1> DEFINE n == Len(snapshots)
<1>1. n \in Nat /\ DOMAIN snapshots = 1..n /\ i \in 1..n /\ snapshots \in Seq(0..lastSequence)
  BY LenProperties DEF Typed
<1>2. snapshots' = [j \in 1..(n - 1) |-> IF j < i THEN snapshots[j] ELSE snapshots[j + 1]]
  <2> DEFINE a == SubSeq(snapshots, 1, i - 1)
             b == SubSeq(snapshots, i + 1, n)
  <2>1. \A j \in 1..n : snapshots[j] \in 0..lastSequence
    BY <1>1, ElementOfSeq
  <2> HIDE DEF n
  <2>2. /\ a \in Seq(0..lastSequence) /\ Len(a) = i - 1
        /\ \A j \in 1..(i - 1) : a[j] = snapshots[j]
    <3>1. \A j \in 1..(i - 1) : snapshots[j] \in 0..lastSequence
      BY <1>1, <2>1
    <3>2. /\ a \in Seq(0..lastSequence)
          /\ Len(a) = IF 1 <= i - 1 THEN (i - 1) - 1 + 1 ELSE 0
          /\ \A j \in 1..((i - 1) - 1 + 1) : a[j] = snapshots[1 + j - 1]
      BY <1>1, <3>1, SubSeqProperties
    <3> HIDE DEF a
    <3> QED
      BY <1>1, <3>2
  <2>3. /\ b \in Seq(0..lastSequence) /\ Len(b) = n - i
        /\ \A j \in 1..(n - i) : b[j] = snapshots[i + j]
    <3>1. \A j \in (i + 1)..n : snapshots[j] \in 0..lastSequence
      BY <1>1, <2>1
    <3>2. /\ b \in Seq(0..lastSequence)
          /\ Len(b) = IF i + 1 <= n THEN n - (i + 1) + 1 ELSE 0
          /\ \A j \in 1..(n - (i + 1) + 1) : b[j] = snapshots[(i + 1) + j - 1]
      BY <1>1, <3>1, SubSeqProperties
    <3>3. \A j \in 1..(n - i) : (i + 1) + j - 1 = i + j /\ j \in 1..(n - (i + 1) + 1)
      BY <1>1
    <3> HIDE DEF b
    <3>4. \A j \in 1..(n - i) : b[j] = snapshots[i + j]
      BY <3>2, <3>3
    <3>5. Len(b) = n - i
      BY <1>1, <3>2
    <3> QED
      BY <3>2, <3>4, <3>5
  <2>4. snapshots' = a \o b
    BY DEF RemoveAt, n
  <2> HIDE DEF a, b
  <2>5. /\ a \o b \in Seq(0..lastSequence) /\ Len(a \o b) = Len(a) + Len(b)
        /\ \A j \in 1..Len(a) + Len(b) :
             (a \o b)[j] = IF j <= Len(a) THEN a[j] ELSE b[j - Len(a)]
    BY <2>2, <2>3, ConcatProperties
  <2> DEFINE s == a \o b
  <2>6. s \in Seq(0..lastSequence) /\ Len(s) = n - 1 /\ DOMAIN s = 1..(n - 1)
    BY <1>1, <2>2, <2>3, <2>5, LenProperties
  <2>7. ASSUME NEW j \in 1..(n - 1) PROVE s[j] = IF j < i THEN snapshots[j] ELSE snapshots[j + 1]
    <3>1. j \in 1..(Len(a) + Len(b)) /\ s[j] = IF j <= Len(a) THEN a[j] ELSE b[j - Len(a)]
      BY <1>1, <2>2, <2>3, <2>5
    <3> HIDE DEF s
    <3>2. CASE j < i
      <4>1. j <= Len(a) /\ j \in 1..(i - 1)
        BY <1>1, <2>2, <3>2
      <4> QED
        BY <2>2, <3>1, <3>2, <4>1
    <3>3. CASE ~ (j < i)
      <4>1. ~ (j <= Len(a)) /\ j - Len(a) = j - i + 1 /\ j - i + 1 \in 1..(n - i)
        BY <1>1, <2>2, <3>3
      <4>2. b[j - i + 1] = snapshots[i + (j - i + 1)] /\ i + (j - i + 1) = j + 1
        BY <1>1, <2>3, <4>1
      <4> QED
        BY <3>1, <3>3, <4>1, <4>2
    <3> QED
      BY <3>2, <3>3
  <2>8. snapshots' = s
    BY <2>4
  <2> HIDE DEF s
  <2>9. s = [j \in 1..(n - 1) |-> s[j]]
    BY <1>1, <2>6
  <2> QED
    BY <2>7, <2>8, <2>9
<1> HIDE DEF n
<1>3. DOMAIN snapshots' = 1..(n - 1)
      /\ \A j \in 1..(n - 1) : /\ (IF j < i THEN j ELSE j + 1) \in 1..n
                               /\ snapshots'[j] = snapshots[IF j < i THEN j ELSE j + 1]
  BY <1>1, <1>2
<1>4. snapshots' \in [1..(n - 1) -> 0..lastSequence]
  <2>1. \A j \in 1..(n - 1) : snapshots'[j] \in 0..lastSequence
    <3>1. \A j \in 1..n : snapshots[j] \in 0..lastSequence
      BY <1>1, ElementOfSeq DEF n
    <3> QED
      BY <1>3, <3>1
  <2> QED
    BY <1>2, <2>1
<1>5. n - 1 \in Nat
  BY <1>1
<1>6. snapshots' \in Seq(0..lastSequence)
  <2> DEFINE m == n - 1
  <2>1. m \in Nat /\ \A j \in 1..m : snapshots'[j] \in 0..lastSequence
    BY <1>4, <1>5
  <2>2. snapshots' = [j \in 1..m |-> snapshots'[j]]
    BY <1>4
  <2> HIDE DEF m
  <2>3. [j \in 1..m |-> snapshots'[j]] \in Seq(0..lastSequence)
    BY <2>1, IsASeq
  <2> QED
    BY <2>2, <2>3
<1>7. Len(snapshots') = n - 1
  BY <1>3, <1>5, <1>6, LenProperties
<1>8. Len(snapshots') <= MaxSnapshots
  BY <1>1, <1>7, Constants DEF Typed, n
<1>9. ASSUME NEW j \in DOMAIN snapshots', NEW k \in DOMAIN snapshots', j < k
      PROVE  snapshots'[j] <= snapshots'[k]
  <2> DEFINE x == IF j < i THEN j ELSE j + 1
             y == IF k < i THEN k ELSE k + 1
  <2>1. x \in 1..n /\ y \in 1..n /\ x < y
    BY <1>1, <1>3, <1>9
  <2>2. snapshots'[j] = snapshots[x] /\ snapshots'[k] = snapshots[y]
    BY <1>3
  <2> HIDE DEF x, y
  <2> QED
    BY <1>1, <2>1, <2>2 DEF Typed
<1> QED
  BY <1>1, <1>3, <1>5, <1>6, <1>7, <1>8, <1>9 DEF n

\* The entry a write adds.
LEMMA OnceAfterWrite ==
  ASSUME Typed, Once, NEW k \in Keys, NEW type \in ValueTypes, Write(k, type)
  PROVE  LET e == [key |-> k, seq |-> lastSequence + 1, type |-> type]
         IN /\ Once' /\ e \in Entries /\ e \in mem' /\ Stored' = Stored \union {e}
            /\ mem' \subseteq mem \union {e}
            /\ Disk' = Disk
            /\ lastSequence \in 0..MaxSequence /\ lastSequence' = lastSequence + 1
            /\ lastSequence' \in 0..MaxSequence
            /\ \A x \in Stored : x.seq <= lastSequence /\ x.seq # e.seq
            /\ \/ imm' = imm /\ mem' = mem \union {e}
               \/ imm = << >> /\ imm' = <<mem>> /\ mem' = {e}
<1> DEFINE e == [key |-> k, seq |-> lastSequence + 1, type |-> type]
<1>1. /\ lastSequence \in 0..MaxSequence /\ lastSequence' = lastSequence + 1
      /\ lastSequence' \in 0..MaxSequence /\ files' = files
      /\ \/ imm' = imm /\ mem' = mem \union {e}
         \/ imm = << >> /\ imm' = <<mem>> /\ mem' = {e}
  BY Constants DEF Write, SwitchTo, CanSwitch, Typed, treeVars
<1>2. e \in Entries
  BY <1>1, Constants DEF Entries, Keys
<1>3. Disk' = Disk /\ \A l : Files(l)' = Files(l)
  BY <1>1, SameFiles
<1>4. \A x \in Stored : x.seq <= lastSequence /\ x.seq # e.seq
  BY <1>1, Constants DEF Once
<1>5. e \notin Stored
  BY <1>4
<1>6. \/ Flushing' = Flushing
      \/ Flushing = {} /\ Flushing' = mem /\ mem' = {e}
  <2>1. CASE imm' = imm
    BY <2>1 DEF Flushing
  <2>2. CASE imm = << >> /\ imm' = <<mem>> /\ mem' = {e}
    <3>1. ToSet(<< >>) = {} /\ ToSet(<<mem>>) = {mem}
      BY DEF ToSet
    <3> QED
      BY <2>2, <3>1 DEF Flushing
  <2> QED
    BY <1>1, <2>1, <2>2
<1>7. mem' = mem \union {e} \/ mem' = {e}
  BY <1>1
<1>8. Stored' = Stored \union {e}
  <2>1. CASE imm' = imm /\ mem' = mem \union {e}
    <3>1. Flushing' = Flushing
      BY <2>1 DEF Flushing
    <3> QED
      BY <1>3, <2>1, <3>1 DEF Stored
  <2>2. CASE imm = << >> /\ imm' = <<mem>> /\ mem' = {e}
    <3>1. Flushing = {} /\ Flushing' = mem
      <4>1. ToSet(<< >>) = {} /\ ToSet(<<mem>>) = {mem}
        BY DEF ToSet
      <4> QED
        BY <2>2, <4>1 DEF Flushing
    <3> QED
      BY <1>3, <2>2, <3>1 DEF Stored
  <2> QED
    BY <1>1, <2>1, <2>2
<1> HIDE DEF e
<1>9. mem' \intersect (Flushing' \union UNION Disk') = {} /\ Flushing' \intersect UNION Disk' = {}
  BY <1>3, <1>5, <1>6, <1>7 DEF Once, Stored
<1>10. SeqsDiffer(Stored')
  BY <1>4, <1>8 DEF SeqsDiffer, Once
<1>11. Stored' \subseteq Entries
  BY <1>2, <1>8 DEF Once
<1>12. \A x \in Stored' : x.seq <= lastSequence'
  <2>1. e.seq = lastSequence + 1
    BY DEF e
  <2>2. \A x \in Stored : x.seq \in Nat
    BY Constants DEF Once
  <2> QED
    BY <1>1, <1>4, <1>8, <2>1, <2>2
<1>13. \A l \in Levels : files'[l] \in Seq(SUBSET Entries)
  BY <1>1 DEF Once
<1>14. Disjoint(Disk') /\ \A l, m \in Levels : l # m => Files(l)' \intersect Files(m)' = {}
  BY <1>3 DEF Once
<1>15. Once'
  BY <1>9, <1>10, <1>11, <1>12, <1>13, <1>14 DEF Once
<1>16. e \in mem' /\ mem' \subseteq mem \union {e}
  BY <1>7
<1> QED
  BY <1>1, <1>2, <1>3, <1>4, <1>8, <1>15, <1>16 DEF e

LEMMA CallsAreCalls ==
  ASSUME manual \in Calls
  PROVE  /\ RangeDone \in Calls \/ manual.pc = "idle"
         /\ AfterCompaction \in Calls
         /\ manual.pc \in {"idle", "write", "flush", "range", "submitted", "running"}
         /\ manual.pc # "idle" =>
              /\ manual.level \in 0..(kNumLevels - 2) /\ manual.begin \in 0..MaxKey
              /\ manual.hi \in 1..(MaxKey + 1)
         /\ \A pc \in {"write", "flush", "range", "submitted", "running"}, b \in 0..MaxKey :
              manual.pc # "idle" =>
                /\ [manual EXCEPT !.pc = pc] \in Calls
                /\ [manual EXCEPT !.pc = pc, !.begin = b] \in Calls
<1>1. CASE manual.pc = "idle"
  BY <1>1 DEF AfterCompaction, Calls
<1>2. CASE manual.pc # "idle"
  <2>1. manual \in [pc : {"write", "flush", "range", "submitted", "running"},
                    level : 0..(kNumLevels - 2), lo : 0..MaxKey, begin : 0..MaxKey,
                    hi : 1..(MaxKey + 1), last : 1..(kNumLevels - 1)]
    BY <1>2 DEF Calls
  <2>2. RangeDone \in Calls
    <3>1. CASE manual.level + 1 < manual.last
      <4>1. manual.level + 1 \in 0..(kNumLevels - 2)
        BY <2>1, <3>1, Constants
      <4>2. RangeDone = [manual EXCEPT !.pc = "range", !.level = manual.level + 1, !.begin = manual.lo]
        BY <3>1 DEF RangeDone
      <4> QED
        BY <2>1, <4>1, <4>2 DEF Calls
    <3>2. CASE ~ (manual.level + 1 < manual.last)
      BY <3>2 DEF RangeDone, Calls
    <3> QED
      BY <3>1, <3>2
  <2> QED
    BY <2>1, <2>2 DEF AfterCompaction, Calls
<1> QED
  BY <1>1, <1>2

LEMMA HasWorkIsBoolean ==
  ASSUME NEW i, NEW v, NEW f, NEW m PROVE HasWork(i, v, f, m) \in BOOLEAN
BY DEF HasWork, NeedsCompaction, TooFull

\* The writer's and the readers' steps.
LEMMA ClientsKeepTreeInv ==
  ASSUME TreeInv,
         \/ \E k \in Keys, type \in ValueTypes : Write(k, type)
         \/ GetSnapshot
         \/ \E i \in DOMAIN snapshots : ReleaseSnapshot(i)
         \/ \E k \in Keys, s \in 0..lastSequence : ChargeSeek(k, s)
  PROVE  TreeInv'
<1> USE DEF TreeInv
<1>1. files' = files /\ compaction' = compaction /\ manual' = manual
  BY DEF Write, GetSnapshot, ReleaseSnapshot, ChargeSeek, treeVars, callVars
<1>2. \A l : Files(l)' = Files(l)
  BY <1>1, SameFiles
<1>3. lastSequence \in Nat /\ snapshots \in Seq(0..lastSequence) /\ lastSequence <= MaxSequence
      /\ lastSequence \in 0..MaxSequence
  BY Constants DEF Typed
<1>4. \A c : Running(c) => \A i \in DOMAIN snapshots : c.smallest_snapshot <= snapshots[i]
  BY DEF Running
<1>5. \A c : Running(c) => c.smallest_snapshot <= lastSequence
  BY <1>3 DEF Running
<1>6. ASSUME NEW k \in Keys, NEW type \in ValueTypes, Write(k, type) PROVE TreeInv'
  <2>1. /\ Once' /\ lastSequence' = lastSequence + 1 /\ lastSequence' \in 0..MaxSequence
        /\ mem \subseteq Entries
        /\ \/ imm' = imm
           \/ imm' = <<mem>>
    BY <1>6, OnceAfterWrite DEF Once, Stored
  <2>2. snapshots' = snapshots /\ file_to_compact' = file_to_compact /\ scheduled' \in BOOLEAN
    BY <1>6 DEF Write, treeVars, SwitchTo, Typed
  <2>3. Charged'
    BY <1>2, <2>2 DEF Charged
  <2>4. snapshots \in Seq(0..lastSequence')
    <3>1. Len(snapshots) \in Nat /\ snapshots = [i \in 1..Len(snapshots) |-> snapshots[i]]
      BY <1>3, LenProperties
    <3>2. \A i \in 1..Len(snapshots) : snapshots[i] \in 0..lastSequence'
      <4>1. \A i \in 1..Len(snapshots) : snapshots[i] \in 0..lastSequence
        BY <1>3, ElementOfSeq
      <4> QED
        BY <1>3, <2>1, <4>1
    <3>3. [i \in 1..Len(snapshots) |-> snapshots[i]] \in Seq(0..lastSequence')
      BY <3>1, <3>2, IsASeq
    <3> QED
      BY <3>1, <3>3
  <2>5. Typed'
    BY <1>1, <2>1, <2>2, <2>4 DEF Typed
  <2>6. ASSUME NEW c, Running(c) PROVE Running(c)'
    <3>1. lastSequence' \in Nat /\ lastSequence <= lastSequence'
      BY <1>3, <2>1
    <3>2. \A i \in DOMAIN snapshots' : c.smallest_snapshot <= snapshots'[i]
      BY <1>4, <2>2, <2>6
    <3> QED
      BY <1>1, <1>3, <2>6, <3>1, <3>2, RunsOn
  <2> QED
    BY <1>1, <2>1, <2>3, <2>5, <2>6
<1>7. ASSUME GetSnapshot PROVE TreeInv'
  <2>1. /\ UNCHANGED <<mem, imm, lastSequence, files>> /\ file_to_compact' = file_to_compact
        /\ scheduled' = scheduled
        /\ snapshots' = Append(snapshots, lastSequence) /\ Len(snapshots) < MaxSnapshots
    BY <1>7 DEF GetSnapshot, memVars, treeVars
  <2>2. /\ snapshots' \in Seq(0..lastSequence)
        /\ Len(snapshots') <= MaxSnapshots
        /\ \A i, j \in DOMAIN snapshots' : i < j => snapshots'[i] <= snapshots'[j]
        /\ \A i \in DOMAIN snapshots' :
             \/ i \in DOMAIN snapshots /\ snapshots'[i] = snapshots[i]
             \/ i = Len(snapshots) + 1 /\ snapshots'[i] = lastSequence
    BY <2>1, SnapshotAdded
  <2>3. Once'
    BY <2>1, OnceFrame
  <2>4. Charged'
    BY <1>2, <2>1 DEF Charged
  <2>5. Typed'
    BY <1>1, <2>1, <2>2 DEF Typed
  <2>6. ASSUME NEW c, Running(c) PROVE Running(c)'
    <3>1. lastSequence' \in Nat /\ lastSequence <= lastSequence'
      BY <1>3, <2>1
    <3>2. \A i \in DOMAIN snapshots' : c.smallest_snapshot <= snapshots'[i]
      BY <1>4, <1>5, <2>2, <2>6
    <3> QED
      BY <1>1, <1>3, <2>6, <3>1, <3>2, RunsOn
  <2> QED
    BY <1>1, <2>3, <2>4, <2>5, <2>6
<1>8. ASSUME NEW i \in DOMAIN snapshots, ReleaseSnapshot(i) PROVE TreeInv'
  <2>1. /\ UNCHANGED <<mem, imm, lastSequence, files>> /\ file_to_compact' = file_to_compact
        /\ scheduled' = scheduled
        /\ snapshots' = RemoveAt(snapshots, i)
    BY <1>8 DEF ReleaseSnapshot, memVars, treeVars
  <2>2. /\ snapshots' \in Seq(0..lastSequence)
        /\ Len(snapshots') <= MaxSnapshots
        /\ \A j, k \in DOMAIN snapshots' : j < k => snapshots'[j] <= snapshots'[k]
        /\ \A j \in DOMAIN snapshots' :
             /\ (IF j < i THEN j ELSE j + 1) \in DOMAIN snapshots
             /\ snapshots'[j] = snapshots[IF j < i THEN j ELSE j + 1]
    BY <2>1, SnapshotRemoved
  <2>3. Once'
    BY <2>1, OnceFrame
  <2>4. Charged'
    BY <1>2, <2>1 DEF Charged
  <2>5. Typed'
    BY <1>1, <2>1, <2>2 DEF Typed
  <2>6. ASSUME NEW c, Running(c) PROVE Running(c)'
    <3>1. lastSequence' \in Nat /\ lastSequence <= lastSequence'
      BY <1>3, <2>1
    <3>2. \A j \in DOMAIN snapshots' : c.smallest_snapshot <= snapshots'[j]
      BY <1>4, <2>2, <2>6
    <3> QED
      BY <1>1, <1>3, <2>6, <3>1, <3>2, RunsOn
  <2> QED
    BY <1>1, <2>3, <2>4, <2>5, <2>6
<1>9. ASSUME NEW k \in Keys, NEW s \in 0..lastSequence, ChargeSeek(k, s) PROVE TreeInv'
  <2>1. /\ UNCHANGED <<mem, imm, lastSequence, files, snapshots>> /\ scheduled' \in BOOLEAN
    BY <1>9 DEF ChargeSeek, memVars
  <2>2. \E l \in 0..(kNumLevels - 2) : \E T \in Files(l) : file_to_compact' = <<l, T>>
    BY <1>3, <1>9, ChargedFile
  <2>3. Charged'
    BY <1>2, <2>2 DEF Charged
  <2>4. Once'
    BY <2>1, OnceFrame
  <2>5. Typed'
    BY <1>1, <2>1 DEF Typed
  <2>6. ASSUME NEW c, Running(c) PROVE Running(c)'
    BY <1>1, <1>3, <1>4, <2>1, <2>6, RunsOn
  <2> QED
    BY <1>1, <2>3, <2>4, <2>5, <2>6
<1> QED
  BY <1>6, <1>7, <1>8, <1>9

\* The steps of the caller of CompactRange.
LEMMA CallerKeepsTreeInv ==
  ASSUME TreeInv, (\E r \in Ranges : CompactRange(r[1], r[2])) \/ CompactRangeStep
  PROVE  TreeInv'
<1> USE DEF TreeInv
<1>1. /\ files' = files /\ compaction' = compaction /\ file_to_compact' = file_to_compact
      /\ lastSequence' = lastSequence /\ snapshots' = snapshots
  BY DEF CompactRange, CompactRangeStep, ForceSwitch, AwaitFlush, SubmitRange, SwitchTo, memVars,
     treeVars
<1>2. Charged'
  BY <1>1, SameFiles DEF Charged
<1>3. \A c : Running(c) => Running(c)'
  <2>1. lastSequence \in Nat
    BY DEF Typed
  <2> SUFFICES ASSUME NEW c, Running(c) PROVE Running(c)'
    OBVIOUS
  <2>2. \A i \in DOMAIN snapshots' : c.smallest_snapshot <= snapshots'[i]
    BY <1>1 DEF Running
  <2> QED
    BY <1>1, <2>1, <2>2, RunsOn
<1>4. manual \in Calls
  BY DEF Typed
<1>5. ASSUME NEW r \in Ranges, CompactRange(r[1], r[2]) PROVE TreeInv'
  <2>1. UNCHANGED <<mem, imm, scheduled>>
    BY <1>5 DEF CompactRange, memVars
  <2>2. manual' \in Calls
    <3> DEFINE deep == {l \in Levels \ {0} : OverlapInLevel(files, l, r[1], r[2])}
    <3>1. manual' = [pc |-> "write", level |-> 0, lo |-> r[1], begin |-> r[1],
                     hi |-> r[2], last |-> Max(deep \union {1})]
      BY <1>5 DEF CompactRange
    <3>2. deep \union {1} \subseteq Nat /\ kNumLevels - 1 \in Nat
          /\ \A x \in deep \union {1} : x >= 1 /\ x <= kNumLevels - 1
      BY Constants
    <3> HIDE DEF deep
    <3>3. Max(deep \union {1}) \in deep \union {1}
      BY <3>2, Greatest
    <3>4. Max(deep \union {1}) \in 1..(kNumLevels - 1)
      BY <3>2, <3>3
    <3>5. r[1] \in 0..MaxKey /\ r[2] \in 1..(MaxKey + 1) /\ 0 \in 0..(kNumLevels - 2)
      BY VersionSetAssumption
    <3> QED
      BY <3>1, <3>4, <3>5 DEF Calls
  <2>3. Once'
    BY <1>1, <2>1, OnceFrame
  <2>4. Typed'
    BY <1>1, <2>1, <2>2 DEF Typed
  <2> QED
    BY <1>1, <1>2, <1>3, <2>3, <2>4
<1>6. ASSUME ForceSwitch PROVE TreeInv'
  <2>1. imm = << >> /\ imm' = <<mem>> /\ mem' = {} /\ scheduled' = TRUE
        /\ manual.pc = "write" /\ manual' = [manual EXCEPT !.pc = "flush"]
    BY <1>6 DEF ForceSwitch, SwitchTo, CanSwitch
  <2>2. Once' /\ mem \subseteq Entries
    BY <1>1, <2>1, OnceAfterSwitch DEF Once, Stored
  <2>3. manual' \in Calls
    BY <1>4, <2>1, CallsAreCalls
  <2>4. Typed'
    BY <1>1, <2>1, <2>2, <2>3 DEF Typed
  <2> QED
    BY <1>1, <1>2, <1>3, <2>2, <2>4
<1>7. ASSUME AwaitFlush \/ SubmitRange PROVE TreeInv'
  <2>1. UNCHANGED <<mem, imm>> /\ scheduled' \in BOOLEAN
    BY <1>7 DEF AwaitFlush, SubmitRange, memVars, Typed
  <2>2. manual' \in Calls
    BY <1>4, <1>7, CallsAreCalls DEF AwaitFlush, SubmitRange
  <2>3. Once'
    BY <1>1, <2>1, OnceFrame
  <2>4. Typed'
    BY <1>1, <2>1, <2>2 DEF Typed
  <2> QED
    BY <1>1, <1>2, <1>3, <2>3, <2>4
<1> QED
  BY <1>5, <1>6, <1>7 DEF CompactRangeStep

\* The compaction a range is handed to.
LEMMA ManualRuns ==
  ASSUME TreeInv, StartManual, compaction' # compaction
  PROVE  \E S : /\ Chosen(manual.level, S) /\ S = RangeInputs(manual.level, manual.begin, manual.hi)
                /\ compaction' = <<SetupOtherInputs(manual.level, S)>>
                /\ Running(SetupOtherInputs(manual.level, S))
                /\ manual' \in Calls /\ UNCHANGED scheduled
<1> DEFINE S == RangeInputs(manual.level, manual.begin, manual.hi)
           c == SetupOtherInputs(manual.level, S)
           manual_end == Largest(Last(BySmallestKey(c.inputs[1])))
<1>1. /\ S # {} /\ compaction' = <<c>>
      /\ manual' = [manual EXCEPT !.pc = "running", !.begin = manual_end.key]
      /\ UNCHANGED scheduled /\ manual.pc = "submitted"
  BY DEF StartManual, Start
<1>2. manual.level \in 0..(kNumLevels - 2) /\ manual.begin \in 0..MaxKey /\ manual.hi \in 1..(MaxKey + 1)
  BY <1>1, CallsAreCalls DEF TreeInv, Typed
<1>3. Chosen(manual.level, S)
  BY <1>1, <1>2, RangeInputsAreChosen DEF TreeInv
<1> HIDE DEF S
<1>4. Running(c)
  BY <1>3, SetupRuns DEF TreeInv
<1>5. c.inputs[1] # {} /\ Disjoint(c.inputs[1])
  <2>1. c.inputs[1] # {} /\ c.inputs[1] \subseteq Files(c.level) /\ c.level \in Levels
    BY <1>4, Constants DEF Running
  <2> QED
    BY <2>1, LevelsAreDisjoint, DisjointSubset DEF TreeInv
<1> HIDE DEF c
<1>6. manual_end.key \in 1..MaxKey
  <2> DEFINE all == BySmallestKey(c.inputs[1])
             n == Cardinality(c.inputs[1])
  <2>1. all \in [1..n -> c.inputs[1]] /\ n \in Nat
        /\ \A A \in c.inputs[1] : \E i \in 1..n : all[i] = A
    BY <1>5, TablesSorted
  <2>2. n \in 1..n
    BY <1>5, <2>1
  <2> HIDE DEF all, n
  <2>3. Len(all) = n /\ Last(all) = all[Len(all)]
    BY <2>1, LenProperties, IsASeq DEF Last
  <2>4. Last(all) \in c.inputs[1]
    BY <2>1, <2>2, <2>3
  <2> QED
    BY <1>5, <2>4, TableEnds DEF all
<1>7. manual' \in Calls
  <2>1. manual_end.key \in 0..MaxKey
    BY <1>6
  <2> HIDE DEF manual_end
  <2> QED
    BY <1>1, <2>1, CallsAreCalls DEF TreeInv, Typed
<1> QED
  BY <1>1, <1>3, <1>4, <1>7 DEF c, S

\* The steps of the background thread.
LEMMA BackgroundKeepsTreeInv ==
  ASSUME TreeInv, Background
  PROVE  TreeInv'
<1>0. /\ lastSequence' = lastSequence /\ snapshots' = snapshots
      /\ lastSequence \in Nat /\ \A c : Running(c) => \A i \in DOMAIN snapshots : c.smallest_snapshot <= snapshots[i]
  BY DEF Background, FlushFirst, FlushDuringCompaction, CompactMemTable, StartManual,
     StartCompaction, MoveFile, FinishCompaction, memVars, TreeInv, Typed, Running
<1>1. ASSUME FlushFirst \/ FlushDuringCompaction PROVE TreeInv'
  <2>1. CompactMemTable /\ compaction' = compaction /\ scheduled' \in BOOLEAN
        /\ imm' = << >> /\ file_to_compact' = << >> /\ manual' = manual
    BY <1>1, HasWorkIsBoolean DEF FlushFirst, FlushDuringCompaction, CompactMemTable, callVars, TreeInv, Typed
  <2>2. Once'
    BY <2>1, FlushEffect DEF TreeInv
  <2>3. Typed'
    BY <1>0, <2>1 DEF Typed, TreeInv
  <2>4. \A c : Running(c) => Running(c)'
    BY <2>1, RunsOnAfterFlush DEF TreeInv
  <2> QED
    BY <2>1, <2>2, <2>3, <2>4 DEF TreeInv, Charged
<1>2. ASSUME StartManual PROVE TreeInv'
  <2>1. UNCHANGED <<mem, imm, files, file_to_compact>> /\ compaction = << >>
    BY <1>2 DEF StartManual, memVars
  <2>2. Once'
    BY <1>0, <2>1, OnceFrame DEF TreeInv
  <2>3. Charged'
    BY <2>1, SameFiles DEF Charged, TreeInv
  <2>4. CASE compaction' = compaction
    <3>1. manual' \in Calls /\ scheduled' \in BOOLEAN
      <4>1. CASE manual' = RangeDone /\ scheduled' = HasWork(imm, files, file_to_compact, manual')
        <5>1. manual.pc = "submitted"
          BY <1>2 DEF StartManual
        <5>2. RangeDone \in Calls
          BY <5>1, CallsAreCalls DEF TreeInv, Typed
        <5> QED
          BY <4>1, <5>2, HasWorkIsBoolean
      <4>2. CASE \E c : compaction' = <<c>>
        BY <2>1, <2>4, <4>2
      <4> QED
        BY <1>2, <4>1, <4>2 DEF StartManual, Start
    <3>2. Typed'
      BY <1>0, <2>1, <3>1 DEF Typed, TreeInv
    <3> QED
      BY <2>1, <2>2, <2>3, <2>4, <3>2 DEF TreeInv
  <2>5. CASE compaction' # compaction
    <3>1. PICK S : /\ compaction' = <<SetupOtherInputs(manual.level, S)>>
                   /\ Running(SetupOtherInputs(manual.level, S))
                   /\ manual' \in Calls /\ UNCHANGED scheduled
      BY <1>2, <2>5, ManualRuns
    <3>2. PICK c : compaction' = <<c>> /\ Running(c)
      BY <3>1
    <3>3. Running(c)'
      BY <1>0, <2>1, <3>2, RunsOn
    <3>4. Typed'
      BY <1>0, <2>1, <3>1 DEF Typed, TreeInv
    <3> QED
      BY <2>2, <2>3, <3>2, <3>3, <3>4 DEF TreeInv
  <2> QED
    BY <2>4, <2>5
<1>3. ASSUME StartCompaction PROVE TreeInv'
  <2>1. UNCHANGED <<mem, imm, files, file_to_compact, scheduled, manual>>
        /\ NeedsCompaction(files, file_to_compact)
    BY <1>3 DEF StartCompaction, memVars, callVars
  <2>2. Once'
    BY <1>0, <2>1, OnceFrame DEF TreeInv
  <2>3. Charged'
    BY <2>1, SameFiles DEF Charged, TreeInv
  <2>4. PICK c : compaction' = <<c>> /\ c = PickCompaction
    BY <1>3 DEF StartCompaction, Start
  <2>5. Running(c)
    BY <2>1, <2>4, PickedRuns
  <2>6. Running(c)'
    BY <1>0, <2>1, <2>5, RunsOn
  <2>7. Typed'
    BY <1>0, <2>1 DEF Typed, TreeInv
  <2> QED
    BY <2>2, <2>3, <2>4, <2>6, <2>7 DEF TreeInv
<1>4. ASSUME MoveFile PROVE TreeInv'
  <2>1. /\ imm' = imm /\ file_to_compact' = << >> /\ manual' = manual /\ scheduled' \in BOOLEAN
        /\ compaction = << >> /\ compaction' = << >>
    BY <1>4, HasWorkIsBoolean DEF MoveFile, memVars, callVars
  <2>2. Once'
    BY <1>4, MoveEffect
  <2>3. Typed'
    BY <1>0, <2>1 DEF Typed, TreeInv
  <2> QED
    BY <2>1, <2>2, <2>3 DEF TreeInv, Charged
<1>5. ASSUME FinishCompaction PROVE TreeInv'
  <2>1. /\ imm' = imm /\ file_to_compact' = << >> /\ manual' = AfterCompaction
        /\ scheduled' \in BOOLEAN /\ compaction' = << >>
    BY <1>5, HasWorkIsBoolean DEF FinishCompaction, memVars
  <2>2. Once'
    BY <1>5, FinishEffect
  <2>3. AfterCompaction \in Calls
    BY CallsAreCalls DEF TreeInv, Typed
  <2>4. Typed'
    BY <1>0, <2>1, <2>3 DEF Typed, TreeInv
  <2> QED
    BY <2>1, <2>2, <2>4 DEF TreeInv, Charged
<1> QED
  BY <1>1, <1>2, <1>3, <1>4, <1>5 DEF Background

LEMMA TreeInvInit == Init => TreeInv
<1> SUFFICES ASSUME Init PROVE TreeInv
  OBVIOUS
<1>1. ToSet(<< >>) = {}
  BY DEF ToSet
<1>2. \A l \in Levels : files[l] = << >> /\ Files(l) = {}
  BY <1>1 DEF Init, Files
<1>3. Disk = {} /\ Flushing = {} /\ mem = {} /\ Stored = {}
  BY <1>1, <1>2 DEF Disk, Flushing, Stored, Init
<1>4. Once
  <2>1. UNION {} = {} /\ Disjoint({}) /\ SeqsDiffer({})
    BY DEF SeqsDiffer, Disjoint
  <2>2. \A l \in Levels : files[l] \in Seq(SUBSET Entries)
    BY <1>2, EmptySeq
  <2> QED
    BY <1>2, <1>3, <2>1, <2>2 DEF Once
<1>5. Typed
  BY Constants, EmptySeq DEF Typed, Init, Calls
<1> QED
  BY <1>4, <1>5 DEF TreeInv, Charged, Init

LEMMA TreeInvKept ==
  ASSUME TreeInv, [Next]_vars
  PROVE  TreeInv'
<1>1. CASE UNCHANGED vars
  <2>1. UNCHANGED <<mem, imm, lastSequence, snapshots, files, file_to_compact, compaction,
                    scheduled, manual>>
    BY <1>1 DEF vars, memVars, treeVars, callVars
  <2>2. Once'
    BY <2>1, OnceFrame DEF TreeInv
  <2>3. Typed' /\ Charged'
    BY <2>1, SameFiles DEF TreeInv, Typed, Charged
  <2>4. \A c : Running(c) => Running(c)'
    <3> SUFFICES ASSUME NEW c, Running(c) PROVE Running(c)'
      OBVIOUS
    <3>1. \A i \in DOMAIN snapshots' : c.smallest_snapshot <= snapshots'[i]
      BY <2>1 DEF Running
    <3>2. lastSequence \in Nat
      BY DEF TreeInv, Typed
    <3> QED
      BY <2>1, <3>1, <3>2, RunsOn
  <2> QED
    BY <2>1, <2>2, <2>3, <2>4 DEF TreeInv
<1>2. CASE Next
  BY <1>2, ClientsKeepTreeInv, CallerKeepsTreeInv, BackgroundKeepsTreeInv DEF Next
<1> QED
  BY <1>1, <1>2

\* No entry is stored twice, the files of a running compaction are still there
\* when it ends, and no deletion it may drop hides an entry further down, whatever
\* is written, flushed, read and compacted meanwhile.
THEOREM TreeIsSound == Spec => []TreeInv
<1>1. Init => TreeInv
  BY TreeInvInit
<1>2. TreeInv /\ [Next]_vars => TreeInv'
  BY TreeInvKept
<1> QED
  BY <1>1, <1>2, PTL DEF Spec
-----------------------------------------------------------------------------
(* Work that is left is scheduled *)

\* Every step keeps the background thread scheduled when, and only when, there is
\* something to do.
LEMMA WorkStep ==
  ASSUME scheduled \in BOOLEAN, "pc" \in DOMAIN manual, WorkIsScheduled, [Next]_vars
  PROVE  scheduled' \in BOOLEAN /\ "pc" \in DOMAIN manual' /\ WorkIsScheduled'
<1> DEFINE Goal == scheduled' \in BOOLEAN /\ "pc" \in DOMAIN manual' /\ WorkIsScheduled'
<1> USE DEF WorkIsScheduled, HasWork, memVars, treeVars, callVars
<1>1. ASSUME NEW k \in Keys, NEW type \in ValueTypes, Write(k, type) PROVE Goal
  <2>1. CASE imm' = imm /\ scheduled' = scheduled
    BY <1>1, <2>1 DEF Write
  <2>2. CASE SwitchTo({[key |-> k, seq |-> lastSequence + 1, type |-> type]})
    BY <1>1, <2>2 DEF Write, SwitchTo
  <2> QED
    BY <1>1, <2>1, <2>2 DEF Write
<1>2. ASSUME GetSnapshot PROVE Goal
  BY <1>2 DEF GetSnapshot
<1>3. ASSUME NEW i \in DOMAIN snapshots, ReleaseSnapshot(i) PROVE Goal
  BY <1>3 DEF ReleaseSnapshot
<1>4. ASSUME NEW k \in Keys, NEW s \in 0..lastSequence, ChargeSeek(k, s) PROVE Goal
  <2>1. file_to_compact' # << >> /\ scheduled' = TRUE /\ manual' = manual
    BY <1>4 DEF ChargeSeek
  <2> QED
    BY <2>1 DEF NeedsCompaction
<1>5. ASSUME NEW r \in Ranges, CompactRange(r[1], r[2]) PROVE Goal
  <2>1. manual.pc = "idle" /\ manual'.pc = "write" /\ "pc" \in DOMAIN manual'
    BY <1>5 DEF CompactRange
  <2> QED
    BY <1>5, <2>1 DEF CompactRange
<1>6. ASSUME ForceSwitch PROVE Goal
  BY <1>6 DEF ForceSwitch, SwitchTo
<1>7. ASSUME AwaitFlush PROVE Goal
  BY <1>7 DEF AwaitFlush
<1>8. ASSUME SubmitRange PROVE Goal
  BY <1>8 DEF SubmitRange
<1>9. ASSUME FlushFirst PROVE Goal
  BY <1>9 DEF FlushFirst, CompactMemTable, NeedsCompaction, TooFull
<1>10. ASSUME FlushDuringCompaction PROVE Goal
  BY <1>10 DEF FlushDuringCompaction, CompactMemTable
<1>11. ASSUME StartManual PROVE Goal
  <2>1. "pc" \in DOMAIN RangeDone
    BY DEF RangeDone
  <2>2. CASE UNCHANGED <<compaction, compact_pointer>> /\ manual' = RangeDone
             /\ scheduled' = HasWork(imm, files, file_to_compact, manual')
    BY <1>11, <2>1, <2>2 DEF StartManual, NeedsCompaction, TooFull
  <2>3. CASE \E c : Start(c) /\ manual' = [manual EXCEPT !.pc = "running", !.begin = manual'.begin]
                      /\ UNCHANGED scheduled
    BY <1>11, <2>3 DEF StartManual, Start
  <2> QED
    BY <1>11, <2>2, <2>3 DEF StartManual
<1>12. ASSUME StartCompaction PROVE Goal
  BY <1>12 DEF StartCompaction, Start
<1>13. ASSUME MoveFile PROVE Goal
  BY <1>13 DEF MoveFile, NeedsCompaction, TooFull
<1>14. ASSUME FinishCompaction PROVE Goal
  BY <1>14 DEF FinishCompaction, AfterCompaction, NeedsCompaction, TooFull
<1>15. ASSUME UNCHANGED vars PROVE Goal
  BY <1>15 DEF vars
<1> QED
  BY <1>1, <1>2, <1>3, <1>4, <1>5, <1>6, <1>7, <1>8, <1>9, <1>10, <1>11, <1>12, <1>13,
     <1>14, <1>15 DEF Next, Background, CompactRangeStep

\* MaybeScheduleCompaction is called wherever work comes up, so the background
\* thread is scheduled if and only if there is a memtable to flush, a range or a
\* level to compact or a compaction running: it is never woken for nothing, and
\* no work waits for another write.
THEOREM WorkIsAlwaysScheduled == Spec => []WorkIsScheduled
<1> DEFINE Inv == scheduled \in BOOLEAN /\ "pc" \in DOMAIN manual /\ WorkIsScheduled
<1>1. Init => Inv
  <2> SUFFICES ASSUME Init PROVE Inv
    OBVIOUS
  <2>1. ~ NeedsCompaction(files, file_to_compact)
    <3> DEFINE l == BestLevel(files)
    <3>1. l \in Levels /\ 0 \in Levels
      BY BestLevelIsALevel, Constants
    <3> HIDE DEF l
    <3>2. MaxBytesForLevel[l] \in Nat \ {0}
      BY <3>1, LimitsArePositive
    <3>3. files[l] = << >> /\ files[0] = << >>
      BY <3>1 DEF Init
    <3>4. ToSet(<< >>) = {} /\ UNION {} = {} /\ Len(<< >>) = 0
      BY DEF ToSet
    <3>5. Load(files, l) = 0
      BY <3>3, <3>4, FS_EmptySet DEF Load, Bytes
    <3>6. ~ TooFull(files)
      BY <3>2, <3>5 DEF TooFull, l
    <3> QED
      BY <3>6 DEF NeedsCompaction, Init
  <2> QED
    BY <2>1 DEF Init, WorkIsScheduled, HasWork
<1>2. Inv /\ [Next]_vars => Inv'
  BY WorkStep
<1> QED
  BY <1>1, <1>2, PTL DEF Spec
-----------------------------------------------------------------------------
(* The order of the files *)

Sorted ==
  \A l \in Levels \ {0} : \A i, j \in DOMAIN files[l] :
    i < j => Precedes(files[l][i], files[l][j])

\* Of the level the outputs of c go to, the files that stay lie before all inputs
\* or after them.
Separated(c) ==
  \A F \in Files(c.level + 1) \ c.inputs[2] :
    Precedes(F, UNION Inputs(c)) \/ Precedes(UNION Inputs(c), F)

OrderInv == Sorted /\ \A c : compaction = <<c>> => Separated(c)

\* Between the inputs of the running compaction there is no key that none of them
\* covers, where a memtable could go.
NoGaps == \A c : compaction = <<c>> => Gapless(Inputs(c))

LEMMA SortedFilesCompare ==
  ASSUME Sorted, NEW l \in Levels \ {0}, files[l] \in Seq(SUBSET Entries)
  PROVE  InKeyOrder(Files(l))
<1> SUFFICES ASSUME NEW A \in Files(l), NEW B \in Files(l), A # B
             PROVE  Precedes(A, B) \/ Precedes(B, A)
  BY DEF InKeyOrder
<1>1. PICK i \in DOMAIN files[l], j \in DOMAIN files[l] : files[l][i] = A /\ files[l][j] = B
  BY DEF Files, ToSet
<1>2. i \in Nat /\ j \in Nat /\ i # j
  BY <1>1, LenProperties
<1>3. i < j \/ j < i
  BY <1>2
<1> QED
  BY <1>1, <1>3 DEF Sorted

\* An edit whose new files fit in their level keeps the order.
LEMMA SortedAfterEdit ==
  ASSUME Sorted, Once', NEW gone, NEW l \in Levels, NEW new, EditOf(files', gone, l, new),
         l # 0 => InKeyOrder(Files(l)')
  PROVE  Sorted'
<1> SUFFICES ASSUME NEW m \in Levels \ {0}, NEW i \in DOMAIN files'[m], NEW j \in DOMAIN files'[m],
                    i < j
             PROVE  Precedes(files'[m][i], files'[m][j])
  BY DEF Sorted
<1>1. CASE m # l
  <2>1. WereInOrder(m, files'[m][i], files'[m][j])
    BY <1>1 DEF EditOf
  <2> QED
    BY <2>1 DEF WereInOrder, Sorted
<1>2. CASE m = l
  <2> DEFINE A == files'[m][i]
             B == files'[m][j]
  <2>1. Before(Smallest(A), Smallest(B)) /\ A \in Files(l)' /\ B \in Files(l)'
    BY <1>2 DEF EditOf, Files, ToSet
  <2> HIDE DEF A, B
  <2>2. Disjoint(Files(l)')
    <3>1. Files(l)' \subseteq Disk'
      BY DEF Disk
    <3>2. Disjoint(Disk')
      BY DEF Once
    <3> QED
      BY <3>1, <3>2, DisjointSubset
  <2>3. /\ Smallest(A) \in A /\ Smallest(B) \in B
        /\ Smallest(A) \in Entries /\ Smallest(B) \in Entries
    BY <2>1, <2>2, TableEnds
  <2>4. A # B
    BY <2>1, <2>3, BeforeIsAnOrder
  <2>5. Precedes(A, B) \/ Precedes(B, A)
    BY <1>2, <2>1, <2>4 DEF InKeyOrder
  <2>6. ~ Precedes(B, A)
    BY <2>1, <2>3, BeforeIsAnOrder DEF Precedes
  <2> QED
    BY <2>5, <2>6 DEF A, B
<1> QED
  BY <1>1, <1>2

\* A compaction takes, of the next level, all that lies between its inputs.
LEMMA SetupSeparates ==
  ASSUME Once, Sorted, NEW l, NEW S, Chosen(l, S)
  PROVE  Separated(SetupOtherInputs(l, S))
<1> DEFINE c == SetupOtherInputs(l, S)
<1>1. /\ c.level = l /\ Chosen(l, c.inputs[1])
      /\ c.inputs[2] = Under(files, l + 1, c.inputs[1])
      /\ c.inputs[2] \subseteq Files(l + 1)
  BY InputsOfASetup
<1> HIDE DEF c
<1>2. l \in Levels /\ l + 1 \in Levels \ {0} /\ l + 1 # 0
  BY Constants DEF Chosen
<1>3. /\ Disjoint(ToSet(files[l + 1])) /\ Disjoint(c.inputs[1]) /\ c.inputs[1] # {}
      /\ InKeyOrder(Files(l + 1))
  BY <1>1, <1>2, LevelsAreDisjoint, DisjointSubset, SortedFilesCompare DEF Chosen, Files, Once
<1>4. /\ Low(c.inputs[1]).key \in Nat /\ High(c.inputs[1]).key \in Nat
      /\ Low(c.inputs[1]).key <= High(c.inputs[1]).key
      /\ \A x \in UNION c.inputs[1] : /\ x.key \in Nat
                                      /\ Low(c.inputs[1]).key <= x.key
                                      /\ x.key <= High(c.inputs[1]).key
  BY <1>3, SetEnds, Constants
<1>5. /\ \A T \in c.inputs[2] : Overlaps(T, Low(c.inputs[1]).key, High(c.inputs[1]).key)
      /\ \A T \in ToSet(files[l + 1]) \ c.inputs[2] :
           \/ \A t \in T : t.key < Low(c.inputs[1]).key
           \/ \A t \in T : t.key > High(c.inputs[1]).key
  BY <1>1, <1>2, <1>3, UnderIsWhatOverlaps
<1> DEFINE lo == Low(c.inputs[1]).key
           hi == High(c.inputs[1]).key
<1> HIDE DEF lo, hi
<1>6. ASSUME NEW F \in Files(l + 1) \ c.inputs[2], \A f \in F : f.key < lo
      PROVE  Precedes(F, UNION Inputs(c))
  <2> SUFFICES ASSUME NEW f \in F, NEW A \in Inputs(c), NEW a \in A PROVE Before(f, a)
    BY DEF Precedes
  <2>1. f \in Entries /\ f.key \in Nat
    BY <1>2, LevelsAreDisjoint, TableEnds, Constants
  <2>2. CASE A \in c.inputs[1]
    BY <1>4, <1>6, <2>1, <2>2 DEF Before, lo
  <2>3. CASE A \in c.inputs[2]
    <3>1. A \in Files(l + 1) /\ A # F
      BY <1>1, <2>3
    <3>2. Precedes(A, F) \/ Precedes(F, A)
      BY <1>3, <3>1 DEF InKeyOrder
    <3>3. Largest(A) \in A /\ Largest(A) \in Entries /\ Largest(A).key >= lo
      BY <1>2, <1>5, <2>3, <3>1, LevelsAreDisjoint, TableEnds DEF Overlaps, lo
    <3>4. ~ Before(Largest(A), f)
      BY <1>4, <1>6, <2>1, <3>3, Constants DEF Before, lo
    <3> QED
      BY <3>2, <3>3, <3>4 DEF Precedes
  <2> QED
    BY <2>2, <2>3 DEF Inputs
<1>7. ASSUME NEW F \in Files(l + 1) \ c.inputs[2], \A f \in F : f.key > hi
      PROVE  Precedes(UNION Inputs(c), F)
  <2> SUFFICES ASSUME NEW f \in F, NEW A \in Inputs(c), NEW a \in A PROVE Before(a, f)
    BY DEF Precedes
  <2>1. f \in Entries /\ f.key \in Nat
    BY <1>2, LevelsAreDisjoint, TableEnds, Constants
  <2>2. CASE A \in c.inputs[1]
    BY <1>4, <1>7, <2>1, <2>2 DEF Before, hi
  <2>3. CASE A \in c.inputs[2]
    <3>1. A \in Files(l + 1) /\ A # F
      BY <1>1, <2>3
    <3>2. Precedes(A, F) \/ Precedes(F, A)
      BY <1>3, <3>1 DEF InKeyOrder
    <3>3. Smallest(A) \in A /\ Smallest(A) \in Entries /\ Smallest(A).key <= hi
      BY <1>2, <1>5, <2>3, <3>1, LevelsAreDisjoint, TableEnds DEF Overlaps, hi
    <3>4. ~ Before(f, Smallest(A))
      BY <1>4, <1>7, <2>1, <3>3, Constants DEF Before, hi
    <3> QED
      BY <3>2, <3>3, <3>4 DEF Precedes
  <2> QED
    BY <2>2, <2>3 DEF Inputs
<1>8. Separated(c)
  BY <1>1, <1>5, <1>6, <1>7 DEF Separated, lo, hi, Files
<1> QED
  BY <1>8 DEF c

\* A memtable that is flushed into a level fits between its files.
LEMMA SortedAfterFlush ==
  ASSUME Typed, Once, Sorted, CompactMemTable
  PROVE  Sorted'
<1>1. CASE files' = files
  BY <1>1 DEF Sorted
<1>2. CASE files' # files
  <2>1. PICK T \in (SUBSET Entries) \ {{}}, p \in 0..(kNumLevels - 2) :
                 /\ imm = <<T>> /\ T = Flushing /\ Disjoint({T})
                 /\ p # 0 => \A l \in 0..p : \A F \in Files(l) :
                               ~ Overlaps(F, Smallest(T).key, Largest(T).key)
                 /\ EditOf(files', {}, p, {T})
                 /\ \A m \in Levels : Files(m)' = Files(m) \union (IF m = p THEN {T} ELSE {})
    BY <1>2, FlushEffect
  <2>2. Once' /\ p \in Levels
    BY <2>1, FlushEffect, Constants
  <2>3. ASSUME p # 0 PROVE InKeyOrder(Files(p)')
    <3>1. InKeyOrder(Files(p))
      BY <2>2, <2>3, SortedFilesCompare DEF Once
    <3>2. \A F \in Files(p) : ~ Overlaps(F, Smallest(T).key, Largest(T).key)
      BY <2>1, <2>3
    <3>3. \A F \in Files(p) : Precedes(T, F) \/ Precedes(F, T)
      BY <2>1, <2>2, <3>2, OutsideIsApart
    <3>4. Files(p)' = Files(p) \union {T}
      BY <2>1, <2>2
    <3> QED
      BY <3>1, <3>3, <3>4 DEF InKeyOrder
  <2> QED
    BY <2>1, <2>2, <2>3, SortedAfterEdit
<1> QED
  BY <1>1, <1>2

\* ... and not between the inputs of the running compaction.
LEMMA SeparatedAfterFlush ==
  ASSUME Typed, Once, CompactMemTable, NEW c, Running(c), Separated(c), Gapless(Inputs(c))
  PROVE  Separated(c)'
<1>1. CASE files' = files
  BY <1>1, SameFiles DEF Separated
<1>2. CASE files' # files
  <2>1. PICK T \in (SUBSET Entries) \ {{}}, p \in 0..(kNumLevels - 2) :
                 /\ imm = <<T>> /\ T = Flushing /\ Disjoint({T})
                 /\ p # 0 => \A l \in 0..p : \A F \in Files(l) :
                               ~ Overlaps(F, Smallest(T).key, Largest(T).key)
                 /\ \A m \in Levels : Files(m)' = Files(m) \union (IF m = p THEN {T} ELSE {})
    BY <1>2, FlushEffect
  <2>2. c.level \in 0..(kNumLevels - 2) /\ c.level \in Levels /\ c.level + 1 \in Levels
    BY Constants DEF Running
  <2>3. CASE p # c.level + 1
    <3>1. Files(c.level + 1)' = Files(c.level + 1)
      BY <2>1, <2>2, <2>3
    <3> QED
      BY <3>1 DEF Separated
  <2>4. CASE p = c.level + 1
    <3> DEFINE lo == Smallest(T).key
               hi == Largest(T).key
    <3>1. /\ lo \in Nat /\ hi \in Nat /\ lo <= hi /\ lo \in Keys
          /\ \A t \in T : lo <= t.key /\ t.key <= hi /\ t.key \in Nat
      BY <2>1, TableEnds, Constants DEF Keys
    <3>2. Files(c.level + 1)' = Files(c.level + 1) \union {T}
      BY <2>1, <2>2, <2>4
    <3>3. Disjoint(Inputs(c))
      <4>1. Inputs(c) \subseteq Disk
        BY <2>2 DEF Inputs, Running, Disk
      <4> QED
        BY <4>1, LevelsAreDisjoint
    <3>4. \A A \in Inputs(c) : ~ Overlaps(A, lo, hi)
      <4>1. p # 0 /\ c.level \in 0..p /\ c.level + 1 \in 0..p
        BY <2>2, <2>4
      <4>2. \A A \in Inputs(c) : A \in Files(c.level) \/ A \in Files(c.level + 1)
        BY DEF Inputs, Running
      <4> QED
        BY <2>1, <4>1, <4>2
    <3> HIDE DEF lo, hi
    <3>5. \A A \in Inputs(c) : (\A a \in A : a.key < lo) \/ (\A a \in A : a.key > hi)
      BY <3>1, <3>3, <3>4, OutsideSharesNoKey
    <3>6. \A A \in Inputs(c) : /\ A # {} /\ Smallest(A) \in A /\ Largest(A) \in A
                               /\ \A a \in A : a.key \in Nat
      BY <3>3, TableEnds, Constants
    <3>7. ~ \E A, B \in Inputs(c) : (\A a \in A : a.key < lo) /\ (\A b \in B : b.key > hi)
      <4> SUFFICES ASSUME NEW A \in Inputs(c), NEW B \in Inputs(c),
                          \A a \in A : a.key < lo, \A b \in B : b.key > hi
                   PROVE  FALSE
        OBVIOUS
      <4>1. Smallest(A).key <= lo /\ lo <= Largest(B).key
        BY <3>1, <3>6
      <4>2. PICK C \in Inputs(c) : Overlaps(C, lo, lo)
        BY <3>1, <4>1 DEF Gapless
      <4>3. Overlaps(C, lo, hi)
        BY <3>1, <3>6, <4>2 DEF Overlaps
      <4> QED
        BY <3>4, <4>3
    <3>8. Precedes(T, UNION Inputs(c)) \/ Precedes(UNION Inputs(c), T)
      <4>1. CASE \A A \in Inputs(c) : \A a \in A : a.key < lo
        BY <3>1, <3>6, <4>1 DEF Precedes, Before
      <4>2. CASE \A A \in Inputs(c) : \A a \in A : a.key > hi
        BY <3>1, <3>6, <4>2 DEF Precedes, Before
      <4> QED
        BY <3>5, <3>7, <4>1, <4>2
    <3> QED
      BY <3>2, <3>8 DEF Separated
  <2> QED
    BY <2>3, <2>4
<1> QED
  BY <1>1, <1>2

\* The outputs of a compaction take the place of its inputs.
LEMMA SortedAfterInstall ==
  ASSUME Once, Once', Sorted, NEW c, Running(c), Separated(c), NEW new,
         UNION new \subseteq UNION Inputs(c), InKeyOrder(new),
         EditOf(files', Inputs(c), c.level + 1, new),
         \A m \in Levels : Files(m)' =
           (Files(m) \ Inputs(c)) \union (IF m = c.level + 1 THEN new ELSE {})
  PROVE  Sorted'
<1>1. c.level + 1 \in Levels /\ c.level + 1 # 0
  BY Constants DEF Running
<1>2. InKeyOrder(Files(c.level + 1))
  BY <1>1, SortedFilesCompare DEF Once
<1>3. \A F \in Files(c.level + 1) \ Inputs(c) :
        Precedes(F, UNION Inputs(c)) \/ Precedes(UNION Inputs(c), F)
  BY DEF Separated, Inputs
<1>4. \A F \in Files(c.level + 1) \ Inputs(c), A \in new : Precedes(F, A) \/ Precedes(A, F)
  BY <1>3 DEF Precedes
<1>5. Files(c.level + 1)' = (Files(c.level + 1) \ Inputs(c)) \union new
  BY <1>1
<1>6. InKeyOrder(Files(c.level + 1)')
  BY <1>2, <1>4, <1>5 DEF InKeyOrder
<1> QED
  BY <1>1, <1>6, SortedAfterEdit
-----------------------------------------------------------------------------
(* Levels below 0 stay in order *)

LEMMA OrderKept ==
  ASSUME TreeInv, OrderInv, NoGaps, [Next]_vars
  PROVE  OrderInv'
<1>1. Typed /\ Once /\ Sorted /\ \A c : compaction = <<c>> => Running(c)
  <2>1. ASSUME NEW c, compaction = <<c>> PROVE Running(c)
    BY <2>1 DEF TreeInv
  <2> QED
    BY <2>1 DEF TreeInv, OrderInv
<1>2. ASSUME files' = files PROVE Sorted' /\ \A c : Separated(c) => Separated(c)'
  <2>1. \A l : Files(l)' = Files(l)
    BY <1>2 DEF Files
  <2>2. ASSUME NEW c, Separated(c) PROVE Separated(c)'
    <3>1. Files(c.level + 1)' = Files(c.level + 1)
      BY <2>1
    <3> QED
      BY <2>2, <3>1 DEF Separated
  <2>3. Sorted'
    BY <1>1, <1>2 DEF Sorted
  <2> QED
    BY <2>2, <2>3
<1>3. ASSUME files' = files, compaction' = compaction PROVE OrderInv'
  BY <1>2, <1>3 DEF OrderInv
<1>4. ASSUME FlushFirst \/ FlushDuringCompaction PROVE OrderInv'
  <2>1. CompactMemTable /\ compaction' = compaction
    BY <1>4 DEF FlushFirst, FlushDuringCompaction
  <2>2. Sorted'
    BY <1>1, <2>1, SortedAfterFlush
  <2>3. ASSUME NEW c, compaction' = <<c>> PROVE Separated(c)'
    <3>1. Running(c) /\ Separated(c) /\ Gapless(Inputs(c))
      BY <1>1, <2>1, <2>3 DEF OrderInv, NoGaps
    <3> QED
      BY <1>1, <2>1, <3>1, SeparatedAfterFlush
  <2> QED
    BY <2>2, <2>3 DEF OrderInv
<1>5. ASSUME StartManual PROVE OrderInv'
  <2>1. files' = files
    BY <1>5 DEF StartManual
  <2>2. CASE compaction' # compaction
    <3>1. PICK S : /\ Chosen(manual.level, S)
                   /\ compaction' = <<SetupOtherInputs(manual.level, S)>>
      BY <1>5, <2>2, ManualRuns
    <3>2. PICK c : c = SetupOtherInputs(manual.level, S)
      OBVIOUS
    <3>3. Separated(c) /\ compaction' = <<c>>
      BY <1>1, <3>1, <3>2, SetupSeparates
    <3> QED
      BY <1>2, <2>1, <3>3 DEF OrderInv
  <2> QED
    BY <1>3, <2>1, <2>2
<1>6. ASSUME NeedsCompaction(files, file_to_compact)
      PROVE  Separated(PickCompaction)
  <2>1. \E l \in 0..(kNumLevels - 2) : \E T \in Files(l) :
          LET S == IF l = 0 THEN Under(files, 0, {T}) ELSE {T}
          IN T \in S /\ Chosen(l, S) /\ PickCompaction = SetupOtherInputs(l, S)
    BY <1>6, PickedInputs DEF TreeInv, Charged
  <2>2. PICK l, S : Chosen(l, S) /\ PickCompaction = SetupOtherInputs(l, S)
    BY <2>1
  <2>3. Separated(SetupOtherInputs(l, S))
    BY <1>1, <2>2, SetupSeparates
  <2> QED
    BY <2>2, <2>3
<1>7. ASSUME StartCompaction PROVE OrderInv'
  <2>1. PICK c : c = PickCompaction
    OBVIOUS
  <2>2. files' = files /\ compaction' = <<c>> /\ NeedsCompaction(files, file_to_compact)
    BY <1>7, <2>1 DEF StartCompaction, Start
  <2>3. Separated(c)
    BY <1>6, <2>1, <2>2
  <2> QED
    BY <1>2, <2>2, <2>3 DEF OrderInv
<1>8. ASSUME MoveFile PROVE OrderInv'
  <2>1. PICK c, F :
           /\ c = PickCompaction /\ Running(c) /\ Inputs(c) = {F}
           /\ Disjoint({F}) /\ Once' /\ EditOf(files', {F}, c.level + 1, {F})
           /\ \A m \in Levels : Files(m)' =
                (Files(m) \ {F}) \union (IF m = c.level + 1 THEN {F} ELSE {})
    BY <1>8, MoveEffect
  <2>2. /\ NeedsCompaction(files, file_to_compact)
        /\ compaction = << >> /\ compaction' = << >>
    BY <1>8 DEF MoveFile
  <2>3. Separated(c)
    BY <1>6, <2>1, <2>2
  <2>4. InKeyOrder({F})
    BY DEF InKeyOrder
  <2>5. /\ EditOf(files', Inputs(c), c.level + 1, {F})
        /\ \A m \in Levels : Files(m)' =
             (Files(m) \ Inputs(c)) \union (IF m = c.level + 1 THEN {F} ELSE {})
    BY <2>1
  <2>6. UNION {F} \subseteq UNION Inputs(c)
    BY <2>1
  <2>7. Sorted'
    BY <1>1, <2>1, <2>3, <2>4, <2>5, <2>6, SortedAfterInstall
  <2> QED
    BY <2>2, <2>7 DEF OrderInv
<1>9. ASSUME FinishCompaction PROVE OrderInv'
  <2>1. PICK c :
           /\ compaction = <<c>> /\ compaction' = << >> /\ Running(c)
           /\ Disjoint(Outputs(c)) /\ InKeyOrder(Outputs(c))
           /\ UNION Outputs(c) = {e \in UNION Inputs(c) : ~ Superseded(c, e)}
           /\ Once' /\ EditOf(files', Inputs(c), c.level + 1, Outputs(c))
           /\ \A m \in Levels : Files(m)' =
                (Files(m) \ Inputs(c)) \union (IF m = c.level + 1 THEN Outputs(c) ELSE {})
    BY <1>9, FinishEffect
  <2>2. Separated(c) /\ UNION Outputs(c) \subseteq UNION Inputs(c)
    BY <2>1 DEF OrderInv
  <2>3. Sorted'
    BY <1>1, <2>1, <2>2, SortedAfterInstall
  <2> QED
    BY <2>1, <2>3 DEF OrderInv
<1>10. CASE UNCHANGED vars
  BY <1>3, <1>10 DEF vars, treeVars
<1>11. CASE \/ \E k \in Keys, type \in ValueTypes : Write(k, type)
            \/ GetSnapshot
            \/ \E i \in DOMAIN snapshots : ReleaseSnapshot(i)
            \/ \E k \in Keys, s \in 0..lastSequence : ChargeSeek(k, s)
            \/ \E r \in Ranges : CompactRange(r[1], r[2])
            \/ CompactRangeStep
  <2>1. files' = files /\ compaction' = compaction
    BY <1>11 DEF Write, GetSnapshot, ReleaseSnapshot, ChargeSeek, CompactRange, CompactRangeStep,
       ForceSwitch, AwaitFlush, SubmitRange, treeVars
  <2> QED
    BY <1>3, <2>1
<1> QED
  BY <1>4, <1>5, <1>7, <1>8, <1>9, <1>10, <1>11 DEF Next, Background

LEMMA OrderInvInit == Init => OrderInv
<1> SUFFICES ASSUME Init PROVE OrderInv
  OBVIOUS
<1>1. \A l \in Levels : DOMAIN files[l] = {}
  BY EmptySeq DEF Init
<1>2. \A c : compaction # <<c>>
  BY DEF Init
<1> QED
  BY <1>1, <1>2 DEF OrderInv, Sorted

LEMMA SortedIsDisjoint ==
  ASSUME TreeInv, Sorted
  PROVE  LevelsDisjoint
<1> SUFFICES ASSUME NEW l \in Levels \ {0}, NEW i \in 2..Len(files[l])
             PROVE  Before(Largest(files[l][i - 1]), Smallest(files[l][i]))
  BY DEF LevelsDisjoint
<1>1. files[l] \in Seq(SUBSET Entries) /\ Disjoint(Files(l))
  BY LevelsAreDisjoint DEF TreeInv, Once
<1>2. i \in DOMAIN files[l] /\ i - 1 \in DOMAIN files[l] /\ i - 1 < i
  BY <1>1, LenProperties
<1>3. files[l][i - 1] \in Files(l) /\ files[l][i] \in Files(l)
  BY <1>2 DEF Files, ToSet
<1>4. Largest(files[l][i - 1]) \in files[l][i - 1] /\ Smallest(files[l][i]) \in files[l][i]
  BY <1>1, <1>3, TableEnds
<1>5. Precedes(files[l][i - 1], files[l][i])
  BY <1>2 DEF Sorted
<1> QED
  BY <1>4, <1>5 DEF Precedes

\* Builder::SaveTo's "no overlap in levels > 0", as long as no running compaction
\* has a gap between its inputs that a memtable flushed meanwhile could fall into.
THEOREM LevelsStayDisjoint == Spec /\ []NoGaps => []LevelsDisjoint
<1>1. Init => TreeInv /\ OrderInv
  BY TreeInvInit, OrderInvInit
<1>2. TreeInv /\ OrderInv /\ NoGaps /\ [Next]_vars => TreeInv' /\ OrderInv'
  BY TreeInvKept, OrderKept
<1>3. TreeInv /\ OrderInv => LevelsDisjoint
  BY SortedIsDisjoint DEF OrderInv
<1> QED
  BY <1>1, <1>2, <1>3, PTL DEF Spec
-----------------------------------------------------------------------------
(* What is picked has no gaps *)

\* The files of a level that overlap the range of R, with those of R, leave no gap
\* if they leave none within that range.
LEMMA UnderIsGapless ==
  ASSUME NEW v, NEW l \in Levels, Disjoint(ToSet(v[l])), NEW R, Disjoint(R), R # {},
         \A k \in Keys : Low(R).key <= k /\ k <= High(R).key =>
           \E C \in R \union Under(v, l, R) : Overlaps(C, k, k)
  PROVE  Gapless(R \union Under(v, l, R))
<1> DEFINE N == Under(v, l, R)
           F == ToSet(v[l])
           lo == Low(R).key
           hi == High(R).key
<1>1. /\ lo \in Nat /\ hi \in Nat /\ lo <= hi /\ hi <= MaxKey + 1
      /\ \A A \in R : lo <= Smallest(A).key /\ Largest(A).key <= hi
  BY SetEnds, Constants
<1>2. \A A \in F : Smallest(A).key \in Nat /\ Largest(A).key \in Nat
                   /\ Smallest(A).key <= Largest(A).key
  BY TableEnds, Constants
<1>3. \A A \in R : Smallest(A).key \in Nat /\ Largest(A).key \in Nat
  BY TableEnds, Constants
<1>4. N = OverlappingInputs(v, l, lo, hi)
  BY Constants DEF Under
<1> HIDE DEF N, F, lo, hi
<1>5. /\ N \subseteq F
      /\ \A A \in N, k \in Keys : Smallest(A).key <= k /\ k < lo => \E C \in N : Overlaps(C, k, k)
      /\ \A B \in N, k \in Keys : hi < k /\ k <= Largest(B).key => \E C \in N : Overlaps(C, k, k)
  <2>1. CASE l = 0
    <3>4. N = OverlappingInputs(v, 0, lo, hi) /\ F = ToSet(v[0]) /\ Disjoint(F)
      BY <1>4, <2>1 DEF F
    <3>1. PICK from \in Nat, to \in Nat :
           /\ from <= lo /\ hi <= to /\ to <= MaxKey + 1
           /\ N = {T \in F : Overlaps(T, from, to)}
           /\ \A T \in F : Overlaps(T, from, to) =>
                from <= Smallest(T).key /\ Largest(T).key <= to
           /\ \A k \in from..to : (k < lo \/ hi < k) =>
                \E T \in F : Overlaps(T, from, to) /\ Overlaps(T, k, k)
      BY <1>1, <3>4, LevelZeroInputs
    <3>2. \A k \in Keys : k \in Nat
      BY Constants DEF Keys
    <3>3. ASSUME NEW k \in from..to, k < lo \/ hi < k PROVE \E C \in N : Overlaps(C, k, k)
      BY <3>1, <3>3
    <3> QED
      BY <1>1, <1>2, <3>1, <3>2, <3>3
  <2>2. CASE l # 0
    <3>1. N = {T \in F : Overlaps(T, lo, hi)}
      BY <1>4, <2>2, DeepInputs DEF F
    <3>2. \A k \in Keys : k \in Nat
      BY Constants DEF Keys
    <3> QED
      BY <1>1, <1>2, <3>1, <3>2 DEF Overlaps
  <2> QED
    BY <2>1, <2>2
<1> SUFFICES ASSUME NEW A \in R \union N, NEW B \in R \union N, NEW k \in Keys,
                    Smallest(A).key <= k, k <= Largest(B).key
             PROVE  \E C \in R \union N : Overlaps(C, k, k)
  BY DEF Gapless, N
<1>6. k \in Nat
  BY Constants DEF Keys
<1>7. CASE lo <= k /\ k <= hi
  BY <1>7 DEF lo, hi, N
<1>8. CASE k < lo
  <2>1. A \in N
    BY <1>1, <1>3, <1>6, <1>8
  <2> QED
    BY <1>5, <1>8, <2>1
<1>9. CASE hi < k
  <2>1. B \in N
    BY <1>1, <1>3, <1>6, <1>9
  <2> QED
    BY <1>5, <1>9, <2>1
<1> QED
  BY <1>1, <1>6, <1>7, <1>8, <1>9

\* A set without gaps covers its range.
LEMMA GaplessCovers ==
  ASSUME NEW S, Disjoint(S), S # {}, Gapless(S), NEW k \in Keys,
         Low(S).key <= k, k <= High(S).key
  PROVE  \E C \in S : Overlaps(C, k, k)
<1>1. PICK A \in S : Low(S) \in A
  BY SetEnds
<1>2. PICK B \in S : High(S) \in B
  BY SetEnds
<1>3. Smallest(A).key <= Low(S).key /\ High(S).key <= Largest(B).key
  BY <1>1, <1>2, TableEnds
<1>4. /\ Smallest(A).key \in Nat /\ Largest(B).key \in Nat /\ Low(S).key \in Nat
      /\ High(S).key \in Nat /\ k \in Nat
  BY TableEnds, SetEnds, Constants DEF Keys
<1>5. Smallest(A).key <= k /\ k <= Largest(B).key
  BY <1>3, <1>4
<1> QED
  BY <1>5 DEF Gapless

LEMMA PickedIsGapless ==
  ASSUME Once, NEW l, NEW S, Chosen(l, S), Gapless(S)
  PROVE  Gapless(Inputs(SetupOtherInputs(l, S)))
<1> DEFINE c == SetupOtherInputs(l, S)
<1>8. /\ Chosen(l, c.inputs[1])
      /\ c.inputs[2] = Under(files, l + 1, c.inputs[1])
  BY InputsOfASetup
<1>7. \/ c.inputs[1] = S
      \/ /\ Under(files, l + 1, S) \subseteq Files(l + 1)
         /\ c.inputs[1] = Expanded(l, S)
  BY InputsOfASetup
<1> HIDE DEF c
<1> DEFINE R == c.inputs[1]
           next == Under(files, l + 1, S)
           all == S \union next
<1>1. /\ Chosen(l, R)
      /\ c.inputs[2] = Under(files, l + 1, R)
      /\ \/ R = S
         \/ next \subseteq Files(l + 1) /\ R = Under(files, l, all)
  BY <1>7, <1>8 DEF Expanded
<1> HIDE DEF R, next, all
<1>2. Inputs(c) = R \union Under(files, l + 1, R)
  BY <1>1 DEF Inputs, R
<1>3. l \in Levels /\ l + 1 \in Levels /\ l + 1 # 0
  BY Constants DEF Chosen
<1>4. /\ Disjoint(ToSet(files[l])) /\ Disjoint(ToSet(files[l + 1]))
      /\ S \subseteq Disk /\ Disjoint(S) /\ S # {} /\ R \subseteq Disk /\ Disjoint(R) /\ R # {}
  <2>1. S \subseteq Disk /\ R \subseteq Disk
    BY <1>1, <1>3, LevelsAreDisjoint DEF Chosen
  <2> QED
    BY <1>1, <1>3, <2>1, LevelsAreDisjoint DEF Chosen, Files
<1>5. CASE R = S
  <2>1. \A k \in Keys : Low(R).key <= k /\ k <= High(R).key => \E C \in R : Overlaps(C, k, k)
    BY <1>4, <1>5, GaplessCovers
  <2> QED
    BY <1>2, <1>3, <1>4, <2>1, UnderIsGapless DEF c
<1>6. CASE next \subseteq Files(l + 1) /\ R = Under(files, l, all)
  <2>1. Disjoint(all) /\ all # {} /\ Gapless(all)
    <3>1. all \subseteq Disk
      BY <1>3, <1>4, <1>6, LevelsAreDisjoint DEF all
    <3>2. Disjoint(all) /\ all # {}
      BY <1>4, <3>1, LevelsAreDisjoint DEF all
    <3>3. \A k \in Keys : Low(S).key <= k /\ k <= High(S).key => \E C \in S : Overlaps(C, k, k)
      BY <1>4, GaplessCovers
    <3>4. Gapless(S \union Under(files, l + 1, S))
      BY <1>3, <1>4, <3>3, UnderIsGapless
    <3> QED
      BY <3>2, <3>4 DEF all, next
  <2>2. \A k \in Keys : Low(all).key <= k /\ k <= High(all).key => \E C \in all : Overlaps(C, k, k)
    BY <2>1, GaplessCovers
  <2>3. Gapless(all \union R)
    BY <1>3, <1>4, <1>6, <2>1, <2>2, UnderIsGapless
  <2>4. S \subseteq R
    <3> SUFFICES ASSUME NEW T \in S PROVE T \in R
      OBVIOUS
    <3>1. /\ Low(all).key <= Smallest(T).key /\ Largest(T).key <= High(all).key
          /\ Low(all).key \in Nat /\ High(all).key \in Nat
      BY <2>1, SetEnds, Constants DEF all
    <3>2. Smallest(T).key \in Nat /\ Largest(T).key \in Nat /\ Smallest(T).key <= Largest(T).key
      BY <1>4, TableEnds, Constants
    <3>3. Overlaps(T, Low(all).key, High(all).key)
      BY <3>1, <3>2 DEF Overlaps
    <3>4. T \in ToSet(files[l])
      BY DEF Chosen, Files
    <3> QED
      BY <1>3, <1>4, <1>6, <2>1, <3>3, <3>4, UnderIsWhatOverlaps
  <2>5. Low(R).key <= Low(S).key /\ High(S).key <= High(R).key
        /\ Low(R).key \in Nat /\ High(R).key \in Nat /\ Low(S).key \in Nat /\ High(S).key \in Nat
    <3>1. Low(S) \in UNION R /\ High(S) \in UNION R
      BY <1>4, <2>4, SetEnds
    <3> QED
      BY <1>4, <3>1, SetEnds, Constants
  <2>6. next \subseteq Under(files, l + 1, R)
    <3> SUFFICES ASSUME NEW T \in next PROVE T \in Under(files, l + 1, R)
      OBVIOUS
    <3>1. T \in ToSet(files[l + 1]) /\ Overlaps(T, Low(S).key, High(S).key)
      BY <1>3, <1>4, UnderIsWhatOverlaps DEF next
    <3>2. Smallest(T).key \in Nat /\ Largest(T).key \in Nat
      BY <1>4, <3>1, TableEnds, Constants
    <3>3. Overlaps(T, Low(R).key, High(R).key)
      BY <2>5, <3>1, <3>2 DEF Overlaps
    <3> QED
      BY <1>3, <1>4, <3>1, <3>3, UnderIsWhatOverlaps
  <2>7. ASSUME NEW k \in Keys, Low(R).key <= k, k <= High(R).key
        PROVE  \E C \in R \union Under(files, l + 1, R) : Overlaps(C, k, k)
    <3>1. PICK A \in R : Low(R) \in A
      BY <1>4, SetEnds
    <3>2. PICK B \in R : High(R) \in B
      BY <1>4, SetEnds
    <3>3. Smallest(A).key <= Low(R).key /\ High(R).key <= Largest(B).key
          /\ Smallest(A).key \in Nat /\ Largest(B).key \in Nat /\ k \in Nat
      BY <1>4, <3>1, <3>2, TableEnds, Constants DEF Keys
    <3>4. Smallest(A).key <= k /\ k <= Largest(B).key
      BY <2>5, <2>7, <3>3
    <3>5. PICK C \in all \union R : Overlaps(C, k, k)
      BY <2>3, <3>4 DEF Gapless
    <3>6. C \in R \union Under(files, l + 1, R)
      BY <2>4, <2>6 DEF all
    <3> QED
      BY <3>5, <3>6
  <2>8. Gapless(R \union Under(files, l + 1, R))
    BY <1>3, <1>4, <2>7, UnderIsGapless
  <2> QED
    BY <1>2, <2>8 DEF c
<1> QED
  BY <1>1, <1>5, <1>6

\* Nobody has called CompactRange.
NoRange ==
  /\ manual = [pc |-> "idle"] /\ rangeCompactions = 0
  /\ NoGaps

LEMMA NoRangeKept ==
  ASSUME MaxRangeCompactions = 0, TreeInv, NoRange, [Next]_vars
  PROVE  NoRange'
<1> USE DEF NoRange
<1>1. ASSUME manual' = manual, rangeCompactions' = rangeCompactions,
             compaction' = compaction \/ compaction' = << >>
      PROVE  NoRange'
  BY <1>1 DEF NoGaps, Inputs
<1>2. ASSUME StartCompaction PROVE NoRange'
  <2>1. PICK c : c = PickCompaction
    OBVIOUS
  <2>2. /\ compaction' = <<c>> /\ NeedsCompaction(files, file_to_compact)
        /\ manual' = manual /\ rangeCompactions' = rangeCompactions
    BY <1>2, <2>1 DEF StartCompaction, Start, callVars
  <2>3. \E l \in 0..(kNumLevels - 2) : \E T \in Files(l) :
          LET S == IF l = 0 THEN Under(files, 0, {T}) ELSE {T}
          IN T \in S /\ Chosen(l, S) /\ PickCompaction = SetupOtherInputs(l, S)
    BY <2>2, PickedInputs DEF TreeInv, Charged
  <2>12. PICK l \in 0..(kNumLevels - 2) : \E T \in Files(l) :
          LET S == IF l = 0 THEN Under(files, 0, {T}) ELSE {T}
          IN T \in S /\ Chosen(l, S) /\ PickCompaction = SetupOtherInputs(l, S)
    BY <2>3
  <2>4. PICK T \in Files(l) :
          LET S == IF l = 0 THEN Under(files, 0, {T}) ELSE {T}
          IN T \in S /\ Chosen(l, S) /\ PickCompaction = SetupOtherInputs(l, S)
    BY <2>12
  <2>5. PICK S : S = IF l = 0 THEN Under(files, 0, {T}) ELSE {T}
    OBVIOUS
  <2>6. T \in S /\ Chosen(l, S) /\ c = SetupOtherInputs(l, S)
    BY <2>1, <2>4, <2>5
  <2>7. l \in Levels /\ Disjoint(Files(l)) /\ Disjoint({T})
    BY Constants, LevelsAreDisjoint, DisjointSubset DEF TreeInv
  <2>8. Gapless({T})
    BY DEF Gapless, Overlaps
  <2>9. Gapless(S)
    <3>1. CASE l = 0
      <4>1. S = {T} \union Under(files, l, {T})
        BY <2>5, <2>6, <3>1
      <4>2. \A k \in Keys : Low({T}).key <= k /\ k <= High({T}).key => \E C \in {T} : Overlaps(C, k, k)
        BY <2>7, <2>8, GaplessCovers
      <4> QED
        BY <2>7, <4>1, <4>2, UnderIsGapless DEF Files
    <3>2. CASE l # 0
      BY <2>5, <2>8, <3>2
    <3> QED
      BY <3>1, <3>2
  <2>10. Gapless(Inputs(c))
    BY <2>6, <2>9, PickedIsGapless DEF TreeInv
  <2>11. NoGaps'
    BY <2>2, <2>10 DEF NoGaps, Inputs
  <2> QED
    BY <2>2, <2>11
<1>3. ASSUME FinishCompaction PROVE NoRange'
  <2>1. manual' = manual
    BY <1>3 DEF FinishCompaction, AfterCompaction
  <2> QED
    BY <1>1, <1>3, <2>1 DEF FinishCompaction
<1>4. CASE UNCHANGED vars
  BY <1>1, <1>4 DEF vars, treeVars, callVars
<1>5. ~ StartManual /\ ~ CompactRangeStep /\ ~ \E r \in Ranges : CompactRange(r[1], r[2])
  BY DEF StartManual, CompactRangeStep, ForceSwitch, AwaitFlush, SubmitRange, CompactRange
<1>6. CASE \/ \E k \in Keys, type \in ValueTypes : Write(k, type)
           \/ GetSnapshot
           \/ \E i \in DOMAIN snapshots : ReleaseSnapshot(i)
           \/ \E k \in Keys, s \in 0..lastSequence : ChargeSeek(k, s)
           \/ FlushFirst \/ FlushDuringCompaction \/ MoveFile
  BY <1>1, <1>6 DEF Write, GetSnapshot, ReleaseSnapshot, ChargeSeek, FlushFirst,
     FlushDuringCompaction, CompactMemTable, MoveFile, treeVars, callVars
<1> QED
  BY <1>2, <1>3, <1>4, <1>5, <1>6 DEF Next, Background

\* Without CompactRange it is so in every case: what PickCompaction takes leaves no
\* gaps.
THEOREM LevelsDisjointWithoutRanges ==
  ASSUME MaxRangeCompactions = 0
  PROVE  Spec => []LevelsDisjoint
<1>1. Init => TreeInv /\ OrderInv /\ NoRange
  BY TreeInvInit, OrderInvInit DEF Init, NoRange, NoGaps
<1>2. TreeInv /\ OrderInv /\ NoRange /\ [Next]_vars => TreeInv' /\ OrderInv' /\ NoRange'
  BY TreeInvKept, OrderKept, NoRangeKept DEF NoRange
<1>3. TreeInv /\ OrderInv => LevelsDisjoint
  BY SortedIsDisjoint DEF OrderInv
<1> QED
  BY <1>1, <1>2, <1>3, PTL DEF Spec
-----------------------------------------------------------------------------
(* The age of the entries *)

\* Below level 0 no two files of a level have entries of the same key.
KeysApart ==
  \A l \in Levels \ {0} : \A A, B \in Files(l) : A # B => KeysDiffer(A, B)

Later(A, B) == \A a \in A, b \in B : a.seq > b.seq

\* Entries get older from mem_ to imm_ and to the files, and those of a key from
\* the newest file of level 0 to the oldest and down the levels.
Ages ==
  /\ Later(mem, Flushing) /\ Later(mem, UNION Disk) /\ Later(Flushing, UNION Disk)
  /\ \A i, j \in DOMAIN files[0] : i < j => Newer(files[0][j], files[0][i])
  /\ \A l, m \in Levels : l < m => Newer(UNION Files(l), UNION Files(m))

\* What a compaction leaves in its upper level is newer than what it takes.
Older(c) ==
  \A F \in Files(c.level) \ c.inputs[1] : Newer(F, UNION c.inputs[1])

AgeInv == Ages /\ \A c : compaction = <<c>> => Older(c)

LEMMA SetupTakesTheOlder ==
  ASSUME Once, KeysApart, NEW l, NEW S, Chosen(l, S)
  PROVE  Older(SetupOtherInputs(l, S))
<1> DEFINE c == SetupOtherInputs(l, S)
<1>1. c.level = l /\ Chosen(l, c.inputs[1])
  BY InputsOfASetup
<1> HIDE DEF c
<1>2. l \in Levels
  BY Constants DEF Chosen
<1>3. ASSUME NEW F \in Files(l) \ c.inputs[1] PROVE KeysDiffer(F, UNION c.inputs[1])
  <2>1. CASE l = 0
    BY <1>1, <1>3, <2>1 DEF Chosen
  <2>2. CASE l # 0
    BY <1>1, <1>2, <1>3, <2>2 DEF Chosen, KeysApart, KeysDiffer
  <2> QED
    BY <2>1, <2>2
<1>4. Older(c)
  BY <1>1, <1>3 DEF Older, KeysDiffer, Newer
<1> QED
  BY <1>4 DEF c

LEMMA AgesAfterFlush ==
  ASSUME Typed, Once, Ages, CompactMemTable
  PROVE  Ages' /\ \A c : Running(c) /\ Older(c) => Older(c)'
<1>1. mem' = mem /\ Flushing' = {}
  <2>1. ToSet(<< >>) = {}
    BY DEF ToSet
  <2> QED
    BY <2>1 DEF CompactMemTable, Flushing
<1>2. CASE files' = files
  <2>1. Disk' = Disk /\ \A l : Files(l)' = Files(l)
    BY <1>2, SameFiles
  <2>2. Ages'
    BY <1>1, <1>2, <2>1 DEF Ages, Later
  <2>3. ASSUME NEW c, Older(c) PROVE Older(c)'
    <3>1. Files(c.level)' = Files(c.level)
      BY <2>1
    <3> QED
      BY <2>3, <3>1 DEF Older
  <2> QED
    BY <2>2, <2>3
<1>3. CASE files' # files
  <2>1. PICK T \in (SUBSET Entries) \ {{}}, p \in 0..(kNumLevels - 2) :
                 /\ imm = <<T>> /\ T = Flushing /\ Disjoint({T})
                 /\ p # 0 => \A l \in 0..p : \A F \in Files(l) :
                               ~ Overlaps(F, Smallest(T).key, Largest(T).key)
                 /\ EditOf(files', {}, p, {T})
                 /\ \A m \in Levels : Files(m)' = Files(m) \union (IF m = p THEN {T} ELSE {})
    BY <1>3, FlushEffect
  <2>2. p \in Levels /\ p \in Nat /\ 0 \in Levels /\ \A l \in Levels : l \in Nat
    BY Constants
  <2>3. UNION Disk' \subseteq (UNION Disk) \union Flushing
    BY <2>1 DEF Disk
  <2>4. Later(mem', Flushing') /\ Later(mem', UNION Disk') /\ Later(Flushing', UNION Disk')
    BY <1>1, <2>3 DEF Ages, Later
  <2>5. \A F \in Disk : Newer(T, F)
    BY <2>1 DEF Ages, Later, Newer
  <2>6. \A l \in Levels : Files(l) \subseteq Disk
    BY DEF Disk
  <2>7. ASSUME NEW i \in DOMAIN files'[0], NEW j \in DOMAIN files'[0], i < j
        PROVE  Newer(files'[0][j], files'[0][i])
    <3>1. CASE WereInOrder(0, files'[0][i], files'[0][j])
      BY <3>1 DEF WereInOrder, Ages
    <3>2. CASE ~ WereInOrder(0, files'[0][i], files'[0][j])
      <4>1. p = 0
        BY <2>1, <2>2, <2>7, <3>2 DEF EditOf
      <4>2. \/ files'[0][i] \in Files(0) /\ files'[0][j] = T
            \/ files'[0][i] = T /\ files'[0][j] = T /\ Before(Smallest(T), Smallest(T))
        BY <2>1, <2>7, <3>2, <4>1 DEF EditOf
      <4>3. Smallest(T) \in Entries
        BY <2>1, TableEnds
      <4> QED
        BY <2>2, <2>5, <2>6, <4>2, <4>3, BeforeIsAnOrder
    <3> QED
      BY <3>1, <3>2
  <2>8. ASSUME NEW l \in Levels, NEW m \in Levels, l < m
        PROVE  Newer(UNION Files(l)', UNION Files(m)')
    <3> SUFFICES ASSUME NEW A \in Files(l)', NEW B \in Files(m)' PROVE Newer(A, B)
      BY DEF Newer
    <3>1. CASE A \in Files(l) /\ B \in Files(m)
      BY <2>8, <3>1 DEF Ages, Newer
    <3>2. CASE A = T /\ l = p /\ B \in Files(m)
      BY <2>5, <2>6, <3>2
    <3>3. CASE A \in Files(l) /\ B = T /\ m = p
      <4>1. p # 0 /\ l \in 0..p
        BY <2>2, <2>8, <3>3
      <4>2. KeysDiffer(A, T)
        BY <2>1, <3>3, <4>1, OutsideIsApart
      <4> QED
        BY <3>3, <4>2 DEF KeysDiffer, Newer
    <3> QED
      BY <2>1, <2>2, <2>8, <3>1, <3>2, <3>3
  <2>9. ASSUME NEW c, Running(c), Older(c) PROVE Older(c)'
    <3>1. c.level \in Levels /\ c.inputs[1] \subseteq Disk
      BY <2>6, <2>9, Constants DEF Running
    <3>2. Files(c.level)' \subseteq Files(c.level) \union {T}
      BY <2>1, <3>1
    <3>3. Newer(T, UNION c.inputs[1])
      BY <2>5, <3>1 DEF Newer
    <3> QED
      BY <2>9, <3>2, <3>3 DEF Older
  <2>10. Ages'
    BY <2>4, <2>7, <2>8 DEF Ages
  <2> QED
    BY <2>9, <2>10
<1> QED
  BY <1>2, <1>3

LEMMA AgesAfterInstall ==
  ASSUME Once, Ages, NEW c, Running(c), Older(c), NEW new,
         UNION new \subseteq UNION Inputs(c), mem' = mem, imm' = imm,
         EditOf(files', Inputs(c), c.level + 1, new),
         \A m \in Levels : Files(m)' =
           (Files(m) \ Inputs(c)) \union (IF m = c.level + 1 THEN new ELSE {})
  PROVE  Ages'
<1>1. /\ c.level \in Levels /\ c.level + 1 \in Levels /\ c.level \in Nat
      /\ 0 \in Levels \ {c.level + 1} /\ \A l \in Levels : l \in Nat
  BY Constants DEF Running
<1>2. \A x \in UNION Inputs(c) : (\E A \in c.inputs[1] : x \in A) \/ (\E A \in c.inputs[2] : x \in A)
  BY DEF Inputs
<1>3. Inputs(c) \subseteq Disk
  BY <1>1 DEF Inputs, Running, Disk
<1>4. Flushing' = Flushing
  BY DEF Flushing
<1>5. UNION Disk' \subseteq UNION Disk
  <2> SUFFICES ASSUME NEW A \in Disk', NEW x \in A PROVE x \in UNION Disk
    OBVIOUS
  <2>1. A \in Disk \/ A \in new
    BY DEF Disk
  <2> QED
    BY <1>3, <2>1
<1>6. Later(mem', Flushing') /\ Later(mem', UNION Disk') /\ Later(Flushing', UNION Disk')
  BY <1>4, <1>5 DEF Ages, Later
<1>7. ASSUME NEW i \in DOMAIN files'[0], NEW j \in DOMAIN files'[0], i < j
      PROVE  Newer(files'[0][j], files'[0][i])
  <2>1. WereInOrder(0, files'[0][i], files'[0][j])
    BY <1>1, <1>7 DEF EditOf
  <2> QED
    BY <2>1 DEF WereInOrder, Ages
<1>8. ASSUME NEW l \in Levels, NEW m \in Levels, l < m
      PROVE  Newer(UNION Files(l)', UNION Files(m)')
  <2> SUFFICES ASSUME NEW A \in Files(l)', NEW B \in Files(m)', NEW x \in A, NEW y \in B,
                      x.key = y.key
               PROVE  x.seq > y.seq
    BY DEF Newer
  <2>1. \A j, k \in Levels : j < k => \A F \in Files(j), G \in Files(k) : Newer(F, G)
    BY DEF Ages, Newer
  <2>2. CASE A \in Files(l) \ Inputs(c) /\ B \in Files(m) \ Inputs(c)
    BY <1>8, <2>1, <2>2 DEF Newer
  <2>3. CASE A \in new /\ l = c.level + 1
    <3>1. B \in Files(m) /\ c.level < m /\ c.level + 1 < m
      BY <1>1, <1>8, <2>3
    <3>2. PICK F \in Inputs(c) : x \in F
      BY <2>3
    <3>3. Newer(F, B)
      BY <1>1, <2>1, <3>1, <3>2 DEF Inputs, Running
    <3> QED
      BY <3>2, <3>3 DEF Newer
  <2>4. CASE A \in Files(l) \ Inputs(c) /\ B \in new /\ m = c.level + 1
    <3>1. PICK G \in Inputs(c) : y \in G
      BY <2>4
    <3>2. CASE G \in c.inputs[2]
      <4>1. Newer(A, G)
        BY <1>1, <1>8, <2>1, <2>4, <3>2 DEF Running
      <4> QED
        BY <3>1, <4>1 DEF Newer
    <3>3. CASE G \in c.inputs[1] /\ l < c.level
      <4>1. Newer(A, G)
        BY <1>1, <2>1, <2>4, <3>3 DEF Running
      <4> QED
        BY <3>1, <4>1 DEF Newer
    <3>4. CASE G \in c.inputs[1] /\ l = c.level
      BY <2>4, <3>1, <3>4 DEF Older, Newer, Inputs
    <3>5. l < c.level \/ l = c.level
      BY <1>1, <1>8, <2>4
    <3> QED
      BY <3>1, <3>2, <3>3, <3>4, <3>5 DEF Inputs
  <2> QED
    BY <1>1, <1>8, <2>2, <2>3, <2>4
<1> QED
  BY <1>6, <1>7, <1>8 DEF Ages

\* The entry written is newer than all before it.
LEMMA AgesAfterWrite ==
  ASSUME Typed, Once, Ages, NEW k \in Keys, NEW type \in ValueTypes, Write(k, type)
  PROVE  Ages'
<1>1. PICK e : e = [key |-> k, seq |-> lastSequence + 1, type |-> type]
  OBVIOUS
<1>2. /\ Disk' = Disk /\ lastSequence \in Nat
      /\ \A x \in Stored : x.seq <= lastSequence
      /\ \/ imm' = imm /\ mem' = mem \union {e}
         \/ imm = << >> /\ imm' = <<mem>> /\ mem' = {e}
  BY <1>1, OnceAfterWrite DEF Typed
<1>3. files' = files
  BY DEF Write, treeVars
<1>4. \A x \in Stored : e.seq > x.seq
  BY <1>1, <1>2, Constants DEF Once
<1>5. CASE imm' = imm /\ mem' = mem \union {e}
  <2>1. Flushing' = Flushing
    BY <1>5 DEF Flushing
  <2> QED
    BY <1>2, <1>3, <1>4, <1>5, <2>1, SameFiles DEF Ages, Later, Stored
<1>6. CASE imm = << >> /\ imm' = <<mem>> /\ mem' = {e}
  <2>1. Flushing' = mem
    <3>1. ToSet(<<mem>>) = {mem}
      BY DEF ToSet
    <3> QED
      BY <1>6, <3>1 DEF Flushing
  <2> QED
    BY <1>2, <1>3, <1>4, <1>6, <2>1, SameFiles DEF Ages, Later, Stored
<1> QED
  BY <1>2, <1>5, <1>6

LEMMA AgesKept ==
  ASSUME TreeInv, AgeInv, KeysApart, [Next]_vars
  PROVE  AgeInv'
<1>1. Typed /\ Once /\ Ages /\ \A c : compaction = <<c>> => Running(c) /\ Older(c)
  <2>1. ASSUME NEW c, compaction = <<c>> PROVE Running(c)
    BY <2>1 DEF TreeInv
  <2> QED
    BY <2>1 DEF TreeInv, AgeInv
<1>2. ASSUME files' = files PROVE \A c : Older(c) => Older(c)'
  <2>1. \A l : Files(l)' = Files(l)
    BY <1>2 DEF Files
  <2>2. ASSUME NEW c, Older(c) PROVE Older(c)'
    <3>1. Files(c.level)' = Files(c.level)
      BY <2>1
    <3> QED
      BY <2>2, <3>1 DEF Older
  <2> QED
    BY <2>2
<1>3. ASSUME files' = files, mem' = mem, imm' = imm PROVE Ages'
  <2>1. Flushing' = Flushing
    BY <1>3 DEF Flushing
  <2> QED
    BY <1>1, <1>3, <2>1, SameFiles DEF Ages
<1>4. ASSUME files' = files, compaction' = compaction, Ages' PROVE AgeInv'
  BY <1>1, <1>2, <1>4 DEF AgeInv
<1>5. ASSUME NEW k \in Keys, NEW type \in ValueTypes, Write(k, type) PROVE AgeInv'
  <2>1. files' = files /\ compaction' = compaction
    BY <1>5 DEF Write, treeVars
  <2>2. Ages'
    BY <1>1, <1>5, AgesAfterWrite
  <2> QED
    BY <1>4, <2>1, <2>2
<1>6. CASE ForceSwitch
  <2>1. /\ files' = files /\ compaction' = compaction /\ imm = << >>
        /\ imm' = <<mem>> /\ mem' = {}
    BY <1>6 DEF ForceSwitch, SwitchTo, CanSwitch, treeVars
  <2>2. Flushing' = mem
    <3>1. ToSet(<<mem>>) = {mem}
      BY DEF ToSet
    <3> QED
      BY <2>1, <3>1 DEF Flushing
  <2>3. Ages'
    BY <1>1, <2>1, <2>2, SameFiles DEF Ages, Later
  <2> QED
    BY <1>4, <2>1, <2>3
<1>7. CASE FlushFirst \/ FlushDuringCompaction
  <2>1. CompactMemTable /\ compaction' = compaction
    BY <1>7 DEF FlushFirst, FlushDuringCompaction
  <2> QED
    BY <1>1, <2>1, AgesAfterFlush DEF AgeInv
<1>8. CASE StartManual
  <2>1. files' = files /\ mem' = mem /\ imm' = imm
    BY <1>8 DEF StartManual, memVars
  <2>2. CASE compaction' # compaction
    <3>1. PICK S : /\ Chosen(manual.level, S)
                   /\ compaction' = <<SetupOtherInputs(manual.level, S)>>
      BY <1>8, <2>2, ManualRuns
    <3>2. PICK c : c = SetupOtherInputs(manual.level, S)
      OBVIOUS
    <3>3. Older(c) /\ compaction' = <<c>>
      BY <1>1, <3>1, <3>2, SetupTakesTheOlder
    <3> QED
      BY <1>2, <1>3, <2>1, <3>3 DEF AgeInv
  <2> QED
    BY <1>3, <1>4, <2>1, <2>2
<1>9. ASSUME NeedsCompaction(files, file_to_compact)
      PROVE  Older(PickCompaction)
  <2>1. \E l \in 0..(kNumLevels - 2) : \E T \in Files(l) :
          LET S == IF l = 0 THEN Under(files, 0, {T}) ELSE {T}
          IN T \in S /\ Chosen(l, S) /\ PickCompaction = SetupOtherInputs(l, S)
    BY <1>9, PickedInputs DEF TreeInv, Charged
  <2>2. PICK l, S : Chosen(l, S) /\ PickCompaction = SetupOtherInputs(l, S)
    BY <2>1
  <2>3. Older(SetupOtherInputs(l, S))
    BY <1>1, <2>2, SetupTakesTheOlder
  <2> QED
    BY <2>2, <2>3
<1>10. CASE StartCompaction
  <2>1. PICK c : c = PickCompaction
    OBVIOUS
  <2>2. /\ files' = files /\ mem' = mem /\ imm' = imm /\ compaction' = <<c>>
        /\ NeedsCompaction(files, file_to_compact)
    BY <1>10, <2>1 DEF StartCompaction, Start, memVars
  <2>3. Older(c)
    BY <1>9, <2>1, <2>2
  <2> QED
    BY <1>2, <1>3, <2>2, <2>3 DEF AgeInv
<1>11. CASE MoveFile
  <2>1. PICK c, F :
           /\ c = PickCompaction /\ Running(c) /\ Inputs(c) = {F}
           /\ EditOf(files', {F}, c.level + 1, {F})
           /\ \A m \in Levels : Files(m)' =
                (Files(m) \ {F}) \union (IF m = c.level + 1 THEN {F} ELSE {})
    BY <1>11, MoveEffect
  <2>2. /\ NeedsCompaction(files, file_to_compact) /\ mem' = mem /\ imm' = imm
        /\ compaction = << >> /\ compaction' = << >>
    BY <1>11 DEF MoveFile, memVars
  <2>3. Older(c)
    BY <1>9, <2>1, <2>2
  <2>4. /\ EditOf(files', Inputs(c), c.level + 1, {F})
        /\ \A m \in Levels : Files(m)' =
             (Files(m) \ Inputs(c)) \union (IF m = c.level + 1 THEN {F} ELSE {})
    BY <2>1
  <2>5. UNION {F} \subseteq UNION Inputs(c)
    BY <2>1
  <2>6. Ages'
    BY <1>1, <2>1, <2>2, <2>3, <2>4, <2>5, AgesAfterInstall
  <2> QED
    BY <2>2, <2>6 DEF AgeInv
<1>12. CASE FinishCompaction
  <2>1. PICK c :
           /\ compaction = <<c>> /\ compaction' = << >> /\ Running(c)
           /\ UNION Outputs(c) = {e \in UNION Inputs(c) : ~ Superseded(c, e)}
           /\ EditOf(files', Inputs(c), c.level + 1, Outputs(c))
           /\ \A m \in Levels : Files(m)' =
                (Files(m) \ Inputs(c)) \union (IF m = c.level + 1 THEN Outputs(c) ELSE {})
    BY <1>12, FinishEffect
  <2>2. /\ Older(c) /\ UNION Outputs(c) \subseteq UNION Inputs(c)
        /\ mem' = mem /\ imm' = imm
    BY <1>1, <1>12, <2>1 DEF FinishCompaction, memVars
  <2>3. Ages'
    BY <1>1, <2>1, <2>2, AgesAfterInstall
  <2> QED
    BY <2>1, <2>3 DEF AgeInv
<1>13. CASE \/ UNCHANGED vars
            \/ GetSnapshot
            \/ \E i \in DOMAIN snapshots : ReleaseSnapshot(i)
            \/ \E k \in Keys, s \in 0..lastSequence : ChargeSeek(k, s)
            \/ \E r \in Ranges : CompactRange(r[1], r[2])
            \/ AwaitFlush \/ SubmitRange
  <2>1. files' = files /\ mem' = mem /\ imm' = imm /\ compaction' = compaction
    BY <1>13 DEF vars, GetSnapshot, ReleaseSnapshot, ChargeSeek, CompactRange, AwaitFlush,
       SubmitRange, treeVars, memVars
  <2> QED
    BY <1>3, <1>4, <2>1
<1> QED
  BY <1>5, <1>6, <1>7, <1>8, <1>10, <1>11, <1>12, <1>13 DEF Next, Background, CompactRangeStep

Aging(s) == \A i, j \in DOMAIN s : i < j => Newer(s[i], s[j])

LEMMA AgingOfBoth ==
  ASSUME NEW X, NEW s \in Seq(X), NEW t \in Seq(X), Aging(s), Aging(t),
         \A A \in ToSet(s), B \in ToSet(t) : Newer(A, B)
  PROVE  LET u == s \o t
         IN u \in Seq(X) /\ Aging(u) /\ ToSet(u) \subseteq ToSet(s) \union ToSet(t)
<1>1. /\ s \o t \in Seq(X) /\ Len(s \o t) = Len(s) + Len(t)
      /\ \A i \in 1..Len(s) + Len(t) :
           (s \o t)[i] = IF i <= Len(s) THEN s[i] ELSE t[i - Len(s)]
  BY ConcatProperties
<1>2. /\ DOMAIN s = 1..Len(s) /\ DOMAIN t = 1..Len(t) /\ DOMAIN (s \o t) = 1..(Len(s) + Len(t))
      /\ Len(s) \in Nat /\ Len(t) \in Nat
  BY <1>1, LenProperties
<1> DEFINE u == s \o t
<1>3. ASSUME NEW i \in DOMAIN u
      PROVE  \/ i \in DOMAIN s /\ u[i] = s[i] /\ u[i] \in ToSet(s)
             \/ i > Len(s) /\ i - Len(s) \in DOMAIN t /\ u[i] = t[i - Len(s)] /\ u[i] \in ToSet(t)
  <2>1. i \in 1..(Len(s) + Len(t)) /\ u[i] = IF i <= Len(s) THEN s[i] ELSE t[i - Len(s)]
    BY <1>1, <1>2
  <2> HIDE DEF u
  <2>2. CASE i <= Len(s)
    BY <1>2, <2>1, <2>2 DEF ToSet
  <2>3. CASE ~ (i <= Len(s))
    <3>1. i > Len(s) /\ i - Len(s) \in DOMAIN t /\ u[i] = t[i - Len(s)]
      BY <1>2, <2>1, <2>3
    <3> QED
      BY <3>1 DEF ToSet
  <2> QED
    BY <2>2, <2>3
<1>4. u \in Seq(X) /\ DOMAIN u = 1..(Len(s) + Len(t))
  BY <1>1, <1>2
<1> HIDE DEF u
<1>5. ASSUME NEW i \in DOMAIN u, NEW j \in DOMAIN u, i < j PROVE Newer(u[i], u[j])
  <2>1. CASE i \in DOMAIN s /\ u[i] = s[i] /\ j \in DOMAIN s /\ u[j] = s[j]
    BY <1>5, <2>1 DEF Aging
  <2>2. CASE u[i] \in ToSet(s) /\ u[j] \in ToSet(t)
    BY <2>2
  <2>3. CASE /\ i > Len(s) /\ i - Len(s) \in DOMAIN t /\ u[i] = t[i - Len(s)]
             /\ j > Len(s) /\ j - Len(s) \in DOMAIN t /\ u[j] = t[j - Len(s)]
    <3>1. i - Len(s) < j - Len(s)
      BY <1>2, <1>4, <1>5, <2>3
    <3> QED
      BY <2>3, <3>1 DEF Aging
  <2>4. ~ (i > Len(s) /\ j \in DOMAIN s)
    BY <1>2, <1>4, <1>5
  <2> QED
    BY <1>3, <2>1, <2>2, <2>3, <2>4
<1>6. Aging(u)
  BY <1>5 DEF Aging
<1>7. ToSet(u) \subseteq ToSet(s) \union ToSet(t)
  BY <1>3 DEF ToSet
<1> QED
  BY <1>4, <1>6, <1>7 DEF u

LEMMA AgesAreInOrder ==
  ASSUME TreeInv, Ages
  PROVE  EntriesNeverHop
<1> DEFINE E == SUBSET Entries
           newest == <<mem>>
           levels == [l \in 1..(kNumLevels - 1) |-> UNION ToSet(files[l])]
           zero == Reverse(files[0])
           first == newest \o imm
           second == first \o zero
           age == second \o levels
<1>1. Typed /\ Once
  BY DEF TreeInv
<1>2. newest \in Seq(E) /\ Aging(newest) /\ ToSet(newest) = {mem}
  <2>1. mem \in E
    BY <1>1 DEF Once, Stored
  <2> QED
    BY <2>1 DEF Aging, ToSet
<1>3. imm \in Seq(E) /\ Aging(imm) /\ \A A \in ToSet(imm) : A \subseteq Flushing
  <2>1. CASE imm = << >>
    BY <2>1, EmptySeq DEF Aging, ToSet
  <2>2. CASE \E I \in E : imm = <<I>>
    <3>1. imm \in Seq(E) /\ Aging(imm)
      BY <2>2 DEF Aging
    <3> QED
      BY <3>1 DEF Flushing
  <2> QED
    BY <1>1, <2>1, <2>2 DEF Typed
<1>4. zero \in Seq(E) /\ Aging(zero) /\ \A A \in ToSet(zero) : A \in Files(0)
  <2> DEFINE n == Len(files[0])
  <2>1. files[0] \in Seq(E) /\ n \in Nat /\ DOMAIN files[0] = 1..n
    BY <1>1, Constants, LenProperties DEF Once
  <2>2. zero = [i \in 1..n |-> files[0][(n - i) + 1]]
    BY DEF Reverse
  <2> HIDE DEF n, zero
  <2>3. \A i \in 1..n : files[0][(n - i) + 1] \in E /\ (n - i) + 1 \in 1..n
    <3>1. \A i \in 1..n : (n - i) + 1 \in 1..n
      BY <2>1
    <3>2. \A i \in 1..n : files[0][i] \in E
      BY <2>1, ElementOfSeq DEF n
    <3> QED
      BY <3>1, <3>2
  <2>4. zero \in Seq(E) /\ DOMAIN zero = 1..n
    <3>1. [i \in 1..n |-> files[0][(n - i) + 1]] \in Seq(E)
      BY <2>1, <2>3, IsASeq
    <3> QED
      BY <2>2, <3>1
  <2>5. \A i \in 1..n : zero[i] = files[0][(n - i) + 1] /\ zero[i] \in Files(0)
    BY <2>1, <2>2, <2>3 DEF Files, ToSet
  <2>6. ASSUME NEW i \in 1..n, NEW j \in 1..n, i < j PROVE Newer(zero[i], zero[j])
    <3>1. (n - j) + 1 < (n - i) + 1
      BY <2>1, <2>6
    <3>2. Newer(files[0][(n - i) + 1], files[0][(n - j) + 1])
      BY <2>1, <2>3, <3>1 DEF Ages
    <3> QED
      BY <2>5, <3>2
  <2>7. \A A \in ToSet(zero) : A \in Files(0)
    BY <2>4, <2>5 DEF ToSet
  <2> QED
    BY <2>4, <2>6, <2>7 DEF Aging
<1>5. /\ levels \in Seq(E) /\ Aging(levels)
      /\ \A A \in ToSet(levels) : \E l \in Levels \ {0} : A = UNION Files(l)
  <2>1. kNumLevels - 1 \in Nat /\ \A l \in 1..(kNumLevels - 1) : l \in Levels \ {0} /\ l \in Nat
    BY Constants
  <2>2. \A l \in 1..(kNumLevels - 1) : UNION ToSet(files[l]) \in E
    <3>1. \A l \in Levels : UNION Files(l) \subseteq Stored
      BY DEF Disk, Stored
    <3> QED
      BY <1>1, <2>1, <3>1 DEF Once, Files
  <2>3. levels \in Seq(E) /\ DOMAIN levels = 1..(kNumLevels - 1)
    BY <2>1, <2>2, IsASeq
  <2>4. \A l \in 1..(kNumLevels - 1) : levels[l] = UNION Files(l)
    BY DEF Files
  <2> HIDE DEF levels
  <2>5. Aging(levels)
    BY <2>1, <2>3, <2>4 DEF Aging, Ages
  <2> QED
    BY <2>1, <2>3, <2>4, <2>5 DEF ToSet
<1> HIDE DEF newest, zero, levels, E
<1>6. \A l \in Levels : UNION Files(l) \subseteq UNION Disk
  BY DEF Disk
<1>7. first \in Seq(E) /\ Aging(first) /\ ToSet(first) \subseteq {mem} \union ToSet(imm)
  <2>1. \A A \in ToSet(newest), B \in ToSet(imm) : Newer(A, B)
    BY <1>2, <1>3 DEF Ages, Later, Newer
  <2>2. Aging(imm) /\ imm \in Seq(E)
    BY <1>3
  <2> QED
    BY <1>2, <2>1, <2>2, AgingOfBoth
<1> HIDE DEF first
<1>8. \A A \in ToSet(first), e \in UNION Disk : \A a \in A : a.seq > e.seq
  BY <1>3, <1>7 DEF Ages, Later
<1>9. second \in Seq(E) /\ Aging(second) /\ ToSet(second) \subseteq ToSet(first) \union ToSet(zero)
  <2>1. \A A \in ToSet(first), B \in ToSet(zero) : Newer(A, B)
    <3>1. \A B \in ToSet(zero) : B \subseteq UNION Disk
      BY <1>4, <1>6, Constants
    <3> QED
      BY <1>8, <3>1 DEF Newer
  <2> QED
    BY <1>4, <1>7, <2>1, AgingOfBoth
<1> HIDE DEF second
<1>10. Aging(age)
  <2>1. \A A \in ToSet(second), B \in ToSet(levels) : Newer(A, B)
    <3> SUFFICES ASSUME NEW A \in ToSet(second), NEW B \in ToSet(levels) PROVE Newer(A, B)
      OBVIOUS
    <3>3. PICK l \in Levels \ {0} : B = UNION Files(l)
      BY <1>5
    <3>1. CASE A \in ToSet(first)
      BY <1>6, <1>8, <3>1, <3>3 DEF Newer
    <3>2. CASE A \in Files(0)
      <4>1. 0 < l /\ 0 \in Levels
        BY Constants
      <4>2. Newer(UNION Files(0), UNION Files(l))
        BY <4>1 DEF Ages
      <4> QED
        BY <3>2, <3>3, <4>2 DEF Newer
    <3> QED
      BY <1>4, <1>9, <3>1, <3>2
  <2> QED
    BY <1>5, <1>9, <2>1, AgingOfBoth
<1>11. age = <<mem>> \o imm \o Reverse(files[0])
             \o [l \in 1..(kNumLevels - 1) |-> UNION ToSet(files[l])]
  BY DEF second, first, newest, zero, levels
<1> HIDE DEF age
<1>12. \A i, j \in DOMAIN age : i < j =>
         \A newer \in age[i], older \in age[j] :
           newer.key = older.key => newer.seq > older.seq
  BY <1>10 DEF Aging, Newer
<1> QED
  BY <1>11, <1>12 DEF EntriesNeverHop

LEMMA TreeIsTyped ==
  ASSUME TreeInv
  PROVE  TypeOK
<1>1. Typed /\ Once
  BY DEF TreeInv
<1>2. Tables \subseteq SUBSET Entries
  <2>1. mem \subseteq Stored /\ Flushing \subseteq Stored /\ UNION Disk \subseteq Stored
    BY DEF Stored
  <2>2. \A l \in Levels : Files(l) \subseteq Disk
    BY DEF Disk
  <2>3. \A T \in Tables : T = mem \/ T \in ToSet(imm) \/ \E l \in Levels : T \in Files(l)
    BY DEF Tables, Files
  <2>4. \A T \in Tables : T \subseteq Stored
    BY <2>1, <2>2, <2>3 DEF Flushing
  <2> QED
    BY <1>1, <2>4 DEF Once
<1>3. Len(imm) <= 1
  <2>1. \A I : Len(<<I>>) = 1
    OBVIOUS
  <2>2. Len(<< >>) = 0
    OBVIOUS
  <2>3. imm = << >> \/ \E I : imm = <<I>>
    BY <1>1 DEF Typed
  <2>4. CASE imm = << >>
    BY <2>2, <2>4
  <2>5. CASE \E I : imm = <<I>>
    BY <2>1, <2>5
  <2> QED
    BY <2>3, <2>4, <2>5
<1>4. Len(compaction) <= 1
  <2>1. \A c : Len(<<c>>) = 1
    OBVIOUS
  <2>2. Len(<< >>) = 0
    OBVIOUS
  <2> QED
    BY <2>1, <2>2 DEF TreeInv
<1>5. snapshots \in BoundedSeq(0..lastSequence, MaxSnapshots)
  <2>1. /\ Len(snapshots) \in 0..MaxSnapshots
        /\ snapshots \in [1..Len(snapshots) -> 0..lastSequence]
    BY <1>1, Constants, LenProperties DEF Typed
  <2> QED
    BY <2>1 DEF BoundedSeq, SeqOf
<1> QED
  BY <1>1, <1>2, <1>3, <1>4, <1>5 DEF TypeOK, Typed

LEMMA AgeInvInit == Init => AgeInv
<1> SUFFICES ASSUME Init PROVE AgeInv
  OBVIOUS
<1>1. ToSet(<< >>) = {} /\ DOMAIN << >> = {}
  BY DEF ToSet
<1>2. \A l \in Levels : files[l] = << >> /\ Files(l) = {}
  BY <1>1 DEF Init, Files
<1>3. Disk = {} /\ Flushing = {} /\ mem = {} /\ compaction = << >>
  BY <1>1, <1>2 DEF Disk, Flushing, Init
<1>4. Ages
  BY <1>1, <1>2, <1>3, Constants DEF Ages, Later, Newer
<1> QED
  BY <1>3, <1>4 DEF AgeInv

\* Entries never hop across the levels: of a key, what Get comes to first is the
\* newest, unless the entries of one user key are spread over two files of a level.
THEOREM EntriesStayInOrder == Spec /\ []KeysApart => []EntriesInOrder
<1>1. Init => TreeInv /\ AgeInv
  BY TreeInvInit, AgeInvInit
<1>2. TreeInv /\ AgeInv /\ KeysApart /\ [Next]_vars => TreeInv' /\ AgeInv'
  BY TreeInvKept, AgesKept
<1>3. TreeInv /\ AgeInv => EntriesInOrder
  BY AgesAreInOrder, TreeIsTyped DEF AgeInv, EntriesInOrder
<1> QED
  BY <1>1, <1>2, <1>3, PTL DEF Spec
-----------------------------------------------------------------------------
(* Without snapshots a compaction keeps one entry of a key *)

InputsAreOld(c) == \A e \in UNION Inputs(c) : e.seq <= c.smallest_snapshot

KeysInv == KeysApart /\ \A c : compaction = <<c>> => InputsAreOld(c)

LEMMA ApartAfterInstall ==
  ASSUME Once, KeysApart, NEW c, Running(c), NEW new, UNION new \subseteq UNION Inputs(c),
         \A A, B \in new : A # B => KeysDiffer(A, B),
         \A m \in Levels : Files(m)' =
           (Files(m) \ Inputs(c)) \union (IF m = c.level + 1 THEN new ELSE {})
  PROVE  KeysApart'
<1>1. c.level + 1 \in Levels \ {0}
  BY Constants DEF Running
<1>2. ASSUME NEW A \in new, NEW B \in Files(c.level + 1) \ Inputs(c)
      PROVE  KeysDiffer(A, B) /\ KeysDiffer(B, A)
  <2>1. ASSUME NEW F \in Inputs(c) PROVE KeysDiffer(B, F)
    <3>1. CASE F \in c.inputs[1]
      BY <3>1 DEF Running, KeysDiffer, Inputs
    <3>2. CASE F \in c.inputs[2]
      <4>1. F \in Files(c.level + 1) /\ F # B
        BY <3>2 DEF Running
      <4> QED
        BY <1>1, <4>1 DEF KeysApart
    <3> QED
      BY <3>1, <3>2 DEF Inputs
  <2> QED
    BY <2>1 DEF KeysDiffer
<1> SUFFICES ASSUME NEW l \in Levels \ {0}, NEW A \in Files(l)', NEW B \in Files(l)', A # B
             PROVE  KeysDiffer(A, B)
  BY DEF KeysApart
<1>3. CASE A \in Files(l) \ Inputs(c) /\ B \in Files(l) \ Inputs(c)
  BY <1>3 DEF KeysApart
<1>4. CASE l = c.level + 1 /\ (A \in new \/ B \in new)
  BY <1>2, <1>4
<1> QED
  BY <1>3, <1>4

\* Of a key the outputs keep one entry, if all inputs are old enough.
LEMMA OneEntryIsKept ==
  ASSUME NEW c, InputsAreOld(c), UNION Inputs(c) \subseteq Entries, SeqsDiffer(UNION Inputs(c)),
         c.smallest_snapshot \in 0..MaxSequence
  PROVE  \A A, B \in Outputs(c) : A # B => KeysDiffer(A, B)
<1>1. /\ Disjoint(Outputs(c))
      /\ UNION Outputs(c) = {e \in UNION Inputs(c) : ~ Superseded(c, e)}
  BY OutputsOfMerge
<1> SUFFICES ASSUME NEW A \in Outputs(c), NEW B \in Outputs(c), A # B,
                    NEW a \in A, NEW b \in B, a.key = b.key
             PROVE  FALSE
  BY DEF KeysDiffer
<1>2. /\ a \in UNION Inputs(c) /\ ~ Superseded(c, a)
      /\ b \in UNION Inputs(c) /\ ~ Superseded(c, b)
  BY <1>1
<1>3. a # b
  BY <1>1 DEF Disjoint
<1>4. a.seq < b.seq \/ b.seq < a.seq
  BY <1>2, <1>3, Constants DEF SeqsDiffer
<1>5. a.seq \in Nat /\ b.seq \in Nat /\ a.seq <= c.smallest_snapshot /\ b.seq <= c.smallest_snapshot
  BY <1>2, Constants DEF InputsAreOld
<1> QED
  BY <1>2, <1>4, <1>5 DEF Superseded

LEMMA InputsOfSetupAreOld ==
  ASSUME MaxSnapshots = 0, Typed, Once, NEW l, NEW S, Chosen(l, S)
  PROVE  InputsAreOld(SetupOtherInputs(l, S))
<1> DEFINE c == SetupOtherInputs(l, S)
<1>1. c.smallest_snapshot = SmallestSnapshot
  BY InputsOfASetup
<1>2. Running(c)
  BY SetupRuns
<1> HIDE DEF c
<1>3. SmallestSnapshot = lastSequence
  <2>1. Len(snapshots) = 0
    BY LenProperties DEF Typed
  <2>2. snapshots = << >>
    BY <2>1, EmptySeq DEF Typed
  <2> QED
    BY <2>2 DEF SmallestSnapshot
<1>4. UNION Inputs(c) \subseteq Stored
  <2>1. c.level \in Levels /\ c.level + 1 \in Levels
    BY <1>2, Constants DEF Running
  <2> QED
    BY <1>2, <2>1 DEF Stored, Disk, Running, Inputs
<1>5. InputsAreOld(c)
  BY <1>1, <1>3, <1>4 DEF InputsAreOld, Once
<1> QED
  BY <1>5 DEF c

LEMMA KeysInvKept ==
  ASSUME MaxSnapshots = 0, TreeInv, KeysInv, [Next]_vars
  PROVE  KeysInv'
<1>1. Typed /\ Once /\ KeysApart /\ \A c : compaction = <<c>> => Running(c) /\ InputsAreOld(c)
  <2>1. ASSUME NEW c, compaction = <<c>> PROVE Running(c)
    BY <2>1 DEF TreeInv
  <2> QED
    BY <2>1 DEF TreeInv, KeysInv
<1>2. ASSUME files' = files PROVE KeysApart'
  BY <1>1, <1>2, SameFiles DEF KeysApart
<1>3. ASSUME KeysApart', compaction' = compaction \/ compaction' = << >> PROVE KeysInv'
  BY <1>1, <1>3 DEF KeysInv, InputsAreOld, Inputs
<1>4. ASSUME files' = files, NEW c, compaction' = <<c>>, InputsAreOld(c) PROVE KeysInv'
  BY <1>2, <1>4 DEF KeysInv, InputsAreOld, Inputs
<1>5. CASE FlushFirst \/ FlushDuringCompaction
  <2>1. CompactMemTable /\ compaction' = compaction
    BY <1>5 DEF FlushFirst, FlushDuringCompaction
  <2>2. CASE files' # files
    <3>1. PICK T \in (SUBSET Entries) \ {{}}, p \in 0..(kNumLevels - 2) :
                   /\ imm = <<T>> /\ T = Flushing /\ Disjoint({T})
                   /\ p # 0 => \A l \in 0..p : \A F \in Files(l) :
                                 ~ Overlaps(F, Smallest(T).key, Largest(T).key)
                   /\ \A m \in Levels : Files(m)' = Files(m) \union (IF m = p THEN {T} ELSE {})
      BY <1>1, <2>1, <2>2, FlushEffect
    <3>2. ASSUME p # 0, NEW F \in Files(p) PROVE KeysDiffer(T, F) /\ KeysDiffer(F, T)
      <4>1. p \in Levels /\ p \in 0..p
        BY Constants
      <4> QED
        BY <1>1, <3>1, <3>2, <4>1, OutsideIsApart
    <3>3. KeysApart'
      <4> SUFFICES ASSUME NEW l \in Levels \ {0}, NEW A \in Files(l)', NEW B \in Files(l)', A # B
                   PROVE  KeysDiffer(A, B)
        BY DEF KeysApart
      <4>1. CASE A \in Files(l) /\ B \in Files(l)
        BY <1>1, <4>1 DEF KeysApart
      <4>2. CASE l = p /\ (A = T \/ B = T)
        BY <3>1, <3>2, <4>2
      <4> QED
        BY <3>1, <4>1, <4>2
    <3> QED
      BY <1>3, <2>1, <3>3
  <2> QED
    BY <1>2, <1>3, <2>1, <2>2
<1>6. CASE StartManual
  <2>1. files' = files
    BY <1>6 DEF StartManual
  <2>2. CASE compaction' # compaction
    <3>1. PICK S : /\ Chosen(manual.level, S)
                   /\ compaction' = <<SetupOtherInputs(manual.level, S)>>
      BY <1>6, <2>2, ManualRuns
    <3>2. PICK c : c = SetupOtherInputs(manual.level, S)
      OBVIOUS
    <3>3. InputsAreOld(c) /\ compaction' = <<c>>
      BY <1>1, <3>1, <3>2, InputsOfSetupAreOld
    <3> QED
      BY <1>4, <2>1, <3>3
  <2> QED
    BY <1>2, <1>3, <2>1, <2>2
<1>7. CASE StartCompaction
  <2>1. PICK c : c = PickCompaction
    OBVIOUS
  <2>2. files' = files /\ compaction' = <<c>> /\ NeedsCompaction(files, file_to_compact)
    BY <1>7, <2>1 DEF StartCompaction, Start
  <2>3. \E l \in 0..(kNumLevels - 2) : \E T \in Files(l) :
          LET S == IF l = 0 THEN Under(files, 0, {T}) ELSE {T}
          IN T \in S /\ Chosen(l, S) /\ PickCompaction = SetupOtherInputs(l, S)
    BY <2>2, PickedInputs DEF TreeInv, Charged
  <2>4. PICK l, S : Chosen(l, S) /\ PickCompaction = SetupOtherInputs(l, S)
    BY <2>3
  <2>5. InputsAreOld(c)
    BY <1>1, <2>1, <2>4, InputsOfSetupAreOld
  <2> QED
    BY <1>4, <2>2, <2>5
<1>8. CASE MoveFile
  <2>1. PICK c, F :
           /\ Running(c) /\ Inputs(c) = {F}
           /\ \A m \in Levels : Files(m)' =
                (Files(m) \ {F}) \union (IF m = c.level + 1 THEN {F} ELSE {})
    BY <1>8, MoveEffect
  <2>2. \A m \in Levels : Files(m)' =
             (Files(m) \ Inputs(c)) \union (IF m = c.level + 1 THEN {F} ELSE {})
    BY <2>1
  <2>3. UNION {F} \subseteq UNION Inputs(c) /\ \A A, B \in {F} : A # B => KeysDiffer(A, B)
    BY <2>1
  <2>4. KeysApart'
    BY <1>1, <2>1, <2>2, <2>3, ApartAfterInstall
  <2> QED
    BY <1>3, <1>8, <2>4 DEF MoveFile
<1>9. CASE FinishCompaction
  <2>1. PICK c :
           /\ compaction = <<c>> /\ compaction' = << >> /\ Running(c)
           /\ UNION Outputs(c) = {e \in UNION Inputs(c) : ~ Superseded(c, e)}
           /\ \A m \in Levels : Files(m)' =
                (Files(m) \ Inputs(c)) \union (IF m = c.level + 1 THEN Outputs(c) ELSE {})
    BY <1>9, FinishEffect
  <2>2. UNION Inputs(c) \subseteq Stored
    <3>1. c.level \in Levels /\ c.level + 1 \in Levels
      BY <2>1, Constants DEF Running
    <3> QED
      BY <2>1, <3>1 DEF Stored, Disk, Running, Inputs
  <2>3. \A A, B \in Outputs(c) : A # B => KeysDiffer(A, B)
    <3>1. /\ UNION Inputs(c) \subseteq Entries /\ SeqsDiffer(UNION Inputs(c))
      BY <1>1, <2>2 DEF Once, SeqsDiffer
    <3>2. c.smallest_snapshot \in 0..lastSequence /\ lastSequence \in 0..MaxSequence
      BY <1>1, <2>1 DEF Typed, Running
    <3>3. c.smallest_snapshot \in 0..MaxSequence
      BY <3>2, Constants
    <3>4. InputsAreOld(c)
      BY <1>1, <2>1
    <3> QED
      BY <3>1, <3>3, <3>4, OneEntryIsKept
  <2>4. UNION Outputs(c) \subseteq UNION Inputs(c)
    BY <2>1
  <2>5. KeysApart'
    BY <1>1, <2>1, <2>3, <2>4, ApartAfterInstall
  <2> QED
    BY <1>3, <2>1, <2>5
<1>10. CASE \/ UNCHANGED vars
            \/ \E k \in Keys, type \in ValueTypes : Write(k, type)
            \/ GetSnapshot
            \/ \E i \in DOMAIN snapshots : ReleaseSnapshot(i)
            \/ \E k \in Keys, s \in 0..lastSequence : ChargeSeek(k, s)
            \/ \E r \in Ranges : CompactRange(r[1], r[2])
            \/ CompactRangeStep
  <2>1. files' = files /\ compaction' = compaction
    BY <1>10 DEF vars, Write, GetSnapshot, ReleaseSnapshot, ChargeSeek, CompactRange,
       CompactRangeStep, ForceSwitch, AwaitFlush, SubmitRange, treeVars
  <2> QED
    BY <1>2, <1>3, <2>1
<1> QED
  BY <1>5, <1>6, <1>7, <1>8, <1>9, <1>10 DEF Next, Background

LEMMA KeysInvInit == Init => KeysInv
<1> SUFFICES ASSUME Init PROVE KeysInv
  OBVIOUS
<1>1. ToSet(<< >>) = {}
  BY DEF ToSet
<1>2. \A l \in Levels : Files(l) = {}
  BY <1>1 DEF Init, Files
<1> QED
  BY <1>2 DEF KeysInv, KeysApart, Init

\* Without snapshots it is so in every case: a compaction keeps one entry of a key.
THEOREM EntriesInOrderWithoutSnapshots ==
  ASSUME MaxSnapshots = 0
  PROVE  Spec => []EntriesInOrder
<1>1. Init => TreeInv /\ AgeInv /\ KeysInv
  BY TreeInvInit, AgeInvInit, KeysInvInit
<1>2. TreeInv /\ AgeInv /\ KeysInv /\ [Next]_vars => TreeInv' /\ AgeInv' /\ KeysInv'
  BY TreeInvKept, AgesKept, KeysInvKept DEF KeysInv
<1>3. TreeInv /\ AgeInv => EntriesInOrder
  BY AgesAreInOrder, TreeIsTyped DEF AgeInv, EntriesInOrder
<1> QED
  BY <1>1, <1>2, <1>3, PTL DEF Spec
-----------------------------------------------------------------------------
(* Reading *)

\* The entry a reader of k at s should be answered with, and the answer.
Newest(S, k, s) == CHOOSE e \in SeenIn(S, k, s) : \A f \in SeenIn(S, k, s) : f.seq <= e.seq

Answer(S, k, s) ==
  IF SeenIn(S, k, s) = {} \/ Newest(S, k, s).type = "deletion" THEN NoValue
  ELSE Newest(S, k, s).seq

\* The tables DBImpl::Get looks into, with their turns.
Searched(k, s) ==
  {<<0, mem>>} \union {<<1, T>> : T \in ToSet(imm)}
  \union {<<p[1] + 2, p[2]>> : p \in Probes(files, k, s)}

LEMMA NewestOfSeen ==
  ASSUME NEW S, S \subseteq Entries, SeqsDiffer(S), NEW k, NEW s
  PROVE  /\ SeenIn(S, k, s) # {} =>
              /\ Newest(S, k, s) \in SeenIn(S, k, s)
              /\ \A f \in SeenIn(S, k, s) : f.seq <= Newest(S, k, s).seq
         /\ \A e \in SeenIn(S, k, s) : (\A f \in SeenIn(S, k, s) : f.seq <= e.seq) =>
              Answer(S, k, s) = IF e.type = "deletion" THEN NoValue ELSE e.seq
         /\ SeenIn(S, k, s) = {} => Answer(S, k, s) = NoValue
<1> DEFINE N == SeenIn(S, k, s)
           seqs == {e.seq : e \in N}
<1>1. N \subseteq S /\ \A e \in N : e.seq \in Nat /\ e.seq <= MaxSequence
  BY Constants DEF SeenIn
<1> HIDE DEF N
<1>2. ASSUME N # {} PROVE \E e \in N : \A f \in N : f.seq <= e.seq
  <2>1. seqs \subseteq Nat /\ seqs # {} /\ MaxSequence \in Nat /\ \A x \in seqs : x <= MaxSequence
    BY <1>1, <1>2, Constants
  <2>2. Max(seqs) \in seqs /\ \A x \in seqs : x <= Max(seqs)
    BY <2>1, Greatest
  <2> QED
    BY <2>2
<1>3. ASSUME N # {}
      PROVE  Newest(S, k, s) \in N /\ \A f \in N : f.seq <= Newest(S, k, s).seq
  BY <1>2, <1>3 DEF Newest, N
<1>4. ASSUME NEW e \in N, \A f \in N : f.seq <= e.seq
      PROVE  Answer(S, k, s) = IF e.type = "deletion" THEN NoValue ELSE e.seq
  <2>1. Newest(S, k, s) \in N /\ e.seq <= Newest(S, k, s).seq /\ Newest(S, k, s).seq <= e.seq
    BY <1>3, <1>4
  <2>2. Newest(S, k, s).seq = e.seq
    BY <1>1, <2>1
  <2>3. Newest(S, k, s) = e
    BY <1>1, <2>1, <2>2 DEF SeqsDiffer
  <2> QED
    BY <2>3 DEF Answer, N
<1>5. N = {} => Answer(S, k, s) = NoValue
  BY DEF Answer, N
<1> QED
  BY <1>3, <1>4, <1>5 DEF N

\* Of a level, the binary search finds the file with the newest entry seen.
LEMMA FoundHasNewest ==
  ASSUME Once, Sorted, NEW l \in Levels \ {0}, NEW k \in Keys, NEW s \in Nat,
         NEW e \in UNION Files(l), e.key = k, e.seq <= s,
         \A f \in UNION Files(l) : f.key = k /\ f.seq <= s => f.seq <= e.seq
  PROVE  e \in FoundIn(files, l, k, s)
<1> DEFINE v == files[l]
           at == [key |-> k, seq |-> s]
           ends == {i \in DOMAIN v : ~ Before(Largest(v[i]), at)}
<1>1. v \in Seq(SUBSET Entries) /\ DOMAIN v \subseteq Nat /\ Disjoint(Files(l))
  BY LevelsAreDisjoint, LenProperties DEF Once
<1>2. PICK x \in DOMAIN v : e \in v[x]
  BY DEF Files, ToSet
<1>3. \A i \in DOMAIN v : v[i] \in Files(l)
  BY DEF Files, ToSet
<1>4. \A i \in DOMAIN v :
        /\ v[i] \subseteq Entries
        /\ Largest(v[i]) \in v[i] /\ Largest(v[i]) \in Entries
        /\ Largest(v[i]) \in UNION Files(l)
        /\ \A y \in v[i] : Smallest(v[i]).key <= y.key
        /\ \A y \in v[i] : y = Largest(v[i]) \/ Before(y, Largest(v[i]))
  BY <1>1, <1>3, TableEnds
<1>5. e \in Entries /\ e.seq \in Nat /\ k \in Nat
  BY <1>2, <1>4, Constants DEF Keys
<1>6. FoundIn(files, l, k, s) =
        IF ends # {} /\ Smallest(v[Min(ends)]).key <= k THEN v[Min(ends)] ELSE {}
  BY DEF FoundIn
<1>7. at.key = k /\ at.seq = s
  OBVIOUS
<1> HIDE DEF v, at
<1>8. x \in ends
  <2>1. e = Largest(v[x]) \/ Before(e, Largest(v[x]))
    BY <1>2, <1>4
  <2>2. ~ Before(Largest(v[x]), at)
    BY <1>2, <1>4, <1>5, <1>7, <2>1, Constants DEF Before
  <2> QED
    BY <2>2
<1>9. ends \subseteq Nat /\ ends \subseteq DOMAIN v
  BY <1>1
<1>10. Min(ends) \in ends /\ Min(ends) <= x
  <2> HIDE DEF ends
  <2> QED
    BY <1>8, <1>9, Least
<1>11. ASSUME NEW i \in ends, i < x PROVE FALSE
  <2>1. i \in DOMAIN v /\ ~ Before(Largest(v[i]), at)
    OBVIOUS
  <2>2. Precedes(v[i], v[x])
    BY <1>11, <2>1 DEF Sorted, v
  <2>3. Before(Largest(v[i]), e)
    BY <1>2, <1>4, <2>1, <2>2 DEF Precedes
  <2>4. Largest(v[i]) \in UNION Files(l) /\ Largest(v[i]).key \in Nat /\ Largest(v[i]).seq \in Nat
    BY <1>4, <2>1, Constants
  <2>5. Largest(v[i]).key = k /\ Largest(v[i]).seq <= s /\ Largest(v[i]).seq > e.seq
    BY <1>5, <1>7, <2>1, <2>3, <2>4 DEF Before
  <2> QED
    BY <1>5, <2>4, <2>5
<1> HIDE DEF ends
<1>12. Min(ends) = x
  <2>1. PICK m : m = Min(ends)
    OBVIOUS
  <2>2. m \in ends /\ m <= x /\ m \in Nat /\ x \in Nat
    BY <1>1, <1>9, <1>10, <2>1
  <2>3. ~ (m < x)
    BY <1>11, <2>2
  <2> QED
    BY <2>1, <2>2, <2>3
<1>13. Smallest(v[x]).key <= k
  BY <1>2, <1>4
<1> QED
  BY <1>2, <1>6, <1>8, <1>12, <1>13

\* What is searched, and in which turn.
LEMMA SearchedTables ==
  ASSUME Once, NEW k \in Keys, NEW s \in Nat, NEW t, NEW A
  PROVE  <<t, A>> \in Searched(k, s) <=>
           \/ t = 0 /\ A = mem
           \/ t = 1 /\ A \in ToSet(imm)
           \/ \E i \in DOMAIN files[0] : /\ t = Len(files[0]) - i + 2 /\ A = files[0][i]
                                         /\ Overlaps(A, k, k)
           \/ \E l \in 1..(kNumLevels - 1) : /\ t = Len(files[0]) + l + 2
                                             /\ A = FoundIn(files, l, k, s) /\ A # {}
<1> DEFINE n == Len(files[0])
           zero == {<<n - i, files[0][i]>> : i \in {j \in DOMAIN files[0] : Overlaps(files[0][j], k, k)}}
           deep == {<<n + l, FoundIn(files, l, k, s)>> :
                      l \in {m \in 1..(kNumLevels - 1) : FoundIn(files, m, k, s) # {}}}
<1>1. Probes(files, k, s) = zero \union deep
  BY DEF Probes
<1>2. (\E p \in zero : <<t, A>> = <<p[1] + 2, p[2]>>) <=>
        \E i \in DOMAIN files[0] : t = n - i + 2 /\ A = files[0][i] /\ Overlaps(A, k, k)
  <2>1. ASSUME NEW p \in zero, <<t, A>> = <<p[1] + 2, p[2]>>
        PROVE  \E i \in DOMAIN files[0] : t = n - i + 2 /\ A = files[0][i] /\ Overlaps(A, k, k)
    <3>1. PICK i \in DOMAIN files[0] : Overlaps(files[0][i], k, k) /\ p = <<n - i, files[0][i]>>
      OBVIOUS
    <3>2. p[1] = n - i /\ p[2] = files[0][i] /\ t = p[1] + 2 /\ A = p[2]
      BY <2>1, <3>1
    <3>3. t = n - i + 2 /\ A = files[0][i] /\ Overlaps(A, k, k)
      BY <3>1, <3>2
    <3> QED
      BY <3>3
  <2>2. ASSUME NEW i \in DOMAIN files[0], t = n - i + 2, A = files[0][i], Overlaps(A, k, k)
        PROVE  \E p \in zero : <<t, A>> = <<p[1] + 2, p[2]>>
    <3>1. PICK p : p = <<n - i, files[0][i]>>
      OBVIOUS
    <3>2. p \in zero /\ <<t, A>> = <<p[1] + 2, p[2]>>
      BY <2>2, <3>1
    <3> QED
      BY <3>2
  <2> QED
    BY <2>1, <2>2
<1>3. (\E p \in deep : <<t, A>> = <<p[1] + 2, p[2]>>) <=>
        \E l \in 1..(kNumLevels - 1) : t = n + l + 2 /\ A = FoundIn(files, l, k, s) /\ A # {}
  <2>1. ASSUME NEW p \in deep, <<t, A>> = <<p[1] + 2, p[2]>>
        PROVE  \E l \in 1..(kNumLevels - 1) : t = n + l + 2 /\ A = FoundIn(files, l, k, s) /\ A # {}
    <3>1. PICK l \in 1..(kNumLevels - 1) : /\ FoundIn(files, l, k, s) # {}
                                           /\ p = <<n + l, FoundIn(files, l, k, s)>>
      OBVIOUS
    <3>2. p[1] = n + l /\ p[2] = FoundIn(files, l, k, s) /\ t = p[1] + 2 /\ A = p[2]
      BY <2>1, <3>1
    <3>3. t = n + l + 2 /\ A = FoundIn(files, l, k, s) /\ A # {}
      BY <3>1, <3>2
    <3> QED
      BY <3>3
  <2>2. ASSUME NEW l \in 1..(kNumLevels - 1), t = n + l + 2, A = FoundIn(files, l, k, s), A # {}
        PROVE  \E p \in deep : <<t, A>> = <<p[1] + 2, p[2]>>
    <3>1. PICK p : p = <<n + l, FoundIn(files, l, k, s)>>
      OBVIOUS
    <3>2. p \in deep /\ <<t, A>> = <<p[1] + 2, p[2]>>
      BY <2>2, <3>1
    <3> QED
      BY <3>2
  <2> QED
    BY <2>1, <2>2
<1> HIDE DEF zero, deep
<1>4. <<t, A>> \in Searched(k, s) <=>
        \/ t = 0 /\ A = mem
        \/ t = 1 /\ A \in ToSet(imm)
        \/ \E p \in zero : <<t, A>> = <<p[1] + 2, p[2]>>
        \/ \E p \in deep : <<t, A>> = <<p[1] + 2, p[2]>>
  BY <1>1 DEF Searched
<1> QED
  BY <1>2, <1>3, <1>4

LEMMA FoundIsAFile ==
  ASSUME Once, NEW l \in Levels, NEW k, NEW s, FoundIn(files, l, k, s) # {}
  PROVE  FoundIn(files, l, k, s) \in Files(l)
<1> DEFINE ends == {i \in DOMAIN files[l] :
                     ~ Before(Largest(files[l][i]), [key |-> k, seq |-> s])}
<1>1. ends # {} /\ FoundIn(files, l, k, s) = files[l][Min(ends)]
  BY DEF FoundIn
<1>2. files[l] \in Seq(SUBSET Entries)
  BY DEF Once
<1>3. ends \subseteq Nat /\ ends \subseteq DOMAIN files[l]
  BY <1>2, LenProperties
<1> HIDE DEF ends
<1>4. Min(ends) \in DOMAIN files[l]
  BY <1>1, <1>3, Least
<1> QED
  BY <1>1, <1>4 DEF Files, ToSet

\* A table that is searched later has older entries.
LEMMA SearchedInOrder ==
  ASSUME Once, Ages, NEW k \in Keys, NEW s \in Nat, NEW t, NEW A, NEW u, NEW B,
         <<t, A>> \in Searched(k, s), <<u, B>> \in Searched(k, s)
  PROVE  t \in Nat /\ A \subseteq Stored /\ (t < u => Newer(A, B))
<1> DEFINE n == Len(files[0])
           Place(x, X) == \/ x = 0 /\ X = mem
                          \/ x = 1 /\ X \in ToSet(imm)
                          \/ \E i \in 1..n : x = n - i + 2 /\ X = files[0][i]
                          \/ \E l \in 1..(kNumLevels - 1) : x = n + l + 2 /\ X \in Files(l)
<1>1. n \in Nat /\ DOMAIN files[0] = 1..n /\ 0 \in Levels
      /\ \A l \in 1..(kNumLevels - 1) : l \in Levels \ {0} /\ l \in Nat /\ l > 0
  BY Constants, LenProperties DEF Once
<1>2. ASSUME NEW x, NEW X, <<x, X>> \in Searched(k, s) PROVE Place(x, X)
  BY <1>1, <1>2, SearchedTables, FoundIsAFile
<1>3. Place(t, A) /\ Place(u, B)
  BY <1>2
<1>4. \A l \in Levels : \A F \in Files(l) : F \subseteq UNION Disk
  BY DEF Disk
<1>5. \A i \in 1..n : files[0][i] \in Files(0)
  BY <1>1 DEF Files, ToSet
<1> HIDE DEF n
<1>6. ASSUME NEW x, NEW X, Place(x, X)
      PROVE  x \in Nat /\ X \subseteq Stored /\ (x > 1 => X \subseteq UNION Disk)
  <2>1. CASE x = 0 /\ X = mem
    BY <2>1 DEF Stored
  <2>2. CASE x = 1 /\ X \in ToSet(imm)
    BY <2>2 DEF Stored, Flushing
  <2>3. CASE \E i \in 1..n : x = n - i + 2 /\ X = files[0][i]
    BY <1>1, <1>4, <1>5, <2>3 DEF Stored
  <2>4. CASE \E l \in 1..(kNumLevels - 1) : x = n + l + 2 /\ X \in Files(l)
    BY <1>1, <1>4, <2>4 DEF Stored
  <2> QED
    BY <1>6, <2>1, <2>2, <2>3, <2>4
<1>7. t \in Nat /\ A \subseteq Stored /\ u \in Nat /\ (u > 1 => B \subseteq UNION Disk)
  BY <1>3, <1>6
<1>8. ASSUME t < u PROVE Newer(A, B)
  <2>1. CASE t = 0 /\ A = mem
    <3>1. CASE u > 1
      BY <1>7, <2>1, <3>1 DEF Ages, Later, Newer
    <3>2. CASE u = 1
      <4>1. B \in ToSet(imm)
        BY <1>1, <1>3, <3>2
      <4> QED
        BY <2>1, <4>1 DEF Ages, Later, Newer, Flushing
    <3> QED
      BY <1>7, <1>8, <2>1, <3>1, <3>2
  <2>2. CASE t = 1 /\ A \in ToSet(imm)
    BY <1>7, <1>8, <2>2 DEF Ages, Later, Newer, Flushing
  <2>3. CASE \E i \in 1..n : t = n - i + 2 /\ A = files[0][i]
    <3>1. PICK i \in 1..n : t = n - i + 2 /\ A = files[0][i]
      BY <2>3
    <3>2. CASE \E j \in 1..n : u = n - j + 2 /\ B = files[0][j]
      <4>1. PICK j \in 1..n : u = n - j + 2 /\ B = files[0][j]
        BY <3>2
      <4>2. j < i
        BY <1>1, <1>8, <3>1, <4>1
      <4> QED
        BY <1>1, <3>1, <4>1, <4>2 DEF Ages
    <3>3. CASE \E l \in 1..(kNumLevels - 1) : u = n + l + 2 /\ B \in Files(l)
      <4>1. PICK l \in 1..(kNumLevels - 1) : u = n + l + 2 /\ B \in Files(l)
        BY <3>3
      <4>2. Newer(UNION Files(0), UNION Files(l))
        BY <1>1 DEF Ages
      <4> QED
        BY <1>5, <3>1, <4>1, <4>2 DEF Newer
    <3>4. u # 0 /\ u # 1
      BY <1>1, <1>7, <1>8, <3>1
    <3> QED
      BY <1>3, <3>2, <3>3, <3>4
  <2>4. CASE \E l \in 1..(kNumLevels - 1) : t = n + l + 2 /\ A \in Files(l)
    <3>1. PICK l \in 1..(kNumLevels - 1) : t = n + l + 2 /\ A \in Files(l)
      BY <2>4
    <3>2. PICK m \in 1..(kNumLevels - 1) : u = n + m + 2 /\ B \in Files(m)
      BY <1>1, <1>3, <1>8, <3>1
    <3>3. l < m
      BY <1>1, <1>8, <3>1, <3>2
    <3>4. Newer(UNION Files(l), UNION Files(m))
      BY <1>1, <3>3 DEF Ages
    <3> QED
      BY <3>1, <3>2, <3>4 DEF Newer
  <2> QED
    BY <1>3, <2>1, <2>2, <2>3, <2>4
<1> QED
  BY <1>7, <1>8

\* Wherever the newest entry seen is stored, it is come to.
LEMMA NewestIsSearched ==
  ASSUME Once, Sorted, NEW k \in Keys, NEW s \in Nat, NEW e \in SeenIn(Stored, k, s),
         \A f \in SeenIn(Stored, k, s) : f.seq <= e.seq
  PROVE  \E t, A : <<t, A>> \in Searched(k, s) /\ e \in SeenIn(A, k, s)
<1>1. e \in Stored /\ e.key = k /\ e.seq <= s
  BY DEF SeenIn
<1> SUFFICES \E t, A : <<t, A>> \in Searched(k, s) /\ e \in A
  BY <1>1 DEF SeenIn
<1>2. CASE e \in mem
  <2>1. <<0, mem>> \in Searched(k, s)
    BY SearchedTables
  <2> QED
    BY <1>2, <2>1
<1>3. CASE e \in Flushing
  <2>1. PICK T \in ToSet(imm) : e \in T
    BY <1>3 DEF Flushing
  <2>2. <<1, T>> \in Searched(k, s)
    BY SearchedTables
  <2> QED
    BY <2>1, <2>2
<1>4. CASE e \in UNION Disk
  <2>1. PICK l \in Levels, F \in Disk : F \in Files(l) /\ e \in F
    BY <1>4 DEF Disk
  <2>2. CASE l = 0
    <3>1. PICK i \in DOMAIN files[0] : files[0][i] = F
      BY <2>1, <2>2 DEF Files, ToSet
    <3>2. Overlaps(F, k, k)
      BY <1>1, <2>1, LevelsAreDisjoint, TableEnds DEF Overlaps
    <3>3. <<Len(files[0]) - i + 2, F>> \in Searched(k, s)
      BY <3>1, <3>2, SearchedTables
    <3> QED
      BY <2>1, <3>3
  <2>3. CASE l # 0
    <3>1. \A f \in UNION Files(l) : f.key = k /\ f.seq <= s => f.seq <= e.seq
      <4>1. UNION Files(l) \subseteq Stored
        BY DEF Disk, Stored
      <4> QED
        BY <4>1 DEF SeenIn
    <3>2. e \in FoundIn(files, l, k, s)
      BY <1>1, <2>1, <2>3, <3>1, FoundHasNewest
    <3>3. l \in 1..(kNumLevels - 1)
      BY <2>3, Constants
    <3>4. <<Len(files[0]) + l + 2, FoundIn(files, l, k, s)>> \in Searched(k, s)
      BY <3>2, <3>3, SearchedTables
    <3> QED
      BY <3>2, <3>4
  <2> QED
    BY <2>2, <2>3
<1> QED
  BY <1>1, <1>2, <1>3, <1>4 DEF Stored

\* What Get answers is what the newest entry of the key, wherever it is, says.
LEMMA GetAnswers ==
  ASSUME Once, Sorted, Ages, NEW k \in Keys, NEW s \in Nat
  PROVE  Visible(k, s) = Answer(Stored, k, s)
<1> DEFINE searched == {<<0, mem>>} \union {<<1, T>> : T \in ToSet(imm)}
                       \union {<<p[1] + 2, p[2]>> : p \in Probes(files, k, s)}
           seen == UNION {{<<t[1], e>> : e \in SeenIn(t[2], k, s)} : t \in searched}
           first == CHOOSE t \in seen : \A u \in seen :
                      t[1] < u[1] \/ (t[1] = u[1] /\ t[2].seq >= u[2].seq)
<1>1. Visible(k, s) = IF seen = {} \/ first[2].type = "deletion" THEN NoValue ELSE first[2].seq
  BY DEF Visible
<1>2. searched = Searched(k, s) /\ \A x \in searched : \E t, A : x = <<t, A>>
  BY DEF Searched
<1> HIDE DEF searched
<1>3. \A x \in seen : \E t, e, A : x = <<t, e>> /\ <<t, A>> \in Searched(k, s) /\ e \in SeenIn(A, k, s)
  <2> SUFFICES ASSUME NEW x \in seen
               PROVE  \E t, e, A : x = <<t, e>> /\ <<t, A>> \in Searched(k, s) /\ e \in SeenIn(A, k, s)
    OBVIOUS
  <2>1. PICK y \in searched : x \in {<<y[1], e>> : e \in SeenIn(y[2], k, s)}
    OBVIOUS
  <2>2. PICK e \in SeenIn(y[2], k, s) : x = <<y[1], e>>
    BY <2>1
  <2>3. PICK t, A : y = <<t, A>>
    BY <1>2
  <2>4. y[1] = t /\ y[2] = A /\ <<t, A>> \in Searched(k, s)
    BY <1>2, <2>3
  <2>5. x = <<t, e>> /\ <<t, A>> \in Searched(k, s) /\ e \in SeenIn(A, k, s)
    BY <2>2, <2>4
  <2> QED
    BY <2>5
<1>4. ASSUME NEW t, NEW A, <<t, A>> \in Searched(k, s), NEW e \in SeenIn(A, k, s)
      PROVE  <<t, e>> \in seen
  <2>1. PICK y : y = <<t, A>>
    OBVIOUS
  <2>2. y \in searched /\ y[1] = t /\ y[2] = A
    BY <1>2, <1>4, <2>1
  <2>3. <<y[1], e>> \in {<<y[1], d>> : d \in SeenIn(y[2], k, s)}
    BY <1>4, <2>2
  <2> QED
    BY <2>2, <2>3
<1> HIDE DEF seen
<1>5. Stored \subseteq Entries /\ SeqsDiffer(Stored)
  BY DEF Once
<1>6. \A t, A : <<t, A>> \in Searched(k, s) =>
        /\ t \in Nat /\ SeenIn(A, k, s) \subseteq SeenIn(Stored, k, s)
  BY SearchedInOrder DEF SeenIn
<1>7. CASE SeenIn(Stored, k, s) = {}
  <2>1. seen = {}
    BY <1>3, <1>6, <1>7
  <2>2. Answer(Stored, k, s) = NoValue
    BY <1>5, <1>7, NewestOfSeen
  <2> QED
    BY <1>1, <2>1, <2>2
<1>8. CASE SeenIn(Stored, k, s) # {}
  <2>1. PICK e \in SeenIn(Stored, k, s) : \A f \in SeenIn(Stored, k, s) : f.seq <= e.seq
    BY <1>5, <1>8, NewestOfSeen
  <2>2. PICK t, A : <<t, A>> \in Searched(k, s) /\ e \in SeenIn(A, k, s)
    BY <2>1, NewestIsSearched
  <2>3. <<t, e>> \in seen /\ t \in Nat /\ e.seq \in Nat
    BY <1>4, <1>5, <1>6, <2>2, Constants DEF SeenIn
  <2>4. ASSUME NEW u, NEW f, <<u, f>> \in seen
        PROVE  /\ u \in Nat /\ f \in SeenIn(Stored, k, s) /\ f.seq \in Nat
               /\ t < u \/ (t = u /\ e.seq >= f.seq)
    <3>1. PICK B : <<u, B>> \in Searched(k, s) /\ f \in SeenIn(B, k, s)
      BY <1>3, <2>4
    <3>2. u \in Nat /\ f \in SeenIn(Stored, k, s) /\ f.seq \in Nat /\ e.seq >= f.seq
      BY <1>5, <1>6, <2>1, <2>3, <3>1, Constants DEF SeenIn
    <3>3. ~ (u < t)
      <4> SUFFICES ASSUME u < t PROVE FALSE
        OBVIOUS
      <4>1. Newer(B, A)
        BY <2>2, <3>1, SearchedInOrder
      <4>2. f.key = e.key /\ f \in B /\ e \in A
        BY <2>2, <3>1 DEF SeenIn
      <4>3. f.seq > e.seq
        BY <4>1, <4>2 DEF Newer
      <4> QED
        BY <2>3, <3>2, <4>3
    <3> QED
      BY <2>3, <3>2, <3>3
  <2> DEFINE Least1(x) == \A y \in seen : x[1] < y[1] \/ (x[1] = y[1] /\ x[2].seq >= y[2].seq)
  <2>5. PICK x : x = <<t, e>>
    OBVIOUS
  <2>6. x \in seen /\ Least1(x)
    <3>1. ASSUME NEW y \in seen PROVE x[1] < y[1] \/ (x[1] = y[1] /\ x[2].seq >= y[2].seq)
      <4>1. PICK u, f : y = <<u, f>>
        BY <1>3
      <4>2. y[1] = u /\ y[2] = f /\ x[1] = t /\ x[2] = e
        BY <2>5, <4>1
      <4>3. t < u \/ (t = u /\ e.seq >= f.seq)
        BY <2>4, <4>1
      <4> QED
        BY <4>2, <4>3
    <3> QED
      BY <2>3, <2>5, <3>1
  <2>7. first = CHOOSE y \in seen : Least1(y)
    OBVIOUS
  <2> HIDE DEF first
  <2>8. first \in seen /\ Least1(first)
    BY <2>6, <2>7
  <2>9. first[2] = e
    <3>1. PICK u, f : first = <<u, f>>
      BY <1>3, <2>8
    <3>2. first[1] = u /\ first[2] = f /\ x[1] = t /\ x[2] = e
      BY <2>5, <3>1
    <3>3. u < t \/ (u = t /\ f.seq >= e.seq)
      BY <2>6, <2>8, <3>2
    <3>4. /\ u \in Nat /\ f \in SeenIn(Stored, k, s) /\ f.seq \in Nat
          /\ t < u \/ (t = u /\ e.seq >= f.seq)
      BY <2>4, <2>8, <3>1
    <3>5. f.seq = e.seq
      BY <2>3, <3>3, <3>4
    <3>6. f = e
      BY <1>5, <2>1, <3>4, <3>5 DEF SeqsDiffer, SeenIn
    <3> QED
      BY <3>2, <3>6
  <2>10. Answer(Stored, k, s) = IF e.type = "deletion" THEN NoValue ELSE e.seq
    BY <1>5, <2>1, NewestOfSeen
  <2> QED
    BY <1>1, <2>3, <2>9, <2>10
<1> QED
  BY <1>7, <1>8
-----------------------------------------------------------------------------
(* What the steps do to the answers *)

Dict  == [k \in Keys |-> Answer(Stored, k, lastSequence)]
Snaps == [i \in DOMAIN snapshots |-> [k \in Keys |-> Answer(Stored, k, snapshots[i])]]

LEMMA SameSeen ==
  ASSUME NEW S, NEW k, NEW s, NEW T, NEW u, SeenIn(S, k, s) = SeenIn(T, k, u)
  PROVE  Answer(S, k, s) = Answer(T, k, u)
BY DEF Answer, Newest

LEMMA StoredAfterFlush ==
  ASSUME Typed, Once, CompactMemTable
  PROVE  Stored' = Stored
<1>1. mem' = mem /\ Flushing' = {}
  <2>1. ToSet(<< >>) = {}
    BY DEF ToSet
  <2> QED
    BY <2>1 DEF CompactMemTable, Flushing
<1>2. CASE files' = files /\ Flushing = {}
  BY <1>1, <1>2, SameFiles DEF Stored
<1>3. CASE ~ (files' = files /\ Flushing = {})
  <2>1. PICK T \in (SUBSET Entries) \ {{}}, p \in 0..(kNumLevels - 2) :
                 /\ T = Flushing
                 /\ \A m \in Levels : Files(m)' = Files(m) \union (IF m = p THEN {T} ELSE {})
    BY <1>3, FlushEffect
  <2>2. p \in Levels
    BY Constants
  <2>3. Disk' = Disk \union {T}
    BY <2>1, <2>2 DEF Disk
  <2>4. UNION Disk' = (UNION Disk) \union Flushing
    BY <2>1, <2>3
  <2> QED
    BY <1>1, <2>4 DEF Stored
<1> QED
  BY <1>2, <1>3

LEMMA StoredAfterMove ==
  ASSUME TreeInv, MoveFile
  PROVE  Stored' = Stored
<1>1. PICK c, F :
           /\ Running(c) /\ c.inputs[1] = {F}
           /\ \A m \in Levels : Files(m)' =
                (Files(m) \ {F}) \union (IF m = c.level + 1 THEN {F} ELSE {})
  BY MoveEffect
<1>2. c.level \in Levels /\ c.level + 1 \in Levels
  BY <1>1, Constants DEF Running
<1>3. F \in Disk
  BY <1>1, <1>2 DEF Running, Disk
<1>4. Disk' = Disk
  BY <1>1, <1>2, <1>3 DEF Disk
<1>5. mem' = mem /\ Flushing' = Flushing
  BY DEF MoveFile, memVars, Flushing
<1> QED
  BY <1>4, <1>5 DEF Stored

\* A write changes what its key answers from now on, and nothing else.
LEMMA AnswersAfterWrite ==
  ASSUME TreeInv, NEW k \in Keys, NEW type \in ValueTypes, Write(k, type)
  PROVE  /\ \A j \in Keys, s \in 0..lastSequence : Answer(Stored', j, s) = Answer(Stored, j, s)
         /\ \A j \in Keys \ {k} : Answer(Stored', j, lastSequence') = Answer(Stored, j, lastSequence)
         /\ Answer(Stored', k, lastSequence') =
              IF type = "deletion" THEN NoValue ELSE lastSequence + 1
<1>1. PICK e : e = [key |-> k, seq |-> lastSequence + 1, type |-> type]
  OBVIOUS
<1>2. /\ Once' /\ e \in Entries /\ Stored' = Stored \union {e}
      /\ lastSequence \in 0..MaxSequence /\ lastSequence' = lastSequence + 1
      /\ \A x \in Stored : x.seq <= lastSequence
  BY <1>1, OnceAfterWrite DEF TreeInv
<1>3. e.key = k /\ e.seq = lastSequence + 1 /\ lastSequence \in Nat
  BY <1>1, <1>2, Constants
<1>4. \A x \in Stored : x.seq \in Nat
  BY Constants DEF TreeInv, Once
<1>5. ASSUME NEW j \in Keys, NEW s \in 0..lastSequence
      PROVE  Answer(Stored', j, s) = Answer(Stored, j, s)
  <2>1. ~ (e.seq <= s)
    BY <1>3
  <2>2. SeenIn(Stored', j, s) = SeenIn(Stored, j, s)
    BY <1>2, <2>1 DEF SeenIn
  <2> QED
    BY <2>2, SameSeen
<1>6. ASSUME NEW j \in Keys \ {k}
      PROVE  Answer(Stored', j, lastSequence') = Answer(Stored, j, lastSequence)
  <2>1. \A x \in Stored : x.seq <= lastSequence /\ x.seq <= lastSequence'
    BY <1>2, <1>3, <1>4
  <2>2. SeenIn(Stored', j, lastSequence') = SeenIn(Stored, j, lastSequence)
    BY <1>2, <1>3, <2>1 DEF SeenIn
  <2> QED
    BY <2>2, SameSeen
<1>7. Answer(Stored', k, lastSequence') =
        IF type = "deletion" THEN NoValue ELSE lastSequence + 1
  <2>1. Stored' \subseteq Entries /\ SeqsDiffer(Stored')
    BY <1>2 DEF Once
  <2>2. e \in SeenIn(Stored', k, lastSequence')
    BY <1>2, <1>3 DEF SeenIn
  <2>3. \A f \in SeenIn(Stored', k, lastSequence') : f.seq <= e.seq
    BY <1>2, <1>3 DEF SeenIn
  <2>4. Answer(Stored', k, lastSequence') = IF e.type = "deletion" THEN NoValue ELSE e.seq
    BY <2>1, <2>2, <2>3, NewestOfSeen
  <2> QED
    BY <1>1, <2>4
<1> QED
  BY <1>5, <1>6, <1>7

\* A compaction changes no answer a reader may still ask for.
LEMMA AnswersAfterMerge ==
  ASSUME TreeInv, Ages, KeysApart, NEW c, Running(c), Older(c), NEW new, Once',
         UNION new = {e \in UNION Inputs(c) : ~ Superseded(c, e)},
         \A m \in Levels : Files(m)' =
           (Files(m) \ Inputs(c)) \union (IF m = c.level + 1 THEN new ELSE {}),
         mem' = mem, imm' = imm,
         NEW k \in Keys, NEW s \in Nat, c.smallest_snapshot <= s
  PROVE  Answer(Stored', k, s) = Answer(Stored, k, s)
<1>1. /\ c.level \in Levels /\ c.level + 1 \in Levels /\ c.level \in Nat
      /\ c.level \in 0..(kNumLevels - 2) /\ \A l \in Levels : l \in Nat
  BY Constants DEF Running
<1>2. c.smallest_snapshot \in Nat
  BY DEF Running, TreeInv, Typed
<1>3. Inputs(c) \subseteq Disk
  BY <1>1 DEF Inputs, Running, Disk
<1>4. UNION Inputs(c) \subseteq Stored
  BY <1>3 DEF Stored
<1>5. Once /\ Stored \subseteq Entries /\ SeqsDiffer(Stored) /\ \A e \in Stored : e.seq \in Nat
  BY Constants DEF TreeInv, Once
<1>6. Flushing' = Flushing
  BY DEF Flushing
<1>7. Disk' = (Disk \ Inputs(c)) \union new
  BY <1>1 DEF Disk
<1>8. Stored' \subseteq Stored
  <2>1. UNION new \subseteq Stored
    BY <1>4
  <2>2. UNION Disk' \subseteq Stored
    BY <1>7, <2>1 DEF Stored
  <2> QED
    BY <1>6, <2>2 DEF Stored
<1>9. \A e \in Stored : e \in Stored' \/ (e \in UNION Inputs(c) /\ Superseded(c, e))
  <2> SUFFICES ASSUME NEW e \in Stored, e \notin UNION Inputs(c) \/ ~ Superseded(c, e)
               PROVE  e \in Stored'
    OBVIOUS
  <2>1. CASE e \in mem \/ e \in Flushing
    BY <1>6, <2>1 DEF Stored
  <2>2. CASE e \in UNION Disk
    <3>1. PICK F \in Disk : e \in F
      BY <2>2
    <3>2. CASE F \notin Inputs(c)
      BY <1>7, <3>1, <3>2 DEF Stored
    <3>3. CASE F \in Inputs(c)
      <4>1. e \in UNION new
        BY <3>1, <3>3
      <4> QED
        BY <1>7, <4>1 DEF Stored
    <3> QED
      BY <3>2, <3>3
  <2> QED
    BY <2>1, <2>2 DEF Stored
<1>10. \A f \in Stored' : f \in UNION Inputs(c) => ~ Superseded(c, f)
  <2> SUFFICES ASSUME NEW f \in Stored', f \in UNION Inputs(c) PROVE f \in UNION new
    OBVIOUS
  <2>1. f \in UNION Disk /\ f \notin mem /\ f \notin Flushing
    BY <1>3, <1>5 DEF Once
  <2>2. f \in UNION Disk'
    BY <1>6, <2>1 DEF Stored
  <2>3. PICK F \in Disk' : f \in F
    BY <2>2
  <2>4. PICK G \in Inputs(c) : f \in G
    OBVIOUS
  <2>5. F \notin Disk \ Inputs(c)
    BY <1>3, <1>5, <2>3, <2>4 DEF Once, Disjoint
  <2> QED
    BY <1>7, <2>3, <2>5
<1>11. CASE SeenIn(Stored, k, s) = {}
  <2>1. SeenIn(Stored', k, s) = SeenIn(Stored, k, s)
    BY <1>8, <1>11 DEF SeenIn
  <2> QED
    BY <2>1, SameSeen
<1>12. CASE SeenIn(Stored, k, s) # {}
  <2>1. PICK e \in SeenIn(Stored, k, s) : \A f \in SeenIn(Stored, k, s) : f.seq <= e.seq
    BY <1>5, <1>12, NewestOfSeen
  <2>2. Answer(Stored, k, s) = IF e.type = "deletion" THEN NoValue ELSE e.seq
    BY <1>5, <2>1, NewestOfSeen
  <2>3. e \in Stored /\ e.key = k /\ e.seq <= s /\ e.seq \in Nat
    BY <1>5 DEF SeenIn
  <2>4. Stored' \subseteq Entries /\ SeqsDiffer(Stored')
    BY DEF Once
  <2>5. CASE e \in Stored'
    <3>1. e \in SeenIn(Stored', k, s) /\ \A f \in SeenIn(Stored', k, s) : f.seq <= e.seq
      BY <1>8, <2>1, <2>3, <2>5 DEF SeenIn
    <3>2. Answer(Stored', k, s) = IF e.type = "deletion" THEN NoValue ELSE e.seq
      BY <2>4, <3>1, NewestOfSeen
    <3> QED
      BY <2>2, <3>2
  <2>6. CASE e \notin Stored'
    <3>1. e \in UNION Inputs(c) /\ Superseded(c, e)
      BY <1>9, <2>3, <2>6
    <3>2. ~ \E f \in UNION Inputs(c) : /\ f.key = e.key /\ f.seq > e.seq
                                       /\ f.seq <= c.smallest_snapshot
      <4> SUFFICES ASSUME NEW f \in UNION Inputs(c), f.key = e.key, f.seq > e.seq,
                          f.seq <= c.smallest_snapshot
                   PROVE  FALSE
        OBVIOUS
      <4>1. f \in Stored /\ f.seq \in Nat /\ f.seq <= s
        BY <1>2, <1>4, <1>5
      <4>2. f.seq <= e.seq
        BY <2>1, <2>3, <4>1 DEF SeenIn
      <4> QED
        BY <2>3, <4>1, <4>2
    <3>3. e.type = "deletion" /\ e.seq <= c.smallest_snapshot /\ IsBaseLevelForKey(c, k)
      BY <2>3, <3>1, <3>2 DEF Superseded
    <3>4. PICK E \in Inputs(c) : e \in E
      BY <3>1
    <3>5. ASSUME NEW f \in SeenIn(Stored', k, s) PROVE FALSE
      <4>1. f \in Stored /\ f \in Stored' /\ f.key = k /\ f.seq \in Nat /\ f.seq <= e.seq
        BY <1>5, <1>8, <2>1 DEF SeenIn
      <4>2. f # e
        BY <2>6, <4>1
      <4>3. f.seq < e.seq
        BY <1>5, <2>3, <4>1, <4>2 DEF SeqsDiffer
      <4>4. f \notin UNION Inputs(c)
        <5> SUFFICES ASSUME f \in UNION Inputs(c) PROVE FALSE
          OBVIOUS
        <5>1. Superseded(c, f)
          BY <2>3, <3>1, <3>3, <4>1, <4>3 DEF Superseded
        <5> QED
          BY <1>10, <4>1, <5>1
      <4>5. f \notin mem /\ f \notin Flushing
        <5>1. e \in UNION Disk
          BY <1>3, <3>1
        <5> QED
          BY <2>3, <4>1, <4>3, <5>1 DEF Ages, Later
      <4>6. PICK l \in Levels, F \in Disk : F \in Files(l) /\ f \in F
        BY <4>1, <4>5 DEF Stored, Disk
      <4>7. ~ Newer(F, E) /\ ~ KeysDiffer(F, E) /\ F \notin Inputs(c)
        BY <2>3, <3>4, <4>1, <4>3, <4>4, <4>6 DEF Newer, KeysDiffer
      <4>8. \A m \in Levels : l < m => \A G \in Files(m) : Newer(F, G)
        BY <4>6 DEF Ages, Newer
      <4>9. CASE E \in c.inputs[1]
        <5>1. E \in Files(c.level)
          BY <4>9 DEF Running
        <5>2. ~ (l < c.level)
          BY <1>1, <4>7, <4>8, <5>1
        <5>3. l # c.level
          <6> SUFFICES ASSUME l = c.level PROVE FALSE
            OBVIOUS
          <6>1. F \in Files(c.level) \ c.inputs[1]
            BY <4>6, <4>7 DEF Inputs
          <6>2. Newer(F, UNION c.inputs[1])
            BY <6>1 DEF Older
          <6>3. Newer(F, E)
            BY <4>9, <6>2 DEF Newer
          <6> QED
            BY <4>7, <6>3
        <5>4. l # c.level + 1
          <6> SUFFICES ASSUME l = c.level + 1 PROVE FALSE
            OBVIOUS
          <6>1. F \in Files(c.level + 1) \ c.inputs[2]
            BY <4>6, <4>7 DEF Inputs
          <6>2. KeysDiffer(F, UNION c.inputs[1])
            BY <6>1 DEF Running
          <6>3. KeysDiffer(F, E)
            BY <4>9, <6>2 DEF KeysDiffer
          <6> QED
            BY <4>7, <6>3
        <5>5. l \in (c.level + 2)..(kNumLevels - 1)
          BY <1>1, <5>2, <5>3, <5>4, Constants
        <5>6. OverlapInLevel(c.version, l, k, k)
          BY <2>3, <3>1, <4>1, <4>6, <5>5 DEF Running
        <5> QED
          BY <3>3, <5>5, <5>6 DEF IsBaseLevelForKey
      <4>10. CASE E \in c.inputs[2]
        <5>1. E \in Files(c.level + 1)
          BY <4>10 DEF Running
        <5>2. ~ (l < c.level + 1)
          BY <1>1, <4>7, <4>8, <5>1
        <5>3. l # c.level + 1
          <6> SUFFICES ASSUME l = c.level + 1 PROVE FALSE
            OBVIOUS
          <6>1. F # E /\ c.level + 1 \in Levels \ {0}
            BY <1>1, <3>4, <4>7
          <6>2. KeysDiffer(F, E)
            BY <4>6, <5>1, <6>1 DEF KeysApart
          <6> QED
            BY <4>7, <6>2
        <5>5. l \in (c.level + 2)..(kNumLevels - 1)
          BY <1>1, <5>2, <5>3, Constants
        <5>6. OverlapInLevel(c.version, l, k, k)
          BY <2>3, <3>1, <4>1, <4>6, <5>5 DEF Running
        <5> QED
          BY <3>3, <5>5, <5>6 DEF IsBaseLevelForKey
      <4> QED
        BY <3>4, <4>9, <4>10 DEF Inputs
    <3>6. Answer(Stored', k, s) = NoValue
      BY <2>4, <3>5, NewestOfSeen
    <3> QED
      BY <2>2, <3>3, <3>6
  <2> QED
    BY <2>5, <2>6
<1> QED
  BY <1>11, <1>12
-----------------------------------------------------------------------------
(* The map the database is *)

\* What Get answers, for the present state and for every snapshot.
Shown ==
  /\ [k \in Keys |-> Visible(k, lastSequence)] = Dict
  /\ [i \in DOMAIN snapshots |-> [k \in Keys |-> Visible(k, snapshots[i])]] = Snaps

LEMMA AnswersAreShown ==
  ASSUME TreeInv, Sorted, Ages
  PROVE  Shown
<1>1. Once /\ lastSequence \in Nat /\ \A i \in DOMAIN snapshots : snapshots[i] \in Nat
  <2>1. /\ lastSequence \in 0..MaxSequence /\ snapshots \in Seq(0..lastSequence)
        /\ Once /\ MaxSequence \in Nat
    BY Constants DEF TreeInv, Typed
  <2>2. \A i \in DOMAIN snapshots : snapshots[i] \in 0..lastSequence
    BY <2>1, LenProperties, ElementOfSeq
  <2> QED
    BY <2>1, <2>2
<1>2. \A k \in Keys, s \in Nat : Visible(k, s) = Answer(Stored, k, s)
  BY <1>1, GetAnswers
<1>3. [k \in Keys |-> Visible(k, lastSequence)] = Dict
  BY <1>1, <1>2 DEF Dict
<1>4. [i \in DOMAIN snapshots |-> [k \in Keys |-> Visible(k, snapshots[i])]] = Snaps
  <2>1. \A i \in DOMAIN snapshots :
          [k \in Keys |-> Visible(k, snapshots[i])] = [k \in Keys |-> Answer(Stored, k, snapshots[i])]
    BY <1>1, <1>2
  <2> QED
    BY <2>1 DEF Snaps
<1> QED
  BY <1>3, <1>4 DEF Shown

\* A step that changes no answer.
LEMMA SameStates ==
  ASSUME lastSequence' = lastSequence, snapshots' = snapshots,
         \A k \in Keys : Answer(Stored', k, lastSequence) = Answer(Stored, k, lastSequence),
         \A k \in Keys, i \in DOMAIN snapshots :
           Answer(Stored', k, snapshots[i]) = Answer(Stored, k, snapshots[i])
  PROVE  Dict' = Dict /\ Snaps' = Snaps
<1>1. Dict' = Dict
  BY DEF Dict
<1>2. \A i \in DOMAIN snapshots :
        [k \in Keys |-> Answer(Stored', k, snapshots[i])] = [k \in Keys |-> Answer(Stored, k, snapshots[i])]
  OBVIOUS
<1>3. Snaps' = Snaps
  BY <1>2 DEF Snaps
<1> QED
  BY <1>1, <1>3

LEMMA StatesAfterWrite ==
  ASSUME TreeInv, NEW k \in Keys, NEW type \in ValueTypes, Write(k, type)
  PROVE  /\ Dict' = [Dict EXCEPT ![k] =
                        IF type = "deletion" THEN NoValue ELSE lastSequence + 1]
         /\ Snaps' = Snaps
<1>1. /\ \A j \in Keys, s \in 0..lastSequence : Answer(Stored', j, s) = Answer(Stored, j, s)
      /\ \A j \in Keys \ {k} : Answer(Stored', j, lastSequence') = Answer(Stored, j, lastSequence)
      /\ Answer(Stored', k, lastSequence') =
           IF type = "deletion" THEN NoValue ELSE lastSequence + 1
  BY AnswersAfterWrite
<1>2. Dict' = [Dict EXCEPT ![k] = IF type = "deletion" THEN NoValue ELSE lastSequence + 1]
  BY <1>1 DEF Dict
<1>3. snapshots' = snapshots
  BY DEF Write
<1>4. \A i \in DOMAIN snapshots : snapshots[i] \in 0..lastSequence
  BY LenProperties, ElementOfSeq DEF TreeInv, Typed
<1>5. \A i \in DOMAIN snapshots :
        [j \in Keys |-> Answer(Stored', j, snapshots[i])] = [j \in Keys |-> Answer(Stored, j, snapshots[i])]
  BY <1>1, <1>4
<1>6. Snaps' = Snaps
  BY <1>3, <1>5 DEF Snaps
<1> QED
  BY <1>2, <1>6

LEMMA StatesAfterGetSnapshot ==
  ASSUME TreeInv, GetSnapshot
  PROVE  Dict' = Dict /\ Snaps' = Append(Snaps, Dict)
<1>1. /\ lastSequence' = lastSequence /\ Stored' = Stored
      /\ snapshots' = Append(snapshots, lastSequence) /\ Len(snapshots) < MaxSnapshots
      /\ Typed
  BY OnceFrame DEF TreeInv, GetSnapshot, memVars, treeVars
<1>2. Dict' = Dict
  BY <1>1 DEF Dict
<1>3. /\ snapshots \in Seq(0..lastSequence) /\ lastSequence \in 0..lastSequence
      /\ Len(snapshots) \in Nat /\ DOMAIN snapshots = 1..Len(snapshots)
  BY <1>1, LenProperties, Constants DEF Typed
<1>4. /\ snapshots' \in Seq(0..lastSequence) /\ Len(snapshots') = Len(snapshots) + 1
      /\ \A i \in 1..Len(snapshots) : snapshots'[i] = snapshots[i]
      /\ snapshots'[Len(snapshots) + 1] = lastSequence
  BY <1>1, <1>3, AppendProperties
<1>5. DOMAIN snapshots' = 1..(Len(snapshots) + 1)
  BY <1>4, LenProperties
<1>6. PICK n : n = Len(snapshots)
  OBVIOUS
<1>7. PICK R : R = [s \in Nat |-> [k \in Keys |-> Answer(Stored, k, s)]]
  OBVIOUS
<1>8. /\ Snaps = [i \in 1..n |-> R[snapshots[i]]]
      /\ Snaps' = [i \in 1..(n + 1) |-> R[snapshots'[i]]]
      /\ Dict = R[lastSequence]
  <2>1. \A i \in 1..n : snapshots[i] \in Nat
    BY <1>3, <1>6, ElementOfSeq
  <2>2. \A i \in 1..(n + 1) : snapshots'[i] \in Nat
    BY <1>3, <1>4, <1>5, <1>6, ElementOfSeq
  <2>3. \A i \in 1..n : R[snapshots[i]] = [k \in Keys |-> Answer(Stored, k, snapshots[i])]
    BY <1>7, <2>1
  <2>4. \A i \in 1..(n + 1) : R[snapshots'[i]] = [k \in Keys |-> Answer(Stored, k, snapshots'[i])]
    BY <1>7, <2>2
  <2>5. Snaps = [i \in 1..n |-> R[snapshots[i]]]
    BY <1>3, <1>6, <2>3 DEF Snaps
  <2>6. Snaps' = [i \in 1..(n + 1) |-> R[snapshots'[i]]]
    BY <1>1, <1>5, <1>6, <2>4 DEF Snaps
  <2>7. Dict = R[lastSequence]
    BY <1>3, <1>7 DEF Dict
  <2> QED
    BY <2>5, <2>6, <2>7
<1>9. PICK D : D = Dict
  OBVIOUS
<1>10. Snaps' = [i \in 1..(n + 1) |-> IF i <= n THEN Snaps[i] ELSE D]
  <2>1. \A i \in 1..(n + 1) : R[snapshots'[i]] = IF i <= n THEN Snaps[i] ELSE D
    BY <1>3, <1>4, <1>6, <1>8, <1>9
  <2> QED
    BY <1>8, <2>1
<1>11. Snaps \in Seq({Snaps[i] : i \in 1..n} \union {D}) /\ Len(Snaps) = n
  <2>1. n \in Nat /\ Snaps = [i \in 1..n |-> Snaps[i]] /\ DOMAIN Snaps = 1..n
    BY <1>3, <1>6, <1>8
  <2> DEFINE V == {Snaps[i] : i \in 1..n} \union {D}
  <2>2. \A i \in 1..n : Snaps[i] \in V
    OBVIOUS
  <2> HIDE DEF V
  <2>3. Snaps \in Seq(V)
    BY <2>1, <2>2, IsASeq
  <2>4. Len(Snaps) = n
    BY <2>1, <2>3, LenProperties
  <2> QED
    BY <2>3, <2>4 DEF V
<1>12. Append(Snaps, D) = [i \in 1..(n + 1) |-> IF i <= n THEN Snaps[i] ELSE D]
  <2> DEFINE V == {Snaps[i] : i \in 1..n} \union {D}
             s == Append(Snaps, D)
  <2>1. Snaps \in Seq(V) /\ D \in V
    BY <1>11
  <2> HIDE DEF V
  <2>2. /\ s \in Seq(V) /\ Len(s) = n + 1 /\ s[n + 1] = D
        /\ \A i \in 1..n : s[i] = Snaps[i]
    BY <1>11, <2>1, AppendProperties
  <2> HIDE DEF s
  <2>3. s = [i \in 1..(n + 1) |-> s[i]]
    BY <2>2, LenProperties
  <2>4. \A i \in 1..(n + 1) : s[i] = IF i <= n THEN Snaps[i] ELSE D
    BY <1>3, <1>6, <2>2
  <2> QED
    BY <2>3, <2>4 DEF s
<1> QED
  BY <1>2, <1>9, <1>10, <1>12

LEMMA StatesAfterRelease ==
  ASSUME TreeInv, NEW i \in DOMAIN snapshots, ReleaseSnapshot(i)
  PROVE  /\ i \in DOMAIN Snaps /\ Dict' = Dict
         /\ Snaps' = [j \in 1..(Len(Snaps) - 1) |-> Snaps[IF j < i THEN j ELSE j + 1]]
<1>1. /\ lastSequence' = lastSequence /\ Stored' = Stored
      /\ snapshots' = RemoveAt(snapshots, i) /\ Typed
  BY OnceFrame DEF TreeInv, ReleaseSnapshot, memVars, treeVars
<1>2. Dict' = Dict
  BY <1>1 DEF Dict
<1>3. /\ Len(snapshots') = Len(snapshots) - 1 /\ Len(snapshots') \in Nat
      /\ DOMAIN snapshots' = 1..Len(snapshots')
      /\ \A j \in DOMAIN snapshots' :
           /\ (IF j < i THEN j ELSE j + 1) \in DOMAIN snapshots
           /\ snapshots'[j] = snapshots[IF j < i THEN j ELSE j + 1]
  BY <1>1, SnapshotRemoved
<1>4. PICK n : n = Len(snapshots)
  OBVIOUS
<1>5. n \in Nat /\ DOMAIN snapshots = 1..n
  BY <1>1, <1>4, LenProperties DEF Typed
<1>6. DOMAIN Snaps = 1..n
  BY <1>5 DEF Snaps
<1>7. Len(Snaps) = n
  <2> DEFINE V == {Snaps[j] : j \in 1..n}
  <2>1. Snaps = [j \in 1..n |-> Snaps[j]]
    BY <1>5 DEF Snaps
  <2>2. \A j \in 1..n : Snaps[j] \in V
    OBVIOUS
  <2> HIDE DEF V
  <2>3. Snaps \in Seq(V)
    BY <1>5, <2>1, <2>2, IsASeq
  <2> QED
    BY <1>5, <1>6, <2>3, LenProperties
<1>8. Snaps' = [j \in 1..(n - 1) |-> Snaps[IF j < i THEN j ELSE j + 1]]
  <2>1. \A j \in DOMAIN snapshots' :
          [k \in Keys |-> Answer(Stored, k, snapshots'[j])] = Snaps[IF j < i THEN j ELSE j + 1]
    <3> TAKE j \in DOMAIN snapshots'
    <3>1. PICK x : x = IF j < i THEN j ELSE j + 1
      OBVIOUS
    <3>2. x \in DOMAIN snapshots /\ snapshots'[j] = snapshots[x]
      BY <1>3, <3>1
    <3>3. Snaps[x] = [k \in Keys |-> Answer(Stored, k, snapshots[x])]
      BY <3>2 DEF Snaps
    <3> QED
      BY <3>1, <3>2, <3>3
  <2>2. Snaps' = [j \in DOMAIN snapshots' |-> [k \in Keys |-> Answer(Stored, k, snapshots'[j])]]
    BY <1>1 DEF Snaps
  <2>3. DOMAIN snapshots' = 1..(n - 1)
    BY <1>3, <1>4
  <2> QED
    BY <2>1, <2>2, <2>3
<1> QED
  BY <1>2, <1>5, <1>6, <1>7, <1>8
-----------------------------------------------------------------------------
(* Every call is the step of the map it is for *)

LEMMA StatesAfterMerge ==
  ASSUME TreeInv, AgeInv, KeysApart, FinishCompaction
  PROVE  Dict' = Dict /\ Snaps' = Snaps
<1>1. PICK c :
         /\ compaction = <<c>> /\ Running(c) /\ Once'
         /\ UNION Outputs(c) = {e \in UNION Inputs(c) : ~ Superseded(c, e)}
         /\ \A m \in Levels : Files(m)' =
              (Files(m) \ Inputs(c)) \union (IF m = c.level + 1 THEN Outputs(c) ELSE {})
  BY FinishEffect
<1>2. Ages /\ Older(c)
  BY <1>1 DEF AgeInv
<1>3. mem' = mem /\ imm' = imm /\ lastSequence' = lastSequence /\ snapshots' = snapshots
  BY DEF FinishCompaction, memVars
<1>4. \A k \in Keys, s \in Nat :
        c.smallest_snapshot <= s => Answer(Stored', k, s) = Answer(Stored, k, s)
  BY <1>1, <1>2, <1>3, AnswersAfterMerge
<1>5. /\ c.smallest_snapshot \in 0..lastSequence /\ lastSequence \in Nat
      /\ \A i \in DOMAIN snapshots : c.smallest_snapshot <= snapshots[i]
      /\ \A i \in DOMAIN snapshots : snapshots[i] \in 0..lastSequence
  BY <1>1, LenProperties, ElementOfSeq DEF Running, TreeInv, Typed
<1>6. c.smallest_snapshot <= lastSequence /\ \A i \in DOMAIN snapshots : snapshots[i] \in Nat
  BY <1>5
<1>7. \A k \in Keys : Answer(Stored', k, lastSequence) = Answer(Stored, k, lastSequence)
  BY <1>4, <1>5, <1>6
<1>8. \A k \in Keys, i \in DOMAIN snapshots :
        Answer(Stored', k, snapshots[i]) = Answer(Stored, k, snapshots[i])
  BY <1>4, <1>5, <1>6
<1> QED
  BY <1>3, <1>7, <1>8, SameStates

LEMMA ReleaseShows ==
  ASSUME Typed, NEW i \in DOMAIN snapshots, ReleaseSnapshot(i)
  PROVE  snapshots' # snapshots
<1>1. snapshots' = RemoveAt(snapshots, i)
  BY DEF ReleaseSnapshot
<1>2. Len(snapshots') = Len(snapshots) - 1 /\ Len(snapshots) \in Nat
  BY <1>1, SnapshotRemoved, LenProperties DEF Typed
<1>3. PICK n, m : n = Len(snapshots) /\ m = Len(snapshots')
  OBVIOUS
<1>4. n # m
  BY <1>2, <1>3
<1> QED
  BY <1>3, <1>4

\* What no caller of Write or of the snapshots does leaves the map as it is.
LEMMA StatesKept ==
  ASSUME TreeInv, AgeInv, KeysApart, [Next]_vars, UNCHANGED <<lastSequence, snapshots>>
  PROVE  Dict' = Dict /\ Snaps' = Snaps
<1>1. Typed /\ Once /\ lastSequence \in Nat
  BY Constants DEF TreeInv, Typed
<1>2. ASSUME Stored' = Stored
      PROVE  Dict' = Dict /\ Snaps' = Snaps
  BY <1>2 DEF Dict, Snaps
<1>3. ASSUME NEW k \in Keys, NEW type \in ValueTypes, Write(k, type)
      PROVE  FALSE
  BY <1>1, <1>3 DEF Write
<1>4. CASE GetSnapshot
  <2>1. /\ snapshots \in Seq(0..lastSequence) /\ lastSequence \in 0..lastSequence
        /\ Len(snapshots) \in Nat
    BY <1>1, LenProperties DEF Typed
  <2>2. snapshots = Append(snapshots, lastSequence)
    BY <1>4 DEF GetSnapshot
  <2>3. Len(snapshots) = Len(snapshots) + 1
    BY <2>1, <2>2, AppendProperties
  <2> QED
    BY <2>1, <2>3
<1>5. ASSUME NEW i \in DOMAIN snapshots, ReleaseSnapshot(i)
      PROVE  FALSE
  BY <1>1, <1>5, ReleaseShows
<1>6. CASE FlushFirst \/ FlushDuringCompaction
  <2>1. CompactMemTable
    BY <1>6 DEF FlushFirst, FlushDuringCompaction
  <2>2. Stored' = Stored
    BY <1>1, <2>1, StoredAfterFlush
  <2> QED
    BY <1>2, <2>2
<1>7. CASE MoveFile
  BY <1>2, <1>7, StoredAfterMove
<1>8. CASE FinishCompaction
  BY <1>8, StatesAfterMerge
<1>9. CASE ForceSwitch
  <2>1. imm = << >> /\ imm' = <<mem>> /\ mem' = {} /\ files' = files
    BY <1>9 DEF ForceSwitch, SwitchTo, CanSwitch, treeVars
  <2>2. Stored' = Stored
    BY <1>1, <2>1, OnceAfterSwitch
  <2> QED
    BY <1>2, <2>2
<1>10. CASE \/ UNCHANGED vars
            \/ \E k \in Keys, s \in 0..lastSequence : ChargeSeek(k, s)
            \/ \E r \in Ranges : CompactRange(r[1], r[2])
            \/ AwaitFlush \/ SubmitRange \/ StartManual \/ StartCompaction
  <2>1. UNCHANGED <<mem, imm, lastSequence, files>>
    BY <1>10 DEF vars, ChargeSeek, CompactRange, AwaitFlush, SubmitRange, StartManual,
       StartCompaction, memVars, treeVars
  <2>2. Stored' = Stored
    BY <1>1, <2>1, OnceFrame
  <2> QED
    BY <1>2, <2>2
<1> QED
  BY <1>3, <1>4, <1>5, <1>6, <1>7, <1>8, <1>9, <1>10 DEF Next, Background, CompactRangeStep

LEMMA CallsStep ==
  ASSUME TreeInv, AgeInv, KeysApart, [Next]_vars, Shown, Shown'
  PROVE  CallsActOnTheMap
<1>1. ASSUME NEW k \in Keys, NEW type \in ValueTypes, Write(k, type)
      PROVE  DB!Write(k, IF type = "deletion" THEN NoValue ELSE lastSequence + 1)
  <2>1. /\ Dict' = [Dict EXCEPT ![k] =
                       IF type = "deletion" THEN NoValue ELSE lastSequence + 1]
        /\ Snaps' = Snaps
    BY <1>1, StatesAfterWrite
  <2> QED
    BY <2>1 DEF DB!Write, Shown
<1>2. ASSUME GetSnapshot
      PROVE  DB!GetSnapshot
  <2>1. Dict' = Dict /\ Snaps' = Append(Snaps, Dict)
    BY <1>2, StatesAfterGetSnapshot
  <2> QED
    BY <2>1 DEF DB!GetSnapshot, Shown
<1>3. ASSUME NEW i \in DOMAIN snapshots, ReleaseSnapshot(i)
      PROVE  DB!ReleaseSnapshot(i)
  <2>1. /\ Snaps' = [j \in 1..(Len(Snaps) - 1) |-> Snaps[IF j < i THEN j ELSE j + 1]]
        /\ Dict' = Dict
    BY <1>3, StatesAfterRelease
  <2> QED
    BY <2>1 DEF DB!ReleaseSnapshot, Shown
<1>4. ASSUME UNCHANGED <<lastSequence, snapshots>>
      PROVE  UNCHANGED DB!vars
  <2>1. Dict' = Dict /\ Snaps' = Snaps
    BY <1>4, StatesKept
  <2> QED
    BY <2>1 DEF DB!vars, Shown
<1> QED
  BY <1>1, <1>2, <1>3, <1>4 DEF CallsActOnTheMap

LEMMA MapInit ==
  ASSUME Init, Shown
  PROVE  DB!Init
<1>1. lastSequence = 0 /\ snapshots = << >> /\ DOMAIN snapshots = {} /\ Once
  BY TreeInvInit, EmptySeq DEF Init, TreeInv
<1>2. \A e \in Stored : e.seq \in Nat /\ e.seq > 0
  <2>1. Stored \subseteq Entries
    BY <1>1 DEF Once
  <2> QED
    BY <2>1 DEF Entries
<1>3. \A k \in Keys : SeenIn(Stored, k, 0) = {}
  BY <1>2 DEF SeenIn
<1>4. \A k \in Keys : Answer(Stored, k, 0) = NoValue
  BY <1>3 DEF Answer
<1>5. Dict = [k \in Keys |-> NoValue]
  BY <1>1, <1>4 DEF Dict
<1>6. Snaps = << >>
  BY <1>1 DEF Snaps
<1> QED
  BY <1>5, <1>6 DEF DB!Init, Shown

LEMMA MapNext ==
  ASSUME TreeInv, Shown, [Next]_vars, CallsActOnTheMap
  PROVE  [DB!Next]_(DB!vars)
<1>1. CASE \E k \in Keys, type \in ValueTypes : Write(k, type)
  <2>1. PICK k \in Keys, type \in ValueTypes : Write(k, type)
    BY <1>1
  <2>2. PICK v : v = IF type = "deletion" THEN NoValue ELSE lastSequence + 1
    OBVIOUS
  <2>3. lastSequence \in Nat /\ lastSequence < MaxSequence /\ MaxSequence \in Nat
    BY <2>1, Constants DEF Write, TreeInv, Typed
  <2>4. v \in (1..MaxSequence) \union {NoValue}
    BY <2>2, <2>3
  <2>5. DB!Write(k, v)
    BY <2>1, <2>2 DEF CallsActOnTheMap
  <2> QED
    BY <2>4, <2>5 DEF DB!Next
<1>2. CASE GetSnapshot
  BY <1>2 DEF CallsActOnTheMap, DB!Next
<1>3. CASE \E i \in DOMAIN snapshots : ReleaseSnapshot(i)
  <2>1. PICK i \in DOMAIN snapshots : ReleaseSnapshot(i)
    BY <1>3
  <2>2. DB!ReleaseSnapshot(i)
    BY <2>1 DEF CallsActOnTheMap
  <2>3. i \in DOMAIN [n \in DOMAIN snapshots |-> [k \in Keys |-> Visible(k, snapshots[n])]]
    OBVIOUS
  <2> QED
    BY <2>2, <2>3 DEF DB!Next
<1>4. CASE UNCHANGED <<lastSequence, snapshots>>
  BY <1>4 DEF CallsActOnTheMap
<1>5. \/ UNCHANGED <<lastSequence, snapshots>>
      \/ \E k \in Keys, type \in ValueTypes : Write(k, type)
      \/ GetSnapshot
      \/ \E i \in DOMAIN snapshots : ReleaseSnapshot(i)
  BY DEF Next, vars, ChargeSeek, CompactRange, CompactRangeStep, ForceSwitch, AwaitFlush,
     SubmitRange, SwitchTo, Background, FlushFirst, FlushDuringCompaction, CompactMemTable,
     StartManual, StartCompaction, MoveFile, FinishCompaction, memVars
<1> QED
  BY <1>1, <1>2, <1>3, <1>4, <1>5

\* Whatever is flushed, moved and merged meanwhile, Get answers like the map of
\* KVStore, for the present state and for every snapshot: a write changes what its
\* own key answers, to the value written, and nothing the background thread does
\* changes any answer; unless a compaction has a gap or the entries of one key are
\* spread over two files of a level.
THEOREM TreeIsTheMap == Spec /\ []NoGaps /\ []KeysApart => ImplementsKVStore /\ DB!Spec
<1>1. Init => TreeInv /\ OrderInv /\ AgeInv
  BY TreeInvInit, OrderInvInit, AgeInvInit
<1>2. TreeInv /\ OrderInv /\ AgeInv /\ NoGaps /\ KeysApart /\ [Next]_vars
      => TreeInv' /\ OrderInv' /\ AgeInv'
  BY TreeInvKept, OrderKept, AgesKept
<1>3. TreeInv /\ OrderInv /\ AgeInv => Shown
  BY AnswersAreShown DEF OrderInv, AgeInv
<1>4. Init /\ Shown => DB!Init
  BY MapInit
<1>5. TreeInv /\ AgeInv /\ KeysApart /\ [Next]_vars /\ Shown /\ Shown' => CallsActOnTheMap
  BY CallsStep
<1>6. TreeInv /\ Shown /\ [Next]_vars /\ CallsActOnTheMap => [DB!Next]_(DB!vars)
  BY MapNext
<1> QED
  BY <1>1, <1>2, <1>3, <1>4, <1>5, <1>6, PTL DEF Spec, ImplementsKVStore, DB!Spec

\* It is so in every case where nobody calls CompactRange or holds a snapshot: each
\* put and each delete shows at once and for its key only, and Get never notices
\* the background thread.
THEOREM TreeIsTheMapWithoutSnapshots ==
  ASSUME MaxRangeCompactions = 0, MaxSnapshots = 0
  PROVE  Spec => ImplementsKVStore /\ DB!Spec
<1>1. Init => TreeInv /\ OrderInv /\ NoRange /\ AgeInv /\ KeysInv
  BY TreeInvInit, OrderInvInit, AgeInvInit, KeysInvInit DEF Init, NoRange, NoGaps
<1>2. TreeInv /\ OrderInv /\ NoRange /\ AgeInv /\ KeysInv /\ [Next]_vars
      => TreeInv' /\ OrderInv' /\ NoRange' /\ AgeInv' /\ KeysInv'
  BY TreeInvKept, OrderKept, NoRangeKept, AgesKept, KeysInvKept DEF NoRange, KeysInv
<1>3. TreeInv /\ OrderInv /\ AgeInv => Shown
  BY AnswersAreShown DEF OrderInv, AgeInv
<1>4. Init /\ Shown => DB!Init
  BY MapInit
<1>5. TreeInv /\ AgeInv /\ KeysInv /\ [Next]_vars /\ Shown /\ Shown' => CallsActOnTheMap
  BY CallsStep DEF KeysInv
<1>6. TreeInv /\ Shown /\ [Next]_vars /\ CallsActOnTheMap => [DB!Next]_(DB!vars)
  BY MapNext
<1> QED
  BY <1>1, <1>2, <1>3, <1>4, <1>5, <1>6, PTL DEF Spec, ImplementsKVStore, DB!Spec
=============================================================================
