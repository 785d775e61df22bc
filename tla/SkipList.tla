------------------------------ MODULE SkipList ------------------------------
(***************************************************************************)
(* The memtable of leveldb: a skip list with one writer and readers that   *)
(* take no lock (db/skiplist.h, db/memtable.cc).  A key is an internal     *)
(* key, given by its rank; the head is 0 and NULL is past every key.       *)
(*                                                                         *)
(* A pointer is published by a release store and read by an acquire load,  *)
(* so a reader that finds a node finds what was written before it was      *)
(* linked; max_height_ has no barrier, and a reader may see an old value.  *)
(***************************************************************************)
EXTENDS Naturals, FiniteSetsExt, SequencesExt

CONSTANTS
  MaxRank,     \* bound: keys are 1..MaxRank
  kMaxHeight,
  Readers      \* threads that hold an iterator

\* What the theorems assume of the constants: a node has at least one level.
SkipListAssumption == MaxRank \in Nat /\ kMaxHeight \in Nat \ {0}

Keys == 1..MaxRank
head_ == 0
NULL == MaxRank + 1
Uninitialized == MaxRank + 2
Nodes == {head_} \union Keys
Heights == 1..kMaxHeight

VARIABLES
  next,         \* next_[l] of every node, at level l + 1
  max_height,   \* max_height_
  insert,       \* << >>, or the Insert in progress
  iter          \* of every reader: its position, and its search if any

vars == <<next, max_height, insert, iter>>

Init ==
  /\ next = [n \in Nodes |-> [l \in Heights |-> IF n = head_ THEN NULL
                                                ELSE Uninitialized]]
  /\ max_height = 1
  /\ insert = << >>
  /\ iter = [r \in Readers |-> [pc |-> "idle", node |-> NULL]]
-----------------------------------------------------------------------------
\* The nodes linked at level l.
Linked(l) == {n \in Keys : \E m \in Nodes : next[m][l] = n}

\* FindGreaterOrEqual of the writer, which nobody disturbs: the last node
\* before k at every level.
Prev(k, l) == Max({head_} \union {n \in Linked(l) : n < k})

\* Insert: RandomHeight, and the new height of the list.
InsertStart(k, height) ==
  /\ insert = << >> /\ k \notin Linked(1)
  /\ insert' = <<[key |-> k, height |-> height, done |-> 0,
                  prev |-> [l \in 1..height |-> Prev(k, l)]]>>
  /\ max_height' = Max({max_height, height})
  /\ UNCHANGED <<next, iter>>

\* Faulty variant: the upper levels are linked first.
LevelFromTop(i) == i.height - i.done

\* The levels are linked from the bottom up.
LevelToLink(i) == i.done + 1

\* NoBarrier_SetNext of the new node, then SetNext of the one before.
InsertLink ==
  /\ insert # << >>
  /\ LET i == insert[1]
         l == LevelToLink(i)
         p == i.prev[l]
     IN /\ next' = [next EXCEPT ![i.key][l] = next[p][l], ![p][l] = i.key]
        /\ insert' = IF i.done + 1 = i.height THEN << >>
                     ELSE <<[i EXCEPT !.done = @ + 1]>>
  /\ UNCHANGED <<max_height, iter>>
-----------------------------------------------------------------------------
(* Iterators: Seek, Prev and SeekToLast search, Next and SeekToFirst do not *)

\* FindGreaterOrEqual(k), FindLessThan(k), FindLast: does the search go on from
\* the node n it has reached?
Passes(op, k, n) ==
  n # NULL /\ CASE op = "seek" -> n < k
                [] op = "prev" -> n < k
                [] op = "last" -> TRUE

\* The search begins at the head, at a height that may be out of date.
Search(r, op, k) ==
  /\ iter[r].pc = "idle"
  /\ op = "prev" => iter[r].node = k
  /\ \E height \in 1..max_height :
       iter' = [iter EXCEPT ![r] = [pc |-> "search", op |-> op, key |-> k,
                                    node |-> head_, level |-> height]]
  /\ UNCHANGED <<next, max_height, insert>>

\* One round of the loop: read a pointer, follow it or go down.
Step(r) ==
  /\ iter[r].pc = "search"
  /\ LET s == iter[r]
         n == next[s.node][s.level]
         found == IF s.op = "seek" THEN n
                  ELSE IF s.node = head_ THEN NULL ELSE s.node
     IN iter' = [iter EXCEPT ![r] =
          IF Passes(s.op, s.key, n) THEN [s EXCEPT !.node = n]
          ELSE IF s.level > 1 THEN [s EXCEPT !.level = @ - 1]
          ELSE [pc |-> "idle", node |-> found]]
  /\ UNCHANGED <<next, max_height, insert>>

\* Next from a valid position, or SeekToFirst.
Follow(r, from) ==
  /\ iter[r].pc = "idle"
  /\ from \in {head_, iter[r].node} \ {NULL}
  /\ iter' = [iter EXCEPT ![r].node = next[from][1]]
  /\ UNCHANGED <<next, max_height, insert>>

Next ==
  \/ \E k \in Keys, height \in Heights : InsertStart(k, height)
  \/ InsertLink
  \/ \E r \in Readers :
       \/ \E k \in Keys, op \in {"seek", "prev", "last"} : Search(r, op, k)
       \/ Step(r)
       \/ \E from \in Nodes : Follow(r, from)

Spec == Init /\ [][Next]_vars
-----------------------------------------------------------------------------
\* A search or a step of an iterator answers as an ordered set would that holds
\* the keys linked at the lowest level at that moment, however many searches
\* and links of other levels are under way.  Node::Next: the acquire load
\* observes a fully initialized node, no reader follows a link never set.
ReadIsExact(r) ==
  LET s == iter[r]
      after(k)  == Min({NULL} \union {n \in Linked(1) : n > k})
      before(k) == Max({0} \union {n \in Linked(1) : n < k})
      orNone(n) == IF n = 0 THEN NULL ELSE n
      got == iter'[r].node
  IN /\ got # Uninitialized
     /\ iter'[r].pc = "idle" =>
       IF s.pc = "idle" THEN got \in {after(head_), after(s.node)}
       ELSE got = CASE s.op = "seek" -> after(s.key - 1)
                    [] s.op = "prev" -> orNone(before(s.key))
                    [] s.op = "last" -> orNone(before(NULL))

ReadsAreExact == [][\A r \in Readers : iter'[r] # iter[r] => ReadIsExact(r)]_vars
=============================================================================
