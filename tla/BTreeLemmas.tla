----------------------------- MODULE BTreeLemmas -----------------------------
(***************************************************************************)
(* What the operators of BTree compute, for every tree without duplicate   *)
(* keys, and what a search tree is: nodes whose links agree, whose leaves  *)
(* are on one level and whose keys lie between bounds.                     *)
(*                                                                         *)
(* Every change the tree makes to its nodes is one of six - a split, a     *)
(* merge, a new root, a root that goes, an entry replaced, entries of a    *)
(* leaf changed - and each leaves a search tree. A rotation is a merge and *)
(* a split. The first four keep the entries there are; the other two add   *)
(* one or take one away.                                                   *)
(***************************************************************************)
EXTENDS BTree, TLAPS, WellFoundedInduction, FiniteSetTheorems, SequenceTheorems

-----------------------------------------------------------------------------
(* Numbers.                                                                *)

(* A set of numbers has a least one.                                       *)
LEMMA LeastNumber ==
  ASSUME NEW T \in SUBSET Nat, T # {}
  PROVE  \E x \in T : \A y \in T : x <= y
<1>1. PICK x \in T : \A y \in T : <<y, x>> \notin OpToRel(<, Nat)
  BY NatLessThanWellFounded, WFMin, Zenon
<1>2. \A y \in T : ~ (y < x)
  BY <1>1, Zenon DEF OpToRel
<1> QED
  BY <1>2

(* What goes from each number to the next reaches all of them.            *)
LEMMA Upward ==
  ASSUME NEW N \in Nat, NEW T, 0 \in T, \A n \in 0 .. N - 1 : n \in T => n + 1 \in T
  PROVE  \A n \in 0 .. N : n \in T
<1> DEFINE Missing == {n \in 0 .. N : n \notin T}
<1>1. SUFFICES ASSUME Missing # {} PROVE FALSE
  OBVIOUS
<1>2. Missing \in SUBSET Nat
  OBVIOUS
<1>3. PICK x \in Missing : \A y \in Missing : x <= y
  <2> HIDE DEF Missing
  <2> QED
    BY <1>1, <1>2, LeastNumber
<1>4. x # 0 /\ x - 1 \in 0 .. N - 1 /\ x - 1 \notin Missing
  BY <1>3
<1> QED
  BY <1>3, <1>4

(* Min, which chooses a least element, returns it.                         *)
LEMMA MinOfNumbers ==
  ASSUME NEW T \in SUBSET Nat, T # {}
  PROVE  Min(T) \in T /\ \A y \in T : Min(T) <= y
BY LeastNumber DEF Min

(* A property of the number by which something is measured, if it can be   *)
(* false only where it is false of something smaller, is true.             *)
LEMMA ByMeasure ==
  ASSUME NEW A, NEW h \in [A -> Nat], NEW T,
         \A x \in A : (\A y \in A : h[y] < h[x] => y \in T) => x \in T
  PROVE  A \subseteq T
<1> DEFINE Missing == {h[x] : x \in A \ T}
<1>1. SUFFICES ASSUME Missing # {} PROVE FALSE
  OBVIOUS
<1>2. Missing \in SUBSET Nat
  OBVIOUS
<1>3. PICK n \in Missing : \A m \in Missing : n <= m
  <2> HIDE DEF Missing
  <2> QED
    BY <1>1, <1>2, LeastNumber
<1>4. PICK x \in A \ T : h[x] = n
  BY <1>3
<1>5. PICK y \in A : h[y] < h[x] /\ y \notin T
  BY <1>4
<1>6. h[y] \in Missing /\ h[y] \in Nat /\ h[x] \in Nat
  BY <1>5
<1>7. n <= h[y]
  <2> HIDE DEF Missing
  <2> QED
    BY <1>3, <1>6
<1> QED
  BY <1>4, <1>5, <1>6, <1>7

-----------------------------------------------------------------------------
(* A loop: a function that is a value where it stops, and that of the next *)
(* place elsewhere.                                                        *)

Loops(A, Stop, Val, Nxt, f) ==
  \A x \in A : f[x] = IF x \in Stop THEN Val[x] ELSE f[Nxt[x]]

Decreases(A, Stop, Nxt, h) ==
  /\ h \in [A -> Nat]
  /\ \A x \in A \ Stop : Nxt[x] \in A /\ h[Nxt[x]] < h[x]

(* A loop that comes closer to its end with every turn is a function: what *)
(* a recursive definition chooses exists.                                  *)
LEMMA LoopExists ==
  ASSUME NEW A, NEW Stop, NEW Val, NEW Nxt, NEW h, NEW N \in Nat,
         Decreases(A, Stop, Nxt, h), \A x \in A : h[x] <= N
  PROVE  \E f : f = [x \in A |-> IF x \in Stop THEN Val[x] ELSE f[Nxt[x]]]
<1> DEFINE Step(f, x) == IF x \in Stop THEN Val[x] ELSE f[Nxt[x]]
           Upto(n) == \E f : \A x \in A : h[x] < n => f[x] = Step(f, x)
           T == {n \in 0 .. N + 1 : Upto(n)}
<1>1. Upto(0)
  BY DEF Decreases
<1>2. ASSUME NEW n \in 0 .. N, Upto(n) PROVE Upto(n + 1)
  <2>1. PICK f : \A x \in A : h[x] < n => f[x] = Step(f, x)
    BY <1>2
  <2> DEFINE g == [x \in A |-> IF h[x] < n THEN f[x] ELSE Step(f, x)]
  <2>2. ASSUME NEW x \in A, h[x] < n + 1 PROVE g[x] = Step(g, x)
    <3>1. g[x] = Step(f, x)
      BY <2>1
    <3>2. CASE x \in Stop
      BY <3>1, <3>2
    <3>3. CASE x \notin Stop
      <4>1. Nxt[x] \in A /\ h[Nxt[x]] < h[x] /\ h[Nxt[x]] \in Nat /\ h[x] \in Nat
        BY <3>3 DEF Decreases
      <4>2. h[Nxt[x]] < n
        BY <4>1, <2>2
      <4>3. g[Nxt[x]] = f[Nxt[x]]
        BY <4>1, <4>2
      <4> QED
        BY <3>1, <3>3, <4>3
    <3> QED
      BY <3>2, <3>3
  <2> HIDE DEF g
  <2> QED
    BY <2>2
<1>3. \A n \in 0 .. N + 1 : n \in T
  <2>1. 0 \in T /\ \A n \in 0 .. N : n \in T => n + 1 \in T
    <3> HIDE DEF Upto
    <3> QED
      BY <1>1, <1>2
  <2> HIDE DEF T
  <2> QED
    BY <2>1, Upward
<1>4. PICK f : \A x \in A : h[x] < N + 1 => f[x] = Step(f, x)
  <2>1. N + 1 \in T
    BY <1>3
  <2> QED
    BY <2>1
<1>5. \A x \in A : f[x] = Step(f, x)
  BY <1>4 DEF Decreases
<1> DEFINE g == [x \in A |-> f[x]]
<1>6. ASSUME NEW x \in A PROVE Step(f, x) = Step(g, x)
  <2>1. CASE x \in Stop
    BY <2>1
  <2>2. CASE x \notin Stop
    <3>1. Nxt[x] \in A
      BY <2>2 DEF Decreases
    <3> QED
      BY <2>2, <3>1
  <2> QED
    BY <2>1, <2>2
<1>7. g = [x \in A |-> Step(g, x)]
  BY <1>5, <1>6
<1> HIDE DEF g
<1> QED
  BY <1>7

(* A loop returns the value of some place at which it stops, and one with  *)
(* every property that its turns keep.                                     *)
LEMMA LoopEnds ==
  ASSUME NEW A, NEW Stop, NEW Val, NEW Nxt, NEW h, Decreases(A, Stop, Nxt, h),
         NEW f, Loops(A, Stop, Val, Nxt, f),
         NEW Good \in SUBSET A, \A x \in Good \ Stop : Nxt[x] \in Good
  PROVE  \A x \in Good : \E y \in Good \cap Stop : f[x] = Val[y]
<1> DEFINE T == {x \in A : x \in Good => \E y \in Good \cap Stop : f[x] = Val[y]}
<1>1. ASSUME NEW x \in A, \A y \in A : h[y] < h[x] => y \in T
      PROVE  x \in T
  <2>1. CASE x \notin Good
    BY <2>1
  <2>2. CASE x \in Good /\ x \in Stop
    BY <2>2 DEF Loops
  <2>3. CASE x \in Good /\ x \notin Stop
    <3>1. Nxt[x] \in Good /\ Nxt[x] \in A /\ h[Nxt[x]] < h[x]
      BY <2>3 DEF Decreases
    <3>2. f[x] = f[Nxt[x]]
      BY <2>3 DEF Loops
    <3> QED
      BY <1>1, <3>1, <3>2
  <2> QED
    BY <2>1, <2>2, <2>3
<1>2. A \subseteq T
  <2> HIDE DEF T
  <2>1. h \in [A -> Nat]
    BY DEF Decreases
  <2> QED
    BY <1>1, <2>1, ByMeasure
<1> QED
  BY <1>2

-----------------------------------------------------------------------------
(* Search in a node.                                                       *)

(* The keys of entries are numbers that go up.                             *)
Numbered(entries) == \A i \in 1 .. Len(entries) : entries[i][1] \in Nat

Ascending(entries) ==
  \A i, j \in 1 .. Len(entries) : i < j => entries[i][1] < entries[j][1]

(* What a search comes to: the place of the key, or the place that has all *)
(* smaller ones on its left and all larger ones on its right.              *)
Searched(entries, key, r) ==
  \/ /\ r.found = TRUE
     /\ r.at \in 1 .. Len(entries) /\ entries[r.at][1] = key
  \/ /\ r.found = FALSE
     /\ r.at \in 1 .. Len(entries) + 1
     /\ \A i \in 1 .. Len(entries) :
          IF i < r.at THEN entries[i][1] < key ELSE key < entries[i][1]

Result(r) == r = [found |-> r.found, at |-> r.at]

(* In ascending keys BinarySearch finds the key, or the place it belongs   *)
(* at (List.BinarySearch as TreeNode uses it).                             *)
LEMMA BinarySearchFinds ==
  ASSUME NEW entries, Len(entries) \in Nat, Numbered(entries), Ascending(entries),
         NEW key \in Nat
  PROVE  /\ Searched(entries, key, BinarySearch(entries, key))
         /\ Result(BinarySearch(entries, key))
<1> DEFINE L == Len(entries)
           A == (1 .. L + 1) \X (0 .. L)
           k(i) == entries[i][1]
           Stop == {x \in A : x[1] > x[2] \/ k(Middle(x)) = key}
           Val == [x \in A |-> IF x[1] > x[2] THEN [found |-> FALSE, at |-> x[1]]
                               ELSE [found |-> TRUE, at |-> Middle(x)]]
           Nxt == [x \in A |-> IF k(Middle(x)) < key THEN <<Middle(x) + 1, x[2]>>
                               ELSE <<x[1], Middle(x) - 1>>]
           h == [x \in A |-> IF x[1] > x[2] THEN 0 ELSE x[2] - x[1] + 1]
           Body(x, f) ==
             IF x[1] > x[2] THEN [found |-> FALSE, at |-> x[1]]
             ELSE IF entries[Middle(x)][1] = key THEN [found |-> TRUE, at |-> Middle(x)]
             ELSE IF entries[Middle(x)][1] < key THEN f[<<Middle(x) + 1, x[2]>>]
             ELSE f[<<x[1], Middle(x) - 1>>]
           search == CHOOSE f : f = [x \in A |-> Body(x, f)]
           Good == {x \in A : /\ \A i \in 1 .. L : i < x[1] => k(i) < key
                              /\ \A i \in 1 .. L : i > x[2] => key < k(i)}
<1>1. BinarySearch(entries, key) = search[<<1, L>>]
  BY DEF BinarySearch
<1>2. ASSUME NEW x \in A
      PROVE  /\ x[1] \in 1 .. L + 1 /\ x[2] \in 0 .. L
             /\ x[1] <= x[2] => /\ Middle(x) \in x[1] .. x[2] /\ Middle(x) \in 1 .. L
                                /\ k(Middle(x)) \in Nat
  <2>1. x[1] \in 1 .. L + 1 /\ x[2] \in 0 .. L
    OBVIOUS
  <2>2. ASSUME x[1] <= x[2]
        PROVE  Middle(x) \in x[1] .. x[2]
    BY <2>1, <2>2, SMT DEF Middle
  <2> QED
    BY <2>1, <2>2 DEF Numbered
<1>3. ASSUME NEW x \in A \ Stop
      PROVE  Nxt[x] \in A /\ h[Nxt[x]] < h[x]
  <2>1. x[1] <= x[2] /\ k(Middle(x)) # key
    BY <1>2
  <2>2. Middle(x) \in x[1] .. x[2] /\ Middle(x) \in 1 .. L
    BY <1>2, <2>1
  <2>3. CASE k(Middle(x)) < key
    <3>1. Nxt[x] = <<Middle(x) + 1, x[2]>>
      BY <2>3
    <3>2. Nxt[x] \in A
      BY <1>2, <2>2, <3>1
    <3>3. h[Nxt[x]] = IF Middle(x) + 1 > x[2] THEN 0 ELSE x[2] - (Middle(x) + 1) + 1
      BY <3>1, <3>2
    <3>4. h[x] = x[2] - x[1] + 1
      BY <1>2, <2>1
    <3> QED
      BY <1>2, <2>2, <3>2, <3>3, <3>4
  <2>4. CASE ~ (k(Middle(x)) < key)
    <3>1. Nxt[x] = <<x[1], Middle(x) - 1>>
      BY <2>4
    <3>2. Nxt[x] \in A
      BY <1>2, <2>2, <3>1
    <3>3. h[Nxt[x]] = IF x[1] > Middle(x) - 1 THEN 0 ELSE Middle(x) - 1 - x[1] + 1
      BY <3>1, <3>2
    <3>4. h[x] = x[2] - x[1] + 1
      BY <1>2, <2>1
    <3> QED
      BY <1>2, <2>2, <3>2, <3>3, <3>4
  <2> QED
    BY <2>3, <2>4
<1>4. Decreases(A, Stop, Nxt, h) /\ \A x \in A : h[x] <= L
  <2>1. h \in [A -> Nat] /\ \A x \in A : h[x] <= L
    BY <1>2
  <2> HIDE DEF A, Stop, Nxt, h
  <2> QED
    BY <1>3, <2>1 DEF Decreases
<1>5. ASSUME NEW f, NEW x \in A
      PROVE  Body(x, f) = IF x \in Stop THEN Val[x] ELSE f[Nxt[x]]
  BY <1>2
<1>6. search = [x \in A |-> Body(x, search)]
  <2>1. \E f : f = [x \in A |-> IF x \in Stop THEN Val[x] ELSE f[Nxt[x]]]
    <3> HIDE DEF A, Stop, Val, Nxt, h
    <3> QED
      BY <1>4, LoopExists
  <2>2. \E f : f = [x \in A |-> Body(x, f)]
    <3> HIDE DEF A, Stop, Val, Nxt, Body
    <3>1. PICK f : f = [x \in A |-> IF x \in Stop THEN Val[x] ELSE f[Nxt[x]]]
      BY <2>1
    <3>2. f = [x \in A |-> Body(x, f)]
      BY <1>5, <3>1
    <3> QED
      BY <3>2
  <2> HIDE DEF A, Body
  <2> QED
    BY <2>2
<1>7. Loops(A, Stop, Val, Nxt, search)
  <2> HIDE DEF A, Stop, Val, Nxt, Body, search
  <2> QED
    BY <1>5, <1>6 DEF Loops
<1>8. ASSUME NEW x \in Good \ Stop
      PROVE  Nxt[x] \in Good
  <2>1. /\ x \in A \ Stop /\ x[1] <= x[2] /\ k(Middle(x)) \in Nat
        /\ Middle(x) \in x[1] .. x[2] /\ Middle(x) \in 1 .. L
    BY <1>2
  <2>2. Nxt[x] \in A
    BY <1>3, <2>1
  <2>3. CASE k(Middle(x)) < key
    <3>1. Nxt[x] = <<Middle(x) + 1, x[2]>>
      BY <2>1, <2>3
    <3>2. ASSUME NEW i \in 1 .. L, i < Middle(x) + 1
          PROVE  k(i) < key
      <4>1. k(i) \in Nat /\ (i = Middle(x) \/ k(i) < k(Middle(x)))
        BY <2>1, <3>2 DEF Ascending, Numbered
      <4> QED
        BY <2>1, <2>3, <4>1
    <3>3. Nxt[x][1] = Middle(x) + 1 /\ Nxt[x][2] = x[2]
      BY <3>1
    <3> QED
      BY <2>2, <3>2, <3>3
  <2>4. CASE ~ (k(Middle(x)) < key)
    <3>1. Nxt[x] = <<x[1], Middle(x) - 1>>
      BY <2>1, <2>4
    <3>2. key < k(Middle(x))
      BY <2>1, <2>4
    <3>3. ASSUME NEW i \in 1 .. L, i > Middle(x) - 1
          PROVE  key < k(i)
      <4>1. k(i) \in Nat /\ (i = Middle(x) \/ k(Middle(x)) < k(i))
        BY <2>1, <3>3 DEF Ascending, Numbered
      <4> QED
        BY <2>1, <3>2, <4>1
    <3>4. Nxt[x][1] = x[1] /\ Nxt[x][2] = Middle(x) - 1
      BY <3>1
    <3> QED
      BY <2>2, <3>3, <3>4
  <2> QED
    BY <2>3, <2>4
<1>9. PICK y \in Good \cap Stop : search[<<1, L>>] = Val[y]
  <2>1. <<1, L>> \in Good
    OBVIOUS
  <2>2. Good \in SUBSET A
    OBVIOUS
  <2> HIDE DEF A, Stop, Val, Nxt, h, search, Good
  <2> QED
    BY <1>4, <1>7, <1>8, <2>1, <2>2, LoopEnds
<1>10. Searched(entries, key, Val[y]) /\ Result(Val[y])
  <2>1. CASE y[1] > y[2]
    <3>1. Val[y] = [found |-> FALSE, at |-> y[1]]
      BY <2>1
    <3>2. \A i \in 1 .. L : IF i < y[1] THEN k(i) < key ELSE key < k(i)
      BY <1>2, <2>1
    <3> QED
      BY <1>2, <3>1, <3>2 DEF Searched, Result
  <2>2. CASE ~ (y[1] > y[2])
    <3>1. Val[y] = [found |-> TRUE, at |-> Middle(y)]
      BY <2>2
    <3>2. k(Middle(y)) = key /\ Middle(y) \in 1 .. L
      BY <1>2, <2>2
    <3> QED
      BY <3>1, <3>2 DEF Searched, Result
  <2> QED
    BY <2>1, <2>2
<1> QED
  BY <1>1, <1>9, <1>10

(* BinarySearchFirst returns a place in the list or the one behind it.     *)
LEMMA BinarySearchFirstFinds ==
  ASSUME NEW entries, Len(entries) \in Nat, Numbered(entries), Ascending(entries),
         NEW key \in Nat
  PROVE  /\ Result(BinarySearchFirst(entries, key))
         /\ BinarySearchFirst(entries, key).found \in BOOLEAN
         /\ BinarySearchFirst(entries, key).at \in 1 .. Len(entries) + 1
<1> DEFINE r == BinarySearch(entries, key)
<1>1. Searched(entries, key, r) /\ Result(r)
  BY BinarySearchFinds
<1>2. CASE ~ r.found
  BY <1>1, <1>2 DEF BinarySearchFirst, Searched
<1>3. CASE r.found
  <2> DEFINE T == {i \in 1 .. r.at : \A j \in i .. r.at : entries[j][1] = key}
  <2>1. r.found = TRUE /\ r.at \in 1 .. Len(entries) /\ entries[r.at][1] = key
    BY <1>1, <1>3 DEF Searched
  <2>2. r.at \in T /\ T \in SUBSET Nat
    BY <2>1
  <2>3. Min(T) \in T
    <3> HIDE DEF T
    <3> QED
      BY <2>2, MinOfNumbers
  <2>4. BinarySearchFirst(entries, key) = [r EXCEPT !.at = Min(T)]
    BY <1>3 DEF BinarySearchFirst
  <2>5. [r EXCEPT !.at = Min(T)] = [found |-> r.found, at |-> Min(T)]
    <3> HIDE DEF T, r
    <3> QED
      BY <1>1 DEF Result
  <2>6. Min(T) \in 1 .. Len(entries) + 1
    BY <2>1, <2>3
  <2> HIDE DEF T, r
  <2> QED
    BY <2>1, <2>4, <2>5, <2>6 DEF Result
<1> QED
  BY <1>2, <1>3

-----------------------------------------------------------------------------
(* Trees.                                                                  *)

(* The nodes N with the root R are nodes.                                  *)
WellTyped(N, R) ==
  /\ IsFiniteSet(DOMAIN N) /\ DOMAIN N \subseteq Nat \ {0} /\ R \in DOMAIN N
  /\ \A id \in DOMAIN N :
       /\ N[id] = Node(N[id].parentId, N[id].entries, N[id].childrenIds)
       /\ N[id].parentId \in DOMAIN N \cup {0}
       /\ N[id].entries \in Seq(UniqueEntry)
       /\ N[id].childrenIds \in Seq(DOMAIN N)

(* A node, its children and its parent.                                    *)
Connected(N, R, id) ==
  /\ IsLeaf(N[id]) \/ Len(N[id].childrenIds) = Len(N[id].entries) + 1
  /\ \A i \in 1 .. Len(N[id].childrenIds) : N[N[id].childrenIds[i]].parentId = id
  /\ id = R <=> N[id].parentId = 0
  /\ id # R => \E i \in 1 .. Len(N[N[id].parentId].childrenIds) :
                 N[N[id].parentId].childrenIds[i] = id

(* h: how far a node is above the leaves.                                  *)
Ranked(N, R, h, id) ==
  /\ h[id] <= h[R]
  /\ IsLeaf(N[id]) => h[id] = 0
  /\ \A i \in 1 .. Len(N[id].childrenIds) : h[id] = h[N[id].childrenIds[i]] + 1

(* The keys of a node lie between lo and hi, and those of its children     *)
(* between its own.                                                        *)
Ordered(N, R, lo, hi, id) ==
  /\ lo[id] < hi[id] /\ hi[id] <= hi[R]
  /\ \A i \in 1 .. Len(N[id].entries) :
       lo[id] < N[id].entries[i][1] /\ N[id].entries[i][1] < hi[id]
  /\ Ascending(N[id].entries)
  /\ \A i \in 1 .. Len(N[id].childrenIds) :
       /\ lo[N[id].childrenIds[i]] = IF i = 1 THEN lo[id] ELSE N[id].entries[i - 1][1]
       /\ hi[N[id].childrenIds[i]] = IF i = Len(N[id].childrenIds) THEN hi[id]
                                     ELSE N[id].entries[i][1]

(* A search tree, in which some nodes may have too few or too many entries. *)
SearchTree(N, R, h, lo, hi) ==
  /\ WellTyped(N, R)
  /\ h \in [DOMAIN N -> Nat] /\ lo \in [DOMAIN N -> Int] /\ hi \in [DOMAIN N -> Int]
  /\ lo[R] = -1
  /\ \A id \in DOMAIN N : Connected(N, R, id) /\ Ranked(N, R, h, id) /\ Ordered(N, R, lo, hi, id)

(* What the parts of SearchTree say of one node, put together for the      *)
(* proofs that need only this.                                             *)
LEMMA NodeFacts ==
  ASSUME NEW N, NEW R, NEW h, NEW lo, NEW hi, SearchTree(N, R, h, lo, hi),
         NEW id \in DOMAIN N
  PROVE  /\ Len(N[id].entries) \in Nat /\ Len(N[id].childrenIds) \in Nat
         /\ Numbered(N[id].entries) /\ Ascending(N[id].entries)
         /\ \A i \in 1 .. Len(N[id].entries) : N[id].entries[i] \in UniqueEntry
         /\ \A i \in 1 .. Len(N[id].childrenIds) : N[id].childrenIds[i] \in DOMAIN N
         /\ ~ IsLeaf(N[id]) => Len(N[id].childrenIds) = Len(N[id].entries) + 1
         /\ IsLeaf(N[id]) <=> Len(N[id].childrenIds) = 0
         /\ h[id] \in Nat /\ lo[id] \in Int /\ hi[id] \in Int
         /\ h[R] \in Nat /\ lo[R] = -1 /\ hi[R] \in Int /\ R \in DOMAIN N
<1>1. N[id].entries \in Seq(UniqueEntry) /\ N[id].childrenIds \in Seq(DOMAIN N)
  BY DEF SearchTree, WellTyped
<1>2. \A i \in 1 .. Len(N[id].entries) : N[id].entries[i] \in UniqueEntry
  BY <1>1
<1>3. Numbered(N[id].entries)
  BY <1>2, ParameterAssumption DEF Numbered
<1>4. Ascending(N[id].entries)
  BY DEF SearchTree, Ordered
<1>5. ~ IsLeaf(N[id]) => Len(N[id].childrenIds) = Len(N[id].entries) + 1
  BY DEF SearchTree, Connected
<1>6. IsLeaf(N[id]) <=> Len(N[id].childrenIds) = 0
  BY <1>1 DEF IsLeaf
<1>7. /\ h[id] \in Nat /\ lo[id] \in Int /\ hi[id] \in Int
      /\ h[R] \in Nat /\ lo[R] = -1 /\ hi[R] \in Int /\ R \in DOMAIN N
  BY DEF SearchTree, WellTyped
<1> QED
  BY <1>1, <1>2, <1>3, <1>4, <1>5, <1>6, <1>7

(* The child of an inner node that a search goes on with.                  *)
LEMMA SearchedChild ==
  ASSUME NEW N, NEW R, NEW h, NEW lo, NEW hi, SearchTree(N, R, h, lo, hi),
         NEW id \in DOMAIN N, ~ IsLeaf(N[id]), NEW i \in 1 .. Len(N[id].entries) + 1
  PROVE  /\ i \in 1 .. Len(N[id].childrenIds)
         /\ N[id].childrenIds[i] \in DOMAIN N
         /\ h[N[id].childrenIds[i]] < h[id]
         /\ h[id] = h[N[id].childrenIds[i]] + 1
         /\ N[N[id].childrenIds[i]].parentId = id
         /\ lo[N[id].childrenIds[i]] = IF i = 1 THEN lo[id] ELSE N[id].entries[i - 1][1]
         /\ hi[N[id].childrenIds[i]] = IF i = Len(N[id].entries) + 1 THEN hi[id]
                                       ELSE N[id].entries[i][1]
<1>1. Len(N[id].childrenIds) = Len(N[id].entries) + 1 /\ N[id].childrenIds[i] \in DOMAIN N
  BY NodeFacts
<1>2. i \in 1 .. Len(N[id].childrenIds)
  BY <1>1
<1>3. h[N[id].childrenIds[i]] \in Nat /\ h[id] \in Nat
  BY <1>1, NodeFacts
<1>4. h[id] = h[N[id].childrenIds[i]] + 1
  BY <1>2 DEF SearchTree, Ranked
<1>5. N[N[id].childrenIds[i]].parentId = id
  BY <1>2 DEF SearchTree, Connected
<1>6. /\ lo[N[id].childrenIds[i]] = IF i = 1 THEN lo[id] ELSE N[id].entries[i - 1][1]
      /\ hi[N[id].childrenIds[i]] = IF i = Len(N[id].childrenIds) THEN hi[id]
                                    ELSE N[id].entries[i][1]
  BY <1>2 DEF SearchTree, Ordered
<1> QED
  BY <1>1, <1>2, <1>3, <1>4, <1>5, <1>6

(* Where FindNodeForInsertion ends: at the key, or at a leaf it belongs to. *)
Arrives(N, lo, hi, key, r) ==
  /\ r.node \in DOMAIN N
  /\ lo[r.node] < key /\ key < hi[r.node]
  /\ Searched(N[r.node].entries, key, r)
  /\ r.found \/ IsLeaf(N[r.node])

(* FindNodeForInsertion, in a tree without duplicate keys, returns the     *)
(* place of the key or the leaf and the place it belongs at.               *)
LEMMA InsertionArrives ==
  ASSUME NEW h, NEW lo, NEW hi, SearchTree(nodes, rootNode, h, lo, hi),
         ~ allowDuplicateKeys, NEW key \in Nat, key < hi[rootNode]
  PROVE  Arrives(nodes, lo, hi, key, FindNodeForInsertion(key))
<1> DEFINE in(id) == BinarySearch(nodes[id].entries, key)
           A == DOMAIN nodes
           Stop == {id \in A : Arrived(nodes[id], in(id))}
           Val == [id \in A |-> PlaceIn(id, in(id))]
           Nxt == [id \in A |-> nodes[id].childrenIds[in(id).at]]
           Body(id, f) == IF Arrived(nodes[id], in(id)) THEN PlaceIn(id, in(id))
                          ELSE f[nodes[id].childrenIds[in(id).at]]
           descend == CHOOSE f : f = [id \in A |-> Body(id, f)]
           Good == {id \in A : lo[id] < key /\ key < hi[id]}
<1>1. FindNodeForInsertion(key) = descend[rootNode]
  BY DEF FindNodeForInsertion
<1>2. ASSUME NEW id \in A
      PROVE  Searched(nodes[id].entries, key, in(id)) /\ Result(in(id))
  BY NodeFacts, BinarySearchFinds
<1>3. ASSUME NEW id \in A \ Stop
      PROVE  /\ ~ IsLeaf(nodes[id]) /\ in(id).found = FALSE
             /\ in(id).at \in 1 .. Len(nodes[id].entries) + 1
             /\ Nxt[id] \in A /\ h[Nxt[id]] < h[id]
  <2>1. ~ IsLeaf(nodes[id]) /\ ~ in(id).found
    BY DEF Arrived
  <2>2. in(id).found = FALSE /\ in(id).at \in 1 .. Len(nodes[id].entries) + 1
    <3> HIDE DEF in
    <3> QED
      BY <1>2, <2>1 DEF Searched
  <2> QED
    BY <2>1, <2>2, SearchedChild
<1>4. /\ Decreases(A, Stop, Nxt, h) /\ h[rootNode] \in Nat
      /\ \A id \in A : h[id] <= h[rootNode]
  <2>1. h \in [A -> Nat] /\ \A id \in A : h[id] <= h[rootNode]
    BY DEF SearchTree, Ranked
  <2>2. h[rootNode] \in Nat
    BY DEF SearchTree, WellTyped
  <2> HIDE DEF A, Stop, Nxt
  <2> QED
    BY <1>3, <2>1, <2>2 DEF Decreases
<1>5. ASSUME NEW f, NEW id \in A
      PROVE  Body(id, f) = IF id \in Stop THEN Val[id] ELSE f[Nxt[id]]
  OBVIOUS
<1>6. descend = [id \in A |-> Body(id, descend)]
  <2>1. \E f : f = [id \in A |-> IF id \in Stop THEN Val[id] ELSE f[Nxt[id]]]
    <3> HIDE DEF A, Stop, Val, Nxt
    <3> QED
      BY <1>4, LoopExists
  <2>2. \E f : f = [id \in A |-> Body(id, f)]
    <3> HIDE DEF A, Stop, Val, Nxt, Body
    <3>1. PICK f : f = [id \in A |-> IF id \in Stop THEN Val[id] ELSE f[Nxt[id]]]
      BY <2>1
    <3>2. f = [id \in A |-> Body(id, f)]
      BY <1>5, <3>1
    <3> QED
      BY <3>2
  <2> HIDE DEF A, Body
  <2> QED
    BY <2>2
<1>7. Loops(A, Stop, Val, Nxt, descend)
  <2> HIDE DEF A, Stop, Val, Nxt, Body, descend
  <2> QED
    BY <1>5, <1>6 DEF Loops
<1>8. ASSUME NEW id \in Good \ Stop
      PROVE  Nxt[id] \in Good
  <2> DEFINE e == nodes[id].entries
             at == in(id).at
             child == nodes[id].childrenIds[at]
  <2>1. /\ id \in A \ Stop /\ ~ IsLeaf(nodes[id]) /\ in(id).found = FALSE
        /\ at \in 1 .. Len(e) + 1
    BY <1>3
  <2>2. /\ lo[child] = IF at = 1 THEN lo[id] ELSE e[at - 1][1]
        /\ hi[child] = IF at = Len(e) + 1 THEN hi[id] ELSE e[at][1]
        /\ child \in A
    <3>1. id \in DOMAIN nodes /\ ~ IsLeaf(nodes[id]) /\ at \in 1 .. Len(nodes[id].entries) + 1
      BY <2>1
    <3> HIDE DEF at
    <3> QED
      BY <3>1, SearchedChild
  <2>3. \A i \in 1 .. Len(e) : IF i < at THEN e[i][1] < key ELSE key < e[i][1]
    BY <1>2, <2>1 DEF Searched
  <2>4. Len(e) \in Nat
    BY NodeFacts
  <2>5. at > 1 => e[at - 1][1] < key
    BY <2>1, <2>3, <2>4
  <2>6. at < Len(e) + 1 => key < e[at][1]
    BY <2>1, <2>3, <2>4
  <2>7. lo[child] < key
    BY <2>1, <2>2, <2>5
  <2>8. key < hi[child]
    BY <2>1, <2>2, <2>6
  <2> QED
    BY <2>2, <2>7, <2>8
<1>9. PICK id \in Good \cap Stop : descend[rootNode] = Val[id]
  <2>1. rootNode \in Good
    BY NodeFacts DEF SearchTree, WellTyped
  <2>2. Good \in SUBSET A
    OBVIOUS
  <2> HIDE DEF A, Stop, Val, Nxt, descend, Good
  <2> QED
    BY <1>4, <1>7, <1>8, <2>1, <2>2, LoopEnds
<1>10. /\ id \in A /\ lo[id] < key /\ key < hi[id]
       /\ Arrived(nodes[id], in(id)) /\ Val[id] = PlaceIn(id, in(id))
  OBVIOUS
<1>11. Arrives(nodes, lo, hi, key, PlaceIn(id, in(id)))
  <2>1. Searched(nodes[id].entries, key, in(id))
    BY <1>2
  <2>2. in(id).found \/ IsLeaf(nodes[id])
    BY <1>10 DEF Arrived
  <2> HIDE DEF in
  <2> QED
    BY <1>10, <2>1, <2>2 DEF Arrives, PlaceIn, Searched
<1> QED
  BY <1>1, <1>9, <1>10, <1>11

(* The leaf, and the place in it, an iteration starts from.                *)
LeafPlace(N, r) ==
  /\ r.node \in DOMAIN N /\ IsLeaf(N[r.node])
  /\ r.at \in 1 .. Len(N[r.node].entries) + 1

(* FindNodeForIteration to the left returns a place in a leaf, or the one  *)
(* behind its last entry.                                                  *)
LEMMA IterationStarts ==
  ASSUME NEW h, NEW lo, NEW hi, SearchTree(nodes, rootNode, h, lo, hi),
         NEW key \in Nat, NEW moveLeft, moveLeft = TRUE
  PROVE  LeafPlace(nodes, FindNodeForIteration(key, moveLeft))
<1> DEFINE in(id) == IF moveLeft THEN BinarySearchFirst(nodes[id].entries, key)
                                 ELSE BinarySearchLast(nodes[id].entries, key)
           way(r) == IF r.found /\ ~ moveLeft THEN r.at + 1 ELSE r.at
           A == DOMAIN nodes
           Stop == {id \in A : IsLeaf(nodes[id])}
           Val == [id \in A |-> PlaceIn(id, in(id))]
           Nxt == [id \in A |-> nodes[id].childrenIds[way(in(id))]]
           Body(id, f) == IF IsLeaf(nodes[id]) THEN PlaceIn(id, in(id))
                          ELSE f[nodes[id].childrenIds[way(in(id))]]
           descend == CHOOSE f : f = [id \in A |-> Body(id, f)]
<1>1. FindNodeForIteration(key, moveLeft) = descend[rootNode]
  BY DEF FindNodeForIteration
<1>2. ASSUME NEW id \in A
      PROVE  in(id).at \in 1 .. Len(nodes[id].entries) + 1
  BY NodeFacts, BinarySearchFirstFinds
<1>3. ASSUME NEW id \in A \ Stop
      PROVE  Nxt[id] \in A /\ h[Nxt[id]] < h[id]
  <2>1. Nxt[id] = nodes[id].childrenIds[in(id).at]
    OBVIOUS
  <2>2. id \in DOMAIN nodes /\ ~ IsLeaf(nodes[id]) /\ in(id).at \in 1 .. Len(nodes[id].entries) + 1
    BY <1>2
  <2> HIDE DEF in, Nxt
  <2> QED
    BY <2>1, <2>2, SearchedChild
<1>4. /\ Decreases(A, Stop, Nxt, h) /\ h[rootNode] \in Nat
      /\ \A id \in A : h[id] <= h[rootNode]
  <2>1. h \in [A -> Nat] /\ \A id \in A : h[id] <= h[rootNode]
    BY DEF SearchTree, Ranked
  <2>2. h[rootNode] \in Nat
    BY DEF SearchTree, WellTyped
  <2> HIDE DEF A, Stop, Nxt
  <2> QED
    BY <1>3, <2>1, <2>2 DEF Decreases
<1>5. ASSUME NEW f, NEW id \in A
      PROVE  Body(id, f) = IF id \in Stop THEN Val[id] ELSE f[Nxt[id]]
  OBVIOUS
<1>6. descend = [id \in A |-> Body(id, descend)]
  <2>1. \E f : f = [id \in A |-> IF id \in Stop THEN Val[id] ELSE f[Nxt[id]]]
    <3> HIDE DEF A, Stop, Val, Nxt
    <3> QED
      BY <1>4, LoopExists
  <2>2. \E f : f = [id \in A |-> Body(id, f)]
    <3> HIDE DEF A, Stop, Val, Nxt, Body
    <3>1. PICK f : f = [id \in A |-> IF id \in Stop THEN Val[id] ELSE f[Nxt[id]]]
      BY <2>1
    <3>2. f = [id \in A |-> Body(id, f)]
      BY <1>5, <3>1
    <3> QED
      BY <3>2
  <2> HIDE DEF A, Body
  <2> QED
    BY <2>2
<1>7. Loops(A, Stop, Val, Nxt, descend)
  <2> HIDE DEF A, Stop, Val, Nxt, Body, descend
  <2> QED
    BY <1>5, <1>6 DEF Loops
<1>8. PICK id \in A \cap Stop : descend[rootNode] = Val[id]
  <2>1. rootNode \in A
    BY DEF SearchTree, WellTyped
  <2> HIDE DEF A, Stop, Val, Nxt, descend
  <2>2. \A x \in A \ Stop : Nxt[x] \in A
    BY <1>3
  <2> QED
    BY <1>4, <1>7, <2>1, <2>2, LoopEnds
<1>9. LeafPlace(nodes, PlaceIn(id, in(id)))
  BY <1>2 DEF LeafPlace, PlaceIn
<1> QED
  BY <1>1, <1>8, <1>9

(* The rightmost leaf below a node.  What holds of the node and goes from  *)
(* a node to its last child holds of it.                                   *)
LEMMA LargestIsLeaf ==
  ASSUME NEW h, NEW lo, NEW hi, SearchTree(nodes, rootNode, h, lo, hi),
         NEW Good \in SUBSET DOMAIN nodes,
         \A id \in Good : ~ IsLeaf(nodes[id]) => Last(nodes[id].childrenIds) \in Good,
         NEW top \in Good
  PROVE  FindLargest(top) \in Good /\ IsLeaf(nodes[FindLargest(top)])
<1> DEFINE A == DOMAIN nodes
           Stop == {id \in A : IsLeaf(nodes[id])}
           Val == [id \in A |-> id]
           Nxt == [id \in A |-> Last(nodes[id].childrenIds)]
           Body(x, f) == IF IsLeaf(nodes[x]) THEN x ELSE f[Last(nodes[x].childrenIds)]
           descend == CHOOSE f : f = [x \in A |-> Body(x, f)]
<1>1. FindLargest(top) = descend[top]
  BY DEF FindLargest
<1>2. ASSUME NEW id \in A \ Stop
      PROVE  Nxt[id] \in A /\ h[Nxt[id]] < h[id]
  <2>1. id \in DOMAIN nodes /\ ~ IsLeaf(nodes[id])
    OBVIOUS
  <2>2. /\ Len(nodes[id].entries) \in Nat
        /\ Len(nodes[id].childrenIds) = Len(nodes[id].entries) + 1
    BY <2>1, NodeFacts
  <2>3. Nxt[id] = nodes[id].childrenIds[Len(nodes[id].entries) + 1]
    BY <2>2 DEF Last
  <2> HIDE DEF Nxt
  <2> QED
    BY <2>1, <2>2, <2>3, SearchedChild
<1>4. /\ Decreases(A, Stop, Nxt, h) /\ h[rootNode] \in Nat
      /\ \A id \in A : h[id] <= h[rootNode]
  <2>1. h \in [A -> Nat] /\ \A id \in A : h[id] <= h[rootNode]
    BY DEF SearchTree, Ranked
  <2>2. h[rootNode] \in Nat
    BY DEF SearchTree, WellTyped
  <2> HIDE DEF A, Stop, Nxt
  <2> QED
    BY <1>2, <2>1, <2>2 DEF Decreases
<1>5. ASSUME NEW f, NEW id \in A
      PROVE  Body(id, f) = IF id \in Stop THEN Val[id] ELSE f[Nxt[id]]
  OBVIOUS
<1>6. descend = [id \in A |-> Body(id, descend)]
  <2>1. \E f : f = [id \in A |-> IF id \in Stop THEN Val[id] ELSE f[Nxt[id]]]
    <3> HIDE DEF A, Stop, Val, Nxt
    <3> QED
      BY <1>4, LoopExists
  <2>2. \E f : f = [id \in A |-> Body(id, f)]
    <3> HIDE DEF A, Stop, Val, Nxt, Body
    <3>1. PICK f : f = [id \in A |-> IF id \in Stop THEN Val[id] ELSE f[Nxt[id]]]
      BY <2>1
    <3>2. f = [id \in A |-> Body(id, f)]
      BY <1>5, <3>1
    <3> QED
      BY <3>2
  <2> HIDE DEF A, Body
  <2> QED
    BY <2>2
<1>7. Loops(A, Stop, Val, Nxt, descend)
  <2> HIDE DEF A, Stop, Val, Nxt, Body, descend
  <2> QED
    BY <1>5, <1>6 DEF Loops
<1>8. PICK id \in Good \cap Stop : descend[top] = Val[id]
  <2>1. \A x \in Good \ Stop : Nxt[x] \in Good
    OBVIOUS
  <2>2. Good \in SUBSET A
    OBVIOUS
  <2> HIDE DEF A, Stop, Val, Nxt, descend
  <2> QED
    BY <1>4, <1>7, <2>1, <2>2, LoopEnds
<1>9. id \in A /\ IsLeaf(nodes[id]) /\ Val[id] = id
  OBVIOUS
<1> QED
  BY <1>1, <1>8, <1>9

(* IndexInParent finds a node among the children of its parent, and the    *)
(* parent is one level higher.                                             *)
LEMMA PlaceInParent ==
  ASSUME NEW N, NEW R, NEW h, NEW lo, NEW hi, SearchTree(N, R, h, lo, hi),
         NEW id \in DOMAIN N, N[id].parentId # 0
  PROVE  /\ N[id].parentId \in DOMAIN N /\ id # R
         /\ IndexInParent(N, id) \in 1 .. Len(N[N[id].parentId].childrenIds)
         /\ N[N[id].parentId].childrenIds[IndexInParent(N, id)] = id
         /\ ~ IsLeaf(N[N[id].parentId])
         /\ h[N[id].parentId] = h[id] + 1
<1> DEFINE p == N[id].parentId
           ids == N[p].childrenIds
           T == {i \in 1 .. Len(ids) : ids[i] = id}
<1>1. p \in DOMAIN N
  BY DEF SearchTree, WellTyped
<1>2. id # R /\ \E i \in 1 .. Len(ids) : ids[i] = id
  BY DEF SearchTree, Connected
<1>3. IndexInParent(N, id) = Min(T)
  BY DEF IndexInParent
<1>4. Min(T) \in T
  <2>1. T # {} /\ T \in SUBSET Nat
    BY <1>2
  <2> HIDE DEF T
  <2> QED
    BY <2>1, MinOfNumbers
<1>5. /\ IndexInParent(N, id) \in 1 .. Len(ids)
      /\ ids[IndexInParent(N, id)] = id
  BY <1>3, <1>4
<1>6. ~ IsLeaf(N[p]) /\ Len(ids) = Len(N[p].entries) + 1
  <2>1. Len(ids) \in Nat /\ (IsLeaf(N[p]) <=> Len(ids) = 0)
    BY <1>1, NodeFacts
  <2>2. ~ IsLeaf(N[p])
    BY <1>5, <2>1
  <2> QED
    BY <1>1, <2>2, NodeFacts
<1>7. h[p] = h[id] + 1
  <2> DEFINE i == IndexInParent(N, id)
  <2>1. i \in 1 .. Len(N[p].entries) + 1
    BY <1>5, <1>6
  <2> HIDE DEF i, p
  <2>2. h[p] = h[N[p].childrenIds[i]] + 1
    BY <1>1, <1>6, <2>1, SearchedChild
  <2> QED
    BY <1>5, <2>2 DEF i, p
<1> QED
  BY <1>1, <1>2, <1>5, <1>6, <1>7

(* An entry of the tree, by its node and its place there.                  *)
ValidCursor(N, c) == c.node \in DOMAIN N /\ c.entry \in 1 .. Len(N[c.node].entries)

(* From a place in a leaf an iteration goes on to an entry, or to the end. *)
LEMMA MoveForwardArrives ==
  ASSUME NEW h, NEW lo, NEW hi, SearchTree(nodes, rootNode, h, lo, hi),
         \A id \in DOMAIN nodes : Len(nodes[id].entries) <= 2 * MinEntriesPerNode + 1,
         NEW c, c = [node |-> c.node, entry |-> c.entry],
         c.node \in DOMAIN nodes, IsLeaf(nodes[c.node]),
         c.entry \in 0 .. Len(nodes[c.node].entries)
  PROVE  MoveForward(c) = End \/ ValidCursor(nodes, MoveForward(c))
<1> DEFINE A == Cursor
           Stop == {d \in A : d.entry <= Len(nodes[d.node].entries) \/ nodes[d.node].parentId = 0}
           Val == [d \in A |-> IF d.entry <= Len(nodes[d.node].entries) THEN d ELSE End]
           Nxt == [d \in A |-> [node |-> nodes[d.node].parentId,
                                entry |-> IndexInParent(nodes, d.node)]]
           m == [d \in A |-> h[rootNode] - h[d.node]]
           Body(d, f) == IF d.entry <= Len(nodes[d.node].entries) THEN d
                         ELSE IF nodes[d.node].parentId = 0 THEN End
                         ELSE f[[node |-> nodes[d.node].parentId,
                                 entry |-> IndexInParent(nodes, d.node)]]
           up == CHOOSE f : f = [d \in A |-> Body(d, f)]
           Good == {d \in A : d.entry >= 1}
           first == [node |-> c.node, entry |-> c.entry + 1]
<1>1. MoveForward(c) = up[first]
  <2>1. MoveForward(c) = up[[c EXCEPT !.entry = @ + 1]]
    BY DEF MoveForward
  <2>2. [c EXCEPT !.entry = @ + 1] = first
    OBVIOUS
  <2> HIDE DEF up, first
  <2> QED
    BY <2>1, <2>2
<1>2. /\ MinEntriesPerNode \in Nat
      /\ \A d \in A : /\ d.node \in DOMAIN nodes /\ d.entry \in Nat
                      /\ d.entry <= 2 * MinEntriesPerNode + 2
                      /\ Len(nodes[d.node].entries) \in Nat
  BY ParameterAssumption, NodeFacts DEF Cursor
<1>3. ASSUME NEW d \in A, nodes[d.node].parentId # 0
      PROVE  Nxt[d] \in A /\ m[Nxt[d]] < m[d] /\ Nxt[d].entry >= 1
  <2> DEFINE p == nodes[d.node].parentId
             i == IndexInParent(nodes, d.node)
  <2>1. d.node \in DOMAIN nodes
    BY <1>2
  <2>2. /\ p \in DOMAIN nodes /\ i \in 1 .. Len(nodes[p].childrenIds)
        /\ ~ IsLeaf(nodes[p]) /\ h[p] = h[d.node] + 1
    BY <1>3, <2>1, PlaceInParent
  <2>3. /\ Len(nodes[p].childrenIds) = Len(nodes[p].entries) + 1
        /\ Len(nodes[p].entries) \in Nat /\ h[p] \in Nat /\ h[rootNode] \in Nat
    BY <2>2, NodeFacts
  <2>4. i \in 0 .. 2 * MinEntriesPerNode + 2 /\ i >= 1
    BY SMTT(30), <1>2, <2>2, <2>3
  <2>5. [node |-> p, entry |-> i] \in Cursor
    <3> HIDE DEF p, i
    <3> QED
      BY <2>2, <2>4 DEF Cursor
  <2>6. h[d.node] \in Nat
    BY <2>1, NodeFacts
  <2> QED
    BY SMTT(30), <2>2, <2>3, <2>4, <2>5, <2>6
<1>4. ASSUME NEW d \in A
      PROVE  m[d] \in Nat /\ m[d] <= h[rootNode]
  <2>1. d.node \in DOMAIN nodes
    BY <1>2
  <2>2. h[d.node] \in Nat /\ h[rootNode] \in Nat /\ h[d.node] <= h[rootNode]
    BY <2>1, NodeFacts DEF SearchTree, Ranked
  <2> QED
    BY <2>2
<1>5. /\ Decreases(A, Stop, Nxt, m) /\ h[rootNode] \in Nat
      /\ \A d \in A : m[d] <= h[rootNode]
  <2>1. \A d \in A \ Stop : nodes[d.node].parentId # 0
    OBVIOUS
  <2>2. m \in [A -> Nat]
    BY <1>4
  <2>3. h[rootNode] \in Nat
    BY DEF SearchTree, WellTyped
  <2> HIDE DEF A, Stop, Nxt, m
  <2> QED
    BY <1>3, <1>4, <2>1, <2>2, <2>3 DEF Decreases
<1>6. ASSUME NEW f, NEW d \in A
      PROVE  Body(d, f) = IF d \in Stop THEN Val[d] ELSE f[Nxt[d]]
  OBVIOUS
<1>7. up = [d \in A |-> Body(d, up)]
  <2>1. \E f : f = [d \in A |-> IF d \in Stop THEN Val[d] ELSE f[Nxt[d]]]
    <3> HIDE DEF A, Stop, Val, Nxt, m
    <3> QED
      BY SMTT(30), <1>5, LoopExists
  <2>2. \E f : f = [d \in A |-> Body(d, f)]
    <3> HIDE DEF A, Stop, Val, Nxt, Body
    <3>1. PICK f : f = [d \in A |-> IF d \in Stop THEN Val[d] ELSE f[Nxt[d]]]
      BY <2>1
    <3>2. f = [d \in A |-> Body(d, f)]
      BY <1>6, <3>1
    <3> QED
      BY <3>2
  <2> HIDE DEF A, Body
  <2> QED
    BY <2>2
<1>8. Loops(A, Stop, Val, Nxt, up)
  <2> HIDE DEF A, Stop, Val, Nxt, Body, up
  <2> QED
    BY <1>6, <1>7 DEF Loops
<1>9. PICK d \in Good \cap Stop : up[first] = Val[d]
  <2>1. first \in Good
    <3>1. Len(nodes[c.node].entries) \in Nat
      BY NodeFacts
    <3>2. c.entry + 1 \in 0 .. 2 * MinEntriesPerNode + 2 /\ c.entry + 1 >= 1
      BY <1>2, <3>1
    <3> QED
      BY <3>2 DEF Cursor
  <2>2. Good \in SUBSET A
    OBVIOUS
  <2>3. \A x \in Good \ Stop : Nxt[x] \in Good
    <3>1. \A x \in Good \ Stop : x \in A /\ nodes[x.node].parentId # 0
      OBVIOUS
    <3>2. \A x \in A : x \in Good <=> x.entry >= 1
      OBVIOUS
    <3> HIDE DEF A, Stop, Good, Nxt, m
    <3> QED
      BY <1>3, <3>1, <3>2
  <2> HIDE DEF A, Stop, Val, Nxt, up, Good, first, m
  <2> QED
    BY <1>5, <1>8, <2>1, <2>2, <2>3, LoopEnds
<1>10. Val[d] = End \/ ValidCursor(nodes, Val[d])
  BY <1>2 DEF ValidCursor
<1> QED
  BY <1>1, <1>9, <1>10

-----------------------------------------------------------------------------
(* Where keys are.                                                         *)

(* The bounds of a child are within the bounds of its parent.              *)
LEMMA Within ==
  ASSUME NEW N, NEW R, NEW h, NEW lo, NEW hi, SearchTree(N, R, h, lo, hi),
         NEW id \in DOMAIN N, ~ IsLeaf(N[id]), NEW i \in 1 .. Len(N[id].entries) + 1
  PROVE  lo[id] <= lo[N[id].childrenIds[i]] /\ hi[N[id].childrenIds[i]] <= hi[id]
<1> DEFINE e == N[id].entries
           child == N[id].childrenIds[i]
<1>1. /\ lo[child] = IF i = 1 THEN lo[id] ELSE e[i - 1][1]
      /\ hi[child] = IF i = Len(e) + 1 THEN hi[id] ELSE e[i][1]
  BY SearchedChild
<1>2. Len(e) \in Nat /\ lo[id] \in Int /\ hi[id] \in Int /\ Numbered(e)
  BY NodeFacts
<1>3. \A j \in 1 .. Len(e) : lo[id] < e[j][1] /\ e[j][1] < hi[id] /\ e[j][1] \in Nat
  BY <1>2 DEF SearchTree, Ordered, Numbered
<1> HIDE DEF e, child
<1>4. i > 1 => lo[id] < e[i - 1][1] /\ e[i - 1][1] \in Nat
  <2>1. i \in 1 .. Len(e) + 1
    BY DEF e
  <2> QED
    BY <1>2, <1>3, <2>1
<1>5. i < Len(e) + 1 => e[i][1] < hi[id] /\ e[i][1] \in Nat
  <2>1. i \in 1 .. Len(e) + 1
    BY DEF e
  <2> QED
    BY <1>2, <1>3, <2>1
<1>6. i \in 1 .. Len(e) + 1
  BY DEF e
<1>7. lo[id] <= lo[child]
  BY <1>1, <1>2, <1>4, <1>6
<1>8. hi[child] <= hi[id]
  BY <1>1, <1>2, <1>5, <1>6
<1> QED
  BY <1>7, <1>8 DEF child

(* The children of a node are different ones: their ranges begin at        *)
(* different keys.                                                         *)
LEMMA ChildrenDiffer ==
  ASSUME NEW N, NEW R, NEW h, NEW lo, NEW hi, SearchTree(N, R, h, lo, hi),
         NEW id \in DOMAIN N
  PROVE  \A i, j \in 1 .. Len(N[id].childrenIds) :
           N[id].childrenIds[i] = N[id].childrenIds[j] => i = j
<1> DEFINE e == N[id].entries
           ids == N[id].childrenIds
<1>1. /\ Len(e) \in Nat /\ lo[id] \in Int /\ Ascending(e) /\ Len(ids) \in Nat
      /\ Numbered(e)
      /\ ~ IsLeaf(N[id]) => Len(ids) = Len(e) + 1
  BY NodeFacts
<1>2. \A i \in 1 .. Len(e) : lo[id] < e[i][1] /\ e[i][1] \in Nat
  BY <1>1 DEF SearchTree, Ordered, Numbered
<1>3. ASSUME NEW i \in 1 .. Len(ids), NEW j \in 1 .. Len(ids), i < j
      PROVE  ids[i] # ids[j]
  <2>1. ~ IsLeaf(N[id]) /\ i \in 1 .. Len(e) + 1 /\ j \in 1 .. Len(e) + 1
    <3>1. ~ IsLeaf(N[id])
      BY <1>1, NodeFacts
    <3> QED
      BY <1>1, <3>1
  <2>2. lo[ids[i]] = IF i = 1 THEN lo[id] ELSE e[i - 1][1]
    BY <2>1, SearchedChild
  <2>3. lo[ids[j]] = IF j = 1 THEN lo[id] ELSE e[j - 1][1]
    BY <2>1, SearchedChild
  <2>4. j # 1 /\ j - 1 \in 1 .. Len(e)
    BY <1>1, <1>3, <2>1
  <2>5. CASE i = 1
    BY <1>2, <2>2, <2>3, <2>4, <2>5
  <2>6. CASE i # 1
    <3>1. i - 1 \in 1 .. Len(e) /\ i - 1 < j - 1
      BY <1>1, <1>3, <2>1, <2>6
    <3>2. e[i - 1][1] < e[j - 1][1] /\ e[i - 1][1] \in Nat /\ e[j - 1][1] \in Nat
      <4> HIDE DEF e
      <4> QED
        BY <1>1, <1>2, <2>4, <3>1 DEF Ascending
    <3> QED
      BY <2>2, <2>3, <2>4, <2>6, <3>2
  <2> QED
    BY <2>5, <2>6
<1>4. \A i, j \in 1 .. Len(ids) : i < j \/ j < i \/ i = j
  BY <1>1
<1> QED
  BY <1>3, <1>4

(* A node but the root is the child of its parent.                         *)
LEMMA IsChild ==
  ASSUME NEW N, NEW R, NEW h, NEW lo, NEW hi, SearchTree(N, R, h, lo, hi),
         NEW id \in DOMAIN N, id # R
  PROVE  /\ N[id].parentId # 0 /\ N[id].parentId \in DOMAIN N
         /\ ~ IsLeaf(N[N[id].parentId])
         /\ h[N[id].parentId] = h[id] + 1
         /\ lo[N[id].parentId] <= lo[id] /\ hi[id] <= hi[N[id].parentId]
         /\ \E i \in 1 .. Len(N[N[id].parentId].entries) + 1 :
              N[N[id].parentId].childrenIds[i] = id
<1> DEFINE p == N[id].parentId
           i == IndexInParent(N, id)
<1>1. p # 0
  BY DEF SearchTree, Connected
<1>2. /\ p \in DOMAIN N /\ i \in 1 .. Len(N[p].childrenIds) /\ N[p].childrenIds[i] = id
      /\ ~ IsLeaf(N[p]) /\ h[p] = h[id] + 1
  BY <1>1, PlaceInParent
<1>3. Len(N[p].childrenIds) = Len(N[p].entries) + 1
  BY <1>2, NodeFacts
<1> HIDE DEF p, i
<1>4. i \in 1 .. Len(N[p].entries) + 1
  BY <1>2, <1>3
<1>5. lo[p] <= lo[N[p].childrenIds[i]] /\ hi[N[p].childrenIds[i]] <= hi[p]
  BY <1>2, <1>4, Within
<1>6. lo[p] <= lo[id] /\ hi[id] <= hi[p]
  BY <1>2, <1>5
<1> QED
  BY <1>1, <1>2, <1>4, <1>6 DEF p

(* Two nodes at the same height have their keys in different ranges.       *)
LEMMA Apart ==
  ASSUME NEW N, NEW R, NEW h, NEW lo, NEW hi, SearchTree(N, R, h, lo, hi)
  PROVE  \A a, b \in DOMAIN N : a # b /\ h[a] = h[b] => hi[a] <= lo[b] \/ hi[b] <= lo[a]
<1> DEFINE A == DOMAIN N
           m == [a \in A |-> h[R] - h[a]]
           Far(a, b) == hi[a] <= lo[b] \/ hi[b] <= lo[a]
           T == {a \in A : \A b \in A : a # b /\ h[a] = h[b] => Far(a, b)}
<1>1. \A a \in A : h[a] \in Nat /\ h[a] <= h[R] /\ lo[a] \in Int /\ hi[a] \in Int
  BY NodeFacts DEF SearchTree, Ranked
<1>2. h[R] \in Nat /\ R \in A
  BY DEF SearchTree, WellTyped
<1>3. m \in [A -> Nat]
  BY <1>1, <1>2
<1>4. ASSUME NEW a \in A, \A p \in A : m[p] < m[a] => p \in T
      PROVE  a \in T
  <2> SUFFICES ASSUME NEW b \in A, a # b, h[a] = h[b]
               PROVE  Far(a, b)
    OBVIOUS
  <2>1. a # R
    <3> SUFFICES ASSUME a = R PROVE FALSE
      OBVIOUS
    <3>1. N[b].parentId \in A /\ h[N[b].parentId] = h[b] + 1
      BY IsChild
    <3> QED
      BY <1>1, <1>2, <3>1
  <2>2. b # R
    <3> SUFFICES ASSUME b = R PROVE FALSE
      OBVIOUS
    <3>1. N[a].parentId \in A /\ h[N[a].parentId] = h[a] + 1
      BY IsChild
    <3> QED
      BY <1>1, <1>2, <3>1
  <2> DEFINE p == N[a].parentId
             q == N[b].parentId
             e == N[p].entries
             ids == N[p].childrenIds
  <2>3. /\ p \in A /\ ~ IsLeaf(N[p]) /\ h[p] = h[a] + 1 /\ lo[p] <= lo[a] /\ hi[a] <= hi[p]
        /\ \E i \in 1 .. Len(e) + 1 : ids[i] = a
    BY <2>1, IsChild
  <2>4. /\ q \in A /\ h[q] = h[b] + 1 /\ lo[q] <= lo[b] /\ hi[b] <= hi[q]
        /\ \E i \in 1 .. Len(N[q].entries) + 1 : N[q].childrenIds[i] = b
    BY <2>2, IsChild
  <2>5. CASE p # q
    <3>1. m[p] < m[a]
      BY <1>1, <1>2, <2>3
    <3>2. Far(p, q)
      <4> HIDE DEF p, q, m, Far
      <4>1. p \in T
        BY <1>4, <2>3, <3>1
      <4>2. h[p] = h[q]
        BY <2>3, <2>4
      <4> QED
        BY <2>3, <2>4, <2>5, <4>1, <4>2
    <3>3. /\ lo[p] \in Int /\ hi[p] \in Int /\ lo[q] \in Int /\ hi[q] \in Int
          /\ lo[a] \in Int /\ hi[a] \in Int /\ lo[b] \in Int /\ hi[b] \in Int
      BY <1>1, <2>3, <2>4
    <3> HIDE DEF p, q
    <3> QED
      BY SMTT(30), <2>3, <2>4, <3>2, <3>3
  <2>6. CASE p = q
    <3>1. PICK i \in 1 .. Len(e) + 1 : ids[i] = a
      BY <2>3
    <3>2. PICK j \in 1 .. Len(e) + 1 : ids[j] = b
      BY <2>4, <2>6
    <3>3. Len(e) \in Nat /\ Numbered(e) /\ Ascending(e)
      BY <2>3, NodeFacts
    <3>4. /\ lo[a] = IF i = 1 THEN lo[p] ELSE e[i - 1][1]
          /\ hi[a] = IF i = Len(e) + 1 THEN hi[p] ELSE e[i][1]
      <4> HIDE DEF p
      <4> QED
        BY <2>3, <3>1, SearchedChild
    <3>5. /\ lo[b] = IF j = 1 THEN lo[p] ELSE e[j - 1][1]
          /\ hi[b] = IF j = Len(e) + 1 THEN hi[p] ELSE e[j][1]
      <4>1. N[p].childrenIds[j] = b
        BY <3>2
      <4> HIDE DEF p, q
      <4>2. /\ lo[N[p].childrenIds[j]] = IF j = 1 THEN lo[p] ELSE e[j - 1][1]
            /\ hi[N[p].childrenIds[j]] = IF j = Len(e) + 1 THEN hi[p] ELSE e[j][1]
        BY <2>3, SearchedChild
      <4> QED
        BY <4>1, <4>2
    <3>6. \A x, y \in 1 .. Len(e) : x <= y => e[x][1] <= e[y][1]
      <4> HIDE DEF e
      <4> QED
        BY <3>3 DEF Numbered, Ascending
    <3> HIDE DEF p, q, e, ids
    <3>7. i # j
      BY <3>1, <3>2
    <3>8. CASE i < j
      <4>1. i \in 1 .. Len(e) /\ j - 1 \in 1 .. Len(e) /\ i <= j - 1
        BY <3>3, <3>8
      <4>2. e[i][1] <= e[j - 1][1]
        BY <3>6, <4>1
      <4> QED
        BY <3>3, <3>4, <3>5, <4>1, <4>2
    <3>9. CASE j < i
      <4>1. j \in 1 .. Len(e) /\ i - 1 \in 1 .. Len(e) /\ j <= i - 1
        BY <3>3, <3>9
      <4>2. e[j][1] <= e[i - 1][1]
        BY <3>6, <4>1
      <4> QED
        BY <3>3, <3>4, <3>5, <4>1, <4>2
    <3> QED
      BY <3>3, <3>7, <3>8, <3>9
  <2> QED
    BY <2>5, <2>6
<1>5. A \subseteq T
  <2> HIDE DEF A, T, m
  <2> QED
    BY <1>3, <1>4, ByMeasure
<1> QED
  BY <1>5

(* The keys of a node lie in the range of no node below it.                *)
LEMMA KeysApart ==
  ASSUME NEW N, NEW R, NEW h, NEW lo, NEW hi, SearchTree(N, R, h, lo, hi)
  PROVE  \A b, a \in DOMAIN N : h[b] < h[a] =>
           \A i \in 1 .. Len(N[a].entries) : ~ (lo[b] < N[a].entries[i][1] /\ N[a].entries[i][1] < hi[b])
<1> DEFINE A == DOMAIN N
           m == [b \in A |-> h[R] - h[b]]
           Outside(b, a) == \A i \in 1 .. Len(N[a].entries) :
                              ~ (lo[b] < N[a].entries[i][1] /\ N[a].entries[i][1] < hi[b])
           T == {b \in A : \A a \in A : h[b] < h[a] => Outside(b, a)}
<1>1. \A a \in A : h[a] \in Nat /\ h[a] <= h[R] /\ lo[a] \in Int /\ hi[a] \in Int
  BY NodeFacts DEF SearchTree, Ranked
<1>2. h[R] \in Nat /\ R \in A
  BY DEF SearchTree, WellTyped
<1>3. m \in [A -> Nat]
  BY <1>1, <1>2
<1>4. ASSUME NEW b \in A, \A p \in A : m[p] < m[b] => p \in T
      PROVE  b \in T
  <2> SUFFICES ASSUME NEW a \in A, h[b] < h[a]
               PROVE  Outside(b, a)
    OBVIOUS
  <2> DEFINE p == N[b].parentId
             e == N[a].entries
  <2>1. b # R
    BY <1>1, <1>2
  <2>2. /\ p \in A /\ ~ IsLeaf(N[p]) /\ h[p] = h[b] + 1 /\ lo[p] <= lo[b] /\ hi[b] <= hi[p]
        /\ \E i \in 1 .. Len(N[p].entries) + 1 : N[p].childrenIds[i] = b
    BY <2>1, IsChild
  <2>3. Len(e) \in Nat /\ Numbered(e) /\ Ascending(e)
    BY NodeFacts
  <2>4. \A i \in 1 .. Len(e) : lo[a] < e[i][1] /\ e[i][1] < hi[a] /\ e[i][1] \in Nat
    BY <2>3 DEF SearchTree, Ordered, Numbered
  <2>5. m[p] < m[b]
    BY <1>1, <1>2, <2>2
  <2>6. CASE h[p] < h[a]
    <3>1. Outside(p, a)
      <4> HIDE DEF p, m, Outside
      <4>1. p \in T
        BY <1>4, <2>2, <2>5
      <4> QED
        BY <2>6, <4>1
    <3>2. lo[p] \in Int /\ hi[p] \in Int /\ lo[b] \in Int /\ hi[b] \in Int
      BY <1>1, <2>2
    <3>3. lo[a] \in Int /\ hi[a] \in Int
      BY <1>1
    <3> HIDE DEF p
    <3> QED
      BY <2>2, <2>4, <3>1, <3>2, <3>3
  <2>7. CASE h[p] = h[a] /\ p # a
    <3>1. hi[p] <= lo[a] \/ hi[a] <= lo[p]
      <4> HIDE DEF p
      <4> QED
        BY <2>2, <2>7, Apart
    <3>2. lo[p] \in Int /\ hi[p] \in Int /\ lo[b] \in Int /\ hi[b] \in Int
      BY <1>1, <2>2
    <3>3. lo[a] \in Int /\ hi[a] \in Int
      BY <1>1
    <3> HIDE DEF p
    <3> QED
      BY SMTT(30), <2>2, <2>4, <3>1, <3>2, <3>3
  <2>8. CASE p = a
    <3>1. PICK j \in 1 .. Len(e) + 1 : N[a].childrenIds[j] = b
      BY <2>2, <2>8
    <3>2. /\ lo[b] = IF j = 1 THEN lo[a] ELSE e[j - 1][1]
          /\ hi[b] = IF j = Len(e) + 1 THEN hi[a] ELSE e[j][1]
      BY SMTT(30), <2>2, <2>8, <3>1, SearchedChild
    <3>3. \A x, y \in 1 .. Len(e) : x <= y => e[x][1] <= e[y][1]
      BY <2>3 DEF Numbered, Ascending
    <3>4. ASSUME NEW i \in 1 .. Len(e)
          PROVE  ~ (lo[b] < e[i][1] /\ e[i][1] < hi[b])
      <4>1. CASE i < j
        <5>1. j - 1 \in 1 .. Len(e) /\ i <= j - 1 /\ j # 1
          BY <2>3, <4>1
        <5>2. e[i][1] <= e[j - 1][1]
          BY <3>3, <5>1
        <5> QED
          BY <2>4, <3>2, <5>1, <5>2
      <4>2. CASE ~ (i < j)
        <5>1. j \in 1 .. Len(e) /\ j <= i /\ j # Len(e) + 1
          BY <2>3, <4>2
        <5>2. e[j][1] <= e[i][1]
          BY <3>3, <5>1
        <5> QED
          BY <2>4, <3>2, <5>1, <5>2
      <4> QED
        BY <4>1, <4>2
    <3> QED
      BY <3>4
  <2>9. h[p] < h[a] \/ h[p] = h[a]
    <3>1. h[b] \in Nat /\ h[a] \in Nat
      BY <1>1
    <3> HIDE DEF p
    <3> QED
      BY <2>2, <3>1
  <2> QED
    BY <2>6, <2>7, <2>8, <2>9
<1>5. A \subseteq T
  <2> HIDE DEF A, T, m
  <2> QED
    BY <1>3, <1>4, ByMeasure
<1> QED
  BY <1>5

(* A key is in one place of the tree.                                      *)
LEMMA KeysUnique ==
  ASSUME NEW N, NEW R, NEW h, NEW lo, NEW hi, SearchTree(N, R, h, lo, hi),
         NEW a \in DOMAIN N, NEW i \in 1 .. Len(N[a].entries),
         NEW b \in DOMAIN N, NEW j \in 1 .. Len(N[b].entries),
         N[a].entries[i][1] = N[b].entries[j][1]
  PROVE  a = b /\ i = j
<1> DEFINE k == N[a].entries[i][1]
<1>1. /\ h[a] \in Nat /\ h[b] \in Nat /\ lo[a] \in Int /\ hi[a] \in Int /\ lo[b] \in Int
      /\ hi[b] \in Int /\ k \in Nat
  BY NodeFacts DEF Numbered
<1>2. lo[a] < k /\ k < hi[a] /\ lo[b] < k /\ k < hi[b]
  BY SMTT(30) DEF SearchTree, Ordered
<1>3. ~ (h[a] < h[b])
  BY <1>2, KeysApart
<1>4. ~ (h[b] < h[a])
  BY <1>2, KeysApart
<1>5. a = b
  <2> SUFFICES ASSUME a # b PROVE FALSE
    OBVIOUS
  <2>1. hi[a] <= lo[b] \/ hi[b] <= lo[a]
    BY <1>1, <1>3, <1>4, Apart
  <2> QED
    BY SMTT(30), <1>1, <1>2, <2>1
<1>6. i = j
  <2>1. Ascending(N[a].entries) /\ Len(N[a].entries) \in Nat
    BY NodeFacts
  <2>2. j \in 1 .. Len(N[a].entries) /\ N[a].entries[j][1] = k
    BY <1>5
  <2>3. ~ (i < j) /\ ~ (j < i)
    BY <1>1, <2>1, <2>2 DEF Ascending
  <2> QED
    BY <2>1, <2>2, <2>3
<1> QED
  BY <1>5, <1>6

-----------------------------------------------------------------------------
(* A node, "id", is split at its entry "s": what is right of it becomes    *)
(* the node "new", and the entry goes to the place "k" of the parent.      *)

Typed(N2) ==
  \A x \in DOMAIN N2 :
    /\ N2[x] = Node(N2[x].parentId, N2[x].entries, N2[x].childrenIds)
    /\ N2[x].entries \in Seq(UniqueEntry)
    /\ N2[x].childrenIds \in Seq(DOMAIN N2)

SplitParents(N, N2, id, s, new) ==
  /\ N2[new].parentId = N[id].parentId
  /\ \A x \in DOMAIN N : N2[x].parentId =
       IF \E i \in s + 1 .. Len(N[id].childrenIds) : N[id].childrenIds[i] = x
         THEN new ELSE N[x].parentId

SplitEntries(N, N2, id, s, k, new) ==
  LET p == N[id].parentId
      e == N[id].entries IN
  /\ Len(N2[id].entries) = s - 1 /\ \A i \in 1 .. s - 1 : N2[id].entries[i] = e[i]
  /\ Len(N2[new].entries) = Len(e) - s
  /\ \A i \in 1 .. Len(e) - s : N2[new].entries[i] = e[s + i]
  /\ Len(N2[p].entries) = Len(N[p].entries) + 1
  /\ \A i \in 1 .. Len(N[p].entries) + 1 :
       N2[p].entries[i] = IF i < k THEN N[p].entries[i] ELSE IF i = k THEN e[s]
                          ELSE N[p].entries[i - 1]
  /\ \A x \in DOMAIN N \ {id, p} : N2[x].entries = N[x].entries

SplitChildren(N, N2, id, s, k, new) ==
  LET p == N[id].parentId
      ids == N[id].childrenIds IN
  /\ Len(N2[id].childrenIds) = IF IsLeaf(N[id]) THEN 0 ELSE s
  /\ \A i \in 1 .. Len(N2[id].childrenIds) : N2[id].childrenIds[i] = ids[i]
  /\ Len(N2[new].childrenIds) = IF IsLeaf(N[id]) THEN 0 ELSE Len(ids) - s
  /\ \A i \in 1 .. Len(N2[new].childrenIds) : N2[new].childrenIds[i] = ids[s + i]
  /\ Len(N2[p].childrenIds) = Len(N[p].childrenIds) + 1
  /\ \A i \in 1 .. Len(N[p].childrenIds) + 1 :
       N2[p].childrenIds[i] = IF i <= k THEN N[p].childrenIds[i] ELSE IF i = k + 1 THEN new
                              ELSE N[p].childrenIds[i - 1]
  /\ \A x \in DOMAIN N \ {id, p} : N2[x].childrenIds = N[x].childrenIds

SplitOf(N, N2, id, s, k, new) ==
  /\ DOMAIN N2 = DOMAIN N \cup {new} /\ Typed(N2)
  /\ SplitParents(N, N2, id, s, new)
  /\ SplitEntries(N, N2, id, s, k, new)
  /\ SplitChildren(N, N2, id, s, k, new)

(* Where it may be split.                                                  *)
MayBeSplit(N, R, id, s, k, new) ==
  /\ id \in DOMAIN N \ {R} /\ s \in 1 .. Len(N[id].entries)
  /\ k \in 1 .. Len(N[N[id].parentId].entries) + 1
  /\ N[N[id].parentId].childrenIds[k] = id
  /\ new \in Nat \ {0} /\ new \notin DOMAIN N

SplitHeights(N, h, id, new) == [x \in DOMAIN N \cup {new} |-> IF x = new THEN h[id] ELSE h[x]]
SplitLower(N, lo, id, s, new) ==
  [x \in DOMAIN N \cup {new} |-> IF x = new THEN N[id].entries[s][1] ELSE lo[x]]
SplitUpper(N, hi, id, s, new) ==
  [x \in DOMAIN N \cup {new} |-> IF x = new THEN hi[id]
                                ELSE IF x = id THEN N[id].entries[s][1] ELSE hi[x]]

(* What is known before a split, of the node, its parent and the rest.     *)
LEMMA SplitConnected ==
  ASSUME NEW N, NEW R, NEW h, NEW lo, NEW hi, SearchTree(N, R, h, lo, hi),
         NEW id, NEW s, NEW k, NEW new, MayBeSplit(N, R, id, s, k, new),
         NEW N2, SplitOf(N, N2, id, s, k, new), NEW x \in DOMAIN N2
  PROVE  Connected(N2, R, x)
<1> DEFINE p == N[id].parentId
           ids == N[id].childrenIds
           pids == N[p].childrenIds
           L == Len(N[id].entries)
           P == Len(N[p].entries)
           Moved(c) == \E i \in s + 1 .. Len(ids) : ids[i] = c
<1>1. /\ id \in DOMAIN N /\ id # R /\ s \in 1 .. L /\ k \in 1 .. P + 1 /\ pids[k] = id
      /\ new # 0 /\ new \notin DOMAIN N
  BY DEF MayBeSplit
<1>2. /\ p # 0 /\ p \in DOMAIN N /\ ~ IsLeaf(N[p]) /\ h[p] = h[id] + 1
  BY <1>1, IsChild
<1>3. p # id
  <2>1. h[id] \in Nat
    BY <1>1, NodeFacts
  <2> QED
    BY <1>2, <2>1
<1>4. /\ L \in Nat /\ P \in Nat /\ Len(ids) \in Nat /\ Len(pids) = P + 1
      /\ ~ IsLeaf(N[id]) => Len(ids) = L + 1
      /\ IsLeaf(N[id]) => Len(ids) = 0
      /\ \A i \in 1 .. Len(ids) : ids[i] \in DOMAIN N
      /\ \A i \in 1 .. Len(pids) : pids[i] \in DOMAIN N
  BY <1>1, <1>2, NodeFacts
<1>5. DOMAIN N2 = DOMAIN N \cup {new} /\ R \in DOMAIN N /\ 0 \notin DOMAIN N
  BY DEF SplitOf, SearchTree, WellTyped
<1>6. /\ N2[new].parentId = p
      /\ \A c \in DOMAIN N : N2[c].parentId = IF Moved(c) THEN new ELSE N[c].parentId
  BY DEF SplitOf, SplitParents
<1>7. /\ Len(N2[id].entries) = s - 1 /\ Len(N2[new].entries) = L - s
      /\ Len(N2[p].entries) = P + 1
      /\ \A c \in DOMAIN N \ {id, p} : N2[c].entries = N[c].entries
  BY DEF SplitOf, SplitEntries
<1>8. /\ Len(N2[id].childrenIds) = IF IsLeaf(N[id]) THEN 0 ELSE s
      /\ \A i \in 1 .. Len(N2[id].childrenIds) : N2[id].childrenIds[i] = ids[i]
      /\ Len(N2[new].childrenIds) = IF IsLeaf(N[id]) THEN 0 ELSE Len(ids) - s
      /\ \A i \in 1 .. Len(N2[new].childrenIds) : N2[new].childrenIds[i] = ids[s + i]
      /\ Len(N2[p].childrenIds) = P + 2
      /\ \A i \in 1 .. P + 2 :
           N2[p].childrenIds[i] = IF i <= k THEN pids[i] ELSE IF i = k + 1 THEN new ELSE pids[i - 1]
      /\ \A c \in DOMAIN N \ {id, p} : N2[c].childrenIds = N[c].childrenIds
  <2>1. SplitChildren(N, N2, id, s, k, new)
    BY DEF SplitOf
  <2>2. Len(pids) + 1 = P + 2
    BY <1>4
  <2> QED
    BY <2>1, <2>2 DEF SplitChildren
<1>9. \A c \in DOMAIN N :
        /\ IsLeaf(N[c]) \/ Len(N[c].childrenIds) = Len(N[c].entries) + 1
        /\ Len(N[c].childrenIds) \in Nat
        /\ \A i, j \in 1 .. Len(N[c].childrenIds) :
             N[c].childrenIds[i] = N[c].childrenIds[j] => i = j
        /\ \A i \in 1 .. Len(N[c].childrenIds) : N[c].childrenIds[i] \in DOMAIN N
                                                /\ N[N[c].childrenIds[i]].parentId = c
        /\ c = R <=> N[c].parentId = 0
        /\ c # R => /\ N[c].parentId \in DOMAIN N
                    /\ \E i \in 1 .. Len(N[N[c].parentId].childrenIds) :
                         N[N[c].parentId].childrenIds[i] = c
  <2> TAKE c \in DOMAIN N
  <2>1. /\ \A i \in 1 .. Len(N[c].childrenIds) : N[c].childrenIds[i] \in DOMAIN N
        /\ Len(N[c].childrenIds) \in Nat
    BY NodeFacts
  <2>2. Connected(N, R, c) /\ N[c].parentId \in DOMAIN N \cup {0}
    BY DEF SearchTree, WellTyped
  <2>3. \A i, j \in 1 .. Len(N[c].childrenIds) :
          N[c].childrenIds[i] = N[c].childrenIds[j] => i = j
    BY ChildrenDiffer
  <2> QED
    BY <2>1, <2>2, <2>3 DEF Connected
<1>10. \A c \in DOMAIN N2 : Len(N2[c].childrenIds) \in Nat /\ (IsLeaf(N2[c]) <=> Len(N2[c].childrenIds) = 0)
  <2> TAKE c \in DOMAIN N2
  <2>1. N2[c].childrenIds \in Seq(DOMAIN N2)
    BY DEF SplitOf, Typed
  <2> QED
    BY <2>1 DEF IsLeaf
<1>11. /\ \A c : Moved(c) => N[c].parentId = id /\ c \in DOMAIN N
       /\ ~ Moved(id) /\ ~ Moved(p) /\ N[p].parentId # p /\ N[p].parentId # id
  <2>1. \A c : Moved(c) => N[c].parentId = id /\ c \in DOMAIN N
    BY SMTT(30), <1>1, <1>4, <1>9
  <2>2. N[p].parentId # 0 => h[N[p].parentId] = h[p] + 1
    BY <1>2, PlaceInParent
  <2>3. h[p] \in Nat /\ h[id] \in Nat
    BY <1>1, <1>2, NodeFacts
  <2>4. N[p].parentId # p /\ N[p].parentId # id
    BY <1>1, <1>2, <1>5, <2>2, <2>3
  <2> QED
    BY <1>3, <2>1, <2>4
<1> HIDE DEF p, ids, pids, L, P
<1> DEFINE LeafOrLong == IsLeaf(N2[x]) \/ Len(N2[x].childrenIds) = Len(N2[x].entries) + 1
           Children == \A i \in 1 .. Len(N2[x].childrenIds) : N2[N2[x].childrenIds[i]].parentId = x
           RootOrNot == x = R <=> N2[x].parentId = 0
           Listed == x # R => \E i \in 1 .. Len(N2[N2[x].parentId].childrenIds) :
                               N2[N2[x].parentId].childrenIds[i] = x
<1>12. CASE x = id
  <2>1. x \in DOMAIN N2 /\ N2[x].parentId = p
    BY <1>1, <1>6, <1>11, <1>12 DEF p
  <2>2. LeafOrLong
    BY <1>1, <1>4, <1>7, <1>8, <1>10, <1>12
  <2>3. Children
    <3> SUFFICES ASSUME NEW i \in 1 .. Len(N2[id].childrenIds)
                 PROVE  N2[N2[id].childrenIds[i]].parentId = id
      BY <1>12
    <3>1. /\ N2[id].childrenIds[i] = ids[i] /\ i \in 1 .. Len(ids) /\ i <= s
      BY SMTT(30), <1>1, <1>4, <1>8
    <3>2. ids[i] \in DOMAIN N /\ N[ids[i]].parentId = id
      BY <1>1, <1>9, <3>1 DEF ids
    <3>3. ~ Moved(ids[i])
      <4>1. \A j \in 1 .. Len(ids) : ids[j] = ids[i] => j = i
        BY <1>1, <1>9, <3>1 DEF ids
      <4> QED
        BY SMTT(30), <1>1, <1>4, <3>1, <4>1
    <3> HIDE DEF Moved
    <3> QED
      BY <1>6, <3>1, <3>2, <3>3
  <2>4. RootOrNot
    BY <1>1, <1>2, <1>12, <2>1
  <2>5. Listed
    <3>1. k \in 1 .. P + 2 /\ N2[p].childrenIds[k] = id
      BY <1>1, <1>4, <1>8
    <3> QED
      BY <1>8, <1>12, <2>1, <3>1
  <2> QED
    BY <2>2, <2>3, <2>4, <2>5 DEF Connected
<1>13. CASE x = new
  <2>5. Len(N2[new].childrenIds) = IF IsLeaf(N[id]) THEN 0 ELSE L + 1 - s
    <3>1. Len(N2[new].childrenIds) = IF IsLeaf(N[id]) THEN 0 ELSE Len(ids) - s
      BY <1>8
    <3>2. ~ IsLeaf(N[id]) => Len(ids) = L + 1
      BY <1>4
    <3>3. CASE IsLeaf(N[id])
      BY <3>1, <3>3
    <3>4. CASE ~ IsLeaf(N[id])
      BY <1>1, <1>4, <3>1, <3>2, <3>4
    <3> QED
      BY <3>3, <3>4
  <2>1. LeafOrLong
    <3>1. IsLeaf(N2[new]) <=> Len(N2[new].childrenIds) = 0
      BY <1>10, <1>13
    <3>2. Len(N2[new].entries) = L - s
      BY <1>7
    <3> QED
      BY <1>1, <1>4, <1>13, <2>5, <3>1, <3>2
  <2>2. Children
    <3> SUFFICES ASSUME NEW i \in 1 .. Len(N2[new].childrenIds)
                 PROVE  N2[N2[new].childrenIds[i]].parentId = new
      BY <1>13
    <3>1. N2[new].childrenIds[i] = ids[s + i] /\ s + i \in s + 1 .. Len(ids)
      <4>1. ~ IsLeaf(N[id]) /\ i \in 1 .. L + 1 - s /\ Len(ids) = L + 1
        BY <1>1, <1>4, <2>5
      <4>2. N2[new].childrenIds[i] = ids[s + i]
        BY <1>8
      <4> QED
        BY <1>1, <1>4, <4>1, <4>2
    <3>2. Moved(ids[s + i])
      BY <3>1
    <3>3. ids[s + i] \in DOMAIN N
      BY <1>11, <3>2
    <3> HIDE DEF Moved
    <3> QED
      BY <1>6, <3>1, <3>2, <3>3
  <2>3. RootOrNot
    BY <1>1, <1>2, <1>5, <1>6, <1>13
  <2>4. Listed
    <3>1. k + 1 \in 1 .. P + 2 /\ N2[p].childrenIds[k + 1] = new
      BY <1>1, <1>4, <1>8
    <3> QED
      BY <1>6, <1>8, <1>13, <3>1
  <2> QED
    BY <2>1, <2>2, <2>3, <2>4 DEF Connected
<1>14. CASE x = p
  <2>1. LeafOrLong
    BY <1>4, <1>7, <1>8, <1>14
  <2>2. Children
    <3> SUFFICES ASSUME NEW i \in 1 .. P + 2
                 PROVE  N2[N2[p].childrenIds[i]].parentId = p
      BY <1>8, <1>14
    <3>1. N2[p].childrenIds[i] = IF i <= k THEN pids[i] ELSE IF i = k + 1 THEN new ELSE pids[i - 1]
      BY <1>8
    <3>2. ASSUME NEW j \in 1 .. P + 1
          PROVE  N2[pids[j]].parentId = p
      <4>1. pids[j] \in DOMAIN N /\ N[pids[j]].parentId = p
        BY <1>2, <1>4, <1>9 DEF pids
      <4>2. ~ Moved(pids[j])
        BY <1>3, <1>11, <4>1
      <4> HIDE DEF Moved
      <4> QED
        BY <1>6, <4>1, <4>2
    <3>3. i <= k => i \in 1 .. P + 1
      BY <1>1, <1>4
    <3>4. i > k + 1 => i - 1 \in 1 .. P + 1
      BY <1>1, <1>4
    <3>5. k \in Nat
      BY <1>1, <1>4
    <3> QED
      BY <1>6, <3>1, <3>2, <3>3, <3>4, <3>5
  <2>3. N2[p].parentId = N[p].parentId
    BY <1>2, <1>6, <1>11
  <2>4. RootOrNot
    BY <1>2, <1>9, <1>14, <2>3
  <2>5. Listed
    <3> SUFFICES ASSUME p # R
                 PROVE  \E i \in 1 .. Len(N2[N2[p].parentId].childrenIds) :
                          N2[N2[p].parentId].childrenIds[i] = p
      BY <1>14
    <3> DEFINE q == N[p].parentId
    <3>1. q \in DOMAIN N \ {id, p} /\ \E i \in 1 .. Len(N[q].childrenIds) : N[q].childrenIds[i] = p
      BY <1>2, <1>9, <1>11
    <3>2. N2[q].childrenIds = N[q].childrenIds
      BY <1>8, <3>1
    <3> QED
      BY <2>3, <3>1, <3>2
  <2> QED
    BY <2>1, <2>2, <2>4, <2>5 DEF Connected
<1>15. CASE x \notin {id, new, p}
  <2>1. /\ x \in DOMAIN N /\ N2[x].childrenIds = N[x].childrenIds
        /\ N2[x].entries = N[x].entries
    BY <1>5, <1>7, <1>8, <1>15
  <2>2. LeafOrLong
    BY <1>9, <2>1 DEF IsLeaf
  <2>3. Children
    <3> SUFFICES ASSUME NEW i \in 1 .. Len(N[x].childrenIds)
                 PROVE  N2[N[x].childrenIds[i]].parentId = x
      BY <2>1
    <3>1. N[x].childrenIds[i] \in DOMAIN N /\ N[N[x].childrenIds[i]].parentId = x
      BY <1>9, <2>1
    <3>2. ~ Moved(N[x].childrenIds[i])
      BY <1>11, <1>15, <3>1
    <3> HIDE DEF Moved
    <3> QED
      BY <1>6, <3>1, <3>2
  <2>4. CASE Moved(x)
    <3>1. N2[x].parentId = new /\ N[x].parentId = id
      BY <1>6, <1>11, <2>1, <2>4
    <3>2. RootOrNot
      BY <1>1, <1>5, <1>9, <2>1, <3>1
    <3>3. PICK i \in s + 1 .. Len(ids) : ids[i] = x
      BY <2>4
    <3>4. /\ ~ IsLeaf(N[id]) /\ i - s \in 1 .. Len(N2[new].childrenIds)
          /\ N2[new].childrenIds[i - s] = x
      <4>1. ~ IsLeaf(N[id]) /\ Len(ids) = L + 1
        BY <1>1, <1>4, <3>3
      <4>2. i - s \in 1 .. Len(ids) - s /\ s + (i - s) = i
        BY <1>1, <1>4, <3>3
      <4> QED
        BY <1>8, <3>3, <4>1, <4>2
    <3>5. Listed
      BY <3>1, <3>4
    <3> QED
      BY <2>2, <2>3, <3>2, <3>5 DEF Connected
  <2>5. CASE ~ Moved(x)
    <3> DEFINE q == N[x].parentId
    <3>1. N2[x].parentId = q
      BY <1>6, <2>1, <2>5
    <3>2. RootOrNot
      BY <1>9, <2>1, <3>1
    <3>3. ASSUME x # R
          PROVE  \E i \in 1 .. Len(N2[q].childrenIds) : N2[q].childrenIds[i] = x
      <4>1. PICK i \in 1 .. Len(N[q].childrenIds) : N[q].childrenIds[i] = x
        BY <1>9, <2>1, <3>3
      <4>2. q \in DOMAIN N
        BY <1>9, <2>1, <3>3
      <4>3. CASE q = id
        <5>1. i \in 1 .. Len(ids) /\ ids[i] = x /\ i <= s
          <6>1. i \in 1 .. Len(ids) /\ ids[i] = x
            BY <4>1, <4>3 DEF ids
          <6> QED
            BY <1>1, <1>4, <2>5, <6>1
        <5>2. i \in 1 .. Len(N2[id].childrenIds)
          BY <1>1, <1>4, <1>8, <5>1
        <5>3. N2[id].childrenIds[i] = ids[i]
          BY <1>8, <5>2
        <5> QED
          BY <4>3, <5>1, <5>2, <5>3
      <4>4. CASE q = p
        <5>1. i \in 1 .. P + 1 /\ pids[i] = x
          BY <1>4, <4>1, <4>4 DEF pids
        <5>2. CASE i <= k
          <6>1. i \in 1 .. P + 2 /\ N2[p].childrenIds[i] = x
            BY <1>4, <1>8, <5>1, <5>2
          <6> QED
            BY <1>8, <4>4, <6>1
        <5>3. CASE ~ (i <= k)
          <6>1. i + 1 \in 1 .. P + 2 /\ i + 1 > k + 1 /\ (i + 1) - 1 = i
            BY <1>1, <1>4, <5>1, <5>3
          <6>2. k \in Nat /\ i \in Nat
            BY <1>1, <1>4
          <6>3. N2[p].childrenIds[i + 1] = x
            BY <1>8, <5>1, <6>1, <6>2
          <6> QED
            BY <1>8, <4>4, <6>1, <6>3
        <5> QED
          BY <5>2, <5>3
      <4>5. CASE q # id /\ q # p
        <5>1. N2[q].childrenIds = N[q].childrenIds
          BY <1>8, <4>2, <4>5
        <5> QED
          BY <4>1, <5>1
      <4> QED
        BY <4>3, <4>4, <4>5
    <3>4. Listed
      BY <3>1, <3>3
    <3> QED
      BY <2>2, <2>3, <3>2, <3>4 DEF Connected
  <2> QED
    BY <2>4, <2>5
<1> QED
  BY <1>5, <1>12, <1>13, <1>14, <1>15

(* After a split the leaves are on one level again.                        *)
LEMMA SplitRanked ==
  ASSUME NEW N, NEW R, NEW h, NEW lo, NEW hi, SearchTree(N, R, h, lo, hi),
         NEW id, NEW s, NEW k, NEW new, MayBeSplit(N, R, id, s, k, new),
         NEW N2, SplitOf(N, N2, id, s, k, new), NEW x \in DOMAIN N2
  PROVE  Ranked(N2, R, SplitHeights(N, h, id, new), x)
<1> DEFINE p == N[id].parentId
           ids == N[id].childrenIds
           pids == N[p].childrenIds
           L == Len(N[id].entries)
           P == Len(N[p].entries)
<1>1. /\ id \in DOMAIN N /\ id # R /\ s \in 1 .. L /\ k \in 1 .. P + 1 /\ pids[k] = id
      /\ new # 0 /\ new \notin DOMAIN N
  BY DEF MayBeSplit
<1>2. /\ p # 0 /\ p \in DOMAIN N /\ ~ IsLeaf(N[p]) /\ h[p] = h[id] + 1
  BY <1>1, IsChild
<1>3. p # id
  <2>1. h[id] \in Nat
    BY <1>1, NodeFacts
  <2> QED
    BY <1>2, <2>1
<1>4. /\ L \in Nat /\ P \in Nat /\ Len(ids) \in Nat /\ Len(pids) = P + 1
      /\ ~ IsLeaf(N[id]) => Len(ids) = L + 1
      /\ IsLeaf(N[id]) => Len(ids) = 0
      /\ \A i \in 1 .. Len(ids) : ids[i] \in DOMAIN N
      /\ \A i \in 1 .. Len(pids) : pids[i] \in DOMAIN N
  BY <1>1, <1>2, NodeFacts
<1>5. DOMAIN N2 = DOMAIN N \cup {new} /\ R \in DOMAIN N /\ 0 \notin DOMAIN N
  BY DEF SplitOf, SearchTree, WellTyped
<1>7. /\ Len(N2[id].entries) = s - 1 /\ Len(N2[new].entries) = L - s
      /\ Len(N2[p].entries) = P + 1
      /\ \A c \in DOMAIN N \ {id, p} : N2[c].entries = N[c].entries
  BY DEF SplitOf, SplitEntries
<1>8. /\ Len(N2[id].childrenIds) = IF IsLeaf(N[id]) THEN 0 ELSE s
      /\ \A i \in 1 .. Len(N2[id].childrenIds) : N2[id].childrenIds[i] = ids[i]
      /\ Len(N2[new].childrenIds) = IF IsLeaf(N[id]) THEN 0 ELSE Len(ids) - s
      /\ \A i \in 1 .. Len(N2[new].childrenIds) : N2[new].childrenIds[i] = ids[s + i]
      /\ Len(N2[p].childrenIds) = P + 2
      /\ \A i \in 1 .. P + 2 :
           N2[p].childrenIds[i] = IF i <= k THEN pids[i] ELSE IF i = k + 1 THEN new ELSE pids[i - 1]
      /\ \A c \in DOMAIN N \ {id, p} : N2[c].childrenIds = N[c].childrenIds
  <2>1. SplitChildren(N, N2, id, s, k, new)
    BY DEF SplitOf
  <2>2. Len(pids) + 1 = P + 2
    BY <1>4
  <2> QED
    BY <2>1, <2>2 DEF SplitChildren
<1>10. \A c \in DOMAIN N2 : IsLeaf(N2[c]) <=> Len(N2[c].childrenIds) = 0
  <2> TAKE c \in DOMAIN N2
  <2>1. N2[c].childrenIds \in Seq(DOMAIN N2)
    BY DEF SplitOf, Typed
  <2> QED
    BY <2>1 DEF IsLeaf
<1>11. \A c \in DOMAIN N :
         /\ h[c] <= h[R] /\ h[c] \in Nat
         /\ IsLeaf(N[c]) => h[c] = 0
         /\ \A i \in 1 .. Len(N[c].childrenIds) : /\ N[c].childrenIds[i] \in DOMAIN N
                                                 /\ h[c] = h[N[c].childrenIds[i]] + 1
  <2> TAKE c \in DOMAIN N
  <2>1. h[c] \in Nat /\ \A i \in 1 .. Len(N[c].childrenIds) : N[c].childrenIds[i] \in DOMAIN N
    BY NodeFacts
  <2>2. Ranked(N, R, h, c)
    BY DEF SearchTree
  <2> QED
    BY <2>1, <2>2 DEF Ranked
<1> DEFINE g == SplitHeights(N, h, id, new)
<1>12. g[new] = h[id] /\ \A c \in DOMAIN N : g[c] = h[c]
  BY <1>1 DEF SplitHeights
<1> HIDE DEF g, p, ids, pids, L, P
<1>13. CASE x = id
  <2>1. g[id] <= g[R]
    BY <1>1, <1>5, <1>11, <1>12
  <2>2. ASSUME IsLeaf(N2[id]) PROVE g[id] = 0
    <3>1. Len(N2[id].childrenIds) = 0
      BY <1>1, <1>5, <1>10, <2>2
    <3>2. IsLeaf(N[id])
      BY <1>1, <1>4, <1>8, <3>1
    <3> QED
      BY <1>1, <1>11, <1>12, <3>2
  <2>3. ASSUME NEW i \in 1 .. Len(N2[id].childrenIds)
        PROVE  g[id] = g[N2[id].childrenIds[i]] + 1
    <3>1. N2[id].childrenIds[i] = ids[i] /\ i \in 1 .. Len(ids)
      BY <1>1, <1>4, <1>8
    <3>2. ids[i] \in DOMAIN N /\ h[id] = h[ids[i]] + 1
      BY <1>1, <1>11, <3>1 DEF ids
    <3> QED
      BY <1>1, <1>12, <3>1, <3>2
  <2> QED
    BY <1>13, <2>1, <2>2, <2>3 DEF Ranked, g
<1>14. CASE x = new
  <2>1. g[new] <= g[R]
    BY <1>1, <1>5, <1>11, <1>12
  <2>2. ASSUME IsLeaf(N2[new]) PROVE g[new] = 0
    <3>1. Len(N2[new].childrenIds) = 0
      BY <1>5, <1>10, <2>2
    <3>2. IsLeaf(N[id])
      BY <1>1, <1>4, <1>8, <3>1
    <3> QED
      BY <1>1, <1>11, <1>12, <3>2
  <2>3. ASSUME NEW i \in 1 .. Len(N2[new].childrenIds)
        PROVE  g[new] = g[N2[new].childrenIds[i]] + 1
    <3>1. N2[new].childrenIds[i] = ids[s + i]
      BY <1>8
    <3>2. s + i \in 1 .. Len(ids)
      <4>1. ~ IsLeaf(N[id])
        BY <1>8
      <4>2. Len(N2[new].childrenIds) = Len(ids) - s
        BY <1>8, <4>1
      <4> QED
        BY <1>1, <1>4, <4>2
    <3>3. ids[s + i] \in DOMAIN N /\ h[id] = h[ids[s + i]] + 1
      BY <1>1, <1>11, <3>2 DEF ids
    <3> QED
      BY <1>12, <3>1, <3>3
  <2> QED
    BY <1>14, <2>1, <2>2, <2>3 DEF Ranked, g
<1>15. CASE x = p
  <2>1. g[p] <= g[R]
    BY <1>2, <1>5, <1>11, <1>12
  <2>2. ~ IsLeaf(N2[p])
    BY <1>2, <1>4, <1>5, <1>8, <1>10
  <2>3. ASSUME NEW i \in 1 .. P + 2
        PROVE  g[p] = g[N2[p].childrenIds[i]] + 1
    <3>1. N2[p].childrenIds[i] = IF i <= k THEN pids[i] ELSE IF i = k + 1 THEN new ELSE pids[i - 1]
      BY <1>8
    <3>2. ASSUME NEW j \in 1 .. P + 1
          PROVE  g[p] = g[pids[j]] + 1
      <4>1. pids[j] \in DOMAIN N /\ h[p] = h[pids[j]] + 1
        BY <1>2, <1>4, <1>11 DEF pids
      <4> QED
        BY <1>2, <1>12, <4>1
    <3>3. /\ i <= k => i \in 1 .. P + 1
          /\ i > k + 1 => i - 1 \in 1 .. P + 1
          /\ k \in Nat
      BY <1>1, <1>4
    <3>4. g[p] = g[new] + 1
      BY <1>2, <1>12
    <3> QED
      BY <3>1, <3>2, <3>3, <3>4
  <2>4. Len(N2[p].childrenIds) = P + 2
    BY <1>8
  <2> QED
    BY <1>15, <2>1, <2>2, <2>3, <2>4 DEF Ranked, g
<1>16. CASE x \notin {id, new, p}
  <2>1. /\ x \in DOMAIN N /\ N2[x].childrenIds = N[x].childrenIds
    BY <1>5, <1>8, <1>16
  <2>2. g[x] <= g[R] /\ g[x] = h[x]
    BY <1>5, <1>11, <1>12, <2>1
  <2>3. IsLeaf(N2[x]) => g[x] = 0
    BY <1>11, <2>1, <2>2 DEF IsLeaf
  <2>4. \A i \in 1 .. Len(N[x].childrenIds) : g[x] = g[N[x].childrenIds[i]] + 1
    BY <1>11, <1>12, <2>1, <2>2
  <2> QED
    BY <2>1, <2>2, <2>3, <2>4 DEF Ranked, g
<1> QED
  BY <1>5, <1>13, <1>14, <1>15, <1>16

(* After a split the keys ascend in every node and stay within its bounds. *)
LEMMA SplitOrdered ==
  ASSUME NEW N, NEW R, NEW h, NEW lo, NEW hi, SearchTree(N, R, h, lo, hi),
         NEW id, NEW s, NEW k, NEW new, MayBeSplit(N, R, id, s, k, new),
         NEW N2, SplitOf(N, N2, id, s, k, new), NEW x \in DOMAIN N2
  PROVE  Ordered(N2, R, SplitLower(N, lo, id, s, new), SplitUpper(N, hi, id, s, new), x)
<1> DEFINE p == N[id].parentId
           e == N[id].entries
           pe == N[p].entries
           m == e[s][1]
           ids == N[id].childrenIds
           pids == N[p].childrenIds
           L == Len(N[id].entries)
           P == Len(N[p].entries)
<1>1. /\ id \in DOMAIN N /\ id # R /\ s \in 1 .. L /\ k \in 1 .. P + 1 /\ pids[k] = id
      /\ new # 0 /\ new \notin DOMAIN N
  BY DEF MayBeSplit
<1>2. /\ p # 0 /\ p \in DOMAIN N /\ ~ IsLeaf(N[p]) /\ h[p] = h[id] + 1
  BY <1>1, IsChild
<1>3. p # id
  <2>1. h[id] \in Nat
    BY <1>1, NodeFacts
  <2> QED
    BY <1>2, <2>1
<1>4. /\ L \in Nat /\ P \in Nat /\ Len(ids) \in Nat /\ Len(pids) = P + 1
      /\ ~ IsLeaf(N[id]) => Len(ids) = L + 1
      /\ IsLeaf(N[id]) => Len(ids) = 0
      /\ \A i \in 1 .. Len(ids) : ids[i] \in DOMAIN N
      /\ \A i \in 1 .. Len(pids) : pids[i] \in DOMAIN N
  BY <1>1, <1>2, NodeFacts
<1>5. DOMAIN N2 = DOMAIN N \cup {new} /\ R \in DOMAIN N /\ 0 \notin DOMAIN N
  BY DEF SplitOf, SearchTree, WellTyped
<1>7. /\ Len(N2[id].entries) = s - 1 /\ Len(N2[new].entries) = L - s
      /\ Len(N2[p].entries) = P + 1
      /\ \A i \in 1 .. s - 1 : N2[id].entries[i] = e[i]
      /\ \A i \in 1 .. L - s : N2[new].entries[i] = e[s + i]
      /\ \A i \in 1 .. P + 1 :
           N2[p].entries[i] = IF i < k THEN pe[i] ELSE IF i = k THEN e[s] ELSE pe[i - 1]
      /\ \A c \in DOMAIN N \ {id, p} : N2[c].entries = N[c].entries
  BY DEF SplitOf, SplitEntries
<1>8. /\ Len(N2[id].childrenIds) = IF IsLeaf(N[id]) THEN 0 ELSE s
      /\ \A i \in 1 .. Len(N2[id].childrenIds) : N2[id].childrenIds[i] = ids[i]
      /\ Len(N2[new].childrenIds) = IF IsLeaf(N[id]) THEN 0 ELSE Len(ids) - s
      /\ \A i \in 1 .. Len(N2[new].childrenIds) : N2[new].childrenIds[i] = ids[s + i]
      /\ Len(N2[p].childrenIds) = P + 2
      /\ \A i \in 1 .. P + 2 :
           N2[p].childrenIds[i] = IF i <= k THEN pids[i] ELSE IF i = k + 1 THEN new ELSE pids[i - 1]
      /\ \A c \in DOMAIN N \ {id, p} : N2[c].childrenIds = N[c].childrenIds
  <2>1. SplitChildren(N, N2, id, s, k, new)
    BY DEF SplitOf
  <2>2. Len(pids) + 1 = P + 2
    BY <1>4
  <2> QED
    BY <2>1, <2>2 DEF SplitChildren
<1> DEFINE lo2 == SplitLower(N, lo, id, s, new)
           hi2 == SplitUpper(N, hi, id, s, new)
<1>9. /\ lo2[new] = m /\ hi2[new] = hi[id] /\ hi2[id] = m
      /\ \A c \in DOMAIN N : lo2[c] = lo[c] /\ (c # id => hi2[c] = hi[c])
  BY <1>1 DEF SplitLower, SplitUpper
<1>10. \A c \in DOMAIN N :
         /\ lo[c] \in Int /\ hi[c] \in Int /\ Len(N[c].entries) \in Nat
         /\ lo[c] < hi[c] /\ hi[c] <= hi[R]
         /\ \A i \in 1 .. Len(N[c].entries) :
              /\ N[c].entries[i][1] \in Nat
              /\ lo[c] < N[c].entries[i][1] /\ N[c].entries[i][1] < hi[c]
         /\ \A i, j \in 1 .. Len(N[c].entries) : i < j => N[c].entries[i][1] < N[c].entries[j][1]
         /\ Len(N[c].childrenIds) \in Nat
         /\ \A i \in 1 .. Len(N[c].childrenIds) :
              /\ N[c].childrenIds[i] \in DOMAIN N /\ N[N[c].childrenIds[i]].parentId = c
              /\ lo[N[c].childrenIds[i]] = IF i = 1 THEN lo[c] ELSE N[c].entries[i - 1][1]
              /\ hi[N[c].childrenIds[i]] = IF i = Len(N[c].childrenIds) THEN hi[c]
                                           ELSE N[c].entries[i][1]
  <2> TAKE c \in DOMAIN N
  <2>1. /\ lo[c] \in Int /\ hi[c] \in Int /\ Len(N[c].entries) \in Nat
        /\ Len(N[c].childrenIds) \in Nat /\ Numbered(N[c].entries)
        /\ \A i \in 1 .. Len(N[c].childrenIds) : N[c].childrenIds[i] \in DOMAIN N
    BY NodeFacts
  <2>2. Ordered(N, R, lo, hi, c) /\ Connected(N, R, c)
    BY DEF SearchTree
  <2> QED
    BY <2>1, <2>2 DEF Ordered, Connected, Numbered, Ascending
<1>11. /\ \A i \in 1 .. L : e[i][1] \in Nat /\ lo[id] < e[i][1] /\ e[i][1] < hi[id]
       /\ \A i, j \in 1 .. L : i < j => e[i][1] < e[j][1]
       /\ \A i \in 1 .. Len(ids) :
            /\ ids[i] \in DOMAIN N /\ N[ids[i]].parentId = id
            /\ lo[ids[i]] = IF i = 1 THEN lo[id] ELSE e[i - 1][1]
            /\ hi[ids[i]] = IF i = Len(ids) THEN hi[id] ELSE e[i][1]
  BY <1>1, <1>10
<1>12. /\ \A i \in 1 .. P : pe[i][1] \in Nat /\ lo[p] < pe[i][1] /\ pe[i][1] < hi[p]
       /\ \A i, j \in 1 .. P : i < j => pe[i][1] < pe[j][1]
       /\ \A i \in 1 .. P + 1 :
            /\ pids[i] \in DOMAIN N /\ N[pids[i]].parentId = p
            /\ lo[pids[i]] = IF i = 1 THEN lo[p] ELSE pe[i - 1][1]
            /\ hi[pids[i]] = IF i = P + 1 THEN hi[p] ELSE pe[i][1]
  <2>1. p \in DOMAIN N /\ Len(pids) = P + 1
    BY <1>2, <1>4
  <2>2. /\ \A i \in 1 .. P : pe[i][1] \in Nat /\ lo[p] < pe[i][1] /\ pe[i][1] < hi[p]
        /\ \A i, j \in 1 .. P : i < j => pe[i][1] < pe[j][1]
    BY <1>10, <2>1
  <2>3. \A i \in 1 .. Len(pids) :
            /\ pids[i] \in DOMAIN N /\ N[pids[i]].parentId = p
            /\ lo[pids[i]] = IF i = 1 THEN lo[p] ELSE pe[i - 1][1]
            /\ hi[pids[i]] = IF i = Len(pids) THEN hi[p] ELSE pe[i][1]
    <3> HIDE DEF p
    <3> QED
      BY <1>10, <2>1
  <2> HIDE DEF p, pe, pids, P
  <2> QED
    BY <2>1, <2>2, <2>3
<1>13. /\ m \in Nat /\ lo[id] < m /\ m < hi[id] /\ lo[id] \in Int /\ hi[id] \in Int
       /\ lo[p] \in Int /\ hi[p] \in Int /\ hi[R] \in Int /\ lo[id] < hi[id]
       /\ hi[id] <= hi[R] /\ hi[p] <= hi[R] /\ lo[p] < hi[p]
  BY <1>1, <1>2, <1>5, <1>10, <1>11
<1>14. hi2[R] = hi[R]
  BY <1>1, <1>5, <1>9
<1>15. \A j \in 1 .. P + 1 : pids[j] = id => j = k
  BY <1>1, <1>2, <1>4, ChildrenDiffer
<1> HIDE DEF lo2, hi2, p, e, pe, m, ids, pids, L, P
<1>16. CASE x = id
  <2>1. lo2[id] < hi2[id] /\ hi2[id] <= hi2[R]
    BY <1>1, <1>9, <1>13, <1>14
  <2>2. \A i \in 1 .. s - 1 : lo2[id] < N2[id].entries[i][1] /\ N2[id].entries[i][1] < hi2[id]
    <3> TAKE i \in 1 .. s - 1
    <3>1. N2[id].entries[i] = e[i] /\ i \in 1 .. L /\ i < s
      BY <1>1, <1>4, <1>7
    <3>2. lo[id] < e[i][1] /\ e[i][1] < m
      BY <1>1, <1>11, <3>1 DEF m
    <3> QED
      BY <1>1, <1>9, <3>1, <3>2
  <2>3. Ascending(N2[id].entries)
    <3> SUFFICES ASSUME NEW i \in 1 .. s - 1, NEW j \in 1 .. s - 1, i < j
                 PROVE  N2[id].entries[i][1] < N2[id].entries[j][1]
      BY <1>7 DEF Ascending
    <3>1. i \in 1 .. L /\ j \in 1 .. L
      BY <1>1, <1>4
    <3> QED
      BY <1>7, <1>11, <3>1
  <2>4. ASSUME NEW i \in 1 .. Len(N2[id].childrenIds)
        PROVE  /\ lo2[N2[id].childrenIds[i]] = IF i = 1 THEN lo2[id] ELSE N2[id].entries[i - 1][1]
               /\ hi2[N2[id].childrenIds[i]] = IF i = Len(N2[id].childrenIds) THEN hi2[id]
                                               ELSE N2[id].entries[i][1]
    <3>9. ~ IsLeaf(N[id])
      <4> SUFFICES ASSUME IsLeaf(N[id]) PROVE FALSE
        OBVIOUS
      <4>1. Len(N2[id].childrenIds) = 0
        BY <1>8
      <4> QED
        BY <4>1
    <3>1. /\ ~ IsLeaf(N[id]) /\ Len(N2[id].childrenIds) = s /\ i \in 1 .. s
          /\ N2[id].childrenIds[i] = ids[i] /\ Len(ids) = L + 1
      <4>1. Len(N2[id].childrenIds) = s
        BY <1>8, <3>9
      <4> QED
        BY <1>4, <1>8, <3>9, <4>1
    <3>2. i \in 1 .. Len(ids) /\ i # Len(ids)
      BY <1>1, <1>4, <3>1
    <3>3. /\ ids[i] \in DOMAIN N /\ N[ids[i]].parentId = id
          /\ lo[ids[i]] = IF i = 1 THEN lo[id] ELSE e[i - 1][1]
          /\ hi[ids[i]] = e[i][1]
      BY <1>11, <3>2
    <3>4. ids[i] # id
      BY <1>3, <3>3 DEF p
    <3>5. lo2[ids[i]] = lo[ids[i]] /\ hi2[ids[i]] = e[i][1]
      BY <1>9, <3>3, <3>4
    <3>6. i # 1 => N2[id].entries[i - 1] = e[i - 1]
      BY <1>1, <1>4, <1>7, <3>1
    <3>7. i # s => N2[id].entries[i] = e[i]
      BY <1>1, <1>4, <1>7, <3>1
    <3>8. lo2[id] = lo[id] /\ hi2[id] = e[s][1]
      BY <1>1, <1>9 DEF m
    <3> QED
      BY <3>1, <3>3, <3>5, <3>6, <3>7, <3>8
  <2> QED
    BY <1>7, <1>16, <2>1, <2>2, <2>3, <2>4 DEF Ordered, lo2, hi2
<1>17. CASE x = new
  <2>1. lo2[new] < hi2[new] /\ hi2[new] <= hi2[R]
    BY <1>9, <1>13, <1>14
  <2>2. \A i \in 1 .. L - s : lo2[new] < N2[new].entries[i][1] /\ N2[new].entries[i][1] < hi2[new]
    <3> TAKE i \in 1 .. L - s
    <3>1. N2[new].entries[i] = e[s + i] /\ s + i \in 1 .. L /\ s < s + i
      BY SMTT(30), <1>1, <1>4, <1>7
    <3>2. m < e[s + i][1] /\ e[s + i][1] < hi[id]
      BY <1>1, <1>11, <3>1 DEF m
    <3> QED
      BY <1>9, <3>1, <3>2
  <2>3. Ascending(N2[new].entries)
    <3> SUFFICES ASSUME NEW i \in 1 .. L - s, NEW j \in 1 .. L - s, i < j
                 PROVE  N2[new].entries[i][1] < N2[new].entries[j][1]
      BY <1>7 DEF Ascending
    <3>1. s + i \in 1 .. L /\ s + j \in 1 .. L /\ s + i < s + j
      BY <1>1, <1>4
    <3>2. e[s + i][1] < e[s + j][1]
      BY <1>11, <3>1
    <3> QED
      BY <1>7, <3>2
  <2>4. ASSUME NEW i \in 1 .. Len(N2[new].childrenIds)
        PROVE  /\ lo2[N2[new].childrenIds[i]] = IF i = 1 THEN lo2[new] ELSE N2[new].entries[i - 1][1]
               /\ hi2[N2[new].childrenIds[i]] = IF i = Len(N2[new].childrenIds) THEN hi2[new]
                                                ELSE N2[new].entries[i][1]
    <3>1. ~ IsLeaf(N[id])
      BY <1>8
    <3>2. Len(N2[new].childrenIds) = Len(ids) - s /\ Len(ids) = L + 1
      BY <1>4, <1>8, <3>1
    <3>3. N2[new].childrenIds[i] = ids[s + i]
      BY <1>8
    <3>4. s + i \in 1 .. Len(ids) /\ s + i # 1 /\ (i = Len(ids) - s <=> s + i = Len(ids))
      BY <1>1, <1>4, <3>2
    <3>5. /\ ids[s + i] \in DOMAIN N /\ N[ids[s + i]].parentId = id
          /\ lo[ids[s + i]] = e[s + i - 1][1]
          /\ hi[ids[s + i]] = IF s + i = Len(ids) THEN hi[id] ELSE e[s + i][1]
      <4> DEFINE j == s + i
      <4>1. j \in 1 .. Len(ids) /\ j # 1
        BY <3>4
      <4> HIDE DEF j
      <4>2. /\ ids[j] \in DOMAIN N /\ N[ids[j]].parentId = id
            /\ lo[ids[j]] = e[j - 1][1]
            /\ hi[ids[j]] = IF j = Len(ids) THEN hi[id] ELSE e[j][1]
        BY <1>11, <4>1
      <4>3. j - 1 = s + i - 1
        <5>1. s \in Int /\ i \in Int
          BY <1>1, <1>4
        <5> QED
          BY <5>1 DEF j
      <4> QED
        BY <4>2, <4>3 DEF j
    <3>6. ids[s + i] # id
      BY <1>3, <3>5 DEF p
    <3>7. lo2[ids[s + i]] = lo[ids[s + i]] /\ hi2[ids[s + i]] = hi[ids[s + i]]
      BY <1>9, <3>5, <3>6
    <3>8. i # 1 => N2[new].entries[i - 1] = e[s + i - 1]
      <4> SUFFICES ASSUME i # 1 PROVE N2[new].entries[i - 1] = e[s + i - 1]
        OBVIOUS
      <4>1. i - 1 \in 1 .. L - s /\ s + (i - 1) = s + i - 1
        BY <1>1, <1>4, <3>2
      <4>2. N2[new].entries[i - 1] = e[s + (i - 1)]
        BY <1>7, <4>1
      <4> QED
        BY <4>1, <4>2
    <3>9. i = 1 => e[s + i - 1][1] = lo2[new]
      BY <1>1, <1>4, <1>9 DEF m
    <3>10. i # Len(ids) - s => N2[new].entries[i] = e[s + i]
      BY <1>1, <1>4, <1>7, <3>2
    <3> QED
      BY <1>9, <3>2, <3>3, <3>4, <3>5, <3>7, <3>8, <3>9, <3>10
  <2> QED
    BY <1>7, <1>17, <2>1, <2>2, <2>3, <2>4 DEF Ordered, lo2, hi2
<1>18. CASE x = p
  <2> DEFINE f == N2[p].entries
  <2>1. lo2[p] = lo[p] /\ hi2[p] = hi[p] /\ lo2[p] < hi2[p] /\ hi2[p] <= hi2[R]
    BY <1>2, <1>3, <1>9, <1>13, <1>14
  <2>2. /\ lo[id] = IF k = 1 THEN lo[p] ELSE pe[k - 1][1]
        /\ hi[id] = IF k = P + 1 THEN hi[p] ELSE pe[k][1]
    BY <1>1, <1>12
  <2>3. k \in 1 .. P + 1 /\ P \in Nat
    BY <1>1, <1>4
  <2>4. \A i \in 1 .. P + 1 : f[i] = IF i < k THEN pe[i] ELSE IF i = k THEN e[s] ELSE pe[i - 1]
    BY <1>7
  <2> HIDE DEF f
  <2>5. \A i \in 1 .. P + 1 : i < k => pe[i][1] < m
    <3> TAKE i \in 1 .. P + 1
    <3> SUFFICES ASSUME i < k PROVE pe[i][1] < m
      OBVIOUS
    <3>1. k - 1 \in 1 .. P /\ i \in 1 .. P /\ i <= k - 1 /\ k # 1
      BY <2>3
    <3>2. pe[i][1] <= pe[k - 1][1] /\ pe[i][1] \in Nat /\ pe[k - 1][1] \in Nat
      BY <1>12, <3>1
    <3> QED
      BY <1>13, <2>2, <3>1, <3>2
  <2>6. \A i \in 1 .. P + 1 : k < i => m < pe[i - 1][1]
    <3> TAKE i \in 1 .. P + 1
    <3> SUFFICES ASSUME k < i PROVE m < pe[i - 1][1]
      OBVIOUS
    <3>1. k \in 1 .. P /\ i - 1 \in 1 .. P /\ k <= i - 1 /\ k # P + 1
      BY <2>3
    <3>2. pe[k][1] <= pe[i - 1][1] /\ pe[k][1] \in Nat /\ pe[i - 1][1] \in Nat
      BY <1>12, <3>1
    <3> QED
      BY <1>13, <2>2, <3>1, <3>2
  <2>7. lo[p] < m /\ m < hi[p]
    <3>1. k # 1 => k - 1 \in 1 .. P
      BY <2>3
    <3>2. k # P + 1 => k \in 1 .. P
      BY <2>3
    <3>3. k # 1 => lo[p] < pe[k - 1][1] /\ pe[k - 1][1] \in Nat
      BY <1>12, <3>1
    <3>4. k # P + 1 => pe[k][1] < hi[p] /\ pe[k][1] \in Nat
      BY <1>12, <3>2
    <3> QED
      BY <1>13, <2>2, <3>3, <3>4
  <2>8. \A i \in 1 .. P + 1 : /\ i < k => i \in 1 .. P
                              /\ k < i => i - 1 \in 1 .. P
    BY <2>3
  <2>9. \A i \in 1 .. P + 1 : lo2[p] < f[i][1] /\ f[i][1] < hi2[p]
    <3> TAKE i \in 1 .. P + 1
    <3>1. i < k \/ i = k \/ k < i
      BY <2>3
    <3>2. i = k => f[i][1] = m
      BY <2>4 DEF m
    <3>3. i < k => f[i] = pe[i]
      BY <2>4
    <3>4. k < i => f[i] = pe[i - 1]
      BY <2>3, <2>4
    <3> QED
      BY <1>12, <2>1, <2>7, <2>8, <3>1, <3>2, <3>3, <3>4
  <2>10. Ascending(f)
    <3> SUFFICES ASSUME NEW i \in 1 .. P + 1, NEW j \in 1 .. P + 1, i < j
                 PROVE  f[i][1] < f[j][1]
      BY <1>7 DEF Ascending, f
    <3>1. CASE j < k
      <4>1. i < k /\ i \in 1 .. P /\ j \in 1 .. P /\ f[i] = pe[i] /\ f[j] = pe[j]
        BY <2>3, <2>4, <3>1
      <4> QED
        BY <1>12, <4>1
    <3>2. CASE j = k
      <4>1. f[i] = pe[i] /\ f[j][1] = m /\ i < k
        BY <2>3, <2>4, <3>2 DEF m
      <4> QED
        BY <2>5, <4>1
    <3>3. CASE k < j /\ i = k
      <4>1. f[i][1] = m /\ f[j] = pe[j - 1]
        BY <2>3, <2>4, <3>3 DEF m
      <4> QED
        BY <2>6, <3>3, <4>1
    <3>4. CASE k < j /\ k < i
      <4>1. f[i] = pe[i - 1] /\ f[j] = pe[j - 1] /\ i - 1 \in 1 .. P /\ j - 1 \in 1 .. P /\ i - 1 < j - 1
        BY <2>3, <2>4, <3>4
      <4> QED
        BY <1>12, <4>1
    <3>5. CASE k < j /\ i < k
      <4>1. f[i] = pe[i] /\ f[j] = pe[j - 1] /\ i \in 1 .. P /\ j - 1 \in 1 .. P /\ i < j - 1
        BY <2>3, <2>4, <3>5
      <4> QED
        BY <1>12, <4>1
    <3> QED
      BY <2>3, <3>1, <3>2, <3>3, <3>4, <3>5
  <2>11. ASSUME NEW i \in 1 .. P + 2
         PROVE  /\ lo2[N2[p].childrenIds[i]] = IF i = 1 THEN lo2[p] ELSE f[i - 1][1]
                /\ hi2[N2[p].childrenIds[i]] = IF i = P + 2 THEN hi2[p] ELSE f[i][1]
    <3>1. N2[p].childrenIds[i] = IF i <= k THEN pids[i] ELSE IF i = k + 1 THEN new ELSE pids[i - 1]
      BY <1>8
    <3>2. \A j \in 1 .. P + 1 : j # k => /\ lo2[pids[j]] = IF j = 1 THEN lo[p] ELSE pe[j - 1][1]
                                         /\ hi2[pids[j]] = IF j = P + 1 THEN hi[p] ELSE pe[j][1]
      BY <1>9, <1>12, <1>15
    <3>3. CASE i < k
      <4>1. /\ i \in 1 .. P + 1 /\ i # k /\ i # P + 1 /\ i # P + 2 /\ N2[p].childrenIds[i] = pids[i]
            /\ i - 1 < k /\ (i # 1 => i - 1 \in 1 .. P + 1)
        BY <2>3, <3>1, <3>3
      <4>2. f[i] = pe[i] /\ (i # 1 => f[i - 1] = pe[i - 1])
        BY <2>4, <3>3, <4>1
      <4> QED
        BY <2>1, <3>2, <4>1, <4>2
    <3>4. CASE i = k
      <4>1. /\ i \in 1 .. P + 1 /\ i # P + 2 /\ N2[p].childrenIds[i] = id
            /\ i - 1 < k /\ (i # 1 => i - 1 \in 1 .. P + 1)
        BY <1>1, <2>3, <3>1, <3>4
      <4>2. f[i][1] = m /\ (i # 1 => f[i - 1] = pe[i - 1])
        BY <2>4, <3>4, <4>1 DEF m
      <4> QED
        BY <1>1, <1>9, <2>1, <2>2, <3>4, <4>1, <4>2
    <3>5. CASE i = k + 1
      <4>1. /\ N2[p].childrenIds[i] = new /\ i # 1 /\ i - 1 = k
            /\ (i # P + 2 => i \in 1 .. P + 1 /\ k # P + 1 /\ i > k)
            /\ (i = P + 2 => k = P + 1)
        BY <2>3, <3>1, <3>5
      <4>2. f[i - 1][1] = m /\ (i # P + 2 => f[i] = pe[k])
        BY <2>3, <2>4, <4>1 DEF m
      <4> QED
        BY <1>9, <2>1, <2>2, <4>1, <4>2
    <3>6. CASE i > k + 1
      <4>1. /\ N2[p].childrenIds[i] = pids[i - 1] /\ i # 1 /\ i - 1 # 1 /\ i - 1 # k /\ i - 1 \in 1 .. P + 1
            /\ i - 1 > k /\ (i = P + 2 <=> i - 1 = P + 1)
            /\ (i # P + 2 => i \in 1 .. P + 1 /\ i > k)
        BY <2>3, <3>1, <3>6
      <4>2. f[i - 1] = pe[i - 1 - 1]
        BY <2>3, <2>4, <4>1
      <4>3. i # P + 2 => f[i] = pe[i - 1]
        BY <2>3, <2>4, <4>1
      <4> QED
        BY <2>1, <3>2, <4>1, <4>2, <4>3
    <3> QED
      BY <2>3, <3>3, <3>4, <3>5, <3>6
  <2>12. Len(N2[p].childrenIds) = P + 2 /\ Len(f) = P + 1
    BY <1>7, <1>8 DEF f
  <2> QED
    BY <1>18, <2>1, <2>9, <2>10, <2>11, <2>12 DEF Ordered, lo2, hi2, f
<1>19. CASE x \notin {id, new, p}
  <2>1. /\ x \in DOMAIN N /\ N2[x].childrenIds = N[x].childrenIds
        /\ N2[x].entries = N[x].entries
    BY <1>5, <1>7, <1>8, <1>19
  <2>2. lo2[x] = lo[x] /\ hi2[x] = hi[x]
    BY <1>9, <1>19, <2>1
  <2>3. \A i \in 1 .. Len(N[x].childrenIds) : /\ lo2[N[x].childrenIds[i]] = lo[N[x].childrenIds[i]]
                                              /\ hi2[N[x].childrenIds[i]] = hi[N[x].childrenIds[i]]
    <3> TAKE i \in 1 .. Len(N[x].childrenIds)
    <3>1. N[x].childrenIds[i] \in DOMAIN N /\ N[N[x].childrenIds[i]].parentId = x
      BY <1>10, <2>1
    <3>2. N[x].childrenIds[i] # id
      BY <1>19, <3>1 DEF p
    <3> QED
      BY <1>9, <3>1, <3>2
  <2>4. Ordered(N, R, lo, hi, x)
    BY <2>1 DEF SearchTree
  <2> QED
    BY <1>14, <2>1, <2>2, <2>3, <2>4 DEF Ordered, lo2, hi2
<1> QED
  BY <1>5, <1>16, <1>17, <1>18, <1>19

(* A search tree stays one when a node of it is split.                     *)
LEMMA SplitTree ==
  ASSUME NEW N, NEW R, NEW h, NEW lo, NEW hi, SearchTree(N, R, h, lo, hi),
         NEW id, NEW s, NEW k, NEW new, MayBeSplit(N, R, id, s, k, new),
         NEW N2, SplitOf(N, N2, id, s, k, new)
  PROVE  SearchTree(N2, R, SplitHeights(N, h, id, new), SplitLower(N, lo, id, s, new),
                    SplitUpper(N, hi, id, s, new))
<1>1. /\ IsFiniteSet(DOMAIN N) /\ DOMAIN N \subseteq Nat \ {0} /\ R \in DOMAIN N /\ id \in DOMAIN N
      /\ \A x \in DOMAIN N : N[x].parentId \in DOMAIN N \cup {0}
      /\ lo[R] = -1 /\ lo \in [DOMAIN N -> Int] /\ hi \in [DOMAIN N -> Int] /\ h \in [DOMAIN N -> Nat]
  BY DEF SearchTree, WellTyped, MayBeSplit
<1>2. new \in Nat \ {0} /\ new \notin DOMAIN N /\ s \in 1 .. Len(N[id].entries)
  BY DEF MayBeSplit
<1>3. N[id].entries[s][1] \in Nat
  BY <1>1, <1>2, NodeFacts DEF Numbered
<1>4. DOMAIN N2 = DOMAIN N \cup {new} /\ Typed(N2) /\ SplitParents(N, N2, id, s, new)
  BY DEF SplitOf
<1>5. \A x \in DOMAIN N2 : N2[x].parentId \in DOMAIN N2 \cup {0}
  BY <1>1, <1>4 DEF SplitParents
<1>6. IsFiniteSet(DOMAIN N2)
  BY <1>1, <1>4, FS_AddElement
<1>7. WellTyped(N2, R)
  BY <1>1, <1>2, <1>4, <1>5, <1>6 DEF WellTyped, Typed
<1>8. /\ SplitHeights(N, h, id, new) \in [DOMAIN N2 -> Nat]
      /\ SplitLower(N, lo, id, s, new) \in [DOMAIN N2 -> Int]
      /\ SplitUpper(N, hi, id, s, new) \in [DOMAIN N2 -> Int]
  BY <1>1, <1>3, <1>4 DEF SplitHeights, SplitLower, SplitUpper
<1>9. SplitLower(N, lo, id, s, new)[R] = -1
  BY <1>1, <1>2 DEF SplitLower
<1> QED
  BY <1>7, <1>8, <1>9, SplitConnected, SplitRanked, SplitOrdered DEF SearchTree

-----------------------------------------------------------------------------
(* Two neighbouring children of a node "p", on either side of its entry    *)
(* "k", become one: the entry goes between theirs.                         *)

MergeParents(N, N2, l, r) ==
  \A x \in DOMAIN N2 : N2[x].parentId = IF N[x].parentId = r THEN l ELSE N[x].parentId

MergeEntries(N, N2, p, k, l, r) ==
  LET L == Len(N[l].entries)
      M == Len(N[r].entries) IN
  /\ Len(N2[l].entries) = L + 1 + M
  /\ \A i \in 1 .. L : N2[l].entries[i] = N[l].entries[i]
  /\ N2[l].entries[L + 1] = N[p].entries[k]
  /\ \A i \in 1 .. M : N2[l].entries[L + 1 + i] = N[r].entries[i]
  /\ Len(N2[p].entries) = Len(N[p].entries) - 1
  /\ \A i \in 1 .. Len(N[p].entries) - 1 :
       N2[p].entries[i] = IF i < k THEN N[p].entries[i] ELSE N[p].entries[i + 1]
  /\ \A x \in DOMAIN N2 \ {l, p} : N2[x].entries = N[x].entries

MergeChildren(N, N2, p, k, l, r) ==
  LET C == Len(N[l].childrenIds)
      D == Len(N[r].childrenIds) IN
  /\ Len(N2[l].childrenIds) = C + D
  /\ \A i \in 1 .. C : N2[l].childrenIds[i] = N[l].childrenIds[i]
  /\ \A i \in 1 .. D : N2[l].childrenIds[C + i] = N[r].childrenIds[i]
  /\ Len(N2[p].childrenIds) = Len(N[p].entries)
  /\ \A i \in 1 .. Len(N[p].entries) :
       N2[p].childrenIds[i] = IF i <= k THEN N[p].childrenIds[i] ELSE N[p].childrenIds[i + 1]
  /\ \A x \in DOMAIN N2 \ {l, p} : N2[x].childrenIds = N[x].childrenIds

MergeOf(N, N2, p, k, l, r) ==
  /\ DOMAIN N2 = DOMAIN N \ {r} /\ Typed(N2)
  /\ MergeParents(N, N2, l, r)
  /\ MergeEntries(N, N2, p, k, l, r)
  /\ MergeChildren(N, N2, p, k, l, r)

(* Which may be merged.                                                    *)
MayBeMerged(N, p, k, l, r) ==
  /\ p \in DOMAIN N /\ ~ IsLeaf(N[p]) /\ k \in 1 .. Len(N[p].entries)
  /\ N[p].childrenIds[k] = l /\ N[p].childrenIds[k + 1] = r

MergeHeights(N, h, r) == [x \in DOMAIN N \ {r} |-> h[x]]
MergeUpper(N, hi, l, r) == [x \in DOMAIN N \ {r} |-> IF x = l THEN hi[r] ELSE hi[x]]

(* Two neighbouring children of a node are on one level, and the entry     *)
(* between them is where their bounds meet.                                *)
LEMMA Siblings ==
  ASSUME NEW N, NEW R, NEW h, NEW lo, NEW hi, SearchTree(N, R, h, lo, hi),
         NEW p, NEW k, NEW l, NEW r, MayBeMerged(N, p, k, l, r)
  PROVE  /\ p \in DOMAIN N /\ l \in DOMAIN N /\ r \in DOMAIN N
         /\ l # r /\ l # p /\ r # p /\ l # R /\ r # R
         /\ N[l].parentId = p /\ N[r].parentId = p
         /\ h[p] = h[l] + 1 /\ h[r] = h[l] /\ (IsLeaf(N[l]) <=> IsLeaf(N[r]))
         /\ Len(N[p].childrenIds) = Len(N[p].entries) + 1
         /\ hi[l] = N[p].entries[k][1] /\ lo[r] = N[p].entries[k][1]
         /\ lo[l] = IF k = 1 THEN lo[p] ELSE N[p].entries[k - 1][1]
         /\ hi[r] = IF k = Len(N[p].entries) THEN hi[p] ELSE N[p].entries[k + 1][1]
<1> DEFINE P == Len(N[p].entries)
<1>1. /\ p \in DOMAIN N /\ ~ IsLeaf(N[p]) /\ k \in 1 .. P
      /\ N[p].childrenIds[k] = l /\ N[p].childrenIds[k + 1] = r
  BY DEF MayBeMerged
<1>2. P \in Nat /\ Len(N[p].childrenIds) = P + 1
  BY <1>1, NodeFacts
<1>3. k \in 1 .. P + 1 /\ k + 1 \in 1 .. P + 1 /\ (k + 1) - 1 = k /\ k + 1 # 1 /\ k # P + 1
      /\ (k + 1 = P + 1 <=> k = P)
  BY <1>1, <1>2
<1>4. /\ l \in DOMAIN N /\ h[p] = h[l] + 1 /\ N[l].parentId = p
      /\ lo[l] = IF k = 1 THEN lo[p] ELSE N[p].entries[k - 1][1]
      /\ hi[l] = N[p].entries[k][1]
  BY <1>1, <1>3, SearchedChild
<1>5. /\ r \in DOMAIN N /\ h[p] = h[r] + 1 /\ N[r].parentId = p
      /\ lo[r] = N[p].entries[k][1]
      /\ hi[r] = IF k = P THEN hi[p] ELSE N[p].entries[k + 1][1]
  <2> DEFINE j == k + 1
  <2>1. j \in 1 .. P + 1 /\ N[p].childrenIds[j] = r
    BY <1>1, <1>3
  <2> HIDE DEF j
  <2>2. /\ r \in DOMAIN N /\ h[p] = h[r] + 1 /\ N[r].parentId = p
        /\ lo[r] = IF j = 1 THEN lo[p] ELSE N[p].entries[j - 1][1]
        /\ hi[r] = IF j = P + 1 THEN hi[p] ELSE N[p].entries[j][1]
    BY <1>1, <2>1, SearchedChild
  <2> QED
    BY <1>3, <2>2 DEF j
<1>6. l # r
  BY <1>1, <1>2, <1>3, ChildrenDiffer
<1>7. h[p] \in Nat /\ h[l] \in Nat /\ h[r] \in Nat
  BY <1>1, <1>4, <1>5, NodeFacts
<1>8. l # p /\ r # p /\ h[r] = h[l]
  BY <1>4, <1>5, <1>7
<1>9. l # R /\ r # R
  <2>1. p # 0
    BY <1>1 DEF SearchTree, WellTyped
  <2> QED
    BY <1>4, <1>5, <2>1 DEF SearchTree, Connected
<1>10. \A x \in DOMAIN N : h[x] \in Nat /\ (IsLeaf(N[x]) <=> h[x] = 0)
  <2> TAKE x \in DOMAIN N
  <2>1. h[x] \in Nat /\ Len(N[x].entries) \in Nat
    BY NodeFacts
  <2>2. IsLeaf(N[x]) => h[x] = 0
    BY DEF SearchTree, Ranked
  <2>3. ASSUME ~ IsLeaf(N[x])
        PROVE  h[x] # 0
    <3>1. N[x].childrenIds[1] \in DOMAIN N /\ h[N[x].childrenIds[1]] < h[x]
      BY <2>1, <2>3, SearchedChild
    <3>2. h[N[x].childrenIds[1]] \in Nat
      BY <3>1, NodeFacts
    <3> QED
      BY <2>1, <3>1, <3>2
  <2> QED
    BY <2>1, <2>2, <2>3
<1> QED
  BY <1>1, <1>2, <1>4, <1>5, <1>6, <1>7, <1>8, <1>9, <1>10

(* How nodes are linked, and where their keys are.                         *)
LEMMA Links ==
  ASSUME NEW N, NEW R, NEW h, NEW lo, NEW hi, SearchTree(N, R, h, lo, hi)
  PROVE  \A c \in DOMAIN N :
           /\ IsLeaf(N[c]) \/ Len(N[c].childrenIds) = Len(N[c].entries) + 1
           /\ Len(N[c].childrenIds) \in Nat /\ Len(N[c].entries) \in Nat
           /\ IsLeaf(N[c]) <=> Len(N[c].childrenIds) = 0
           /\ \A i, j \in 1 .. Len(N[c].childrenIds) :
                N[c].childrenIds[i] = N[c].childrenIds[j] => i = j
           /\ \A i \in 1 .. Len(N[c].childrenIds) : N[c].childrenIds[i] \in DOMAIN N
                                                   /\ N[N[c].childrenIds[i]].parentId = c
           /\ c = R <=> N[c].parentId = 0
           /\ c # 0
           /\ c # R => /\ N[c].parentId \in DOMAIN N
                       /\ \E i \in 1 .. Len(N[N[c].parentId].childrenIds) :
                            N[N[c].parentId].childrenIds[i] = c
<1> TAKE c \in DOMAIN N
<1>1. /\ \A i \in 1 .. Len(N[c].childrenIds) : N[c].childrenIds[i] \in DOMAIN N
      /\ Len(N[c].childrenIds) \in Nat /\ Len(N[c].entries) \in Nat
      /\ IsLeaf(N[c]) <=> Len(N[c].childrenIds) = 0
  BY NodeFacts
<1>2. Connected(N, R, c) /\ N[c].parentId \in DOMAIN N \cup {0} /\ c # 0
  BY DEF SearchTree, WellTyped
<1>3. \A i, j \in 1 .. Len(N[c].childrenIds) :
        N[c].childrenIds[i] = N[c].childrenIds[j] => i = j
  BY ChildrenDiffer
<1> QED
  BY <1>1, <1>2, <1>3 DEF Connected

(* The keys of a node ascend and lie within its bounds, and divide them    *)
(* among its children.                                                     *)
LEMMA Bounds ==
  ASSUME NEW N, NEW R, NEW h, NEW lo, NEW hi, SearchTree(N, R, h, lo, hi)
  PROVE  \A c \in DOMAIN N :
           /\ lo[c] \in Int /\ hi[c] \in Int
           /\ lo[c] < hi[c] /\ hi[c] <= hi[R]
           /\ \A i \in 1 .. Len(N[c].entries) :
                /\ N[c].entries[i][1] \in Nat
                /\ lo[c] < N[c].entries[i][1] /\ N[c].entries[i][1] < hi[c]
           /\ \A i, j \in 1 .. Len(N[c].entries) : i < j => N[c].entries[i][1] < N[c].entries[j][1]
           /\ \A i \in 1 .. Len(N[c].childrenIds) :
                /\ lo[N[c].childrenIds[i]] = IF i = 1 THEN lo[c] ELSE N[c].entries[i - 1][1]
                /\ hi[N[c].childrenIds[i]] = IF i = Len(N[c].childrenIds) THEN hi[c]
                                             ELSE N[c].entries[i][1]
<1> TAKE c \in DOMAIN N
<1>1. lo[c] \in Int /\ hi[c] \in Int /\ Numbered(N[c].entries)
  BY NodeFacts
<1>2. Ordered(N, R, lo, hi, c)
  BY DEF SearchTree
<1> QED
  BY <1>1, <1>2 DEF Ordered, Numbered, Ascending

(* After a merge parents and children still name each other.               *)
LEMMA MergeConnected ==
  ASSUME NEW N, NEW R, NEW h, NEW lo, NEW hi, SearchTree(N, R, h, lo, hi),
         NEW p, NEW k, NEW l, NEW r, MayBeMerged(N, p, k, l, r),
         NEW N2, MergeOf(N, N2, p, k, l, r), NEW x \in DOMAIN N2
  PROVE  Connected(N2, R, x)
<1> DEFINE lids == N[l].childrenIds
           rids == N[r].childrenIds
           pids == N[p].childrenIds
           P == Len(N[p].entries)
           C == Len(lids)
           D == Len(rids)
<1>1. /\ p \in DOMAIN N /\ l \in DOMAIN N /\ r \in DOMAIN N
      /\ l # r /\ l # p /\ r # p /\ l # R /\ r # R
      /\ N[l].parentId = p /\ N[r].parentId = p
      /\ (IsLeaf(N[l]) <=> IsLeaf(N[r]))
      /\ Len(pids) = P + 1 /\ h[p] = h[l] + 1
  BY Siblings
<1>2. k \in 1 .. P /\ pids[k] = l /\ pids[k + 1] = r
  BY DEF MayBeMerged
<1>3. \A c \in DOMAIN N :
           /\ IsLeaf(N[c]) \/ Len(N[c].childrenIds) = Len(N[c].entries) + 1
           /\ Len(N[c].childrenIds) \in Nat /\ Len(N[c].entries) \in Nat
           /\ IsLeaf(N[c]) <=> Len(N[c].childrenIds) = 0
           /\ \A i, j \in 1 .. Len(N[c].childrenIds) :
                N[c].childrenIds[i] = N[c].childrenIds[j] => i = j
           /\ \A i \in 1 .. Len(N[c].childrenIds) : N[c].childrenIds[i] \in DOMAIN N
                                                   /\ N[N[c].childrenIds[i]].parentId = c
           /\ c = R <=> N[c].parentId = 0
           /\ c # 0
           /\ c # R => /\ N[c].parentId \in DOMAIN N
                       /\ \E i \in 1 .. Len(N[N[c].parentId].childrenIds) :
                            N[N[c].parentId].childrenIds[i] = c
  BY Links
<1>4. /\ DOMAIN N2 = DOMAIN N \ {r} /\ R \in DOMAIN N
      /\ \A c \in DOMAIN N2 : N2[c].parentId = IF N[c].parentId = r THEN l ELSE N[c].parentId
      /\ \A c \in DOMAIN N2 : N2[c].childrenIds \in Seq(DOMAIN N2)
  BY NodeFacts DEF MergeOf, MergeParents, Typed, SearchTree, WellTyped
<1>5. /\ Len(N2[l].entries) = Len(N[l].entries) + 1 + Len(N[r].entries)
      /\ Len(N2[p].entries) = P - 1
      /\ \A c \in DOMAIN N2 \ {l, p} : N2[c].entries = N[c].entries
  BY DEF MergeOf, MergeEntries
<1>6. /\ Len(N2[l].childrenIds) = C + D
      /\ \A i \in 1 .. C : N2[l].childrenIds[i] = lids[i]
      /\ \A i \in 1 .. D : N2[l].childrenIds[C + i] = rids[i]
      /\ Len(N2[p].childrenIds) = P
      /\ \A i \in 1 .. P : N2[p].childrenIds[i] = IF i <= k THEN pids[i] ELSE pids[i + 1]
      /\ \A c \in DOMAIN N2 \ {l, p} : N2[c].childrenIds = N[c].childrenIds
  BY DEF MergeOf, MergeChildren
<1>7. IsLeaf(N2[x]) <=> Len(N2[x].childrenIds) = 0
  BY <1>4 DEF IsLeaf
<1>8. C \in Nat /\ D \in Nat /\ P \in Nat
  BY <1>1, <1>3
<1>9. /\ \A i \in 1 .. C : lids[i] \in DOMAIN N /\ N[lids[i]].parentId = l
      /\ \A i \in 1 .. D : rids[i] \in DOMAIN N /\ N[rids[i]].parentId = r
      /\ \A i \in 1 .. P + 1 : pids[i] \in DOMAIN N /\ N[pids[i]].parentId = p
      /\ \A i, j \in 1 .. P + 1 : pids[i] = pids[j] => i = j
  <2>1. \A i \in 1 .. C : lids[i] \in DOMAIN N /\ N[lids[i]].parentId = l
    BY <1>1, <1>3
  <2>2. \A i \in 1 .. D : rids[i] \in DOMAIN N /\ N[rids[i]].parentId = r
    BY <1>1, <1>3
  <2>3. /\ \A i \in 1 .. Len(pids) : pids[i] \in DOMAIN N /\ N[pids[i]].parentId = p
        /\ \A i, j \in 1 .. Len(pids) : pids[i] = pids[j] => i = j
    BY <1>1, <1>3
  <2> QED
    BY <1>1, <2>1, <2>2, <2>3
<1>10. \A c \in DOMAIN N : N[c].parentId = r => c \notin {l, r, p} /\ c # R
  <2> SUFFICES ASSUME NEW c \in DOMAIN N, N[c].parentId = r PROVE c \notin {l, r, p} /\ c # R
    OBVIOUS
  <2>1. h[r] = h[c] + 1
    BY <1>1, <1>3, PlaceInParent
  <2>2. h[r] = h[l] /\ h[r] \in Nat /\ h[c] \in Nat
    BY <1>1, Siblings, NodeFacts
  <2> QED
    BY <1>1, <1>3, <2>1, <2>2
<1> HIDE DEF lids, rids, pids, P, C, D
<1> DEFINE LeafOrLong == IsLeaf(N2[x]) \/ Len(N2[x].childrenIds) = Len(N2[x].entries) + 1
           Children == \A i \in 1 .. Len(N2[x].childrenIds) : N2[N2[x].childrenIds[i]].parentId = x
           RootOrNot == x = R <=> N2[x].parentId = 0
           Listed == x # R => \E i \in 1 .. Len(N2[N2[x].parentId].childrenIds) :
                               N2[N2[x].parentId].childrenIds[i] = x
<1>11. CASE x = l
  <2>1. N2[l].parentId = p
    BY <1>1, <1>4
  <2>2. LeafOrLong
    <3>1. CASE IsLeaf(N[l])
      <4>1. C = 0 /\ D = 0
        BY <1>1, <1>3, <3>1 DEF C, D, lids, rids
      <4> QED
        BY <1>6, <1>7, <1>11, <4>1
    <3>2. CASE ~ IsLeaf(N[l])
      <4>1. C = Len(N[l].entries) + 1 /\ D = Len(N[r].entries) + 1
        BY <1>1, <1>3, <3>2 DEF C, D, lids, rids
      <4>2. Len(N[l].entries) \in Nat /\ Len(N[r].entries) \in Nat
        BY <1>1, <1>3
      <4>3. Len(N2[l].childrenIds) = Len(N2[l].entries) + 1
        <5>1. Len(N2[l].childrenIds) = C + D /\ Len(N2[l].entries) = Len(N[l].entries) + 1 + Len(N[r].entries)
          BY <1>5, <1>6
        <5> DEFINE a == Len(N[l].entries)
                   b == Len(N[r].entries)
        <5>2. a \in Nat /\ b \in Nat /\ C = a + 1 /\ D = b + 1
          BY <4>1, <4>2
        <5>3. Len(N2[l].childrenIds) = C + D /\ Len(N2[l].entries) = a + 1 + b
          BY <5>1
        <5> HIDE DEF a, b
        <5>4. C + D = (a + 1 + b) + 1
          BY <5>2
        <5> QED
          BY <5>3, <5>4
      <4> QED
        BY <1>11, <4>3
    <3> QED
      BY <3>1, <3>2
  <2>3. Children
    <3> SUFFICES ASSUME NEW i \in 1 .. C + D
                 PROVE  N2[N2[l].childrenIds[i]].parentId = l
      BY <1>6, <1>11
    <3>1. CASE i <= C
      <4>1. i \in 1 .. C
        BY <1>8, <3>1
      <4>2. N2[l].childrenIds[i] = lids[i] /\ lids[i] \in DOMAIN N /\ N[lids[i]].parentId = l
        BY <1>6, <1>9, <4>1
      <4> QED
        BY <1>1, <1>4, <4>2
    <3>2. CASE ~ (i <= C)
      <4>1. PICK j \in 1 .. D : i = C + j
        <5>1. i - C \in 1 .. D /\ i = C + (i - C)
          BY <1>8, <3>2
        <5> QED
          BY <5>1
      <4>2. N2[l].childrenIds[i] = rids[j] /\ rids[j] \in DOMAIN N /\ N[rids[j]].parentId = r
        BY <1>6, <1>9, <4>1
      <4>3. rids[j] \in DOMAIN N2
        BY <1>4, <1>10, <4>2
      <4> QED
        BY <1>4, <4>2, <4>3
    <3> QED
      BY <3>1, <3>2
  <2>4. RootOrNot
    BY <1>1, <1>3, <1>11, <2>1
  <2>5. Listed
    <3>1. k \in 1 .. P /\ N2[p].childrenIds[k] = l
      BY <1>2, <1>6, <1>8
    <3> QED
      BY <1>6, <1>11, <2>1, <3>1
  <2> QED
    BY <2>2, <2>3, <2>4, <2>5 DEF Connected
<1>12. CASE x = p
  <2>1. N2[p].parentId = N[p].parentId
    BY <1>1, <1>4, <1>10
  <2>2. LeafOrLong
    BY <1>5, <1>6, <1>8, <1>12
  <2>3. Children
    <3> SUFFICES ASSUME NEW i \in 1 .. P
                 PROVE  N2[N2[p].childrenIds[i]].parentId = p
      BY <1>6, <1>12
    <3>1. PICK j \in 1 .. P + 1 : N2[p].childrenIds[i] = pids[j] /\ j # k + 1
      <4>1. CASE i <= k
        <5>1. i \in 1 .. P + 1 /\ i # k + 1 /\ N2[p].childrenIds[i] = pids[i]
          BY <1>2, <1>6, <1>8, <4>1
        <5> QED
          BY <5>1
      <4>2. CASE ~ (i <= k)
        <5>1. i + 1 \in 1 .. P + 1 /\ i + 1 # k + 1 /\ N2[p].childrenIds[i] = pids[i + 1]
          BY <1>2, <1>6, <1>8, <4>2
        <5> QED
          BY <5>1
      <4> QED
        BY <4>1, <4>2
    <3>2. k + 1 \in 1 .. P + 1
      BY <1>2, <1>8
    <3>3. pids[j] # r /\ pids[j] \in DOMAIN N /\ N[pids[j]].parentId = p
      BY <1>2, <1>9, <3>1, <3>2
    <3> QED
      BY <1>1, <1>4, <3>1, <3>3
  <2>4. RootOrNot
    BY <1>1, <1>3, <1>12, <2>1
  <2>5. Listed
    <3> SUFFICES ASSUME p # R
                 PROVE  \E i \in 1 .. Len(N2[N2[p].parentId].childrenIds) :
                          N2[N2[p].parentId].childrenIds[i] = p
      BY <1>12
    <3> DEFINE q == N[p].parentId
    <3>1. q \in DOMAIN N /\ \E i \in 1 .. Len(N[q].childrenIds) : N[q].childrenIds[i] = p
      BY <1>1, <1>3
    <3>2. q \notin {l, r, p}
      <4>1. h[q] = h[p] + 1 /\ h[p] \in Nat /\ h[l] \in Nat
        <5>1. N[p].parentId # 0
          BY <1>1, <1>3
        <5> QED
          BY <1>1, <5>1, PlaceInParent, NodeFacts
      <4>2. h[r] = h[l]
        BY Siblings
      <4> HIDE DEF q
      <4> QED
        BY <1>1, <4>1, <4>2
    <3>3. N2[q].childrenIds = N[q].childrenIds
      BY <1>4, <1>6, <3>1, <3>2
    <3> QED
      BY <2>1, <3>1, <3>3
  <2> QED
    BY <2>2, <2>3, <2>4, <2>5 DEF Connected
<1>13. CASE x \notin {l, p}
  <2>1. /\ x \in DOMAIN N /\ x # r /\ N2[x].childrenIds = N[x].childrenIds
        /\ N2[x].entries = N[x].entries
    BY <1>4, <1>5, <1>6, <1>13
  <2>2. LeafOrLong
    BY <1>3, <2>1 DEF IsLeaf
  <2>3. Children
    <3> SUFFICES ASSUME NEW i \in 1 .. Len(N[x].childrenIds)
                 PROVE  N2[N[x].childrenIds[i]].parentId = x
      BY <2>1
    <3>1. N[x].childrenIds[i] \in DOMAIN N /\ N[N[x].childrenIds[i]].parentId = x
      BY <1>3, <2>1
    <3>2. N[x].childrenIds[i] # r
      BY <1>1, <1>13, <3>1
    <3> QED
      BY <1>4, <2>1, <3>1, <3>2
  <2>4. RootOrNot
    BY <1>1, <1>3, <1>4, <1>10, <2>1
  <2>5. ASSUME x # R
        PROVE  \E i \in 1 .. Len(N2[N2[x].parentId].childrenIds) :
                 N2[N2[x].parentId].childrenIds[i] = x
    <3> DEFINE q == N[x].parentId
    <3>1. PICK i \in 1 .. Len(N[q].childrenIds) : N[q].childrenIds[i] = x
      BY <1>3, <2>1, <2>5
    <3>2. q \in DOMAIN N
      BY <1>3, <2>1, <2>5
    <3>3. CASE q = r
      <4>1. i \in 1 .. D /\ rids[i] = x
        BY <3>1, <3>3 DEF D, rids
      <4>2. C + i \in 1 .. C + D /\ N2[l].childrenIds[C + i] = x
        BY <1>6, <1>8, <4>1
      <4>3. N2[x].parentId = l
        BY <1>4, <3>3
      <4> QED
        BY <1>6, <4>2, <4>3
    <3>4. CASE q = l
      <4>1. i \in 1 .. C /\ lids[i] = x
        BY <3>1, <3>4 DEF C, lids
      <4>2. i \in 1 .. C + D /\ N2[l].childrenIds[i] = x
        BY <1>6, <1>8, <4>1
      <4>3. N2[x].parentId = l
        BY <1>1, <1>4, <3>4
      <4> QED
        BY <1>6, <4>2, <4>3
    <3>5. CASE q = p
      <4>1. i \in 1 .. P + 1 /\ pids[i] = x
        BY <1>1, <3>1, <3>5 DEF pids
      <4>2. N2[x].parentId = p
        BY <1>1, <1>4, <3>5
      <4>3. i # k + 1
        BY <1>2, <2>1, <4>1
      <4>4. CASE i <= k
        <5>1. i \in 1 .. P /\ N2[p].childrenIds[i] = x
          BY <1>2, <1>6, <1>8, <4>1, <4>4
        <5> QED
          BY <1>6, <4>2, <5>1
      <4>5. CASE ~ (i <= k)
        <5>1. i - 1 \in 1 .. P /\ ~ (i - 1 <= k) /\ (i - 1) + 1 = i
          BY <1>2, <1>8, <4>1, <4>3, <4>5
        <5>2. N2[p].childrenIds[i - 1] = x
          BY <1>6, <4>1, <5>1
        <5> QED
          BY <1>6, <4>2, <5>1, <5>2
      <4> QED
        BY <4>4, <4>5
    <3>6. CASE q \notin {l, r, p}
      <4>1. N2[q].childrenIds = N[q].childrenIds /\ N2[x].parentId = q
        BY <1>4, <1>6, <3>2, <3>6
      <4> QED
        BY <3>1, <4>1
    <3> QED
      BY <3>3, <3>4, <3>5, <3>6
  <2>6. Listed
    BY <2>5
  <2> QED
    BY <2>2, <2>3, <2>4, <2>6 DEF Connected
<1> QED
  BY <1>11, <1>12, <1>13

(* After a merge the leaves are still on one level.                        *)
LEMMA MergeRanked ==
  ASSUME NEW N, NEW R, NEW h, NEW lo, NEW hi, SearchTree(N, R, h, lo, hi),
         NEW p, NEW k, NEW l, NEW r, MayBeMerged(N, p, k, l, r),
         NEW N2, MergeOf(N, N2, p, k, l, r), NEW x \in DOMAIN N2
  PROVE  Ranked(N2, R, MergeHeights(N, h, r), x)
<1> DEFINE g == MergeHeights(N, h, r)
           C == Len(N[l].childrenIds)
           D == Len(N[r].childrenIds)
           P == Len(N[p].entries)
<1>1. /\ p \in DOMAIN N /\ l \in DOMAIN N /\ r \in DOMAIN N
      /\ l # r /\ l # p /\ r # p /\ l # R /\ r # R
      /\ (IsLeaf(N[l]) <=> IsLeaf(N[r]))
      /\ Len(N[p].childrenIds) = P + 1 /\ h[p] = h[l] + 1 /\ h[r] = h[l]
  BY Siblings
<1>2. /\ DOMAIN N2 = DOMAIN N \ {r} /\ R \in DOMAIN N
      /\ \A c \in DOMAIN N2 : N2[c].childrenIds \in Seq(DOMAIN N2)
  BY NodeFacts DEF MergeOf, Typed, SearchTree, WellTyped
<1>3. \A c \in DOMAIN N2 : g[c] = h[c]
  BY <1>2 DEF MergeHeights
<1>4. \A c \in DOMAIN N :
        /\ h[c] <= h[R]
        /\ IsLeaf(N[c]) => h[c] = 0
        /\ IsLeaf(N[c]) <=> Len(N[c].childrenIds) = 0
        /\ Len(N[c].childrenIds) \in Nat
        /\ \A i \in 1 .. Len(N[c].childrenIds) : h[c] = h[N[c].childrenIds[i]] + 1
  BY NodeFacts DEF SearchTree, Ranked
<1>5. /\ Len(N2[l].childrenIds) = C + D
      /\ \A i \in 1 .. C : N2[l].childrenIds[i] = N[l].childrenIds[i]
      /\ \A i \in 1 .. D : N2[l].childrenIds[C + i] = N[r].childrenIds[i]
      /\ Len(N2[p].childrenIds) = P
      /\ \A i \in 1 .. P : N2[p].childrenIds[i] = IF i <= k THEN N[p].childrenIds[i] ELSE N[p].childrenIds[i + 1]
      /\ \A c \in DOMAIN N2 \ {l, p} : N2[c].childrenIds = N[c].childrenIds
  BY DEF MergeOf, MergeChildren
<1>6. k \in 1 .. P /\ P \in Nat /\ C \in Nat /\ D \in Nat
  BY <1>1, NodeFacts DEF MayBeMerged
<1>7. /\ IsLeaf(N2[x]) <=> Len(N2[x].childrenIds) = 0
      /\ \A i \in 1 .. Len(N2[x].childrenIds) : N2[x].childrenIds[i] \in DOMAIN N2
  BY <1>2 DEF IsLeaf
<1>8. C = Len(N[l].childrenIds) /\ D = Len(N[r].childrenIds) /\ Len(N[p].childrenIds) = P + 1
  BY <1>1
<1> HIDE DEF g, C, D, P
<1>9. ASSUME NEW i \in 1 .. Len(N2[x].childrenIds)
      PROVE  h[x] = h[N2[x].childrenIds[i]] + 1
  <2>1. CASE x = l
    <3>1. CASE i <= C
      <4>1. i \in 1 .. C
        BY <1>5, <1>6, <2>1, <3>1
      <4> QED
        BY SMTT(30), <1>1, <1>4, <1>5, <1>8, <2>1, <4>1
    <3>2. CASE ~ (i <= C)
      <4>1. PICK j \in 1 .. D : i = C + j
        <5>1. i - C \in 1 .. D /\ i = C + (i - C)
          BY <1>5, <1>6, <2>1, <3>2
        <5> QED
          BY <5>1
      <4>2. N2[l].childrenIds[i] = N[r].childrenIds[j] /\ h[r] = h[N[r].childrenIds[j]] + 1
        BY <1>1, <1>4, <1>5, <1>8, <4>1
      <4> QED
        BY <1>1, <2>1, <4>2
    <3> QED
      BY <3>1, <3>2
  <2>2. CASE x = p
    <3>1. i \in 1 .. P /\ i \in 1 .. P + 1 /\ i + 1 \in 1 .. P + 1
      BY <1>5, <1>6, <2>2
    <3>2. N2[p].childrenIds[i] \in {N[p].childrenIds[i], N[p].childrenIds[i + 1]}
      BY <1>5, <3>1
    <3>3. h[p] = h[N[p].childrenIds[i]] + 1 /\ h[p] = h[N[p].childrenIds[i + 1]] + 1
      BY <1>1, <1>4, <1>8, <3>1
    <3> QED
      BY <2>2, <3>2, <3>3
  <2>3. CASE x \notin {l, p}
    <3>1. x \in DOMAIN N /\ N2[x].childrenIds = N[x].childrenIds
      BY <1>2, <1>5, <2>3
    <3> QED
      BY <1>4, <3>1
  <2> QED
    BY <2>1, <2>2, <2>3
<1>10. IsLeaf(N2[x]) => h[x] = 0
  <2> SUFFICES ASSUME Len(N2[x].childrenIds) = 0 PROVE h[x] = 0
    BY <1>7
  <2>1. CASE x = l
    <3>1. C = 0
      BY <1>5, <1>6, <2>1
    <3> QED
      BY <1>1, <1>4, <1>8, <2>1, <3>1
  <2>2. CASE x = p
    BY <1>5, <1>6, <2>2
  <2>3. CASE x \notin {l, p}
    <3>1. x \in DOMAIN N /\ N2[x].childrenIds = N[x].childrenIds
      BY <1>2, <1>5, <2>3
    <3> QED
      BY <1>4, <3>1
  <2> QED
    BY <2>1, <2>2, <2>3
<1>11. g[R] = h[R] /\ h[x] <= h[R] /\ g[x] = h[x]
  BY <1>1, <1>2, <1>3, <1>4
<1> QED
  BY <1>3, <1>7, <1>9, <1>10, <1>11 DEF Ranked, g

(* After a merge the keys ascend in every node and stay within its bounds. *)
LEMMA MergeOrdered ==
  ASSUME NEW N, NEW R, NEW h, NEW lo, NEW hi, SearchTree(N, R, h, lo, hi),
         NEW p, NEW k, NEW l, NEW r, MayBeMerged(N, p, k, l, r),
         NEW N2, MergeOf(N, N2, p, k, l, r), NEW x \in DOMAIN N2
  PROVE  Ordered(N2, R, MergeHeights(N, lo, r), MergeUpper(N, hi, l, r), x)
<1> DEFINE lids == N[l].childrenIds
           rids == N[r].childrenIds
           pids == N[p].childrenIds
           le == N[l].entries
           re == N[r].entries
           pe == N[p].entries
           P == Len(N[p].entries)
           L == Len(N[l].entries)
           M == Len(N[r].entries)
           C == Len(lids)
           D == Len(rids)
           m == pe[k][1]
           lo2 == MergeHeights(N, lo, r)
           hi2 == MergeUpper(N, hi, l, r)
<1>1. /\ p \in DOMAIN N /\ l \in DOMAIN N /\ r \in DOMAIN N
      /\ l # r /\ l # p /\ r # p /\ l # R /\ r # R
      /\ (IsLeaf(N[l]) <=> IsLeaf(N[r]))
      /\ Len(pids) = P + 1 /\ N[l].parentId = p
      /\ hi[l] = m /\ lo[r] = m
      /\ lo[l] = IF k = 1 THEN lo[p] ELSE pe[k - 1][1]
      /\ hi[r] = IF k = P THEN hi[p] ELSE pe[k + 1][1]
  BY Siblings
<1>2. k \in 1 .. P /\ pids[k] = l /\ pids[k + 1] = r
  BY DEF MayBeMerged
<1>3. \A c \in DOMAIN N :
        /\ IsLeaf(N[c]) \/ Len(N[c].childrenIds) = Len(N[c].entries) + 1
        /\ Len(N[c].childrenIds) \in Nat /\ Len(N[c].entries) \in Nat
        /\ IsLeaf(N[c]) <=> Len(N[c].childrenIds) = 0
        /\ \A i, j \in 1 .. Len(N[c].childrenIds) :
                N[c].childrenIds[i] = N[c].childrenIds[j] => i = j
        /\ \A i \in 1 .. Len(N[c].childrenIds) : N[c].childrenIds[i] \in DOMAIN N
                                                /\ N[N[c].childrenIds[i]].parentId = c
  BY Links
<1>4. DOMAIN N2 = DOMAIN N \ {r} /\ R \in DOMAIN N
  BY NodeFacts DEF MergeOf, SearchTree, WellTyped
<1>5. /\ Len(N2[l].entries) = L + 1 + M
      /\ \A i \in 1 .. L : N2[l].entries[i] = le[i]
      /\ N2[l].entries[L + 1] = pe[k]
      /\ \A i \in 1 .. M : N2[l].entries[L + 1 + i] = re[i]
      /\ Len(N2[p].entries) = P - 1
      /\ \A i \in 1 .. P - 1 : N2[p].entries[i] = IF i < k THEN pe[i] ELSE pe[i + 1]
      /\ \A c \in DOMAIN N2 \ {l, p} : N2[c].entries = N[c].entries
  BY DEF MergeOf, MergeEntries
<1>6. /\ Len(N2[l].childrenIds) = C + D
      /\ \A i \in 1 .. C : N2[l].childrenIds[i] = lids[i]
      /\ \A i \in 1 .. D : N2[l].childrenIds[C + i] = rids[i]
      /\ Len(N2[p].childrenIds) = P
      /\ \A i \in 1 .. P : N2[p].childrenIds[i] = IF i <= k THEN pids[i] ELSE pids[i + 1]
      /\ \A c \in DOMAIN N2 \ {l, p} : N2[c].childrenIds = N[c].childrenIds
  BY DEF MergeOf, MergeChildren
<1>7. /\ lo2[l] = lo[l] /\ hi2[l] = hi[r] /\ lo2[p] = lo[p] /\ hi2[p] = hi[p]
      /\ hi2[R] = hi[R]
      /\ \A c \in DOMAIN N \ {r} : lo2[c] = lo[c] /\ (c # l => hi2[c] = hi[c])
  BY <1>1, <1>4 DEF MergeHeights, MergeUpper
<1>8. /\ P \in Nat /\ L \in Nat /\ M \in Nat /\ C \in Nat /\ D \in Nat
      /\ C # 0 => C = L + 1 /\ D = M + 1
      /\ C = 0 => D = 0
  <2>1. CASE IsLeaf(N[l])
    BY <1>1, <1>3, <2>1
  <2>2. CASE ~ IsLeaf(N[l])
    BY <1>1, <1>3, <2>2
  <2> QED
    BY <2>1, <2>2
<1>9. \A c \in DOMAIN N :
           /\ lo[c] \in Int /\ hi[c] \in Int
           /\ lo[c] < hi[c] /\ hi[c] <= hi[R]
           /\ \A i \in 1 .. Len(N[c].entries) :
                /\ N[c].entries[i][1] \in Nat
                /\ lo[c] < N[c].entries[i][1] /\ N[c].entries[i][1] < hi[c]
           /\ \A i, j \in 1 .. Len(N[c].entries) : i < j => N[c].entries[i][1] < N[c].entries[j][1]
           /\ \A i \in 1 .. Len(N[c].childrenIds) :
                /\ lo[N[c].childrenIds[i]] = IF i = 1 THEN lo[c] ELSE N[c].entries[i - 1][1]
                /\ hi[N[c].childrenIds[i]] = IF i = Len(N[c].childrenIds) THEN hi[c]
                                             ELSE N[c].entries[i][1]
  BY Bounds
<1>10. /\ \A i \in 1 .. P : pe[i][1] \in Nat /\ lo[p] < pe[i][1] /\ pe[i][1] < hi[p]
       /\ \A i, j \in 1 .. P : i < j => pe[i][1] < pe[j][1]
       /\ \A i \in 1 .. Len(pids) :
            /\ pids[i] \in DOMAIN N
            /\ lo[pids[i]] = IF i = 1 THEN lo[p] ELSE pe[i - 1][1]
            /\ hi[pids[i]] = IF i = Len(pids) THEN hi[p] ELSE pe[i][1]
       /\ \A i, j \in 1 .. Len(pids) : pids[i] = pids[j] => i = j
  BY <1>1, <1>3, <1>9
<1>11. /\ \A i \in 1 .. L : le[i][1] \in Nat /\ lo[l] < le[i][1] /\ le[i][1] < m
       /\ \A i, j \in 1 .. L : i < j => le[i][1] < le[j][1]
       /\ \A i \in 1 .. C :
            /\ lids[i] \in DOMAIN N /\ N[lids[i]].parentId = l
            /\ lo[lids[i]] = IF i = 1 THEN lo[l] ELSE le[i - 1][1]
            /\ hi[lids[i]] = IF i = C THEN m ELSE le[i][1]
  BY <1>1, <1>3, <1>9
<1>12. /\ \A i \in 1 .. M : re[i][1] \in Nat /\ m < re[i][1] /\ re[i][1] < hi[r]
       /\ \A i, j \in 1 .. M : i < j => re[i][1] < re[j][1]
       /\ \A i \in 1 .. D :
            /\ rids[i] \in DOMAIN N /\ N[rids[i]].parentId = r
            /\ lo[rids[i]] = IF i = 1 THEN m ELSE re[i - 1][1]
            /\ hi[rids[i]] = IF i = D THEN hi[r] ELSE re[i][1]
  BY <1>1, <1>3, <1>9
<1>13. /\ m \in Nat /\ lo[l] \in Int /\ hi[r] \in Int /\ lo[l] < m /\ m < hi[r] /\ hi[r] <= hi[R]
       /\ lo[p] \in Int /\ hi[p] \in Int /\ lo[p] < hi[p] /\ hi[p] <= hi[R] /\ hi[R] \in Int
  BY <1>1, <1>2, <1>4, <1>9, <1>10
<1>14. r \notin {lids[i] : i \in 1 .. C} /\ l \notin {lids[i] : i \in 1 .. C}
  BY <1>1, <1>11, Siblings
<1>15. r \notin {rids[i] : i \in 1 .. D} /\ l \notin {rids[i] : i \in 1 .. D}
  BY <1>1, <1>12, Siblings
<1> HIDE DEF lids, rids, pids, P, L, M, C, D, le, re, pe, m, lo2, hi2
<1>16. CASE x = l
  <2> DEFINE f == N2[l].entries
  <2>1. \A i \in 1 .. L + 1 + M :
          \/ i \in 1 .. L /\ f[i] = le[i]
          \/ i = L + 1 /\ f[i] = pe[k]
          \/ \E j \in 1 .. M : i = L + 1 + j /\ f[i] = re[j]
    <3> TAKE i \in 1 .. L + 1 + M
    <3>1. CASE i > L + 1
      <4>1. i - (L + 1) \in 1 .. M /\ i = L + 1 + (i - (L + 1))
        BY <1>8, <3>1
      <4> QED
        BY <1>5, <4>1
    <3>2. CASE i = L + 1
      BY <1>5, <3>2
    <3>3. CASE i < L + 1
      <4>1. i \in 1 .. L
        BY <1>8, <3>3
      <4> QED
        BY <1>5, <4>1
    <3> QED
      BY <1>8, <3>1, <3>2, <3>3
  <2> HIDE DEF f
  <2>2. \A i \in 1 .. L + 1 + M : lo2[l] < f[i][1] /\ f[i][1] < hi2[l]
    <3> TAKE i \in 1 .. L + 1 + M
    <3>1. CASE i \in 1 .. L /\ f[i] = le[i]
      BY <1>7, <1>11, <1>13, <3>1
    <3>2. CASE i = L + 1 /\ f[i] = pe[k]
      BY <1>7, <1>13, <3>2 DEF m
    <3>3. CASE \E j \in 1 .. M : i = L + 1 + j /\ f[i] = re[j]
      BY <1>7, <1>12, <1>13, <3>3
    <3> QED
      BY <2>1, <3>1, <3>2, <3>3
  <2>3. Ascending(f)
    <3> SUFFICES ASSUME NEW i \in 1 .. L + 1 + M, NEW j \in 1 .. L + 1 + M, i < j
                 PROVE  f[i][1] < f[j][1]
      BY <1>5 DEF Ascending, f
    <3>1. CASE i \in 1 .. L /\ f[i] = le[i]
      <4>1. CASE j \in 1 .. L /\ f[j] = le[j]
        BY <1>11, <3>1, <4>1
      <4>2. CASE j = L + 1 /\ f[j] = pe[k]
        BY <1>11, <3>1, <4>2 DEF m
      <4>3. CASE \E n \in 1 .. M : j = L + 1 + n /\ f[j] = re[n]
        <5>1. PICK n \in 1 .. M : f[j] = re[n]
          BY <4>3
        <5>2. f[i][1] < m /\ m < f[j][1] /\ f[i][1] \in Nat /\ f[j][1] \in Nat
          BY <1>11, <1>12, <3>1, <5>1
        <5> QED
          BY <1>13, <5>2
      <4> QED
        BY <2>1, <4>1, <4>2, <4>3
    <3>2. CASE i = L + 1 /\ f[i] = pe[k]
      <4>1. PICK n \in 1 .. M : f[j] = re[n]
        BY <1>8, <2>1, <3>2
      <4> QED
        BY <1>12, <3>2, <4>1 DEF m
    <3>3. CASE \E a \in 1 .. M : i = L + 1 + a /\ f[i] = re[a]
      <4>1. PICK a \in 1 .. M : i = L + 1 + a /\ f[i] = re[a]
        BY <3>3
      <4>2. PICK n \in 1 .. M : j = L + 1 + n /\ f[j] = re[n]
        BY <1>8, <2>1, <4>1
      <4>3. a < n
        BY <1>8, <4>1, <4>2
      <4> QED
        BY <1>12, <4>1, <4>2, <4>3
    <3> QED
      BY <2>1, <3>1, <3>2, <3>3
  <2>4. lo2[l] < hi2[l] /\ hi2[l] <= hi2[R]
    BY <1>7, <1>13
  <2>5. ASSUME NEW i \in 1 .. C + D
        PROVE  /\ lo2[N2[l].childrenIds[i]] = IF i = 1 THEN lo2[l] ELSE f[i - 1][1]
               /\ hi2[N2[l].childrenIds[i]] = IF i = C + D THEN hi2[l] ELSE f[i][1]
    <3>1. C # 0 /\ C = L + 1 /\ D = M + 1
      BY <1>8
    <3>2. CASE i <= C
      <4>1. i \in 1 .. C /\ i # C + D
        BY <1>8, <3>1, <3>2
      <4>2. N2[l].childrenIds[i] = lids[i] /\ lids[i] \in DOMAIN N \ {r} /\ lids[i] # l
        BY <1>6, <1>11, <1>14, <4>1
      <4>3. lo2[lids[i]] = lo[lids[i]] /\ hi2[lids[i]] = hi[lids[i]]
        BY <1>7, <4>2
      <4>4. i # 1 => f[i - 1] = le[i - 1]
        <5> SUFFICES ASSUME i # 1 PROVE f[i - 1] = le[i - 1]
          OBVIOUS
        <5>1. i - 1 \in 1 .. L
          BY <1>8, <3>1, <4>1
        <5> QED
          BY <1>5, <5>1 DEF f
      <4>5. f[i][1] = IF i = C THEN m ELSE le[i][1]
        <5>1. CASE i = C
          BY <1>5, <3>1, <5>1 DEF f, m
        <5>2. CASE i # C
          <6>1. i \in 1 .. L
            BY <1>8, <3>1, <4>1, <5>2
          <6> QED
            BY <1>5, <5>2, <6>1 DEF f
        <5> QED
          BY <5>1, <5>2
      <4> QED
        BY <1>7, <1>11, <4>1, <4>2, <4>3, <4>4, <4>5
    <3>3. CASE ~ (i <= C)
      <4>1. PICK j \in 1 .. D : i = C + j
        <5>1. i - C \in 1 .. D /\ i = C + (i - C)
          BY <1>8, <3>3
        <5> QED
          BY <5>1
      <4>2. N2[l].childrenIds[i] = rids[j] /\ rids[j] \in DOMAIN N \ {r} /\ rids[j] # l
        BY <1>6, <1>12, <1>15, <4>1
      <4>3. lo2[rids[j]] = lo[rids[j]] /\ hi2[rids[j]] = hi[rids[j]]
        BY <1>7, <4>2
      <4>4. f[i - 1][1] = IF j = 1 THEN m ELSE re[j - 1][1]
        <5>1. CASE j = 1
          <6>1. i - 1 = L + 1
            BY <1>8, <3>1, <4>1, <5>1
          <6> QED
            BY <1>5, <5>1, <6>1 DEF f, m
        <5>2. CASE j # 1
          <6>1. j - 1 \in 1 .. M /\ i - 1 = L + 1 + (j - 1)
            BY <1>8, <3>1, <4>1, <5>2
          <6>2. f[L + 1 + (j - 1)] = re[j - 1]
            BY <1>5, <6>1 DEF f
          <6> QED
            BY <5>2, <6>1, <6>2
        <5> QED
          BY <5>1, <5>2
      <4>5. j # D => f[i] = re[j]
        <5> SUFFICES ASSUME j # D PROVE f[i] = re[j]
          OBVIOUS
        <5>1. j \in 1 .. M /\ i = L + 1 + j
          BY <1>8, <3>1, <4>1
        <5> QED
          BY <1>5, <5>1 DEF f
      <4>6. i # 1 /\ (i = C + D <=> j = D)
        BY <1>8, <3>1, <4>1
      <4> QED
        BY <1>7, <1>12, <4>1, <4>2, <4>3, <4>4, <4>5, <4>6
    <3> QED
      BY <3>2, <3>3
  <2> QED
    BY <1>5, <1>6, <1>16, <2>2, <2>3, <2>4, <2>5 DEF Ordered, f, lo2, hi2
<1>17. CASE x = p
  <2> DEFINE f == N2[p].entries
  <2>1. \A i \in 1 .. P - 1 : f[i] = IF i < k THEN pe[i] ELSE pe[i + 1]
    BY <1>5
  <2> HIDE DEF f
  <2>2. \A i \in 1 .. P - 1 : lo2[p] < f[i][1] /\ f[i][1] < hi2[p]
    <3> TAKE i \in 1 .. P - 1
    <3>1. i \in 1 .. P /\ i + 1 \in 1 .. P /\ f[i] \in {pe[i], pe[i + 1]}
      BY <1>8, <2>1
    <3> QED
      BY <1>7, <1>10, <3>1
  <2>3. Ascending(f)
    <3> SUFFICES ASSUME NEW i \in 1 .. P - 1, NEW j \in 1 .. P - 1, i < j
                 PROVE  f[i][1] < f[j][1]
      BY <1>5 DEF Ascending, f
    <3>1. /\ i \in 1 .. P /\ j \in 1 .. P /\ i + 1 \in 1 .. P /\ j + 1 \in 1 .. P
          /\ i + 1 < j + 1 /\ i < j + 1 /\ k \in Nat
      BY <1>2, <1>8
    <3>2. CASE j < k
      <4>1. f[i] = pe[i] /\ f[j] = pe[j]
        BY <2>1, <3>1, <3>2
      <4> QED
        BY <1>10, <3>1, <4>1
    <3>3. CASE ~ (j < k) /\ i < k
      <4>1. f[i] = pe[i] /\ f[j] = pe[j + 1]
        BY <2>1, <3>1, <3>3
      <4> QED
        BY <1>10, <3>1, <4>1
    <3>4. CASE ~ (i < k) /\ ~ (j < k)
      <4>1. f[i] = pe[i + 1] /\ f[j] = pe[j + 1]
        BY <2>1, <3>1, <3>4
      <4> QED
        BY <1>10, <3>1, <4>1
    <3> QED
      BY <3>1, <3>2, <3>3, <3>4
  <2>4. lo2[p] < hi2[p] /\ hi2[p] <= hi2[R]
    BY <1>7, <1>13
  <2>5. \A i \in 1 .. P + 1 : i \notin {k, k + 1} => pids[i] \notin {l, r}
    <3>1. k \in 1 .. P + 1 /\ k + 1 \in 1 .. P + 1
      BY <1>2, <1>8
    <3> QED
      BY <1>1, <1>2, <1>10, <3>1
  <2>6. ASSUME NEW i \in 1 .. P
        PROVE  /\ lo2[N2[p].childrenIds[i]] = IF i = 1 THEN lo2[p] ELSE f[i - 1][1]
               /\ hi2[N2[p].childrenIds[i]] = IF i = P THEN hi2[p] ELSE f[i][1]
    <3>0. i \in Nat /\ k \in Nat
      BY <1>2, <1>8
    <3>1. CASE i < k
      <4>1. /\ i \in 1 .. P + 1 /\ i \notin {k, k + 1} /\ i # P /\ i # P + 1
            /\ i \in 1 .. P - 1 /\ i - 1 < k /\ (i # 1 => i - 1 \in 1 .. P - 1)
        BY <1>2, <1>8, <3>1
      <4>2. /\ N2[p].childrenIds[i] = pids[i] /\ pids[i] \in DOMAIN N \ {r} /\ pids[i] # l
            /\ lo[pids[i]] = IF i = 1 THEN lo[p] ELSE pe[i - 1][1]
            /\ hi[pids[i]] = pe[i][1]
        BY <1>1, <1>6, <1>10, <2>5, <3>0, <3>1, <4>1
      <4>3. f[i] = pe[i] /\ (i # 1 => f[i - 1] = pe[i - 1])
        BY <2>1, <3>1, <4>1
      <4> QED
        BY <1>7, <4>1, <4>2, <4>3
    <3>2. CASE i = k
      <4>1. /\ i \in 1 .. P + 1 /\ i - 1 < k /\ (i # 1 => i - 1 \in 1 .. P - 1)
            /\ (i # P => i \in 1 .. P - 1)
        BY <1>2, <1>8, <3>2
      <4>2. N2[p].childrenIds[i] = l
        BY <1>2, <1>6, <3>0, <3>2
      <4>3. (i # P => f[i] = pe[i + 1]) /\ (i # 1 => f[i - 1] = pe[i - 1])
        BY <2>1, <3>0, <3>2, <4>1
      <4> QED
        BY <1>1, <1>7, <3>2, <4>1, <4>2, <4>3
    <3>3. CASE k < i
      <4> DEFINE j == i + 1
      <4>1. /\ j \in 1 .. P + 1 /\ j \notin {k, k + 1} /\ i # 1 /\ j # 1 /\ j - 1 = i
            /\ (i = P <=> j = P + 1) /\ ~ (i <= k) /\ ~ (i - 1 < k) /\ (i - 1) + 1 = i
            /\ (i # P => i \in 1 .. P - 1) /\ i - 1 \in 1 .. P - 1 /\ ~ (i < k)
        BY <1>2, <1>8, <3>0, <3>3
      <4>2. N2[p].childrenIds[i] = pids[j]
        BY <1>6, <4>1
      <4>3. f[i - 1] = pe[i] /\ (i # P => f[i] = pe[j])
        BY <2>1, <4>1
      <4> HIDE DEF j
      <4>4. /\ pids[j] \in DOMAIN N \ {r} /\ pids[j] # l
            /\ lo[pids[j]] = pe[i][1]
            /\ hi[pids[j]] = IF j = P + 1 THEN hi[p] ELSE pe[j][1]
        BY <1>1, <1>10, <2>5, <4>1
      <4> QED
        BY <1>7, <4>1, <4>2, <4>3, <4>4
    <3> QED
      BY <3>0, <3>1, <3>2, <3>3
  <2> QED
    BY <1>5, <1>6, <1>17, <2>2, <2>3, <2>4, <2>6 DEF Ordered, f, lo2, hi2
<1>18. CASE x \notin {l, p}
  <2>1. /\ x \in DOMAIN N /\ x # r /\ N2[x].childrenIds = N[x].childrenIds
        /\ N2[x].entries = N[x].entries
    BY <1>4, <1>5, <1>6, <1>18
  <2>2. lo2[x] = lo[x] /\ hi2[x] = hi[x]
    BY <1>7, <1>18, <2>1
  <2>3. \A i \in 1 .. Len(N[x].childrenIds) : /\ lo2[N[x].childrenIds[i]] = lo[N[x].childrenIds[i]]
                                              /\ hi2[N[x].childrenIds[i]] = hi[N[x].childrenIds[i]]
    <3> TAKE i \in 1 .. Len(N[x].childrenIds)
    <3>1. N[x].childrenIds[i] \in DOMAIN N /\ N[N[x].childrenIds[i]].parentId = x
      BY <1>3, <2>1
    <3>2. N[x].childrenIds[i] # l /\ N[x].childrenIds[i] # r
      BY <1>18, <3>1, Siblings
    <3> QED
      BY <1>7, <3>1, <3>2
  <2>4. Ordered(N, R, lo, hi, x)
    BY <2>1 DEF SearchTree
  <2> QED
    BY <1>7, <2>1, <2>2, <2>3, <2>4 DEF Ordered, lo2, hi2
<1> QED
  BY <1>16, <1>17, <1>18

(* A search tree stays one when two neighbouring nodes of it are merged.   *)
LEMMA MergeTree ==
  ASSUME NEW N, NEW R, NEW h, NEW lo, NEW hi, SearchTree(N, R, h, lo, hi),
         NEW p, NEW k, NEW l, NEW r, MayBeMerged(N, p, k, l, r),
         NEW N2, MergeOf(N, N2, p, k, l, r)
  PROVE  SearchTree(N2, R, MergeHeights(N, h, r), MergeHeights(N, lo, r), MergeUpper(N, hi, l, r))
<1>1. /\ IsFiniteSet(DOMAIN N) /\ DOMAIN N \subseteq Nat \ {0} /\ R \in DOMAIN N
      /\ \A x \in DOMAIN N : N[x].parentId \in DOMAIN N \cup {0}
      /\ lo[R] = -1 /\ lo \in [DOMAIN N -> Int] /\ hi \in [DOMAIN N -> Int] /\ h \in [DOMAIN N -> Nat]
  BY DEF SearchTree, WellTyped
<1>2. r # R /\ r \in DOMAIN N /\ l \in DOMAIN N /\ l # r
  BY Siblings
<1>3. DOMAIN N2 = DOMAIN N \ {r} /\ Typed(N2) /\ MergeParents(N, N2, l, r)
  BY DEF MergeOf
<1>4. \A x \in DOMAIN N2 : N2[x].parentId \in DOMAIN N2 \cup {0}
  BY <1>1, <1>2, <1>3 DEF MergeParents
<1>5. IsFiniteSet(DOMAIN N2)
  BY <1>1, <1>3, FS_Subset
<1>6. WellTyped(N2, R)
  BY <1>1, <1>2, <1>3, <1>4, <1>5 DEF WellTyped, Typed
<1>7. /\ MergeHeights(N, h, r) \in [DOMAIN N2 -> Nat]
      /\ MergeHeights(N, lo, r) \in [DOMAIN N2 -> Int]
      /\ MergeUpper(N, hi, l, r) \in [DOMAIN N2 -> Int]
  BY <1>1, <1>2, <1>3 DEF MergeHeights, MergeUpper
<1>8. MergeHeights(N, lo, r)[R] = -1
  BY <1>1, <1>2 DEF MergeHeights
<1> QED
  BY <1>6, <1>7, <1>8, MergeConnected, MergeRanked, MergeOrdered DEF SearchTree

-----------------------------------------------------------------------------
(* Which entries there are.                                                *)

Has(N, e) == \E a \in DOMAIN N : \E i \in 1 .. Len(N[a].entries) : N[a].entries[i] = e

SameEntries(N, N2) == \A e : Has(N2, e) <=> Has(N, e)

(* What a node has the nodes have.                                         *)
LEMMA HasEntry ==
  ASSUME NEW N, NEW a \in DOMAIN N, NEW i \in 1 .. Len(N[a].entries), NEW e, e = N[a].entries[i]
  PROVE  Has(N, e)
BY DEF Has

(* Two steps that change no entry change none.                             *)
LEMMA StillSame ==
  ASSUME NEW N, NEW J, NEW N2, SameEntries(N, J), SameEntries(J, N2)
  PROVE  SameEntries(N, N2)
BY DEF SameEntries

(* Nodes that have each other's entries have the same ones.                *)
LEMMA SameBothWays ==
  ASSUME NEW N, NEW N2,
         \A x \in DOMAIN N2 : \A i \in 1 .. Len(N2[x].entries) : Has(N, N2[x].entries[i]),
         \A x \in DOMAIN N : \A i \in 1 .. Len(N[x].entries) : Has(N2, N[x].entries[i])
  PROVE  SameEntries(N, N2)
<1>1. ASSUME NEW e, Has(N2, e) PROVE Has(N, e)
  BY <1>1 DEF Has
<1>2. ASSUME NEW e, Has(N, e) PROVE Has(N2, e)
  BY <1>2 DEF Has
<1> QED
  BY <1>1, <1>2 DEF SameEntries

(* A split moves entries and loses none.                                   *)
LEMMA SplitKeepsEntries ==
  ASSUME NEW N, NEW R, NEW h, NEW lo, NEW hi, SearchTree(N, R, h, lo, hi),
         NEW id, NEW s, NEW k, NEW new, MayBeSplit(N, R, id, s, k, new),
         NEW N2, SplitOf(N, N2, id, s, k, new)
  PROVE  SameEntries(N, N2)
<1> DEFINE p == N[id].parentId
           e == N[id].entries
           pe == N[p].entries
           L == Len(e)
           P == Len(pe)
           D == DOMAIN N
<1>1. /\ id \in D /\ id # R /\ s \in 1 .. L /\ k \in 1 .. P + 1 /\ new \notin D
  BY DEF MayBeSplit
<1>2. p \in D /\ p # id /\ P \in Nat /\ L \in Nat
  <2>1. p \in D /\ h[p] = h[id] + 1
    BY <1>1, IsChild
  <2>2. h[id] \in Nat /\ L \in Nat
    BY <1>1, NodeFacts
  <2>3. P \in Nat
    BY <2>1, NodeFacts
  <2> QED
    BY <2>1, <2>2, <2>3
<1>3. /\ DOMAIN N2 = D \cup {new}
      /\ Len(N2[id].entries) = s - 1 /\ \A i \in 1 .. s - 1 : N2[id].entries[i] = e[i]
      /\ Len(N2[new].entries) = L - s
      /\ \A i \in 1 .. L - s : N2[new].entries[i] = e[s + i]
      /\ Len(N2[p].entries) = P + 1
      /\ \A i \in 1 .. P + 1 :
           N2[p].entries[i] = IF i < k THEN pe[i] ELSE IF i = k THEN e[s] ELSE pe[i - 1]
      /\ \A x \in D \ {id, p} : N2[x].entries = N[x].entries
  BY DEF SplitOf, SplitEntries
<1>4. /\ \A i \in 1 .. L : Has(N, e[i])
      /\ \A i \in 1 .. P : Has(N, pe[i])
  BY <1>1, <1>2, HasEntry
<1>5. /\ \A i \in 1 .. s - 1 : Has(N2, e[i])
      /\ \A i \in 1 .. L - s : Has(N2, e[s + i])
      /\ \A i \in 1 .. P + 1 : Has(N2, N2[p].entries[i])
  <2>1. id \in DOMAIN N2 /\ new \in DOMAIN N2 /\ p \in DOMAIN N2
    BY <1>1, <1>2, <1>3
  <2>2. \A x \in DOMAIN N2 : \A i \in 1 .. Len(N2[x].entries) : Has(N2, N2[x].entries[i])
    BY HasEntry
  <2>3. /\ \A i \in 1 .. s - 1 : Has(N2, N2[id].entries[i])
        /\ \A i \in 1 .. L - s : Has(N2, N2[new].entries[i])
        /\ \A i \in 1 .. P + 1 : Has(N2, N2[p].entries[i])
    BY <1>3, <2>1, <2>2
  <2> QED
    BY <1>3, <2>3
<1> HIDE DEF p, e, pe, L, P
<1>6. ASSUME NEW x \in DOMAIN N2, NEW i \in 1 .. Len(N2[x].entries)
      PROVE  Has(N, N2[x].entries[i])
  <2>1. CASE x = id
    <3>1. i \in 1 .. L /\ N2[x].entries[i] = e[i]
      BY <1>1, <1>2, <1>3, <1>6, <2>1
    <3> QED
      BY <1>4, <3>1
  <2>2. CASE x = new
    <3>1. s + i \in 1 .. L /\ N2[x].entries[i] = e[s + i]
      BY <1>1, <1>2, <1>3, <1>6, <2>2
    <3> QED
      BY <1>4, <3>1
  <2>3. CASE x = p
    <3>1. i \in 1 .. P + 1 /\ N2[x].entries[i] = IF i < k THEN pe[i] ELSE IF i = k THEN e[s] ELSE pe[i - 1]
      BY <1>3, <1>6, <2>3
    <3>2. CASE i < k
      <4>1. i \in 1 .. P
        BY <1>1, <1>2, <3>1, <3>2
      <4> QED
        BY <1>4, <3>1, <3>2, <4>1
    <3>3. CASE i = k
      BY <1>1, <1>4, <3>1, <3>3
    <3>4. CASE i > k
      <4> DEFINE j == i - 1
      <4>1. j \in 1 .. P /\ N2[x].entries[i] = pe[j]
        BY <1>1, <1>2, <3>1, <3>4
      <4> HIDE DEF j
      <4> QED
        BY <1>4, <4>1
    <3> QED
      BY <1>1, <1>2, <3>1, <3>2, <3>3, <3>4
  <2>4. CASE x \in D \ {id, p}
    <3>1. N2[x].entries = N[x].entries
      BY <1>3, <2>4
    <3> QED
      BY <1>6, <2>4, <3>1, HasEntry
  <2> QED
    BY <1>3, <1>6, <2>1, <2>2, <2>3, <2>4
<1>7. ASSUME NEW x \in D, NEW i \in 1 .. Len(N[x].entries)
      PROVE  Has(N2, N[x].entries[i])
  <2>1. CASE x = id
    <3>1. i \in 1 .. L /\ N[x].entries[i] = e[i]
      BY <1>7, <2>1 DEF e, L
    <3>2. CASE i < s
      <4>1. i \in 1 .. s - 1
        BY <1>1, <1>2, <3>1, <3>2
      <4> QED
        BY <1>5, <3>1, <4>1
    <3>3. CASE i = s
      <4>1. k \in 1 .. P + 1 /\ N2[p].entries[k] = e[s]
        BY <1>1, <1>2, <1>3
      <4> QED
        BY <1>5, <3>1, <3>3, <4>1
    <3>4. CASE i > s
      <4> DEFINE j == i - s
      <4>1. j \in 1 .. L - s /\ s + j = i
        BY <1>1, <1>2, <3>1, <3>4
      <4> HIDE DEF j
      <4>2. Has(N2, e[s + j])
        BY <1>5, <4>1
      <4> QED
        BY <3>1, <4>1, <4>2
    <3> QED
      BY <1>1, <1>2, <3>1, <3>2, <3>3, <3>4
  <2>2. CASE x = p
    <3>1. i \in 1 .. P /\ N[x].entries[i] = pe[i]
      BY <1>7, <2>2 DEF pe, P
    <3>2. CASE i < k
      <4>1. i \in 1 .. P + 1 /\ N2[p].entries[i] = pe[i]
        BY <1>2, <1>3, <3>1, <3>2
      <4> QED
        BY <1>5, <3>1, <4>1
    <3>3. CASE ~ (i < k)
      <4> DEFINE j == i + 1
      <4>1. j \in 1 .. P + 1 /\ ~ (j < k) /\ j # k /\ j - 1 = i
        BY <1>1, <1>2, <3>1, <3>3
      <4> HIDE DEF j
      <4>2. N2[p].entries[j] = pe[i]
        BY <1>3, <4>1
      <4>3. Has(N2, N2[p].entries[j])
        BY <1>5, <4>1
      <4> QED
        BY <3>1, <4>2, <4>3
    <3> QED
      BY <3>2, <3>3
  <2>3. CASE x \notin {id, p}
    <3>1. N2[x].entries = N[x].entries /\ x \in DOMAIN N2
      BY <1>3, <2>3
    <3> QED
      BY <1>7, <3>1, HasEntry
  <2> QED
    BY <2>1, <2>2, <2>3
<1> QED
  BY <1>6, <1>7, SameBothWays

(* Nor does a merge.                                                       *)
LEMMA MergeKeepsEntries ==
  ASSUME NEW N, NEW R, NEW h, NEW lo, NEW hi, SearchTree(N, R, h, lo, hi),
         NEW p, NEW k, NEW l, NEW r, MayBeMerged(N, p, k, l, r),
         NEW N2, MergeOf(N, N2, p, k, l, r)
  PROVE  SameEntries(N, N2)
<1> DEFINE e == N[l].entries
           f == N[r].entries
           g == N[p].entries
           L == Len(e)
           M == Len(f)
           P == Len(g)
           D == DOMAIN N
<1>1. p \in D /\ l \in D /\ r \in D /\ l # r /\ l # p /\ r # p /\ k \in 1 .. P
  BY Siblings DEF MayBeMerged
<1>2. L \in Nat /\ M \in Nat /\ P \in Nat
  BY <1>1, NodeFacts
<1>3. /\ DOMAIN N2 = D \ {r}
      /\ Len(N2[l].entries) = L + 1 + M
      /\ \A i \in 1 .. L : N2[l].entries[i] = e[i]
      /\ N2[l].entries[L + 1] = g[k]
      /\ \A i \in 1 .. M : N2[l].entries[L + 1 + i] = f[i]
      /\ Len(N2[p].entries) = P - 1
      /\ \A i \in 1 .. P - 1 : N2[p].entries[i] = IF i < k THEN g[i] ELSE g[i + 1]
      /\ \A x \in DOMAIN N2 \ {l, p} : N2[x].entries = N[x].entries
  BY DEF MergeOf, MergeEntries
<1>4. /\ \A i \in 1 .. L : Has(N, e[i])
      /\ \A i \in 1 .. M : Has(N, f[i])
      /\ \A i \in 1 .. P : Has(N, g[i])
  BY <1>1, HasEntry
<1>5. /\ \A i \in 1 .. L + 1 + M : Has(N2, N2[l].entries[i])
      /\ \A i \in 1 .. P - 1 : Has(N2, N2[p].entries[i])
  <2>1. l \in DOMAIN N2 /\ p \in DOMAIN N2
    BY <1>1, <1>3
  <2> QED
    BY <1>3, <2>1, HasEntry
<1> HIDE DEF e, f, g, L, M, P
<1>6. ASSUME NEW x \in DOMAIN N2, NEW i \in 1 .. Len(N2[x].entries)
      PROVE  Has(N, N2[x].entries[i])
  <2>1. CASE x = l
    <3>0. i \in 1 .. L + 1 + M
      BY <1>3, <1>6, <2>1
    <3>1. CASE i \in 1 .. L
      BY <1>3, <1>4, <2>1, <3>1
    <3>2. CASE i = L + 1
      BY <1>1, <1>3, <1>4, <2>1, <3>2
    <3>3. CASE i > L + 1
      <4> DEFINE j == i - (L + 1)
      <4>1. j \in 1 .. M /\ L + 1 + j = i
        BY <1>2, <3>0, <3>3
      <4> HIDE DEF j
      <4>2. N2[l].entries[L + 1 + j] = f[j] /\ Has(N, f[j])
        BY <1>3, <1>4, <4>1
      <4> QED
        BY <2>1, <4>1, <4>2
    <3> QED
      BY <1>2, <3>0, <3>1, <3>2, <3>3
  <2>2. CASE x = p
    <3>0. i \in 1 .. P - 1 /\ N2[x].entries[i] = IF i < k THEN g[i] ELSE g[i + 1]
      BY <1>3, <1>6, <2>2
    <3>1. i \in 1 .. P /\ i + 1 \in 1 .. P
      BY <1>2, <3>0
    <3> QED
      BY <1>4, <3>0, <3>1
  <2>3. CASE x \notin {l, p}
    <3>1. N2[x].entries = N[x].entries /\ x \in D
      BY <1>3, <1>6, <2>3
    <3> QED
      BY <1>6, <3>1, HasEntry
  <2> QED
    BY <2>1, <2>2, <2>3
<1>7. ASSUME NEW x \in D, NEW i \in 1 .. Len(N[x].entries)
      PROVE  Has(N2, N[x].entries[i])
  <2>1. CASE x = l
    <3>1. i \in 1 .. L /\ N[x].entries[i] = e[i]
      BY <1>7, <2>1 DEF e, L
    <3>2. i \in 1 .. L + 1 + M
      BY <1>2, <3>1
    <3> QED
      BY <1>3, <1>5, <3>1, <3>2
  <2>2. CASE x = r
    <3>1. i \in 1 .. M /\ N[x].entries[i] = f[i]
      BY <1>7, <2>2 DEF f, M
    <3>2. L + 1 + i \in 1 .. L + 1 + M
      BY <1>2, <3>1
    <3>3. N2[l].entries[L + 1 + i] = f[i]
      BY <1>3, <3>1
    <3>4. Has(N2, N2[l].entries[L + 1 + i])
      BY <1>5, <3>2
    <3> QED
      BY <3>1, <3>3, <3>4
  <2>3. CASE x = p
    <3>1. i \in 1 .. P /\ N[x].entries[i] = g[i]
      BY <1>7, <2>3 DEF g, P
    <3>2. CASE i < k
      <4>1. i \in 1 .. P - 1
        BY <1>1, <1>2, <3>1, <3>2
      <4> QED
        BY <1>3, <1>5, <3>1, <3>2, <4>1
    <3>3. CASE i = k
      <4>1. L + 1 \in 1 .. L + 1 + M
        BY <1>2
      <4> QED
        BY <1>3, <1>5, <3>1, <3>3, <4>1
    <3>4. CASE i > k
      <4> DEFINE j == i - 1
      <4>1. j \in 1 .. P - 1 /\ ~ (j < k) /\ j + 1 = i
        BY <1>1, <1>2, <3>1, <3>4
      <4> HIDE DEF j
      <4>2. N2[p].entries[j] = g[i] /\ Has(N2, N2[p].entries[j])
        BY <1>3, <1>5, <4>1
      <4> QED
        BY <3>1, <4>2
    <3> QED
      BY <1>1, <1>2, <3>1, <3>2, <3>3, <3>4
  <2>4. CASE x \notin {l, r, p}
    <3>1. N2[x].entries = N[x].entries /\ x \in DOMAIN N2
      BY <1>3, <2>4
    <3> QED
      BY <1>7, <3>1, HasEntry
  <2> QED
    BY <2>1, <2>2, <2>3, <2>4
<1> QED
  BY <1>6, <1>7, SameBothWays

-----------------------------------------------------------------------------
(* Sequences with an element more, or less.                                *)

(* What InsertAt does to a sequence.                                       *)
LEMMA SeqInsertAt ==
  ASSUME NEW S, NEW s \in Seq(S), NEW e \in S, NEW at \in 1 .. Len(s) + 1
  PROVE  /\ InsertAt(s, at, e) \in Seq(S) /\ Len(InsertAt(s, at, e)) = Len(s) + 1
         /\ \A i \in 1 .. Len(s) + 1 :
              InsertAt(s, at, e)[i] = IF i < at THEN s[i] ELSE IF i = at THEN e ELSE s[i - 1]
<1> DEFINE a == SubSeq(s, 1, at - 1)
           b == SubSeq(s, at, Len(s))
<1>1. Len(s) \in Nat /\ at \in Nat
  OBVIOUS
<1>2. a \in Seq(S) /\ Len(a) = at - 1 /\ \A i \in 1 .. at - 1 : a[i] = s[i]
  BY <1>1
<1>3. b \in Seq(S) /\ Len(b) = Len(s) + 1 - at /\ \A i \in 1 .. Len(s) + 1 - at : b[i] = s[at + i - 1]
  BY <1>1
<1>4. InsertAt(s, at, e) = (a \o <<e>>) \o b
  BY DEF InsertAt
<1> HIDE DEF a, b
<1>5. /\ a \o <<e>> \in Seq(S) /\ Len(a \o <<e>>) = at
      /\ \A i \in 1 .. at : (a \o <<e>>)[i] = IF i < at THEN s[i] ELSE e
  BY <1>1, <1>2
<1> DEFINE c == a \o <<e>>
<1> HIDE DEF c
<1>6. /\ c \in Seq(S) /\ Len(c) = at /\ \A i \in 1 .. at : c[i] = IF i < at THEN s[i] ELSE e
      /\ InsertAt(s, at, e) = c \o b
  BY <1>4, <1>5 DEF c
<1>7. InsertAt(s, at, e) \in Seq(S) /\ Len(InsertAt(s, at, e)) = Len(s) + 1
  <2>3. c \in Seq(S) /\ b \in Seq(S)
    BY <1>3, <1>6
  <2>1. c \o b \in Seq(S) /\ Len(c \o b) = Len(c) + Len(b)
    BY <2>3, ConcatProperties
  <2>2. Len(c) + Len(b) = Len(s) + 1
    BY <1>1, <1>3, <1>6
  <2> QED
    BY <1>6, <2>1, <2>2
<1>8. ASSUME NEW i \in 1 .. Len(s) + 1
      PROVE  InsertAt(s, at, e)[i] = IF i < at THEN s[i] ELSE IF i = at THEN e ELSE s[i - 1]
  <2>1. CASE i <= at
    <3>1. (c \o b)[i] = c[i] /\ i \in 1 .. at
      BY <1>1, <1>3, <1>6, <2>1
    <3> QED
      BY <1>1, <1>6, <2>1, <3>1
  <2>2. CASE ~ (i <= at)
    <3>1. (c \o b)[i] = b[i - at] /\ i - at \in 1 .. Len(s) + 1 - at /\ at + (i - at) - 1 = i - 1
          /\ ~ (i < at) /\ i # at
      BY <1>1, <1>3, <1>6, <2>2
    <3>2. b[i - at] = s[i - 1]
      BY <1>3, <3>1
    <3> QED
      BY <1>6, <3>1, <3>2
  <2> QED
    BY <2>1, <2>2
<1> QED
  BY <1>7, <1>8

(* What RemoveAt does to a sequence.                                       *)
LEMMA SeqRemoveAt ==
  ASSUME NEW S, NEW s \in Seq(S), NEW at \in 1 .. Len(s)
  PROVE  /\ RemoveAt(s, at) \in Seq(S) /\ Len(RemoveAt(s, at)) = Len(s) - 1
         /\ \A i \in 1 .. Len(s) - 1 :
              RemoveAt(s, at)[i] = IF i < at THEN s[i] ELSE s[i + 1]
<1> DEFINE a == SubSeq(s, 1, at - 1)
           b == SubSeq(s, at + 1, Len(s))
<1>1. Len(s) \in Nat /\ at \in Nat
  OBVIOUS
<1>2. a \in Seq(S) /\ Len(a) = at - 1 /\ \A i \in 1 .. at - 1 : a[i] = s[i]
  BY <1>1
<1>3. b \in Seq(S) /\ Len(b) = Len(s) - at /\ \A i \in 1 .. Len(s) - at : b[i] = s[at + i]
  BY <1>1
<1>4. RemoveAt(s, at) = a \o b
  BY DEF RemoveAt
<1> HIDE DEF a, b
<1>5. RemoveAt(s, at) \in Seq(S) /\ Len(RemoveAt(s, at)) = Len(s) - 1
  <2>3. a \in Seq(S) /\ b \in Seq(S)
    BY <1>2, <1>3
  <2>1. a \o b \in Seq(S) /\ Len(a \o b) = Len(a) + Len(b)
    BY <2>3, ConcatProperties
  <2>2. Len(a) + Len(b) = Len(s) - 1
    BY <1>1, <1>2, <1>3
  <2> QED
    BY <1>4, <2>1, <2>2
<1>6. ASSUME NEW i \in 1 .. Len(s) - 1
      PROVE  RemoveAt(s, at)[i] = IF i < at THEN s[i] ELSE s[i + 1]
  <2>1. CASE i < at
    <3>1. (a \o b)[i] = a[i] /\ i \in 1 .. at - 1
      BY <1>1, <1>2, <1>3, <2>1
    <3> QED
      BY <1>2, <1>4, <2>1, <3>1
  <2>2. CASE ~ (i < at)
    <3>1. (a \o b)[i] = b[i - (at - 1)] /\ i - (at - 1) \in 1 .. Len(s) - at
          /\ at + (i - (at - 1)) = i + 1
      BY <1>1, <1>2, <1>3, <2>2
    <3>2. b[i - (at - 1)] = s[i + 1]
      BY <1>3, <3>1
    <3> QED
      BY <1>4, <2>2, <3>1, <3>2
  <2> QED
    BY <2>1, <2>2
<1> QED
  BY <1>5, <1>6

(* What an assignment to one place does to a sequence.                     *)
LEMMA SeqReplaceAt ==
  ASSUME NEW S, NEW s \in Seq(S), NEW e \in S, NEW at \in 1 .. Len(s)
  PROVE  /\ [s EXCEPT ![at] = e] \in Seq(S) /\ Len([s EXCEPT ![at] = e]) = Len(s)
         /\ \A i \in 1 .. Len(s) : [s EXCEPT ![at] = e][i] = IF i = at THEN e ELSE s[i]
OBVIOUS

(* What Front and Last take from a sequence.                               *)
LEMMA SeqFront ==
  ASSUME NEW S, NEW s \in Seq(S), Len(s) # 0
  PROVE  /\ Front(s) \in Seq(S) /\ Len(Front(s)) = Len(s) - 1
         /\ \A i \in 1 .. Len(s) - 1 : Front(s)[i] = s[i]
         /\ Last(s) = s[Len(s)] /\ Last(s) \in S
<1>1. Len(s) \in Nat /\ Len(s) >= 1
  OBVIOUS
<1>2. s[Len(s)] \in S
  BY <1>1
<1>3. /\ SubSeq(s, 1, Len(s) - 1) \in Seq(S) /\ Len(SubSeq(s, 1, Len(s) - 1)) = Len(s) - 1
      /\ \A i \in 1 .. Len(s) - 1 : SubSeq(s, 1, Len(s) - 1)[i] = s[i]
  <2> DEFINE n == Len(s) - 1
  <2>1. n \in 0 .. Len(s) /\ Len(s) \in Nat
    BY <1>1
  <2> HIDE DEF n
  <2>2. SubSeq(s, 1, n) \in Seq(S) /\ Len(SubSeq(s, 1, n)) = n /\ \A i \in 1 .. n : SubSeq(s, 1, n)[i] = s[i]
    BY <2>1
  <2> QED
    BY <2>2 DEF n
<1> QED
  BY <1>2, <1>3 DEF Front, Last

(* What SubSeq takes from a sequence.                                      *)
LEMMA SeqPart ==
  ASSUME NEW S, NEW s \in Seq(S), NEW a \in 1 .. Len(s) + 1, NEW b \in a - 1 .. Len(s)
  PROVE  /\ SubSeq(s, a, b) \in Seq(S) /\ Len(SubSeq(s, a, b)) = b - a + 1
         /\ \A i \in 1 .. b - a + 1 : SubSeq(s, a, b)[i] = s[a + i - 1]
OBVIOUS

-----------------------------------------------------------------------------
(* The same nodes with the same links and other entries.                   *)

SameLinks(N, N2) ==
  /\ DOMAIN N2 = DOMAIN N /\ Typed(N2)
  /\ \A x \in DOMAIN N : /\ N2[x].parentId = N[x].parentId
                         /\ N2[x].childrenIds = N[x].childrenIds
                         /\ IsLeaf(N[x]) \/ Len(N2[x].entries) = Len(N[x].entries)

(* A search tree whose entries change and whose links do not is one again  *)
(* if the new entries are in order between some new bounds.                *)
LEMMA Relabel ==
  ASSUME NEW N, NEW R, NEW h, NEW lo, NEW hi, SearchTree(N, R, h, lo, hi),
         NEW N2, SameLinks(N, N2),
         NEW lo2 \in [DOMAIN N -> Int], NEW hi2 \in [DOMAIN N -> Int], lo2[R] = -1,
         \A x \in DOMAIN N : Ordered(N2, R, lo2, hi2, x)
  PROVE  SearchTree(N2, R, h, lo2, hi2)
<1>1. /\ WellTyped(N, R) /\ h \in [DOMAIN N -> Nat]
      /\ \A x \in DOMAIN N : Connected(N, R, x) /\ Ranked(N, R, h, x)
  BY DEF SearchTree
<1>2. DOMAIN N2 = DOMAIN N /\ Typed(N2)
  BY DEF SameLinks
<1>3. \A x \in DOMAIN N : N2[x].parentId = N[x].parentId /\ N2[x].childrenIds = N[x].childrenIds
  BY DEF SameLinks
<1>6. \A x \in DOMAIN N : IsLeaf(N[x]) \/ Len(N2[x].entries) = Len(N[x].entries)
  BY DEF SameLinks
<1>4. WellTyped(N2, R)
  <2>1. \A x \in DOMAIN N2 : N2[x].parentId \in DOMAIN N2 \cup {0}
    BY <1>1, <1>2, <1>3 DEF WellTyped
  <2> QED
    BY <1>1, <1>2, <2>1 DEF WellTyped, Typed
<1>5. ASSUME NEW x \in DOMAIN N
      PROVE  Connected(N2, R, x) /\ Ranked(N2, R, h, x)
  <2>1. Connected(N, R, x) /\ Ranked(N, R, h, x) /\ R \in DOMAIN N
    BY <1>1 DEF WellTyped
  <2>2. /\ N2[x].parentId = N[x].parentId
        /\ N2[x].childrenIds = N[x].childrenIds
        /\ IsLeaf(N[x]) \/ Len(N2[x].entries) = Len(N[x].entries)
    BY <1>3, <1>6
  <2>3. IsLeaf(N2[x]) <=> IsLeaf(N[x])
    BY <2>2 DEF IsLeaf
  <2>4. Ranked(N2, R, h, x)
    BY <2>1, <2>2, <2>3 DEF Ranked
  <2>5. \A i \in 1 .. Len(N[x].childrenIds) : N[x].childrenIds[i] \in DOMAIN N
    BY NodeFacts
  <2>6. x # R => N[x].parentId \in DOMAIN N
    BY Links
  <2>7. Connected(N2, R, x)
    <3>1. IsLeaf(N2[x]) \/ Len(N2[x].childrenIds) = Len(N2[x].entries) + 1
      BY <2>1, <2>2, <2>3 DEF Connected
    <3>2. \A i \in 1 .. Len(N2[x].childrenIds) : N2[N2[x].childrenIds[i]].parentId = x
      <4> TAKE i \in 1 .. Len(N2[x].childrenIds)
      <4>1. i \in 1 .. Len(N[x].childrenIds) /\ N2[x].childrenIds[i] = N[x].childrenIds[i]
        BY <2>2
      <4>2. N[N[x].childrenIds[i]].parentId = x /\ N[x].childrenIds[i] \in DOMAIN N
        BY <2>1, <2>5, <4>1 DEF Connected
      <4> QED
        BY <1>3, <4>1, <4>2
    <3>3. x = R <=> N2[x].parentId = 0
      BY <2>1, <2>2 DEF Connected
    <3>4. x # R => \E i \in 1 .. Len(N2[N2[x].parentId].childrenIds) :
                     N2[N2[x].parentId].childrenIds[i] = x
      <4> SUFFICES ASSUME x # R
                   PROVE  \E i \in 1 .. Len(N2[N2[x].parentId].childrenIds) :
                            N2[N2[x].parentId].childrenIds[i] = x
        OBVIOUS
      <4>1. N2[N[x].parentId].childrenIds = N[N[x].parentId].childrenIds
        BY <1>3, <2>6
      <4>2. \E i \in 1 .. Len(N[N[x].parentId].childrenIds) : N[N[x].parentId].childrenIds[i] = x
        BY <2>1 DEF Connected
      <4> QED
        BY <2>2, <4>1, <4>2
    <3> QED
      BY <3>1, <3>2, <3>3, <3>4 DEF Connected
  <2> QED
    BY <2>4, <2>7
<1> QED
  BY <1>1, <1>2, <1>4, <1>5 DEF SearchTree

(* A leaf gets other entries within its range.                             *)
LEMMA LeafChanged ==
  ASSUME NEW N, NEW R, NEW h, NEW lo, NEW hi, SearchTree(N, R, h, lo, hi),
         NEW id \in DOMAIN N, IsLeaf(N[id]), NEW N2, SameLinks(N, N2),
         \A x \in DOMAIN N \ {id} : N2[x].entries = N[x].entries,
         Ascending(N2[id].entries),
         \A i \in 1 .. Len(N2[id].entries) :
           lo[id] < N2[id].entries[i][1] /\ N2[id].entries[i][1] < hi[id]
  PROVE  SearchTree(N2, R, h, lo, hi)
<1>1. /\ lo \in [DOMAIN N -> Int] /\ hi \in [DOMAIN N -> Int] /\ lo[R] = -1
      /\ \A x \in DOMAIN N : Ordered(N, R, lo, hi, x)
  BY DEF SearchTree
<1>2. \A x \in DOMAIN N : N2[x].childrenIds = N[x].childrenIds
  BY DEF SameLinks
<1>3. ASSUME NEW x \in DOMAIN N
      PROVE  Ordered(N2, R, lo, hi, x)
  <2>1. Ordered(N, R, lo, hi, x) /\ N2[x].childrenIds = N[x].childrenIds
    BY <1>1, <1>2
  <2>2. CASE x = id
    <3>1. Len(N2[id].childrenIds) = 0
      BY <2>1, <2>2 DEF IsLeaf
    <3> QED
      BY <2>1, <2>2, <3>1 DEF Ordered
  <2>3. CASE x # id
    <3>1. N2[x].entries = N[x].entries
      BY <2>3
    <3> QED
      BY <2>1, <3>1 DEF Ordered
  <2> QED
    BY <2>2, <2>3
<1> QED
  BY <1>1, <1>3, Relabel

(* The upper end of the range of the root may be any larger number.        *)
LEMMA RaisedTree ==
  ASSUME NEW N, NEW R, NEW h, NEW lo, NEW hi, SearchTree(N, R, h, lo, hi),
         NEW top \in Int, hi[R] <= top
  PROVE  \E hi2 : SearchTree(N, R, h, lo, hi2) /\ hi2[R] = top
<1> DEFINE hi2 == [x \in DOMAIN N |-> IF hi[x] = hi[R] THEN top ELSE hi[x]]
<1>1. /\ lo \in [DOMAIN N -> Int] /\ hi \in [DOMAIN N -> Int] /\ lo[R] = -1 /\ R \in DOMAIN N
      /\ \A x \in DOMAIN N : Ordered(N, R, lo, hi, x)
  BY DEF SearchTree, WellTyped
<1>2. SameLinks(N, N)
  BY DEF SameLinks, Typed, SearchTree, WellTyped
<1>3. hi2 \in [DOMAIN N -> Int] /\ hi2[R] = top
  BY <1>1
<1>4. ASSUME NEW x \in DOMAIN N
      PROVE  Ordered(N, R, lo, hi2, x)
  <2> DEFINE e == N[x].entries
             ids == N[x].childrenIds
  <2>1. /\ lo[x] < hi[x] /\ hi[x] <= hi[R] /\ lo[x] \in Int /\ hi[x] \in Int /\ hi[R] \in Int
        /\ \A i \in 1 .. Len(e) : lo[x] < e[i][1] /\ e[i][1] < hi[x] /\ e[i][1] \in Nat
        /\ \A i \in 1 .. Len(ids) :
             /\ lo[ids[i]] = IF i = 1 THEN lo[x] ELSE e[i - 1][1]
             /\ hi[ids[i]] = IF i = Len(ids) THEN hi[x] ELSE e[i][1]
    BY <1>1, Bounds
  <2>2. /\ Ascending(e) /\ Len(e) \in Nat /\ Len(ids) \in Nat
        /\ \A i \in 1 .. Len(ids) : ids[i] \in DOMAIN N
        /\ Len(ids) # 0 => Len(ids) = Len(e) + 1
    BY NodeFacts
  <2>3. hi2[x] = (IF hi[x] = hi[R] THEN top ELSE hi[x]) /\ hi2[R] = top
    BY <1>1
  <2> HIDE DEF e, ids
  <2>4. lo[x] < hi2[x] /\ hi2[x] <= hi2[R] /\ hi[x] <= hi2[x] /\ hi2[x] \in Int
    BY <2>1, <2>3
  <2>5. \A i \in 1 .. Len(e) : lo[x] < e[i][1] /\ e[i][1] < hi2[x]
    BY <2>1, <2>4
  <2>6. ASSUME NEW i \in 1 .. Len(ids)
        PROVE  hi2[ids[i]] = IF i = Len(ids) THEN hi2[x] ELSE e[i][1]
    <3>1. hi2[ids[i]] = IF hi[ids[i]] = hi[R] THEN top ELSE hi[ids[i]]
      BY <2>2
    <3>2. CASE i = Len(ids)
      BY <2>1, <2>3, <3>1, <3>2
    <3>3. CASE i # Len(ids)
      <4>1. i \in 1 .. Len(e)
        BY <2>2, <3>3
      <4>2. hi[ids[i]] = e[i][1] /\ e[i][1] < hi[x] /\ e[i][1] \in Nat
        BY <2>1, <3>3, <4>1
      <4> QED
        BY <2>1, <3>1, <3>3, <4>2
    <3> QED
      BY <3>2, <3>3
  <2> HIDE DEF hi2
  <2> QED
    BY <2>1, <2>2, <2>4, <2>5, <2>6 DEF Ordered, e, ids
<1>5. SearchTree(N, R, h, lo, hi2)
  <2> HIDE DEF hi2
  <2> QED
    BY <1>1, <1>2, <1>3, <1>4, Relabel
<1> QED
  BY <1>3, <1>5

-----------------------------------------------------------------------------
(* A root above the root, and none.                                        *)

Grown(N, R, top) ==
  [x \in DOMAIN N \cup {top} |->
     IF x = top THEN Node(0, <<>>, <<R>>)
     ELSE IF x = R THEN Node(top, N[R].entries, N[R].childrenIds) ELSE N[x]]

(* A search tree under a new root without entries is a search tree, one    *)
(* level higher (the root that Split makes, before it gets its entry).     *)
LEMMA GrownTree ==
  ASSUME NEW N, NEW R, NEW h, NEW lo, NEW hi, SearchTree(N, R, h, lo, hi),
         NEW top \in Nat \ {0}, top \notin DOMAIN N
  PROVE  \E h2, lo2, hi2 : SearchTree(Grown(N, R, top), top, h2, lo2, hi2)
<1> DEFINE N2 == Grown(N, R, top)
           h2 == [x \in DOMAIN N \cup {top} |-> IF x = top THEN h[R] + 1 ELSE h[x]]
           lo2 == [x \in DOMAIN N \cup {top} |-> IF x = top THEN lo[R] ELSE lo[x]]
           hi2 == [x \in DOMAIN N \cup {top} |-> IF x = top THEN hi[R] ELSE hi[x]]
<1>1. /\ WellTyped(N, R) /\ h \in [DOMAIN N -> Nat] /\ lo \in [DOMAIN N -> Int] /\ hi \in [DOMAIN N -> Int]
      /\ lo[R] = -1 /\ R \in DOMAIN N
      /\ \A x \in DOMAIN N : Connected(N, R, x) /\ Ranked(N, R, h, x) /\ Ordered(N, R, lo, hi, x)
  BY DEF SearchTree, WellTyped
<1>2. /\ DOMAIN N2 = DOMAIN N \cup {top}
      /\ N2[top].parentId = 0 /\ N2[top].entries = <<>> /\ N2[top].childrenIds = <<R>>
      /\ N2[R].parentId = top
      /\ \A x \in DOMAIN N : N2[x].entries = N[x].entries /\ N2[x].childrenIds = N[x].childrenIds
      /\ \A x \in DOMAIN N \ {R} : N2[x].parentId = N[x].parentId
      /\ \A x \in DOMAIN N2 : N2[x] = Node(N2[x].parentId, N2[x].entries, N2[x].childrenIds)
  BY <1>1 DEF Grown, Node, WellTyped
<1>3. /\ \A x \in DOMAIN N : h2[x] = h[x] /\ lo2[x] = lo[x] /\ hi2[x] = hi[x]
      /\ h2[top] = h[R] + 1 /\ lo2[top] = lo[R] /\ hi2[top] = hi[R]
      /\ h2 \in [DOMAIN N2 -> Nat] /\ lo2 \in [DOMAIN N2 -> Int] /\ hi2 \in [DOMAIN N2 -> Int]
  BY <1>1, <1>2
<1>4. WellTyped(N2, top)
  <2>1. IsFiniteSet(DOMAIN N2)
    BY <1>1, <1>2, FS_AddElement DEF WellTyped
  <2>2. \A x \in DOMAIN N2 : /\ N2[x].parentId \in DOMAIN N2 \cup {0}
                             /\ N2[x].entries \in Seq(UniqueEntry)
                             /\ N2[x].childrenIds \in Seq(DOMAIN N2)
    <3> TAKE x \in DOMAIN N2
    <3>1. CASE x = top
      <4>1. <<>> \in Seq(UniqueEntry) /\ <<R>> \in Seq(DOMAIN N2)
        BY <1>1, <1>2
      <4> QED
        BY <1>2, <3>1, <4>1
    <3>2. CASE x # top
      <4>1. x \in DOMAIN N
        BY <1>2, <3>2
      <4>2. /\ N[x].parentId \in DOMAIN N \cup {0}
            /\ N[x].entries \in Seq(UniqueEntry)
            /\ N[x].childrenIds \in Seq(DOMAIN N)
        BY <1>1, <4>1 DEF WellTyped
      <4>3. N[x].childrenIds \in Seq(DOMAIN N2)
        BY <1>2, <4>2
      <4> QED
        BY <1>1, <1>2, <4>1, <4>2, <4>3
    <3> QED
      BY <3>1, <3>2
  <2> QED
    BY <1>1, <1>2, <2>1, <2>2 DEF WellTyped
<1>5. ASSUME NEW x \in DOMAIN N2
      PROVE  Connected(N2, top, x) /\ Ranked(N2, top, h2, x) /\ Ordered(N2, top, lo2, hi2, x)
  <2>1. h[R] \in Nat /\ lo[R] \in Int /\ hi[R] \in Int /\ lo[R] < hi[R] /\ N[R].parentId = 0
    BY <1>1 DEF Ordered, Connected
  <2>2. CASE x = top
    <3>1. Len(N2[top].childrenIds) = 1 /\ Len(N2[top].entries) = 0 /\ N2[top].childrenIds[1] = R
          /\ ~ IsLeaf(N2[top])
      BY <1>2 DEF IsLeaf
    <3>2. Connected(N2, top, top)
      BY <1>2, <3>1 DEF Connected
    <3> HIDE DEF h2, lo2, hi2, N2
    <3>3. Ranked(N2, top, h2, top)
      BY <1>1, <1>3, <2>1, <3>1 DEF Ranked
    <3>4. Ordered(N2, top, lo2, hi2, top)
      BY <1>1, <1>3, <2>1, <3>1 DEF Ordered, Ascending
    <3> QED
      BY <2>2, <3>2, <3>3, <3>4
  <2>3. CASE x # top
    <3>1. x \in DOMAIN N
      BY <1>2, <2>3
    <3>2. Connected(N, R, x) /\ Ranked(N, R, h, x) /\ Ordered(N, R, lo, hi, x)
      BY <1>1, <3>1
    <3>3. N2[x].entries = N[x].entries /\ N2[x].childrenIds = N[x].childrenIds
      BY <1>2, <3>1
    <3>4. \A i \in 1 .. Len(N[x].childrenIds) :
            N[x].childrenIds[i] \in DOMAIN N \ {R} /\ N[N[x].childrenIds[i]].parentId = x
      <4> TAKE i \in 1 .. Len(N[x].childrenIds)
      <4>1. N[x].childrenIds[i] \in DOMAIN N /\ N[N[x].childrenIds[i]].parentId = x /\ x # 0
        BY <3>1, Links
      <4> QED
        BY <2>1, <4>1
    <3> HIDE DEF h2, lo2, hi2, N2
    <3>5. Connected(N2, top, x)
      <4>1. IsLeaf(N2[x]) \/ Len(N2[x].childrenIds) = Len(N2[x].entries) + 1
        BY <3>2, <3>3 DEF Connected, IsLeaf
      <4>2. \A i \in 1 .. Len(N2[x].childrenIds) : N2[N2[x].childrenIds[i]].parentId = x
        BY <1>2, <3>3, <3>4
      <4>3. CASE x = R
        <5>1. N2[x].parentId = top /\ N2[top].childrenIds[1] = x /\ 1 \in 1 .. Len(N2[top].childrenIds)
          BY <1>2, <4>3
        <5> QED
          BY <2>3, <4>1, <4>2, <5>1 DEF Connected
      <4>4. CASE x # R
        <5>1. N2[x].parentId = N[x].parentId /\ N[x].parentId \in DOMAIN N /\ N[x].parentId # 0
          BY <1>2, <3>1, <3>2, <4>4, Links
        <5>2. \E i \in 1 .. Len(N2[N2[x].parentId].childrenIds) : N2[N2[x].parentId].childrenIds[i] = x
          BY <1>2, <3>2, <4>4, <5>1 DEF Connected
        <5> QED
          BY <2>3, <4>1, <4>2, <5>1, <5>2 DEF Connected
      <4> QED
        BY <4>3, <4>4
    <3>6. Ranked(N2, top, h2, x)
      <4>1. h[x] <= h[R] /\ h[x] \in Nat /\ h2[x] = h[x]
        BY <1>1, <1>3, <3>1, <3>2 DEF Ranked
      <4>2. h2[x] <= h2[top]
        BY <1>3, <2>1, <4>1
      <4>3. IsLeaf(N2[x]) => h2[x] = 0
        BY <3>2, <3>3, <4>1 DEF Ranked, IsLeaf
      <4>4. \A i \in 1 .. Len(N[x].childrenIds) : h2[x] = h2[N[x].childrenIds[i]] + 1
        BY <1>3, <3>2, <3>4, <4>1 DEF Ranked
      <4> QED
        BY <3>3, <4>2, <4>3, <4>4 DEF Ranked
    <3>7. Ordered(N2, top, lo2, hi2, x)
      <4>1. lo2[x] = lo[x] /\ hi2[x] = hi[x] /\ hi2[top] = hi[R]
        BY <1>3, <3>1
      <4>2. \A i \in 1 .. Len(N[x].childrenIds) :
               /\ lo2[N[x].childrenIds[i]] = IF i = 1 THEN lo2[x] ELSE N[x].entries[i - 1][1]
               /\ hi2[N[x].childrenIds[i]] = IF i = Len(N[x].childrenIds) THEN hi2[x]
                                             ELSE N[x].entries[i][1]
        <5> TAKE i \in 1 .. Len(N[x].childrenIds)
        <5>1. lo2[N[x].childrenIds[i]] = lo[N[x].childrenIds[i]] /\ hi2[N[x].childrenIds[i]] = hi[N[x].childrenIds[i]]
          BY <1>3, <3>4
        <5> QED
          BY <3>2, <4>1, <5>1 DEF Ordered
      <4> QED
        BY <3>2, <3>3, <4>1, <4>2 DEF Ordered
    <3> QED
      BY <3>5, <3>6, <3>7
  <2> QED
    BY <2>2, <2>3
<1>6. lo2[top] = -1
  BY <1>1, <1>3
<1>7. SearchTree(N2, top, h2, lo2, hi2)
  <2> HIDE DEF N2, h2, lo2, hi2
  <2> QED
    BY <1>3, <1>4, <1>5, <1>6 DEF SearchTree
<1> QED
  BY <1>7

(* A root without entries has one child, which can do without it.          *)
ShrunkOf(N, N2, R, c) ==
  /\ DOMAIN N2 = DOMAIN N \ {R} /\ Typed(N2)
  /\ N2[c].parentId = 0
  /\ \A x \in DOMAIN N2 \ {c} : N2[x].parentId = N[x].parentId
  /\ \A x \in DOMAIN N2 : N2[x].entries = N[x].entries /\ N2[x].childrenIds = N[x].childrenIds

(* The only child of a root that has lost its last entry is the root of a  *)
(* search tree (the end of Merge at the root).                             *)
LEMMA ShrunkTree ==
  ASSUME NEW N, NEW R, NEW h, NEW lo, NEW hi, SearchTree(N, R, h, lo, hi),
         ~ IsLeaf(N[R]), N[R].entries = <<>>, NEW c, c = N[R].childrenIds[1],
         NEW N2, ShrunkOf(N, N2, R, c)
  PROVE  SearchTree(N2, c, MergeHeights(N, h, R), MergeHeights(N, lo, R), MergeHeights(N, hi, R))
<1> DEFINE h2 == MergeHeights(N, h, R)
           lo2 == MergeHeights(N, lo, R)
           hi2 == MergeHeights(N, hi, R)
<1>1. /\ WellTyped(N, R) /\ h \in [DOMAIN N -> Nat] /\ lo \in [DOMAIN N -> Int] /\ hi \in [DOMAIN N -> Int]
      /\ lo[R] = -1 /\ R \in DOMAIN N
      /\ \A x \in DOMAIN N : Connected(N, R, x) /\ Ranked(N, R, h, x) /\ Ordered(N, R, lo, hi, x)
  BY DEF SearchTree, WellTyped
<1>2. /\ c \in DOMAIN N /\ N[c].parentId = R /\ h[R] = h[c] + 1 /\ lo[c] = lo[R] /\ hi[c] = hi[R]
      /\ Len(N[R].childrenIds) = 1
  <2>1. Len(N[R].entries) = 0
    OBVIOUS
  <2>2. Len(N[R].childrenIds) = 1
    <3>1. Len(N[R].childrenIds) = Len(N[R].entries) + 1
      BY <1>1, NodeFacts
    <3> QED
      BY <2>1, <3>1
  <2> DEFINE i == 1
             L == Len(N[R].entries)
  <2>3. i \in 1 .. L + 1 /\ i = L + 1 /\ c = N[R].childrenIds[i]
    BY <2>1
  <2> HIDE DEF i, L
  <2>4. /\ c \in DOMAIN N /\ N[c].parentId = R /\ h[R] = h[c] + 1
        /\ lo[c] = IF i = 1 THEN lo[R] ELSE N[R].entries[i - 1][1]
        /\ hi[c] = IF i = L + 1 THEN hi[R] ELSE N[R].entries[i][1]
    <3>1. R \in DOMAIN N
      BY <1>1
    <3> QED
      BY <2>3, <3>1, SearchedChild DEF L
  <2> QED
    BY <2>2, <2>3, <2>4 DEF i
<1>3. R # 0 /\ c # R
  BY <1>1, <1>2 DEF WellTyped, Connected
<1>4. /\ DOMAIN N2 = DOMAIN N \ {R} /\ Typed(N2) /\ N2[c].parentId = 0
      /\ \A x \in DOMAIN N2 \ {c} : N2[x].parentId = N[x].parentId
      /\ \A x \in DOMAIN N2 : N2[x].entries = N[x].entries /\ N2[x].childrenIds = N[x].childrenIds
  BY DEF ShrunkOf
<1>5. /\ \A x \in DOMAIN N2 : h2[x] = h[x] /\ lo2[x] = lo[x] /\ hi2[x] = hi[x]
      /\ h2 \in [DOMAIN N2 -> Nat] /\ lo2 \in [DOMAIN N2 -> Int] /\ hi2 \in [DOMAIN N2 -> Int]
  BY <1>1, <1>4 DEF MergeHeights
<1>6. \A x \in DOMAIN N \ {R} : x # c => N[x].parentId \in DOMAIN N2 /\ h[x] < h[c]
  <2> SUFFICES ASSUME NEW x \in DOMAIN N, x # R, x # c PROVE N[x].parentId \in DOMAIN N2 /\ h[x] < h[c]
    OBVIOUS
  <2> DEFINE q == N[x].parentId
  <2>1. /\ q \in DOMAIN N /\ h[q] = h[x] + 1 /\ ~ IsLeaf(N[q])
        /\ \E i \in 1 .. Len(N[q].childrenIds) : N[q].childrenIds[i] = x
    BY IsChild, Links
  <2>2. q # R
    BY <1>2, <2>1
  <2>3. h[q] <= h[R] /\ h[q] \in Nat /\ h[R] \in Nat /\ h[x] \in Nat /\ h[c] \in Nat
    BY <1>1, <1>2, <2>1 DEF Ranked
  <2>4. h[q] # h[R]
    <3> SUFFICES ASSUME h[q] = h[R] PROVE FALSE
      OBVIOUS
    <3>1. h[N[q].parentId] = h[q] + 1 /\ N[q].parentId \in DOMAIN N
      BY <2>1, <2>2, IsChild
    <3>2. h[N[q].parentId] <= h[R]
      BY <1>1, <3>1 DEF Ranked
    <3> HIDE DEF q
    <3> QED
      BY <2>3, <3>1, <3>2
  <2>5. h[x] < h[c]
    <3> HIDE DEF q
    <3> QED
      BY <1>2, <2>1, <2>3, <2>4
  <2> QED
    BY <1>4, <2>1, <2>2, <2>5
<1>7. WellTyped(N2, c)
  <2>1. IsFiniteSet(DOMAIN N2)
    BY <1>1, <1>4, FS_Subset DEF WellTyped
  <2>2. \A x \in DOMAIN N2 : N2[x].parentId \in DOMAIN N2 \cup {0}
    BY <1>4, <1>6
  <2> QED
    BY <1>1, <1>2, <1>3, <1>4, <2>1, <2>2 DEF WellTyped, Typed
<1> HIDE DEF h2, lo2, hi2
<1>8. ASSUME NEW x \in DOMAIN N2
      PROVE  Connected(N2, c, x) /\ Ranked(N2, c, h2, x) /\ Ordered(N2, c, lo2, hi2, x)
  <2>1. x \in DOMAIN N /\ x # R /\ N2[x].entries = N[x].entries /\ N2[x].childrenIds = N[x].childrenIds
    BY <1>4
  <2>2. Connected(N, R, x) /\ Ranked(N, R, h, x) /\ Ordered(N, R, lo, hi, x)
    BY <1>1, <2>1
  <2>3. \A i \in 1 .. Len(N[x].childrenIds) :
          N[x].childrenIds[i] \in DOMAIN N2 \ {c} /\ N[N[x].childrenIds[i]].parentId = x
    <3> TAKE i \in 1 .. Len(N[x].childrenIds)
    <3>1. N[x].childrenIds[i] \in DOMAIN N /\ N[N[x].childrenIds[i]].parentId = x
      BY <2>1, Links
    <3>2. N[R].parentId = 0 /\ x # 0
      BY <1>1, <2>1, Links
    <3>3. N[x].childrenIds[i] # R
      BY <3>1, <3>2
    <3> QED
      BY <1>2, <1>4, <2>1, <3>1, <3>3
  <2>4. c \in DOMAIN N2
    BY <1>2, <1>3, <1>4
  <2>5. Connected(N2, c, x)
    <3>1. IsLeaf(N2[x]) \/ Len(N2[x].childrenIds) = Len(N2[x].entries) + 1
      BY <2>1, <2>2 DEF Connected, IsLeaf
    <3>2. \A i \in 1 .. Len(N2[x].childrenIds) : N2[N2[x].childrenIds[i]].parentId = x
      BY <1>4, <2>1, <2>3
    <3>3. CASE x = c
      BY <1>4, <3>1, <3>2, <3>3 DEF Connected
    <3>4. CASE x # c
      <4>1. N2[x].parentId = N[x].parentId /\ N[x].parentId \in DOMAIN N2 /\ N[x].parentId # 0
        BY <1>4, <1>6, <2>1, <2>2, <3>4 DEF Connected
      <4>2. \E i \in 1 .. Len(N2[N2[x].parentId].childrenIds) : N2[N2[x].parentId].childrenIds[i] = x
        BY <1>4, <2>1, <2>2, <4>1 DEF Connected
      <4> QED
        BY <3>1, <3>2, <3>4, <4>1, <4>2 DEF Connected
    <3> QED
      BY <3>3, <3>4
  <2>6. Ranked(N2, c, h2, x)
    <3>1. h[x] <= h[c]
      BY SMTT(30), <1>1, <1>2, <1>6, <2>1
    <3>2. IsLeaf(N2[x]) <=> IsLeaf(N[x])
      BY <2>1 DEF IsLeaf
    <3>3. h2[x] = h[x] /\ h2[c] = h[c]
      BY <1>5, <2>4
    <3>4. \A i \in 1 .. Len(N[x].childrenIds) : h2[x] = h2[N[x].childrenIds[i]] + 1
      BY <1>5, <2>2, <2>3, <3>3 DEF Ranked
    <3>5. IsLeaf(N2[x]) => h2[x] = 0
      BY <2>2, <3>2, <3>3 DEF Ranked
    <3> QED
      BY <2>1, <3>1, <3>3, <3>4, <3>5 DEF Ranked
  <2>7. Ordered(N2, c, lo2, hi2, x)
    <3>1. lo2[x] = lo[x] /\ hi2[x] = hi[x] /\ hi2[c] = hi[R]
      BY <1>2, <1>5, <2>4
    <3>2. \A i \in 1 .. Len(N[x].childrenIds) :
               /\ lo2[N[x].childrenIds[i]] = IF i = 1 THEN lo2[x] ELSE N[x].entries[i - 1][1]
               /\ hi2[N[x].childrenIds[i]] = IF i = Len(N[x].childrenIds) THEN hi2[x]
                                             ELSE N[x].entries[i][1]
      <4> TAKE i \in 1 .. Len(N[x].childrenIds)
      <4>1. lo2[N[x].childrenIds[i]] = lo[N[x].childrenIds[i]] /\ hi2[N[x].childrenIds[i]] = hi[N[x].childrenIds[i]]
        BY <1>5, <2>3
      <4> QED
        BY <2>2, <3>1, <4>1 DEF Ordered
    <3> QED
      BY <2>1, <2>2, <3>1, <3>2 DEF Ordered
  <2> QED
    BY <2>5, <2>6, <2>7
<1>9. lo2[c] = -1
  BY <1>1, <1>2, <1>3, <1>4, <1>5
<1> QED
  BY <1>5, <1>7, <1>8, <1>9 DEF SearchTree, h2, lo2, hi2

-----------------------------------------------------------------------------
(* An entry of an inner node is replaced by the last one of the leaf that  *)
(* ends at its key.                                                        *)

ReplacedOf(N, N2, c, i, z) ==
  /\ SameLinks(N, N2)
  /\ \A x \in DOMAIN N \ {c, z} : N2[x].entries = N[x].entries
  /\ Len(N2[c].entries) = Len(N[c].entries)
  /\ \A j \in 1 .. Len(N[c].entries) :
       N2[c].entries[j] = IF j = i THEN N[z].entries[Len(N[z].entries)] ELSE N[c].entries[j]
  /\ Len(N2[z].entries) = Len(N[z].entries) - 1
  /\ \A j \in 1 .. Len(N[z].entries) - 1 : N2[z].entries[j] = N[z].entries[j]

MayReplace(N, lo, hi, c, i, z) ==
  /\ c \in DOMAIN N /\ ~ IsLeaf(N[c]) /\ i \in 1 .. Len(N[c].entries)
  /\ z \in DOMAIN N /\ IsLeaf(N[z]) /\ Len(N[z].entries) # 0
  /\ hi[z] = N[c].entries[i][1] /\ lo[N[c].childrenIds[i]] <= lo[z]
  /\ \A x \in DOMAIN N : IsLeaf(N[x]) \/ Len(N[x].entries) # 0

(* An entry of an inner node may be replaced by the last one of the leaf   *)
(* before it, once this is taken out there (Delete from an inner node).    *)
LEMMA ReplacedTree ==
  ASSUME NEW N, NEW R, NEW h, NEW lo, NEW hi, SearchTree(N, R, h, lo, hi),
         NEW c, NEW i, NEW z, MayReplace(N, lo, hi, c, i, z),
         NEW N2, ReplacedOf(N, N2, c, i, z)
  PROVE  \E lo2, hi2 : SearchTree(N2, R, h, lo2, hi2)
<1> DEFINE e == N[c].entries
           ids == N[c].childrenIds
           ze == N[z].entries
           K == e[i][1]
           X == ze[Len(ze)][1]
           lo2 == [a \in DOMAIN N |-> IF lo[a] = K THEN X ELSE lo[a]]
           hi2 == [a \in DOMAIN N |-> IF hi[a] = K THEN X ELSE hi[a]]
<1>1. /\ c \in DOMAIN N /\ ~ IsLeaf(N[c]) /\ i \in 1 .. Len(e)
      /\ z \in DOMAIN N /\ IsLeaf(N[z]) /\ Len(ze) # 0
      /\ hi[z] = K /\ lo[ids[i]] <= lo[z]
      /\ \A x \in DOMAIN N : IsLeaf(N[x]) \/ Len(N[x].entries) # 0
  BY DEF MayReplace
<1>2. /\ SameLinks(N, N2)
      /\ \A x \in DOMAIN N \ {c, z} : N2[x].entries = N[x].entries
      /\ Len(N2[c].entries) = Len(e)
      /\ \A j \in 1 .. Len(e) : N2[c].entries[j] = IF j = i THEN ze[Len(ze)] ELSE e[j]
      /\ Len(N2[z].entries) = Len(ze) - 1
      /\ \A j \in 1 .. Len(ze) - 1 : N2[z].entries[j] = ze[j]
  BY DEF ReplacedOf
<1>3. \A a \in DOMAIN N :
           /\ lo[a] \in Int /\ hi[a] \in Int
           /\ lo[a] < hi[a] /\ hi[a] <= hi[R]
           /\ \A j \in 1 .. Len(N[a].entries) :
                /\ N[a].entries[j][1] \in Nat
                /\ lo[a] < N[a].entries[j][1] /\ N[a].entries[j][1] < hi[a]
           /\ \A j, n \in 1 .. Len(N[a].entries) : j < n => N[a].entries[j][1] < N[a].entries[n][1]
           /\ \A j \in 1 .. Len(N[a].childrenIds) :
                /\ lo[N[a].childrenIds[j]] = IF j = 1 THEN lo[a] ELSE N[a].entries[j - 1][1]
                /\ hi[N[a].childrenIds[j]] = IF j = Len(N[a].childrenIds) THEN hi[a]
                                             ELSE N[a].entries[j][1]
  BY Bounds
<1>4. \A a \in DOMAIN N :
        /\ Len(N[a].childrenIds) \in Nat /\ Len(N[a].entries) \in Nat
        /\ IsLeaf(N[a]) <=> Len(N[a].childrenIds) = 0
        /\ \A j \in 1 .. Len(N[a].childrenIds) : N[a].childrenIds[j] \in DOMAIN N
        /\ ~ IsLeaf(N[a]) => Len(N[a].childrenIds) = Len(N[a].entries) + 1
  BY NodeFacts
<1>5. /\ Len(e) \in Nat /\ Len(ze) \in Nat /\ Len(ze) \in 1 .. Len(ze)
      /\ K \in Nat /\ X \in Nat /\ lo[z] < X /\ X < K /\ lo[c] < K /\ K < hi[c]
      /\ lo[z] \in Int /\ lo[c] \in Int /\ hi[c] \in Int
  <2>1. Len(e) \in Nat /\ Len(ze) \in Nat /\ Len(ze) \in 1 .. Len(ze)
    BY <1>1, <1>4
  <2> HIDE DEF e, ze
  <2> QED
    BY <1>1, <1>3, <2>1 DEF e, ze
<1>6. R \in DOMAIN N /\ hi[R] \in Int /\ K < hi[R] /\ lo[R] = -1 /\ hi[c] <= hi[R]
  <2>1. R \in DOMAIN N /\ lo[R] = -1
    BY DEF SearchTree, WellTyped
  <2>2. hi[c] <= hi[R] /\ hi[R] \in Int
    BY <1>1, <1>3, <2>1
  <2> HIDE DEF K
  <2> QED
    BY <1>5, <2>1, <2>2
<1>7. \A a \in DOMAIN N \ {z} : hi[a] = K =>
        lo[a] < X /\ \A j \in 1 .. Len(N[a].entries) : N[a].entries[j][1] < X
  <2> SUFFICES ASSUME NEW a \in DOMAIN N, a # z, hi[a] = K
               PROVE  lo[a] < X /\ \A j \in 1 .. Len(N[a].entries) : N[a].entries[j][1] < X
    OBVIOUS
  <2>1. h[a] \in Nat /\ h[z] = 0 /\ (IsLeaf(N[a]) => h[a] = 0)
    BY <1>1, NodeFacts DEF SearchTree, Ranked
  <2>2. /\ lo[a] \in Int /\ lo[a] < K
        /\ \A j \in 1 .. Len(N[a].entries) : N[a].entries[j][1] \in Nat /\ N[a].entries[j][1] < K
                                            /\ lo[a] < N[a].entries[j][1]
    <3> HIDE DEF K
    <3> QED
      BY <1>3
  <2>3. h[a] # 0
    <3> SUFFICES ASSUME h[a] = 0 PROVE FALSE
      OBVIOUS
    <3>1. hi[a] <= lo[z] \/ hi[z] <= lo[a]
      BY <1>1, <2>1, Apart
    <3> HIDE DEF K, X
    <3> QED
      BY <1>1, <1>5, <2>2, <3>1
  <2>4. h[z] < h[a] /\ ~ IsLeaf(N[a])
    BY <2>1, <2>3
  <2>5. \A j \in 1 .. Len(N[a].entries) : ~ (lo[z] < N[a].entries[j][1] /\ N[a].entries[j][1] < hi[z])
    BY <1>1, <2>4, KeysApart
  <2>6. \A j \in 1 .. Len(N[a].entries) : N[a].entries[j][1] < X
    <3> HIDE DEF K, X
    <3> QED
      BY <1>1, <1>5, <2>2, <2>5
  <2>7. 1 \in 1 .. Len(N[a].entries)
    BY <1>1, <1>4, <2>4
  <2> HIDE DEF X
  <2> QED
    BY <1>5, <2>2, <2>6, <2>7
<1>8. \A a \in DOMAIN N : \A j \in 1 .. Len(N[a].entries) : N[a].entries[j][1] = K => a = c /\ j = i
  BY <1>1, KeysUnique
<1>9. \A j \in 1 .. Len(e) : j < i => e[j][1] < X
  <2> SUFFICES ASSUME NEW j \in 1 .. Len(e), j < i PROVE e[j][1] < X
    OBVIOUS
  <2>1. i - 1 \in 1 .. Len(e) /\ j <= i - 1 /\ i # 1 /\ i \in 1 .. Len(ids)
    BY <1>1, <1>4, <1>5
  <2>4. /\ \A n \in 1 .. Len(e) : e[n][1] \in Nat
        /\ \A m, n \in 1 .. Len(e) : m < n => e[m][1] < e[n][1]
    BY <1>1, <1>3
  <2>5. i - 1 \in Int /\ j \in Int
    BY <2>1
  <2>2. e[j][1] <= e[i - 1][1] /\ e[j][1] \in Nat /\ e[i - 1][1] \in Nat
    <3> DEFINE q == i - 1
    <3>1. q \in 1 .. Len(e) /\ j <= q /\ q \in Int
      BY <2>1, <2>5
    <3> HIDE DEF q, e
    <3>2. e[j][1] <= e[q][1] /\ e[j][1] \in Nat /\ e[q][1] \in Nat
      BY <2>4, <2>5, <3>1
    <3> QED
      BY <3>2 DEF q
  <2>3. lo[ids[i]] = e[i - 1][1]
    BY <1>1, <1>3, <2>1
  <2> HIDE DEF X, e, ids, ze
  <2> QED
    BY <1>1, <1>5, <2>2, <2>3
<1>10. lo[c] < X
  <2>1. i \in 1 .. Len(e) + 1
    BY <1>1, <1>5
  <2>2. lo[c] <= lo[ids[i]] /\ ids[i] \in DOMAIN N
    BY <1>1, <2>1, Within, SearchedChild
  <2>3. lo[ids[i]] \in Int
    BY <1>3, <2>2
  <2> HIDE DEF X, ids
  <2> QED
    BY <1>1, <1>5, <2>2, <2>3
<1>11. /\ \A a \in DOMAIN N : /\ lo2[a] = IF lo[a] = K THEN X ELSE lo[a]
                              /\ hi2[a] = IF hi[a] = K THEN X ELSE hi[a]
       /\ lo2 \in [DOMAIN N -> Int] /\ hi2 \in [DOMAIN N -> Int]
  <2> HIDE DEF K, X
  <2> QED
    BY <1>3, <1>5
<1>12. \A a \in DOMAIN N : N2[a].childrenIds = N[a].childrenIds
  BY <1>2 DEF SameLinks
<1> HIDE DEF K, X, lo2, hi2
<1>13. lo2[R] = -1 /\ hi2[R] = hi[R]
  BY <1>5, <1>6, <1>11
<1>14. ASSUME NEW a \in DOMAIN N
       PROVE  Ordered(N2, R, lo2, hi2, a)
  <2>1. /\ lo[a] \in Int /\ hi[a] \in Int /\ lo[a] < hi[a] /\ hi[a] <= hi[R]
        /\ lo2[a] = (IF lo[a] = K THEN X ELSE lo[a]) /\ hi2[a] = (IF hi[a] = K THEN X ELSE hi[a])
    BY <1>3, <1>11
  <2>2. hi[a] = K => lo[a] < X
    <3>1. CASE a = z
      BY <1>5, <3>1
    <3>2. CASE a # z
      BY <1>7, <3>2
    <3> QED
      BY <3>1, <3>2
  <2>3. lo2[a] < hi2[a] /\ hi2[a] <= hi2[R] /\ lo2[a] <= lo[a]
    BY <1>5, <1>6, <1>13, <2>1, <2>2
  <2>4. CASE a = c
    <3>1. lo2[c] = lo[c] /\ hi2[c] = hi[c]
      BY <1>5, <2>1, <2>4
    <3>2. \A j \in 1 .. Len(e) : e[j][1] \in Nat /\ lo[c] < e[j][1] /\ e[j][1] < hi[c]
      BY <1>1, <1>3
    <3>3. \A j \in 1 .. Len(e) : N2[c].entries[j][1] = IF j = i THEN X ELSE e[j][1]
      BY <1>2 DEF X
    <3>4. \A j, n \in 1 .. Len(e) : j < n => e[j][1] < e[n][1]
      BY <1>1, <1>3
    <3>5. Len(ids) = Len(e) + 1 /\ Len(N2[c].entries) = Len(e)
      BY <1>1, <1>2, <1>4
    <3>6. \A j \in 1 .. Len(ids) :
            /\ ids[j] \in DOMAIN N
            /\ lo[ids[j]] = IF j = 1 THEN lo[c] ELSE e[j - 1][1]
            /\ hi[ids[j]] = IF j = Len(ids) THEN hi[c] ELSE e[j][1]
      <4>1. c \in DOMAIN N
        BY <1>1
      <4>2. \A j \in 1 .. Len(ids) : ids[j] \in DOMAIN N
        BY <1>4, <4>1, Zenon
      <4>3. \A j \in 1 .. Len(ids) :
              /\ lo[ids[j]] = IF j = 1 THEN lo[c] ELSE e[j - 1][1]
              /\ hi[ids[j]] = IF j = Len(ids) THEN hi[c] ELSE e[j][1]
        BY <1>3, <4>1, Zenon
      <4> QED
        BY <4>2, <4>3, Zenon
    <3>7. \A j \in 1 .. Len(e) : e[j][1] = K <=> j = i
      BY <1>1, <1>8 DEF K
    <3>8. N2[c].childrenIds = ids
      BY <1>1, <1>12
    <3> HIDE DEF e, ids, ze
    <3>9. \A j \in 1 .. Len(e) : lo2[c] < N2[c].entries[j][1] /\ N2[c].entries[j][1] < hi2[c]
      BY <1>5, <1>10, <3>1, <3>2, <3>3
    <3>10. Ascending(N2[c].entries)
      <4> SUFFICES ASSUME NEW j \in 1 .. Len(e), NEW n \in 1 .. Len(e), j < n
                   PROVE  N2[c].entries[j][1] < N2[c].entries[n][1]
        BY <3>5 DEF Ascending
      <4>1. e[j][1] < e[n][1] /\ e[j][1] \in Nat /\ e[n][1] \in Nat
        BY <3>2, <3>4
      <4>2. CASE j = i
        <5>1. N2[c].entries[j][1] = X /\ N2[c].entries[n][1] = e[n][1] /\ e[j][1] = K
          BY <1>5, <3>3, <3>7, <4>2
        <5> QED
          BY <1>5, <4>1, <5>1
      <4>3. CASE n = i
        <5>1. N2[c].entries[j][1] = e[j][1] /\ N2[c].entries[n][1] = X
          BY <1>5, <3>3, <4>3
        <5> QED
          BY <1>9, <4>3, <5>1
      <4>4. CASE j # i /\ n # i
        BY <3>3, <4>1, <4>4
      <4> QED
        BY <4>2, <4>3, <4>4
    <3>11. ASSUME NEW j \in 1 .. Len(ids)
           PROVE  /\ lo2[ids[j]] = IF j = 1 THEN lo2[c] ELSE N2[c].entries[j - 1][1]
                  /\ hi2[ids[j]] = IF j = Len(ids) THEN hi2[c] ELSE N2[c].entries[j][1]
      <4>1. /\ lo2[ids[j]] = (IF lo[ids[j]] = K THEN X ELSE lo[ids[j]])
            /\ hi2[ids[j]] = (IF hi[ids[j]] = K THEN X ELSE hi[ids[j]])
        BY <1>11, <3>6
      <4>2. lo2[ids[j]] = IF j = 1 THEN lo2[c] ELSE N2[c].entries[j - 1][1]
        <5>1. CASE j = 1
          BY <1>5, <3>1, <3>6, <4>1, <5>1
        <5>2. CASE j # 1
          <6>1. j - 1 \in 1 .. Len(e)
            BY <1>5, <3>5, <5>2
          <6>2. lo[ids[j]] = e[j - 1][1]
            BY <3>6, <5>2
          <6>3. (e[j - 1][1] = K <=> j - 1 = i) /\ N2[c].entries[j - 1][1] = IF j - 1 = i THEN X ELSE e[j - 1][1]
            BY <3>3, <3>7, <6>1
          <6> QED
            BY <4>1, <5>2, <6>2, <6>3
        <5> QED
          BY <5>1, <5>2
      <4>3. hi2[ids[j]] = IF j = Len(ids) THEN hi2[c] ELSE N2[c].entries[j][1]
        <5>1. CASE j = Len(ids)
          BY <1>5, <3>1, <3>6, <4>1, <5>1
        <5>2. CASE j # Len(ids)
          <6>1. j \in 1 .. Len(e)
            BY <1>5, <3>5, <5>2
          <6>2. hi[ids[j]] = e[j][1]
            BY <3>6, <5>2
          <6>3. (e[j][1] = K <=> j = i) /\ N2[c].entries[j][1] = IF j = i THEN X ELSE e[j][1]
            BY <3>3, <3>7, <6>1
          <6> QED
            BY <4>1, <5>2, <6>2, <6>3
        <5> QED
          BY <5>1, <5>2
      <4> QED
        BY <4>2, <4>3
    <3> QED
      BY <2>3, <2>4, <3>5, <3>8, <3>9, <3>10, <3>11 DEF Ordered
  <2>5. CASE a = z
    <3>1. N2[z].childrenIds = N[z].childrenIds /\ Len(N[z].childrenIds) = 0
      BY <1>1, <1>4, <1>12
    <3>2. hi2[z] = X /\ Len(N2[z].entries) = Len(ze) - 1
      BY <1>1, <1>2, <2>1, <2>5
    <3>3. /\ \A j \in 1 .. Len(ze) : lo[z] < ze[j][1] /\ ze[j][1] \in Nat
          /\ \A j, n \in 1 .. Len(ze) : j < n => ze[j][1] < ze[n][1]
      BY <1>1, <1>3
    <3>4. \A j \in 1 .. Len(ze) - 1 : N2[z].entries[j] = ze[j]
      BY <1>2
    <3>5. lo2[z] <= lo[z] /\ lo2[z] \in Int /\ lo[z] \in Int
      BY <1>5, <2>1, <2>3, <2>5
    <3> HIDE DEF ze, e, ids
    <3>6. \A j \in 1 .. Len(ze) - 1 : lo2[z] < N2[z].entries[j][1] /\ N2[z].entries[j][1] < hi2[z]
      <4> TAKE j \in 1 .. Len(ze) - 1
      <4>1. j \in 1 .. Len(ze) /\ j < Len(ze)
        BY <1>5
      <4>2. ze[j][1] < X
        BY <1>5, <3>3, <4>1 DEF X
      <4>3. N2[z].entries[j] = ze[j] /\ lo[z] < ze[j][1] /\ ze[j][1] \in Nat
        BY <3>3, <3>4, <4>1
      <4>4. lo2[z] < ze[j][1]
        BY <3>5, <4>3
      <4> QED
        BY <3>2, <4>2, <4>3, <4>4
    <3>7. Ascending(N2[z].entries)
      <4> SUFFICES ASSUME NEW j \in 1 .. Len(ze) - 1, NEW n \in 1 .. Len(ze) - 1, j < n
                   PROVE  N2[z].entries[j][1] < N2[z].entries[n][1]
        BY <3>2 DEF Ascending
      <4>1. j \in 1 .. Len(ze) /\ n \in 1 .. Len(ze)
        BY <1>5
      <4> QED
        BY <3>3, <3>4, <4>1
    <3> QED
      BY <2>3, <2>5, <3>1, <3>2, <3>6, <3>7 DEF Ordered
  <2>6. CASE a \notin {c, z}
    <3> DEFINE f == N[a].entries
               jds == N[a].childrenIds
    <3>1. N2[a].entries = f /\ N2[a].childrenIds = jds
      BY <1>2, <1>12, <2>6
    <3>2. /\ \A j \in 1 .. Len(f) : f[j][1] \in Nat /\ lo[a] < f[j][1] /\ f[j][1] < hi[a]
          /\ \A j, n \in 1 .. Len(f) : j < n => f[j][1] < f[n][1]
          /\ \A j \in 1 .. Len(jds) :
                /\ lo[jds[j]] = IF j = 1 THEN lo[a] ELSE f[j - 1][1]
                /\ hi[jds[j]] = IF j = Len(jds) THEN hi[a] ELSE f[j][1]
      BY <1>3
    <3>3. /\ \A j \in 1 .. Len(f) : f[j][1] # K
          /\ hi[a] = K => \A j \in 1 .. Len(f) : f[j][1] < X
          /\ Len(f) \in Nat /\ Len(jds) \in Nat /\ (Len(jds) # 0 => Len(jds) = Len(f) + 1)
          /\ \A j \in 1 .. Len(jds) : jds[j] \in DOMAIN N
      BY <1>4, <1>7, <1>8, <2>6
    <3> HIDE DEF f, jds
    <3>4. \A j \in 1 .. Len(f) : lo2[a] < f[j][1] /\ f[j][1] < hi2[a]
      <4> TAKE j \in 1 .. Len(f)
      <4>1. lo2[a] \in Int
        BY <1>5, <2>1
      <4> QED
        BY <2>1, <2>3, <3>2, <3>3, <4>1
    <3>5. \A j \in 1 .. Len(jds) :
            /\ lo2[jds[j]] = IF j = 1 THEN lo2[a] ELSE f[j - 1][1]
            /\ hi2[jds[j]] = IF j = Len(jds) THEN hi2[a] ELSE f[j][1]
      <4> TAKE j \in 1 .. Len(jds)
      <4>1. /\ lo2[jds[j]] = (IF lo[jds[j]] = K THEN X ELSE lo[jds[j]])
            /\ hi2[jds[j]] = (IF hi[jds[j]] = K THEN X ELSE hi[jds[j]])
        BY <1>11, <3>3
      <4>2. j # 1 => j - 1 \in 1 .. Len(f)
        BY <3>3
      <4>3. j # Len(jds) => j \in 1 .. Len(f)
        BY <3>3
      <4> QED
        BY <2>1, <3>2, <3>3, <4>1, <4>2, <4>3
    <3>6. Ascending(f)
      BY <3>2 DEF Ascending
    <3> QED
      BY <2>3, <3>1, <3>4, <3>5, <3>6 DEF Ordered
  <2> QED
    BY <2>4, <2>5, <2>6
<1>15. SearchTree(N2, R, h, lo2, hi2)
  BY <1>2, <1>11, <1>13, <1>14, Relabel
<1> QED
  BY <1>15

(* Two sequences with an element between them.                             *)
LEMMA SeqJoin ==
  ASSUME NEW S, NEW a \in Seq(S), NEW e \in S, NEW b \in Seq(S)
  PROVE  /\ a \o <<e>> \o b \in Seq(S) /\ Len(a \o <<e>> \o b) = Len(a) + 1 + Len(b)
         /\ \A i \in 1 .. Len(a) : (a \o <<e>> \o b)[i] = a[i]
         /\ (a \o <<e>> \o b)[Len(a) + 1] = e
         /\ \A i \in 1 .. Len(b) : (a \o <<e>> \o b)[Len(a) + 1 + i] = b[i]
<1> DEFINE c == a \o <<e>>
<1>1. Len(a) \in Nat /\ Len(b) \in Nat
  OBVIOUS
<1>2. /\ c \in Seq(S) /\ Len(c) = Len(a) + 1 /\ c[Len(a) + 1] = e
      /\ \A i \in 1 .. Len(a) : c[i] = a[i]
  OBVIOUS
<1> HIDE DEF c
<1>3. c \o b \in Seq(S) /\ Len(c \o b) = Len(c) + Len(b)
  BY <1>2, ConcatProperties
<1>4. \A i \in 1 .. Len(c) : (c \o b)[i] = c[i]
  BY <1>1, <1>2
<1>5. \A i \in 1 .. Len(b) : (c \o b)[Len(c) + i] = b[i]
  BY <1>1, <1>2
<1>6. Len(c \o b) = Len(a) + 1 + Len(b)
  BY <1>1, <1>2, <1>3
<1>7. /\ \A i \in 1 .. Len(a) : (c \o b)[i] = a[i]
      /\ (c \o b)[Len(a) + 1] = e
  BY <1>1, <1>2, <1>4
<1> QED
  BY <1>2, <1>3, <1>5, <1>6, <1>7 DEF c

(* A sequence is one over every set that has its elements.                 *)
LEMMA SeqWithin ==
  ASSUME NEW S, NEW s \in Seq(S), NEW T, \A i \in 1 .. Len(s) : s[i] \in T
  PROVE  s \in Seq(T)
OBVIOUS

(* What a concatenation has at each place.                                 *)
LEMMA SeqConcat ==
  ASSUME NEW S, NEW a \in Seq(S), NEW b \in Seq(S)
  PROVE  /\ a \o b \in Seq(S) /\ Len(a \o b) = Len(a) + Len(b)
         /\ \A i \in 1 .. Len(a) : (a \o b)[i] = a[i]
         /\ \A i \in 1 .. Len(b) : (a \o b)[Len(a) + i] = b[i]
<1>1. a \o b \in Seq(S) /\ Len(a \o b) = Len(a) + Len(b)
  BY ConcatProperties
<1>2. Len(a) \in Nat /\ Len(b) \in Nat
  OBVIOUS
<1>3. \A i \in 1 .. Len(a) : (a \o b)[i] = a[i]
  BY <1>2
<1>4. \A i \in 1 .. Len(b) : (a \o b)[Len(a) + i] = b[i]
  BY <1>2
<1> QED
  BY <1>1, <1>3, <1>4

-----------------------------------------------------------------------------
(* What TreeNode.Rebalance makes of two neighbouring nodes: one node.      *)

Joined(N, p, k, l, r) ==
  Without(Adopt(Put(Put(N, p, LessSeparator(N[p], k)), l, Merged(N[l], N[p].entries[k], N[r])),
                Range(N[r].childrenIds), l), {r})

(* Whose children are whose.                                               *)
LEMMA Offspring ==
  ASSUME NEW N, NEW R, NEW h, NEW lo, NEW hi, SearchTree(N, R, h, lo, hi),
         NEW id \in DOMAIN N, NEW x \in DOMAIN N
  PROVE  x \in Range(N[id].childrenIds) <=> N[x].parentId = id
<1>1. N[id].childrenIds \in Seq(DOMAIN N)
  BY DEF SearchTree, WellTyped
<1>2. x \in Range(N[id].childrenIds) <=> \E i \in 1 .. Len(N[id].childrenIds) : N[id].childrenIds[i] = x
  BY <1>1 DEF Range
<1>3. ASSUME N[x].parentId = id
      PROVE  \E i \in 1 .. Len(N[id].childrenIds) : N[id].childrenIds[i] = x
  <2>1. id # 0
    BY Links
  <2>2. x # R
    BY <1>3, <2>1, Links
  <2> QED
    BY <1>3, <2>2, Links
<1>4. ASSUME NEW i \in 1 .. Len(N[id].childrenIds), N[id].childrenIds[i] = x
      PROVE  N[x].parentId = id
  BY <1>4, Links
<1> QED
  BY <1>2, <1>3, <1>4

(* The fields of a node, and a node with another parent.                   *)
LEMMA NodeFields ==
  ASSUME NEW a, NEW b, NEW c
  PROVE  /\ Node(a, b, c).parentId = a /\ Node(a, b, c).entries = b /\ Node(a, b, c).childrenIds = c
         /\ \A d : [Node(a, b, c) EXCEPT !.parentId = d] = Node(d, b, c)
BY DEF Node

(* Merged is the left node with the separator and all of the right one.    *)
LEMMA MergedNode ==
  ASSUME NEW n, n = Node(n.parentId, n.entries, n.childrenIds), NEW s, NEW m
  PROVE  Merged(n, s, m) = Node(n.parentId, n.entries \o <<s>> \o m.entries,
                                n.childrenIds \o m.childrenIds)
<1> DEFINE a == n.parentId
           b == n.entries
           c == n.childrenIds
<1>1. n = Node(a, b, c)
  OBVIOUS
<1>2. Merged(n, s, m) = [n EXCEPT !.entries = b \o <<s>> \o m.entries, !.childrenIds = c \o m.childrenIds]
  BY DEF Merged
<1> HIDE DEF a, b, c
<1>3. Merged(n, s, m) = Node(a, b \o <<s>> \o m.entries, c \o m.childrenIds)
  BY <1>1, <1>2 DEF Node
<1> QED
  BY <1>3 DEF a, b, c

(* LessSeparator takes an entry and the child on its right out of a node.  *)
LEMMA LessNode ==
  ASSUME NEW n, n = Node(n.parentId, n.entries, n.childrenIds), NEW k
  PROVE  LessSeparator(n, k) = Node(n.parentId, RemoveAt(n.entries, k), RemoveAt(n.childrenIds, k + 1))
<1> DEFINE a == n.parentId
           b == n.entries
           c == n.childrenIds
<1>1. n = Node(a, b, c)
  OBVIOUS
<1>2. LessSeparator(n, k) = [n EXCEPT !.entries = RemoveAt(b, k), !.childrenIds = RemoveAt(c, k + 1)]
  BY DEF LessSeparator
<1> HIDE DEF a, b, c
<1>3. LessSeparator(n, k) = Node(a, RemoveAt(b, k), RemoveAt(c, k + 1))
  BY <1>1, <1>2 DEF Node
<1> QED
  BY <1>3 DEF a, b, c

(* What Merge does to the nodes is a merge of two siblings.                *)
LEMMA JoinedIsMerge ==
  ASSUME NEW N, NEW R, NEW h, NEW lo, NEW hi, SearchTree(N, R, h, lo, hi),
         NEW p, NEW k, NEW l, NEW r, MayBeMerged(N, p, k, l, r)
  PROVE  MergeOf(N, Joined(N, p, k, l, r), p, k, l, r)
<1> DEFINE ml == Merged(N[l], N[p].entries[k], N[r])
           mp == LessSeparator(N[p], k)
           F == Put(Put(N, p, mp), l, ml)
           rids == N[r].childrenIds
           J == Joined(N, p, k, l, r)
           P == Len(N[p].entries)
<1>1. /\ p \in DOMAIN N /\ l \in DOMAIN N /\ r \in DOMAIN N
      /\ l # r /\ l # p /\ r # p /\ N[l].parentId = p /\ N[r].parentId = p
      /\ Len(N[p].childrenIds) = P + 1
  BY Siblings
<1>2. k \in 1 .. P /\ N[p].childrenIds[k] = l /\ N[p].childrenIds[k + 1] = r
  BY DEF MayBeMerged
<1>3. \A x \in DOMAIN N :
       /\ N[x] = Node(N[x].parentId, N[x].entries, N[x].childrenIds)
       /\ N[x].entries \in Seq(UniqueEntry)
       /\ N[x].childrenIds \in Seq(DOMAIN N)
  BY DEF SearchTree, WellTyped
<1>4. /\ DOMAIN F = DOMAIN N /\ F[l] = ml /\ F[p] = mp
      /\ \A x \in DOMAIN N \ {l, p} : F[x] = N[x]
  BY <1>1 DEF Put
<1>5. /\ ml = Node(N[l].parentId, N[l].entries \o <<N[p].entries[k]>> \o N[r].entries,
                   N[l].childrenIds \o rids)
      /\ mp = Node(N[p].parentId, RemoveAt(N[p].entries, k), RemoveAt(N[p].childrenIds, k + 1))
  <2>1. ml = Node(N[l].parentId, N[l].entries \o <<N[p].entries[k]>> \o N[r].entries,
                  N[l].childrenIds \o rids)
    BY SMTT(30), <1>1, <1>3, MergedNode
  <2>2. mp = Node(N[p].parentId, RemoveAt(N[p].entries, k), RemoveAt(N[p].childrenIds, k + 1))
    BY SMTT(30), <1>1, <1>3, LessNode
  <2> QED
    BY <2>1, <2>2
<1>6. J = [x \in DOMAIN N \ {r} |-> IF x \in Range(rids) THEN [F[x] EXCEPT !.parentId = l] ELSE F[x]]
  <2> HIDE DEF F
  <2>1. DOMAIN [id \in DOMAIN F |-> IF id \in Range(rids) THEN [F[id] EXCEPT !.parentId = l] ELSE F[id]] = DOMAIN N
    BY <1>4
  <2>2. J = Without(Adopt(F, Range(rids), l), {r})
    BY DEF Joined, F
  <2> QED
    BY <1>4, <2>2 DEF Without, Adopt
<1>7. \A x \in DOMAIN N : x \in Range(rids) <=> N[x].parentId = r
  BY <1>1, Offspring
<1>8. l \notin Range(rids) /\ p \notin Range(rids)
  <2>1. N[p].parentId # r
    <3> SUFFICES ASSUME N[p].parentId = r PROVE FALSE
      OBVIOUS
    <3>1. r # 0
      BY <1>1, Links
    <3>2. h[r] = h[p] + 1 /\ h[p] = h[l] + 1 /\ h[r] = h[l] /\ h[l] \in Nat
      BY <1>1, <3>1, PlaceInParent, Siblings, NodeFacts
    <3> QED
      BY <3>2
  <2> QED
    BY <1>1, <1>7, <2>1
<1>9. /\ DOMAIN J = DOMAIN N \ {r} /\ J[l] = ml /\ J[p] = mp
      /\ \A x \in DOMAIN N \ {l, p, r} :
           J[x] = Node(IF N[x].parentId = r THEN l ELSE N[x].parentId, N[x].entries, N[x].childrenIds)
  <2>1. DOMAIN J = DOMAIN N \ {r} /\ J[l] = ml /\ J[p] = mp
    <3> HIDE DEF F, ml, mp, J, rids
    <3> QED
      BY <1>1, <1>4, <1>6, <1>8
  <2>2. ASSUME NEW x \in DOMAIN N \ {l, p, r}
        PROVE  J[x] = Node(IF N[x].parentId = r THEN l ELSE N[x].parentId, N[x].entries, N[x].childrenIds)
    <3>1. F[x] = N[x] /\ N[x] = Node(N[x].parentId, N[x].entries, N[x].childrenIds)
      BY <1>3, <1>4
    <3>2. J[x] = IF N[x].parentId = r THEN [N[x] EXCEPT !.parentId = l] ELSE N[x]
      <4> HIDE DEF F, J, rids
      <4> QED
        BY <1>6, <1>7, <3>1
    <3> QED
      BY <3>1, <3>2 DEF Node
  <2> QED
    BY <2>1, <2>2
<1> HIDE DEF J, F
<1>10. N[p].entries[k] \in UniqueEntry /\ P \in Nat
  BY SMTT(30), <1>1, <1>2, <1>3
<1>11. /\ J[l].parentId = p /\ J[p].parentId = N[p].parentId
       /\ J[l].entries = N[l].entries \o <<N[p].entries[k]>> \o N[r].entries
       /\ J[l].childrenIds = N[l].childrenIds \o rids
       /\ J[p].entries = RemoveAt(N[p].entries, k)
       /\ J[p].childrenIds = RemoveAt(N[p].childrenIds, k + 1)
       /\ J[l] = Node(J[l].parentId, J[l].entries, J[l].childrenIds)
       /\ J[p] = Node(J[p].parentId, J[p].entries, J[p].childrenIds)
  <2>1. J[l] = Node(p, N[l].entries \o <<N[p].entries[k]>> \o N[r].entries, N[l].childrenIds \o rids)
    BY <1>1, <1>5, <1>9
  <2>2. J[p] = Node(N[p].parentId, RemoveAt(N[p].entries, k), RemoveAt(N[p].childrenIds, k + 1))
    BY <1>5, <1>9
  <2>3. /\ J[l].parentId = p
        /\ J[l].entries = N[l].entries \o <<N[p].entries[k]>> \o N[r].entries
        /\ J[l].childrenIds = N[l].childrenIds \o rids
    <3> DEFINE b == N[l].entries \o <<N[p].entries[k]>> \o N[r].entries
               c == N[l].childrenIds \o rids
    <3>1. J[l] = Node(p, b, c)
      BY <2>1
    <3> HIDE DEF b, c
    <3>2. J[l].parentId = p /\ J[l].entries = b /\ J[l].childrenIds = c
      BY <3>1, NodeFields
    <3> QED
      BY <3>2 DEF b, c
  <2>4. /\ J[p].parentId = N[p].parentId
        /\ J[p].entries = RemoveAt(N[p].entries, k)
        /\ J[p].childrenIds = RemoveAt(N[p].childrenIds, k + 1)
    <3> DEFINE b == RemoveAt(N[p].entries, k)
               c == RemoveAt(N[p].childrenIds, k + 1)
    <3>1. J[p] = Node(N[p].parentId, b, c)
      BY <2>2
    <3> HIDE DEF b, c
    <3>2. J[p].parentId = N[p].parentId /\ J[p].entries = b /\ J[p].childrenIds = c
      BY <3>1, NodeFields
    <3> QED
      BY <3>2 DEF b, c
  <2>5. J[l] = Node(J[l].parentId, J[l].entries, J[l].childrenIds)
    BY <2>1, <2>3
  <2>6. J[p] = Node(J[p].parentId, J[p].entries, J[p].childrenIds)
    BY <2>2, <2>4
  <2> QED
    BY <2>3, <2>4, <2>5, <2>6
<1> HIDE DEF ml, mp
<1>12. \A x \in DOMAIN J \ {l, p} :
         /\ J[x].parentId = IF N[x].parentId = r THEN l ELSE N[x].parentId
         /\ J[x].entries = N[x].entries /\ J[x].childrenIds = N[x].childrenIds
         /\ J[x] = Node(J[x].parentId, J[x].entries, J[x].childrenIds)
  BY <1>9, NodeFields
<1>13. MergeParents(N, J, l, r)
  <2>1. N[p].parentId # r
    BY <1>1, <1>7, <1>8
  <2> QED
    BY <1>1, <1>9, <1>11, <1>12, <2>1 DEF MergeParents
<1>14. N[l].entries \in Seq(UniqueEntry) /\ N[r].entries \in Seq(UniqueEntry) /\ N[p].entries \in Seq(UniqueEntry)
       /\ N[l].childrenIds \in Seq(DOMAIN N) /\ rids \in Seq(DOMAIN N) /\ N[p].childrenIds \in Seq(DOMAIN N)
  BY <1>1, <1>3
<1>15. /\ J[l].entries \in Seq(UniqueEntry)
       /\ Len(J[l].entries) = Len(N[l].entries) + 1 + Len(N[r].entries)
       /\ \A i \in 1 .. Len(N[l].entries) : J[l].entries[i] = N[l].entries[i]
       /\ J[l].entries[Len(N[l].entries) + 1] = N[p].entries[k]
       /\ \A i \in 1 .. Len(N[r].entries) : J[l].entries[Len(N[l].entries) + 1 + i] = N[r].entries[i]
  <2> DEFINE a == N[l].entries
             b == N[r].entries
             e == N[p].entries[k]
             c == a \o <<e>> \o b
  <2>3. a \in Seq(UniqueEntry) /\ b \in Seq(UniqueEntry) /\ e \in UniqueEntry
    BY <1>10, <1>14
  <2>2. J[l].entries = c
    BY <1>11
  <2> HIDE DEF a, b, e
  <2>4. /\ c \in Seq(UniqueEntry) /\ Len(c) = Len(a) + 1 + Len(b)
        /\ \A i \in 1 .. Len(a) : c[i] = a[i]
        /\ c[Len(a) + 1] = e
        /\ \A i \in 1 .. Len(b) : c[Len(a) + 1 + i] = b[i]
    BY <2>3, SeqJoin
  <2> HIDE DEF c
  <2>1. /\ c \in Seq(UniqueEntry)
        /\ Len(c) = Len(N[l].entries) + 1 + Len(N[r].entries)
        /\ \A i \in 1 .. Len(N[l].entries) : c[i] = N[l].entries[i]
        /\ c[Len(N[l].entries) + 1] = N[p].entries[k]
        /\ \A i \in 1 .. Len(N[r].entries) : c[Len(N[l].entries) + 1 + i] = N[r].entries[i]
    BY <2>4 DEF a, b, e
  <2> QED
    BY <2>1, <2>2
<1>16. /\ J[p].entries \in Seq(UniqueEntry) /\ Len(J[p].entries) = P - 1
       /\ \A i \in 1 .. P - 1 : J[p].entries[i] = IF i < k THEN N[p].entries[i] ELSE N[p].entries[i + 1]
  <2> DEFINE c == RemoveAt(N[p].entries, k)
  <2>1. /\ c \in Seq(UniqueEntry) /\ Len(c) = P - 1
        /\ \A i \in 1 .. P - 1 : c[i] = IF i < k THEN N[p].entries[i] ELSE N[p].entries[i + 1]
    BY <1>2, <1>14, SeqRemoveAt
  <2>2. J[p].entries = c
    BY <1>11
  <2> HIDE DEF c
  <2> QED
    BY <2>1, <2>2
<1>17. /\ J[l].childrenIds \in Seq(DOMAIN N)
       /\ Len(J[l].childrenIds) = Len(N[l].childrenIds) + Len(rids)
       /\ \A i \in 1 .. Len(N[l].childrenIds) : J[l].childrenIds[i] = N[l].childrenIds[i]
       /\ \A i \in 1 .. Len(rids) : J[l].childrenIds[Len(N[l].childrenIds) + i] = rids[i]
  <2> DEFINE a == N[l].childrenIds
             c == a \o rids
  <2>3. a \in Seq(DOMAIN N) /\ rids \in Seq(DOMAIN N)
    BY <1>14
  <2>2. J[l].childrenIds = c
    BY <1>11
  <2> DEFINE S == DOMAIN N
  <2>5. a \in Seq(S) /\ rids \in Seq(S)
    BY <2>3
  <2> HIDE DEF a, rids, S
  <2>4. /\ c \in Seq(S) /\ Len(c) = Len(a) + Len(rids)
        /\ \A i \in 1 .. Len(a) : c[i] = a[i]
        /\ \A i \in 1 .. Len(rids) : c[Len(a) + i] = rids[i]
    BY <2>5, SeqConcat
  <2> HIDE DEF c
  <2>1. /\ c \in Seq(DOMAIN N)
        /\ Len(c) = Len(N[l].childrenIds) + Len(rids)
        /\ \A i \in 1 .. Len(N[l].childrenIds) : c[i] = N[l].childrenIds[i]
        /\ \A i \in 1 .. Len(rids) : c[Len(N[l].childrenIds) + i] = rids[i]
    BY <2>4 DEF a, S
  <2> QED
    BY <2>1, <2>2
<1>18. /\ J[p].childrenIds \in Seq(DOMAIN N) /\ Len(J[p].childrenIds) = P
       /\ \A i \in 1 .. P : J[p].childrenIds[i] = IF i <= k THEN N[p].childrenIds[i] ELSE N[p].childrenIds[i + 1]
  <2> DEFINE at == k + 1
  <2>1. at \in 1 .. Len(N[p].childrenIds) /\ k \in Nat /\ Len(N[p].childrenIds) - 1 = P
    BY <1>1, <1>2, <1>10
  <2>2. \A i \in Nat : i < at <=> i <= k
    BY <2>1
  <2>3. J[p].childrenIds = RemoveAt(N[p].childrenIds, at)
    BY <1>11
  <2> HIDE DEF at, P
  <2>4. /\ RemoveAt(N[p].childrenIds, at) \in Seq(DOMAIN N)
        /\ Len(RemoveAt(N[p].childrenIds, at)) = Len(N[p].childrenIds) - 1
        /\ \A i \in 1 .. Len(N[p].childrenIds) - 1 : RemoveAt(N[p].childrenIds, at)[i] =
             IF i < at THEN N[p].childrenIds[i] ELSE N[p].childrenIds[i + 1]
    BY <1>14, <2>1, SeqRemoveAt
  <2>5. J[p].childrenIds \in Seq(DOMAIN N) /\ Len(J[p].childrenIds) = P
    BY <2>1, <2>3, <2>4
  <2>6. \A i \in 1 .. P : J[p].childrenIds[i] = IF i <= k THEN N[p].childrenIds[i] ELSE N[p].childrenIds[i + 1]
    <3> TAKE i \in 1 .. P
    <3>1. i \in Nat /\ i \in 1 .. Len(N[p].childrenIds) - 1
      BY <2>1
    <3> QED
      BY <2>2, <2>3, <2>4, <3>1
  <2> QED
    BY <2>5, <2>6
<1>19. MergeEntries(N, J, p, k, l, r)
  BY <1>12, <1>15, <1>16 DEF MergeEntries
<1>20. MergeChildren(N, J, p, k, l, r)
  BY <1>12, <1>17, <1>18 DEF MergeChildren
<1>21. \A x \in DOMAIN N : \A i \in 1 .. Len(N[x].childrenIds) :
         N[x].childrenIds[i] \in DOMAIN N /\ (x # p => N[x].childrenIds[i] # r)
  BY <1>1, Links
<1>22. Typed(J)
  <2>1. J[l].childrenIds \in Seq(DOMAIN J)
    <3> SUFFICES ASSUME NEW i \in 1 .. Len(N[l].childrenIds) + Len(rids)
                 PROVE  J[l].childrenIds[i] \in DOMAIN N \ {r}
      BY <1>9, <1>17, SeqWithin
    <3>1. Len(N[l].childrenIds) \in Nat /\ Len(rids) \in Nat
      BY <1>14
    <3>2. CASE i <= Len(N[l].childrenIds)
      <4>1. i \in 1 .. Len(N[l].childrenIds)
        BY <3>1, <3>2
      <4> QED
        BY <1>1, <1>17, <1>21, <4>1
    <3>3. CASE ~ (i <= Len(N[l].childrenIds))
      <4>1. PICK j \in 1 .. Len(rids) : i = Len(N[l].childrenIds) + j
        <5>1. i - Len(N[l].childrenIds) \in 1 .. Len(rids) /\ i = Len(N[l].childrenIds) + (i - Len(N[l].childrenIds))
          <6> DEFINE C == Len(N[l].childrenIds)
                     D == Len(rids)
          <6>1. C \in Nat /\ D \in Nat /\ i \in 1 .. C + D /\ ~ (i <= C)
            BY <3>1, <3>3
          <6> HIDE DEF C, D
          <6>2. i - C \in 1 .. D /\ i = C + (i - C)
            BY <6>1
          <6> QED
            BY <6>2 DEF C, D
        <5> QED
          BY <5>1
      <4>2. J[l].childrenIds[i] = rids[j]
        BY <1>17, <4>1
      <4>3. rids[j] \in DOMAIN N /\ rids[j] # r
        BY <1>1, <1>21
      <4> QED
        BY <4>2, <4>3
    <3> QED
      BY <3>2, <3>3
  <2>2. J[p].childrenIds \in Seq(DOMAIN J)
    <3> SUFFICES ASSUME NEW i \in 1 .. P
                 PROVE  J[p].childrenIds[i] \in DOMAIN N \ {r}
      BY <1>9, <1>18, SeqWithin
    <3>1. i \in 1 .. P + 1 /\ i + 1 \in 1 .. P + 1 /\ k + 1 \in 1 .. P + 1
      BY <1>2, <1>10
    <3>2. \A j \in 1 .. P + 1 : N[p].childrenIds[j] \in DOMAIN N
                               /\ (j # k + 1 => N[p].childrenIds[j] # r)
      <4>1. \A j \in 1 .. P + 1 : N[p].childrenIds[j] \in DOMAIN N
        BY <1>1, <1>21
      <4>2. \A j \in 1 .. P + 1 : j # k + 1 => N[p].childrenIds[j] # r
        BY <1>1, <1>2, <3>1, ChildrenDiffer
      <4> QED
        BY <4>1, <4>2
    <3>3. (i <= k => i # k + 1) /\ (~ (i <= k) => i + 1 # k + 1)
      BY <1>2, <1>10
    <3> QED
      BY <1>18, <3>1, <3>2, <3>3
  <2>3. \A x \in DOMAIN J \ {l, p} : J[x].childrenIds \in Seq(DOMAIN J)
    <3> TAKE x \in DOMAIN J \ {l, p}
    <3>1. x \in DOMAIN N /\ x # p /\ J[x].childrenIds = N[x].childrenIds /\ N[x].childrenIds \in Seq(DOMAIN N)
      BY <1>3, <1>9, <1>12
    <3>2. \A i \in 1 .. Len(N[x].childrenIds) : N[x].childrenIds[i] \in DOMAIN N \ {r}
      BY <1>21, <3>1
    <3> QED
      BY <1>9, <3>1, <3>2, SeqWithin
  <2>4. \A x \in DOMAIN J : J[x].entries \in Seq(UniqueEntry)
    BY <1>3, <1>9, <1>12, <1>15, <1>16
  <2> QED
    BY <1>9, <1>11, <1>12, <2>1, <2>2, <2>3, <2>4 DEF Typed
<1> QED
  BY <1>9, <1>13, <1>19, <1>20, <1>22 DEF MergeOf, J

-----------------------------------------------------------------------------
(* A rotation is a merge, after which the node is split elsewhere.         *)

(* A merge followed by a split at another place leaves a search tree:      *)
(* rotations are proved as such a pair.                                    *)
LEMMA RotationTree ==
  ASSUME NEW N, NEW R, NEW h, NEW lo, NEW hi, SearchTree(N, R, h, lo, hi),
         NEW p, NEW k, NEW l, NEW r, MayBeMerged(N, p, k, l, r),
         NEW s \in 1 .. Len(N[l].entries) + 1 + Len(N[r].entries),
         NEW N2, SplitOf(Joined(N, p, k, l, r), N2, l, s, k, r)
  PROVE  \E h2, lo2, hi2 : SearchTree(N2, R, h2, lo2, hi2) /\ SameEntries(N, N2)
<1> DEFINE J == Joined(N, p, k, l, r)
<1>1. MergeOf(N, J, p, k, l, r)
  BY JoinedIsMerge
<1> HIDE DEF J
<1>2. SearchTree(J, R, MergeHeights(N, h, r), MergeHeights(N, lo, r), MergeUpper(N, hi, l, r))
  BY <1>1, MergeTree
<1>3. /\ p \in DOMAIN N /\ l \in DOMAIN N /\ r \in DOMAIN N /\ l # r /\ l # R /\ p # r /\ l # p
      /\ N[l].parentId = p /\ r \in Nat \ {0} /\ Len(N[p].entries) \in Nat
  <2>1. DOMAIN N \subseteq Nat \ {0}
    BY DEF SearchTree, WellTyped
  <2> QED
    BY <2>1, Siblings, NodeFacts
<1>4. k \in 1 .. Len(N[p].entries) /\ N[p].childrenIds[k] = l
  BY DEF MayBeMerged
<1>5. /\ DOMAIN J = DOMAIN N \ {r} /\ J[l].parentId = p
      /\ Len(J[l].entries) = Len(N[l].entries) + 1 + Len(N[r].entries)
      /\ Len(J[p].entries) = Len(N[p].entries) - 1
      /\ J[p].childrenIds[k] = l
  <2>1. DOMAIN J = DOMAIN N \ {r} /\ J[l].parentId = p
    BY <1>1, <1>3 DEF MergeOf, MergeParents
  <2>2. /\ Len(J[l].entries) = Len(N[l].entries) + 1 + Len(N[r].entries)
        /\ Len(J[p].entries) = Len(N[p].entries) - 1
    BY <1>1 DEF MergeOf, MergeEntries
  <2>3. \A i \in 1 .. Len(N[p].entries) :
       J[p].childrenIds[i] = IF i <= k THEN N[p].childrenIds[i] ELSE N[p].childrenIds[i + 1]
    BY <1>1 DEF MergeOf, MergeChildren
  <2>4. J[p].childrenIds[k] = l
    BY <1>3, <1>4, <2>3
  <2> QED
    BY <2>1, <2>2, <2>4
<1>6. MayBeSplit(J, R, l, s, k, r)
  <2>1. k \in 1 .. Len(J[p].entries) + 1
    BY <1>3, <1>4, <1>5
  <2> QED
    BY <1>3, <1>5, <2>1 DEF MayBeSplit
<1>7. SplitOf(J, N2, l, s, k, r)
  BY DEF J
<1>8. SameEntries(N, J)
  BY <1>1, MergeKeepsEntries
<1>9. SameEntries(J, N2)
  BY <1>2, <1>6, <1>7, SplitKeepsEntries
<1>10. SameEntries(N, N2)
  BY <1>8, <1>9, StillSame
<1>11. \E h2, lo2, hi2 : SearchTree(N2, R, h2, lo2, hi2)
  BY <1>2, <1>6, <1>7, SplitTree
<1> QED
  BY <1>10, <1>11

(* The right one of two neighbours gives its first entry.                  *)
LeftRotationOf(N, N2, p, k, l, r) ==
  LET L == Len(N[l].entries)
      C == Len(N[l].childrenIds)
      D == Len(N[r].childrenIds) IN
  /\ DOMAIN N2 = DOMAIN N /\ Typed(N2)
  /\ \A x \in DOMAIN N : N2[x].parentId = IF D # 0 /\ x = N[r].childrenIds[1] THEN l ELSE N[x].parentId
  /\ Len(N2[l].entries) = L + 1 /\ N2[l].entries[L + 1] = N[p].entries[k]
  /\ \A i \in 1 .. L : N2[l].entries[i] = N[l].entries[i]
  /\ Len(N2[r].entries) = Len(N[r].entries) - 1
  /\ \A i \in 1 .. Len(N[r].entries) - 1 : N2[r].entries[i] = N[r].entries[i + 1]
  /\ Len(N2[p].entries) = Len(N[p].entries)
  /\ \A i \in 1 .. Len(N[p].entries) :
       N2[p].entries[i] = IF i = k THEN N[r].entries[1] ELSE N[p].entries[i]
  /\ \A x \in DOMAIN N \ {l, r, p} : N2[x].entries = N[x].entries
  /\ Len(N2[l].childrenIds) = IF D = 0 THEN 0 ELSE C + 1
  /\ D # 0 => N2[l].childrenIds[C + 1] = N[r].childrenIds[1]
  /\ \A i \in 1 .. C : N2[l].childrenIds[i] = N[l].childrenIds[i]
  /\ Len(N2[r].childrenIds) = IF D = 0 THEN 0 ELSE D - 1
  /\ \A i \in 1 .. D - 1 : N2[r].childrenIds[i] = N[r].childrenIds[i + 1]
  /\ \A x \in DOMAIN N \ {l, r} : N2[x].childrenIds = N[x].childrenIds

(* RotateLeft has the result of a merge of two siblings that are split     *)
(* again one entry further on.                                             *)
LEMMA LeftRotationSplits ==
  ASSUME NEW N, NEW R, NEW h, NEW lo, NEW hi, SearchTree(N, R, h, lo, hi),
         NEW p, NEW k, NEW l, NEW r, MayBeMerged(N, p, k, l, r),
         Len(N[r].entries) # 0,
         NEW N2, LeftRotationOf(N, N2, p, k, l, r)
  PROVE  SplitOf(Joined(N, p, k, l, r), N2, l, Len(N[l].entries) + 2, k, r)
<1> DEFINE J == Joined(N, p, k, l, r)
           lids == N[l].childrenIds
           rids == N[r].childrenIds
           pids == N[p].childrenIds
           le == N[l].entries
           re == N[r].entries
           pe == N[p].entries
           P == Len(N[p].entries)
           L == Len(N[l].entries)
           M == Len(N[r].entries)
           C == Len(lids)
           D == Len(rids)
           s == L + 2
<1>0. MergeOf(N, J, p, k, l, r)
  BY JoinedIsMerge
<1> HIDE DEF J
<1>1. /\ p \in DOMAIN N /\ l \in DOMAIN N /\ r \in DOMAIN N
      /\ l # r /\ l # p /\ r # p /\ l # R /\ r # R
      /\ N[l].parentId = p /\ N[r].parentId = p
      /\ (IsLeaf(N[l]) <=> IsLeaf(N[r])) /\ Len(pids) = P + 1
  BY Siblings
<1>2. k \in 1 .. P /\ pids[k] = l /\ pids[k + 1] = r
  BY DEF MayBeMerged
<1>3. /\ L \in Nat /\ M \in Nat /\ P \in Nat /\ C \in Nat /\ D \in Nat /\ M # 0
      /\ (C = 0 <=> D = 0) /\ (D # 0 => C = L + 1 /\ D = M + 1) /\ (IsLeaf(N[l]) <=> C = 0)
  BY <1>1, Links
<1>4. /\ \A x \in DOMAIN N : N[x].parentId = r <=> \E i \in 1 .. D : rids[i] = x
      /\ \A i, j \in 1 .. D : rids[i] = rids[j] => i = j
      /\ \A i \in 1 .. D : rids[i] \in DOMAIN N /\ N[rids[i]].parentId = r
      /\ \A i \in 1 .. C : lids[i] \in DOMAIN N /\ N[lids[i]].parentId = l
  <2>1. /\ \A i, j \in 1 .. D : rids[i] = rids[j] => i = j
        /\ \A i \in 1 .. D : rids[i] \in DOMAIN N /\ N[rids[i]].parentId = r
        /\ \A i \in 1 .. C : lids[i] \in DOMAIN N /\ N[lids[i]].parentId = l
    BY <1>1, Links
  <2>2. ASSUME NEW x \in DOMAIN N, N[x].parentId = r
        PROVE  \E i \in 1 .. D : rids[i] = x
    <3>1. x # R
      BY <1>1, <2>2, Links
    <3> QED
      BY <2>2, <3>1, Links
  <2> QED
    BY <2>1, <2>2
<1>5. /\ DOMAIN J = DOMAIN N \ {r}
      /\ \A x \in DOMAIN N \ {r} : J[x].parentId = IF N[x].parentId = r THEN l ELSE N[x].parentId
  BY <1>0 DEF MergeOf, MergeParents
<1>6. /\ Len(J[l].entries) = L + 1 + M
      /\ \A i \in 1 .. L : J[l].entries[i] = le[i]
      /\ J[l].entries[L + 1] = pe[k]
      /\ \A i \in 1 .. M : J[l].entries[L + 1 + i] = re[i]
      /\ Len(J[p].entries) = P - 1
      /\ \A i \in 1 .. P - 1 : J[p].entries[i] = IF i < k THEN pe[i] ELSE pe[i + 1]
      /\ \A c \in DOMAIN N \ {l, p, r} : J[c].entries = N[c].entries
  BY <1>0, <1>5 DEF MergeOf, MergeEntries
<1>7. /\ Len(J[l].childrenIds) = C + D
      /\ \A i \in 1 .. C : J[l].childrenIds[i] = lids[i]
      /\ \A i \in 1 .. D : J[l].childrenIds[C + i] = rids[i]
      /\ Len(J[p].childrenIds) = P
      /\ \A i \in 1 .. P : J[p].childrenIds[i] = IF i <= k THEN pids[i] ELSE pids[i + 1]
      /\ \A c \in DOMAIN N \ {l, p, r} : J[c].childrenIds = N[c].childrenIds
      /\ IsLeaf(J[l]) <=> Len(J[l].childrenIds) = 0
  <2>1. J[l].childrenIds \in Seq(DOMAIN J)
    BY <1>0, <1>1, <1>5 DEF MergeOf, Typed
  <2>2. IsLeaf(J[l]) <=> Len(J[l].childrenIds) = 0
    <3> DEFINE q == J[l].childrenIds
    <3>1. q \in Seq(DOMAIN J)
      BY <2>1
    <3>2. IsLeaf(J[l]) <=> q = <<>>
      BY DEF IsLeaf
    <3> HIDE DEF q
    <3>3. q = <<>> <=> Len(q) = 0
      BY <3>1
    <3> QED
      BY <3>2, <3>3 DEF q
  <2> QED
    BY <1>0, <1>5, <2>2 DEF MergeOf, MergeChildren
<1>8. /\ DOMAIN N2 = DOMAIN N /\ Typed(N2)
      /\ \A x \in DOMAIN N : N2[x].parentId = IF D # 0 /\ x = rids[1] THEN l ELSE N[x].parentId
      /\ Len(N2[l].entries) = L + 1 /\ N2[l].entries[L + 1] = pe[k]
      /\ \A i \in 1 .. L : N2[l].entries[i] = le[i]
      /\ Len(N2[r].entries) = M - 1
      /\ \A i \in 1 .. M - 1 : N2[r].entries[i] = re[i + 1]
      /\ Len(N2[p].entries) = P
      /\ \A i \in 1 .. P : N2[p].entries[i] = IF i = k THEN re[1] ELSE pe[i]
      /\ \A x \in DOMAIN N \ {l, r, p} : N2[x].entries = N[x].entries
  BY DEF LeftRotationOf
<1>9. /\ Len(N2[l].childrenIds) = IF D = 0 THEN 0 ELSE C + 1
      /\ D # 0 => N2[l].childrenIds[C + 1] = rids[1]
      /\ \A i \in 1 .. C : N2[l].childrenIds[i] = lids[i]
      /\ Len(N2[r].childrenIds) = IF D = 0 THEN 0 ELSE D - 1
      /\ \A i \in 1 .. D - 1 : N2[r].childrenIds[i] = rids[i + 1]
      /\ \A x \in DOMAIN N \ {l, r} : N2[x].childrenIds = N[x].childrenIds
  BY DEF LeftRotationOf
<1> HIDE DEF lids, rids, pids, le, re, pe, P, L, M, C, D
<1>10. SplitParents(J, N2, l, s, r)
  <2>1. N2[r].parentId = J[l].parentId
    <3>1. D # 0 => r # rids[1]
      BY <1>1, <1>3, <1>4
    <3>2. J[l].parentId = p
      BY <1>1, <1>5
    <3> QED
      BY <1>1, <1>8, <3>1, <3>2
  <2>2. ASSUME NEW x \in DOMAIN J
        PROVE  N2[x].parentId = IF \E i \in s + 1 .. Len(J[l].childrenIds) : J[l].childrenIds[i] = x
                                  THEN r ELSE J[x].parentId
    <3>1. x \in DOMAIN N /\ x # r /\ J[x].parentId = (IF N[x].parentId = r THEN l ELSE N[x].parentId)
      BY <1>5
    <3>2. N2[x].parentId = IF D # 0 /\ x = rids[1] THEN l ELSE N[x].parentId
      BY <1>8, <3>1
    <3>3. ASSUME NEW i \in s + 1 .. Len(J[l].childrenIds), J[l].childrenIds[i] = x
          PROVE  D # 0 /\ x # rids[1] /\ N[x].parentId = r
      <4>1. D # 0 /\ i \in C + 2 .. C + D
        BY <1>3, <1>7, <3>3
      <4>2. PICK j \in 2 .. D : i = C + j
        <5>1. i - C \in 2 .. D /\ i = C + (i - C)
          BY <1>3, <4>1
        <5> QED
          BY <5>1
      <4>3. x = rids[j] /\ j \in 1 .. D /\ 1 \in 1 .. D /\ j # 1
        BY <1>3, <1>7, <3>3, <4>1, <4>2
      <4> QED
        BY <1>4, <4>1, <4>3
    <3>4. ASSUME D # 0, x # rids[1], N[x].parentId = r
          PROVE  \E i \in s + 1 .. Len(J[l].childrenIds) : J[l].childrenIds[i] = x
      <4>1. PICK j \in 1 .. D : rids[j] = x
        BY <1>4, <3>1, <3>4
      <4>2. C + j \in s + 1 .. C + D
        BY <1>3, <3>4, <4>1
      <4> QED
        BY <1>7, <4>1, <4>2
    <3>5. D # 0 /\ x = rids[1] => N[x].parentId = r
      BY <1>3, <1>4
    <3>6. N[x].parentId = r => D # 0
      BY <1>3, <1>4, <3>1
    <3>7. CASE \E i \in s + 1 .. Len(J[l].childrenIds) : J[l].childrenIds[i] = x
      BY <3>2, <3>3, <3>7
    <3>8. CASE ~ \E i \in s + 1 .. Len(J[l].childrenIds) : J[l].childrenIds[i] = x
      BY <3>1, <3>2, <3>4, <3>5, <3>6, <3>8
    <3> QED
      BY <3>7, <3>8
  <2> QED
    BY <2>1, <2>2 DEF SplitParents
<1>11. J[l].parentId = p
  BY <1>1, <1>5
<1>12. SplitEntries(J, N2, l, s, k, r)
  <2>1. Len(N2[l].entries) = s - 1
    BY <1>3, <1>8
  <2>2. \A i \in 1 .. s - 1 : N2[l].entries[i] = J[l].entries[i]
    <3> TAKE i \in 1 .. s - 1
    <3>1. i \in 1 .. L \/ i = L + 1
      BY <1>3
    <3> QED
      BY <1>6, <1>8, <3>1
  <2>3. Len(N2[r].entries) = Len(J[l].entries) - s
    BY <1>3, <1>6, <1>8
  <2>4. \A i \in 1 .. Len(J[l].entries) - s : N2[r].entries[i] = J[l].entries[s + i]
    <3>0. Len(J[l].entries) - s = M - 1
      <4> DEFINE q == Len(J[l].entries)
      <4>1. q = L + 1 + M /\ s = L + 2 /\ L \in Nat /\ M \in Nat
        BY <1>3, <1>6
      <4> HIDE DEF q, s, L, M
      <4>2. q - s = M - 1
        BY <4>1
      <4> QED
        BY <4>2 DEF q
    <3> TAKE i \in 1 .. Len(J[l].entries) - s
    <3>1. i \in 1 .. M - 1 /\ i + 1 \in 1 .. M /\ s + i = L + 1 + (i + 1)
      <4>1. i \in 1 .. M - 1
        BY <3>0
      <4> QED
        BY <1>3, <3>0, <4>1
    <3>2. J[l].entries[L + 1 + (i + 1)] = re[i + 1]
      BY <1>6, <3>1
    <3> QED
      BY <1>8, <3>1, <3>2
  <2>5. Len(N2[p].entries) = Len(J[p].entries) + 1
    BY <1>3, <1>6, <1>8
  <2>6. \A i \in 1 .. Len(J[p].entries) + 1 :
          N2[p].entries[i] = IF i < k THEN J[p].entries[i] ELSE IF i = k THEN J[l].entries[s]
                             ELSE J[p].entries[i - 1]
    <3> TAKE i \in 1 .. Len(J[p].entries) + 1
    <3>1. i \in 1 .. P /\ k \in Nat
      BY <1>2, <1>3, <1>6
    <3>2. CASE i < k
      <4>1. i \in 1 .. P - 1 /\ i # k
        BY <1>2, <1>3, <3>1, <3>2
      <4> QED
        BY <1>6, <1>8, <3>1, <3>2, <4>1
    <3>3. CASE i = k
      <4>1. 1 \in 1 .. M /\ s = L + 1 + 1
        BY <1>3
      <4>2. J[l].entries[s] = re[1]
        BY <1>6, <4>1
      <4> QED
        BY <1>8, <3>1, <3>3, <4>2
    <3>4. CASE i > k
      <4>1. i - 1 \in 1 .. P - 1 /\ ~ (i - 1 < k) /\ (i - 1) + 1 = i /\ ~ (i < k) /\ i # k
        BY <1>2, <1>3, <3>1, <3>4
      <4>2. J[p].entries[i - 1] = pe[i]
        BY <1>6, <4>1
      <4> QED
        BY <1>8, <3>1, <4>1, <4>2
    <3> QED
      BY <3>1, <3>2, <3>3, <3>4
  <2>7. \A x \in DOMAIN J \ {l, p} : N2[x].entries = J[x].entries
    BY <1>5, <1>6, <1>8
  <2> HIDE DEF s
  <2> QED
    BY <1>11, <2>1, <2>2, <2>3, <2>4, <2>5, <2>6, <2>7 DEF SplitEntries
<1>13. SplitChildren(J, N2, l, s, k, r)
  <2>1. Len(N2[l].childrenIds) = IF IsLeaf(J[l]) THEN 0 ELSE s
    <3>1. CASE D = 0
      BY <1>3, <1>7, <1>9, <3>1
    <3>2. CASE D # 0
      <4>1. ~ IsLeaf(J[l]) /\ C + 1 = s
        BY <1>3, <1>7, <3>2
      <4> QED
        BY <1>9, <3>2, <4>1
    <3> QED
      BY <3>1, <3>2
  <2>2. \A i \in 1 .. Len(N2[l].childrenIds) : N2[l].childrenIds[i] = J[l].childrenIds[i]
    <3> TAKE i \in 1 .. Len(N2[l].childrenIds)
    <3>1. D # 0 /\ i \in 1 .. C + 1
      BY <1>3, <1>9
    <3>2. CASE i = C + 1
      <4>1. 1 \in 1 .. D
        BY <1>3, <3>1
      <4> QED
        BY <1>7, <1>9, <3>1, <3>2, <4>1
    <3>3. CASE i # C + 1
      <4>1. i \in 1 .. C
        BY <1>3, <3>1, <3>3
      <4> QED
        BY <1>7, <1>9, <4>1
    <3> QED
      BY <3>2, <3>3
  <2>3. Len(N2[r].childrenIds) = IF IsLeaf(J[l]) THEN 0 ELSE Len(J[l].childrenIds) - s
    <3>1. CASE D = 0
      BY <1>3, <1>7, <1>9, <3>1
    <3>2. CASE D # 0
      <4>1. ~ IsLeaf(J[l]) /\ (C + D) - s = D - 1
        BY <1>3, <1>7, <3>2
      <4> QED
        BY <1>7, <1>9, <3>2, <4>1
    <3> QED
      BY <3>1, <3>2
  <2>4. \A i \in 1 .. Len(N2[r].childrenIds) : N2[r].childrenIds[i] = J[l].childrenIds[s + i]
    <3> TAKE i \in 1 .. Len(N2[r].childrenIds)
    <3>1. D # 0 /\ i \in 1 .. D - 1 /\ i + 1 \in 1 .. D /\ s + i = C + (i + 1)
      BY <1>3, <1>9
    <3>2. J[l].childrenIds[C + (i + 1)] = rids[i + 1]
      BY <1>7, <3>1
    <3> QED
      BY <1>9, <3>1, <3>2
  <2>5. N2[p].childrenIds = pids /\ Len(pids) = Len(J[p].childrenIds) + 1
    BY <1>1, <1>3, <1>7, <1>9 DEF pids
  <2>6. \A i \in 1 .. Len(J[p].childrenIds) + 1 :
          pids[i] = IF i <= k THEN J[p].childrenIds[i] ELSE IF i = k + 1 THEN r
                    ELSE J[p].childrenIds[i - 1]
    <3> TAKE i \in 1 .. Len(J[p].childrenIds) + 1
    <3>1. i \in 1 .. P + 1 /\ k \in Nat
      BY <1>2, <1>3, <1>7
    <3>2. CASE i <= k
      <4>1. i \in 1 .. P
        BY <1>2, <1>3, <3>1, <3>2
      <4> QED
        BY <1>7, <3>2, <4>1
    <3>3. CASE i = k + 1
      BY <1>2, <3>1, <3>3
    <3>4. CASE i > k + 1
      <4>1. i - 1 \in 1 .. P /\ ~ (i - 1 <= k) /\ (i - 1) + 1 = i /\ ~ (i <= k) /\ i # k + 1
        BY <1>2, <1>3, <3>1, <3>4
      <4>2. J[p].childrenIds[i - 1] = pids[i]
        BY <1>7, <4>1
      <4> QED
        BY <4>1, <4>2
    <3> QED
      BY <3>1, <3>2, <3>3, <3>4
  <2>7. \A x \in DOMAIN J \ {l, p} : N2[x].childrenIds = J[x].childrenIds
    BY <1>5, <1>7, <1>9
  <2> HIDE DEF s
  <2> QED
    BY <1>11, <2>1, <2>2, <2>3, <2>4, <2>5, <2>6, <2>7 DEF SplitChildren
<1>14. DOMAIN N2 = DOMAIN J \cup {r}
  BY <1>1, <1>5, <1>8
<1>15. SplitOf(J, N2, l, s, k, r)
  BY <1>8, <1>10, <1>12, <1>13, <1>14 DEF SplitOf
<1> QED
  BY <1>15 DEF J, L

(* The left one of two neighbours gives its last entry.                    *)
RightRotationOf(N, N2, p, k, l, r) ==
  LET L == Len(N[l].entries)
      M == Len(N[r].entries)
      C == Len(N[l].childrenIds)
      D == Len(N[r].childrenIds) IN
  /\ DOMAIN N2 = DOMAIN N /\ Typed(N2)
  /\ \A x \in DOMAIN N : N2[x].parentId = IF C # 0 /\ x = N[l].childrenIds[C] THEN r ELSE N[x].parentId
  /\ Len(N2[r].entries) = M + 1 /\ N2[r].entries[1] = N[p].entries[k]
  /\ \A i \in 1 .. M : N2[r].entries[i + 1] = N[r].entries[i]
  /\ Len(N2[l].entries) = L - 1
  /\ \A i \in 1 .. L - 1 : N2[l].entries[i] = N[l].entries[i]
  /\ Len(N2[p].entries) = Len(N[p].entries)
  /\ \A i \in 1 .. Len(N[p].entries) :
       N2[p].entries[i] = IF i = k THEN N[l].entries[L] ELSE N[p].entries[i]
  /\ \A x \in DOMAIN N \ {l, r, p} : N2[x].entries = N[x].entries
  /\ Len(N2[r].childrenIds) = IF C = 0 THEN 0 ELSE D + 1
  /\ C # 0 => N2[r].childrenIds[1] = N[l].childrenIds[C]
  /\ \A i \in 1 .. D : N2[r].childrenIds[i + 1] = N[r].childrenIds[i]
  /\ Len(N2[l].childrenIds) = IF C = 0 THEN 0 ELSE C - 1
  /\ \A i \in 1 .. C - 1 : N2[l].childrenIds[i] = N[l].childrenIds[i]
  /\ \A x \in DOMAIN N \ {l, r} : N2[x].childrenIds = N[x].childrenIds

(* RotateRight has the result of a merge of two siblings that are split    *)
(* again one entry earlier.                                                *)
LEMMA RightRotationSplits ==
  ASSUME NEW N, NEW R, NEW h, NEW lo, NEW hi, SearchTree(N, R, h, lo, hi),
         NEW p, NEW k, NEW l, NEW r, MayBeMerged(N, p, k, l, r),
         Len(N[l].entries) # 0,
         NEW N2, RightRotationOf(N, N2, p, k, l, r)
  PROVE  SplitOf(Joined(N, p, k, l, r), N2, l, Len(N[l].entries), k, r)
<1> DEFINE J == Joined(N, p, k, l, r)
           lids == N[l].childrenIds
           rids == N[r].childrenIds
           pids == N[p].childrenIds
           le == N[l].entries
           re == N[r].entries
           pe == N[p].entries
           P == Len(N[p].entries)
           L == Len(N[l].entries)
           M == Len(N[r].entries)
           C == Len(lids)
           D == Len(rids)
           s == L
<1>0. MergeOf(N, J, p, k, l, r)
  BY JoinedIsMerge
<1> HIDE DEF J
<1>1. /\ p \in DOMAIN N /\ l \in DOMAIN N /\ r \in DOMAIN N
      /\ l # r /\ l # p /\ r # p /\ l # R /\ r # R
      /\ N[l].parentId = p /\ N[r].parentId = p
      /\ (IsLeaf(N[l]) <=> IsLeaf(N[r])) /\ Len(pids) = P + 1
  BY Siblings
<1>2. k \in 1 .. P /\ pids[k] = l /\ pids[k + 1] = r
  BY DEF MayBeMerged
<1>3. /\ L \in Nat /\ M \in Nat /\ P \in Nat /\ C \in Nat /\ D \in Nat /\ L # 0
      /\ (C = 0 <=> D = 0) /\ (D # 0 => C = L + 1 /\ D = M + 1) /\ (IsLeaf(N[l]) <=> C = 0)
  BY <1>1, Links
<1>4. /\ \A x \in DOMAIN N : N[x].parentId = r <=> \E i \in 1 .. D : rids[i] = x
      /\ \A i, j \in 1 .. D : rids[i] = rids[j] => i = j
      /\ \A i \in 1 .. D : rids[i] \in DOMAIN N /\ N[rids[i]].parentId = r
      /\ \A i \in 1 .. C : lids[i] \in DOMAIN N /\ N[lids[i]].parentId = l
      /\ \A i, j \in 1 .. C : lids[i] = lids[j] => i = j
  <2>1. /\ \A i, j \in 1 .. D : rids[i] = rids[j] => i = j
        /\ \A i \in 1 .. D : rids[i] \in DOMAIN N /\ N[rids[i]].parentId = r
        /\ \A i \in 1 .. C : lids[i] \in DOMAIN N /\ N[lids[i]].parentId = l
        /\ \A i, j \in 1 .. C : lids[i] = lids[j] => i = j
    BY <1>1, Links
  <2>2. ASSUME NEW x \in DOMAIN N, N[x].parentId = r
        PROVE  \E i \in 1 .. D : rids[i] = x
    <3>1. x # R
      BY <1>1, <2>2, Links
    <3> QED
      BY <2>2, <3>1, Links
  <2> QED
    BY <2>1, <2>2
<1>5. /\ DOMAIN J = DOMAIN N \ {r}
      /\ \A x \in DOMAIN N \ {r} : J[x].parentId = IF N[x].parentId = r THEN l ELSE N[x].parentId
  BY <1>0 DEF MergeOf, MergeParents
<1>6. /\ Len(J[l].entries) = L + 1 + M
      /\ \A i \in 1 .. L : J[l].entries[i] = le[i]
      /\ J[l].entries[L + 1] = pe[k]
      /\ \A i \in 1 .. M : J[l].entries[L + 1 + i] = re[i]
      /\ Len(J[p].entries) = P - 1
      /\ \A i \in 1 .. P - 1 : J[p].entries[i] = IF i < k THEN pe[i] ELSE pe[i + 1]
      /\ \A c \in DOMAIN N \ {l, p, r} : J[c].entries = N[c].entries
  BY <1>0, <1>5 DEF MergeOf, MergeEntries
<1>7. /\ Len(J[l].childrenIds) = C + D
      /\ \A i \in 1 .. C : J[l].childrenIds[i] = lids[i]
      /\ \A i \in 1 .. D : J[l].childrenIds[C + i] = rids[i]
      /\ Len(J[p].childrenIds) = P
      /\ \A i \in 1 .. P : J[p].childrenIds[i] = IF i <= k THEN pids[i] ELSE pids[i + 1]
      /\ \A c \in DOMAIN N \ {l, p, r} : J[c].childrenIds = N[c].childrenIds
      /\ IsLeaf(J[l]) <=> Len(J[l].childrenIds) = 0
  <2>1. J[l].childrenIds \in Seq(DOMAIN J)
    BY <1>0, <1>1, <1>5 DEF MergeOf, Typed
  <2>2. IsLeaf(J[l]) <=> Len(J[l].childrenIds) = 0
    <3> DEFINE q == J[l].childrenIds
    <3>1. q \in Seq(DOMAIN J)
      BY <2>1
    <3>2. IsLeaf(J[l]) <=> q = <<>>
      BY DEF IsLeaf
    <3> HIDE DEF q
    <3>3. q = <<>> <=> Len(q) = 0
      BY <3>1
    <3> QED
      BY <3>2, <3>3 DEF q
  <2> QED
    BY <1>0, <1>5, <2>2 DEF MergeOf, MergeChildren
<1>8. /\ DOMAIN N2 = DOMAIN N /\ Typed(N2)
      /\ \A x \in DOMAIN N : N2[x].parentId = IF C # 0 /\ x = lids[C] THEN r ELSE N[x].parentId
      /\ Len(N2[r].entries) = M + 1 /\ N2[r].entries[1] = pe[k]
      /\ \A i \in 1 .. M : N2[r].entries[i + 1] = re[i]
      /\ Len(N2[l].entries) = L - 1
      /\ \A i \in 1 .. L - 1 : N2[l].entries[i] = le[i]
      /\ Len(N2[p].entries) = P
      /\ \A i \in 1 .. P : N2[p].entries[i] = IF i = k THEN le[L] ELSE pe[i]
      /\ \A x \in DOMAIN N \ {l, r, p} : N2[x].entries = N[x].entries
  BY DEF RightRotationOf
<1>9. /\ Len(N2[r].childrenIds) = IF C = 0 THEN 0 ELSE D + 1
      /\ C # 0 => N2[r].childrenIds[1] = lids[C]
      /\ \A i \in 1 .. D : N2[r].childrenIds[i + 1] = rids[i]
      /\ Len(N2[l].childrenIds) = IF C = 0 THEN 0 ELSE C - 1
      /\ \A i \in 1 .. C - 1 : N2[l].childrenIds[i] = lids[i]
      /\ \A x \in DOMAIN N \ {l, r} : N2[x].childrenIds = N[x].childrenIds
  BY DEF RightRotationOf
<1> HIDE DEF lids, rids, pids, le, re, pe, P, L, M, C, D
<1>10. SplitParents(J, N2, l, s, r)
  <2>1. N2[r].parentId = J[l].parentId
    <3>1. C # 0 => r # lids[C]
      BY <1>1, <1>3, <1>4
    <3>2. J[l].parentId = p
      BY <1>1, <1>5
    <3> QED
      BY <1>1, <1>8, <3>1, <3>2
  <2>2. ASSUME NEW x \in DOMAIN J
        PROVE  N2[x].parentId = IF \E i \in s + 1 .. Len(J[l].childrenIds) : J[l].childrenIds[i] = x
                                  THEN r ELSE J[x].parentId
    <3>1. x \in DOMAIN N /\ x # r /\ J[x].parentId = (IF N[x].parentId = r THEN l ELSE N[x].parentId)
      BY <1>5
    <3>2. N2[x].parentId = IF C # 0 /\ x = lids[C] THEN r ELSE N[x].parentId
      BY <1>8, <3>1
    <3>3. ASSUME NEW i \in s + 1 .. Len(J[l].childrenIds), J[l].childrenIds[i] = x
          PROVE  (C # 0 /\ x = lids[C]) \/ N[x].parentId = r
      <4>1. C # 0 /\ i \in C .. C + D
        BY <1>3, <1>7, <3>3
      <4>2. CASE i = C
        <5>1. C \in 1 .. C
          BY <1>3, <4>1
        <5> QED
          BY <1>7, <3>3, <4>1, <4>2, <5>1
      <4>3. CASE i # C
        <5>1. PICK j \in 1 .. D : i = C + j
          <6>1. i - C \in 1 .. D /\ i = C + (i - C)
            BY <1>3, <4>1, <4>3
          <6> QED
            BY <6>1
        <5>2. x = rids[j]
          BY <1>7, <3>3, <5>1
        <5> QED
          BY <1>4, <5>2
      <4> QED
        BY <4>2, <4>3
    <3>4. ASSUME N[x].parentId = r
          PROVE  \E i \in s + 1 .. Len(J[l].childrenIds) : J[l].childrenIds[i] = x
      <4>1. PICK j \in 1 .. D : rids[j] = x
        BY <1>4, <3>1, <3>4
      <4>2. C + j \in s + 1 .. C + D
        BY <1>3, <4>1
      <4> QED
        BY <1>7, <4>1, <4>2
    <3>5. ASSUME C # 0, x = lids[C]
          PROVE  \E i \in s + 1 .. Len(J[l].childrenIds) : J[l].childrenIds[i] = x
      <4>1. C \in s + 1 .. C + D /\ C \in 1 .. C
        BY <1>3, <3>5
      <4> QED
        BY <1>7, <3>5, <4>1
    <3>7. CASE \E i \in s + 1 .. Len(J[l].childrenIds) : J[l].childrenIds[i] = x
      BY <3>2, <3>3, <3>7
    <3>8. CASE ~ \E i \in s + 1 .. Len(J[l].childrenIds) : J[l].childrenIds[i] = x
      BY <3>1, <3>2, <3>4, <3>5, <3>8
    <3> QED
      BY <3>7, <3>8
  <2> QED
    BY <2>1, <2>2 DEF SplitParents
<1>11. J[l].parentId = p
  BY <1>1, <1>5
<1>12. SplitEntries(J, N2, l, s, k, r)
  <2>1. Len(N2[l].entries) = s - 1
    BY <1>3, <1>8
  <2>2. \A i \in 1 .. s - 1 : N2[l].entries[i] = J[l].entries[i]
    <3> TAKE i \in 1 .. s - 1
    <3>1. i \in 1 .. L
      BY <1>3
    <3> QED
      BY <1>6, <1>8, <3>1
  <2>3. Len(N2[r].entries) = Len(J[l].entries) - s
    BY <1>3, <1>6, <1>8
  <2>4. \A i \in 1 .. Len(J[l].entries) - s : N2[r].entries[i] = J[l].entries[s + i]
    <3> TAKE i \in 1 .. Len(J[l].entries) - s
    <3>0. Len(J[l].entries) - s = M + 1 /\ i \in Nat
      BY <1>3, <1>6
    <3>1. i \in 1 .. M + 1
      BY <3>0
    <3>2. CASE i = 1
      BY <1>6, <1>8, <3>2
    <3>3. CASE i # 1
      <4>1. PICK j \in 1 .. M : i = j + 1
        <5>1. i - 1 \in 1 .. M /\ i = (i - 1) + 1
          BY <1>3, <3>1, <3>3
        <5> QED
          BY <5>1
      <4>2. s + i = L + 1 + j
        BY <1>3, <4>1
      <4> QED
        BY <1>6, <1>8, <4>1, <4>2
    <3> QED
      BY <3>2, <3>3
  <2>5. Len(N2[p].entries) = Len(J[p].entries) + 1
    BY <1>3, <1>6, <1>8
  <2>6. \A i \in 1 .. Len(J[p].entries) + 1 :
          N2[p].entries[i] = IF i < k THEN J[p].entries[i] ELSE IF i = k THEN J[l].entries[s]
                             ELSE J[p].entries[i - 1]
    <3> TAKE i \in 1 .. Len(J[p].entries) + 1
    <3>1. i \in 1 .. P /\ k \in Nat
      BY <1>2, <1>3, <1>6
    <3>2. CASE i < k
      <4>1. i \in 1 .. P - 1 /\ i # k
        BY <1>2, <1>3, <3>1, <3>2
      <4> QED
        BY <1>6, <1>8, <3>1, <3>2, <4>1
    <3>3. CASE i = k
      <4>1. L \in 1 .. L
        BY <1>3
      <4>2. J[l].entries[s] = le[L]
        BY <1>6, <4>1
      <4> QED
        BY <1>8, <3>1, <3>3, <4>2
    <3>4. CASE i > k
      <4>1. i - 1 \in 1 .. P - 1 /\ ~ (i - 1 < k) /\ (i - 1) + 1 = i /\ ~ (i < k) /\ i # k
        BY <1>2, <1>3, <3>1, <3>4
      <4>2. J[p].entries[i - 1] = pe[i]
        BY <1>6, <4>1
      <4> QED
        BY <1>8, <3>1, <4>1, <4>2
    <3> QED
      BY <3>1, <3>2, <3>3, <3>4
  <2>7. \A x \in DOMAIN J \ {l, p} : N2[x].entries = J[x].entries
    BY <1>5, <1>6, <1>8
  <2> HIDE DEF s
  <2> QED
    BY <1>11, <2>1, <2>2, <2>3, <2>4, <2>5, <2>6, <2>7 DEF SplitEntries
<1>13. SplitChildren(J, N2, l, s, k, r)
  <2>1. Len(N2[l].childrenIds) = IF IsLeaf(J[l]) THEN 0 ELSE s
    <3>1. CASE C = 0
      BY <1>3, <1>7, <1>9, <3>1
    <3>2. CASE C # 0
      <4>1. ~ IsLeaf(J[l]) /\ C - 1 = s
        BY <1>3, <1>7, <3>2
      <4> QED
        BY <1>9, <3>2, <4>1
    <3> QED
      BY <3>1, <3>2
  <2>2. \A i \in 1 .. Len(N2[l].childrenIds) : N2[l].childrenIds[i] = J[l].childrenIds[i]
    <3> TAKE i \in 1 .. Len(N2[l].childrenIds)
    <3>1. i \in 1 .. C - 1 /\ i \in 1 .. C
      BY <1>3, <1>9
    <3> QED
      BY <1>7, <1>9, <3>1
  <2>3. Len(N2[r].childrenIds) = IF IsLeaf(J[l]) THEN 0 ELSE Len(J[l].childrenIds) - s
    <3>1. CASE C = 0
      BY <1>3, <1>7, <1>9, <3>1
    <3>2. CASE C # 0
      <4>1. ~ IsLeaf(J[l]) /\ (C + D) - s = D + 1
        BY <1>3, <1>7, <3>2
      <4> QED
        BY <1>7, <1>9, <3>2, <4>1
    <3> QED
      BY <3>1, <3>2
  <2>4. \A i \in 1 .. Len(N2[r].childrenIds) : N2[r].childrenIds[i] = J[l].childrenIds[s + i]
    <3> TAKE i \in 1 .. Len(N2[r].childrenIds)
    <3>1. C # 0 /\ i \in 1 .. D + 1
      BY <1>3, <1>9
    <3>2. CASE i = 1
      <4>1. s + 1 = C /\ C \in 1 .. C
        BY <1>3, <3>1
      <4> QED
        BY <1>7, <1>9, <3>1, <3>2, <4>1
    <3>3. CASE i # 1
      <4>1. PICK j \in 1 .. D : i = j + 1
        <5>1. i - 1 \in 1 .. D /\ i = (i - 1) + 1
          BY <1>3, <3>1, <3>3
        <5> QED
          BY <5>1
      <4>2. s + i = C + j
        BY <1>3, <3>1, <4>1
      <4> QED
        BY <1>7, <1>9, <4>1, <4>2
    <3> QED
      BY <3>2, <3>3
  <2>5. N2[p].childrenIds = pids /\ Len(pids) = Len(J[p].childrenIds) + 1
    BY <1>1, <1>3, <1>7, <1>9 DEF pids
  <2>6. \A i \in 1 .. Len(J[p].childrenIds) + 1 :
          pids[i] = IF i <= k THEN J[p].childrenIds[i] ELSE IF i = k + 1 THEN r
                    ELSE J[p].childrenIds[i - 1]
    <3> TAKE i \in 1 .. Len(J[p].childrenIds) + 1
    <3>1. i \in 1 .. P + 1 /\ k \in Nat
      BY <1>2, <1>3, <1>7
    <3>2. CASE i <= k
      <4>1. i \in 1 .. P
        BY <1>2, <1>3, <3>1, <3>2
      <4> QED
        BY <1>7, <3>2, <4>1
    <3>3. CASE i = k + 1
      BY <1>2, <3>1, <3>3
    <3>4. CASE i > k + 1
      <4>1. i - 1 \in 1 .. P /\ ~ (i - 1 <= k) /\ (i - 1) + 1 = i /\ ~ (i <= k) /\ i # k + 1
        BY <1>2, <1>3, <3>1, <3>4
      <4>2. J[p].childrenIds[i - 1] = pids[i]
        BY <1>7, <4>1
      <4> QED
        BY <4>1, <4>2
    <3> QED
      BY <3>1, <3>2, <3>3, <3>4
  <2>7. \A x \in DOMAIN J \ {l, p} : N2[x].childrenIds = J[x].childrenIds
    BY <1>5, <1>7, <1>9
  <2> HIDE DEF s
  <2> QED
    BY <1>11, <2>1, <2>2, <2>3, <2>4, <2>5, <2>6, <2>7 DEF SplitChildren
<1>14. DOMAIN N2 = DOMAIN J \cup {r}
  BY <1>1, <1>5, <1>8
<1>15. SplitOf(J, N2, l, s, k, r)
  BY <1>8, <1>10, <1>12, <1>13, <1>14 DEF SplitOf
<1> QED
  BY <1>15 DEF J, L

-----------------------------------------------------------------------------
(* Which entries the other changes leave, add or take away.                *)

(* The new root has none yet.                                              *)
LEMMA GrownKeepsEntries ==
  ASSUME NEW N, NEW R \in DOMAIN N, NEW top, top \notin DOMAIN N
  PROVE  SameEntries(N, Grown(N, R, top))
<1> DEFINE G == Grown(N, R, top)
           D == DOMAIN N
<1>1. /\ DOMAIN G = D \cup {top} /\ G[top] = Node(0, <<>>, <<R>>)
      /\ G[R] = Node(top, N[R].entries, N[R].childrenIds)
      /\ \A x \in D \ {R} : G[x] = N[x]
  BY DEF Grown
<1>2. G[top].entries = <<>> /\ G[R].entries = N[R].entries
  BY <1>1, NodeFields
<1>3. /\ \A x \in D : G[x].entries = N[x].entries
      /\ \A i \in 1 .. Len(G[top].entries) : FALSE
  BY <1>1, <1>2
<1> HIDE DEF G
<1>4. ASSUME NEW x \in DOMAIN G, NEW i \in 1 .. Len(G[x].entries)
      PROVE  Has(N, G[x].entries[i])
  <2>1. x \in D
    BY <1>1, <1>3, <1>4
  <2> QED
    BY <1>3, <1>4, <2>1, HasEntry
<1>5. ASSUME NEW x \in D, NEW i \in 1 .. Len(N[x].entries)
      PROVE  Has(G, N[x].entries[i])
  <2>1. x \in DOMAIN G /\ G[x].entries = N[x].entries
    BY <1>1, <1>3
  <2> QED
    BY <1>5, <2>1, HasEntry
<1>6. SameEntries(N, G)
  BY <1>4, <1>5, SameBothWays
<1> QED
  BY <1>6 DEF G

(* The root that goes has none left.                                       *)
LEMMA ShrunkKeepsEntries ==
  ASSUME NEW N, NEW R, N[R].entries = <<>>, NEW c, NEW N2, ShrunkOf(N, N2, R, c)
  PROVE  SameEntries(N, N2)
<1>1. /\ DOMAIN N2 = DOMAIN N \ {R}
      /\ \A x \in DOMAIN N2 : N2[x].entries = N[x].entries
  BY DEF ShrunkOf
<1>2. ASSUME NEW x \in DOMAIN N2, NEW i \in 1 .. Len(N2[x].entries)
      PROVE  Has(N, N2[x].entries[i])
  BY <1>1, <1>2, HasEntry
<1>3. ASSUME NEW x \in DOMAIN N, NEW i \in 1 .. Len(N[x].entries)
      PROVE  Has(N2, N[x].entries[i])
  <2>1. x # R
    <3>1. \A j \in 1 .. Len(N[R].entries) : FALSE
      OBVIOUS
    <3> QED
      BY <1>3, <3>1
  <2>2. x \in DOMAIN N2 /\ N2[x].entries = N[x].entries
    BY <1>1, <2>1
  <2> QED
    BY <1>3, <2>2, HasEntry
<1> QED
  BY <1>2, <1>3, SameBothWays

(* One entry more, or one entry less.                                      *)
OneMore(N, N2, entry) == \A e : Has(N2, e) <=> Has(N, e) \/ e = entry
OneLess(N, N2, entry) == Has(N, entry) /\ \A e : Has(N2, e) <=> Has(N, e) /\ e # entry

(* The entries of one node changed.                                        *)
SameElsewhere(N, N2, z) ==
  DOMAIN N2 = DOMAIN N /\ \A x \in DOMAIN N \ {z} : N2[x].entries = N[x].entries

(* An entry put into a node is one more, and the others stay.              *)
LEMMA InsertedIsMore ==
  ASSUME NEW N, NEW N2, NEW z \in DOMAIN N, SameElsewhere(N, N2, z), NEW entry,
         Len(N[z].entries) \in Nat, NEW at \in 1 .. Len(N[z].entries) + 1,
         Len(N2[z].entries) = Len(N[z].entries) + 1,
         \A i \in 1 .. Len(N[z].entries) + 1 :
           N2[z].entries[i] = IF i < at THEN N[z].entries[i] ELSE IF i = at THEN entry
                              ELSE N[z].entries[i - 1]
  PROVE  OneMore(N, N2, entry)
<1> DEFINE e == N[z].entries
           f == N2[z].entries
           L == Len(e)
           D == DOMAIN N
<1>1. /\ L \in Nat /\ at \in 1 .. L + 1 /\ Len(f) = L + 1
      /\ \A i \in 1 .. L + 1 : f[i] = IF i < at THEN e[i] ELSE IF i = at THEN entry ELSE e[i - 1]
  OBVIOUS
<1>2. DOMAIN N2 = D /\ \A x \in D \ {z} : N2[x].entries = N[x].entries
  BY DEF SameElsewhere
<1>3. /\ \A i \in 1 .. L : Has(N, e[i])
      /\ \A i \in 1 .. L + 1 : Has(N2, f[i])
  <2>1. \A i \in 1 .. L : Has(N, e[i])
    BY HasEntry
  <2>2. \A i \in 1 .. Len(f) : Has(N2, f[i])
    BY <1>2, HasEntry
  <2> QED
    BY <1>1, <2>1, <2>2
<1>4. ASSUME NEW x \in D, NEW i \in 1 .. Len(N2[x].entries)
      PROVE  Has(N, N2[x].entries[i]) \/ N2[x].entries[i] = entry
  <2>1. CASE x # z
    BY <1>2, <1>4, <2>1, HasEntry
  <2>2. CASE x = z
    <3>1. i \in 1 .. L + 1 /\ N2[x].entries[i] = f[i]
      BY <1>1, <1>4, <2>2
    <3> HIDE DEF e, f, L
    <3>2. CASE i < at
      <4>1. i \in 1 .. L
        BY <1>1, <3>1, <3>2
      <4> QED
        BY <1>1, <1>3, <3>1, <3>2, <4>1
    <3>3. CASE i = at
      BY <1>1, <3>1, <3>3
    <3>4. CASE i > at
      <4> DEFINE j == i - 1
      <4>1. j \in 1 .. L /\ f[i] = e[j]
        BY <1>1, <3>1, <3>4
      <4> HIDE DEF j
      <4> QED
        BY <1>3, <3>1, <4>1
    <3> QED
      BY <1>1, <3>1, <3>2, <3>3, <3>4
  <2> QED
    BY <2>1, <2>2
<1>5. ASSUME NEW x \in D, NEW i \in 1 .. Len(N[x].entries)
      PROVE  Has(N2, N[x].entries[i])
  <2>1. CASE x # z
    BY <1>2, <1>5, <2>1, HasEntry
  <2>2. CASE x = z
    <3>1. i \in 1 .. L /\ N[x].entries[i] = e[i]
      BY <1>5, <2>2
    <3> HIDE DEF e, f, L
    <3>2. CASE i < at
      <4>1. i \in 1 .. L + 1
        BY <1>1, <3>1
      <4> QED
        BY <1>1, <1>3, <3>1, <3>2, <4>1
    <3>3. CASE ~ (i < at)
      <4> DEFINE j == i + 1
      <4>1. j \in 1 .. L + 1 /\ ~ (j < at) /\ j # at /\ j - 1 = i
        BY <1>1, <3>1, <3>3
      <4> HIDE DEF j
      <4>2. f[j] = e[i]
        BY <1>1, <4>1
      <4> QED
        BY <1>3, <3>1, <4>1, <4>2
    <3> QED
      BY <3>2, <3>3
  <2> QED
    BY <2>1, <2>2
<1>6. Has(N2, entry)
  <2> HIDE DEF e, f, L
  <2>1. f[at] = entry
    BY <1>1
  <2> QED
    BY <1>1, <1>3, <2>1
<1>7. ASSUME NEW d, Has(N2, d) PROVE Has(N, d) \/ d = entry
  BY SMTT(30), <1>2, <1>4, <1>7 DEF Has
<1>8. ASSUME NEW d, Has(N, d) PROVE Has(N2, d)
  <2>1. PICK a \in D : \E i \in 1 .. Len(N[a].entries) : N[a].entries[i] = d
    BY <1>8 DEF Has
  <2>2. PICK i \in 1 .. Len(N[a].entries) : N[a].entries[i] = d
    BY <2>1
  <2>3. Has(N2, N[a].entries[i])
    BY <1>5
  <2> QED
    BY <2>2, <2>3
<1> QED
  BY <1>6, <1>7, <1>8 DEF OneMore

(* An entry taken out of a node is nowhere any more: its key was in one    *)
(* place only.                                                             *)
LEMMA RemovedIsLess ==
  ASSUME NEW N, NEW R, NEW h, NEW lo, NEW hi, SearchTree(N, R, h, lo, hi),
         NEW N2, NEW z \in DOMAIN N, SameElsewhere(N, N2, z), NEW at \in 1 .. Len(N[z].entries),
         Len(N2[z].entries) = Len(N[z].entries) - 1,
         \A i \in 1 .. Len(N[z].entries) - 1 :
           N2[z].entries[i] = IF i < at THEN N[z].entries[i] ELSE N[z].entries[i + 1]
  PROVE  OneLess(N, N2, N[z].entries[at])
<1> DEFINE e == N[z].entries
           f == N2[z].entries
           L == Len(e)
           D == DOMAIN N
           gone == e[at]
<1>1. /\ L \in Nat /\ at \in 1 .. L /\ Len(f) = L - 1
      /\ \A i \in 1 .. L - 1 : f[i] = IF i < at THEN e[i] ELSE e[i + 1]
  BY NodeFacts
<1>2. DOMAIN N2 = D /\ \A x \in D \ {z} : N2[x].entries = N[x].entries
  BY DEF SameElsewhere
<1>3. \A i \in 1 .. L - 1 : Has(N2, f[i])
  <2>1. \A i \in 1 .. Len(f) : Has(N2, f[i])
    BY <1>2, HasEntry
  <2> QED
    BY <1>1, <2>1
<1>4. ASSUME NEW x \in D, NEW i \in 1 .. Len(N[x].entries), N[x].entries[i] = gone
      PROVE  x = z /\ i = at
  <2>1. N[x].entries[i][1] = N[z].entries[at][1]
    BY <1>4
  <2> QED
    BY <2>1, KeysUnique
<1>5. ASSUME NEW x \in D, NEW i \in 1 .. Len(N2[x].entries)
      PROVE  Has(N, N2[x].entries[i]) /\ N2[x].entries[i] # gone
  <2>1. CASE x # z
    <3>1. N2[x].entries = N[x].entries
      BY <1>2, <2>1
    <3>2. Has(N, N[x].entries[i]) /\ N[x].entries[i] # gone
      BY <1>4, <1>5, <2>1, <3>1, HasEntry
    <3> QED
      BY <3>1, <3>2
  <2>2. CASE x = z
    <3>1. i \in 1 .. L - 1 /\ N2[x].entries[i] = f[i]
      BY <1>1, <1>5, <2>2
    <3>2. \E j \in 1 .. L : f[i] = e[j] /\ j # at
      <4> HIDE DEF e, f, L
      <4>1. CASE i < at
        <5>1. i \in 1 .. L /\ f[i] = e[i] /\ i # at
          BY <1>1, <3>1, <4>1
        <5> QED
          BY <5>1
      <4>2. CASE ~ (i < at)
        <5>1. i + 1 \in 1 .. L /\ f[i] = e[i + 1] /\ i + 1 # at
          BY <1>1, <3>1, <4>2
        <5> QED
          BY <5>1
      <4> QED
        BY <4>1, <4>2
    <3>3. PICK j \in 1 .. L : f[i] = e[j] /\ j # at
      BY <3>2
    <3>4. Has(N, e[j]) /\ e[j] # gone
      BY <1>4, <3>3, HasEntry
    <3> QED
      BY <3>1, <3>3, <3>4
  <2> QED
    BY <2>1, <2>2
<1>6. ASSUME NEW x \in D, NEW i \in 1 .. Len(N[x].entries), N[x].entries[i] # gone
      PROVE  Has(N2, N[x].entries[i])
  <2>1. CASE x # z
    <3>1. N2[x].entries = N[x].entries /\ x \in DOMAIN N2
      BY <1>2, <2>1
    <3> QED
      BY <1>6, <3>1, HasEntry
  <2>2. CASE x = z
    <3>1. i \in 1 .. L /\ N[x].entries[i] = e[i] /\ i # at
      BY <1>6, <2>2
    <3> HIDE DEF e, f, L, gone
    <3>2. CASE i < at
      <4>1. i \in 1 .. L - 1
        BY <1>1, <3>1, <3>2
      <4> QED
        BY <1>1, <1>3, <3>1, <3>2, <4>1
    <3>3. CASE ~ (i < at)
      <4> DEFINE j == i - 1
      <4>1. j \in 1 .. L - 1 /\ ~ (j < at) /\ j + 1 = i
        BY <1>1, <3>1, <3>3
      <4> HIDE DEF j
      <4>2. f[j] = e[i]
        BY <1>1, <4>1
      <4> QED
        BY <1>3, <3>1, <4>1, <4>2
    <3> QED
      BY <3>2, <3>3
  <2> QED
    BY <2>1, <2>2
<1>7. ASSUME NEW d, Has(N2, d) PROVE Has(N, d) /\ d # gone
  <2>1. PICK b \in D : \E j \in 1 .. Len(N2[b].entries) : N2[b].entries[j] = d
    BY <1>2, <1>7 DEF Has
  <2>2. PICK j \in 1 .. Len(N2[b].entries) : N2[b].entries[j] = d
    BY <2>1
  <2>3. Has(N, N2[b].entries[j]) /\ N2[b].entries[j] # gone
    BY <1>5
  <2> QED
    BY <2>2, <2>3
<1>8. ASSUME NEW d, Has(N, d), d # gone PROVE Has(N2, d)
  <2>1. PICK a \in D : \E i \in 1 .. Len(N[a].entries) : N[a].entries[i] = d
    BY <1>8 DEF Has
  <2>2. PICK i \in 1 .. Len(N[a].entries) : N[a].entries[i] = d
    BY <2>1
  <2>3. Has(N2, N[a].entries[i])
    BY <1>6, <1>8, <2>2
  <2> QED
    BY <2>2, <2>3
<1>9. Has(N, gone)
  BY HasEntry
<1> QED
  BY <1>7, <1>8, <1>9 DEF OneLess

(* Nor is one that another leaf's last entry has replaced.                 *)
LEMMA ReplacedIsLess ==
  ASSUME NEW N, NEW R, NEW h, NEW lo, NEW hi, SearchTree(N, R, h, lo, hi),
         NEW c, NEW i, NEW z, MayReplace(N, lo, hi, c, i, z),
         NEW N2, ReplacedOf(N, N2, c, i, z)
  PROVE  OneLess(N, N2, N[c].entries[i])
<1> DEFINE e == N[c].entries
           g == N[z].entries
           L == Len(e)
           Z == Len(g)
           D == DOMAIN N
           gone == e[i]
<1>1. c \in D /\ i \in 1 .. L /\ z \in D /\ c # z /\ Z # 0 /\ L \in Nat /\ Z \in Nat
  BY NodeFacts DEF MayReplace
<1>2. /\ DOMAIN N2 = D
      /\ \A x \in D \ {c, z} : N2[x].entries = N[x].entries
      /\ Len(N2[c].entries) = L
      /\ \A j \in 1 .. L : N2[c].entries[j] = IF j = i THEN g[Z] ELSE e[j]
      /\ Len(N2[z].entries) = Z - 1
      /\ \A j \in 1 .. Z - 1 : N2[z].entries[j] = g[j]
  BY DEF ReplacedOf, SameLinks
<1>3. \A x \in D : \A j \in 1 .. Len(N2[x].entries) : Has(N2, N2[x].entries[j])
  BY <1>2, HasEntry
<1>4. ASSUME NEW x \in D, NEW j \in 1 .. Len(N[x].entries), N[x].entries[j] = gone
      PROVE  x = c /\ j = i
  <2>1. N[x].entries[j][1] = N[c].entries[i][1]
    BY <1>4
  <2> QED
    BY <1>1, <2>1, KeysUnique
<1>5. \A x \in D : \A j \in 1 .. Len(N[x].entries) : Has(N, N[x].entries[j])
  BY HasEntry
<1>6. Z \in 1 .. Z /\ \A j \in 1 .. Z - 1 : j \in 1 .. Z
  BY <1>1
<1>7. ASSUME NEW x \in D, NEW j \in 1 .. Len(N2[x].entries)
      PROVE  Has(N, N2[x].entries[j]) /\ N2[x].entries[j] # gone
  <2>1. CASE x \notin {c, z}
    <3>1. N2[x].entries = N[x].entries
      BY <1>2, <2>1
    <3> QED
      BY <1>4, <1>5, <1>7, <2>1, <3>1
  <2>2. CASE x = z
    <3>1. j \in 1 .. Z - 1
      BY <1>2, <1>7, <2>2
    <3>2. N2[x].entries[j] = g[j] /\ j \in 1 .. Z
      BY <1>2, <1>6, <2>2, <3>1
    <3>3. Has(N, g[j]) /\ g[j] # gone
      BY <1>1, <1>4, <1>5, <3>2
    <3> QED
      BY <3>2, <3>3
  <2>3. CASE x = c
    <3>1. j \in 1 .. L /\ N2[x].entries[j] = IF j = i THEN g[Z] ELSE e[j]
      BY <1>2, <1>7, <2>3
    <3>2. Has(N, g[Z]) /\ g[Z] # gone
      BY <1>1, <1>4, <1>5, <1>6
    <3>3. Has(N, e[j]) /\ (j # i => e[j] # gone)
      BY <1>1, <1>4, <1>5, <3>1
    <3> QED
      BY <3>1, <3>2, <3>3
  <2> QED
    BY <2>1, <2>2, <2>3
<1>8. ASSUME NEW x \in D, NEW j \in 1 .. Len(N[x].entries), N[x].entries[j] # gone
      PROVE  Has(N2, N[x].entries[j])
  <2>1. CASE x \notin {c, z}
    <3>1. N2[x].entries = N[x].entries
      BY <1>2, <2>1
    <3> QED
      BY <1>3, <1>8, <3>1
  <2>2. CASE x = z
    <3>1. j \in 1 .. Z /\ N[x].entries[j] = g[j]
      BY <1>8, <2>2
    <3>2. CASE j = Z
      <4>1. N2[c].entries[i] = g[Z] /\ i \in 1 .. Len(N2[c].entries)
        BY <1>1, <1>2
      <4> QED
        BY <1>1, <1>3, <3>1, <3>2, <4>1
    <3>3. CASE j # Z
      <4>1. j \in 1 .. Z - 1
        BY <1>1, <3>1, <3>3
      <4>2. N2[z].entries[j] = g[j] /\ j \in 1 .. Len(N2[z].entries)
        BY <1>2, <4>1
      <4> QED
        BY <1>1, <1>3, <3>1, <4>2
    <3> QED
      BY <3>2, <3>3
  <2>3. CASE x = c
    <3>1. j \in 1 .. L /\ j # i /\ N[x].entries[j] = e[j]
      BY <1>8, <2>3
    <3>2. N2[c].entries[j] = e[j] /\ j \in 1 .. Len(N2[c].entries)
      BY <1>2, <3>1
    <3> QED
      BY <1>1, <1>3, <3>1, <3>2
  <2> QED
    BY <2>1, <2>2, <2>3
<1>9. ASSUME NEW d, Has(N2, d) PROVE Has(N, d) /\ d # gone
  <2>1. PICK b \in D : \E j \in 1 .. Len(N2[b].entries) : N2[b].entries[j] = d
    BY <1>2, <1>9 DEF Has
  <2>2. PICK j \in 1 .. Len(N2[b].entries) : N2[b].entries[j] = d
    BY <2>1
  <2>3. Has(N, N2[b].entries[j]) /\ N2[b].entries[j] # gone
    BY <1>7
  <2> QED
    BY <2>2, <2>3
<1>10. ASSUME NEW d, Has(N, d), d # gone PROVE Has(N2, d)
  <2>1. PICK a \in D : \E j \in 1 .. Len(N[a].entries) : N[a].entries[j] = d
    BY <1>10 DEF Has
  <2>2. PICK j \in 1 .. Len(N[a].entries) : N[a].entries[j] = d
    BY <2>1
  <2>3. Has(N2, N[a].entries[j])
    BY <1>8, <1>10, <2>2
  <2> QED
    BY <2>2, <2>3
<1>11. Has(N, gone)
  BY <1>1, <1>5
<1> QED
  BY <1>9, <1>10, <1>11 DEF OneLess

(* No entry has this key.                                                  *)
NoKey(N, key) == \A a \in DOMAIN N : \A i \in 1 .. Len(N[a].entries) : N[a].entries[i][1] # key

(* A key Insert does not find on its way is in no node.                    *)
LEMMA NotFoundIsNowhere ==
  ASSUME NEW N, NEW R, NEW h, NEW lo, NEW hi, SearchTree(N, R, h, lo, hi), NEW key \in Nat,
         NEW r, Arrives(N, lo, hi, key, r), ~ r.found
  PROVE  NoKey(N, key)
<1> DEFINE z == r.node
<1>1. /\ z \in DOMAIN N /\ IsLeaf(N[z]) /\ lo[z] < key /\ key < hi[z]
      /\ r.at \in 1 .. Len(N[z].entries) + 1
      /\ \A i \in 1 .. Len(N[z].entries) :
           IF i < r.at THEN N[z].entries[i][1] < key ELSE key < N[z].entries[i][1]
  BY DEF Arrives, Searched
<1>2. ASSUME NEW a \in DOMAIN N, NEW i \in 1 .. Len(N[a].entries), N[a].entries[i][1] = key
      PROVE  FALSE
  <2> DEFINE k == N[a].entries[i][1]
  <2>1. /\ lo[a] < k /\ k < hi[a] /\ lo[a] \in Int /\ hi[a] \in Int /\ lo[z] \in Int /\ hi[z] \in Int
        /\ k \in Nat
    BY <1>1, Bounds
  <2>2. h[z] = 0 /\ h[a] \in Nat
    <3>1. h[z] = 0
      BY <1>1 DEF SearchTree, Ranked
    <3>2. h[a] \in Nat
      BY NodeFacts
    <3> QED
      BY <3>1, <3>2
  <2>3. k = key
    BY <1>2
  <2>4. CASE a = z
    BY <1>1, <1>2, <2>1, <2>3, <2>4
  <2>5. CASE a # z /\ h[a] = 0
    <3>1. hi[a] <= lo[z] \/ hi[z] <= lo[a]
      BY <1>1, <2>2, <2>5, Apart
    <3> QED
      BY <1>1, <2>1, <2>3, <3>1
  <2>6. CASE h[a] # 0
    <3>1. h[z] < h[a]
      BY <2>2, <2>6
    <3>2. ~ (lo[z] < k /\ k < hi[z])
      BY <1>1, <3>1, KeysApart
    <3> QED
      BY <1>1, <2>3, <3>2
  <2> QED
    BY <2>4, <2>5, <2>6
<1> QED
  BY <1>2 DEF NoKey
=============================================================================
