----------------------------- MODULE BTreeProofs -----------------------------
(***************************************************************************)
(* The invariant of a tree without duplicate keys, and what follows from   *)
(* it: types, shape, occupancy, that Get finds what is there, and that the *)
(* tree is an ordered index.                                               *)
(*                                                                         *)
(* TreeInv says that there are a height for every node and a lower and an  *)
(* upper bound for its keys, that the operation under way is about a node  *)
(* out of size by one, and that all other nodes are within theirs.         *)
(* TreeShape and Occupancy alone are not inductive: where a split puts its *)
(* middle entry, and which leaf has the largest entry on the left of an    *)
(* inner one, follow from the order of the keys.                           *)
(*                                                                         *)
(* The lemmas about the steps say of each also which entries it leaves,    *)
(* adds or takes away: that is what the ordered index sees of it.          *)
(***************************************************************************)
EXTENDS BTreeLemmas

(* There is an id that no node has.                                        *)
LEMMA FreshIds ==
  ASSUME NEW N, IsFiniteSet(DOMAIN N)
  PROVE  FreshId(N) \in Nat \ {0} /\ FreshId(N) \notin DOMAIN N
<1> DEFINE c == Cardinality(DOMAIN N)
           T == (1 .. c + 1) \ DOMAIN N
<1>1. c \in Nat
  BY FS_CardinalityType
<1>2. T # {}
  <2> SUFFICES ASSUME T = {} PROVE FALSE
    OBVIOUS
  <2>1. 1 .. c + 1 \subseteq DOMAIN N
    OBVIOUS
  <2>2. Cardinality(1 .. c + 1) <= c
    BY <2>1, FS_Subset
  <2>3. Cardinality(1 .. c + 1) = c + 1
    BY <1>1, FS_Interval
  <2> QED
    BY <1>1, <2>2, <2>3
<1>3. T \in SUBSET Nat
  OBVIOUS
<1>4. Min(T) \in T
  BY <1>2, <1>3, MinOfNumbers
<1>5. Min(T) \in 1 .. c + 1 /\ Min(T) \notin DOMAIN N
  BY <1>4
<1> HIDE DEF T
<1>6. FreshId(N) = Min(T)
  BY DEF FreshId, T, c
<1> QED
  BY <1>1, <1>5, <1>6

(* Two nodes for one, the nodes that have moved, and the parent.           *)
NodesSplit(N, N2, id, new, top, left, right, parent, moved, ids) ==
  /\ DOMAIN N2 = DOMAIN N \cup {new, top}
  /\ N2[top] = parent
  /\ N2[new] = [right EXCEPT !.parentId = top]
  /\ N2[id] = IF id \in ids THEN [left EXCEPT !.parentId = top] ELSE left
  /\ \A x \in DOMAIN N \ {id, top} :
       N2[x] = IF x \in moved THEN [N[x] EXCEPT !.parentId = new] ELSE N[x]

(* What TreeNode.Split makes of the nodes: "new" gets the nodes that move, *)
(* "top" is the parent of both halves.                                     *)
LEMMA SplitNodes ==
  ASSUME NEW N, NEW id \in DOMAIN N, NEW new, new \notin DOMAIN N, NEW top, top # new, top # id,
         NEW left, NEW right, NEW parent,
         NEW moved, moved \subseteq DOMAIN N, id \notin moved, top \notin moved,
         NEW ids, ids \subseteq {id, new}, new \in ids,
         NEW N2, N2 = Adopt(Put(Adopt(Put(Put(N, new, right), id, left), moved, new), top, parent),
                            ids, top)
  PROVE  NodesSplit(N, N2, id, new, top, left, right, parent, moved, ids)
<1> DEFINE A == Put(Put(N, new, right), id, left)
           H == Adopt(A, moved, new)
           B == Put(H, top, parent)
<1>1. /\ DOMAIN A = DOMAIN N \cup {new} /\ A[id] = left /\ A[new] = right
      /\ \A x \in DOMAIN N \ {id} : A[x] = N[x]
  BY DEF Put
<1> HIDE DEF A
<1>2. /\ DOMAIN H = DOMAIN N \cup {new} /\ H[id] = left /\ H[new] = right
      /\ \A x \in DOMAIN N \ {id} :
           H[x] = IF x \in moved THEN [N[x] EXCEPT !.parentId = new] ELSE N[x]
  BY <1>1 DEF Adopt
<1> HIDE DEF H
<1>3. /\ DOMAIN B = DOMAIN N \cup {new, top} /\ B[top] = parent /\ B[new] = right /\ B[id] = left
      /\ \A x \in DOMAIN N \ {id, top} :
           B[x] = IF x \in moved THEN [N[x] EXCEPT !.parentId = new] ELSE N[x]
  BY <1>2 DEF Put
<1>4. N2 = Adopt(B, ids, top)
  BY DEF A, H
<1> HIDE DEF B
<1>5. DOMAIN N2 = DOMAIN B /\ \A x \in DOMAIN B :
        N2[x] = IF x \in ids THEN [B[x] EXCEPT !.parentId = top] ELSE B[x]
  BY <1>4 DEF Adopt
<1>6. \A x \in DOMAIN N \ {id, top} : x \notin ids /\ x \in DOMAIN B
  BY <1>3
<1>7. top \in DOMAIN B /\ new \in DOMAIN B /\ id \in DOMAIN B /\ top \notin ids
  BY <1>3
<1>8. DOMAIN N2 = DOMAIN N \cup {new, top}
  BY <1>3, <1>5
<1>9. N2[top] = parent /\ N2[new] = [right EXCEPT !.parentId = top]
  BY <1>3, <1>5, <1>7
<1>10. N2[id] = IF id \in ids THEN [left EXCEPT !.parentId = top] ELSE left
  BY <1>3, <1>5, <1>7
<1>11. \A x \in DOMAIN N \ {id, top} :
              N2[x] = IF x \in moved THEN [N[x] EXCEPT !.parentId = new] ELSE N[x]
  BY <1>3, <1>5, <1>6
<1> QED
  BY <1>8, <1>9, <1>10, <1>11 DEF NodesSplit

(* A part that ends before it begins is empty.                             *)
LEMMA SeqNothing ==
  ASSUME NEW s, NEW a \in Int, NEW b \in Int, b < a
  PROVE  SubSeq(s, a, b) = <<>>
OBVIOUS

(* A key between the bounds of a node has the place of the node among the  *)
(* keys of its parent.                                                     *)
LEMMA PlaceByKey ==
  ASSUME NEW N, NEW R, NEW h, NEW lo, NEW hi, SearchTree(N, R, h, lo, hi),
         NEW p \in DOMAIN N, ~ IsLeaf(N[p]), NEW k \in 1 .. Len(N[p].entries) + 1,
         NEW key \in Nat, lo[N[p].childrenIds[k]] < key, key < hi[N[p].childrenIds[k]]
  PROVE  BinarySearch(N[p].entries, key).at = k
<1> DEFINE e == N[p].entries
           L == Len(e)
           r == BinarySearch(e, key)
           id == N[p].childrenIds[k]
<1>1. L \in Nat /\ Numbered(e) /\ Ascending(e)
  BY NodeFacts
<1>2. /\ lo[id] = IF k = 1 THEN lo[p] ELSE e[k - 1][1]
      /\ hi[id] = IF k = L + 1 THEN hi[p] ELSE e[k][1]
  BY SearchedChild
<1>3. lo[id] < key /\ key < hi[id] /\ k \in 1 .. L + 1
  OBVIOUS
<1> HIDE DEF e, id
<1>4. Searched(e, key, r)
  BY <1>1, BinarySearchFinds
<1> HIDE DEF r
<1>5. \A i \in 1 .. L : e[i][1] \in Nat
  BY <1>1 DEF Numbered
<1>6. \A i, j \in 1 .. L : i < j => e[i][1] < e[j][1]
  BY <1>1 DEF Ascending
<1> HIDE DEF L
<1>7. k # 1 => k - 1 \in 1 .. L /\ e[k - 1][1] < key
  BY <1>1, <1>2, <1>3
<1>8. k # L + 1 => k \in 1 .. L /\ key < e[k][1]
  BY <1>1, <1>2, <1>3
<1>9. CASE r.found
  <2>1. r.at \in 1 .. L /\ e[r.at][1] = key
    BY <1>4, <1>9 DEF Searched, L
  <2>2. CASE r.at < k
    <3>1. k # 1 /\ k - 1 \in 1 .. L /\ (r.at = k - 1 \/ r.at < k - 1)
      BY <1>1, <1>3, <1>7, <2>1, <2>2
    <3>2. e[k - 1][1] < key /\ e[k - 1][1] \in Nat
      BY <1>5, <1>7, <3>1
    <3>3. r.at < k - 1 => key < e[k - 1][1]
      BY <1>6, <2>1, <3>1
    <3>4. r.at # k - 1
      BY <2>1, <3>2
    <3> QED
      BY <3>1, <3>2, <3>3, <3>4
  <2>3. CASE r.at >= k
    <3>1. k # L + 1 /\ k \in 1 .. L /\ (r.at = k \/ k < r.at)
      BY <1>1, <1>3, <1>8, <2>1, <2>3
    <3>2. key < e[k][1] /\ e[k][1] \in Nat
      BY <1>5, <1>8, <3>1
    <3>3. k < r.at => e[k][1] < key
      BY <1>6, <2>1, <3>1
    <3>4. r.at # k
      BY <2>1, <3>2
    <3> QED
      BY <3>1, <3>2, <3>3, <3>4
  <2> QED
    BY <2>1, <2>2, <2>3
<1>10. CASE ~ r.found
  <2>1. r.at \in 1 .. L + 1 /\ \A i \in 1 .. L : IF i < r.at THEN e[i][1] < key ELSE key < e[i][1]
    BY <1>4, <1>10 DEF Searched, L
  <2>2. CASE r.at < k
    <3>1. k # 1 /\ k - 1 \in 1 .. L /\ ~ (k - 1 < r.at)
      BY <1>1, <1>3, <1>7, <2>1, <2>2
    <3>2. e[k - 1][1] < key /\ e[k - 1][1] \in Nat /\ key < e[k - 1][1]
      BY <1>5, <1>7, <2>1, <3>1
    <3> QED
      BY <3>2
  <2>3. CASE r.at > k
    <3>1. k # L + 1 /\ k \in 1 .. L /\ k < r.at
      BY <1>1, <1>3, <1>8, <2>1, <2>3
    <3>2. key < e[k][1] /\ e[k][1] \in Nat /\ e[k][1] < key
      BY <1>5, <1>8, <2>1, <3>1
    <3> QED
      BY <3>2
  <2>4. r.at = k \/ r.at < k \/ r.at > k
    BY <1>1, <1>3, <2>1
  <2>5. CASE r.at = k
    BY <2>5 DEF r, e
  <2> QED
    BY <2>2, <2>3, <2>4, <2>5
<1> QED
  BY <1>9, <1>10 DEF r, e

-----------------------------------------------------------------------------
(* The halves of TreeNode.Split, and the parent that gets the middle entry. *)
LeftHalf(n) ==
  [n EXCEPT !.entries = SubSeq(@, 1, MinEntriesPerNode),
            !.childrenIds = Part(@, 1, MinEntriesPerNode + 1)]
RightHalf(n) ==
  Node(0, SubSeq(n.entries, MinEntriesPerNode + 2, Len(n.entries)),
          SubSeq(n.childrenIds, MinEntriesPerNode + 2, Len(n.childrenIds)))

Overfull(n, S) ==
  /\ n = Node(n.parentId, n.entries, n.childrenIds)
  /\ n.entries \in Seq(UniqueEntry) /\ n.childrenIds \in Seq(S)
  /\ Len(n.entries) = 2 * MinEntriesPerNode + 1
  /\ IsLeaf(n) \/ Len(n.childrenIds) = Len(n.entries) + 1

(* A node with other entries and children.                                 *)
LEMMA NodeExcept ==
  ASSUME NEW a, NEW b, NEW c, NEW n, n = Node(a, b, c), NEW b2, NEW c2,
         NEW m, m = [n EXCEPT !.entries = b2, !.childrenIds = c2]
  PROVE  m = Node(a, b2, c2)
BY DEF Node

(* The left half of a split keeps the lower entries and the children       *)
(* around them.                                                            *)
LEMMA LeftHalfNode ==
  ASSUME NEW n, NEW S, Overfull(n, S)
  PROVE  LET l == LeftHalf(n) IN
         /\ l = Node(n.parentId, l.entries, l.childrenIds)
         /\ l.entries \in Seq(UniqueEntry) /\ l.childrenIds \in Seq(S)
         /\ Len(l.entries) = MinEntriesPerNode
         /\ \A i \in 1 .. MinEntriesPerNode : l.entries[i] = n.entries[i]
         /\ Len(l.childrenIds) = IF IsLeaf(n) THEN 0 ELSE MinEntriesPerNode + 1
         /\ \A i \in 1 .. Len(l.childrenIds) : l.childrenIds[i] = n.childrenIds[i]
<1> DEFINE a == n.parentId
           b == n.entries
           c == n.childrenIds
           M == MinEntriesPerNode
           b2 == SubSeq(b, 1, M)
           c2 == Part(c, 1, M + 1)
<1>1. n = Node(a, b, c) /\ b \in Seq(UniqueEntry) /\ c \in Seq(S) /\ Len(b) = 2 * M + 1
  BY DEF Overfull
<1>2. IF IsLeaf(n) THEN Len(c) = 0 ELSE Len(c) = 2 * M + 2
  <2>1. CASE IsLeaf(n)
    BY <2>1 DEF IsLeaf
  <2>2. CASE ~ IsLeaf(n)
    <3>1. Len(c) = Len(b) + 1
      BY <2>2 DEF Overfull
    <3> QED
      BY <1>1, <2>2, <3>1, ParameterAssumption
  <2> QED
    BY <2>1, <2>2
<1>3. LeftHalf(n) = [n EXCEPT !.entries = b2, !.childrenIds = c2]
  BY DEF LeftHalf
<1>4. M \in Nat \ {0}
  BY ParameterAssumption
<1> HIDE DEF b, c, M, b2, c2
<1> HIDE DEF a
<1>6. LeftHalf(n) = Node(a, b2, c2)
  BY <1>1, <1>3 DEF Node
<1>7. /\ b2 \in Seq(UniqueEntry) /\ Len(b2) = M /\ \A i \in 1 .. M : b2[i] = b[i]
  <2>1. 1 \in 1 .. Len(b) + 1 /\ M \in 1 - 1 .. Len(b) /\ M - 1 + 1 = M
    BY <1>1, <1>4
  <2>2. /\ b2 \in Seq(UniqueEntry) /\ Len(b2) = M - 1 + 1
        /\ \A i \in 1 .. M - 1 + 1 : b2[i] = b[1 + i - 1]
    BY <1>1, <2>1, SeqPart DEF b2
  <2> QED
    BY <2>1, <2>2
<1>8. LET m == IF IsLeaf(n) THEN 0 ELSE M + 1 IN
      c2 \in Seq(S) /\ Len(c2) = m /\ \A i \in 1 .. Len(c2) : c2[i] = c[i]
  <2> DEFINE m == IF IsLeaf(n) THEN 0 ELSE M + 1
             T == {M + 1, Len(c)}
  <2>1. Len(c) \in Nat /\ T \in SUBSET Nat /\ T # {}
    BY <1>1, <1>4
  <2>2. m \in T /\ \A y \in T : m <= y
    BY <1>2, <1>4
  <2>3. Min(T) \in T /\ \A y \in T : Min(T) <= y
    BY <2>1, MinOfNumbers
  <2>4. Min(T) = m
    BY <2>1, <2>2, <2>3
  <2>5. c2 = SubSeq(c, 1, m)
    BY <2>4 DEF c2, Part
  <2>6. 1 \in 1 .. Len(c) + 1 /\ m \in 1 - 1 .. Len(c) /\ m - 1 + 1 = m /\ m \in Nat
    BY <1>2, <1>4, <2>1
  <2> HIDE DEF m
  <2>7. /\ SubSeq(c, 1, m) \in Seq(S) /\ Len(SubSeq(c, 1, m)) = m - 1 + 1
        /\ \A i \in 1 .. m - 1 + 1 : SubSeq(c, 1, m)[i] = c[1 + i - 1]
    BY <1>1, <2>6, SeqPart
  <2>8. c2 \in Seq(S) /\ Len(c2) = m /\ \A i \in 1 .. m : c2[i] = c[i]
    BY <2>5, <2>6, <2>7
  <2> QED
    BY <2>8 DEF m
<1>9. LET l == Node(a, b2, c2) IN l.parentId = a /\ l.entries = b2 /\ l.childrenIds = c2
  BY DEF Node
<1> QED
  BY <1>6, <1>7, <1>8, <1>9 DEF a, b, c, M

(* The right half of a split has the upper entries and the children around *)
(* them.                                                                   *)
LEMMA RightHalfNode ==
  ASSUME NEW n, NEW S, Overfull(n, S)
  PROVE  LET r == RightHalf(n) IN
         /\ r = Node(0, r.entries, r.childrenIds)
         /\ r.entries \in Seq(UniqueEntry) /\ r.childrenIds \in Seq(S)
         /\ Len(r.entries) = MinEntriesPerNode
         /\ \A i \in 1 .. MinEntriesPerNode : r.entries[i] = n.entries[MinEntriesPerNode + 1 + i]
         /\ Len(r.childrenIds) = IF IsLeaf(n) THEN 0 ELSE MinEntriesPerNode + 1
         /\ \A i \in 1 .. Len(r.childrenIds) :
              r.childrenIds[i] = n.childrenIds[MinEntriesPerNode + 1 + i]
<1> DEFINE b == n.entries
           c == n.childrenIds
           M == MinEntriesPerNode
           b2 == SubSeq(b, M + 2, Len(b))
           c2 == SubSeq(c, M + 2, Len(c))
<1>1. b \in Seq(UniqueEntry) /\ c \in Seq(S) /\ Len(b) = 2 * M + 1
  BY DEF Overfull
<1>2. IF IsLeaf(n) THEN Len(c) = 0 ELSE Len(c) = 2 * M + 2
  <2>1. CASE IsLeaf(n)
    BY <2>1 DEF IsLeaf
  <2>2. CASE ~ IsLeaf(n)
    <3>1. Len(c) = Len(b) + 1
      BY <2>2 DEF Overfull
    <3> QED
      BY <1>1, <2>2, <3>1, ParameterAssumption
  <2> QED
    BY <2>1, <2>2
<1>3. RightHalf(n) = Node(0, b2, c2)
  BY DEF RightHalf
<1>4. M \in Nat \ {0}
  BY ParameterAssumption
<1> HIDE DEF b, c, M, b2, c2
<1>7. /\ b2 \in Seq(UniqueEntry) /\ Len(b2) = M /\ \A i \in 1 .. M : b2[i] = b[M + 1 + i]
  <2> DEFINE f == M + 2
             t == 2 * M + 1
  <2>1. f \in 1 .. Len(b) + 1 /\ t \in f - 1 .. Len(b) /\ t - f + 1 = M /\ Len(b) = t
    BY <1>1, <1>4
  <2>2. \A i \in 1 .. M : f + i - 1 = M + 1 + i
    BY <1>4
  <2> HIDE DEF f, t
  <2>3. /\ SubSeq(b, f, t) \in Seq(UniqueEntry) /\ Len(SubSeq(b, f, t)) = t - f + 1
        /\ \A i \in 1 .. t - f + 1 : SubSeq(b, f, t)[i] = b[f + i - 1]
    BY <1>1, <2>1, SeqPart
  <2>4. b2 = SubSeq(b, f, t)
    BY <2>1 DEF b2, f
  <2> QED
    BY <2>1, <2>2, <2>3, <2>4
<1>8. LET m == IF IsLeaf(n) THEN 0 ELSE M + 1 IN
      c2 \in Seq(S) /\ Len(c2) = m /\ \A i \in 1 .. m : c2[i] = c[M + 1 + i]
  <2>1. CASE IsLeaf(n)
    <3>1. c2 = <<>>
      BY <1>2, <1>4, <2>1, SeqNothing DEF c2
    <3> QED
      BY <2>1, <3>1
  <2>2. CASE ~ IsLeaf(n)
    <3> DEFINE f == M + 2
               t == 2 * M + 2
    <3>1. f \in 1 .. Len(c) + 1 /\ t \in f - 1 .. Len(c) /\ t - f + 1 = M + 1 /\ Len(c) = t
      BY <1>2, <1>4, <2>2
    <3>2. \A i \in 1 .. M + 1 : f + i - 1 = M + 1 + i
      BY <1>4
    <3> HIDE DEF f, t
    <3>3. /\ SubSeq(c, f, t) \in Seq(S) /\ Len(SubSeq(c, f, t)) = t - f + 1
          /\ \A i \in 1 .. t - f + 1 : SubSeq(c, f, t)[i] = c[f + i - 1]
      BY <1>1, <3>1, SeqPart
    <3>4. c2 = SubSeq(c, f, t)
      BY <3>1 DEF c2, f
    <3>5. c2 \in Seq(S) /\ Len(c2) = M + 1 /\ \A i \in 1 .. M + 1 : c2[i] = c[M + 1 + i]
      BY <3>1, <3>2, <3>3, <3>4
    <3> QED
      BY <2>2, <3>5
  <2> QED
    BY <2>1, <2>2
<1>9. LET r == Node(0, b2, c2) IN r.entries = b2 /\ r.childrenIds = c2
  BY DEF Node
<1> QED
  BY <1>3, <1>7, <1>8, <1>9 DEF b, c, M

(* TreeNode.InsertAsParent puts the left id before the child and the right  *)
(* one in its place.                                                       *)
TwoFor(c, c2, k, l, r) ==
  /\ Len(c2) = Len(c) + 1
  /\ \A i \in 1 .. Len(c) + 1 :
       c2[i] = IF i < k THEN c[i] ELSE IF i = k THEN l ELSE IF i = k + 1 THEN r ELSE c[i - 1]

(* One child of the parent gives way to two.                               *)
LEMMA SeqInsertTwo ==
  ASSUME NEW S, NEW c \in Seq(S), NEW k \in 1 .. Len(c), NEW l \in S, NEW r \in S
  PROVE  LET c2 == ReplaceAt(InsertAt(c, k, l), k + 1, r) IN
         c2 \in Seq(S) /\ TwoFor(c, c2, k, l, r)
<1> DEFINE c1 == InsertAt(c, k, l)
           j == k + 1
<1>1. k \in 1 .. Len(c) + 1 /\ Len(c) \in Nat /\ k \in Nat
  OBVIOUS
<1>2. /\ c1 \in Seq(S) /\ Len(c1) = Len(c) + 1
      /\ \A i \in 1 .. Len(c) + 1 : c1[i] = IF i < k THEN c[i] ELSE IF i = k THEN l ELSE c[i - 1]
  <2>1. c1 \in Seq(S)
    BY <1>1, SeqInsertAt
  <2>2. Len(c1) = Len(c) + 1
    BY <1>1, SeqInsertAt
  <2>3. \A i \in 1 .. Len(c) + 1 :
          c1[i] = IF i < k THEN c[i] ELSE IF i = k THEN l ELSE c[i - 1]
    BY <1>1, SeqInsertAt
  <2> QED
    BY <2>1, <2>2, <2>3
<1> HIDE DEF c1
<1>3. j \in 1 .. Len(c1)
  BY <1>1, <1>2
<1> HIDE DEF j
<1>4. /\ [c1 EXCEPT ![j] = r] \in Seq(S) /\ Len([c1 EXCEPT ![j] = r]) = Len(c1)
      /\ \A i \in 1 .. Len(c1) : [c1 EXCEPT ![j] = r][i] = IF i = j THEN r ELSE c1[i]
  BY <1>2, <1>3, SeqReplaceAt
<1> DEFINE c2 == [c1 EXCEPT ![j] = r]
<1> HIDE DEF c2
<1>5. /\ c2 \in Seq(S) /\ Len(c2) = Len(c1)
      /\ \A i \in 1 .. Len(c1) : c2[i] = IF i = j THEN r ELSE c1[i]
  BY <1>4 DEF c2
<1>6. \A i \in 1 .. Len(c) + 1 : c2[i] = IF i < k THEN c[i] ELSE IF i = k THEN l
                                          ELSE IF i = k + 1 THEN r ELSE c[i - 1]
  <2> TAKE i \in 1 .. Len(c) + 1
  <2>1. c2[i] = IF i = j THEN r ELSE c1[i]
    BY <1>2, <1>5
  <2>2. c1[i] = IF i < k THEN c[i] ELSE IF i = k THEN l ELSE c[i - 1]
    BY <1>2
  <2>3. (i < k => i # j) /\ (i = k => i # j)
    BY <1>1 DEF j
  <2> QED
    BY <2>1, <2>2, <2>3 DEF j
<1>7. ReplaceAt(InsertAt(c, k, l), k + 1, r) = c2
  BY DEF ReplaceAt, c2, c1, j
<1>8. TwoFor(c, c2, k, l, r)
  BY <1>2, <1>5, <1>6 DEF TwoFor
<1> QED
  BY <1>5, <1>7, <1>8

(* A node with one more entry and one more child.                          *)
GrownParent(n, m, S, k, e, l, r) ==
  /\ m = Node(n.parentId, m.entries, m.childrenIds)
  /\ m.entries \in Seq(UniqueEntry) /\ m.childrenIds \in Seq(S)
  /\ Len(m.entries) = Len(n.entries) + 1
  /\ \A i \in 1 .. Len(n.entries) + 1 :
       m.entries[i] = IF i < k THEN n.entries[i] ELSE IF i = k THEN e ELSE n.entries[i - 1]
  /\ Len(m.childrenIds) = Len(n.childrenIds) + 1
  /\ \A i \in 1 .. Len(n.childrenIds) + 1 :
       m.childrenIds[i] = IF i < k THEN n.childrenIds[i] ELSE IF i = k THEN l
                          ELSE IF i = k + 1 THEN r ELSE n.childrenIds[i - 1]

(* The parent, when its keys have a place for the new entry.               *)
LEMMA ParentNode ==
  ASSUME NEW n, n = Node(n.parentId, n.entries, n.childrenIds), NEW S,
         n.entries \in Seq(UniqueEntry), n.childrenIds \in Seq(S),
         Len(n.childrenIds) = Len(n.entries) + 1,
         NEW k \in 1 .. Len(n.entries) + 1, NEW e \in UniqueEntry,
         BinarySearch(n.entries, e[1]).at = k, NEW l \in S, NEW r \in S
  PROVE  GrownParent(n, InsertAsParent(n, e, l, r), S, k, e, l, r)
<1> DEFINE a == n.parentId
           b == n.entries
           c == n.childrenIds
           b2 == InsertAt(b, k, e)
           c1 == InsertAt(c, k, l)
           c2 == ReplaceAt(c1, k + 1, r)
<1>1. /\ n = Node(a, b, c) /\ b \in Seq(UniqueEntry) /\ c \in Seq(S) /\ Len(c) = Len(b) + 1
      /\ k \in 1 .. Len(b) + 1 /\ Len(b) \in Nat
  OBVIOUS
<1>2. InsertAsParent(n, e, l, r) = [n EXCEPT !.entries = b2, !.childrenIds = c2]
  BY DEF InsertAsParent
<1> HIDE DEF a, b, c, b2, c1, c2
<1>4. /\ b2 \in Seq(UniqueEntry) /\ Len(b2) = Len(b) + 1
      /\ \A i \in 1 .. Len(b) + 1 : b2[i] = IF i < k THEN b[i] ELSE IF i = k THEN e ELSE b[i - 1]
  <2>1. b2 \in Seq(UniqueEntry)
    BY <1>1, SeqInsertAt DEF b2
  <2>2. Len(b2) = Len(b) + 1
    BY <1>1, SeqInsertAt DEF b2
  <2>3. \A i \in 1 .. Len(b) + 1 : b2[i] = IF i < k THEN b[i] ELSE IF i = k THEN e ELSE b[i - 1]
    BY <1>1, SeqInsertAt DEF b2
  <2> QED
    BY <2>1, <2>2, <2>3
<1>5. k \in 1 .. Len(c)
  BY <1>1
<1>10. /\ c2 \in Seq(S) /\ Len(c2) = Len(c) + 1
       /\ \A i \in 1 .. Len(c) + 1 : c2[i] = IF i < k THEN c[i] ELSE IF i = k THEN l
                                          ELSE IF i = k + 1 THEN r ELSE c[i - 1]
  <2> DEFINE q == ReplaceAt(InsertAt(c, k, l), k + 1, r)
  <2>1. q \in Seq(S)
    BY <1>1, <1>5, SeqInsertTwo
  <2>3. TwoFor(c, q, k, l, r)
    BY <1>1, <1>5, SeqInsertTwo
  <2>4. q = c2
    BY DEF c1, c2
  <2> QED
    BY <2>1, <2>3, <2>4 DEF TwoFor
<1>11. LET m == Node(a, b2, c2) IN m.parentId = a /\ m.entries = b2 /\ m.childrenIds = c2
  BY DEF Node
<1>12. InsertAsParent(n, e, l, r) = Node(a, b2, c2)
  BY <1>1, <1>2 DEF Node
<1>13. /\ Len(c2) = Len(c) + 1
       /\ InsertAsParent(n, e, l, r).parentId = a
       /\ InsertAsParent(n, e, l, r).entries = b2
       /\ InsertAsParent(n, e, l, r).childrenIds = c2
  BY <1>10, <1>11, <1>12
<1> DEFINE m == InsertAsParent(n, e, l, r)
<1>14. m = Node(a, m.entries, m.childrenIds)
  BY <1>12, <1>13
<1> HIDE DEF m
<1> SUFFICES /\ m = Node(a, m.entries, m.childrenIds)
             /\ m.entries \in Seq(UniqueEntry) /\ m.childrenIds \in Seq(S)
             /\ Len(m.entries) = Len(b) + 1
             /\ \A i \in 1 .. Len(b) + 1 :
                  m.entries[i] = IF i < k THEN b[i] ELSE IF i = k THEN e ELSE b[i - 1]
             /\ Len(m.childrenIds) = Len(c) + 1
             /\ \A i \in 1 .. Len(c) + 1 :
                  m.childrenIds[i] = IF i < k THEN c[i] ELSE IF i = k THEN l
                                     ELSE IF i = k + 1 THEN r ELSE c[i - 1]
  BY DEF m, a, b, c, GrownParent
<1>15. m.entries = b2 /\ m.childrenIds = c2
  BY <1>13 DEF m
<1> QED
  BY <1>4, <1>10, <1>13, <1>14, <1>15

-----------------------------------------------------------------------------
(* The nodes after one level of TreeNode.Split.                            *)
SplitResult(N, id, new, top, parent, ids) ==
  Adopt(Put(Adopt(Put(Put(N, new, RightHalf(N[id])), id, LeftHalf(N[id])),
                  Range(RightHalf(N[id]).childrenIds), new), top, parent), ids, top)

(* The nodes that move are the children behind the middle one.             *)
LEMMA MovedChildren ==
  ASSUME NEW n, NEW S, Overfull(n, S), NEW x
  PROVE  x \in Range(RightHalf(n).childrenIds) <=>
           \E i \in MinEntriesPerNode + 1 + 1 .. Len(n.childrenIds) : n.childrenIds[i] = x
<1> DEFINE c == n.childrenIds
           M == MinEntriesPerNode
           c2 == RightHalf(n).childrenIds
<1>1. /\ c2 \in Seq(S) /\ Len(c2) = IF IsLeaf(n) THEN 0 ELSE M + 1
      /\ \A i \in 1 .. Len(c2) : c2[i] = c[M + 1 + i]
  BY RightHalfNode
<1>2. M \in Nat \ {0} /\ Len(n.entries) = 2 * M + 1 /\ (IsLeaf(n) \/ Len(c) = Len(n.entries) + 1)
  BY ParameterAssumption DEF Overfull
<1>3. IF IsLeaf(n) THEN Len(c) = 0 ELSE Len(c) = 2 * M + 2
  BY <1>2 DEF IsLeaf
<1>4. x \in Range(c2) <=> \E i \in 1 .. Len(c2) : c2[i] = x
  <2>1. DOMAIN c2 = 1 .. Len(c2)
    BY <1>1
  <2> QED
    BY <2>1 DEF Range
<1> HIDE DEF c, M, c2
<1>5. ASSUME NEW i \in 1 .. Len(c2), c2[i] = x
      PROVE  \E j \in M + 1 + 1 .. Len(c) : c[j] = x
  <2>1. ~ IsLeaf(n) /\ i \in 1 .. M + 1 /\ M + 1 + i \in M + 1 + 1 .. Len(c)
    BY <1>1, <1>2, <1>3, <1>5
  <2> QED
    BY <1>1, <1>5, <2>1
<1>6. ASSUME NEW j \in M + 1 + 1 .. Len(c), c[j] = x
      PROVE  \E i \in 1 .. Len(c2) : c2[i] = x
  <2>1. j - (M + 1) \in 1 .. Len(c2) /\ M + 1 + (j - (M + 1)) = j
    BY <1>1, <1>2, <1>3, <1>6
  <2> DEFINE i == j - (M + 1)
  <2>2. i \in 1 .. Len(c2) /\ M + 1 + i = j
    BY <2>1
  <2> HIDE DEF i
  <2>3. c2[i] = c[j]
    BY <1>1, <2>2
  <2> QED
    BY <1>6, <2>2, <2>3
<1> QED
  BY <1>4, <1>5, <1>6 DEF c, M, c2

(* One level of a split below the root.                                    *)
LEMMA SplitBelow ==
  ASSUME NEW N, NEW R, NEW h, NEW lo, NEW hi, SearchTree(N, R, h, lo, hi),
         NEW id \in DOMAIN N, id # R, Len(N[id].entries) = 2 * MinEntriesPerNode + 1,
         NEW new \in Nat \ {0}, new \notin DOMAIN N,
         NEW N2, N2 = SplitResult(N, id, new, N[id].parentId,
                                  InsertAsParent(N[N[id].parentId],
                                    N[id].entries[MinEntriesPerNode + 1], id, new), {new})
  PROVE  \E k : /\ MayBeSplit(N, R, id, MinEntriesPerNode + 1, k, new)
                /\ SplitOf(N, N2, id, MinEntriesPerNode + 1, k, new)
<1> DEFINE M == MinEntriesPerNode
           s == M + 1
           n == N[id]
           p == n.parentId
           middle == n.entries[s]
           pe == N[p].entries
           pids == N[p].childrenIds
           D == DOMAIN N
           D2 == D \cup {new}
           left == LeftHalf(n)
           right == RightHalf(n)
           moved == Range(right.childrenIds)
           parent == InsertAsParent(N[p], middle, id, new)
<1>1. M \in Nat \ {0}
  BY ParameterAssumption
<1>2. /\ p # 0 /\ p \in D /\ ~ IsLeaf(N[p]) /\ h[p] = h[id] + 1 /\ h[id] \in Nat
      /\ \E i \in 1 .. Len(pe) + 1 : pids[i] = id
  BY IsChild, NodeFacts
<1>3. PICK k \in 1 .. Len(pe) + 1 : pids[k] = id
  BY <1>2
<1>4. p # id
  BY <1>2
<1>5. /\ n = Node(p, n.entries, n.childrenIds) /\ n.entries \in Seq(UniqueEntry)
      /\ n.childrenIds \in Seq(D)
      /\ N[p] = Node(N[p].parentId, pe, pids) /\ pe \in Seq(UniqueEntry) /\ pids \in Seq(D)
      /\ \A x \in D : /\ N[x] = Node(N[x].parentId, N[x].entries, N[x].childrenIds)
                      /\ N[x].entries \in Seq(UniqueEntry) /\ N[x].childrenIds \in Seq(D)
  BY <1>2 DEF SearchTree, WellTyped
<1>6. /\ IsLeaf(n) \/ Len(n.childrenIds) = Len(n.entries) + 1
      /\ Len(pids) = Len(pe) + 1 /\ Len(pe) \in Nat
  BY <1>2, NodeFacts
<1>7. Overfull(n, D)
  BY <1>5, <1>6 DEF Overfull
<1>8. /\ s \in 1 .. Len(n.entries) /\ middle \in UniqueEntry /\ middle[1] \in Nat
      /\ lo[id] < middle[1] /\ middle[1] < hi[id]
  <2>1. s \in 1 .. Len(n.entries)
    BY <1>1
  <2> HIDE DEF s
  <2>2. middle \in UniqueEntry
    BY <1>5, <2>1
  <2>3. middle[1] \in Nat /\ lo[id] < middle[1] /\ middle[1] < hi[id]
    BY <2>1, Bounds
  <2> QED
    BY <2>1, <2>2, <2>3
<1> HIDE DEF middle, s
<1>9. BinarySearch(pe, middle[1]).at = k
  <2> DEFINE m == middle[1]
  <2>1. N[p].childrenIds[k] = id
    BY <1>3
  <2>2. p \in D /\ ~ IsLeaf(N[p]) /\ k \in 1 .. Len(N[p].entries) + 1
    BY <1>2, <1>3
  <2>3. m \in Nat /\ lo[N[p].childrenIds[k]] < m /\ m < hi[N[p].childrenIds[k]]
    BY <1>8, <2>1
  <2> HIDE DEF m, p
  <2>4. BinarySearch(N[p].entries, m).at = k
    BY <2>2, <2>3, PlaceByKey
  <2> QED
    BY <2>4 DEF m
<1>10. \A x \in D : x \in moved <=> \E i \in s + 1 .. Len(n.childrenIds) : n.childrenIds[i] = x
  BY <1>7, MovedChildren DEF s
<1>11. \A i \in 1 .. Len(n.childrenIds) : n.childrenIds[i] \in D /\ N[n.childrenIds[i]].parentId = id
  BY Links
<1>12. \A x \in moved : x \in D /\ N[x].parentId = id
  <2>1. right.childrenIds \in Seq(D)
    BY <1>7, RightHalfNode
  <2>2. moved \subseteq D
    BY <2>1 DEF Range
  <2>3. \A i \in s + 1 .. Len(n.childrenIds) : i \in 1 .. Len(n.childrenIds)
    BY <1>1, <1>5 DEF s
  <2> QED
    BY SMTT(30), <1>10, <1>11, <2>2, <2>3
<1>13. id \notin moved /\ p \notin moved
  <2>1. N[p].parentId # id
    <3>1. p # R => h[N[p].parentId] = h[p] + 1
      BY <1>2, IsChild
    <3>2. p = R => N[p].parentId = 0
      BY <1>2, Links
    <3>3. id # 0
      BY Links
    <3> QED
      BY <1>2, <3>1, <3>2, <3>3
  <2> QED
    BY <1>4, <1>12, <2>1
<1>14. /\ left = Node(p, left.entries, left.childrenIds)
       /\ left.entries \in Seq(UniqueEntry) /\ left.childrenIds \in Seq(D)
       /\ Len(left.entries) = M
       /\ \A i \in 1 .. M : left.entries[i] = n.entries[i]
       /\ Len(left.childrenIds) = IF IsLeaf(n) THEN 0 ELSE M + 1
       /\ \A i \in 1 .. Len(left.childrenIds) : left.childrenIds[i] = n.childrenIds[i]
  BY <1>7, LeftHalfNode
<1>15. /\ right = Node(0, right.entries, right.childrenIds)
       /\ right.entries \in Seq(UniqueEntry) /\ right.childrenIds \in Seq(D)
       /\ Len(right.entries) = M
       /\ \A i \in 1 .. M : right.entries[i] = n.entries[M + 1 + i]
       /\ Len(right.childrenIds) = IF IsLeaf(n) THEN 0 ELSE M + 1
       /\ \A i \in 1 .. Len(right.childrenIds) : right.childrenIds[i] = n.childrenIds[M + 1 + i]
  BY <1>7, RightHalfNode
<1>16. /\ parent = Node(N[p].parentId, parent.entries, parent.childrenIds)
       /\ parent.entries \in Seq(UniqueEntry) /\ parent.childrenIds \in Seq(D2)
       /\ Len(parent.entries) = Len(pe) + 1
       /\ \A i \in 1 .. Len(pe) + 1 :
            parent.entries[i] = IF i < k THEN pe[i] ELSE IF i = k THEN middle ELSE pe[i - 1]
       /\ Len(parent.childrenIds) = Len(pids) + 1
       /\ \A i \in 1 .. Len(pids) + 1 :
            parent.childrenIds[i] = IF i < k THEN pids[i] ELSE IF i = k THEN id
                                    ELSE IF i = k + 1 THEN new ELSE pids[i - 1]
  <2>1. pids \in Seq(D2) /\ id \in D2 /\ new \in D2
    BY <1>5
  <2> HIDE DEF D2, pe, pids
  <2> DEFINE q == N[p]
  <2>2. /\ q = Node(q.parentId, q.entries, q.childrenIds)
        /\ q.entries \in Seq(UniqueEntry) /\ q.childrenIds \in Seq(D2)
        /\ Len(q.childrenIds) = Len(q.entries) + 1
        /\ k \in 1 .. Len(q.entries) + 1 /\ BinarySearch(q.entries, middle[1]).at = k
        /\ parent = InsertAsParent(q, middle, id, new)
        /\ pe = q.entries /\ pids = q.childrenIds
    BY <1>3, <1>5, <1>6, <1>9, <2>1 DEF pe, pids
  <2> HIDE DEF q, parent
  <2>3. GrownParent(q, parent, D2, k, middle, id, new)
    BY <1>8, <2>1, <2>2, ParentNode
  <2>4. q.parentId = N[p].parentId
    BY DEF q
  <2> QED
    BY <2>2, <2>3, <2>4 DEF GrownParent
<1>17. N2 = Adopt(Put(Adopt(Put(Put(N, new, right), id, left), moved, new), p, parent), {new}, p)
  BY DEF SplitResult, middle, s
<1> HIDE DEF left, right, moved, parent
<1>18. /\ DOMAIN N2 = D \cup {new, p}
       /\ N2[p] = parent
       /\ N2[new] = [right EXCEPT !.parentId = p]
       /\ N2[id] = IF id \in {new} THEN [left EXCEPT !.parentId = p] ELSE left
       /\ \A x \in D \ {id, p} : N2[x] = IF x \in moved THEN [N[x] EXCEPT !.parentId = new] ELSE N[x]
  <2> DEFINE ids == {new}
  <2>1. ids \subseteq {id, new} /\ new \in ids /\ p # new /\ p # id /\ moved \subseteq D
    BY <1>2, <1>4, <1>12
  <2>2. N2 = Adopt(Put(Adopt(Put(Put(N, new, right), id, left), moved, new), p, parent), ids, p)
    BY <1>17
  <2> HIDE DEF ids, p
  <2> HIDE DEF n
  <2>4. NodesSplit(N, N2, id, new, p, left, right, parent, moved, ids)
    BY <1>13, <2>1, <2>2, SplitNodes
  <2>3. /\ DOMAIN N2 = DOMAIN N \cup {new, p}
        /\ N2[p] = parent
        /\ N2[new] = [right EXCEPT !.parentId = p]
        /\ N2[id] = IF id \in ids THEN [left EXCEPT !.parentId = p] ELSE left
        /\ \A x \in DOMAIN N \ {id, p} :
             N2[x] = IF x \in moved THEN [N[x] EXCEPT !.parentId = new] ELSE N[x]
    BY <2>4 DEF NodesSplit
  <2> QED
    BY <2>3 DEF ids
<1>19. /\ DOMAIN N2 = D2 /\ N2[p] = parent /\ N2[id] = left
       /\ N2[new] = Node(p, right.entries, right.childrenIds)
       /\ \A x \in D \ {id, p} :
            /\ N2[x] = Node(N2[x].parentId, N2[x].entries, N2[x].childrenIds)
            /\ N2[x].parentId = IF x \in moved THEN new ELSE N[x].parentId
            /\ N2[x].entries = N[x].entries /\ N2[x].childrenIds = N[x].childrenIds
  <2>1. DOMAIN N2 = D2 /\ N2[id] = left
    BY <1>2, <1>18
  <2> HIDE DEF p
  <2>2. N2[new] = Node(p, right.entries, right.childrenIds)
    BY <1>15, <1>18, NodeFields
  <2>3. ASSUME NEW x \in D \ {id, p}
        PROVE  /\ N2[x] = Node(N2[x].parentId, N2[x].entries, N2[x].childrenIds)
               /\ N2[x].parentId = IF x \in moved THEN new ELSE N[x].parentId
               /\ N2[x].entries = N[x].entries /\ N2[x].childrenIds = N[x].childrenIds
    <3> DEFINE a == N[x].parentId
               b == N[x].entries
               c == N[x].childrenIds
    <3>1. N[x] = Node(a, b, c)
      BY <1>5
    <3>2. N2[x] = IF x \in moved THEN [N[x] EXCEPT !.parentId = new] ELSE N[x]
      BY <1>18
    <3> HIDE DEF a, b, c
    <3>3. N2[x] = Node(IF x \in moved THEN new ELSE a, b, c)
      BY <3>1, <3>2, NodeFields
    <3> DEFINE d == IF x \in moved THEN new ELSE a
    <3>4. N2[x] = Node(d, b, c)
      BY <3>3
    <3> HIDE DEF d
    <3>5. N2[x].parentId = d /\ N2[x].entries = b /\ N2[x].childrenIds = c
      BY <3>4, NodeFields
    <3>6. N2[x] = Node(N2[x].parentId, N2[x].entries, N2[x].childrenIds)
      BY <3>4, <3>5
    <3> QED
      BY <3>5, <3>6 DEF a, b, c, d
  <2> QED
    BY <1>18, <2>1, <2>2, <2>3
<1>20. Typed(N2)
  <2>1. D \subseteq D2 /\ \A q : q \in Seq(D) => q \in Seq(D2)
    OBVIOUS
  <2> HIDE DEF D, D2, n, p
  <2> SUFFICES ASSUME NEW x \in D2
               PROVE  /\ N2[x] = Node(N2[x].parentId, N2[x].entries, N2[x].childrenIds)
                      /\ N2[x].entries \in Seq(UniqueEntry)
                      /\ N2[x].childrenIds \in Seq(D2)
    BY <1>19 DEF Typed
  <2>2. CASE x = p
    <3>1. N2[x] = parent
      BY <1>19, <2>2
    <3>2. parent.parentId = N[p].parentId
      BY <1>16, NodeFields
    <3> QED
      BY <1>16, <3>1, <3>2
  <2>3. CASE x = id
    <3>1. N2[x] = left
      BY <1>19, <2>3
    <3>2. left.parentId = p
      BY <1>14, NodeFields
    <3> QED
      BY <1>14, <2>1, <3>1, <3>2
  <2>4. CASE x = new
    <3>1. N2[x] = Node(p, right.entries, right.childrenIds)
      BY <1>19, <2>4
    <3>2. N2[x].parentId = p /\ N2[x].entries = right.entries /\ N2[x].childrenIds = right.childrenIds
      BY <3>1, NodeFields
    <3> QED
      BY <1>15, <2>1, <3>1, <3>2
  <2>5. CASE x \in D \ {id, p}
    <3>1. N[x].entries \in Seq(UniqueEntry) /\ N[x].childrenIds \in Seq(D)
      BY <1>5, <2>5
    <3> QED
      BY <1>19, <2>1, <2>5, <3>1
  <2> QED
    BY <2>2, <2>3, <2>4, <2>5 DEF D2
<1>21. SplitParents(N, N2, id, s, new)
  <2>1. N2[new].parentId = p
    BY <1>19, NodeFields
  <2>2. ASSUME NEW x \in D
        PROVE  N2[x].parentId = IF \E i \in s + 1 .. Len(n.childrenIds) : n.childrenIds[i] = x
                                  THEN new ELSE N[x].parentId
    <3>1. N2[x].parentId = IF x \in moved THEN new ELSE N[x].parentId
      <4>1. CASE x = p
        <5>1. parent.parentId = N[p].parentId
          BY <1>16, NodeFields
        <5> QED
          BY <1>13, <1>19, <4>1, <5>1
      <4>2. CASE x = id
        <5>1. left.parentId = p
          BY <1>14, NodeFields
        <5> QED
          BY <1>13, <1>19, <4>2, <5>1
      <4>3. CASE x \notin {id, p}
        BY <1>19, <4>3
      <4> QED
        BY <4>1, <4>2, <4>3
    <3> QED
      BY <1>10, <3>1
  <2> QED
    BY <2>1, <2>2 DEF SplitParents
<1>22. \A x \in D \ {id, p} : N2[x].entries = N[x].entries /\ N2[x].childrenIds = N[x].childrenIds
  BY <1>19
<1>23. N2[new].entries = right.entries /\ N2[new].childrenIds = right.childrenIds
  BY <1>19, NodeFields
<1>24. SplitEntries(N, N2, id, s, k, new)
  <2>1. s - 1 = M /\ Len(n.entries) - s = M
    BY <1>1 DEF s
  <2>2. Len(N2[id].entries) = s - 1 /\ \A i \in 1 .. s - 1 : N2[id].entries[i] = n.entries[i]
    BY <1>14, <1>19, <2>1
  <2>3. /\ Len(N2[new].entries) = Len(n.entries) - s
        /\ \A i \in 1 .. Len(n.entries) - s : N2[new].entries[i] = n.entries[s + i]
    BY <1>15, <1>23, <2>1 DEF s
  <2>4. /\ Len(N2[p].entries) = Len(pe) + 1
        /\ \A i \in 1 .. Len(pe) + 1 :
             N2[p].entries[i] = IF i < k THEN pe[i] ELSE IF i = k THEN n.entries[s] ELSE pe[i - 1]
    BY <1>16, <1>19 DEF middle
  <2> QED
    BY <1>22, <2>2, <2>3, <2>4 DEF SplitEntries
<1>25. SplitChildren(N, N2, id, s, k, new)
  <2>1. IsLeaf(n) \/ Len(n.childrenIds) - s = M + 1
    BY <1>1, <1>6 DEF s
  <2>2. /\ Len(N2[id].childrenIds) = IF IsLeaf(n) THEN 0 ELSE s
        /\ \A i \in 1 .. Len(N2[id].childrenIds) : N2[id].childrenIds[i] = n.childrenIds[i]
    BY <1>14, <1>19 DEF s
  <2>3. /\ Len(N2[new].childrenIds) = IF IsLeaf(n) THEN 0 ELSE Len(n.childrenIds) - s
        /\ \A i \in 1 .. Len(N2[new].childrenIds) : N2[new].childrenIds[i] = n.childrenIds[s + i]
    BY <1>15, <1>23, <2>1 DEF s
  <2>4. Len(N2[p].childrenIds) = Len(pids) + 1
    BY <1>16, <1>19
  <2>5. ASSUME NEW i \in 1 .. Len(pids) + 1
        PROVE  N2[p].childrenIds[i] = IF i <= k THEN pids[i] ELSE IF i = k + 1 THEN new
                                      ELSE pids[i - 1]
    <3>1. N2[p].childrenIds[i] = IF i < k THEN pids[i] ELSE IF i = k THEN id
                                 ELSE IF i = k + 1 THEN new ELSE pids[i - 1]
      BY <1>16, <1>19
    <3>2. i \in Nat /\ k \in Nat
      BY <1>6
    <3> HIDE DEF pids
    <3> QED
      BY <1>3, <3>1, <3>2
  <2> QED
    BY <1>22, <2>2, <2>3, <2>4, <2>5 DEF SplitChildren
<1>26. SplitOf(N, N2, id, s, k, new)
  BY <1>19, <1>20, <1>21, <1>24, <1>25 DEF SplitOf
<1>27. MayBeSplit(N, R, id, s, k, new)
  BY <1>3, <1>8 DEF MayBeSplit
<1> QED
  BY <1>26, <1>27 DEF s

(* One level of a split at the root: of the tree that has got a new root.  *)
LEMMA SplitAtRoot ==
  ASSUME NEW N, NEW R, NEW h, NEW lo, NEW hi, SearchTree(N, R, h, lo, hi),
         Len(N[R].entries) = 2 * MinEntriesPerNode + 1,
         NEW new \in Nat \ {0}, new \notin DOMAIN N,
         NEW top \in Nat \ {0}, top \notin DOMAIN N, top # new,
         NEW N2, N2 = SplitResult(N, R, new, top,
                                  Node(0, <<N[R].entries[MinEntriesPerNode + 1]>>, <<R, new>>), {R, new})
  PROVE  /\ MayBeSplit(Grown(N, R, top), top, R, MinEntriesPerNode + 1, 1, new)
         /\ SplitOf(Grown(N, R, top), N2, R, MinEntriesPerNode + 1, 1, new)
<1> DEFINE M == MinEntriesPerNode
           s == M + 1
           n == N[R]
           middle == n.entries[s]
           D == DOMAIN N
           D2 == D \cup {top, new}
           G == Grown(N, R, top)
           left == LeftHalf(n)
           right == RightHalf(n)
           moved == Range(right.childrenIds)
           parent == Node(0, <<middle>>, <<R, new>>)
<1>1. M \in Nat \ {0} /\ R \in D
  BY ParameterAssumption, NodeFacts DEF SearchTree, WellTyped
<1>5. \A x \in D : /\ N[x] = Node(N[x].parentId, N[x].entries, N[x].childrenIds)
                   /\ N[x].entries \in Seq(UniqueEntry) /\ N[x].childrenIds \in Seq(D)
  BY DEF SearchTree, WellTyped
<1>6. /\ IsLeaf(n) \/ Len(n.childrenIds) = Len(n.entries) + 1
      /\ n.parentId = 0
  <2>1. \A c \in D : IsLeaf(N[c]) \/ Len(N[c].childrenIds) = Len(N[c].entries) + 1
    BY Links
  <2>2. \A c \in D : c = R <=> N[c].parentId = 0
    BY Links
  <2> QED
    BY <1>1, <2>1, <2>2
<1>7. Overfull(n, D)
  BY <1>1, <1>5, <1>6 DEF Overfull
<1>8. s \in 1 .. Len(n.entries) /\ middle \in UniqueEntry
  <2>1. s \in 1 .. Len(n.entries)
    BY <1>1
  <2> HIDE DEF s
  <2> QED
    BY <1>1, <1>5, <2>1
<1> HIDE DEF middle, s
<1>10. \A x \in D : x \in moved <=> \E i \in s + 1 .. Len(n.childrenIds) : n.childrenIds[i] = x
  BY <1>7, MovedChildren DEF s
<1>11. \A i \in 1 .. Len(n.childrenIds) : n.childrenIds[i] \in D /\ N[n.childrenIds[i]].parentId = R
  BY <1>1, Links
<1>12. \A x \in moved : x \in D /\ N[x].parentId = R
  <2>1. right.childrenIds \in Seq(D)
    BY <1>7, RightHalfNode
  <2>2. moved \subseteq D
    BY <2>1 DEF Range
  <2>3. \A i \in s + 1 .. Len(n.childrenIds) : i \in 1 .. Len(n.childrenIds)
    BY <1>1 DEF s
  <2> QED
    BY <1>10, <1>11, <2>2, <2>3
<1>13. R \notin moved /\ top \notin moved /\ R # top
  <2>1. R # 0
    BY <1>1, Links
  <2> QED
    BY <1>1, <1>6, <1>12, <2>1
<1>14. /\ left = Node(0, left.entries, left.childrenIds)
       /\ left.entries \in Seq(UniqueEntry) /\ left.childrenIds \in Seq(D)
       /\ Len(left.entries) = M
       /\ \A i \in 1 .. M : left.entries[i] = n.entries[i]
       /\ Len(left.childrenIds) = IF IsLeaf(n) THEN 0 ELSE M + 1
       /\ \A i \in 1 .. Len(left.childrenIds) : left.childrenIds[i] = n.childrenIds[i]
  BY <1>6, <1>7, LeftHalfNode
<1>15. /\ right = Node(0, right.entries, right.childrenIds)
       /\ right.entries \in Seq(UniqueEntry) /\ right.childrenIds \in Seq(D)
       /\ Len(right.entries) = M
       /\ \A i \in 1 .. M : right.entries[i] = n.entries[M + 1 + i]
       /\ Len(right.childrenIds) = IF IsLeaf(n) THEN 0 ELSE M + 1
       /\ \A i \in 1 .. Len(right.childrenIds) : right.childrenIds[i] = n.childrenIds[M + 1 + i]
  BY <1>7, RightHalfNode
<1>16. /\ parent = Node(0, parent.entries, parent.childrenIds) /\ parent.parentId = 0
       /\ parent.entries = <<middle>> /\ parent.childrenIds = <<R, new>>
       /\ <<middle>> \in Seq(UniqueEntry) /\ <<R, new>> \in Seq(D2)
  <2>1. <<middle>> \in Seq(UniqueEntry) /\ <<R, new>> \in Seq(D2)
    BY <1>1, <1>8
  <2>2. parent.parentId = 0 /\ parent.entries = <<middle>> /\ parent.childrenIds = <<R, new>>
    BY NodeFields
  <2> QED
    BY <2>1, <2>2
<1>17. N2 = Adopt(Put(Adopt(Put(Put(N, new, right), R, left), moved, new), top, parent), {R, new}, top)
  BY DEF SplitResult, middle, s
<1> HIDE DEF left, right, moved, parent
<1>18. /\ DOMAIN N2 = D2
       /\ N2[top] = parent
       /\ N2[new] = [right EXCEPT !.parentId = top]
       /\ N2[R] = [left EXCEPT !.parentId = top]
       /\ \A x \in D \ {R} : N2[x] = IF x \in moved THEN [N[x] EXCEPT !.parentId = new] ELSE N[x]
  <2> DEFINE ids == {R, new}
  <2>1. ids \subseteq {R, new} /\ new \in ids /\ R \in ids /\ top # new /\ top # R /\ moved \subseteq D
    BY <1>12, <1>13
  <2>2. N2 = Adopt(Put(Adopt(Put(Put(N, new, right), R, left), moved, new), top, parent), ids, top)
    BY <1>17
  <2> HIDE DEF ids
  <2> HIDE DEF n
  <2>4. NodesSplit(N, N2, R, new, top, left, right, parent, moved, ids)
    BY <1>1, <1>13, <2>1, <2>2, SplitNodes
  <2> QED
    BY <1>1, <1>13, <2>1, <2>4 DEF NodesSplit
<1>19. /\ N2[R] = Node(top, left.entries, left.childrenIds)
       /\ N2[new] = Node(top, right.entries, right.childrenIds)
       /\ \A x \in D \ {R} :
            /\ N2[x] = Node(N2[x].parentId, N2[x].entries, N2[x].childrenIds)
            /\ N2[x].parentId = IF x \in moved THEN new ELSE N[x].parentId
            /\ N2[x].entries = N[x].entries /\ N2[x].childrenIds = N[x].childrenIds
  <2>1. N2[R] = Node(top, left.entries, left.childrenIds)
    <3> DEFINE b == left.entries
               c == left.childrenIds
    <3>1. left = Node(0, b, c) /\ N2[R] = [left EXCEPT !.parentId = top]
      BY <1>14, <1>18
    <3> HIDE DEF b, c
    <3>2. N2[R] = Node(top, b, c)
      BY <3>1, NodeFields
    <3> QED
      BY <3>2 DEF b, c
  <2>2. N2[new] = Node(top, right.entries, right.childrenIds)
    BY <1>15, <1>18, NodeFields
  <2>3. ASSUME NEW x \in D \ {R}
        PROVE  /\ N2[x] = Node(N2[x].parentId, N2[x].entries, N2[x].childrenIds)
               /\ N2[x].parentId = IF x \in moved THEN new ELSE N[x].parentId
               /\ N2[x].entries = N[x].entries /\ N2[x].childrenIds = N[x].childrenIds
    <3> DEFINE a == N[x].parentId
               b == N[x].entries
               c == N[x].childrenIds
               d == IF x \in moved THEN new ELSE a
    <3>1. N[x] = Node(a, b, c)
      BY <1>5
    <3>2. N2[x] = IF x \in moved THEN [N[x] EXCEPT !.parentId = new] ELSE N[x]
      BY <1>18
    <3> HIDE DEF a, b, c
    <3>4. N2[x] = Node(d, b, c)
      BY <3>1, <3>2, NodeFields
    <3> HIDE DEF d
    <3>5. N2[x].parentId = d /\ N2[x].entries = b /\ N2[x].childrenIds = c
      BY <3>4, NodeFields
    <3>6. N2[x] = Node(N2[x].parentId, N2[x].entries, N2[x].childrenIds)
      BY <3>4, <3>5
    <3> QED
      BY <3>5, <3>6 DEF a, b, c, d
  <2> QED
    BY <2>1, <2>2, <2>3
<1>23. /\ N2[new].parentId = top /\ N2[new].entries = right.entries
       /\ N2[new].childrenIds = right.childrenIds
       /\ N2[R].parentId = top /\ N2[R].entries = left.entries
       /\ N2[R].childrenIds = left.childrenIds
  BY <1>19, NodeFields
<1>20. Typed(N2)
  <2>1. D \subseteq D2 /\ \A q : q \in Seq(D) => q \in Seq(D2)
    OBVIOUS
  <2>0. D2 = D \cup {top, new}
    OBVIOUS
  <2> HIDE DEF D, D2, n
  <2> SUFFICES ASSUME NEW x \in D2
               PROVE  /\ N2[x] = Node(N2[x].parentId, N2[x].entries, N2[x].childrenIds)
                      /\ N2[x].entries \in Seq(UniqueEntry)
                      /\ N2[x].childrenIds \in Seq(D2)
    BY <1>18 DEF Typed
  <2>2. CASE x = top
    BY <1>16, <1>18, <2>2
  <2>3. CASE x = R
    BY <1>14, <1>19, <1>23, <2>1, <2>3
  <2>4. CASE x = new
    BY <1>15, <1>19, <1>23, <2>1, <2>4
  <2>5. CASE x \in D \ {R}
    <3>1. N[x].entries \in Seq(UniqueEntry) /\ N[x].childrenIds \in Seq(D)
      BY <1>5, <2>5
    <3> QED
      BY <1>19, <2>1, <2>5, <3>1
  <2> QED
    BY <2>0, <2>2, <2>3, <2>4, <2>5
<1>30. /\ DOMAIN G = D \cup {top} /\ G[top] = Node(0, <<>>, <<R>>)
       /\ G[R] = Node(top, n.entries, n.childrenIds)
       /\ \A x \in D \ {R} : G[x] = N[x]
  BY <1>1, <1>13 DEF Grown
<1> HIDE DEF G
<1>31. /\ G[top].parentId = 0 /\ G[top].entries = <<>> /\ G[top].childrenIds = <<R>>
       /\ G[R].parentId = top /\ G[R].entries = n.entries /\ G[R].childrenIds = n.childrenIds
  BY <1>30, NodeFields
<1>32. IsLeaf(G[R]) <=> IsLeaf(n)
  BY <1>31 DEF IsLeaf
<1> DEFINE p == G[R].parentId
           e == G[R].entries
           ids == G[R].childrenIds
<1>33. p = top /\ e = n.entries /\ ids = n.childrenIds
  BY <1>31
<1> HIDE DEF p, e, ids
<1>21. SplitParents(G, N2, R, s, new)
  <2>1. N2[new].parentId = top
    BY <1>23
  <2>2. ASSUME NEW x \in DOMAIN G
        PROVE  N2[x].parentId = IF \E i \in s + 1 .. Len(n.childrenIds) : n.childrenIds[i] = x
                                  THEN new ELSE G[x].parentId
    <3>1. CASE x = top
      <4>1. ~ \E i \in s + 1 .. Len(n.childrenIds) : n.childrenIds[i] = x
        <5>1. \A i \in s + 1 .. Len(n.childrenIds) : i \in 1 .. Len(n.childrenIds)
          BY <1>1 DEF s
        <5> QED
          BY <1>11, <3>1, <5>1
      <4> QED
        BY <1>16, <1>18, <1>31, <3>1, <4>1
    <3>2. CASE x = R
      BY <1>1, <1>10, <1>13, <1>23, <1>31, <3>2
    <3>3. CASE x \in D \ {R}
      BY <1>10, <1>19, <1>30, <3>3
    <3> QED
      BY <1>30, <3>1, <3>2, <3>3
  <2>3. N2[new].parentId = p
    BY <1>33, <2>1
  <2>4. \A x \in DOMAIN G : N2[x].parentId = IF \E i \in s + 1 .. Len(ids) : ids[i] = x
                                               THEN new ELSE G[x].parentId
    BY <1>33, <2>2
  <2> QED
    BY <2>3, <2>4 DEF SplitParents, p, ids
<1>22. \A x \in DOMAIN G \ {R, top} :
         N2[x].entries = G[x].entries /\ N2[x].childrenIds = G[x].childrenIds
  BY <1>19, <1>30
<1>24. SplitEntries(G, N2, R, s, 1, new)
  <2>1. s - 1 = M /\ Len(n.entries) - s = M
    BY <1>1 DEF s
  <2>2. Len(N2[R].entries) = s - 1 /\ \A i \in 1 .. s - 1 : N2[R].entries[i] = n.entries[i]
    BY <1>14, <1>23, <2>1
  <2>3. /\ Len(N2[new].entries) = Len(n.entries) - s
        /\ \A i \in 1 .. Len(n.entries) - s : N2[new].entries[i] = n.entries[s + i]
    BY <1>15, <1>23, <2>1 DEF s
  <2>4. /\ Len(N2[top].entries) = 1 /\ Len(G[top].entries) = 0 /\ N2[top].entries[1] = n.entries[s]
    <3>1. N2[top].entries = <<middle>>
      BY <1>16, <1>18
    <3>2. Len(<<middle>>) = 1 /\ <<middle>>[1] = middle /\ Len(<<>>) = 0
      OBVIOUS
    <3>3. middle = n.entries[s]
      BY DEF middle
    <3> QED
      BY <1>31, <3>1, <3>2, <3>3
  <2>5. \A i \in 1 .. Len(G[top].entries) + 1 :
             N2[top].entries[i] = IF i < 1 THEN G[top].entries[i]
                                  ELSE IF i = 1 THEN n.entries[s] ELSE G[top].entries[i - 1]
    <3> TAKE i \in 1 .. Len(G[top].entries) + 1
    <3>1. i = 1 /\ ~ (i < 1)
      BY <2>4
    <3> QED
      BY <2>4, <3>1
  <2>6. Len(N2[top].entries) = Len(G[top].entries) + 1
    BY <2>4
  <2>7. Len(N2[R].entries) = s - 1 /\ \A i \in 1 .. s - 1 : N2[R].entries[i] = e[i]
    BY <1>33, <2>2
  <2>8. /\ Len(N2[new].entries) = Len(e) - s
        /\ \A i \in 1 .. Len(e) - s : N2[new].entries[i] = e[s + i]
    BY <1>33, <2>3
  <2>9. /\ Len(N2[p].entries) = Len(G[p].entries) + 1
        /\ \A i \in 1 .. Len(G[p].entries) + 1 :
             N2[p].entries[i] = IF i < 1 THEN G[p].entries[i]
                                ELSE IF i = 1 THEN e[s] ELSE G[p].entries[i - 1]
    BY <1>33, <2>5, <2>6
  <2>10. \A x \in DOMAIN G \ {R, p} : N2[x].entries = G[x].entries
    BY <1>22, <1>33
  <2> QED
    BY <2>7, <2>8, <2>9, <2>10 DEF SplitEntries, p, e
<1>25. SplitChildren(G, N2, R, s, 1, new)
  <2>1. IsLeaf(n) \/ Len(n.childrenIds) - s = M + 1
    BY <1>1, <1>6 DEF s
  <2>2. /\ Len(N2[R].childrenIds) = IF IsLeaf(n) THEN 0 ELSE s
        /\ \A i \in 1 .. Len(N2[R].childrenIds) : N2[R].childrenIds[i] = n.childrenIds[i]
    BY <1>14, <1>23 DEF s
  <2>3. /\ Len(N2[new].childrenIds) = IF IsLeaf(n) THEN 0 ELSE Len(n.childrenIds) - s
        /\ \A i \in 1 .. Len(N2[new].childrenIds) : N2[new].childrenIds[i] = n.childrenIds[s + i]
    BY <1>15, <1>23, <2>1 DEF s
  <2>4. /\ Len(N2[top].childrenIds) = 2 /\ Len(G[top].childrenIds) = 1
        /\ N2[top].childrenIds[1] = R /\ N2[top].childrenIds[2] = new /\ G[top].childrenIds[1] = R
    <3>1. N2[top].childrenIds = <<R, new>> /\ G[top].childrenIds = <<R>>
      BY <1>16, <1>18, <1>31
    <3>2. /\ Len(<<R, new>>) = 2 /\ <<R, new>>[1] = R /\ <<R, new>>[2] = new
          /\ Len(<<R>>) = 1 /\ <<R>>[1] = R
      OBVIOUS
    <3> QED
      BY <3>1, <3>2
  <2>5. ASSUME NEW i \in 1 .. Len(G[top].childrenIds) + 1
        PROVE  N2[top].childrenIds[i] = IF i <= 1 THEN G[top].childrenIds[i]
                                        ELSE IF i = 1 + 1 THEN new ELSE G[top].childrenIds[i - 1]
    <3>1. i = 1 \/ i = 2
      BY <2>4
    <3>2. CASE i = 1
      BY <2>4, <3>2
    <3>3. CASE i = 2
      BY <2>4, <3>3
    <3> QED
      BY <3>1, <3>2, <3>3
  <2>6. Len(N2[top].childrenIds) = Len(G[top].childrenIds) + 1
    BY <2>4
  <2>7. /\ Len(N2[R].childrenIds) = IF IsLeaf(G[R]) THEN 0 ELSE s
        /\ \A i \in 1 .. Len(N2[R].childrenIds) : N2[R].childrenIds[i] = ids[i]
    BY <1>32, <1>33, <2>2
  <2>8. /\ Len(N2[new].childrenIds) = IF IsLeaf(G[R]) THEN 0 ELSE Len(ids) - s
        /\ \A i \in 1 .. Len(N2[new].childrenIds) : N2[new].childrenIds[i] = ids[s + i]
    BY <1>32, <1>33, <2>3
  <2>9. /\ Len(N2[p].childrenIds) = Len(G[p].childrenIds) + 1
        /\ \A i \in 1 .. Len(G[p].childrenIds) + 1 :
             N2[p].childrenIds[i] = IF i <= 1 THEN G[p].childrenIds[i]
                                    ELSE IF i = 1 + 1 THEN new ELSE G[p].childrenIds[i - 1]
    BY <1>33, <2>5, <2>6
  <2>10. \A x \in DOMAIN G \ {R, p} : N2[x].childrenIds = G[x].childrenIds
    BY <1>22, <1>33
  <2> QED
    BY <2>7, <2>8, <2>9, <2>10 DEF SplitChildren, p, ids
<1>26. SplitOf(G, N2, R, s, 1, new)
  BY <1>18, <1>20, <1>21, <1>24, <1>25, <1>30 DEF SplitOf
<1>27. MayBeSplit(G, top, R, s, 1, new)
  <2>1. 1 \in 1 .. Len(G[top].entries) + 1 /\ G[top].childrenIds[1] = R
    BY <1>31
  <2> QED
    BY <1>1, <1>8, <1>13, <1>30, <1>31, <2>1 DEF MayBeSplit
<1> QED
  BY <1>26, <1>27 DEF s, G

-----------------------------------------------------------------------------
(* The inductive invariant of a tree without duplicate keys.               *)

SomeSearchTree(N, R) == \E h, lo, hi : SearchTree(N, R, h, lo, hi)

(* What an operation is about: a node with an entry too many, or too few.  *)
Working(N, R, o) ==
  /\ o = [name |-> o.name, node |-> o.node, entry |-> NoEntry]
  /\ o.name \in {"idle", "split", "rebalance"}
  /\ o.name = "idle" => o.node = 0
  /\ o.name = "split" => o.node \in DOMAIN N
                         /\ Len(N[o.node].entries) = 2 * MinEntriesPerNode + 1
  /\ o.name = "rebalance" => o.node \in DOMAIN N \ {R}
                             /\ Len(N[o.node].entries) = MinEntriesPerNode - 1

(* All other nodes have neither.                                           *)
Sized(N, R, o) ==
  \A x \in DOMAIN N :
    /\ ~ (o.name = "split" /\ o.node = x) => Len(N[x].entries) <= 2 * MinEntriesPerNode
    /\ x = R => IsLeaf(N[x]) \/ Len(N[x].entries) >= 1
    /\ x # R /\ ~ (o.name = "rebalance" /\ o.node = x) => Len(N[x].entries) >= MinEntriesPerNode

(* The invariant of a tree without duplicate keys.                         *)
TreeInv ==
  /\ ~ allowDuplicateKeys
  /\ SomeSearchTree(nodes, rootNode)
  /\ Working(nodes, rootNode, op)
  /\ Sized(nodes, rootNode, op)

(* The sizes of nodes after a split.                                       *)
SplitLengths(N, N2, id, new) ==
  /\ DOMAIN N2 = DOMAIN N \cup {new}
  /\ Len(N2[id].entries) = MinEntriesPerNode /\ Len(N2[new].entries) = MinEntriesPerNode
  /\ Len(N2[N[id].parentId].entries) = Len(N[N[id].parentId].entries) + 1
  /\ \A x \in DOMAIN N \ {id, N[id].parentId} :
       Len(N2[x].entries) = Len(N[x].entries) /\ (IsLeaf(N2[x]) <=> IsLeaf(N[x]))

(* After a split both halves have the least number of entries, and the     *)
(* parent has one more.                                                    *)
LEMMA SplitSizes ==
  ASSUME NEW N, NEW R, NEW id, NEW k, NEW new, NEW N2,
         NEW h, NEW lo, NEW hi, SearchTree(N, R, h, lo, hi),
         MayBeSplit(N, R, id, MinEntriesPerNode + 1, k, new),
         SplitOf(N, N2, id, MinEntriesPerNode + 1, k, new),
         Len(N[id].entries) = 2 * MinEntriesPerNode + 1
  PROVE  SplitLengths(N, N2, id, new)
<1>1. MinEntriesPerNode \in Nat
  BY ParameterAssumption
<1>2. SplitEntries(N, N2, id, MinEntriesPerNode + 1, k, new) /\ DOMAIN N2 = DOMAIN N \cup {new}
  BY DEF SplitOf
<1>3. SplitChildren(N, N2, id, MinEntriesPerNode + 1, k, new)
  BY DEF SplitOf
<1>4. \A x \in DOMAIN N \ {id, N[id].parentId} : IsLeaf(N2[x]) <=> IsLeaf(N[x])
  BY <1>3 DEF SplitChildren, IsLeaf
<1>6. /\ Len(N2[id].entries) = MinEntriesPerNode
      /\ Len(N2[new].entries) = MinEntriesPerNode
      /\ Len(N2[N[id].parentId].entries) = Len(N[N[id].parentId].entries) + 1
      /\ \A x \in DOMAIN N \ {id, N[id].parentId} : N2[x].entries = N[x].entries
  <2> DEFINE s == MinEntriesPerNode + 1
             p == N[id].parentId
  <2>1. SplitEntries(N, N2, id, s, k, new)
    BY <1>2
  <2> HIDE DEF s
  <2>2. Len(N2[id].entries) = s - 1
    BY <2>1 DEF SplitEntries
  <2>3. Len(N2[new].entries) = Len(N[id].entries) - s
    BY <2>1 DEF SplitEntries
  <2>4. Len(N2[p].entries) = Len(N[p].entries) + 1
    BY <2>1 DEF SplitEntries
  <2>5. \A x \in DOMAIN N \ {id, p} : N2[x].entries = N[x].entries
    BY <2>1 DEF SplitEntries
  <2>6. s - 1 = MinEntriesPerNode /\ Len(N[id].entries) - s = MinEntriesPerNode
    BY <1>1 DEF s
  <2> QED
    BY <2>2, <2>3, <2>4, <2>5, <2>6
<1> QED
  BY <1>1, <1>2, <1>4, <1>6 DEF SplitLengths

(* Split, below the root and at it, keeps the invariant and the entries.   *)
LEMMA SplitStep ==
  ASSUME TreeInv, Split
  PROVE  TreeInv' /\ SameEntries(nodes, nodes')
<1> DEFINE M == MinEntriesPerNode
           id == op.node
           n == nodes[id]
           N2 == nodes'
           D == DOMAIN nodes
<1>1. PICK h, lo, hi : SearchTree(nodes, rootNode, h, lo, hi)
  BY DEF TreeInv, SomeSearchTree
<1>2. /\ op.name = "split" /\ id \in D /\ Len(n.entries) = 2 * M + 1
      /\ op = [name |-> op.name, node |-> op.node, entry |-> NoEntry]
      /\ ~ allowDuplicateKeys /\ allowDuplicateKeys' = allowDuplicateKeys
      /\ M \in Nat \ {0}
  BY ParameterAssumption DEF TreeInv, Working, Split
<1>3. \A x \in D : /\ x # id => Len(nodes[x].entries) <= 2 * M
                   /\ x = rootNode => IsLeaf(nodes[x]) \/ Len(nodes[x].entries) >= 1
                   /\ x # rootNode => Len(nodes[x].entries) >= M
                   /\ Len(nodes[x].entries) \in Nat
  <2>1. \A x \in D : Len(nodes[x].entries) \in Nat
    BY <1>1, NodeFacts
  <2> QED
    BY <1>2, <2>1 DEF TreeInv, Sized
<1>4. IsFiniteSet(D) /\ D \subseteq Nat \ {0} /\ rootNode \in D
  BY <1>1 DEF SearchTree, WellTyped
<1> DEFINE new == FreshId(nodes)
           middle == n.entries[M + 1]
           halves == Adopt(Put(Put(nodes, new, RightHalf(n)), id, LeftHalf(n)),
                           Range(RightHalf(n).childrenIds), new)
           top == FreshId(halves)
           p == n.parentId
           parent == InsertAsParent(nodes[p], middle, id, new)
<1>5. new \in Nat \ {0} /\ new \notin D
  BY <1>4, FreshIds
<1>6. id = rootNode <=> p = 0
  BY <1>1, <1>2, Links
<1>7. CASE p = 0
  <2>1. /\ nodes' = SplitResult(nodes, id, new, top, Node(0, <<middle>>, <<id, new>>), {id, new})
        /\ rootNode' = top /\ op' = Idle
    BY <1>7 DEF Split, SplitResult, LeftHalf, RightHalf
  <2>2. DOMAIN halves = D \cup {new} /\ IsFiniteSet(DOMAIN halves)
    <3>1. DOMAIN halves = D \cup {new}
      BY <1>2 DEF Adopt, Put
    <3> HIDE DEF halves
    <3> QED
      BY <1>4, <3>1, FS_AddElement
  <2> HIDE DEF halves
  <2>3. top \in Nat \ {0} /\ top \notin D /\ top # new
    BY <2>2, FreshIds
  <2> HIDE DEF top, new
  <2> DEFINE G == Grown(nodes, rootNode, top)
  <2>4. id = rootNode
    BY <1>6, <1>7
  <2>5. /\ MayBeSplit(G, top, rootNode, M + 1, 1, new)
        /\ SplitOf(G, N2, rootNode, M + 1, 1, new)
    <3> DEFINE R == rootNode
    <3>1. /\ SearchTree(nodes, R, h, lo, hi) /\ Len(nodes[R].entries) = 2 * M + 1
          /\ N2 = SplitResult(nodes, R, new, top, Node(0, <<nodes[R].entries[M + 1]>>, <<R, new>>), {R, new})
      BY <1>1, <1>2, <2>1, <2>4
    <3> HIDE DEF R, N2
    <3>2. /\ MayBeSplit(Grown(nodes, R, top), top, R, M + 1, 1, new)
          /\ SplitOf(Grown(nodes, R, top), N2, R, M + 1, 1, new)
      BY <1>5, <2>3, <3>1, SplitAtRoot
    <3> QED
      BY <3>2 DEF R
  <2>6. PICK h2, lo2, hi2 : SearchTree(G, top, h2, lo2, hi2)
    BY <1>1, <2>3, GrownTree
  <2>7. SomeSearchTree(N2, top)
    BY <2>5, <2>6, SplitTree DEF SomeSearchTree
  <2>8. /\ DOMAIN G = D \cup {top} /\ G[top] = Node(0, <<>>, <<rootNode>>)
        /\ G[rootNode] = Node(top, nodes[rootNode].entries, nodes[rootNode].childrenIds)
        /\ \A x \in D \ {rootNode} : G[x] = nodes[x]
    BY <1>4, <2>3 DEF Grown
  <2>9. /\ G[rootNode].entries = n.entries /\ G[rootNode].parentId = top
        /\ G[top].entries = <<>>
    BY <2>4, <2>8, NodeFields
  <2> HIDE DEF G
  <2>10. /\ DOMAIN N2 = DOMAIN G \cup {new}
         /\ Len(N2[rootNode].entries) = M /\ Len(N2[new].entries) = M
         /\ Len(N2[G[rootNode].parentId].entries) = Len(G[G[rootNode].parentId].entries) + 1
         /\ \A x \in DOMAIN G \ {rootNode, G[rootNode].parentId} :
              Len(N2[x].entries) = Len(G[x].entries) /\ (IsLeaf(N2[x]) <=> IsLeaf(G[x]))
    <3>1. Len(G[rootNode].entries) = 2 * M + 1
      BY <1>2, <2>9
    <3> DEFINE R == rootNode
    <3>2. /\ MayBeSplit(G, top, R, M + 1, 1, new) /\ SplitOf(G, N2, R, M + 1, 1, new)
          /\ Len(G[R].entries) = 2 * M + 1
      BY <2>5, <3>1
    <3> HIDE DEF N2, R
    <3>3. SplitLengths(G, N2, R, new)
      BY <2>6, <3>2, SplitSizes
    <3> QED
      BY <3>3 DEF SplitLengths, R
  <2>11. Len(N2[top].entries) = 1
    <3>1. Len(G[top].entries) = 0
      BY <2>9
    <3> QED
      BY <2>9, <2>10, <3>1
  <2>12. \A x \in D \ {rootNode} : Len(N2[x].entries) = Len(nodes[x].entries)
    BY <1>4, <2>3, <2>8, <2>9, <2>10
  <2>13. Sized(N2, top, Idle)
    <3> SUFFICES ASSUME NEW x \in DOMAIN N2
                 PROVE  /\ Len(N2[x].entries) <= 2 * M
                        /\ x = top => Len(N2[x].entries) >= 1
                        /\ x # top => Len(N2[x].entries) >= M
      BY DEF Sized
    <3>1. CASE x = top
      <4>1. Len(N2[x].entries) = 1
        BY <2>11, <3>1
      <4> QED
        BY <1>2, <3>1, <4>1
    <3>2. CASE x \in {rootNode, new}
      BY <1>2, <1>5, <2>3, <2>10, <3>2, <1>4
    <3>3. CASE x \in D \ {rootNode}
      BY <1>3, <2>3, <2>4, <2>12, <3>3
    <3> QED
      BY <2>8, <2>10, <3>1, <3>2, <3>3
  <2>14. Working(N2, top, Idle)
    BY DEF Working, Idle
  <2>15. SameEntries(nodes, N2)
    <3> DEFINE R == rootNode
    <3>1. SameEntries(nodes, G)
      BY <1>4, <2>3, GrownKeepsEntries DEF G
    <3>2. /\ MayBeSplit(G, top, R, M + 1, 1, new) /\ SplitOf(G, N2, R, M + 1, 1, new)
      BY <2>5
    <3> HIDE DEF N2, R
    <3>3. SameEntries(G, N2)
      BY <2>6, <3>2, SplitKeepsEntries
    <3> QED
      BY <3>1, <3>3, StillSame
  <2> QED
    BY <1>2, <2>1, <2>7, <2>13, <2>14, <2>15 DEF TreeInv
<1>8. CASE p # 0
  <2>1. /\ nodes' = SplitResult(nodes, id, new, p, parent, {new})
        /\ rootNode' = rootNode
        /\ op' = IF IsOverflow(parent) THEN [op EXCEPT !.node = p] ELSE Idle
    BY <1>8 DEF Split, SplitResult, LeftHalf, RightHalf
  <2>2. id # rootNode /\ p \in D
    BY <1>1, <1>2, <1>6, <1>8, Links
  <2> HIDE DEF new
  <2>3. PICK k : /\ MayBeSplit(nodes, rootNode, id, M + 1, k, new)
                 /\ SplitOf(nodes, N2, id, M + 1, k, new)
    BY <1>1, <1>2, <1>5, <2>1, <2>2, SplitBelow
  <2>4. SomeSearchTree(N2, rootNode)
    BY <1>1, <2>3, SplitTree DEF SomeSearchTree
  <2>5. /\ DOMAIN N2 = D \cup {new}
        /\ Len(N2[id].entries) = M /\ Len(N2[new].entries) = M
        /\ Len(N2[p].entries) = Len(nodes[p].entries) + 1
        /\ \A x \in D \ {id, p} :
             Len(N2[x].entries) = Len(nodes[x].entries) /\ (IsLeaf(N2[x]) <=> IsLeaf(nodes[x]))
    <3>1. SplitLengths(nodes, N2, id, new)
      <4> DEFINE x == op.node
      <4>1. /\ MayBeSplit(nodes, rootNode, x, M + 1, k, new) /\ SplitOf(nodes, N2, x, M + 1, k, new)
            /\ Len(nodes[x].entries) = 2 * M + 1
        BY <1>2, <2>3
      <4> HIDE DEF N2, x
      <4>2. SplitLengths(nodes, N2, x, new)
        BY <1>1, <4>1, SplitSizes
      <4> QED
        BY <4>2 DEF x
    <3> QED
      BY <3>1 DEF SplitLengths
  <2>6. N2[p] = parent
    BY <1>5, <2>1, <2>2 DEF SplitResult, Adopt, Put
  <2> DEFINE q == Len(nodes[p].entries) + 1
             goes == IF q > 2 * M THEN [op EXCEPT !.node = p] ELSE Idle
  <2>7. op' = goes
    BY <2>1, <2>5, <2>6 DEF IsOverflow
  <2>8. p # id
    BY <1>1, <2>2, IsChild, NodeFacts
  <2>9. q \in Nat /\ q <= 2 * M + 1 /\ (p # rootNode => q >= M) /\ q >= 1 /\ Len(N2[p].entries) = q
    BY <1>2, <1>3, <2>2, <2>5, <2>8
  <2>10. q > 2 * M => /\ goes = [name |-> "split", node |-> p, entry |-> NoEntry]
                      /\ q = 2 * M + 1
    <3>1. [op EXCEPT !.node = p] = [name |-> "split", node |-> p, entry |-> NoEntry]
      BY <1>2
    <3> QED
      BY SMTT(30), <1>2, <2>9, <3>1
  <2>11. ~ (q > 2 * M) => goes = Idle
    OBVIOUS
  <2>12. p \in DOMAIN N2
    BY <2>2, <2>5
  <2> HIDE DEF q, goes, N2
  <2>13. Working(N2, rootNode, goes)
    <3>1. CASE q > 2 * M
      BY <2>9, <2>10, <2>12, <3>1 DEF Working
    <3>2. CASE ~ (q > 2 * M)
      BY <2>11, <3>2 DEF Working, Idle
    <3> QED
      BY <3>1, <3>2
  <2>14. Sized(N2, rootNode, goes)
    <3> SUFFICES ASSUME NEW x \in DOMAIN N2
                 PROVE  /\ ~ (goes.name = "split" /\ goes.node = x) => Len(N2[x].entries) <= 2 * M
                        /\ x = rootNode => IsLeaf(N2[x]) \/ Len(N2[x].entries) >= 1
                        /\ x # rootNode => Len(N2[x].entries) >= M
      BY DEF Sized
    <3>1. CASE x = p
      <4>1. Len(N2[x].entries) = q
        BY <2>9, <3>1
      <4>2. q > 2 * M => goes.name = "split" /\ goes.node = x
        BY <2>10, <3>1
      <4> QED
        BY <1>2, <2>9, <3>1, <4>1, <4>2
    <3>2. CASE x \in {id, new}
      <4>1. Len(N2[x].entries) = M /\ x # rootNode
        BY <1>4, <1>5, <2>2, <2>5, <3>2
      <4> QED
        BY <1>2, <4>1
    <3>3. CASE x \in D \ {id, p}
      BY <1>3, <2>5, <3>3
    <3> QED
      BY <2>5, <3>1, <3>2, <3>3
  <2>15. nodes' = N2
    BY DEF N2
  <2>16. SameEntries(nodes, N2)
    <3> DEFINE x == op.node
    <3>1. /\ MayBeSplit(nodes, rootNode, x, M + 1, k, new)
          /\ SplitOf(nodes, N2, x, M + 1, k, new)
      BY <2>3
    <3> HIDE DEF x
    <3> QED
      BY <1>1, <3>1, SplitKeepsEntries
  <2> QED
    BY <1>2, <2>1, <2>4, <2>7, <2>13, <2>14, <2>15, <2>16 DEF TreeInv
<1> QED
  BY <1>7, <1>8

-----------------------------------------------------------------------------
(* Tree.Insert.                                                            *)

(* A leaf gets other entries, within its bounds.                           *)
LEMMA LeafEntries ==
  ASSUME NEW N, NEW R, NEW h, NEW lo, NEW hi, SearchTree(N, R, h, lo, hi),
         NEW id \in DOMAIN N, IsLeaf(N[id]), NEW f \in Seq(UniqueEntry), Ascending(f),
         \A i \in 1 .. Len(f) : lo[id] < f[i][1] /\ f[i][1] < hi[id],
         NEW N2, DOMAIN N2 = DOMAIN N, N2[id] = Node(N[id].parentId, f, N[id].childrenIds),
         \A x \in DOMAIN N \ {id} : N2[x] = N[x]
  PROVE  SearchTree(N2, R, h, lo, hi)
<1>1. \A x \in DOMAIN N : /\ N[x] = Node(N[x].parentId, N[x].entries, N[x].childrenIds)
                          /\ N[x].entries \in Seq(UniqueEntry)
                          /\ N[x].childrenIds \in Seq(DOMAIN N)
  BY DEF SearchTree, WellTyped
<1>2. N2[id].parentId = N[id].parentId /\ N2[id].entries = f /\ N2[id].childrenIds = N[id].childrenIds
  BY NodeFields
<1>3. Typed(N2)
  BY <1>1, <1>2 DEF Typed
<1>4. SameLinks(N, N2)
  BY <1>2, <1>3 DEF SameLinks
<1> QED
  BY <1>2, <1>4, LeafChanged

(* An entry put where its key belongs leaves the keys ascending.           *)
LEMMA InsertedAscends ==
  ASSUME NEW e \in Seq(UniqueEntry), Ascending(e), NEW at \in 1 .. Len(e) + 1, NEW entry \in UniqueEntry,
         \A i \in 1 .. Len(e) : IF i < at THEN e[i][1] < entry[1] ELSE entry[1] < e[i][1]
  PROVE  Ascending(InsertAt(e, at, entry))
<1> DEFINE f == InsertAt(e, at, entry)
           L == Len(e)
           key == entry[1]
<1>1. L \in Nat /\ at \in 1 .. L + 1 /\ at \in Nat
  OBVIOUS
<1>2. /\ f \in Seq(UniqueEntry) /\ Len(f) = L + 1
      /\ \A i \in 1 .. L + 1 : f[i] = IF i < at THEN e[i] ELSE IF i = at THEN entry ELSE e[i - 1]
  <2>1. f \in Seq(UniqueEntry)
    BY SeqInsertAt
  <2>2. Len(f) = L + 1
    BY SeqInsertAt
  <2>3. \A i \in 1 .. L + 1 : f[i] = IF i < at THEN e[i] ELSE IF i = at THEN entry ELSE e[i - 1]
    <3>1. e \in Seq(UniqueEntry) /\ at \in 1 .. Len(e) + 1 /\ entry \in UniqueEntry
      OBVIOUS
    <3>2. \A i \in 1 .. Len(e) + 1 :
            InsertAt(e, at, entry)[i] = IF i < at THEN e[i] ELSE IF i = at THEN entry ELSE e[i - 1]
      BY <3>1, SeqInsertAt
    <3> QED
      BY <3>2
  <2> QED
    BY <2>1, <2>2, <2>3
<1>3. \A i \in 1 .. L : e[i][1] \in Nat
  BY ParameterAssumption
<1>4. key \in Nat
  BY ParameterAssumption
<1>5. \A i, j \in 1 .. L : i < j => e[i][1] < e[j][1]
  BY DEF Ascending
<1>6. \A i \in 1 .. L : IF i < at THEN e[i][1] < key ELSE key < e[i][1]
  OBVIOUS
<1> HIDE DEF f, L, key
<1>7. ASSUME NEW i \in 1 .. L + 1, NEW j \in 1 .. L + 1, i < j
      PROVE  f[i][1] < f[j][1]
  <2>1. CASE j < at
    <3>1. i < at /\ i \in 1 .. L /\ j \in 1 .. L /\ f[i] = e[i] /\ f[j] = e[j]
      BY <1>1, <1>2, <1>7, <2>1
    <3> QED
      BY <1>5, <1>7, <3>1
  <2>2. CASE j = at
    <3>1. i < at /\ i \in 1 .. L /\ f[i] = e[i] /\ f[j] = entry
      BY <1>1, <1>2, <1>7, <2>2
    <3> QED
      BY <1>6, <3>1 DEF key
  <2>3. CASE j > at
    <3> DEFINE j1 == j - 1
    <3>1. j1 \in 1 .. L /\ f[j] = e[j1] /\ at <= j1
      BY <1>1, <1>2, <2>3
    <3>2. CASE i < at
      <4>1. i \in 1 .. L /\ i < j1 /\ f[i] = e[i]
        BY <1>1, <1>2, <3>1, <3>2
      <4> HIDE DEF j1
      <4> QED
        BY <1>5, <3>1, <4>1
    <3>3. CASE i = at
      <4>1. f[i] = entry /\ ~ (j1 < at)
        BY <1>1, <1>2, <3>1, <3>3
      <4> HIDE DEF j1
      <4> QED
        BY <1>6, <3>1, <4>1 DEF key
    <3>4. CASE i > at
      <4> DEFINE i1 == i - 1
      <4>1. i1 \in 1 .. L /\ f[i] = e[i1] /\ i1 < j1
        BY <1>1, <1>2, <1>7, <3>4
      <4> HIDE DEF i1, j1
      <4> QED
        BY <1>5, <3>1, <4>1
    <3> QED
      BY <1>1, <3>2, <3>3, <3>4
  <2> QED
    BY <1>1, <2>1, <2>2, <2>3
<1>8. \A i, j \in 1 .. Len(f) : i < j => f[i][1] < f[j][1]
  BY <1>2, <1>7
<1> QED
  BY <1>8 DEF Ascending, f

(* Bounds above any key.                                                   *)
LEMMA RoomFor ==
  ASSUME NEW N, NEW R, SomeSearchTree(N, R), NEW key \in Nat
  PROVE  \E h, lo, hi : SearchTree(N, R, h, lo, hi) /\ key < hi[R]
<1>1. PICK h, lo, hi : SearchTree(N, R, h, lo, hi)
  BY DEF SomeSearchTree
<1> DEFINE top == IF hi[R] <= key THEN key + 1 ELSE hi[R]
<1>2. hi[R] \in Int
  BY <1>1 DEF SearchTree, WellTyped
<1>3. top \in Int /\ hi[R] <= top /\ key < top
  BY <1>2
<1> HIDE DEF top
<1>4. PICK hi2 : SearchTree(N, R, h, lo, hi2) /\ hi2[R] = top
  BY <1>1, <1>3, RaisedTree
<1> QED
  BY <1>3, <1>4

(* Insert keeps the invariant, the overfull leaf that is left to Split     *)
(* included.                                                               *)
LEMMA InsertStep ==
  ASSUME TreeInv, NEW entry \in Entry, Insert(entry)
  PROVE  /\ TreeInv' /\ OneMore(nodes, nodes', entry)
         /\ NoKey(nodes, entry[1])
<1> DEFINE M == MinEntriesPerNode
           key == entry[1]
           r == FindNodeForInsertion(key)
           id == r.node
           e == nodes[id].entries
           f == InsertAt(e, r.at, entry)
           n == [nodes[id] EXCEPT !.entries = f]
           D == DOMAIN nodes
           goes == IF IsOverflow(n) THEN [Idle EXCEPT !.name = "split", !.node = id] ELSE Idle
<1>1. /\ ~ allowDuplicateKeys /\ entry \in UniqueEntry /\ key \in Nat /\ M \in Nat \ {0}
  BY ParameterAssumption DEF TreeInv, Entry
<1>2. PICK h, lo, hi : SearchTree(nodes, rootNode, h, lo, hi) /\ key < hi[rootNode]
  <2>1. SomeSearchTree(nodes, rootNode)
    BY DEF TreeInv
  <2> HIDE DEF key
  <2> QED
    BY <1>1, <2>1, RoomFor
<1>3. Arrives(nodes, lo, hi, key, r)
  <2> HIDE DEF key
  <2> QED
    BY <1>1, <1>2, InsertionArrives
<1>4. /\ op.name = "idle" /\ (r.found => allowDuplicateKeys)
      /\ nodes' = [nodes EXCEPT ![id] = n] /\ op' = goes
      /\ allowDuplicateKeys' = allowDuplicateKeys /\ rootNode' = rootNode
  BY DEF Insert
<1> HIDE DEF r
<1>5. /\ id \in D /\ lo[id] < key /\ key < hi[id] /\ IsLeaf(nodes[id])
      /\ r.at \in 1 .. Len(e) + 1
      /\ \A i \in 1 .. Len(e) : IF i < r.at THEN e[i][1] < key ELSE key < e[i][1]
  BY <1>1, <1>3, <1>4 DEF Arrives, Searched
<1>6. /\ nodes[id] = Node(nodes[id].parentId, e, nodes[id].childrenIds) /\ e \in Seq(UniqueEntry)
      /\ rootNode \in D
  BY <1>2, <1>5 DEF SearchTree, WellTyped
<1>7. Ascending(e) /\ \A i \in 1 .. Len(e) : lo[id] < e[i][1] /\ e[i][1] < hi[id]
  BY <1>2, <1>5, NodeFacts, Bounds
<1>8. /\ f \in Seq(UniqueEntry) /\ Len(f) = Len(e) + 1
      /\ \A i \in 1 .. Len(e) + 1 : f[i] = IF i < r.at THEN e[i] ELSE IF i = r.at THEN entry ELSE e[i - 1]
  <2> HIDE DEF e
  <2> DEFINE at == r.at
  <2>0. at \in 1 .. Len(e) + 1
    BY <1>5
  <2> HIDE DEF at
  <2>1. InsertAt(e, at, entry) \in Seq(UniqueEntry)
    BY <1>1, <1>6, <2>0, SeqInsertAt
  <2>2. Len(InsertAt(e, at, entry)) = Len(e) + 1
    BY <1>1, <1>6, <2>0, SeqInsertAt
  <2>3. \A i \in 1 .. Len(e) + 1 :
          InsertAt(e, at, entry)[i] = IF i < at THEN e[i] ELSE IF i = at THEN entry ELSE e[i - 1]
    BY <1>1, <1>6, <2>0, SeqInsertAt
  <2> QED
    BY <2>1, <2>2, <2>3 DEF at
<1>9. Ascending(f)
  <2> DEFINE at == r.at
  <2>0. /\ at \in 1 .. Len(e) + 1
        /\ \A i \in 1 .. Len(e) : IF i < at THEN e[i][1] < entry[1] ELSE entry[1] < e[i][1]
    BY <1>5
  <2> HIDE DEF at, e
  <2>1. Ascending(InsertAt(e, at, entry))
    BY <1>1, <1>6, <1>7, <2>0, InsertedAscends
  <2> QED
    BY <2>1 DEF at
<1>10. \A i \in 1 .. Len(f) : lo[id] < f[i][1] /\ f[i][1] < hi[id]
  <2> TAKE i \in 1 .. Len(f)
  <2>1. i \in 1 .. Len(e) + 1 /\ Len(e) \in Nat /\ r.at \in Nat
    BY <1>5, <1>6, <1>8
  <2>2. f[i] = IF i < r.at THEN e[i] ELSE IF i = r.at THEN entry ELSE e[i - 1]
    BY <1>8, <2>1
  <2> HIDE DEF e, f
  <2>3. CASE i < r.at
    <3>1. i \in 1 .. Len(e)
      BY <1>5, <2>1, <2>3
    <3> QED
      BY <1>7, <2>2, <2>3, <3>1
  <2>4. CASE i = r.at
    BY <1>5, <2>1, <2>2, <2>4
  <2>5. CASE i > r.at
    <3> DEFINE j == i - 1
    <3>1. j \in 1 .. Len(e) /\ f[i] = e[j]
      BY <1>5, <2>1, <2>2, <2>5
    <3> HIDE DEF j
    <3> QED
      BY <1>7, <3>1
  <2> QED
    BY <2>1, <2>3, <2>4, <2>5
<1>11. n = Node(nodes[id].parentId, f, nodes[id].childrenIds)
  <2> DEFINE a == nodes[id].parentId
             c == nodes[id].childrenIds
  <2>1. nodes[id] = Node(a, e, c)
    BY <1>6
  <2> HIDE DEF a, c, e, f
  <2>2. n = Node(a, f, c)
    BY <2>1 DEF Node
  <2> QED
    BY <2>2 DEF a, c
<1> HIDE DEF n
<1>12. /\ DOMAIN nodes' = D /\ nodes'[id] = n
       /\ \A x \in D \ {id} : nodes'[x] = nodes[x]
  BY <1>4, <1>5
<1>13. SearchTree(nodes', rootNode, h, lo, hi)
  <2> DEFINE N2 == nodes'
             i == r.node
             g == f
  <2>1. /\ DOMAIN N2 = D /\ N2[i] = Node(nodes[i].parentId, g, nodes[i].childrenIds)
        /\ \A x \in D \ {i} : N2[x] = nodes[x]
        /\ i \in D /\ IsLeaf(nodes[i]) /\ g \in Seq(UniqueEntry) /\ Ascending(g)
        /\ \A j \in 1 .. Len(g) : lo[i] < g[j][1] /\ g[j][1] < hi[i]
    BY <1>5, <1>8, <1>9, <1>10, <1>11, <1>12
  <2>2. SearchTree(nodes, rootNode, h, lo, hi)
    BY <1>2
  <2> HIDE DEF N2, i, g
  <2>3. SearchTree(N2, rootNode, h, lo, hi)
    BY <2>1, <2>2, LeafEntries
  <2> QED
    BY <2>3 DEF N2
<1>14. /\ n.entries = f /\ n.childrenIds = nodes[id].childrenIds /\ IsLeaf(n)
  BY <1>5, <1>11, NodeFields DEF IsLeaf
<1>15. \A x \in D : /\ Len(nodes[x].entries) \in Nat /\ Len(nodes[x].entries) <= 2 * M
                    /\ x = rootNode => IsLeaf(nodes[x]) \/ Len(nodes[x].entries) >= 1
                    /\ x # rootNode => Len(nodes[x].entries) >= M
  <2>1. \A x \in D : Len(nodes[x].entries) \in Nat
    BY <1>2, NodeFacts
  <2> QED
    BY <1>4, <2>1 DEF TreeInv, Sized
<1> DEFINE N2 == nodes'
           q == Len(e) + 1
<1>16. q \in Nat /\ q <= 2 * M + 1 /\ (id # rootNode => q >= M) /\ Len(N2[id].entries) = q
  BY <1>1, <1>5, <1>8, <1>12, <1>14, <1>15
<1>17. goes = IF q > 2 * M THEN [name |-> "split", node |-> id, entry |-> NoEntry] ELSE Idle
  <2>1. IsOverflow(n) <=> q > 2 * M
    BY <1>8, <1>14 DEF IsOverflow
  <2>2. PICK m : m = [Idle EXCEPT !.name = "split", !.node = id]
    OBVIOUS
  <2>3. m = [name |-> "split", node |-> id, entry |-> NoEntry]
    BY <2>2 DEF Idle
  <2>4. goes = IF q > 2 * M THEN m ELSE Idle
    BY <2>1, <2>2
  <2> QED
    BY <2>3, <2>4
<1>18. id \in DOMAIN N2 /\ IsLeaf(N2[id]) /\ DOMAIN N2 = D /\ \A x \in D \ {id} : N2[x] = nodes[x]
  BY <1>5, <1>12, <1>14
<1> HIDE DEF q, goes, N2
<1>19. Working(N2, rootNode, goes)
  <2>1. CASE q > 2 * M
    BY <1>1, <1>16, <1>17, <1>18, <2>1 DEF Working
  <2>2. CASE ~ (q > 2 * M)
    BY <1>17, <2>2 DEF Working, Idle
  <2> QED
    BY <2>1, <2>2
<1>20. Sized(N2, rootNode, goes)
  <2> SUFFICES ASSUME NEW x \in D
               PROVE  /\ ~ (goes.name = "split" /\ goes.node = x) => Len(N2[x].entries) <= 2 * M
                      /\ x = rootNode => IsLeaf(N2[x]) \/ Len(N2[x].entries) >= 1
                      /\ x # rootNode => Len(N2[x].entries) >= M
    BY <1>18 DEF Sized
  <2>1. CASE x = id
    <3>1. q > 2 * M => goes.name = "split" /\ goes.node = x
      BY <1>17, <2>1
    <3> QED
      BY <1>1, <1>16, <1>18, <2>1, <3>1
  <2>2. CASE x # id
    BY <1>15, <1>18, <2>2
  <2> QED
    BY <2>1, <2>2
<1>21. nodes' = N2
  BY DEF N2
<1>22. SomeSearchTree(N2, rootNode)
  BY <1>13, <1>21 DEF SomeSearchTree
<1>23. OneMore(nodes, N2, entry)
  <2> DEFINE z == id
             at == r.at
             g == f
  <2>1. z \in D /\ SameElsewhere(nodes, N2, z) /\ N2[z].entries = g
    BY <1>5, <1>12, <1>14, <1>18, <1>21 DEF SameElsewhere
  <2>2. /\ Len(nodes[z].entries) \in Nat /\ at \in 1 .. Len(nodes[z].entries) + 1
        /\ Len(g) = Len(nodes[z].entries) + 1
        /\ \A i \in 1 .. Len(nodes[z].entries) + 1 :
             g[i] = IF i < at THEN nodes[z].entries[i] ELSE IF i = at THEN entry
                    ELSE nodes[z].entries[i - 1]
    BY <1>5, <1>6, <1>8
  <2> HIDE DEF z, at, g
  <2>3. /\ Len(N2[z].entries) = Len(nodes[z].entries) + 1
        /\ \A i \in 1 .. Len(nodes[z].entries) + 1 :
             N2[z].entries[i] = IF i < at THEN nodes[z].entries[i] ELSE IF i = at THEN entry
                                ELSE nodes[z].entries[i - 1]
    BY <2>1, <2>2
  <2> QED
    BY <2>1, <2>2, <2>3, InsertedIsMore
<1>24. NoKey(nodes, key)
  <2> HIDE DEF key
  <2> QED
    BY <1>1, <1>2, <1>3, <1>4, NotFoundIsNowhere
<1> QED
  BY <1>1, <1>4, <1>19, <1>20, <1>21, <1>22, <1>23, <1>24 DEF TreeInv

-----------------------------------------------------------------------------
(* Tree.Delete.                                                            *)

(* Without one of its entries a sequence still ascends.                    *)
LEMMA RemovedAscends ==
  ASSUME NEW e \in Seq(UniqueEntry), Ascending(e), NEW at \in 1 .. Len(e)
  PROVE  /\ Ascending(RemoveAt(e, at))
         /\ \A i \in 1 .. Len(e) - 1 : \E j \in 1 .. Len(e) : RemoveAt(e, at)[i] = e[j]
<1> DEFINE f == RemoveAt(e, at)
           L == Len(e)
<1>1. L \in Nat /\ at \in 1 .. L /\ at \in Nat
  OBVIOUS
<1>2. /\ f \in Seq(UniqueEntry) /\ Len(f) = L - 1
      /\ \A i \in 1 .. L - 1 : f[i] = IF i < at THEN e[i] ELSE e[i + 1]
  <2>1. f \in Seq(UniqueEntry)
    BY SeqRemoveAt
  <2>2. Len(f) = L - 1
    BY SeqRemoveAt
  <2>3. \A i \in 1 .. L - 1 : f[i] = IF i < at THEN e[i] ELSE e[i + 1]
    <3> TAKE i \in 1 .. L - 1
    <3> QED
      BY SeqRemoveAt
  <2> QED
    BY <2>1, <2>2, <2>3
<1>5. \A i, j \in 1 .. L : i < j => e[i][1] < e[j][1]
  BY DEF Ascending
<1> HIDE DEF f, L
<1>6. \A i \in 1 .. L - 1 : \E j \in 1 .. L : f[i] = e[j] /\ j = IF i < at THEN i ELSE i + 1
  <2> TAKE i \in 1 .. L - 1
  <2>1. i \in 1 .. L /\ i + 1 \in 1 .. L
    BY <1>1
  <2> QED
    BY <1>2, <2>1
<1>7. \A i, j \in 1 .. Len(f) : i < j => f[i][1] < f[j][1]
  <2> SUFFICES ASSUME NEW i \in 1 .. L - 1, NEW j \in 1 .. L - 1, i < j
               PROVE  f[i][1] < f[j][1]
    BY <1>2
  <2>1. PICK i1 \in 1 .. L : f[i] = e[i1] /\ i1 = IF i < at THEN i ELSE i + 1
    BY <1>6
  <2>2. PICK j1 \in 1 .. L : f[j] = e[j1] /\ j1 = IF j < at THEN j ELSE j + 1
    BY <1>6
  <2>3. i1 < j1
    BY <1>1, <2>1, <2>2
  <2> QED
    BY <1>5, <2>1, <2>2, <2>3
<1>8. Ascending(f)
  BY <1>7 DEF Ascending
<1> QED
  BY <1>6, <1>8 DEF f, L

(* A leaf has lost an entry: the operation ends, or the leaf is rebalanced. *)
Lost(N, N2, z) ==
  /\ DOMAIN N2 = DOMAIN N /\ z \in DOMAIN N /\ IsLeaf(N[z])
  /\ Len(N[z].entries) # 0 /\ Len(N2[z].entries) = Len(N[z].entries) - 1
  /\ \A x \in DOMAIN N : IsLeaf(N2[x]) <=> IsLeaf(N[x])
  /\ \A x \in DOMAIN N \ {z} : Len(N2[x].entries) = Len(N[x].entries)

(* The leaf that lost an entry is the only one that may now have too few,  *)
(* and then Rebalance is under way at it.                                  *)
LEMMA AfterRemoval ==
  ASSUME NEW N, NEW R, SomeSearchTree(N, R), Sized(N, R, Idle), NEW N2, NEW z, Lost(N, N2, z),
         NEW o, o = IF Len(N2[z].entries) >= MinEntriesPerNode \/ N[z].parentId = 0 THEN Idle
                    ELSE [name |-> "rebalance", node |-> z, entry |-> NoEntry]
  PROVE  Working(N2, R, o) /\ Sized(N2, R, o)
<1> DEFINE M == MinEntriesPerNode
           q == Len(N2[z].entries)
<1>1. PICK h, lo, hi : SearchTree(N, R, h, lo, hi)
  BY DEF SomeSearchTree
<1>2. M \in Nat \ {0}
  BY ParameterAssumption
<1>3. \A x \in DOMAIN N : /\ Len(N[x].entries) \in Nat
                          /\ Len(N[x].entries) <= 2 * M
                          /\ x = R => IsLeaf(N[x]) \/ Len(N[x].entries) >= 1
                          /\ x # R => Len(N[x].entries) >= M
  <2>1. \A x \in DOMAIN N : Len(N[x].entries) \in Nat
    BY <1>1, NodeFacts
  <2>2. Idle.name = "idle"
    BY DEF Idle
  <2> QED
    BY <2>1, <2>2 DEF Sized
<1>4. z \in DOMAIN N /\ (z = R <=> N[z].parentId = 0) /\ IsLeaf(N[z])
  BY <1>1, Links DEF Lost
<1>5. q \in Nat /\ q <= 2 * M /\ (z # R => q >= M - 1)
  BY <1>2, <1>3, <1>4 DEF Lost
<1>6. o = IF q >= M \/ z = R THEN Idle
          ELSE [name |-> "rebalance", node |-> z, entry |-> NoEntry]
  BY <1>4
<1> HIDE DEF q
<1>7. Working(N2, R, o)
  <2>1. CASE q >= M \/ z = R
    BY <1>6, <2>1 DEF Working, Idle
  <2>2. CASE ~ (q >= M \/ z = R)
    <3>1. q = M - 1 /\ z \in DOMAIN N2 \ {R}
      BY <1>2, <1>4, <1>5, <2>2 DEF Lost
    <3>2. Len(N2[z].entries) = M - 1
      BY <3>1 DEF q
    <3> QED
      BY <1>6, <2>2, <3>1, <3>2 DEF Working
  <2> QED
    BY <2>1, <2>2
<1>8. Sized(N2, R, o)
  <2> SUFFICES ASSUME NEW x \in DOMAIN N
               PROVE  /\ Len(N2[x].entries) <= 2 * M
                      /\ x = R => IsLeaf(N2[x]) \/ Len(N2[x].entries) >= 1
                      /\ x # R /\ ~ (o.name = "rebalance" /\ o.node = x) => Len(N2[x].entries) >= M
    BY DEF Sized, Lost
  <2>1. CASE x = z
    <3>1. IsLeaf(N2[x]) /\ Len(N2[x].entries) = q
      BY <1>4, <2>1 DEF Lost, q
    <3>2. x # R /\ ~ (q >= M) => o.name = "rebalance" /\ o.node = x
      BY <1>6, <2>1
    <3> QED
      BY <1>5, <3>1, <3>2
  <2>2. CASE x # z
    BY <1>3, <2>2 DEF Lost
  <2> QED
    BY <2>1, <2>2
<1> QED
  BY <1>7, <1>8

(* TreeNode.Remove in a leaf.                                              *)
Removed(N, z, at) == [N EXCEPT ![z].entries = RemoveAt(N[z].entries, at)]

(* A leaf without one of its entries.                                      *)
LEMMA RemovedFromLeaf ==
  ASSUME NEW N, NEW R, NEW h, NEW lo, NEW hi, SearchTree(N, R, h, lo, hi),
         NEW z \in DOMAIN N, IsLeaf(N[z]), NEW at \in 1 .. Len(N[z].entries),
         NEW N2, N2 = Removed(N, z, at)
  PROVE  /\ SearchTree(N2, R, h, lo, hi) /\ Lost(N, N2, z)
         /\ OneLess(N, N2, N[z].entries[at])
<1>0. N2 = [N EXCEPT ![z].entries = RemoveAt(N[z].entries, at)]
  BY DEF Removed
<1> DEFINE e == N[z].entries
           f == RemoveAt(e, at)
           a == N[z].parentId
           c == N[z].childrenIds
<1>1. N[z] = Node(a, e, c) /\ e \in Seq(UniqueEntry) /\ at \in 1 .. Len(e)
  BY DEF SearchTree, WellTyped
<1>2. Ascending(e) /\ \A i \in 1 .. Len(e) : lo[z] < e[i][1] /\ e[i][1] < hi[z]
  BY NodeFacts, Bounds
<1>3. /\ DOMAIN N2 = DOMAIN N /\ N2[z] = [N[z] EXCEPT !.entries = f]
      /\ \A x \in DOMAIN N \ {z} : N2[x] = N[x]
  BY <1>0
<1> HIDE DEF a, e, c
<1>4. /\ f \in Seq(UniqueEntry) /\ Len(f) = Len(e) - 1 /\ Ascending(f)
      /\ \A i \in 1 .. Len(e) - 1 : \E j \in 1 .. Len(e) : f[i] = e[j]
  <2>1. f \in Seq(UniqueEntry)
    BY <1>1, SeqRemoveAt
  <2>2. Len(f) = Len(e) - 1
    BY <1>1, SeqRemoveAt
  <2>3. Ascending(f) /\ \A i \in 1 .. Len(e) - 1 : \E j \in 1 .. Len(e) : f[i] = e[j]
    BY <1>1, <1>2, RemovedAscends
  <2> QED
    BY <2>1, <2>2, <2>3
<1> HIDE DEF f
<1>5. N2[z] = Node(a, f, c)
  BY <1>1, <1>3 DEF Node
<1>6. \A i \in 1 .. Len(f) : lo[z] < f[i][1] /\ f[i][1] < hi[z]
  BY <1>2, <1>4
<1>7. N2[z] = Node(N[z].parentId, f, N[z].childrenIds)
  BY <1>5 DEF a, c
<1>8. SearchTree(N2, R, h, lo, hi)
  <2>1. DOMAIN N2 = DOMAIN N /\ \A x \in DOMAIN N \ {z} : N2[x] = N[x]
    BY <1>3
  <2>2. f \in Seq(UniqueEntry) /\ Ascending(f)
    BY <1>4
  <2> QED
    BY <1>6, <1>7, <2>1, <2>2, LeafEntries
<1>9. N2[z].entries = f /\ N2[z].childrenIds = N[z].childrenIds
  BY <1>7, NodeFields
<1>10. Len(N[z].entries) # 0 /\ Len(N2[z].entries) = Len(N[z].entries) - 1
  BY <1>1, <1>4, <1>9 DEF e
<1>11. /\ \A x \in DOMAIN N : IsLeaf(N2[x]) <=> IsLeaf(N[x])
       /\ \A x \in DOMAIN N \ {z} : Len(N2[x].entries) = Len(N[x].entries)
  BY <1>3, <1>9 DEF IsLeaf
<1>12. OneLess(N, N2, N[z].entries[at])
  <2>1. SameElsewhere(N, N2, z)
    BY <1>3 DEF SameElsewhere
  <2>2. \A i \in 1 .. Len(e) - 1 : f[i] = IF i < at THEN e[i] ELSE e[i + 1]
    BY <1>1, SeqRemoveAt DEF f
  <2>3. \A i \in 1 .. Len(N[z].entries) - 1 :
          N2[z].entries[i] = IF i < at THEN N[z].entries[i] ELSE N[z].entries[i + 1]
    BY <1>9, <2>2 DEF e
  <2> QED
    BY <1>10, <2>1, <2>3, RemovedIsLess
<1> QED
  BY <1>3, <1>8, <1>10, <1>11, <1>12 DEF Lost

(* A node with other entries.                                              *)
LEMMA OtherEntries ==
  ASSUME NEW a, NEW b, NEW e, NEW n, n = Node(a, e, b), NEW f, NEW m, m = [n EXCEPT !.entries = f]
  PROVE  m = Node(a, f, b) /\ m.parentId = a /\ m.entries = f /\ m.childrenIds = b
<1>1. m = Node(a, f, b)
  BY DEF Node
<1> QED
  BY <1>1, NodeFields

(* TreeNode.Remove in an inner node.                                       *)
LEMMA RemovedFromInner ==
  ASSUME NEW N, NEW R, NEW h, NEW lo, NEW hi, SearchTree(N, R, h, lo, hi),
         NEW c, NEW i, NEW z, MayReplace(N, lo, hi, c, i, z),
         NEW N2, N2 = [[N EXCEPT ![c].entries[i] = Last(N[z].entries)]
                         EXCEPT ![z].entries = Front(N[z].entries)]
  PROVE  SomeSearchTree(N2, R) /\ Lost(N, N2, z) /\ OneLess(N, N2, N[c].entries[i])
<1> DEFINE e == N[c].entries
           ze == N[z].entries
           last == Last(ze)
           f == [e EXCEPT ![i] = last]
           g == Front(ze)
           D == DOMAIN N
<1>1. /\ c \in D /\ ~ IsLeaf(N[c]) /\ i \in 1 .. Len(e)
      /\ z \in D /\ IsLeaf(N[z]) /\ Len(ze) # 0
  BY DEF MayReplace
<1>2. c # z
  BY <1>1
<1>3. \A x \in D : /\ N[x] = Node(N[x].parentId, N[x].entries, N[x].childrenIds)
                   /\ N[x].entries \in Seq(UniqueEntry)
                   /\ N[x].childrenIds \in Seq(D)
  BY DEF SearchTree, WellTyped
<1>4. /\ DOMAIN N2 = D /\ N2[c] = [N[c] EXCEPT !.entries = f] /\ N2[z] = [N[z] EXCEPT !.entries = g]
      /\ \A x \in D \ {c, z} : N2[x] = N[x]
  BY <1>1, <1>2
<1>5. e \in Seq(UniqueEntry) /\ ze \in Seq(UniqueEntry)
  BY <1>1, <1>3
<1> HIDE DEF e, ze
<1>6. /\ g \in Seq(UniqueEntry) /\ Len(g) = Len(ze) - 1 /\ \A j \in 1 .. Len(ze) - 1 : g[j] = ze[j]
      /\ last = ze[Len(ze)] /\ last \in UniqueEntry
  BY <1>1, <1>5, SeqFront
<1> HIDE DEF last, g
<1>7. /\ f \in Seq(UniqueEntry) /\ Len(f) = Len(e)
      /\ \A j \in 1 .. Len(e) : f[j] = IF j = i THEN last ELSE e[j]
  <2>1. f \in Seq(UniqueEntry)
    BY <1>1, <1>5, <1>6, SeqReplaceAt
  <2>2. Len(f) = Len(e)
    BY <1>1, <1>5, <1>6, SeqReplaceAt
  <2>3. \A j \in 1 .. Len(e) : f[j] = IF j = i THEN last ELSE e[j]
    BY <1>1, <1>5, <1>6, SeqReplaceAt
  <2> QED
    BY <2>1, <2>2, <2>3
<1> HIDE DEF f
<1>8. /\ N2[c].parentId = N[c].parentId /\ N2[c].childrenIds = N[c].childrenIds /\ N2[c].entries = f
      /\ N2[c] = Node(N2[c].parentId, N2[c].entries, N2[c].childrenIds)
  <2> DEFINE a == N[c].parentId
             b == N[c].childrenIds
  <2>1. N[c] = Node(a, e, b)
    BY <1>1, <1>3 DEF e
  <2> DEFINE n == N[c]
             m == N2[c]
  <2>5. n = Node(a, e, b) /\ m = [n EXCEPT !.entries = f]
    BY <1>4, <2>1
  <2> HIDE DEF a, b, n, m
  <2>7. m = Node(a, f, b)
    BY <2>5 DEF Node
  <2>6. m = Node(a, f, b) /\ m.parentId = a /\ m.entries = f /\ m.childrenIds = b
    BY <2>7, NodeFields
  <2>2. N2[c] = Node(a, f, b)
    BY <2>6 DEF m
  <2>3. N2[c].parentId = a /\ N2[c].entries = f /\ N2[c].childrenIds = b
    BY <2>6 DEF m
  <2>4. N2[c] = Node(N2[c].parentId, N2[c].entries, N2[c].childrenIds)
    BY <2>2, <2>3
  <2> QED
    BY <2>3, <2>4 DEF a, b
<1>9. /\ N2[z].parentId = N[z].parentId /\ N2[z].childrenIds = N[z].childrenIds /\ N2[z].entries = g
      /\ N2[z] = Node(N2[z].parentId, N2[z].entries, N2[z].childrenIds)
  <2> DEFINE a == N[z].parentId
             b == N[z].childrenIds
  <2>1. N[z] = Node(a, ze, b)
    BY <1>1, <1>3 DEF ze
  <2> DEFINE n == N[z]
             m == N2[z]
  <2>5. n = Node(a, ze, b) /\ m = [n EXCEPT !.entries = g]
    BY <1>4, <2>1
  <2> HIDE DEF a, b, n, m
  <2>7. m = Node(a, g, b)
    BY <2>5 DEF Node
  <2>6. m = Node(a, g, b) /\ m.parentId = a /\ m.entries = g /\ m.childrenIds = b
    BY <2>7, NodeFields
  <2>2. N2[z] = Node(a, g, b)
    BY <2>6 DEF m
  <2>3. N2[z].parentId = a /\ N2[z].entries = g /\ N2[z].childrenIds = b
    BY <2>6 DEF m
  <2>4. N2[z] = Node(N2[z].parentId, N2[z].entries, N2[z].childrenIds)
    BY <2>2, <2>3
  <2> QED
    BY <2>3, <2>4 DEF a, b
<1>10. \A x \in D : /\ N2[x].parentId = N[x].parentId
                    /\ N2[x].childrenIds = N[x].childrenIds
                    /\ x # z => Len(N2[x].entries) = Len(N[x].entries)
  <2> TAKE x \in D
  <2>1. CASE x = c
    BY <1>2, <1>7, <1>8, <2>1 DEF e
  <2>2. CASE x = z
    BY <1>9, <2>2
  <2>3. CASE x \notin {c, z}
    BY <1>4, <2>3
  <2> QED
    BY <2>1, <2>2, <2>3
<1>11. Typed(N2)
  <2> SUFFICES ASSUME NEW x \in D
               PROVE  /\ N2[x] = Node(N2[x].parentId, N2[x].entries, N2[x].childrenIds)
                      /\ N2[x].entries \in Seq(UniqueEntry)
                      /\ N2[x].childrenIds \in Seq(D)
    BY <1>4 DEF Typed
  <2>1. CASE x = c
    BY <1>3, <1>7, <1>8, <2>1
  <2>2. CASE x = z
    BY <1>3, <1>6, <1>9, <2>2
  <2>3. CASE x \notin {c, z}
    BY <1>3, <1>4, <2>3
  <2> QED
    BY <2>1, <2>2, <2>3
<1>12. SameLinks(N, N2)
  BY <1>1, <1>4, <1>10, <1>11 DEF SameLinks
<1>13. ReplacedOf(N, N2, c, i, z)
  <2>1. \A x \in D \ {c, z} : N2[x].entries = N[x].entries
    BY <1>4
  <2>2. /\ Len(N2[c].entries) = Len(N[c].entries)
        /\ \A j \in 1 .. Len(N[c].entries) :
             N2[c].entries[j] = IF j = i THEN N[z].entries[Len(N[z].entries)] ELSE N[c].entries[j]
    BY <1>6, <1>7, <1>8 DEF e, ze
  <2>3. /\ Len(N2[z].entries) = Len(N[z].entries) - 1
        /\ \A j \in 1 .. Len(N[z].entries) - 1 : N2[z].entries[j] = N[z].entries[j]
    BY <1>6, <1>9 DEF ze
  <2> QED
    BY <1>12, <2>1, <2>2, <2>3 DEF ReplacedOf
<1>14. SomeSearchTree(N2, R)
  BY <1>13, ReplacedTree DEF SomeSearchTree
<1>15. Lost(N, N2, z)
  <2>1. \A x \in D : IsLeaf(N2[x]) <=> IsLeaf(N[x])
    BY <1>10 DEF IsLeaf
  <2>2. Len(N[z].entries) # 0 /\ Len(N2[z].entries) = Len(N[z].entries) - 1
    BY <1>1, <1>6, <1>9 DEF ze
  <2> QED
    BY <1>1, <1>4, <1>10, <2>1, <2>2 DEF Lost
<1>16. OneLess(N, N2, N[c].entries[i])
  BY <1>13, ReplacedIsLess
<1> QED
  BY <1>14, <1>15, <1>16

(* The largest entry on the left of an entry of an inner node.             *)
LEMMA LargestMayReplace ==
  ASSUME NEW h, NEW lo, NEW hi, SearchTree(nodes, rootNode, h, lo, hi), Sized(nodes, rootNode, Idle),
         NEW c \in DOMAIN nodes, ~ IsLeaf(nodes[c]), NEW i \in 1 .. Len(nodes[c].entries)
  PROVE  MayReplace(nodes, lo, hi, c, i, FindLargest(nodes[c].childrenIds[i]))
<1> DEFINE D == DOMAIN nodes
           child == nodes[c].childrenIds[i]
           z == FindLargest(child)
           Good == {x \in D : hi[x] = hi[child] /\ lo[child] <= lo[x]}
<1>1. Len(nodes[c].entries) \in Nat
  BY NodeFacts
<1>2. /\ child \in D /\ h[c] = h[child] + 1 /\ hi[child] = nodes[c].entries[i][1]
      /\ h[child] \in Nat /\ h[c] \in Nat
  <2>1. i \in 1 .. Len(nodes[c].entries) + 1 /\ i # Len(nodes[c].entries) + 1
    BY <1>1
  <2>2. child \in D /\ h[c] = h[child] + 1 /\ hi[child] = nodes[c].entries[i][1]
    BY <2>1, SearchedChild
  <2> QED
    BY <2>2, NodeFacts
<1>3. ASSUME NEW x \in Good, ~ IsLeaf(nodes[x])
      PROVE  Last(nodes[x].childrenIds) \in Good
  <2> DEFINE L == Len(nodes[x].entries)
             ids == nodes[x].childrenIds
             y == ids[L + 1]
  <2>1. L \in Nat /\ Len(ids) = L + 1
    BY <1>3, NodeFacts
  <2>2. Last(ids) = y
    BY <2>1 DEF Last
  <2>3. L + 1 \in 1 .. L + 1
    BY <2>1
  <2>4. y \in D /\ hi[y] = hi[x]
    BY <1>3, <2>3, SearchedChild
  <2>5. lo[x] <= lo[y]
    BY <1>3, <2>3, Within
  <2>6. lo[x] \in Int /\ lo[y] \in Int /\ lo[child] \in Int /\ lo[child] <= lo[x]
    BY <1>2, <2>4, Bounds
  <2>7. lo[child] <= lo[y]
    BY <2>5, <2>6
  <2> QED
    BY <2>2, <2>4, <2>7
<1>4. child \in Good
  <2>1. lo[child] \in Int
    BY <1>2, Bounds
  <2> QED
    BY <1>2, <2>1
<1>5. z \in Good /\ IsLeaf(nodes[z])
  <2> DEFINE q == child
  <2>1. q \in Good
    BY <1>4
  <2> HIDE DEF Good, q
  <2>2. Good \in SUBSET D
    BY DEF Good
  <2>3. FindLargest(q) \in Good /\ IsLeaf(nodes[FindLargest(q)])
    BY <1>3, <2>1, <2>2, LargestIsLeaf
  <2> QED
    BY <2>3 DEF q
<1>6. z # rootNode
  <2>1. h[z] = 0 /\ h[c] <= h[rootNode]
    BY <1>5 DEF SearchTree, Ranked
  <2> QED
    BY <1>2, <2>1
<1>7. \A x \in D : Len(nodes[x].entries) \in Nat
  BY NodeFacts
<1>8. MinEntriesPerNode \in Nat \ {0} /\ Idle.name = "idle"
  BY ParameterAssumption DEF Idle
<1>9. \A x \in D : /\ x = rootNode => IsLeaf(nodes[x]) \/ Len(nodes[x].entries) >= 1
                   /\ x # rootNode => Len(nodes[x].entries) >= MinEntriesPerNode
  BY <1>8 DEF Sized
<1>10. z \in D /\ Len(nodes[z].entries) # 0
  BY <1>5, <1>6, <1>7, <1>8, <1>9
<1>11. \A x \in D : IsLeaf(nodes[x]) \/ Len(nodes[x].entries) # 0
  BY <1>7, <1>8, <1>9
<1>12. hi[z] = nodes[c].entries[i][1] /\ lo[child] <= lo[z]
  BY <1>2, <1>5
<1> QED
  BY <1>5, <1>10, <1>11, <1>12 DEF MayReplace

(* Where Tree.Delete(key) finds an entry.                                  *)
LEMMA DeleteFinds ==
  ASSUME NEW h, NEW lo, NEW hi, SearchTree(nodes, rootNode, h, lo, hi), Sized(nodes, rootNode, Idle),
         NEW key \in Nat, MoveForward(LargerThanOrEqualTo(key)) # End
  PROVE  ValidCursor(nodes, MoveForward(LargerThanOrEqualTo(key)))
<1> DEFINE r == FindNodeForIteration(key, TRUE)
           c == [node |-> r.node, entry |-> r.at - 1]
<1>1. LeafPlace(nodes, r)
  BY IterationStarts
<1>2. LargerThanOrEqualTo(key) = c
  BY DEF LargerThanOrEqualTo, StartAt
<1> HIDE DEF r
<1>3. Idle.name = "idle" /\ MinEntriesPerNode \in Nat
  BY ParameterAssumption DEF Idle
<1>4. \A id \in DOMAIN nodes : Len(nodes[id].entries) <= 2 * MinEntriesPerNode + 1
  <2>1. \A id \in DOMAIN nodes : Len(nodes[id].entries) \in Nat
    BY NodeFacts
  <2> QED
    BY <1>3, <2>1 DEF Sized
<1>5. /\ c.node \in DOMAIN nodes /\ IsLeaf(nodes[c.node])
      /\ c.entry \in 0 .. Len(nodes[c.node].entries)
      /\ c = [node |-> c.node, entry |-> c.entry]
  <2>1. r.node \in DOMAIN nodes /\ IsLeaf(nodes[r.node]) /\ r.at \in 1 .. Len(nodes[r.node].entries) + 1
    BY <1>1 DEF LeafPlace
  <2>2. Len(nodes[r.node].entries) \in Nat
    BY <2>1, NodeFacts
  <2> QED
    BY <2>1, <2>2
<1> HIDE DEF c
<1>6. MoveForward(c) = End \/ ValidCursor(nodes, MoveForward(c))
  BY <1>4, <1>5, MoveForwardArrives
<1> QED
  BY <1>2, <1>6

(* DeleteKey, from a leaf or from an inner node, keeps the invariant and   *)
(* takes one entry out.                                                    *)
LEMMA DeleteStep ==
  ASSUME TreeInv, NEW key \in Key, DeleteKey(key)
  PROVE  TreeInv' /\ \E e : OneLess(nodes, nodes', e)
<1> DEFINE M == MinEntriesPerNode
           c == MoveForward(LargerThanOrEqualTo(key))
           n == nodes[c.node]
           leafId == IF IsLeaf(n) THEN c.node ELSE FindLargest(n.childrenIds[c.entry])
           leaf == nodes[leafId]
           rest == IF IsLeaf(n) THEN RemoveAt(leaf.entries, c.entry) ELSE Front(leaf.entries)
           replaced == IF IsLeaf(n) THEN nodes
                       ELSE [nodes EXCEPT ![c.node].entries[c.entry] = Last(leaf.entries)]
           goes == IF Len(rest) >= M \/ leaf.parentId = 0 THEN Idle
                   ELSE [name |-> "rebalance", node |-> leafId, entry |-> NoEntry]
<1>1. /\ ~ allowDuplicateKeys /\ key \in Nat /\ op.name = "idle" /\ c # End
      /\ RemoveEntry(c)
  <2>1. PICK e \in Entry : key = e[1]
    BY DEF Key
  <2>2. key \in Nat
    BY <2>1, ParameterAssumption DEF Entry
  <2> QED
    BY <2>2 DEF TreeInv, DeleteKey
<1>2. op = Idle
  BY <1>1 DEF TreeInv, Working, Idle
<1>3. Sized(nodes, rootNode, Idle) /\ SomeSearchTree(nodes, rootNode)
  BY <1>2 DEF TreeInv
<1>4. PICK h, lo, hi : SearchTree(nodes, rootNode, h, lo, hi)
  BY <1>3 DEF SomeSearchTree
<1>5. ValidCursor(nodes, c)
  BY <1>1, <1>3, <1>4, DeleteFinds
<1> HIDE DEF c
<1>6. c.node \in DOMAIN nodes /\ c.entry \in 1 .. Len(n.entries)
  BY <1>5 DEF ValidCursor
<1>7. /\ nodes' = [replaced EXCEPT ![leafId].entries = rest]
      /\ allowDuplicateKeys' = allowDuplicateKeys /\ rootNode' = rootNode
      /\ op' = IF Len(rest) >= M \/ leaf.parentId = 0 THEN Resume
               ELSE [op EXCEPT !.name = "rebalance", !.node = leafId]
  BY <1>1 DEF RemoveEntry
<1>8. op' = goes
  <2>1. Resume = Idle
    BY <1>2 DEF Resume, Idle
  <2>2. PICK m : m = [op EXCEPT !.name = "rebalance", !.node = leafId]
    OBVIOUS
  <2>3. m = [name |-> "rebalance", node |-> leafId, entry |-> NoEntry]
    <3> HIDE DEF leafId
    <3> QED
      BY <1>2, <2>2 DEF Idle
  <2> HIDE DEF leafId, rest, leaf
  <2>4. op' = IF Len(rest) >= M \/ leaf.parentId = 0 THEN Idle ELSE m
    BY <1>7, <2>1, <2>2
  <2> QED
    BY <2>3, <2>4
<1>9. /\ SomeSearchTree(nodes', rootNode) /\ Lost(nodes, nodes', leafId)
      /\ \E e : OneLess(nodes, nodes', e)
  <2>1. CASE IsLeaf(n)
    <3> DEFINE z == c.node
               at == c.entry
    <3>1. leafId = z /\ nodes' = Removed(nodes, z, at)
      BY <1>7, <2>1 DEF Removed
    <3>2. z \in DOMAIN nodes /\ IsLeaf(nodes[z]) /\ at \in 1 .. Len(nodes[z].entries)
      BY <1>6, <2>1
    <3> HIDE DEF z, at
    <3>3. /\ SearchTree(nodes', rootNode, h, lo, hi) /\ Lost(nodes, nodes', z)
          /\ OneLess(nodes, nodes', nodes[z].entries[at])
      BY <1>4, <3>1, <3>2, RemovedFromLeaf
    <3> QED
      BY <3>1, <3>3 DEF SomeSearchTree
  <2>2. CASE ~ IsLeaf(n)
    <3> DEFINE x == c.node
               i == c.entry
               z == FindLargest(nodes[x].childrenIds[i])
    <3>1. leafId = z
      BY <2>2
    <3>2. nodes' = [[nodes EXCEPT ![x].entries[i] = Last(nodes[z].entries)]
                       EXCEPT ![z].entries = Front(nodes[z].entries)]
      BY <1>7, <2>2
    <3>3. x \in DOMAIN nodes /\ ~ IsLeaf(nodes[x]) /\ i \in 1 .. Len(nodes[x].entries)
      BY <1>6, <2>2
    <3> HIDE DEF x, i
    <3>4. MayReplace(nodes, lo, hi, x, i, z)
      BY <1>3, <1>4, <3>3, LargestMayReplace
    <3> HIDE DEF z
    <3>5. /\ SomeSearchTree(nodes', rootNode) /\ Lost(nodes, nodes', z)
          /\ OneLess(nodes, nodes', nodes[x].entries[i])
      BY <1>4, <3>2, <3>4, RemovedFromInner
    <3> QED
      BY <3>1, <3>5
  <2> QED
    BY <2>1, <2>2
<1>10. Len(rest) = Len(nodes'[leafId].entries)
  <2>1. leafId \in DOMAIN nodes /\ IsLeaf(nodes[leafId])
    BY <1>9 DEF Lost
  <2>2. leafId \in DOMAIN replaced /\ nodes'[leafId] = [replaced[leafId] EXCEPT !.entries = rest]
    <3>1. DOMAIN replaced = DOMAIN nodes
      OBVIOUS
    <3> HIDE DEF replaced, leafId, rest
    <3> QED
      BY <1>7, <2>1, <3>1
  <2>3. replaced[leafId] = nodes[leafId]
    <3>1. leafId = c.node \/ (leafId # c.node /\ ~ IsLeaf(n))
      BY <2>1
    <3>2. IsLeaf(n) => replaced = nodes
      OBVIOUS
    <3>3. ~ IsLeaf(n) => \A x \in DOMAIN nodes \ {c.node} : replaced[x] = nodes[x]
      OBVIOUS
    <3> HIDE DEF replaced, leafId
    <3> QED
      BY <2>1, <3>1, <3>2, <3>3
  <2>4. nodes[leafId] = Node(nodes[leafId].parentId, nodes[leafId].entries, nodes[leafId].childrenIds)
    <3> HIDE DEF leafId
    <3> QED
      BY <1>4, <2>1 DEF SearchTree, WellTyped
  <2> DEFINE m == nodes'[leafId]
             a == nodes[leafId].parentId
             b == nodes[leafId].childrenIds
             x == nodes[leafId]
             e == nodes[leafId].entries
  <2>5. m = [x EXCEPT !.entries = rest]
    BY <2>2, <2>3
  <2>6. x = Node(a, e, b)
    BY <2>4
  <2> HIDE DEF m, a, b, e, x, rest
  <2>7. m.entries = rest
    BY <2>5, <2>6, OtherEntries
  <2> QED
    BY <2>7 DEF m
<1> HIDE DEF leafId, rest, leaf, goes
<1>11. Working(nodes', rootNode, goes) /\ Sized(nodes', rootNode, goes)
  <2> DEFINE N2 == nodes'
  <2>1. goes = IF Len(N2[leafId].entries) >= M \/ nodes[leafId].parentId = 0 THEN Idle
               ELSE [name |-> "rebalance", node |-> leafId, entry |-> NoEntry]
    BY <1>10 DEF goes, leaf
  <2>2. Lost(nodes, N2, leafId)
    BY <1>9
  <2> HIDE DEF N2
  <2>3. Working(N2, rootNode, goes) /\ Sized(N2, rootNode, goes)
    BY <1>3, <2>1, <2>2, AfterRemoval
  <2> QED
    BY <2>3 DEF N2
<1> QED
  BY <1>1, <1>7, <1>8, <1>9, <1>11 DEF TreeInv

-----------------------------------------------------------------------------
(* TreeNode.Rebalance.                                                     *)

(* The first element of a sequence as a sequence.                          *)
LEMMA SeqOne ==
  ASSUME NEW S, NEW s \in Seq(S), Len(s) # 0
  PROVE  SubSeq(s, 1, 1) \in Seq(S) /\ Len(SubSeq(s, 1, 1)) = 1 /\ SubSeq(s, 1, 1)[1] = s[1]
<1>1. 1 \in 1 .. Len(s) + 1 /\ 1 \in 1 - 1 .. Len(s)
  OBVIOUS
<1>2. SubSeq(s, 1, 1) \in Seq(S)
  BY <1>1
<1>3. Len(SubSeq(s, 1, 1)) = 1
  BY <1>1
<1>4. SubSeq(s, 1, 1)[1] = s[1]
  BY <1>1
<1> QED
  BY <1>2, <1>3, <1>4

(* Three nodes have changed, and some have got the first one as parent.    *)
Rotated(N, N2, a, p, b, ea, ca, ep, eb, cb, moved) ==
  /\ DOMAIN N2 = DOMAIN N
  /\ \A x \in DOMAIN N :
       N2[x] = Node(IF x \in moved THEN a ELSE N[x].parentId,
                    IF x = a THEN ea ELSE IF x = p THEN ep ELSE IF x = b THEN eb ELSE N[x].entries,
                    IF x = a THEN ca ELSE IF x = b THEN cb ELSE N[x].childrenIds)

(* Nodes the fields of which are known.                                    *)
LEMMA RotatedNodes ==
  ASSUME NEW N, NEW a \in DOMAIN N, NEW p \in DOMAIN N, NEW b \in DOMAIN N, a # p, b # p, a # b,
         \A x \in DOMAIN N : N[x] = Node(N[x].parentId, N[x].entries, N[x].childrenIds),
         NEW ea, NEW ca, NEW ep, NEW eb, NEW cb, NEW moved, NEW G,
         DOMAIN G = DOMAIN N, \A x \in DOMAIN N \ {a, p, b} : G[x] = N[x],
         G[a] = Node(N[a].parentId, ea, ca), G[b] = Node(N[b].parentId, eb, cb),
         G[p] = Node(N[p].parentId, ep, N[p].childrenIds)
  PROVE  Rotated(N, Adopt(G, moved, a), a, p, b, ea, ca, ep, eb, cb, moved)
<1> DEFINE N2 == Adopt(G, moved, a)
           en(x) == IF x = a THEN ea ELSE IF x = p THEN ep ELSE IF x = b THEN eb ELSE N[x].entries
           ch(x) == IF x = a THEN ca ELSE IF x = b THEN cb ELSE N[x].childrenIds
<1>1. /\ DOMAIN N2 = DOMAIN N
      /\ \A x \in DOMAIN N : N2[x] = IF x \in moved THEN [G[x] EXCEPT !.parentId = a] ELSE G[x]
  BY DEF Adopt
<1>2. \A x \in DOMAIN N : G[x] = Node(N[x].parentId, en(x), ch(x))
  OBVIOUS
<1>3. \A x \in DOMAIN N : N2[x] = Node(IF x \in moved THEN a ELSE N[x].parentId, en(x), ch(x))
  <2> TAKE x \in DOMAIN N
  <2> DEFINE e == en(x)
             c == ch(x)
             q == N[x].parentId
  <2>1. N2[x] = (IF x \in moved THEN [G[x] EXCEPT !.parentId = a] ELSE G[x]) /\ G[x] = Node(q, e, c)
    BY <1>1, <1>2
  <2> HIDE DEF N2, en, ch, q, e, c
  <2>3. N2[x] = (IF x \in moved THEN [Node(q, e, c) EXCEPT !.parentId = a] ELSE Node(q, e, c))
    BY <2>1
  <2>2. N2[x] = Node(IF x \in moved THEN a ELSE q, e, c)
    <3>1. CASE x \in moved
      BY <2>3, <3>1, NodeFields
    <3>2. CASE x \notin moved
      BY <2>3, <3>2
    <3> QED
      BY <3>1, <3>2
  <2> QED
    BY <2>2 DEF q, e, c
<1> QED
  BY <1>1, <1>3 DEF Rotated

(* The fields of those nodes.                                              *)
Turned(N, N2, a, p, b, ea, ca, ep, eb, cb, moved) ==
  /\ DOMAIN N2 = DOMAIN N /\ Typed(N2)
  /\ \A x \in DOMAIN N : N2[x].parentId = IF x \in moved THEN a ELSE N[x].parentId
  /\ N2[a].entries = ea /\ N2[a].childrenIds = ca
  /\ N2[b].entries = eb /\ N2[b].childrenIds = cb
  /\ N2[p].entries = ep
  /\ \A x \in DOMAIN N \ {a, b, p} : N2[x].entries = N[x].entries
  /\ \A x \in DOMAIN N \ {a, b} : N2[x].childrenIds = N[x].childrenIds

(* A node whose fields are sequences has them.                             *)
LEMMA RotatedFields ==
  ASSUME NEW N, NEW N2, NEW a, NEW p, NEW b, NEW ea, NEW ca, NEW ep, NEW eb, NEW cb, NEW moved,
         Rotated(N, N2, a, p, b, ea, ca, ep, eb, cb, moved),
         a \in DOMAIN N, p \in DOMAIN N, b \in DOMAIN N, a # p, b # p, a # b,
         \A x \in DOMAIN N : N[x].entries \in Seq(UniqueEntry) /\ N[x].childrenIds \in Seq(DOMAIN N),
         ea \in Seq(UniqueEntry), ep \in Seq(UniqueEntry), eb \in Seq(UniqueEntry),
         ca \in Seq(DOMAIN N), cb \in Seq(DOMAIN N)
  PROVE  Turned(N, N2, a, p, b, ea, ca, ep, eb, cb, moved)
<1> DEFINE en(x) == IF x = a THEN ea ELSE IF x = p THEN ep ELSE IF x = b THEN eb ELSE N[x].entries
           ch(x) == IF x = a THEN ca ELSE IF x = b THEN cb ELSE N[x].childrenIds
           pa(x) == IF x \in moved THEN a ELSE N[x].parentId
<1>1. DOMAIN N2 = DOMAIN N /\ \A x \in DOMAIN N : N2[x] = Node(pa(x), en(x), ch(x))
  BY DEF Rotated
<1>2. \A x \in DOMAIN N : en(x) \in Seq(UniqueEntry) /\ ch(x) \in Seq(DOMAIN N)
  OBVIOUS
<1>3. \A x \in DOMAIN N : N2[x].parentId = pa(x) /\ N2[x].entries = en(x) /\ N2[x].childrenIds = ch(x)
  <2> HIDE DEF pa, en, ch
  <2> QED
    BY <1>1, NodeFields
<1>4. Typed(N2)
  <2> HIDE DEF pa, en, ch
  <2> QED
    BY <1>1, <1>2, <1>3 DEF Typed
<1> QED
  BY <1>1, <1>3, <1>4 DEF Turned

(* TreeNode.Rebalance with an entry of the right sibling.                  *)
ShiftedLeft(N, p, k, l, r, moved) ==
  [N EXCEPT ![l].entries = Append(@, N[p].entries[k]),
            ![l].childrenIds = @ \o moved,
            ![p].entries[k] = Head(N[r].entries),
            ![r].entries = Tail(@),
            ![r].childrenIds = SubSeq(@, 2, Len(@))]

(* Its result is a rotation.                                               *)
LEMMA LeftRotation ==
  ASSUME NEW N, NEW R, NEW h, NEW lo, NEW hi, SearchTree(N, R, h, lo, hi),
         NEW p, NEW k, NEW l, NEW r, MayBeMerged(N, p, k, l, r), Len(N[r].entries) # 0,
         NEW N2, NEW moved, moved = Part(N[r].childrenIds, 1, 1),
         N2 = Adopt(ShiftedLeft(N, p, k, l, r, moved), Range(moved), l)
  PROVE  LeftRotationOf(N, N2, p, k, l, r)
<1> DEFINE G == ShiftedLeft(N, p, k, l, r, moved)
           D == DOMAIN N
           le == N[l].entries
           re == N[r].entries
           pe == N[p].entries
           lc == N[l].childrenIds
           rc == N[r].childrenIds
           pc == N[p].childrenIds
           el == Append(le, pe[k])
           cl == lc \o moved
           ep == [pe EXCEPT ![k] = Head(re)]
           er == Tail(re)
           cr == SubSeq(rc, 2, Len(rc))
<1>1. /\ p \in D /\ l \in D /\ r \in D /\ l # r /\ l # p /\ r # p
      /\ (IsLeaf(N[l]) <=> IsLeaf(N[r])) /\ k \in 1 .. Len(pe)
  <2>1. k \in 1 .. Len(pe)
    BY DEF MayBeMerged
  <2>2. /\ p \in D /\ l \in D /\ r \in D /\ l # r /\ l # p /\ r # p
        /\ (IsLeaf(N[l]) <=> IsLeaf(N[r]))
    BY Siblings
  <2> QED
    BY <2>1, <2>2
<1>2. \A x \in D : /\ N[x] = Node(N[x].parentId, N[x].entries, N[x].childrenIds)
                   /\ N[x].entries \in Seq(UniqueEntry) /\ N[x].childrenIds \in Seq(D)
  BY DEF SearchTree, WellTyped
<1>3. DOMAIN G = D /\ \A x \in D \ {l, p, r} : G[x] = N[x]
  BY <1>1 DEF ShiftedLeft
<1>4. G[p] = [N[p] EXCEPT !.entries[k] = Head(N[r].entries)]
  BY <1>1 DEF ShiftedLeft
<1>5. G[l] = [N[l] EXCEPT !.entries = Append(@, N[p].entries[k]), !.childrenIds = @ \o moved]
  BY <1>1 DEF ShiftedLeft
<1>6. G[r] = [N[r] EXCEPT !.entries = Tail(@), !.childrenIds = SubSeq(@, 2, Len(@))]
  BY <1>1 DEF ShiftedLeft
<1>7. N2 = Adopt(G, Range(moved), l)
  OBVIOUS
<1> HIDE DEF G
<1>8. G[p] = Node(N[p].parentId, ep, N[p].childrenIds)
  <2> DEFINE n == N[p]
             m == G[p]
             a == N[p].parentId
  <2>1. n = Node(a, pe, pc) /\ m = [n EXCEPT !.entries[k] = Head(re)]
    BY <1>1, <1>2, <1>4
  <2> HIDE DEF n, m, a, pe, pc, re
  <2>2. m = Node(a, ep, pc)
    BY <2>1 DEF Node
  <2> QED
    BY <2>2 DEF m, a, pc
<1>9. G[l] = Node(N[l].parentId, el, cl)
  <2> DEFINE n == N[l]
             m == G[l]
             a == N[l].parentId
  <2>1. n = Node(a, le, lc) /\ m = [n EXCEPT !.entries = Append(@, pe[k]), !.childrenIds = @ \o moved]
    BY <1>1, <1>2, <1>5
  <2> HIDE DEF n, m, a, le, lc, pe
  <2>2. m = Node(a, el, cl)
    BY <2>1 DEF Node
  <2> QED
    BY <2>2 DEF m, a
<1>10. G[r] = Node(N[r].parentId, er, cr)
  <2> DEFINE n == N[r]
             m == G[r]
             a == N[r].parentId
  <2>1. n = Node(a, re, rc) /\ m = [n EXCEPT !.entries = Tail(@), !.childrenIds = SubSeq(@, 2, Len(@))]
    BY <1>1, <1>2, <1>6
  <2> HIDE DEF n, m, a, re, rc
  <2>2. m = Node(a, er, cr)
    BY <2>1 DEF Node
  <2> QED
    BY <2>2 DEF m, a
<1>11. /\ le \in Seq(UniqueEntry) /\ re \in Seq(UniqueEntry) /\ pe \in Seq(UniqueEntry)
       /\ lc \in Seq(D) /\ rc \in Seq(D) /\ Len(re) # 0
  BY <1>1, <1>2
<1>12. (Len(lc) = 0 <=> Len(rc) = 0)
  BY <1>1, NodeFacts
<1> DEFINE Out == Rotated(N, N2, l, p, r, el, cl, ep, er, cr, Range(moved))
<1>13. Out
  <2> HIDE DEF el, cl, ep, er, cr
  <2> QED
    BY <1>1, <1>2, <1>3, <1>7, <1>8, <1>9, <1>10, RotatedNodes
<1> HIDE DEF le, re, pe, lc, rc, D
<1>14. /\ el \in Seq(UniqueEntry) /\ Len(el) = Len(le) + 1 /\ el[Len(le) + 1] = pe[k]
       /\ \A i \in 1 .. Len(le) : el[i] = le[i]
  <2> DEFINE y == pe[k]
  <2>1. y \in UniqueEntry
    BY <1>1, <1>11
  <2> HIDE DEF y
  <2>2. /\ Append(le, y) \in Seq(UniqueEntry) /\ Len(Append(le, y)) = Len(le) + 1
        /\ Append(le, y)[Len(le) + 1] = y /\ \A i \in 1 .. Len(le) : Append(le, y)[i] = le[i]
    BY <1>11, <2>1
  <2> QED
    BY <2>2 DEF y
<1>15. /\ er \in Seq(UniqueEntry) /\ Len(er) = Len(re) - 1
       /\ \A i \in 1 .. Len(re) - 1 : er[i] = re[i + 1]
  BY <1>11
<1>16. /\ ep \in Seq(UniqueEntry) /\ Len(ep) = Len(pe)
       /\ \A i \in 1 .. Len(pe) : ep[i] = IF i = k THEN re[1] ELSE pe[i]
  <2> DEFINE y == Head(re)
  <2>1. y \in UniqueEntry /\ y = re[1]
    BY <1>11
  <2> HIDE DEF y
  <2>2. /\ [pe EXCEPT ![k] = y] \in Seq(UniqueEntry) /\ Len([pe EXCEPT ![k] = y]) = Len(pe)
        /\ \A i \in 1 .. Len(pe) : [pe EXCEPT ![k] = y][i] = IF i = k THEN y ELSE pe[i]
    BY <1>1, <1>11, <2>1, SeqReplaceAt
  <2> QED
    BY <2>1, <2>2 DEF y
<1>17. /\ moved \in Seq(D) /\ Len(moved) = (IF Len(rc) = 0 THEN 0 ELSE 1)
       /\ Len(rc) # 0 => moved[1] = rc[1]
       /\ Range(moved) = {x \in D : Len(rc) # 0 /\ x = rc[1]}
  <2>1. Min({1, Len(rc)}) = IF Len(rc) = 0 THEN 0 ELSE 1
    <3>1. Len(rc) \in Nat
      BY <1>11
    <3> HIDE DEF rc
    <3>2. {1, Len(rc)} \in SUBSET Nat /\ {1, Len(rc)} # {}
      BY <3>1
    <3>3. Min({1, Len(rc)}) \in {1, Len(rc)} /\ \A y \in {1, Len(rc)} : Min({1, Len(rc)}) <= y
      BY <3>2, MinOfNumbers
    <3> QED
      BY <3>1, <3>3
  <2>2. moved = SubSeq(rc, 1, IF Len(rc) = 0 THEN 0 ELSE 1)
    BY <2>1 DEF Part, rc
  <2>3. CASE Len(rc) = 0
    <3>1. moved = <<>>
      BY <1>11, <2>2, <2>3
    <3>2. moved \in Seq(D) /\ Len(moved) = 0 /\ DOMAIN moved = {}
      <4>1. <<>> \in Seq(D) /\ Len(<<>>) = 0 /\ DOMAIN <<>> = {}
        OBVIOUS
      <4> QED
        BY <3>1, <4>1
    <3>3. Range(moved) = {}
      BY <3>2 DEF Range
    <3> QED
      BY <2>3, <3>2, <3>3
  <2>4. CASE Len(rc) # 0
    <3>3. Len(rc) \in Nat /\ 1 \in 1 .. Len(rc)
      BY <1>11, <2>4
    <3>4. moved = SubSeq(rc, 1, 1)
      BY <2>2, <2>4
    <3>5. moved \in Seq(D) /\ Len(moved) = 1 /\ moved[1] = rc[1]
      <4>1. SubSeq(rc, 1, 1) \in Seq(D) /\ Len(SubSeq(rc, 1, 1)) = 1 /\ SubSeq(rc, 1, 1)[1] = rc[1]
        BY <1>11, <2>4, SeqOne
      <4> QED
        BY <3>4, <4>1
    <3>1. moved \in Seq(D) /\ Len(moved) = 1 /\ moved[1] = rc[1] /\ rc[1] \in D /\ DOMAIN moved = 1 .. 1
      BY <1>11, <3>3, <3>5
    <3>2. Range(moved) = {rc[1]}
      BY <3>1 DEF Range
    <3> QED
      BY <2>4, <3>1, <3>2
  <2> QED
    BY <2>3, <2>4
<1>18. /\ cl \in Seq(D) /\ Len(cl) = (IF Len(rc) = 0 THEN 0 ELSE Len(lc) + 1)
       /\ \A i \in 1 .. Len(lc) : cl[i] = lc[i]
       /\ Len(rc) # 0 => cl[Len(lc) + 1] = rc[1]
  <2>1. Len(lc) \in Nat
    BY <1>11
  <2>2. /\ lc \o moved \in Seq(D) /\ Len(lc \o moved) = Len(lc) + Len(moved)
        /\ \A i \in 1 .. Len(lc) : (lc \o moved)[i] = lc[i]
        /\ \A i \in 1 .. Len(moved) : (lc \o moved)[Len(lc) + i] = moved[i]
    BY <1>11, <1>17, SeqConcat
  <2> QED
    BY <1>12, <1>17, <2>1, <2>2
<1>19. /\ cr \in Seq(D) /\ Len(cr) = (IF Len(rc) = 0 THEN 0 ELSE Len(rc) - 1)
       /\ \A i \in 1 .. Len(rc) - 1 : cr[i] = rc[i + 1]
  BY <1>11
<1> HIDE DEF el, ep, er, cl, cr
<1>20. /\ DOMAIN N2 = D /\ Typed(N2)
       /\ \A x \in D : N2[x].parentId = IF x \in Range(moved) THEN l ELSE N[x].parentId
       /\ N2[l].entries = el /\ N2[l].childrenIds = cl
       /\ N2[r].entries = er /\ N2[r].childrenIds = cr
       /\ N2[p].entries = ep
       /\ \A x \in D \ {l, r, p} : N2[x].entries = N[x].entries
       /\ \A x \in D \ {l, r} : N2[x].childrenIds = N[x].childrenIds
  <2>1. Turned(N, N2, l, p, r, el, cl, ep, er, cr, Range(moved))
    BY <1>1, <1>2, <1>13, <1>14, <1>15, <1>16, <1>18, <1>19, RotatedFields DEF D
  <2> QED
    BY <2>1 DEF Turned, D
<1>21. \A x \in D : N2[x].parentId = IF Len(rc) # 0 /\ x = rc[1] THEN l ELSE N[x].parentId
  BY <1>17, <1>20
<1> QED
  BY <1>14, <1>15, <1>16, <1>18, <1>19, <1>20, <1>21 DEF LeftRotationOf, le, re, pe, lc, rc, D

(* TreeNode.Rebalance with an entry of the left sibling.                   *)
ShiftedRight(N, p, k, l, r, moved) ==
  [N EXCEPT ![r].entries = <<N[p].entries[k]>> \o @,
            ![r].childrenIds = moved \o @,
            ![p].entries[k] = Last(N[l].entries),
            ![l].entries = Front(@),
            ![l].childrenIds = SubSeq(@, 1, Len(@) - 1)]

(* An element before a sequence.                                           *)
LEMMA SeqBefore ==
  ASSUME NEW S, NEW s \in Seq(S), NEW e \in S
  PROVE  /\ <<e>> \o s \in Seq(S) /\ Len(<<e>> \o s) = Len(s) + 1 /\ (<<e>> \o s)[1] = e
         /\ \A i \in 1 .. Len(s) : (<<e>> \o s)[i + 1] = s[i]
<1>1. <<e>> \in Seq(S) /\ Len(<<e>>) = 1 /\ Len(s) \in Nat /\ <<e>>[1] = e
  OBVIOUS
<1> DEFINE a == <<e>>
<1>2. a \in Seq(S) /\ Len(a) = 1 /\ Len(s) \in Nat /\ a[1] = e
  BY <1>1
<1> HIDE DEF a
<1>3. /\ a \o s \in Seq(S) /\ Len(a \o s) = Len(a) + Len(s)
      /\ \A i \in 1 .. Len(a) : (a \o s)[i] = a[i]
      /\ \A i \in 1 .. Len(s) : (a \o s)[Len(a) + i] = s[i]
  <2>1. a \o s \in Seq(S) /\ Len(a \o s) = Len(a) + Len(s)
    BY <1>2, SeqConcat
  <2>2. \A i \in 1 .. Len(a) : (a \o s)[i] = a[i]
    BY <1>2, SeqConcat
  <2>3. \A i \in 1 .. Len(s) : (a \o s)[Len(a) + i] = s[i]
    <3>1. a \in Seq(S)
      BY <1>2
    <3> QED
      BY <3>1, SeqConcat
  <2> QED
    BY <2>1, <2>2, <2>3
<1>4. Len(a \o s) = Len(s) + 1
  BY <1>2, <1>3
<1>5. (a \o s)[1] = e
  BY <1>2, <1>3
<1>6. \A i \in 1 .. Len(s) : (a \o s)[i + 1] = s[i]
  BY <1>2, <1>3
<1> QED
  BY <1>3, <1>4, <1>5, <1>6 DEF a

(* Its result is a rotation.                                               *)
LEMMA RightRotation ==
  ASSUME NEW N, NEW R, NEW h, NEW lo, NEW hi, SearchTree(N, R, h, lo, hi),
         NEW p, NEW k, NEW l, NEW r, MayBeMerged(N, p, k, l, r), Len(N[l].entries) # 0,
         NEW N2, NEW moved, moved = IF IsLeaf(N[l]) THEN <<>> ELSE <<Last(N[l].childrenIds)>>,
         N2 = Adopt(ShiftedRight(N, p, k, l, r, moved), Range(moved), r)
  PROVE  RightRotationOf(N, N2, p, k, l, r)
<1> DEFINE G == ShiftedRight(N, p, k, l, r, moved)
           D == DOMAIN N
           le == N[l].entries
           re == N[r].entries
           pe == N[p].entries
           lc == N[l].childrenIds
           rc == N[r].childrenIds
           pc == N[p].childrenIds
           er == <<pe[k]>> \o re
           cr == moved \o rc
           ep == [pe EXCEPT ![k] = Last(le)]
           el == Front(le)
           cl == SubSeq(lc, 1, Len(lc) - 1)
<1>1. /\ p \in D /\ l \in D /\ r \in D /\ l # r /\ l # p /\ r # p
      /\ (IsLeaf(N[l]) <=> IsLeaf(N[r])) /\ k \in 1 .. Len(pe)
  <2>1. k \in 1 .. Len(pe)
    BY DEF MayBeMerged
  <2>2. /\ p \in D /\ l \in D /\ r \in D /\ l # r /\ l # p /\ r # p
        /\ (IsLeaf(N[l]) <=> IsLeaf(N[r]))
    BY Siblings
  <2> QED
    BY <2>1, <2>2
<1>2. \A x \in D : /\ N[x] = Node(N[x].parentId, N[x].entries, N[x].childrenIds)
                   /\ N[x].entries \in Seq(UniqueEntry) /\ N[x].childrenIds \in Seq(D)
  BY DEF SearchTree, WellTyped
<1>3. DOMAIN G = D /\ \A x \in D \ {l, p, r} : G[x] = N[x]
  BY <1>1 DEF ShiftedRight
<1>4. G[p] = [N[p] EXCEPT !.entries[k] = Last(N[l].entries)]
  BY <1>1 DEF ShiftedRight
<1>5. G[r] = [N[r] EXCEPT !.entries = <<N[p].entries[k]>> \o @, !.childrenIds = moved \o @]
  BY <1>1 DEF ShiftedRight
<1>6. G[l] = [N[l] EXCEPT !.entries = Front(@), !.childrenIds = SubSeq(@, 1, Len(@) - 1)]
  BY <1>1 DEF ShiftedRight
<1>7. N2 = Adopt(G, Range(moved), r)
  OBVIOUS
<1> HIDE DEF G
<1>8. G[p] = Node(N[p].parentId, ep, N[p].childrenIds)
  <2> DEFINE n == N[p]
             m == G[p]
             a == N[p].parentId
  <2>1. n = Node(a, pe, pc) /\ m = [n EXCEPT !.entries[k] = Last(le)]
    BY <1>1, <1>2, <1>4
  <2> HIDE DEF n, m, a, pe, pc, le
  <2>2. m = Node(a, ep, pc)
    BY <2>1 DEF Node
  <2> QED
    BY <2>2 DEF m, a, pc
<1>9. G[r] = Node(N[r].parentId, er, cr)
  <2> DEFINE n == N[r]
             m == G[r]
             a == N[r].parentId
  <2>1. n = Node(a, re, rc) /\ m = [n EXCEPT !.entries = <<pe[k]>> \o @, !.childrenIds = moved \o @]
    BY <1>1, <1>2, <1>5
  <2> HIDE DEF n, m, a, re, rc, pe
  <2>2. m = Node(a, er, cr)
    BY <2>1 DEF Node
  <2> QED
    BY <2>2 DEF m, a
<1>10. G[l] = Node(N[l].parentId, el, cl)
  <2> DEFINE n == N[l]
             m == G[l]
             a == N[l].parentId
  <2>1. n = Node(a, le, lc) /\ m = [n EXCEPT !.entries = Front(@), !.childrenIds = SubSeq(@, 1, Len(@) - 1)]
    BY <1>1, <1>2, <1>6
  <2> HIDE DEF n, m, a, le, lc
  <2>2. m = Node(a, el, cl)
    BY <2>1 DEF Node
  <2> QED
    BY <2>2 DEF m, a
<1>11. /\ le \in Seq(UniqueEntry) /\ re \in Seq(UniqueEntry) /\ pe \in Seq(UniqueEntry)
       /\ lc \in Seq(D) /\ rc \in Seq(D) /\ Len(le) # 0
  BY <1>1, <1>2
<1>12. (Len(lc) = 0 <=> Len(rc) = 0) /\ (IsLeaf(N[l]) <=> Len(lc) = 0)
  BY <1>1, NodeFacts
<1> DEFINE Out == Rotated(N, N2, r, p, l, er, cr, ep, el, cl, Range(moved))
<1>13. Out
  <2> HIDE DEF el, cl, ep, er, cr
  <2> QED
    BY <1>1, <1>2, <1>3, <1>7, <1>8, <1>9, <1>10, RotatedNodes
<1>a. moved = IF Len(lc) = 0 THEN <<>> ELSE <<Last(lc)>>
  BY <1>12
<1> HIDE DEF le, re, pe, lc, rc, D
<1>14. /\ er \in Seq(UniqueEntry) /\ Len(er) = Len(re) + 1 /\ er[1] = pe[k]
       /\ \A i \in 1 .. Len(re) : er[i + 1] = re[i]
  <2> DEFINE y == pe[k]
  <2>1. y \in UniqueEntry
    BY <1>1, <1>11
  <2> HIDE DEF y
  <2>2. /\ <<y>> \o re \in Seq(UniqueEntry) /\ Len(<<y>> \o re) = Len(re) + 1
        /\ (<<y>> \o re)[1] = y /\ \A i \in 1 .. Len(re) : (<<y>> \o re)[i + 1] = re[i]
    BY <1>11, <2>1, SeqBefore
  <2> QED
    BY <2>2 DEF y
<1>15. /\ el \in Seq(UniqueEntry) /\ Len(el) = Len(le) - 1
       /\ \A i \in 1 .. Len(le) - 1 : el[i] = le[i]
       /\ Last(le) = le[Len(le)] /\ Last(le) \in UniqueEntry
  BY <1>11, SeqFront
<1>16. /\ ep \in Seq(UniqueEntry) /\ Len(ep) = Len(pe)
       /\ \A i \in 1 .. Len(pe) : ep[i] = IF i = k THEN le[Len(le)] ELSE pe[i]
  <2> DEFINE y == Last(le)
  <2>1. y \in UniqueEntry /\ y = le[Len(le)]
    BY <1>15
  <2> HIDE DEF y
  <2>2. /\ [pe EXCEPT ![k] = y] \in Seq(UniqueEntry) /\ Len([pe EXCEPT ![k] = y]) = Len(pe)
        /\ \A i \in 1 .. Len(pe) : [pe EXCEPT ![k] = y][i] = IF i = k THEN y ELSE pe[i]
    BY <1>1, <1>11, <2>1, SeqReplaceAt
  <2> QED
    BY <2>1, <2>2 DEF y
<1>17. /\ Range(moved) = {x \in D : Len(lc) # 0 /\ x = lc[Len(lc)]}
       /\ cr \in Seq(D) /\ Len(cr) = (IF Len(lc) = 0 THEN 0 ELSE Len(rc) + 1)
       /\ \A i \in 1 .. Len(rc) : cr[i + 1] = rc[i]
       /\ Len(lc) # 0 => cr[1] = lc[Len(lc)]
       /\ cl \in Seq(D) /\ Len(cl) = (IF Len(lc) = 0 THEN 0 ELSE Len(lc) - 1)
       /\ \A i \in 1 .. Len(lc) - 1 : cl[i] = lc[i]
  <2>1. Len(lc) \in Nat /\ Len(rc) \in Nat
    BY <1>11
  <2>2. CASE Len(lc) = 0
    <3>1. moved = <<>> /\ rc = <<>>
      BY <1>a, <1>11, <1>12, <2>2
    <3>2. <<>> \in Seq(D) /\ Len(<<>>) = 0 /\ DOMAIN <<>> = {}
      OBVIOUS
    <3>3. Range(moved) = {}
      BY <3>1, <3>2 DEF Range
    <3>4. cr = <<>>
      BY <3>1
    <3>5. cl = <<>>
      <4>1. 1 \in Int /\ Len(lc) - 1 \in Int /\ Len(lc) - 1 < 1
        BY <2>1, <2>2
      <4> QED
        BY <4>1, SeqNothing
    <3> QED
      BY <2>1, <2>2, <3>1, <3>2, <3>3, <3>4, <3>5, <1>12
  <2>3. CASE Len(lc) # 0
    <3> DEFINE y == Last(lc)
    <3>1. /\ Front(lc) \in Seq(D) /\ Len(Front(lc)) = Len(lc) - 1
          /\ \A i \in 1 .. Len(lc) - 1 : Front(lc)[i] = lc[i]
          /\ Last(lc) = lc[Len(lc)] /\ Last(lc) \in D
      BY <1>11, <2>3, SeqFront
    <3>2. moved = <<y>> /\ y \in D
      BY <1>a, <2>3, <3>1
    <3> HIDE DEF y
    <3>3. Range(moved) = {y}
      <4>1. moved \in Seq(D) /\ DOMAIN moved = 1 .. 1 /\ moved[1] = y
        BY <3>2
      <4> QED
        BY <4>1 DEF Range
    <3>4. /\ <<y>> \o rc \in Seq(D) /\ Len(<<y>> \o rc) = Len(rc) + 1 /\ (<<y>> \o rc)[1] = y
          /\ \A i \in 1 .. Len(rc) : (<<y>> \o rc)[i + 1] = rc[i]
      BY <1>11, <3>2, SeqBefore
    <3>5. cl = Front(lc)
      BY DEF Front
    <3>6. y = lc[Len(lc)]
      BY <3>1 DEF y
    <3>7. cr = <<y>> \o rc
      BY <3>2
    <3> HIDE DEF cr, cl
    <3> QED
      BY <2>1, <2>3, <3>1, <3>2, <3>3, <3>4, <3>5, <3>6, <3>7
  <2> QED
    BY <2>2, <2>3
<1> HIDE DEF el, ep, er, cl, cr
<1>20. /\ DOMAIN N2 = D /\ Typed(N2)
       /\ \A x \in D : N2[x].parentId = IF x \in Range(moved) THEN r ELSE N[x].parentId
       /\ N2[l].entries = el /\ N2[l].childrenIds = cl
       /\ N2[r].entries = er /\ N2[r].childrenIds = cr
       /\ N2[p].entries = ep
       /\ \A x \in D \ {l, r, p} : N2[x].entries = N[x].entries
       /\ \A x \in D \ {l, r} : N2[x].childrenIds = N[x].childrenIds
  <2>1. Turned(N, N2, r, p, l, er, cr, ep, el, cl, Range(moved))
    BY <1>1, <1>2, <1>13, <1>14, <1>15, <1>16, <1>17, RotatedFields DEF D
  <2> QED
    BY <2>1 DEF Turned, D
<1>21. \A x \in D : N2[x].parentId = IF Len(lc) # 0 /\ x = lc[Len(lc)] THEN r ELSE N[x].parentId
  BY <1>17, <1>20
<1> QED
  BY <1>14, <1>15, <1>16, <1>17, <1>20, <1>21 DEF RightRotationOf, le, re, pe, lc, rc, D

(* A node that has to be rebalanced, its parent and its place there.       *)
Unbalanced(d, p, k) ==
  /\ d = op.node /\ d \in DOMAIN nodes /\ d # rootNode /\ p = Deficient.parentId /\ k = Place
  /\ p \in DOMAIN nodes /\ ~ IsLeaf(nodes[p])
  /\ Len(nodes[p].entries) \in Nat /\ Len(nodes[p].childrenIds) = Len(nodes[p].entries) + 1
  /\ k \in 1 .. Len(nodes[p].entries) + 1 /\ nodes[p].childrenIds[k] = d
  /\ Len(nodes[d].entries) = MinEntriesPerNode - 1
  /\ Resume = Idle
  /\ ParentOf = nodes[p]

(* The node a rebalancing is about is not the root, is one entry short,    *)
(* and has a place in its parent.                                          *)
LEMMA ToRebalance ==
  ASSUME TreeInv, op.name = "rebalance"
  PROVE  Unbalanced(op.node, Deficient.parentId, Place)
<1> DEFINE d == op.node
           p == nodes[d].parentId
           k == Place
           D == DOMAIN nodes
<1>1. PICK h, lo, hi : SearchTree(nodes, rootNode, h, lo, hi)
  BY DEF TreeInv, SomeSearchTree
<1>2. /\ op = [name |-> op.name, node |-> op.node, entry |-> NoEntry]
      /\ d \in D \ {rootNode} /\ Len(nodes[d].entries) = MinEntriesPerNode - 1
  BY DEF TreeInv, Working
<1>3. Resume = Idle
  BY <1>2 DEF Resume
<1>4. p # 0
  BY <1>1, <1>2, Links
<1>5. /\ p \in D /\ ~ IsLeaf(nodes[p])
      /\ IndexInParent(nodes, d) \in 1 .. Len(nodes[p].childrenIds)
      /\ nodes[p].childrenIds[IndexInParent(nodes, d)] = d
  BY <1>1, <1>2, <1>4, PlaceInParent
<1>6. k = IndexInParent(nodes, d)
  BY DEF Place
<1>7. Len(nodes[p].entries) \in Nat /\ Len(nodes[p].childrenIds) = Len(nodes[p].entries) + 1
  BY <1>1, <1>5, NodeFacts
<1>8. Deficient.parentId = p /\ ParentOf = nodes[p]
  BY DEF Deficient, ParentOf
<1> QED
  BY <1>2, <1>3, <1>5, <1>6, <1>7, <1>8 DEF Unbalanced

(* Its neighbours.                                                         *)
LEMMA Neighbours ==
  ASSUME NEW d, NEW p, NEW k, Unbalanced(d, p, k)
  PROVE  /\ HasRight => /\ RightSibling = nodes[p].childrenIds[k + 1]
                        /\ MayBeMerged(nodes, p, k, d, RightSibling)
         /\ HasLeft => /\ LeftSibling = nodes[p].childrenIds[k - 1]
                       /\ MayBeMerged(nodes, p, k - 1, LeftSibling, d)
         /\ HasRight <=> k <= Len(nodes[p].entries)
         /\ HasLeft <=> k > 1
<1> DEFINE P == Len(nodes[p].entries)
           ids == nodes[p].childrenIds
<1>1. /\ p \in DOMAIN nodes /\ ~ IsLeaf(nodes[p]) /\ P \in Nat /\ k \in 1 .. P + 1 /\ Len(ids) = P + 1
      /\ ids[k] = d /\ k = Place /\ ParentOf = nodes[p]
  BY DEF Unbalanced
<1>2. /\ RightSibling = ids[k + 1] /\ LeftSibling = ids[k - 1]
      /\ (HasRight <=> k < Len(ids)) /\ (HasLeft <=> k > 1)
  BY <1>1 DEF RightSibling, LeftSibling, HasRight, HasLeft
<1>3. HasRight <=> k <= P
  BY <1>1, <1>2
<1>4. HasRight => MayBeMerged(nodes, p, k, d, ids[k + 1])
  BY <1>1, <1>3 DEF MayBeMerged
<1>5. ASSUME HasLeft PROVE MayBeMerged(nodes, p, k - 1, ids[k - 1], d)
  <2> DEFINE j == k - 1
  <2>1. j \in 1 .. P /\ k = j + 1
    BY <1>1, <1>2, <1>5
  <2> HIDE DEF j
  <2>2. MayBeMerged(nodes, p, j, ids[j], d)
    BY <1>1, <2>1 DEF MayBeMerged
  <2> QED
    BY <2>2 DEF j
<1> QED
  BY <1>2, <1>3, <1>4, <1>5

(* The sizes of nodes after a rotation.                                    *)
LEMMA AfterRotation ==
  ASSUME NEW N, NEW R, NEW h, NEW lo, NEW hi, SearchTree(N, R, h, lo, hi), NEW o,
         Working(N, R, o), Sized(N, R, o), o.name = "rebalance",
         NEW b \in DOMAIN N, b # R, b # o.node, Len(N[b].entries) > MinEntriesPerNode,
         NEW N2, DOMAIN N2 = DOMAIN N,
         Len(N2[o.node].entries) = Len(N[o.node].entries) + 1,
         Len(N2[b].entries) = Len(N[b].entries) - 1,
         \A x \in DOMAIN N \ {o.node, b} :
           Len(N2[x].entries) = Len(N[x].entries) /\ (IsLeaf(N2[x]) <=> IsLeaf(N[x]))
  PROVE  Working(N2, R, Idle) /\ Sized(N2, R, Idle)
<1> DEFINE M == MinEntriesPerNode
           d == o.node
<1>1. M \in Nat \ {0} /\ \A x \in DOMAIN N : Len(N[x].entries) \in Nat
  BY ParameterAssumption, NodeFacts
<1>2. d \in DOMAIN N \ {R} /\ Len(N[d].entries) = M - 1
  BY DEF Working
<1>3. \A x \in DOMAIN N : /\ Len(N[x].entries) <= 2 * M
                          /\ x = R => IsLeaf(N[x]) \/ Len(N[x].entries) >= 1
                          /\ x # R /\ x # d => Len(N[x].entries) >= M
  BY DEF Sized
<1>4. Working(N2, R, Idle)
  BY DEF Working, Idle
<1>5. Sized(N2, R, Idle)
  <2> SUFFICES ASSUME NEW x \in DOMAIN N
               PROVE  /\ Len(N2[x].entries) <= 2 * M
                      /\ x = R => IsLeaf(N2[x]) \/ Len(N2[x].entries) >= 1
                      /\ x # R => Len(N2[x].entries) >= M
    BY DEF Sized
  <2>1. CASE x = d
    BY <1>1, <1>2, <2>1
  <2>2. CASE x = b
    BY <1>1, <1>3, <2>2
  <2>3. CASE x \notin {d, b}
    BY <1>3, <2>3
  <2> QED
    BY <2>1, <2>2, <2>3
<1> QED
  BY <1>4, <1>5

(* RotateLeft keeps the invariant and the entries.                         *)
LEMMA RotateLeftStep ==
  ASSUME TreeInv, RotateLeft
  PROVE  TreeInv' /\ SameEntries(nodes, nodes')
<1> DEFINE d == op.node
           p == Deficient.parentId
           k == Place
           r == RightSibling
           N2 == nodes'
           moved == Part(nodes[r].childrenIds, 1, 1)
<1>1. /\ op.name = "rebalance" /\ HasRight /\ CanSpare(r)
      /\ op' = Resume /\ allowDuplicateKeys' = allowDuplicateKeys /\ rootNode' = rootNode
      /\ ~ allowDuplicateKeys
  BY DEF RotateLeft, TreeInv
<1>2. Unbalanced(d, p, k)
  BY <1>1, ToRebalance
<1>3. MayBeMerged(nodes, p, k, d, r)
  <2> HIDE DEF d, p, k
  <2> QED
    BY <1>1, <1>2, Neighbours
<1>4. N2 = Adopt(ShiftedLeft(nodes, p, k, d, r, moved), Range(moved), d)
  <2>1. ParentOf = nodes[p]
    BY <1>2 DEF Unbalanced
  <2> QED
    BY <2>1 DEF RotateLeft, ShiftedLeft, Deficient, ParentOf
<1>5. PICK h, lo, hi : SearchTree(nodes, rootNode, h, lo, hi)
  BY DEF TreeInv, SomeSearchTree
<1>6. Len(nodes[r].entries) > MinEntriesPerNode /\ MinEntriesPerNode \in Nat
  BY <1>1, ParameterAssumption DEF CanSpare
<1>7. Resume = Idle
  BY <1>2 DEF Unbalanced
<1>8. Working(nodes, rootNode, op) /\ Sized(nodes, rootNode, op)
  BY DEF TreeInv
<1> HIDE DEF d, p, k, r, N2
<1>9. /\ d \in DOMAIN nodes /\ p \in DOMAIN nodes /\ r \in DOMAIN nodes /\ r # rootNode /\ d # r /\ d # p /\ r # p
      /\ Len(nodes[d].entries) \in Nat /\ Len(nodes[r].entries) \in Nat
  BY <1>3, <1>5, Siblings, NodeFacts
<1>10. Len(nodes[r].entries) # 0
  BY <1>6, <1>9
<1>11. LeftRotationOf(nodes, N2, p, k, d, r)
  BY <1>3, <1>4, <1>5, <1>10, LeftRotation
<1>12. SomeSearchTree(N2, rootNode) /\ SameEntries(nodes, N2)
  <2> DEFINE s == Len(nodes[d].entries) + 2
  <2>1. SplitOf(Joined(nodes, p, k, d, r), N2, d, s, k, r)
    BY <1>3, <1>5, <1>10, <1>11, LeftRotationSplits
  <2>2. s \in 1 .. Len(nodes[d].entries) + 1 + Len(nodes[r].entries)
    <3> DEFINE a == Len(nodes[d].entries)
               b == Len(nodes[r].entries)
    <3>1. a \in Nat /\ b \in Nat /\ b # 0 /\ s = a + 2
      BY <1>9, <1>10
    <3> HIDE DEF a, b, s
    <3>2. s \in 1 .. a + 1 + b
      BY <3>1
    <3> QED
      BY <3>2 DEF a, b
  <2> HIDE DEF s
  <2> QED
    BY <1>3, <1>5, <2>1, <2>2, RotationTree DEF SomeSearchTree
<1>13. Working(N2, rootNode, Idle) /\ Sized(N2, rootNode, Idle)
  <2>1. /\ DOMAIN N2 = DOMAIN nodes
        /\ Len(N2[d].entries) = Len(nodes[d].entries) + 1
        /\ Len(N2[r].entries) = Len(nodes[r].entries) - 1
        /\ Len(N2[p].entries) = Len(nodes[p].entries)
        /\ \A x \in DOMAIN nodes \ {d, r, p} : N2[x].entries = nodes[x].entries
        /\ \A x \in DOMAIN nodes \ {d, r} : N2[x].childrenIds = nodes[x].childrenIds
    BY <1>11 DEF LeftRotationOf
  <2>2. \A x \in DOMAIN nodes \ {d, r} :
          Len(N2[x].entries) = Len(nodes[x].entries) /\ (IsLeaf(N2[x]) <=> IsLeaf(nodes[x]))
    BY <2>1 DEF IsLeaf
  <2>3. d = op.node
    BY DEF d
  <2> QED
    BY <1>1, <1>5, <1>6, <1>8, <1>9, <2>1, <2>2, <2>3, AfterRotation
<1>14. nodes' = N2
  BY DEF N2
<1> QED
  BY <1>1, <1>7, <1>12, <1>13, <1>14 DEF TreeInv

(* RotateRight keeps the invariant and the entries.                        *)
LEMMA RotateRightStep ==
  ASSUME TreeInv, RotateRight
  PROVE  TreeInv' /\ SameEntries(nodes, nodes')
<1> DEFINE d == op.node
           p == Deficient.parentId
           k == Place - 1
           l == LeftSibling
           N2 == nodes'
           moved == IF IsLeaf(nodes[l]) THEN <<>> ELSE <<Last(nodes[l].childrenIds)>>
<1>1. /\ op.name = "rebalance" /\ HasLeft /\ CanSpare(l)
      /\ op' = Resume /\ allowDuplicateKeys' = allowDuplicateKeys /\ rootNode' = rootNode
      /\ ~ allowDuplicateKeys
  BY DEF RotateRight, TreeInv
<1>2. Unbalanced(d, p, Place)
  BY <1>1, ToRebalance
<1>3. MayBeMerged(nodes, p, k, l, d)
  <2> DEFINE j == Place
  <2>1. Unbalanced(d, p, j)
    BY <1>2
  <2> HIDE DEF d, p, j
  <2>2. MayBeMerged(nodes, p, j - 1, l, d)
    BY <1>1, <2>1, Neighbours
  <2> QED
    BY <2>2 DEF j
<1>4. N2 = Adopt(ShiftedRight(nodes, p, k, l, d, moved), Range(moved), d)
  <2>1. ParentOf = nodes[p]
    BY <1>2 DEF Unbalanced
  <2> QED
    BY <2>1 DEF RotateRight, ShiftedRight, Deficient, ParentOf
<1>5. PICK h, lo, hi : SearchTree(nodes, rootNode, h, lo, hi)
  BY DEF TreeInv, SomeSearchTree
<1>6. Len(nodes[l].entries) > MinEntriesPerNode /\ MinEntriesPerNode \in Nat
  BY <1>1, ParameterAssumption DEF CanSpare
<1>7. Resume = Idle
  BY <1>2 DEF Unbalanced
<1>8. Working(nodes, rootNode, op) /\ Sized(nodes, rootNode, op)
  BY DEF TreeInv
<1> HIDE DEF d, p, k, l, N2
<1>9. /\ d \in DOMAIN nodes /\ p \in DOMAIN nodes /\ l \in DOMAIN nodes /\ l # rootNode /\ d # l /\ d # p /\ l # p
      /\ Len(nodes[d].entries) \in Nat /\ Len(nodes[l].entries) \in Nat
  BY <1>3, <1>5, Siblings, NodeFacts
<1>10. Len(nodes[l].entries) # 0
  BY <1>6, <1>9
<1>11. RightRotationOf(nodes, N2, p, k, l, d)
  BY <1>3, <1>4, <1>5, <1>10, RightRotation
<1>12. SomeSearchTree(N2, rootNode) /\ SameEntries(nodes, N2)
  <2> DEFINE s == Len(nodes[l].entries)
  <2>1. SplitOf(Joined(nodes, p, k, l, d), N2, l, s, k, d)
    BY <1>3, <1>5, <1>10, <1>11, RightRotationSplits
  <2>2. s \in 1 .. Len(nodes[l].entries) + 1 + Len(nodes[d].entries)
    <3> DEFINE a == Len(nodes[l].entries)
               b == Len(nodes[d].entries)
    <3>1. a \in Nat /\ b \in Nat /\ a # 0 /\ s = a
      BY <1>9, <1>10
    <3> HIDE DEF a, b, s
    <3>2. s \in 1 .. a + 1 + b
      BY <3>1
    <3> QED
      BY <3>2 DEF a, b
  <2> HIDE DEF s
  <2> QED
    BY <1>3, <1>5, <2>1, <2>2, RotationTree DEF SomeSearchTree
<1>13. Working(N2, rootNode, Idle) /\ Sized(N2, rootNode, Idle)
  <2>1. /\ DOMAIN N2 = DOMAIN nodes
        /\ Len(N2[d].entries) = Len(nodes[d].entries) + 1
        /\ Len(N2[l].entries) = Len(nodes[l].entries) - 1
        /\ Len(N2[p].entries) = Len(nodes[p].entries)
        /\ \A x \in DOMAIN nodes \ {l, d, p} : N2[x].entries = nodes[x].entries
        /\ \A x \in DOMAIN nodes \ {l, d} : N2[x].childrenIds = nodes[x].childrenIds
    BY <1>11 DEF RightRotationOf
  <2>2. \A x \in DOMAIN nodes \ {d, l} :
          Len(N2[x].entries) = Len(nodes[x].entries) /\ (IsLeaf(N2[x]) <=> IsLeaf(nodes[x]))
    BY <2>1 DEF IsLeaf
  <2>3. d = op.node
    BY DEF d
  <2> QED
    BY <1>1, <1>5, <1>6, <1>8, <1>9, <2>1, <2>2, <2>3, AfterRotation
<1>14. nodes' = N2
  BY DEF N2
<1> QED
  BY <1>1, <1>7, <1>12, <1>13, <1>14 DEF TreeInv

(* The root that is left when the last entry of the old one has gone.      *)
LEMMA ShrunkNodes ==
  ASSUME NEW J, NEW R, NEW h, NEW lo, NEW hi, SearchTree(J, R, h, lo, hi),
         NEW c \in DOMAIN J, c # R,
         NEW N2, N2 = Without(Adopt(J, {c}, 0), {R})
  PROVE  ShrunkOf(J, N2, R, c)
<1> DEFINE D == DOMAIN J
           E == D \ {R}
           a(x) == IF x = c THEN 0 ELSE J[x].parentId
<1>1. \A x \in D : /\ J[x] = Node(J[x].parentId, J[x].entries, J[x].childrenIds)
                   /\ J[x].entries \in Seq(UniqueEntry) /\ J[x].childrenIds \in Seq(D)
  BY DEF SearchTree, WellTyped
<1>2. /\ DOMAIN N2 = E
      /\ \A x \in E : N2[x] = IF x \in {c} THEN [J[x] EXCEPT !.parentId = 0] ELSE J[x]
  BY DEF Without, Adopt
<1>3. \A x \in E : N2[x] = Node(a(x), J[x].entries, J[x].childrenIds)
  <2> TAKE x \in E
  <2> DEFINE q == J[x].parentId
             e == J[x].entries
             s == J[x].childrenIds
             n == J[x]
             m == N2[x]
  <2>1. n = Node(q, e, s) /\ m = IF x = c THEN [n EXCEPT !.parentId = 0] ELSE n
    BY <1>1, <1>2
  <2> HIDE DEF q, e, s, n, m
  <2>2. m = Node(IF x = c THEN 0 ELSE q, e, s)
    <3>1. CASE x = c
      BY <2>1, <3>1, NodeFields
    <3>2. CASE x # c
      BY <2>1, <3>2
    <3> QED
      BY <3>1, <3>2
  <2> QED
    BY <2>2 DEF m, q, e, s
<1>4. \A x \in E : /\ N2[x].parentId = a(x) /\ N2[x].entries = J[x].entries
                   /\ N2[x].childrenIds = J[x].childrenIds
  <2> TAKE x \in E
  <2> DEFINE q == a(x)
             e == J[x].entries
             s == J[x].childrenIds
             m == N2[x]
  <2>1. m = Node(q, e, s)
    BY <1>3
  <2> HIDE DEF q, e, s, m
  <2>2. m.parentId = q /\ m.entries = e /\ m.childrenIds = s
    BY <2>1, NodeFields
  <2> QED
    BY <2>2 DEF q, e, s, m
<1>5. \A x \in E : J[x].childrenIds \in Seq(E)
  <2> TAKE x \in E
  <2> DEFINE s == J[x].childrenIds
  <2>1. \A i \in 1 .. Len(s) : s[i] \in E
    <3> TAKE i \in 1 .. Len(s)
    <3>1. s[i] \in D /\ J[s[i]].parentId = x /\ x # 0 /\ J[R].parentId = 0
      <4>1. R \in D
        BY DEF SearchTree, WellTyped
      <4> QED
        BY <4>1, Links
    <3> QED
      BY <3>1
  <2>2. s \in Seq(D)
    BY <1>1
  <2> HIDE DEF s, E, D
  <2>3. s \in Seq(E)
    BY <2>1, <2>2, SeqWithin
  <2> QED
    BY <2>3 DEF s
<1>6. Typed(N2)
  <2> SUFFICES ASSUME NEW x \in E
               PROVE  /\ N2[x] = Node(N2[x].parentId, N2[x].entries, N2[x].childrenIds)
                      /\ N2[x].entries \in Seq(UniqueEntry)
                      /\ N2[x].childrenIds \in Seq(E)
    BY <1>2 DEF Typed
  <2>1. x \in D
    OBVIOUS
  <2> HIDE DEF a, E
  <2> QED
    BY <1>1, <1>3, <1>4, <1>5, <2>1
<1> QED
  BY <1>2, <1>4, <1>6 DEF ShrunkOf

(* Two nodes have become one: the tree, and its sizes.                     *)
Smaller(N, J, p, l, r) ==
  /\ DOMAIN J = DOMAIN N \ {r}
  /\ Len(J[l].entries) = Len(N[l].entries) + 1 + Len(N[r].entries)
  /\ Len(J[p].entries) = Len(N[p].entries) - 1
  /\ \A x \in DOMAIN N \ {l, p, r} :
       Len(J[x].entries) = Len(N[x].entries) /\ (IsLeaf(J[x]) <=> IsLeaf(N[x]))

(* After a merge the parent has one entry fewer and the left node all of   *)
(* the right one.                                                          *)
LEMMA MergedSizes ==
  ASSUME NEW N, NEW p, NEW k, NEW l, NEW r, NEW J, MergeOf(N, J, p, k, l, r)
  PROVE  Smaller(N, J, p, l, r)
<1>1. /\ DOMAIN J = DOMAIN N \ {r}
      /\ Len(J[l].entries) = Len(N[l].entries) + 1 + Len(N[r].entries)
      /\ Len(J[p].entries) = Len(N[p].entries) - 1
  BY DEF MergeOf, MergeEntries
<1>2. \A x \in DOMAIN J \ {l, p} : J[x].entries = N[x].entries /\ J[x].childrenIds = N[x].childrenIds
  BY DEF MergeOf, MergeEntries, MergeChildren
<1> QED
  BY <1>1, <1>2 DEF Smaller, IsLeaf

(* What is merged is neither too small nor too large.                      *)
ToMerge(p, k, l, r) ==
  /\ MayBeMerged(nodes, p, k, l, r)
  /\ Len(nodes[l].entries) + 1 + Len(nodes[r].entries) = 2 * MinEntriesPerNode
  /\ op.node \in {l, r}

(* Where Merge is enabled, the two nodes it joins have together one entry  *)
(* too few for two of them.                                                *)
LEMMA MergeCandidates ==
  ASSUME TreeInv, Merge,
         NEW k, k = IF HasRight THEN Place ELSE Place - 1
  PROVE  LET p == Deficient.parentId IN
         ToMerge(p, k, nodes[p].childrenIds[k], nodes[p].childrenIds[k + 1])
<1> DEFINE M == MinEntriesPerNode
           d == op.node
           p == Deficient.parentId
           at == Place
           P == Len(nodes[p].entries)
           ids == nodes[p].childrenIds
<1>1. /\ op.name = "rebalance"
      /\ ~ (HasRight /\ CanSpare(RightSibling)) /\ ~ (HasLeft /\ CanSpare(LeftSibling))
  BY DEF Merge
<1>2. PICK h, lo, hi : SearchTree(nodes, rootNode, h, lo, hi)
  BY DEF TreeInv, SomeSearchTree
<1>3. Unbalanced(d, p, at)
  BY <1>1, ToRebalance
<1>4. M \in Nat \ {0} /\ \A x \in DOMAIN nodes : Len(nodes[x].entries) \in Nat
  BY <1>2, ParameterAssumption, NodeFacts
<1>5. \A x \in DOMAIN nodes : /\ x = rootNode => IsLeaf(nodes[x]) \/ Len(nodes[x].entries) >= 1
                              /\ x # rootNode /\ x # d => Len(nodes[x].entries) >= M
  BY <1>1 DEF TreeInv, Sized
<1> HIDE DEF d, p, at
<1>6. /\ d \in DOMAIN nodes /\ d # rootNode /\ p \in DOMAIN nodes /\ ~ IsLeaf(nodes[p]) /\ P \in Nat
      /\ at \in 1 .. P + 1 /\ ids[at] = d /\ Len(nodes[d].entries) = M - 1 /\ d = op.node
  BY <1>3 DEF Unbalanced
<1>7. /\ HasRight => RightSibling = ids[at + 1] /\ MayBeMerged(nodes, p, at, d, RightSibling)
      /\ HasLeft => LeftSibling = ids[at - 1] /\ MayBeMerged(nodes, p, at - 1, LeftSibling, d)
      /\ HasRight <=> at <= P
      /\ HasLeft <=> at > 1
  BY <1>3, Neighbours
<1>8. k = IF HasRight THEN at ELSE at - 1
  BY DEF at
<1>9. CASE HasRight
  <2> DEFINE r == RightSibling
  <2>1. k = at /\ ids[k] = d /\ ids[k + 1] = r /\ MayBeMerged(nodes, p, k, d, r)
    BY <1>6, <1>7, <1>8, <1>9
  <2>2. ~ (Len(nodes[r].entries) > M)
    BY <1>1, <1>9 DEF CanSpare
  <2> HIDE DEF r
  <2>3. r \in DOMAIN nodes /\ r # rootNode /\ r # d
    BY <1>2, <2>1, Siblings
  <2>4. Len(nodes[r].entries) = M
    BY <1>4, <1>5, <2>2, <2>3
  <2>5. Len(nodes[d].entries) + 1 + Len(nodes[r].entries) = 2 * M
    BY <1>4, <1>6, <2>4
  <2>6. ToMerge(p, k, d, r)
    BY <1>6, <2>1, <2>5 DEF ToMerge
  <2> QED
    BY <2>1, <2>6 DEF p
<1>10. CASE ~ HasRight
  <2> DEFINE l == LeftSibling
  <2>1. P # 0
    <3> HIDE DEF M
    <3>1. p # d
      <4> SUFFICES ASSUME p = d PROVE FALSE
        OBVIOUS
      <4>1. nodes[d].parentId = d
        BY <1>6 DEF p, Deficient
      <4> QED
        BY <1>2, <1>6, <4>1, IsChild, NodeFacts
    <3> QED
      BY <1>4, <1>5, <1>6, <3>1
  <2>2. HasLeft /\ k = at - 1 /\ (at - 1) + 1 = at
    BY <1>6, <1>7, <1>8, <1>10, <2>1
  <2>3. ids[k] = l /\ ids[k + 1] = d /\ MayBeMerged(nodes, p, k, l, d)
    BY <1>6, <1>7, <2>2
  <2>4. ~ (Len(nodes[l].entries) > M)
    BY <1>1, <2>2 DEF CanSpare
  <2> HIDE DEF l
  <2>5. l \in DOMAIN nodes /\ l # rootNode /\ l # d
    BY <1>2, <2>3, Siblings
  <2>6. Len(nodes[l].entries) = M
    BY <1>4, <1>5, <2>4, <2>5
  <2>7. Len(nodes[l].entries) + 1 + Len(nodes[d].entries) = 2 * M
    BY <1>4, <1>6, <2>6
  <2>8. ToMerge(p, k, l, d)
    BY <1>6, <2>3, <2>7 DEF ToMerge
  <2> QED
    BY <2>3, <2>8 DEF p
<1> QED
  BY <1>9, <1>10

(* Merge, below the root and at it, keeps the invariant and the entries.   *)
LEMMA MergeStep ==
  ASSUME TreeInv, Merge
  PROVE  TreeInv' /\ SameEntries(nodes, nodes')
<1> DEFINE M == MinEntriesPerNode
           D == DOMAIN nodes
           p == Deficient.parentId
           k == IF HasRight THEN Place ELSE Place - 1
           l == nodes[p].childrenIds[k]
           r == nodes[p].childrenIds[k + 1]
           J == Joined(nodes, p, k, l, r)
           parent == LessSeparator(nodes[p], k)
           P == Len(nodes[p].entries)
           R == rootNode
           N2 == nodes'
           Root == nodes[p].parentId = 0 /\ P - 1 = 0
<1>1. PICK h, lo, hi : SearchTree(nodes, rootNode, h, lo, hi)
  BY DEF TreeInv, SomeSearchTree
<1>2. ToMerge(p, k, l, r)
  BY MergeCandidates
<1>3. /\ op.name = "rebalance" /\ allowDuplicateKeys' = allowDuplicateKeys /\ ~ allowDuplicateKeys
      /\ Working(nodes, rootNode, op) /\ Sized(nodes, rootNode, op)
  BY DEF Merge, TreeInv
<1>4. Resume = Idle /\ ParentOf = nodes[p]
  BY <1>3, ToRebalance DEF Unbalanced
<1>5. IF parent.parentId = 0 /\ parent.entries = <<>>
        THEN N2 = Without(Adopt(J, {l}, 0), {p}) /\ rootNode' = l /\ op' = Idle
        ELSE /\ N2 = J /\ rootNode' = R
             /\ op' = IF parent.parentId # 0 /\ Len(parent.entries) < M
                        THEN [op EXCEPT !.node = p] ELSE Idle
  BY <1>4 DEF Merge, Joined, ParentOf, Deficient
<1> HIDE DEF p, k, l, r, R, N2
<1>6. /\ MayBeMerged(nodes, p, k, l, r)
      /\ Len(nodes[l].entries) + 1 + Len(nodes[r].entries) = 2 * M
      /\ op.node \in {l, r}
  BY <1>2 DEF ToMerge
<1>7. SearchTree(nodes, R, h, lo, hi) /\ Working(nodes, R, op) /\ Sized(nodes, R, op)
  BY <1>1, <1>3 DEF R
<1>8. /\ p \in D /\ l \in D /\ r \in D /\ l # r /\ l # p /\ r # p /\ l # R /\ r # R
      /\ nodes[l].parentId = p /\ nodes[r].parentId = p
      /\ Len(nodes[p].childrenIds) = P + 1
  BY <1>6, <1>7, Siblings
<1>9. k \in 1 .. P /\ nodes[p].childrenIds[k] = l
  BY <1>6 DEF MayBeMerged
<1>10. MergeOf(nodes, J, p, k, l, r)
  BY <1>6, <1>7, JoinedIsMerge
<1> HIDE DEF J
<1>11. Smaller(nodes, J, p, l, r)
  BY <1>10, MergedSizes
<1>12. SearchTree(J, R, MergeHeights(nodes, h, r), MergeHeights(nodes, lo, r), MergeUpper(nodes, hi, l, r))
  BY <1>6, <1>7, <1>10, MergeTree
<1>13. /\ M \in Nat \ {0} /\ P \in Nat
       /\ \A x \in D : Len(nodes[x].entries) \in Nat /\ (x = R <=> nodes[x].parentId = 0)
  BY <1>7, <1>8, Links, ParameterAssumption
<1>14. \A x \in D \ {l, r} :
         /\ Len(nodes[x].entries) <= 2 * M
         /\ x = R => IsLeaf(nodes[x]) \/ Len(nodes[x].entries) >= 1
         /\ x # R => Len(nodes[x].entries) >= M
  BY <1>3, <1>6, <1>7 DEF Sized
<1>15. /\ DOMAIN J = D \ {r} /\ Len(J[l].entries) = 2 * M /\ Len(J[p].entries) = P - 1
       /\ \A x \in D \ {l, p, r} :
            Len(J[x].entries) = Len(nodes[x].entries) /\ (IsLeaf(J[x]) <=> IsLeaf(nodes[x]))
  BY <1>6, <1>11 DEF Smaller
<1>16. /\ parent.parentId = nodes[p].parentId /\ Len(parent.entries) = P - 1
       /\ (parent.entries = <<>> <=> P - 1 = 0)
  <2> DEFINE e == nodes[p].entries
             f == RemoveAt(e, k)
             n == nodes[p]
  <2>1. n = Node(n.parentId, n.entries, n.childrenIds) /\ e \in Seq(UniqueEntry) /\ k \in 1 .. Len(e)
    BY <1>7, <1>8, <1>9 DEF SearchTree, WellTyped
  <2>2. parent.entries = f /\ parent.parentId = n.parentId
    <3> HIDE DEF n
    <3>1. LessSeparator(n, k) = Node(n.parentId, RemoveAt(n.entries, k), RemoveAt(n.childrenIds, k + 1))
      BY <2>1, LessNode
    <3>2. LessSeparator(n, k).entries = RemoveAt(n.entries, k) /\ LessSeparator(n, k).parentId = n.parentId
      BY <3>1, NodeFields
    <3> QED
      BY <3>2 DEF n
  <2> HIDE DEF e
  <2>3. f \in Seq(UniqueEntry) /\ Len(f) = Len(e) - 1
    BY <2>1, SeqRemoveAt
  <2> HIDE DEF f, parent
  <2>6. f \in Seq(UniqueEntry)
    BY <2>3
  <2>4. f = <<>> <=> Len(f) = 0
    BY <2>6
  <2>5. Len(e) = P
    BY DEF e
  <2> QED
    BY <2>2, <2>3, <2>4, <2>5
<1> HIDE DEF parent
<1>17. IF Root THEN N2 = Without(Adopt(J, {l}, 0), {p}) /\ rootNode' = l /\ op' = Idle
       ELSE /\ N2 = J /\ rootNode' = R
            /\ op' = IF p # R /\ P - 1 < M THEN [op EXCEPT !.node = p] ELSE Idle
  BY <1>5, <1>8, <1>13, <1>16
<1> HIDE DEF P
<1>18. SameEntries(nodes, J)
  BY <1>6, <1>7, <1>10, MergeKeepsEntries
<1>19. CASE Root
  <2>1. p = R /\ k = 1 /\ P = 1
    BY <1>8, <1>9, <1>13, <1>19
  <2>2. l = J[R].childrenIds[1] /\ Len(J[R].childrenIds) = 1
    <3>1. /\ Len(J[p].childrenIds) = Len(nodes[p].entries)
          /\ \A i \in 1 .. Len(nodes[p].entries) :
               J[p].childrenIds[i] = IF i <= k THEN nodes[p].childrenIds[i] ELSE nodes[p].childrenIds[i + 1]
      BY <1>10 DEF MergeOf, MergeChildren
    <3>2. Len(nodes[p].entries) = 1
      BY <2>1 DEF P
    <3>3. J[p].childrenIds[1] = nodes[p].childrenIds[1]
      BY <2>1, <3>1, <3>2
    <3> QED
      BY <1>9, <2>1, <3>1, <3>2, <3>3
  <2>3. R \in DOMAIN J /\ l \in DOMAIN J /\ l # R
    BY <1>8, <1>15, <2>1
  <2>4. J[R].entries = <<>> /\ ~ IsLeaf(J[R])
    <3>1. J[R].entries \in Seq(UniqueEntry) /\ Len(J[R].entries) = 0
      BY <1>12, <1>15, <2>1, <2>3 DEF SearchTree, WellTyped
    <3>2. ~ IsLeaf(J[R])
      BY <1>12, <2>2, <2>3, Links
    <3> QED
      BY <3>1, <3>2
  <2>5. ShrunkOf(J, N2, R, l)
    BY <1>12, <1>17, <1>19, <2>1, <2>3, ShrunkNodes
  <2>6. SomeSearchTree(N2, l)
    BY <1>12, <2>2, <2>4, <2>5, ShrunkTree DEF SomeSearchTree
  <2>7. /\ DOMAIN N2 = DOMAIN J \ {R}
        /\ \A x \in DOMAIN N2 : N2[x].entries = J[x].entries
    BY <2>5 DEF ShrunkOf
  <2>8. Working(N2, l, Idle)
    BY DEF Working, Idle
  <2>9. Sized(N2, l, Idle)
    <3> SUFFICES ASSUME NEW x \in D \ {r, R}
                 PROVE  /\ Len(N2[x].entries) <= 2 * M
                        /\ x = l => Len(N2[x].entries) >= 1
                        /\ x # l => Len(N2[x].entries) >= M
      BY <1>15, <2>7 DEF Sized
    <3>1. N2[x].entries = J[x].entries
      BY <1>15, <2>7
    <3>2. CASE x = l
      BY <1>13, <1>15, <3>1, <3>2
    <3>3. CASE x # l
      <4>1. x \in D \ {l, r} /\ x \in D \ {l, p, r} /\ x # R
        BY <2>1, <3>3
      <4>2. Len(N2[x].entries) = Len(nodes[x].entries)
        BY <1>15, <3>1, <4>1
      <4> QED
        BY <1>13, <1>14, <3>3, <4>1, <4>2
    <3> QED
      BY <3>2, <3>3
  <2>10. SameEntries(nodes, N2)
    <3>1. SameEntries(J, N2)
      BY <2>4, <2>5, ShrunkKeepsEntries
    <3> QED
      BY <1>18, <3>1, StillSame
  <2> QED
    BY <1>3, <1>17, <1>19, <2>6, <2>8, <2>9, <2>10 DEF TreeInv, N2
<1>20. CASE ~ Root
  <2> DEFINE goes == IF p # R /\ P - 1 < M THEN [name |-> "rebalance", node |-> p, entry |-> NoEntry]
                     ELSE Idle
  <2>1. N2 = J /\ rootNode' = R /\ op' = goes
    <3>1. op = [name |-> op.name, node |-> op.node, entry |-> NoEntry]
      BY <1>7 DEF Working
    <3>2. PICK m : m = [op EXCEPT !.node = p]
      OBVIOUS
    <3>3. m = [name |-> "rebalance", node |-> p, entry |-> NoEntry]
      BY <1>3, <3>1, <3>2
    <3>4. op' = IF p # R /\ P - 1 < M THEN m ELSE Idle
      BY <1>17, <1>20, <3>2
    <3> QED
      BY <1>17, <1>20, <3>3, <3>4
  <2>2. SomeSearchTree(J, R)
    BY <1>12 DEF SomeSearchTree
  <2>3. P <= 2 * M /\ (p = R => P - 1 >= 1) /\ (p # R => P >= M) /\ p \in DOMAIN J
    <3>1. Len(nodes[p].entries) = P
      BY DEF P
    <3>2. P >= 1
      BY <1>9, <1>13
    <3>3. p = R => P - 1 # 0
      BY <1>8, <1>13, <1>20
    <3>4. P <= 2 * M /\ (p # R => P >= M)
      BY <1>8, <1>13, <1>14, <3>1
    <3>5. p = R => P - 1 >= 1
      BY <1>13, <3>2, <3>3
    <3> QED
      BY <1>8, <1>15, <3>4, <3>5
  <2> HIDE DEF goes
  <2>4. Working(J, R, goes)
    <3>1. CASE p # R /\ P - 1 < M
      <4>1. P - 1 = M - 1
        BY <1>13, <2>3, <3>1
      <4>2. goes = [name |-> "rebalance", node |-> p, entry |-> NoEntry]
        BY <3>1 DEF goes
      <4> QED
        BY <1>15, <2>3, <3>1, <4>1, <4>2 DEF Working
    <3>2. CASE ~ (p # R /\ P - 1 < M)
      BY <3>2 DEF goes, Working, Idle
    <3> QED
      BY <3>1, <3>2
  <2>5. Sized(J, R, goes)
    <3> SUFFICES ASSUME NEW x \in D \ {r}
                 PROVE  /\ Len(J[x].entries) <= 2 * M
                        /\ x = R => IsLeaf(J[x]) \/ Len(J[x].entries) >= 1
                        /\ x # R /\ ~ (goes.name = "rebalance" /\ goes.node = x) => Len(J[x].entries) >= M
      BY <1>15 DEF Sized
    <3>1. CASE x = l
      BY <1>8, <1>13, <1>15, <3>1
    <3>2. CASE x = p
      <4>1. p # R /\ P - 1 < M => goes.name = "rebalance" /\ goes.node = p
        BY DEF goes
      <4>2. Len(J[x].entries) = P - 1
        BY <1>15, <3>2
      <4> QED
        BY <1>13, <2>3, <3>2, <4>1, <4>2
    <3>3. CASE x \notin {l, p}
      <4>1. x \in D \ {l, r} /\ x \in D \ {l, p, r}
        BY <3>3
      <4>2. Len(J[x].entries) = Len(nodes[x].entries) /\ (IsLeaf(J[x]) <=> IsLeaf(nodes[x]))
        BY <1>15, <4>1
      <4> QED
        BY <1>13, <1>14, <4>1, <4>2
    <3> QED
      BY <3>1, <3>2, <3>3
  <2> QED
    BY <1>3, <1>18, <2>1, <2>2, <2>4, <2>5 DEF TreeInv, N2
<1> QED
  BY <1>19, <1>20

(* A new tree is one empty leaf.                                           *)
LEMMA TreeInit ==
  ASSUME Init, ~ allowDuplicateKeys
  PROVE  TreeInv
<1> DEFINE h == [x \in {1} |-> 0]
           lo == [x \in {1} |-> -1]
           hi == [x \in {1} |-> 0]
           n == nodes[1]
<1>1. /\ nodes = [id \in {1} |-> Node(0, <<>>, <<>>)] /\ rootNode = 1 /\ op = Idle
  BY DEF Init
<1>2. /\ DOMAIN nodes = {1} /\ n = Node(0, <<>>, <<>>)
      /\ n.parentId = 0 /\ n.entries = <<>> /\ n.childrenIds = <<>>
  BY <1>1, NodeFields
<1> HIDE DEF n
<1>3. <<>> \in Seq(UniqueEntry) /\ <<>> \in Seq({1}) /\ Len(<<>>) = 0
  OBVIOUS
<1>4. WellTyped(nodes, 1)
  <2>1. IsFiniteSet(DOMAIN nodes)
    BY <1>2, FS_Singleton
  <2>2. /\ n = Node(n.parentId, n.entries, n.childrenIds) /\ n.parentId \in DOMAIN nodes \cup {0}
        /\ n.entries \in Seq(UniqueEntry) /\ n.childrenIds \in Seq(DOMAIN nodes)
    BY <1>2, <1>3
  <2> QED
    BY <1>2, <2>1, <2>2 DEF WellTyped, n
<1>5. IsLeaf(n) /\ Len(n.entries) = 0 /\ Len(n.childrenIds) = 0
  BY <1>2, <1>3 DEF IsLeaf
<1>6. Connected(nodes, 1, 1)
  BY <1>2, <1>5 DEF Connected, n
<1>7. Ranked(nodes, 1, h, 1)
  BY <1>5 DEF Ranked, n
<1>8. Ordered(nodes, 1, lo, hi, 1)
  BY <1>5 DEF Ordered, Ascending, n
<1>9. SearchTree(nodes, 1, h, lo, hi)
  BY <1>2, <1>4, <1>6, <1>7, <1>8 DEF SearchTree
<1>10. SomeSearchTree(nodes, rootNode)
  BY <1>1, <1>9 DEF SomeSearchTree
<1>11. Working(nodes, rootNode, op)
  BY <1>1 DEF Working, Idle
<1>12. Sized(nodes, rootNode, op)
  <2>1. /\ Len(nodes[1].entries) <= 2 * MinEntriesPerNode /\ IsLeaf(nodes[1])
    BY <1>5, ParameterAssumption DEF n
  <2> QED
    BY <1>1, <1>2, <2>1 DEF Sized
<1> QED
  BY <1>10, <1>11, <1>12 DEF TreeInv

(* Every step keeps the invariant.                                         *)
LEMMA TreeNext ==
  ASSUME TreeInv, [Next]_vars
  PROVE  TreeInv'
<1>1. ASSUME NEW key \in Key, DeleteKey(key) PROVE TreeInv'
  BY <1>1, DeleteStep
<1>2. ASSUME NEW entry \in Entry, Insert(entry) PROVE TreeInv'
  BY <1>2, InsertStep
<1>3. ASSUME NEW entry \in Entry, DeleteEntry(entry) PROVE TreeInv'
  BY <1>3 DEF TreeInv, DeleteEntry
<1>4. CASE Split
  BY <1>4, SplitStep
<1>5. CASE DeleteNext
  BY <1>5 DEF TreeInv, Working, DeleteNext
<1>6. CASE RotateLeft
  BY <1>6, RotateLeftStep
<1>7. CASE RotateRight
  BY <1>7, RotateRightStep
<1>8. CASE Merge
  BY <1>8, MergeStep
<1>9. CASE UNCHANGED vars
  BY <1>9 DEF TreeInv, vars
<1> QED
  BY <1>1, <1>2, <1>3, <1>4, <1>5, <1>6, <1>7, <1>8, <1>9 DEF Next

(* In every tree without duplicate keys, after any operations and in the   *)
(* middle of a split or a rebalancing, the nodes form a search tree and    *)
(* only the node the operation is about is out of size (Tree.Insert,       *)
(* Tree.Delete, TreeNode.Split and Rebalance).                             *)
THEOREM Invariance == Spec /\ ~ allowDuplicateKeys => []TreeInv
<1>1. Init /\ ~ allowDuplicateKeys => TreeInv
  BY TreeInit
<1>2. TreeInv /\ [Next]_vars => TreeInv'
  BY TreeNext
<1> QED
  BY <1>1, <1>2, PTL DEF Spec

(* Whether a tree takes duplicate keys is settled when it is made.         *)
LEMMA KindOfTree == Spec => [](allowDuplicateKeys \in BOOLEAN)
<1>1. Init => allowDuplicateKeys \in BOOLEAN
  BY DEF Init
<1>2. allowDuplicateKeys \in BOOLEAN /\ [Next]_vars => (allowDuplicateKeys \in BOOLEAN)'
  BY DEF Next, vars, DeleteKey, RemoveEntry, Insert, DeleteEntry, Split, DeleteNext,
         RotateLeft, RotateRight, Merge
<1> QED
  BY <1>1, <1>2, PTL DEF Spec

(* The types are part of the invariant.                                    *)
LEMMA TypesOfTree ==
  ASSUME TreeInv, allowDuplicateKeys \in BOOLEAN
  PROVE  TypeOK
<1>1. WellTyped(nodes, rootNode) /\ Working(nodes, rootNode, op) /\ ~ allowDuplicateKeys
  BY DEF TreeInv, SomeSearchTree, SearchTree
<1>2. Entry = UniqueEntry
  BY <1>1 DEF Entry
<1>4. /\ rootNode \in DOMAIN nodes
      /\ \A id \in DOMAIN nodes :
           /\ nodes[id].parentId \in DOMAIN nodes \cup {0}
           /\ nodes[id].entries \in Seq(Entry)
           /\ nodes[id].childrenIds \in Seq(DOMAIN nodes)
  BY <1>1, <1>2 DEF WellTyped
<1>5. op.name \in {"idle", "split", "rebalance"} /\ op.node \in DOMAIN nodes \cup {0} /\ op.entry = NoEntry
  BY <1>1 DEF Working
<1> QED
  BY <1>4, <1>5 DEF TypeOK

(* The variables of a tree without duplicate keys keep their types: ids    *)
(* name nodes there are, entries are entries (TreeNode, Tree).             *)
THEOREM TypeCorrect == Spec /\ ~ allowDuplicateKeys => []TypeOK
<1>1. TreeInv /\ allowDuplicateKeys \in BOOLEAN => TypeOK
  BY TypesOfTree
<1> QED
  BY <1>1, Invariance, KindOfTree, PTL

(* In a search tree parents and children agree, and by induction over the  *)
(* heights all leaves have the same depth.                                 *)
LEMMA ShapeOfTree ==
  ASSUME TreeInv
  PROVE  TreeShape
<1> DEFINE D == DOMAIN nodes
           R == rootNode
<1>1. PICK h, lo, hi : SearchTree(nodes, R, h, lo, hi)
  BY DEF TreeInv, SomeSearchTree
<1>2. ParentsAgree
  <2> SUFFICES ASSUME NEW id \in D
               PROVE  /\ IsLeaf(nodes[id]) \/ Len(nodes[id].childrenIds) = Len(nodes[id].entries) + 1
                      /\ IsInjective(nodes[id].childrenIds)
                      /\ \A child \in Range(nodes[id].childrenIds) : nodes[child].parentId = id
                      /\ id # rootNode <=> nodes[id].parentId # 0
                      /\ id # rootNode => id \in Range(nodes[nodes[id].parentId].childrenIds)
    BY DEF ParentsAgree
  <2>1. /\ IsLeaf(nodes[id]) \/ Len(nodes[id].childrenIds) = Len(nodes[id].entries) + 1
        /\ id # rootNode <=> nodes[id].parentId # 0
        /\ id # rootNode => nodes[id].parentId \in D
    BY <1>1, Links
  <2>2. IsInjective(nodes[id].childrenIds)
    <3> DEFINE ids == nodes[id].childrenIds
    <3>1. ids \in Seq(D)
      BY <1>1 DEF SearchTree, WellTyped
    <3>2. \A i, j \in 1 .. Len(ids) : ids[i] = ids[j] => i = j
      BY <1>1, Links
    <3> HIDE DEF ids
    <3>3. IsInjective(ids)
      BY <3>1, <3>2 DEF IsInjective
    <3> QED
      BY <3>3 DEF ids
  <2>3. \A child \in Range(nodes[id].childrenIds) : nodes[child].parentId = id
    <3>1. nodes[id].childrenIds \in Seq(D)
      BY <1>1 DEF SearchTree, WellTyped
    <3>2. Range(nodes[id].childrenIds) \subseteq D
      BY <3>1 DEF Range
    <3> QED
      BY <1>1, <3>2, Offspring
  <2>4. id # rootNode => id \in Range(nodes[nodes[id].parentId].childrenIds)
    BY <1>1, <2>1, Offspring
  <2> QED
    BY <2>1, <2>2, <2>3, <2>4
<1>3. Balanced
  <2> DEFINE Body(f) == [id \in D |-> IF nodes[id].parentId = 0 THEN 0 ELSE 1 + f[nodes[id].parentId]]
             depth == CHOOSE f : f = Body(f)
             top == [id \in D |-> h[R] - h[id]]
             above == [id \in D |-> h[R] - h[id]]
  <2>1. \A id \in D : /\ h[id] \in Nat /\ h[R] \in Nat /\ h[id] <= h[R]
                      /\ id = R <=> nodes[id].parentId = 0
                      /\ id # R => nodes[id].parentId \in D /\ h[nodes[id].parentId] = h[id] + 1
                      /\ IsLeaf(nodes[id]) => h[id] = 0
    <3> TAKE id \in D
    <3>1. h[id] \in Nat /\ h[R] \in Nat
      BY <1>1, NodeFacts
    <3>2. h[id] <= h[R] /\ (IsLeaf(nodes[id]) => h[id] = 0)
      BY <1>1 DEF SearchTree, Ranked
    <3>3. id = R <=> nodes[id].parentId = 0
      BY <1>1, Links
    <3>4. id # R => nodes[id].parentId \in D /\ h[nodes[id].parentId] = h[id] + 1
      BY <1>1, IsChild
    <3> QED
      BY <3>1, <3>2, <3>3, <3>4
  <2>2. top = Body(top)
    <3>1. \A id \in D : top[id] = IF nodes[id].parentId = 0 THEN 0 ELSE 1 + top[nodes[id].parentId]
      BY <2>1
    <3> HIDE DEF D
    <3>2. top = [id \in D |-> top[id]]
      OBVIOUS
    <3> HIDE DEF top
    <3> QED
      BY <3>1, <3>2
  <2> HIDE DEF top
  <2>3. depth = Body(depth)
    BY <2>2
  <2> HIDE DEF depth
  <2>4. \A id \in D : depth[id] = IF nodes[id].parentId = 0 THEN 0 ELSE 1 + depth[nodes[id].parentId]
    BY <2>3
  <2> DEFINE T == {id \in D : depth[id] = h[R] - h[id]}
  <2>5. D \subseteq T
    <3>1. above \in [D -> Nat]
      BY <2>1
    <3>2. ASSUME NEW x \in D, \A y \in D : above[y] < above[x] => y \in T
          PROVE  x \in T
      <4>1. CASE x = R
        BY <2>1, <2>4, <4>1
      <4>2. CASE x # R
        <5> DEFINE p == nodes[x].parentId
        <5>1. p \in D /\ h[p] = h[x] + 1 /\ p # 0 /\ h[x] \in Nat /\ h[R] \in Nat
          BY <2>1, <4>2
        <5>2. above[p] < above[x]
          BY <5>1
        <5>3. depth[p] = h[R] - h[p]
          BY <3>2, <5>1, <5>2
        <5>4. depth[x] = 1 + depth[p]
          BY <2>4, <5>1
        <5>5. depth[x] = h[R] - h[x]
          BY <5>1, <5>3, <5>4
        <5> QED
          BY <5>5
      <4> QED
        BY <4>1, <4>2
    <3> HIDE DEF T, above, D
    <3> QED
      BY <3>1, <3>2, ByMeasure
  <2>6. \A a, b \in {id \in D : IsLeaf(nodes[id])} : depth[a] = depth[b]
    BY <2>1, <2>5
  <2> QED
    BY <2>6 DEF Balanced, depth
<1> QED
  BY <1>2, <1>3 DEF TreeShape

(* In a tree without duplicate keys parents and children name each other   *)
(* and all leaves have the same depth, in the middle of operations too     *)
(* (TreeNode.Split, Rebalance).                                            *)
THEOREM Shape == Spec /\ ~ allowDuplicateKeys => []TreeShape
<1>1. TreeInv => TreeShape
  BY ShapeOfTree
<1> QED
  BY <1>1, Invariance, PTL

(* The sizes are part of the invariant.                                    *)
LEMMA OccupancyOfTree ==
  ASSUME TreeInv
  PROVE  Occupancy
<1> DEFINE M == MinEntriesPerNode
<1>1. PICK h, lo, hi : SearchTree(nodes, rootNode, h, lo, hi)
  BY DEF TreeInv, SomeSearchTree
<1>2. M \in Nat \ {0} /\ \A x \in DOMAIN nodes : Len(nodes[x].entries) \in Nat
  BY <1>1, ParameterAssumption, NodeFacts
<1>3. Working(nodes, rootNode, op) /\ Sized(nodes, rootNode, op)
  BY DEF TreeInv
<1> SUFFICES ASSUME NEW id \in DOMAIN nodes
             PROVE  LET least == IF id = rootNode THEN IF IsLeaf(nodes[id]) THEN 0 ELSE 1
                                 ELSE M
                        at(name) == IF op.name = name /\ op.node = id THEN 1 ELSE 0
                    IN  Len(nodes[id].entries) \in least - at("rebalance") .. 2 * M + at("split")
  BY DEF Occupancy
<1> DEFINE L == Len(nodes[id].entries)
<1>4. /\ ~ (op.name = "split" /\ op.node = id) => L <= 2 * M
      /\ id = rootNode => IsLeaf(nodes[id]) \/ L >= 1
      /\ id # rootNode /\ ~ (op.name = "rebalance" /\ op.node = id) => L >= M
  BY <1>3 DEF Sized
<1>5. op.name = "split" /\ op.node = id => L = 2 * M + 1
  BY <1>3 DEF Working
<1>6. op.name = "rebalance" /\ op.node = id => L = M - 1 /\ id # rootNode
  BY <1>3 DEF Working
<1>7. L \in Nat
  BY <1>2
<1> HIDE DEF L
<1>8. CASE op.name = "split" /\ op.node = id
  BY <1>2, <1>4, <1>5, <1>7, <1>8 DEF L
<1>9. CASE op.name = "rebalance" /\ op.node = id
  BY <1>2, <1>4, <1>6, <1>7, <1>9 DEF L
<1>10. CASE ~ (op.name = "split" /\ op.node = id) /\ ~ (op.name = "rebalance" /\ op.node = id)
  <2>1. L <= 2 * M
    BY <1>4, <1>10
  <2>2. CASE id = rootNode
    <3>1. IsLeaf(nodes[id]) \/ L >= 1
      BY <1>4, <2>2
    <3>2. CASE IsLeaf(nodes[id])
      BY <1>2, <1>7, <1>10, <2>1, <2>2, <3>2 DEF L
    <3>3. CASE ~ IsLeaf(nodes[id]) /\ L >= 1
      BY <1>2, <1>7, <1>10, <2>1, <2>2, <3>3 DEF L
    <3> QED
      BY <3>1, <3>2, <3>3
  <2>3. CASE id # rootNode
    <3>1. L >= M
      BY <1>4, <1>10, <2>3
    <3> QED
      BY <1>2, <1>7, <1>10, <2>1, <2>3, <3>1 DEF L
  <2> QED
    BY <2>2, <2>3
<1> QED
  BY <1>8, <1>9, <1>10

(* In a tree without duplicate keys no node has too few or too many        *)
(* entries, but the one a split or a rebalancing is about, by one          *)
(* (TreeNode.IsOverflow, Rebalance).                                       *)
THEOREM Occupied == Spec /\ ~ allowDuplicateKeys => []Occupancy
<1>1. TreeInv => Occupancy
  BY OccupancyOfTree
<1> QED
  BY <1>1, Invariance, PTL

(* In a search tree Get descends to the entry of the key, and a key it     *)
(* does not meet is in no other node: the bounds of two leaves do not      *)
(* overlap, and the keys of inner nodes are none of a leaf's.              *)
LEMMA GetInTree ==
  ASSUME TreeInv
  PROVE  GetFinds
<1> SUFFICES ASSUME op.name = "idle"
             PROVE  LET stored == UNION {Range(nodes[id].entries) : id \in DOMAIN nodes} IN
                    \A key \in Key :
                      IF key \in {e[1] : e \in stored} THEN Get(key) \in stored /\ Get(key)[1] = key
                                                      ELSE Get(key) = NoEntry
  BY DEF GetFinds
<1> DEFINE stored == UNION {Range(nodes[id].entries) : id \in DOMAIN nodes}
<1> SUFFICES ASSUME NEW key \in Key
             PROVE  IF key \in {e[1] : e \in stored} THEN Get(key) \in stored /\ Get(key)[1] = key
                                                     ELSE Get(key) = NoEntry
  OBVIOUS
<1>1. key \in Nat /\ ~ allowDuplicateKeys /\ SomeSearchTree(nodes, rootNode)
  <2>1. PICK e \in Entry : key = e[1]
    BY DEF Key
  <2>2. key \in Nat
    BY <2>1, ParameterAssumption DEF Entry
  <2> QED
    BY <2>2 DEF TreeInv
<1>2. PICK h, lo, hi : SearchTree(nodes, rootNode, h, lo, hi) /\ key < hi[rootNode]
  BY <1>1, RoomFor
<1> DEFINE r == FindNodeForInsertion(key)
           z == r.node
<1>3. Arrives(nodes, lo, hi, key, r)
  BY <1>1, <1>2, InsertionArrives
<1>4. Get(key) = IF r.found THEN nodes[z].entries[r.at] ELSE NoEntry
  BY DEF Get
<1> HIDE DEF r
<1>5. \A a \in DOMAIN nodes : nodes[a].entries \in Seq(UniqueEntry)
  BY <1>2 DEF SearchTree, WellTyped
<1>6. \A e : e \in stored <=> \E a \in DOMAIN nodes : \E i \in 1 .. Len(nodes[a].entries) : e = nodes[a].entries[i]
  <2>1. \A a \in DOMAIN nodes : \A e : e \in Range(nodes[a].entries) <=>
                                   \E i \in 1 .. Len(nodes[a].entries) : e = nodes[a].entries[i]
    <3> TAKE a \in DOMAIN nodes
    <3>1. DOMAIN nodes[a].entries = 1 .. Len(nodes[a].entries)
      BY <1>5
    <3> QED
      BY <3>1 DEF Range
  <2>2. \A e : e \in stored <=> \E a \in DOMAIN nodes : e \in Range(nodes[a].entries)
    OBVIOUS
  <2> HIDE DEF stored
  <2> TAKE e
  <2>3. e \in stored <=> \E a \in DOMAIN nodes : e \in Range(nodes[a].entries)
    BY <2>2, Zenon
  <2>4. \A a \in DOMAIN nodes : e \in Range(nodes[a].entries) <=>
                               \E i \in 1 .. Len(nodes[a].entries) : e = nodes[a].entries[i]
    BY <2>1, Zenon
  <2> QED
    BY <2>3, <2>4, Zenon
<1> HIDE DEF stored
<1>7. CASE r.found
  <2>1. z \in DOMAIN nodes /\ r.at \in 1 .. Len(nodes[z].entries) /\ nodes[z].entries[r.at][1] = key
    BY <1>3, <1>7 DEF Arrives, Searched
  <2>2. Get(key) \in stored /\ Get(key)[1] = key
    BY <1>4, <1>6, <1>7, <2>1
  <2> QED
    BY <2>2
<1>8. CASE ~ r.found
  <2>1. NoKey(nodes, key)
    BY <1>1, <1>2, <1>3, <1>8, NotFoundIsNowhere
  <2>2. key \notin {e[1] : e \in stored}
    BY <1>6, <2>1 DEF NoKey
  <2> QED
    BY <1>4, <1>8, <2>2
<1> QED
  BY <1>7, <1>8

(* Between operations Get returns the entry of its key if the tree has     *)
(* one, and nothing else (Tree.Get, for trees without duplicate keys).     *)
THEOREM GetCorrect == Spec /\ ~ allowDuplicateKeys => []GetFinds
<1>1. TreeInv => GetFinds
  BY GetInTree
<1> QED
  BY <1>1, Invariance, PTL

-----------------------------------------------------------------------------
(* The entries of a tree as the contents of an ordered index.              *)

Places(N) == UNION {{id} \X DOMAIN N[id].entries : id \in DOMAIN N}
Held(N) == {N[p[1]].entries[p[2]] : p \in Places(N)}
BagOf(N) == [e \in Held(N) |-> Cardinality({p \in Places(N) : N[p[1]].entries[p[2]] = e})]

(* The places of a tree.                                                   *)
LEMMA PlacesOfTree ==
  ASSUME NEW N, NEW R, SomeSearchTree(N, R)
  PROVE  \A p : p \in Places(N) <=>
           \E a \in DOMAIN N : \E i \in 1 .. Len(N[a].entries) : p = <<a, i>>
<1>1. \A a \in DOMAIN N : N[a].entries \in Seq(UniqueEntry)
  BY DEF SomeSearchTree, SearchTree, WellTyped
<1>2. \A a \in DOMAIN N : DOMAIN N[a].entries = 1 .. Len(N[a].entries)
  BY <1>1
<1> TAKE p
<1>3. p \in Places(N) <=> \E a \in DOMAIN N : p \in {a} \X DOMAIN N[a].entries
  BY DEF Places
<1>4. \A a \in DOMAIN N : p \in {a} \X DOMAIN N[a].entries <=>
                            \E i \in 1 .. Len(N[a].entries) : p = <<a, i>>
  BY <1>2
<1> QED
  BY <1>3, <1>4, Zenon

(* The entries in these places are the tree's.                             *)
LEMMA HeldAreHad ==
  ASSUME NEW N, NEW R, SomeSearchTree(N, R)
  PROVE  \A e : e \in Held(N) <=> Has(N, e)
<1> TAKE e
<1>1. ASSUME e \in Held(N) PROVE Has(N, e)
  <2>1. PICK p \in Places(N) : e = N[p[1]].entries[p[2]]
    BY <1>1 DEF Held
  <2>2. PICK a \in DOMAIN N : \E i \in 1 .. Len(N[a].entries) : p = <<a, i>>
    BY <2>1, PlacesOfTree
  <2>3. PICK i \in 1 .. Len(N[a].entries) : p = <<a, i>>
    BY <2>2
  <2>4. e = N[a].entries[i]
    BY <2>1, <2>3
  <2> QED
    BY <2>4 DEF Has
<1>2. ASSUME Has(N, e) PROVE e \in Held(N)
  <2>1. PICK a \in DOMAIN N : \E i \in 1 .. Len(N[a].entries) : N[a].entries[i] = e
    BY <1>2 DEF Has
  <2>2. PICK i \in 1 .. Len(N[a].entries) : N[a].entries[i] = e
    BY <2>1
  <2> DEFINE p == <<a, i>>
  <2>3. p \in Places(N) /\ e = N[p[1]].entries[p[2]]
    BY <2>2, PlacesOfTree
  <2> HIDE DEF p
  <2> QED
    BY <2>3 DEF Held
<1> QED
  BY <1>1, <1>2

(* A tree without duplicate keys has each entry once.                      *)
LEMMA OneOfEach ==
  ASSUME NEW N, NEW R, SomeSearchTree(N, R)
  PROVE  BagOf(N) = [e \in Held(N) |-> 1]
<1>1. PICK h, lo, hi : SearchTree(N, R, h, lo, hi)
  BY DEF SomeSearchTree
<1>2. ASSUME NEW e \in Held(N)
      PROVE  Cardinality({p \in Places(N) : N[p[1]].entries[p[2]] = e}) = 1
  <2> DEFINE S == {p \in Places(N) : N[p[1]].entries[p[2]] = e}
  <2>1. PICK a \in DOMAIN N : \E i \in 1 .. Len(N[a].entries) : N[a].entries[i] = e
    BY HeldAreHad DEF Has
  <2>2. PICK i \in 1 .. Len(N[a].entries) : N[a].entries[i] = e
    BY <2>1
  <2>3. <<a, i>> \in S
    <3> DEFINE q == <<a, i>>
    <3>1. q \in Places(N) /\ N[q[1]].entries[q[2]] = e
      BY <2>2, PlacesOfTree
    <3> HIDE DEF q
    <3>2. q \in S
      BY <3>1
    <3> QED
      BY <3>2 DEF q
  <2>4. ASSUME NEW p \in S PROVE p = <<a, i>>
    <3>1. p \in Places(N) /\ N[p[1]].entries[p[2]] = e
      OBVIOUS
    <3>2. PICK b \in DOMAIN N : \E j \in 1 .. Len(N[b].entries) : p = <<b, j>>
      BY <3>1, PlacesOfTree
    <3>3. PICK j \in 1 .. Len(N[b].entries) : p = <<b, j>>
      BY <3>2
    <3>4. N[b].entries[j] = e
      BY <3>1, <3>3
    <3>5. N[a].entries[i][1] = N[b].entries[j][1]
      BY <2>2, <3>4
    <3>6. a = b /\ i = j
      BY <1>1, <3>5, KeysUnique
    <3> QED
      BY <3>3, <3>6
  <2> HIDE DEF S
  <2>5. S = {<<a, i>>}
    BY <2>3, <2>4
  <2>6. Cardinality(S) = 1
    BY <2>5, FS_Singleton
  <2> QED
    BY <2>6 DEF S
<1> QED
  BY <1>2 DEF BagOf

(* Hence what it has in all is the set of its entries.                     *)
LEMMA ContentsAre == Contents = BagOf(nodes) /\ Contents' = BagOf(nodes')
BY DEF Contents, BagOf, Held, Places

(* The contents before and after a step of the tree.                       *)
LEMMA ContentsOfTree ==
  ASSUME TreeInv, TreeInv'
  PROVE  /\ Contents = [e \in Held(nodes) |-> 1]
         /\ Contents' = [e \in Held(nodes') |-> 1]
         /\ \A e : e \in Held(nodes) <=> Has(nodes, e)
         /\ \A e : e \in Held(nodes') <=> Has(nodes', e)
<1>1. SomeSearchTree(nodes, rootNode) /\ SomeSearchTree(nodes', rootNode')
  BY DEF TreeInv
<1>2. BagOf(nodes) = [e \in Held(nodes) |-> 1] /\ \A e : e \in Held(nodes) <=> Has(nodes, e)
  BY <1>1, OneOfEach, HeldAreHad
<1>3. BagOf(nodes') = [e \in Held(nodes') |-> 1] /\ \A e : e \in Held(nodes') <=> Has(nodes', e)
  BY <1>1, OneOfEach, HeldAreHad
<1> QED
  BY <1>2, <1>3, ContentsAre

(* What a step of a tree without duplicate keys does not touch.            *)
LEMMA NothingElse ==
  ASSUME TreeInv, TreeInv'
  PROVE  UNCHANGED <<~ allowDuplicateKeys, op.entry>> /\ op.entry = NoEntry /\ ~ allowDuplicateKeys
<1>1. op.entry = NoEntry /\ op'.entry = NoEntry
  BY DEF TreeInv, Working
<1>2. ~ allowDuplicateKeys /\ ~ allowDuplicateKeys'
  BY DEF TreeInv
<1> QED
  BY <1>1, <1>2

(* Where entries only move the index does not change.                      *)
LEMMA SameContents ==
  ASSUME TreeInv, TreeInv', SameEntries(nodes, nodes')
  PROVE  UNCHANGED Index!vars
<1>1. Held(nodes') = Held(nodes)
  <2>1. \A e : e \in Held(nodes') <=> e \in Held(nodes)
    BY ContentsOfTree DEF SameEntries
  <2> QED
    BY <2>1
<1>2. Contents' = Contents
  BY <1>1, ContentsOfTree
<1> QED
  BY <1>2, NothingElse DEF Index!vars

(* One entry more, in a bag of single entries.                             *)
LEMMA WithOne ==
  ASSUME NEW A, NEW e, e \notin A, NEW B, B = A \cup {e}
  PROVE  [x \in B |-> 1] = Index!With([x \in A |-> 1], e)
<1> DEFINE a == [x \in A |-> 1]
           b == [x \in {e} |-> 1]
<1>1. Index!With(a, e) = [x \in A \cup {e} |-> (IF x \in A THEN a[x] ELSE 0) + (IF x \in {e} THEN b[x] ELSE 0)]
  BY DEF Index!With, Index!(+), Index!SetToBag
<1>2. \A x \in A \cup {e} : (IF x \in A THEN a[x] ELSE 0) + (IF x \in {e} THEN b[x] ELSE 0) = 1
  OBVIOUS
<1> QED
  BY <1>1, <1>2

(* One less.                                                               *)
LEMMA LessOne ==
  ASSUME NEW A, NEW e \in A, NEW B, B = A \ {e}
  PROVE  [x \in B |-> 1] = Index!Less([x \in A |-> 1], e)
<1> DEFINE a == [x \in A |-> 1]
           b == [x \in {e} |-> 1]
           c == [x \in A |-> IF x \in {e} THEN a[x] - b[x] ELSE a[x]]
<1>1. Index!Less(a, e) = [x \in {d \in A : c[d] > 0} |-> c[x]]
  BY DEF Index!Less, Index!(-), Index!SetToBag
<1>2. \A x \in A : c[x] = IF x = e THEN 0 ELSE 1
  OBVIOUS
<1> HIDE DEF c
<1>3. {d \in A : c[d] > 0} = B
  BY <1>2
<1>4. \A x \in B : c[x] = 1
  BY <1>2
<1> QED
  BY <1>1, <1>3, <1>4

(* Insert adds an entry under a new key.                                   *)
LEMMA InsertAdds ==
  ASSUME TreeInv, TreeInv', NEW entry, OneMore(nodes, nodes', entry), NoKey(nodes, entry[1])
  PROVE  Index!Insert(Contents, Contents')
<1> DEFINE A == Held(nodes)
           B == Held(nodes')
<1>1. /\ Contents = [e \in A |-> 1] /\ Contents' = [e \in B |-> 1]
      /\ \A e : e \in A <=> Has(nodes, e)
      /\ \A e : e \in B <=> Has(nodes', e)
  BY ContentsOfTree
<1>2. \A d : Has(nodes, d) => d[1] # entry[1]
  <2> SUFFICES ASSUME NEW d, Has(nodes, d) PROVE d[1] # entry[1]
    OBVIOUS
  <2>1. PICK x \in DOMAIN nodes : \E i \in 1 .. Len(nodes[x].entries) : nodes[x].entries[i] = d
    BY DEF Has
  <2>2. PICK i \in 1 .. Len(nodes[x].entries) : nodes[x].entries[i] = d
    BY <2>1
  <2>3. nodes[x].entries[i][1] # entry[1]
    BY DEF NoKey
  <2> QED
    BY <2>2, <2>3
<1> HIDE DEF A, B
<1>3. entry \notin A /\ B = A \cup {entry}
  <2>1. entry \notin A
    BY <1>1, <1>2
  <2>2. \A e : e \in B <=> e \in A \/ e = entry
    BY <1>1 DEF OneMore
  <2> QED
    BY <2>1, <2>2
<1>4. Contents' = Index!With(Contents, entry)
  BY <1>1, <1>3, WithOne
<1>5. entry \in DOMAIN Contents' /\ \A d \in DOMAIN Contents : d[1] # entry[1]
  BY <1>1, <1>2, <1>3
<1>6. /\ op.entry = NoEntry /\ UNCHANGED <<~ allowDuplicateKeys, op.entry>>
  BY NothingElse
<1> QED
  BY <1>4, <1>5, <1>6 DEF Index!Insert, Index!BagToSet, FirstOf

(* Delete(key) takes an entry out.                                         *)
LEMMA DeleteTakes ==
  ASSUME TreeInv, TreeInv', NEW gone, OneLess(nodes, nodes', gone)
  PROVE  Index!DeleteKey(Contents, Contents')
<1> DEFINE A == Held(nodes)
           B == Held(nodes')
<1>1. /\ Contents = [e \in A |-> 1] /\ Contents' = [e \in B |-> 1]
      /\ \A e : e \in A <=> Has(nodes, e)
      /\ \A e : e \in B <=> Has(nodes', e)
  BY ContentsOfTree
<1> HIDE DEF A, B
<1>2. gone \in A /\ B = A \ {gone}
  <2>1. gone \in A
    BY <1>1 DEF OneLess
  <2>2. \A e : e \in B <=> e \in A /\ e # gone
    BY <1>1 DEF OneLess
  <2> QED
    BY <2>1, <2>2
<1>3. Contents' = Index!Less(Contents, gone)
  BY <1>1, <1>2, LessOne
<1>4. gone \in DOMAIN Contents
  BY <1>1, <1>2
<1>5. /\ ~ allowDuplicateKeys /\ UNCHANGED <<~ allowDuplicateKeys, op.entry>>
  BY NothingElse
<1> QED
  BY <1>3, <1>4, <1>5 DEF Index!DeleteKey, Index!BagToSet

(* A new tree is an empty index.                                           *)
LEMMA IndexInit ==
  ASSUME Init, ~ allowDuplicateKeys
  PROVE  Index!Init
<1>1. TreeInv /\ op.entry = NoEntry /\ nodes = [id \in {1} |-> Node(0, <<>>, <<>>)]
  BY TreeInit DEF Init, Idle
<1>2. SomeSearchTree(nodes, rootNode)
  BY <1>1 DEF TreeInv
<1>3. \A e : ~ Has(nodes, e)
  <2>1. nodes[1].entries = <<>> /\ DOMAIN nodes = {1}
    BY <1>1, NodeFields
  <2> QED
    BY <2>1 DEF Has
<1>4. Held(nodes) = {}
  BY <1>2, <1>3, HeldAreHad
<1>5. Contents = [e \in {} |-> 1]
  BY <1>2, <1>4, OneOfEach, ContentsAre
<1>6. Contents = Index!EmptyBag
  BY <1>5 DEF Index!EmptyBag, Index!SetToBag
<1> QED
  BY <1>1, <1>6 DEF Index!Init

(* Every step of the tree is one of the index, or none.                    *)
LEMMA IndexNext ==
  ASSUME TreeInv, [Next]_vars
  PROVE  [Index!Next]_(Index!vars)
<1>1. TreeInv'
  BY TreeNext
<1>2. ASSUME NEW key \in Key, DeleteKey(key) PROVE Index!Next
  <2>1. PICK gone : OneLess(nodes, nodes', gone)
    BY <1>2, DeleteStep
  <2>2. Index!DeleteKey(Contents, Contents')
    BY <1>1, <2>1, DeleteTakes
  <2> QED
    BY <2>2 DEF Index!Next
<1>3. ASSUME NEW entry \in Entry, Insert(entry) PROVE Index!Next
  <2>1. OneMore(nodes, nodes', entry) /\ NoKey(nodes, entry[1])
    BY <1>3, InsertStep
  <2>2. Index!Insert(Contents, Contents')
    BY <1>1, <2>1, InsertAdds
  <2> QED
    BY <2>2 DEF Index!Next
<1>4. ASSUME NEW entry \in Entry, DeleteEntry(entry) PROVE FALSE
  BY <1>4 DEF TreeInv, DeleteEntry
<1>5. CASE Split \/ RotateLeft \/ RotateRight \/ Merge
  <2>1. SameEntries(nodes, nodes')
    BY <1>5, SplitStep, RotateLeftStep, RotateRightStep, MergeStep
  <2> QED
    BY <1>1, <2>1, SameContents
<1>6. CASE DeleteNext
  BY <1>6 DEF TreeInv, Working, DeleteNext
<1>7. CASE UNCHANGED vars
  <2>1. SameEntries(nodes, nodes')
    BY <1>7 DEF vars, SameEntries
  <2> QED
    BY <1>1, <2>1, SameContents
<1> QED
  BY <1>2, <1>3, <1>4, <1>5, <1>6, <1>7 DEF Next

(* A tree without duplicate keys is an ordered index whatever is inserted  *)
(* and deleted: Insert adds one entry under a new key, Delete(key) takes   *)
(* one out, and splits, rotations and merges in between change nothing     *)
(* (Tree.Insert, Tree.Delete, TreeNode.Split and Rebalance).               *)
THEOREM Implements == Spec /\ ~ allowDuplicateKeys => ImplementsIndex
<1>1. Init /\ ~ allowDuplicateKeys => Index!Init
  BY IndexInit
<1>2. TreeInv /\ [Next]_vars => [Index!Next]_(Index!vars)
  BY IndexNext
<1> QED
  BY <1>1, <1>2, Invariance, PTL DEF Spec, ImplementsIndex, Index!Spec
=============================================================================
