-------------------------------- MODULE BTree --------------------------------
(***************************************************************************)
(* Tree, TreeNode and TreeEnumerator of Datatent.CoreOld, over nodes held  *)
(* by a TreeMemoryNodeManager.                                             *)
(*                                                                         *)
(* An operation is a sequence of steps, one for each level of the tree it  *)
(* splits or rebalances.  Indexes count from one here, from zero in the    *)
(* code; the complement ~i with which the code says "not found, belongs at *)
(* i" is a record [found |-> FALSE, at |-> i].                             *)
(***************************************************************************)
EXTENDS Integers, SequencesExt

CONSTANTS
  MinEntriesPerNode,
  UniqueEntry,      \* the entries of a tree without duplicate keys
  DuplicateEntry,   \* the entries of a tree with duplicate keys
  NoEntry,
  MaxEntries        \* bound on the entries of a tree

ASSUME ParameterAssumption ==
  /\ MinEntriesPerNode \in Nat \ {0}
  /\ \A e \in UniqueEntry \cup DuplicateEntry : e = <<e[1], e[2]>> /\ e[1] \in Nat
  /\ NoEntry \notin UniqueEntry \cup DuplicateEntry

VARIABLES
  allowDuplicateKeys,   \* parameter of the tree
  nodes,                \* the nodes by their ids
  rootNode,             \* id of the root
  op                    \* the operation under way

vars == <<allowDuplicateKeys, nodes, rootNode, op>>

(* The entries callers use, a key and a value each, and their keys.        *)
Entry == IF allowDuplicateKeys THEN DuplicateEntry ELSE UniqueEntry
Key == {e[1] : e \in Entry}

(* name: what comes next; node: where; entry: what Delete(key, value) still *)
(* looks for.                                                               *)
Idle == [name |-> "idle", node |-> 0, entry |-> NoEntry]

-----------------------------------------------------------------------------
(* Nodes, and the nodes with some of them replaced.                        *)

Node(parent, entries, children) ==
  [parentId |-> parent, entries |-> entries, childrenIds |-> children]

IsLeaf(n) == n.childrenIds = <<>>

(* What a sequence has from one place to another, which may lie behind it. *)
Part(s, from, to) == SubSeq(s, from, Min({to, Len(s)}))

(* Mutant: a node is full one entry too late. *)
MutantIsOverflow(n) == Len(n.entries) > 2 * MinEntriesPerNode + 1

IsOverflow(n) == Len(n.entries) > 2 * MinEntriesPerNode

(* Mutant: the nodes that moved still name their old parent. *)
MutantAdopt(N, ids, parent) == N

(* The nodes "ids" get a parent.                                           *)
Adopt(N, ids, parent) ==
  [id \in DOMAIN N |-> IF id \in ids THEN [N[id] EXCEPT !.parentId = parent] ELSE N[id]]

(* One node, which may be a new one, put among the others.                 *)
Put(N, id, n) == [x \in DOMAIN N \cup {id} |-> IF x = id THEN n ELSE N[x]]

Without(N, ids) == [id \in DOMAIN N \ ids |-> N[id]]

(* An id no node has.  Nothing depends on which one it is.                 *)
FreshId(N) == Min((1 .. Cardinality(DOMAIN N) + 1) \ DOMAIN N)

IndexInParent(N, id) ==
  LET ids == N[N[id].parentId].childrenIds IN
  Min({i \in 1 .. Len(ids) : ids[i] = id})

-----------------------------------------------------------------------------
(* Search.                                                                 *)

(* List.BinarySearch of .NET, in what is left from one place to another.   *)
Middle(range) == range[1] + (range[2] - range[1]) \div 2

BinarySearch(entries, key) ==
  LET search[range \in (1 .. Len(entries) + 1) \X (0 .. Len(entries))] ==
        IF range[1] > range[2] THEN [found |-> FALSE, at |-> range[1]]
        ELSE IF entries[Middle(range)][1] = key THEN [found |-> TRUE, at |-> Middle(range)]
        ELSE IF entries[Middle(range)][1] < key THEN search[<<Middle(range) + 1, range[2]>>]
        ELSE search[<<range[1], Middle(range) - 1>>]
  IN  search[<<1, Len(entries)>>]

BinarySearchFirst(entries, key) ==
  LET r == BinarySearch(entries, key) IN
  IF ~ r.found THEN r
  ELSE [r EXCEPT !.at = Min({i \in 1 .. @ : \A j \in i .. @ : entries[j][1] = key})]

BinarySearchLast(entries, key) ==
  LET r == BinarySearch(entries, key) IN
  IF ~ r.found THEN r
  ELSE [r EXCEPT !.at =
          Max({i \in @ .. Len(entries) : \A j \in @ .. i : entries[j][1] = key})]

(* Mutant: a key in an inner node is passed by, in every tree.             *)
MutantArrived(n, r) == IsLeaf(n)

Arrived(n, r) == IsLeaf(n) \/ (r.found /\ ~ allowDuplicateKeys)

(* A place in a node, as a search gives it.                                *)
PlaceIn(id, r) == [node |-> id, found |-> r.found, at |-> r.at]

(* Where an entry is, or belongs.  With duplicate keys the search goes on  *)
(* to a leaf when an inner node has the key.                               *)
FindNodeForInsertion(key) ==
  LET in(id) == BinarySearch(nodes[id].entries, key)
      descend[id \in DOMAIN nodes] ==
        IF Arrived(nodes[id], in(id)) THEN PlaceIn(id, in(id))
        ELSE descend[nodes[id].childrenIds[in(id).at]]
  IN  descend[rootNode]

(* The leaf to start an iteration from: left of all entries of the key, or *)
(* right of them.                                                          *)
FindNodeForIteration(key, moveLeft) ==
  LET in(id) == IF moveLeft THEN BinarySearchFirst(nodes[id].entries, key)
                            ELSE BinarySearchLast(nodes[id].entries, key)
      way(r) == IF r.found /\ ~ moveLeft THEN r.at + 1 ELSE r.at
      descend[id \in DOMAIN nodes] ==
        IF IsLeaf(nodes[id]) THEN PlaceIn(id, in(id))
        ELSE descend[nodes[id].childrenIds[way(in(id))]]
  IN  descend[rootNode]

(* Tree.Get.                                                               *)
Get(key) ==
  LET r == FindNodeForInsertion(key) IN
  IF r.found THEN nodes[r.node].entries[r.at] ELSE NoEntry

-----------------------------------------------------------------------------
(* TreeEnumerator: a cursor is a node and an entry of it; node 0 is the end.*)

Cursor == [node : DOMAIN nodes, entry : 0 .. 2 * MinEntriesPerNode + 2]
End == [node |-> 0, entry |-> 0]

(* In a leaf to the right and, past its end, up; from an inner entry down  *)
(* to the leftmost leaf on its right.                                      *)
MoveForward(c) ==
  LET up[d \in Cursor] ==
        IF d.entry <= Len(nodes[d.node].entries) THEN d
        ELSE IF nodes[d.node].parentId = 0 THEN End
        ELSE up[[node |-> nodes[d.node].parentId, entry |-> IndexInParent(nodes, d.node)]]
      down[id \in DOMAIN nodes] ==
        IF IsLeaf(nodes[id]) THEN [node |-> id, entry |-> 1]
        ELSE down[nodes[id].childrenIds[1]]
  IN  IF IsLeaf(nodes[c.node]) THEN up[[c EXCEPT !.entry = @ + 1]]
      ELSE down[nodes[c.node].childrenIds[c.entry + 1]]

MoveBackward(c) ==
  LET up[d \in Cursor] ==
        IF d.entry >= 1 THEN d
        ELSE IF nodes[d.node].parentId = 0 THEN End
        ELSE up[[node |-> nodes[d.node].parentId, entry |-> IndexInParent(nodes, d.node) - 1]]
      down[id \in DOMAIN nodes] ==
        IF IsLeaf(nodes[id]) THEN [node |-> id, entry |-> Len(nodes[id].entries)]
        ELSE down[Last(nodes[id].childrenIds)]
  IN  IF IsLeaf(nodes[c.node]) THEN up[[c EXCEPT !.entry = @ - 1]]
      ELSE down[nodes[c.node].childrenIds[c.entry]]

EntryAt(c) == nodes[c.node].entries[c.entry]

MoveNext(c, direction) == IF direction = "ascending" THEN MoveForward(c) ELSE MoveBackward(c)

(* The cursors an iteration goes through, cut off at a number of them.     *)
Iterate(start, direction, limit) ==
  LET walk[n \in 0 .. limit, c \in Cursor \cup {End}] ==
        IF n = 0 \/ c = End THEN <<>> ELSE <<c>> \o walk[n - 1, MoveNext(c, direction)]
  IN  walk[limit, MoveNext(start, direction)]

(* The four range scans of Tree: where their enumerators start.            *)
StartAt(r, entry) == [node |-> r.node, entry |-> entry]
LargerThanOrEqualTo(key) ==
  LET r == FindNodeForIteration(key, TRUE) IN StartAt(r, r.at - 1)

(* Mutant: a key that is not there is taken for one that is.               *)
MutantLargerThan(key) ==
  LET r == FindNodeForIteration(key, FALSE) IN StartAt(r, r.at)

LargerThan(key) ==
  LET r == FindNodeForIteration(key, FALSE) IN
  StartAt(r, IF r.found THEN r.at ELSE r.at - 1)
LessThanOrEqualTo(key) ==
  LET r == FindNodeForIteration(key, FALSE) IN
  StartAt(r, IF r.found THEN r.at + 1 ELSE r.at)
LessThan(key) ==
  LET r == FindNodeForIteration(key, TRUE) IN StartAt(r, r.at)

-----------------------------------------------------------------------------
Init ==
  /\ allowDuplicateKeys \in BOOLEAN
  /\ nodes = [id \in {1} |-> Node(0, <<>>, <<>>)]
  /\ rootNode = 1
  /\ op = Idle

(* What goes on after a removal and its rebalancing.                       *)
Resume == IF op.entry = NoEntry THEN Idle ELSE [Idle EXCEPT !.name = "delete", !.entry = op.entry]

Size == FoldFunction(LAMBDA n, sum : Len(n.entries) + sum, 0, nodes)

(* Tree.Insert up to the split.  An existing key in a tree without         *)
(* duplicates ends in an exception before anything has changed.            *)
Insert(entry) ==
  /\ op.name = "idle" /\ Size < MaxEntries
  /\ LET r == FindNodeForInsertion(entry[1])
         n == [nodes[r.node] EXCEPT !.entries = InsertAt(@, r.at, entry)]
     IN  /\ r.found => allowDuplicateKeys
         /\ nodes' = [nodes EXCEPT ![r.node] = n]
         /\ op' = IF IsOverflow(n) THEN [Idle EXCEPT !.name = "split", !.node = r.node] ELSE Idle
  /\ UNCHANGED <<allowDuplicateKeys, rootNode>>

(* TreeNode.InsertAsParent: the place is looked up by the key.             *)
InsertAsParent(parent, entry, left, right) ==
  LET at == BinarySearch(parent.entries, entry[1]).at IN
  [parent EXCEPT !.entries = InsertAt(@, at, entry),
                 !.childrenIds = ReplaceAt(InsertAt(@, at, left), at + 1, right)]

(* TreeNode.Split, one level: the upper half becomes a node of its own and *)
(* the middle entry goes to the parent, or into a new root.                *)
Split ==
  /\ op.name = "split"
  /\ LET half == MinEntriesPerNode
         id == op.node
         n == nodes[id]
         middle == n.entries[half + 1]
         left == [n EXCEPT !.entries = SubSeq(@, 1, half), !.childrenIds = Part(@, 1, half + 1)]
         right == Node(0, SubSeq(n.entries, half + 2, Len(n.entries)),
                          SubSeq(n.childrenIds, half + 2, Len(n.childrenIds)))
         rightId == FreshId(nodes)
         halves == Adopt(Put(Put(nodes, rightId, right), id, left),
                         Range(right.childrenIds), rightId)
     IN  IF n.parentId = 0
           THEN LET rootId == FreshId(halves)
                    root == Node(0, <<middle>>, <<id, rightId>>)
                IN  /\ nodes' = Adopt(Put(halves, rootId, root), {id, rightId}, rootId)
                    /\ rootNode' = rootId
                    /\ op' = Idle
           ELSE LET parent == InsertAsParent(nodes[n.parentId], middle, id, rightId)
                IN  /\ nodes' = Adopt(Put(halves, n.parentId, parent), {rightId}, n.parentId)
                    /\ op' = IF IsOverflow(parent) THEN [op EXCEPT !.node = n.parentId] ELSE Idle
                    /\ UNCHANGED rootNode
  /\ UNCHANGED allowDuplicateKeys

-----------------------------------------------------------------------------
FindLargest(id) ==
  LET descend[x \in DOMAIN nodes] ==
        IF IsLeaf(nodes[x]) THEN x ELSE descend[Last(nodes[x].childrenIds)]
  IN  descend[id]

(* TreeNode.Remove up to the rebalancing.  An entry of an inner node is    *)
(* replaced by the largest one on its left, which is taken out of its leaf.*)
RemoveEntry(c) ==
  LET n == nodes[c.node]
      leafId == IF IsLeaf(n) THEN c.node ELSE FindLargest(n.childrenIds[c.entry])
      leaf == nodes[leafId]
      rest == IF IsLeaf(n) THEN RemoveAt(leaf.entries, c.entry) ELSE Front(leaf.entries)
      replaced == IF IsLeaf(n) THEN nodes
                  ELSE [nodes EXCEPT ![c.node].entries[c.entry] = Last(leaf.entries)]
  IN  /\ nodes' = [replaced EXCEPT ![leafId].entries = rest]
      /\ op' = IF Len(rest) >= MinEntriesPerNode \/ leaf.parentId = 0 THEN Resume
               ELSE [op EXCEPT !.name = "rebalance", !.node = leafId]
      /\ UNCHANGED <<allowDuplicateKeys, rootNode>>

(* Tree.Delete(key), of a tree without duplicate keys.                     *)
DeleteKey(key) ==
  /\ op.name = "idle" /\ ~ allowDuplicateKeys
  /\ LET c == MoveForward(LargerThanOrEqualTo(key)) IN
       /\ c # End /\ EntryAt(c)[1] = key
       /\ RemoveEntry(c)

(* Tree.Delete(key, value), of a tree with duplicate keys: every entry     *)
(* found is removed and the search begins anew.                            *)
DeleteEntry(entry) ==
  /\ op.name = "idle" /\ allowDuplicateKeys
  /\ op' = [Idle EXCEPT !.name = "delete", !.entry = entry]
  /\ UNCHANGED <<allowDuplicateKeys, nodes, rootNode>>

(* Mutant: the search goes on behind the first entry of the key.           *)
MutantMatches(entry) ==
  LET all == Iterate(LargerThan(entry[1]), "ascending", Size + 1)
  IN  SelectSeq(all, LAMBDA c : EntryAt(c) = entry)

(* The entries equal to one, in the order an iteration from its key on     *)
(* comes upon them.                                                        *)
Matches(entry) ==
  LET all == Iterate(LargerThanOrEqualTo(entry[1]), "ascending", Size + 1)
  IN  SelectSeq(all, LAMBDA c : EntryAt(c) = entry)

DeleteNext ==
  /\ op.name = "delete"
  /\ IF Matches(op.entry) # <<>>
       THEN RemoveEntry(Head(Matches(op.entry)))
       ELSE op' = Idle /\ UNCHANGED <<allowDuplicateKeys, nodes, rootNode>>

-----------------------------------------------------------------------------
(* TreeNode.Rebalance, one level.  The place of the deficient node in its  *)
(* parent, and whether a sibling has an entry to spare.                    *)
Deficient == nodes[op.node]
ParentOf == nodes[Deficient.parentId]
Place == IndexInParent(nodes, op.node)
HasRight == Place < Len(ParentOf.childrenIds)
HasLeft == Place > 1
RightSibling == ParentOf.childrenIds[Place + 1]
LeftSibling == ParentOf.childrenIds[Place - 1]

CanSpare(id) == Len(nodes[id].entries) > MinEntriesPerNode

RotateLeft ==
  /\ op.name = "rebalance"
  /\ HasRight /\ CanSpare(RightSibling)
  /\ LET right == nodes[RightSibling]
         moved == Part(right.childrenIds, 1, 1)
     IN  nodes' = Adopt(
           [nodes EXCEPT
              ![op.node].entries = Append(@, ParentOf.entries[Place]),
              ![op.node].childrenIds = @ \o moved,
              ![Deficient.parentId].entries[Place] = Head(right.entries),
              ![RightSibling].entries = Tail(@),
              ![RightSibling].childrenIds = SubSeq(@, 2, Len(@))],
           Range(moved), op.node)
  /\ op' = Resume
  /\ UNCHANGED <<allowDuplicateKeys, rootNode>>

RotateRight ==
  /\ op.name = "rebalance"
  /\ ~ (HasRight /\ CanSpare(RightSibling))
  /\ HasLeft /\ CanSpare(LeftSibling)
  /\ LET left == nodes[LeftSibling]
         moved == IF IsLeaf(left) THEN <<>> ELSE <<Last(left.childrenIds)>>
     IN  nodes' = Adopt(
           [nodes EXCEPT
              ![op.node].entries = <<ParentOf.entries[Place - 1]>> \o @,
              ![op.node].childrenIds = moved \o @,
              ![Deficient.parentId].entries[Place - 1] = Last(left.entries),
              ![LeftSibling].entries = Front(@),
              ![LeftSibling].childrenIds = SubSeq(@, 1, Len(@) - 1)],
           Range(moved), op.node)
  /\ op' = Resume
  /\ UNCHANGED <<allowDuplicateKeys, rootNode>>

Merged(left, separator, right) ==
  [left EXCEPT !.entries = @ \o <<separator>> \o right.entries,
               !.childrenIds = @ \o right.childrenIds]

(* Mutant: the parent keeps the child that is gone.                        *)
MutantLessSeparator(parent, separator) ==
  [parent EXCEPT !.entries = RemoveAt(@, separator), !.childrenIds = RemoveAt(@, separator)]

LessSeparator(parent, separator) ==
  [parent EXCEPT !.entries = RemoveAt(@, separator), !.childrenIds = RemoveAt(@, separator + 1)]

(* With the right sibling if there is one, else with the left one.  The    *)
(* root goes when it has lost its last entry; another parent may have to   *)
(* be rebalanced in its turn.                                              *)
Merge ==
  /\ op.name = "rebalance"
  /\ ~ (HasRight /\ CanSpare(RightSibling))
  /\ ~ (HasLeft /\ CanSpare(LeftSibling))
  /\ LET separator == IF HasRight THEN Place ELSE Place - 1
         parentId == Deficient.parentId
         leftId == ParentOf.childrenIds[separator]
         rightId == ParentOf.childrenIds[separator + 1]
         merged == Merged(nodes[leftId], ParentOf.entries[separator], nodes[rightId])
         parent == LessSeparator(ParentOf, separator)
         joined == Without(Adopt(Put(Put(nodes, parentId, parent), leftId, merged),
                                 Range(nodes[rightId].childrenIds), leftId), {rightId})
     IN  IF parent.parentId = 0 /\ parent.entries = <<>>
           THEN /\ nodes' = Without(Adopt(joined, {leftId}, 0), {parentId})
                /\ rootNode' = leftId
                /\ op' = Resume
           ELSE /\ nodes' = joined
                /\ op' = IF parent.parentId # 0 /\ Len(parent.entries) < MinEntriesPerNode
                           THEN [op EXCEPT !.node = parentId] ELSE Resume
                /\ UNCHANGED rootNode
  /\ UNCHANGED allowDuplicateKeys

Next ==
  \/ \E key \in Key : DeleteKey(key)
  \/ \E entry \in Entry : Insert(entry) \/ DeleteEntry(entry)
  \/ Split \/ DeleteNext \/ RotateLeft \/ RotateRight \/ Merge

Spec == Init /\ [][Next]_vars

-----------------------------------------------------------------------------
TypeOK ==
  /\ allowDuplicateKeys \in BOOLEAN
  /\ rootNode \in DOMAIN nodes
  /\ \A id \in DOMAIN nodes :
       /\ nodes[id].parentId \in DOMAIN nodes \cup {0}
       /\ nodes[id].entries \in Seq(Entry)
       /\ nodes[id].childrenIds \in Seq(DOMAIN nodes)
  /\ op.name \in {"idle", "split", "delete", "rebalance"}
  /\ op.node \in DOMAIN nodes \cup {0}
  /\ op.entry \in Entry \cup {NoEntry}

(* Parents and children name each other, at every step of a split or a     *)
(* rebalancing: every node but the root is the child of one node, once,    *)
(* and an inner node has a child on either side of each entry.             *)
ParentsAgree ==
  /\ \A id \in DOMAIN nodes :
       /\ IsLeaf(nodes[id]) \/ Len(nodes[id].childrenIds) = Len(nodes[id].entries) + 1
       /\ IsInjective(nodes[id].childrenIds)
       /\ \A child \in Range(nodes[id].childrenIds) : nodes[child].parentId = id
       /\ id # rootNode <=> nodes[id].parentId # 0
       /\ id # rootNode => id \in Range(nodes[nodes[id].parentId].childrenIds)

(* All leaves are at the same depth.                                       *)
Balanced ==
  LET depth[id \in DOMAIN nodes] ==
        IF nodes[id].parentId = 0 THEN 0 ELSE 1 + depth[nodes[id].parentId]
  IN  \A a, b \in {id \in DOMAIN nodes : IsLeaf(nodes[id])} : depth[a] = depth[b]

(* The nodes are a tree, and a balanced one, in the middle of operations,  *)
(* too (TreeNode.Split and Rebalance, which move nodes between parents).   *)
TreeShape == ParentsAgree /\ Balanced

(* No node has too few or too many entries, but the one the next step of a *)
(* split or rebalancing is about, by one (TreeNode.IsOverflow, Rebalance). *)
Occupancy ==
  \A id \in DOMAIN nodes :
    LET least == IF id = rootNode THEN IF IsLeaf(nodes[id]) THEN 0 ELSE 1
                 ELSE MinEntriesPerNode
        at(name) == IF op.name = name /\ op.node = id THEN 1 ELSE 0
    IN  Len(nodes[id].entries) \in least - at("rebalance") .. 2 * MinEntriesPerNode + at("split")

(* The entries of the tree from left to right.                             *)
InOrder ==
  LET from[id \in DOMAIN nodes, i \in 1 .. 2 * MinEntriesPerNode + 2] ==
        LET n == nodes[id] IN
        (IF IsLeaf(n) THEN <<>> ELSE from[n.childrenIds[i], 1])
          \o (IF i > Len(n.entries) THEN <<>> ELSE <<n.entries[i]>> \o from[id, i + 1])
  IN  from[rootNode, 1]

Scan(start, direction) ==
  LET cursors == Iterate(start, direction, Size + 1) IN
  [i \in 1 .. Len(cursors) |-> EntryAt(cursors[i])]

(* Between operations the four range scans return exactly the entries      *)
(* their keys ask for, in order (TreeEnumerator against Tree.Insert and    *)
(* Delete).                                                                *)
RangeScans ==
  op.name = "idle" =>
    LET all == InOrder IN
    /\ \A i \in 2 .. Len(all) : all[i - 1][1] <= all[i][1]
    /\ \A key \in Key :
         /\ Scan(LargerThanOrEqualTo(key), "ascending") = SelectSeq(all, LAMBDA e : e[1] >= key)
         /\ Scan(LargerThan(key), "ascending") = SelectSeq(all, LAMBDA e : e[1] > key)
         /\ Scan(LessThanOrEqualTo(key), "descending")
              = Reverse(SelectSeq(all, LAMBDA e : e[1] <= key))
         /\ Scan(LessThan(key), "descending") = Reverse(SelectSeq(all, LAMBDA e : e[1] < key))

(* Between operations Get returns an entry of its key if there is one      *)
(* (Tree.Get, which searches the way Insert does).                         *)
GetFinds ==
  op.name = "idle" =>
    LET stored == UNION {Range(nodes[id].entries) : id \in DOMAIN nodes} IN
    \A key \in Key :
      IF key \in {e[1] : e \in stored} THEN Get(key) \in stored /\ Get(key)[1] = key
                                      ELSE Get(key) = NoEntry

Contents ==
  LET places == UNION {{id} \X DOMAIN nodes[id].entries : id \in DOMAIN nodes}
  IN  [e \in {nodes[p[1]].entries[p[2]] : p \in places} |->
         Cardinality({p \in places : nodes[p[1]].entries[p[2]] = e})]

FirstOf(entry) == entry[1]

Index == INSTANCE OrderedIndex WITH
  Entry    <- UniqueEntry \cup DuplicateEntry,
  KeyOf    <- FirstOf,
  unique   <- ~ allowDuplicateKeys,
  contents <- Contents,
  deleting <- op.entry

(* A tree is an ordered index: an insertion adds one entry, a removal      *)
(* takes one out, and splitting and rebalancing change nothing.            *)
ImplementsIndex == Index!Spec
=============================================================================
