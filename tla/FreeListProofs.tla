---------------------------- MODULE FreeListProofs ----------------------------
(***************************************************************************)
(* What the free list of RecordStorage promises to the operations that use *)
(* it: the invariant between any two block writes, the writes that keep    *)
(* it, that AllocateBlock and MarkAsFree make no others, and that they     *)
(* hand out and take back the blocks they should.                          *)
(***************************************************************************)
EXTENDS ChainProofs

Cells(s) == Nat \cup UNION {Range(p) : p \in s.payload}

Blocks(s) ==
  [next : Nat, length : Nat, size : 0 .. s.contentSize, prev : Nat, deleted : BOOLEAN,
   cells : [1 .. s.contentSize -> Cells(s)]]

FormedBlock(s, D, b) == b \in Blocks(s) /\ b.next \in DOMAIN D /\ b.prev \in DOMAIN D

Formed(s, D) ==
  /\ Size(D) \in Nat \ {0}
  /\ D \in [0 .. Size(D) - 1 -> Blocks(s)]
  /\ \A id \in DOMAIN D : FormedBlock(s, D, D[id])

-----------------------------------------------------------------------------
(* Blocks.                                                                 *)

LEMMA SettingFacts ==
  ASSUME NEW s \in Setting
  PROVE  s.contentSize \in Nat \ {0} /\ s.maxCrashes \in Nat /\ NoData \notin s.payload
  BY SettingAssumption

LEMMA PayloadFacts ==
  ASSUME NEW s \in Setting, NEW p \in s.payload
  PROVE  p \in Seq(Cells(s)) /\ Len(p) \in Nat /\ p # NoData
<1>1. p \in Seq(Range(p)) /\ NoData \notin s.payload
  BY SettingAssumption
<1>2. Range(p) \subseteq Cells(s)
  BY DEF Cells
<1> QED
  BY <1>1, <1>2

LEMMA BlockFacts ==
  ASSUME NEW s \in Setting, NEW b \in Blocks(s)
  PROVE  /\ b.next \in Nat /\ b.length \in Nat /\ b.prev \in Nat /\ b.deleted \in BOOLEAN
         /\ b.size \in 0 .. s.contentSize /\ b.size \in Nat
         /\ b.cells \in [1 .. s.contentSize -> Cells(s)]
         /\ b.cells \in Seq(Cells(s)) /\ Len(b.cells) = s.contentSize
         /\ \A j \in 1 .. b.size : j \in 1 .. s.contentSize
<1>1. s.contentSize \in Nat \ {0}
  BY SettingFacts
<1> QED
  BY <1>1 DEF Blocks

LEMMA UsedFacts ==
  ASSUME NEW s \in Setting, NEW b \in Blocks(s)
  PROVE  /\ Used(b) \in Seq(Cells(s)) /\ Len(Used(b)) = b.size
         /\ \A j \in 1 .. b.size : Used(b)[j] = b.cells[j]
<1>1. /\ s.contentSize \in Nat \ {0} /\ b.size \in Nat
      /\ \A j \in 1 .. b.size : b.cells[j] \in Cells(s)
  BY SettingFacts, BlockFacts
<1> DEFINE n == b.size
           c == b.cells
<1>2. /\ SubSeq(c, 1, n) \in Seq(Cells(s))
      /\ Len(SubSeq(c, 1, n)) = IF 1 <= n THEN n - 1 + 1 ELSE 0
      /\ \A i \in 1 .. n - 1 + 1 : SubSeq(c, 1, n)[i] = c[1 + i - 1]
  <2>1. 1 \in Int /\ n \in Int /\ \A j \in 1 .. n : c[j] \in Cells(s)
    BY <1>1
  <2> HIDE DEF n, c
  <2> QED
    BY <2>1, SubSeqProperties
<1>3. n \in Nat
  BY <1>1
<1>4. Used(b) = SubSeq(c, 1, n)
  BY DEF Used
<1> HIDE DEF n, c
<1>5. (IF 1 <= n THEN n - 1 + 1 ELSE 0) = n /\ n - 1 + 1 = n /\ \A i \in 1 .. n : 1 + i - 1 = i
  BY <1>3
<1>6. /\ Used(b) \in Seq(Cells(s)) /\ Len(Used(b)) = n
      /\ \A j \in 1 .. n : Used(b)[j] = c[j]
  BY <1>2, <1>4, <1>5
<1> QED
  BY <1>6 DEF n, c

LEMMA AppendUInt32Facts ==
  ASSUME NEW s \in Setting, NEW b \in Blocks(s), b.size < s.contentSize, NEW n \in Nat
  PROVE  /\ AppendUInt32(b, n) \in Blocks(s)
         /\ AppendUInt32(b, n).size = b.size + 1
         /\ AppendUInt32(b, n).next = b.next /\ AppendUInt32(b, n).prev = b.prev
         /\ AppendUInt32(b, n).deleted = b.deleted
         /\ \A j \in 1 .. b.size : AppendUInt32(b, n).cells[j] = b.cells[j]
         /\ AppendUInt32(b, n).cells[b.size + 1] = n
<1>1. s.contentSize \in Nat \ {0} /\ n \in Cells(s)
  BY SettingFacts DEF Cells
<1> DEFINE cc == [b.cells EXCEPT ![b.size + 1] = n]
<1>2. /\ b.size \in Nat /\ b.size + 1 \in 1 .. s.contentSize
      /\ b.cells \in [1 .. s.contentSize -> Cells(s)]
  BY <1>1, BlockFacts
<1>3. /\ cc \in [1 .. s.contentSize -> Cells(s)]
      /\ \A j \in 1 .. b.size : cc[j] = b.cells[j]
      /\ cc[b.size + 1] = n
  BY <1>1, <1>2
<1>4. AppendUInt32(b, n) = [b EXCEPT !.size = b.size + 1, !.cells = cc]
  BY DEF AppendUInt32
<1> HIDE DEF cc
<1> DEFINE a == AppendUInt32(b, n)
<1>5. /\ a.size = b.size + 1 /\ a.cells = cc /\ a.next = b.next /\ a.prev = b.prev
      /\ a.deleted = b.deleted
  BY <1>4 DEF Blocks
<1>6. a \in Blocks(s)
  <2>1. b.size + 1 \in 0 .. s.contentSize
    BY <1>1, <1>2
  <2> QED
    BY <1>3, <1>4, <2>1 DEF Blocks
<1> HIDE DEF a
<1> QED
  BY <1>3, <1>5, <1>6 DEF a

LEMMA DropUInt32Facts ==
  ASSUME NEW s \in Setting, NEW b \in Blocks(s), b.size # 0
  PROVE  /\ DropUInt32(b) \in Blocks(s)
         /\ DropUInt32(b).size = b.size - 1
         /\ DropUInt32(b).next = b.next /\ DropUInt32(b).prev = b.prev
         /\ DropUInt32(b).deleted = b.deleted
         /\ DropUInt32(b).cells = b.cells
<1>1. s.contentSize \in Nat \ {0}
  BY SettingFacts
<1> QED
  BY <1>1 DEF DropUInt32, Blocks

LEMMA FreshFacts ==
  ASSUME setting \in Setting
  PROVE  /\ Fresh \in Blocks(setting)
         /\ Fresh.next = 0 /\ Fresh.length = 0 /\ Fresh.size = 0 /\ Fresh.prev = 0
         /\ Fresh.deleted = FALSE
<1>1. setting.contentSize \in Nat \ {0} /\ 0 \in Cells(setting)
  BY SettingFacts DEF Cells
<1> QED
  BY <1>1 DEF Fresh, Blocks, BlockContentSize

LEMMA ResetFacts ==
  ASSUME setting \in Setting, NEW b \in Blocks(setting)
  PROVE  /\ Reset(b) \in Blocks(setting)
         /\ Reset(b).next = 0 /\ Reset(b).length = 0 /\ Reset(b).size = 0 /\ Reset(b).prev = 0
         /\ Reset(b).deleted = FALSE
<1>1. Reset(b) = [Fresh EXCEPT !.cells = b.cells]
  BY DEF Reset
<1> QED
  BY <1>1, FreshFacts, BlockFacts DEF Blocks

LEMMA FillFacts ==
  ASSUME setting \in Setting, NEW b \in Blocks(setting),
         NEW data \in Seq(Cells(setting)), Len(data) <= setting.contentSize
  PROVE  /\ Fill(b, data) \in Blocks(setting)
         /\ Used(Fill(b, data)) = data /\ Fill(b, data).size = Len(data)
         /\ Fill(b, data).next = b.next /\ Fill(b, data).length = b.length
         /\ Fill(b, data).prev = b.prev /\ Fill(b, data).deleted = b.deleted
<1> DEFINE N == setting.contentSize
           L == Len(data)
           r == SubSeq(b.cells, L + 1, N)
           x == data \o r
<1>1. N \in Nat \ {0} /\ L \in Nat /\ L <= N
  BY SettingFacts
<1>2. \A j \in L + 1 .. N : b.cells[j] \in Cells(setting)
  <2>1. b.cells \in [1 .. N -> Cells(setting)]
    BY BlockFacts
  <2> QED
    BY <1>1, <2>1
<1>3. r \in Seq(Cells(setting)) /\ Len(r) = IF L + 1 <= N THEN N - (L + 1) + 1 ELSE 0
  <2>1. L + 1 \in Int /\ N \in Int
    BY <1>1
  <2> HIDE DEF L, N
  <2> QED
    BY <1>2, <2>1, SubSeqProperties
<1>4. Len(r) = N - L
  <2> HIDE DEF L, N, r
  <2> QED
    BY <1>1, <1>3
<1>5. x \in Seq(Cells(setting)) /\ Len(x) = N
  <2>1. x \in Seq(Cells(setting)) /\ Len(x) = L + Len(r)
    <3> HIDE DEF r
    <3> QED
      BY <1>3, ConcatProperties
  <2> HIDE DEF x, L, N, r
  <2> QED
    BY <1>1, <1>4, <2>1
<1>6. x \in [1 .. N -> Cells(setting)]
  <2> HIDE DEF x, N
  <2> QED
    BY <1>5, LenProperties
<1>7. Fill(b, data) = [b EXCEPT !.size = L, !.cells = x]
  BY DEF Fill, BlockContentSize
<1>8. /\ Fill(b, data) \in Blocks(setting)
      /\ Fill(b, data).size = L /\ Fill(b, data).cells = x
      /\ Fill(b, data).next = b.next /\ Fill(b, data).length = b.length
      /\ Fill(b, data).prev = b.prev /\ Fill(b, data).deleted = b.deleted
  <2>1. L \in 0 .. N
    BY <1>1
  <2> HIDE DEF x
  <2> QED
    BY <1>6, <1>7, <2>1 DEF Blocks
<1>9. SubSeq(x, 1, L) = data
  <2>1. CASE L = 0
    <3>1. data = <<>>
      BY <2>1
    <3>2. SubSeq(x, 1, 0) = <<>>
      BY SubSeqEmpty
    <3> QED
      BY <2>1, <3>1, <3>2
  <2>2. CASE L # 0
    <3>1. 1 \in 1 .. L /\ L \in 1 .. L
      BY <1>1, <2>2
    <3>2. SubSeq(x, 1, L) = SubSeq(data, 1, L)
      <4> HIDE DEF r
      <4> QED
        BY <1>3, <3>1, SubSeqOfConcat1
    <3> QED
      BY <3>2, SubSeqFull
  <2> QED
    BY <2>1, <2>2
<1>10. Used(Fill(b, data)) = data
  <2> HIDE DEF x, L
  <2> QED
    BY <1>8, <1>9 DEF Used
<1> QED
  BY <1>8, <1>10

-----------------------------------------------------------------------------
(* Streams.                                                                *)

LEMMA FormedFacts ==
  ASSUME NEW s \in Setting, NEW D, Formed(s, D)
  PROVE  /\ Sound(D)
         /\ Size(D) \in Nat \ {0} /\ DOMAIN D = 0 .. Size(D) - 1
         /\ 0 \in DOMAIN D /\ DOMAIN D \subseteq Nat
         /\ D # <<>>
         /\ \A id \in DOMAIN D : /\ D[id] \in Blocks(s)
                                 /\ D[id].next \in DOMAIN D /\ D[id].prev \in DOMAIN D
                                 /\ Used(D[id]) \in Seq(Cells(s))
<1>1. /\ Size(D) \in Nat \ {0} /\ DOMAIN D = 0 .. Size(D) - 1
      /\ \A id \in DOMAIN D : FormedBlock(s, D, D[id])
  BY DEF Formed
<1>2. IsFiniteSet(DOMAIN D)
  <2>1. 0 \in Int /\ Size(D) - 1 \in Int
    BY <1>1
  <2> QED
    BY <1>1, <2>1, FS_Interval
<1>3. Sound(D)
  BY <1>1, <1>2 DEF Sound, FormedBlock
<1>4. 0 \in DOMAIN D /\ DOMAIN D \subseteq Nat
  BY <1>1
<1>5. D # <<>>
  <2>1. DOMAIN <<>> = {}
    OBVIOUS
  <2> QED
    BY <1>4, <2>1
<1>6. ASSUME NEW id \in DOMAIN D
      PROVE  /\ D[id] \in Blocks(s)
             /\ D[id].next \in DOMAIN D /\ D[id].prev \in DOMAIN D
             /\ Used(D[id]) \in Seq(Cells(s))
  <2>1. D[id] \in Blocks(s) /\ D[id].next \in DOMAIN D /\ D[id].prev \in DOMAIN D
    BY <1>1 DEF FormedBlock
  <2> QED
    BY <2>1, UsedFacts
<1> QED
  BY <1>1, <1>3, <1>4, <1>5, <1>6

LEMMA ExtendFacts ==
  ASSUME setting \in Setting, NEW D, Size(D) \in Nat, DOMAIN D = 0 .. Size(D) - 1,
         \A id \in DOMAIN D : FormedBlock(setting, D, D[id])
  PROVE  /\ Formed(setting, Extend(D))
         /\ Size(Extend(D)) = Size(D) + 1
         /\ Size(D) \in DOMAIN Extend(D) /\ Size(D) \notin DOMAIN D
         /\ DOMAIN Extend(D) = DOMAIN D \cup {Size(D)}
         /\ Extend(D)[Size(D)] = Fresh
         /\ \A id \in DOMAIN D : Extend(D)[id] = D[id]
<1> DEFINE N == Size(D)
           E == Extend(D)
<1>1. N \in Nat /\ DOMAIN D = 0 .. N - 1 /\ \A id \in DOMAIN D : FormedBlock(setting, D, D[id])
  OBVIOUS
<1>2. E = [id \in 0 .. N |-> IF id = N THEN Fresh ELSE D[id]]
  BY DEF Extend
<1> HIDE DEF N, E
<1>3. /\ DOMAIN E = 0 .. N /\ E[N] = Fresh
      /\ \A id \in 0 .. N - 1 : E[id] = D[id]
      /\ 0 .. N = (0 .. N - 1) \cup {N} /\ N \notin 0 .. N - 1 /\ N \in 0 .. N /\ 0 \in 0 .. N
  BY <1>1, <1>2
<1>4. Size(E) = N + 1
  <2>1. 0 \in Int /\ N \in Int
    BY <1>1
  <2>2. Cardinality(0 .. N) = IF 0 > N THEN 0 ELSE N - 0 + 1
    BY <2>1, FS_Interval
  <2> QED
    BY <1>1, <1>3, <2>2 DEF Size
<1>5. ASSUME NEW id \in 0 .. N PROVE FormedBlock(setting, E, E[id])
  <2>1. CASE id = N
    BY <1>3, <2>1, FreshFacts DEF FormedBlock
  <2>2. CASE id # N
    <3>1. id \in DOMAIN D /\ DOMAIN D \subseteq DOMAIN E
      BY <1>1, <1>3, <2>2
    <3> QED
      BY <1>1, <1>3, <3>1 DEF FormedBlock
  <2> QED
    BY <2>1, <2>2
<1>6. Formed(setting, E)
  <2>1. N + 1 \in Nat \ {0} /\ N + 1 - 1 = N
    BY <1>1
  <2>2. E = [id \in 0 .. N |-> E[id]]
    BY <1>2
  <2>3. \A id \in 0 .. N : E[id] \in Blocks(setting)
    BY <1>5 DEF FormedBlock
  <2>4. E \in [0 .. N -> Blocks(setting)]
    BY <2>2, <2>3
  <2> QED
    BY <1>3, <1>4, <1>5, <2>1, <2>4 DEF Formed
<1> QED
  BY <1>1, <1>3, <1>4, <1>6 DEF N, E

LEMMA FormedExtend ==
  ASSUME setting \in Setting, NEW D, Formed(setting, D)
  PROVE  /\ Formed(setting, Extend(D))
         /\ Size(Extend(D)) = Size(D) + 1
         /\ Size(D) \in DOMAIN Extend(D) /\ Size(D) \notin DOMAIN D /\ Size(D) # 0
         /\ DOMAIN Extend(D) = DOMAIN D \cup {Size(D)}
         /\ Extend(D)[Size(D)] = Fresh
         /\ \A id \in DOMAIN D : Extend(D)[id] = D[id]
<1>1. Size(D) \in Nat \ {0} /\ DOMAIN D = 0 .. Size(D) - 1
  BY FormedFacts
<1>2. \A id \in DOMAIN D : FormedBlock(setting, D, D[id])
  BY DEF Formed
<1> QED
  BY <1>1, <1>2, ExtendFacts

(* A stream of which one block is written.                                 *)
Changed(D, E, id, b) ==
  /\ id \in DOMAIN D /\ DOMAIN E = DOMAIN D
  /\ E[id] = b
  /\ \A other \in DOMAIN D : other # id => E[other] = D[other]

LEMMA FormedExcept ==
  ASSUME NEW s \in Setting, NEW D, Formed(s, D), NEW id \in DOMAIN D, NEW b, FormedBlock(s, D, b)
  PROVE  /\ Formed(s, [D EXCEPT ![id] = b])
         /\ Changed(D, [D EXCEPT ![id] = b], id, b)
<1> DEFINE E == [D EXCEPT ![id] = b]
<1>1. /\ Size(D) \in Nat \ {0}
      /\ D \in [0 .. Size(D) - 1 -> Blocks(s)]
      /\ \A k \in DOMAIN D : FormedBlock(s, D, D[k])
  BY DEF Formed
<1>2. DOMAIN E = DOMAIN D /\ E[id] = b /\ \A k \in DOMAIN D : k # id => E[k] = D[k]
  BY <1>1
<1>3. E \in [0 .. Size(D) - 1 -> Blocks(s)]
  BY <1>1 DEF FormedBlock
<1> HIDE DEF E
<1>4. Size(E) = Size(D)
  BY <1>2 DEF Size
<1>5. \A k \in DOMAIN E : FormedBlock(s, E, E[k])
  BY <1>1, <1>2 DEF FormedBlock
<1>6. Formed(s, E)
  BY <1>1, <1>3, <1>4, <1>5 DEF Formed
<1> QED
  BY <1>2, <1>6 DEF E, Changed

-----------------------------------------------------------------------------
(* The free list and what must hold between any two writes.                *)

Tracking(D) == Members(D, 0)

Free(D) == {n \in DOMAIN D : \E t \in Tracking(D) : \E j \in 1 .. D[t].size : D[t].cells[j] = n}

(* Only the last block of the list's chain has room.                       *)
Sealed(s, D) ==
  \A t \in Tracking(D) : ~ D[t].deleted /\ (D[t].next # 0 => D[t].size = s.contentSize)

(* The numbers in the list are blocks, but not the list's own ...          *)
Outside(D) ==
  \A t \in Tracking(D) : \A j \in 1 .. D[t].size : D[t].cells[j] \in DOMAIN D \ Tracking(D)

(* ... and none of them is there twice.                                    *)
NoneTwice(D) ==
  \A t, u \in Tracking(D) : \A j \in 1 .. D[t].size : \A k \in 1 .. D[u].size :
    D[t].cells[j] = D[u].cells[k] => t = u /\ j = k

FreeList(s, D) == Chained(D, 0) /\ Sealed(s, D) /\ Outside(D) /\ NoneTwice(D)

InRecords(D, R) == UNION {Members(D, id) : id \in DOMAIN R}

(* The records "R" read back, and have blocks of their own.                *)
Apart(D, R) ==
  \A id \in DOMAIN R :
    /\ Chained(D, id) /\ Lookup(D, id) = R[id]
    /\ Members(D, id) \cap (Tracking(D) \cup Free(D)) = {}
    /\ \A other \in DOMAIN R : other # id => Members(D, id) \cap Members(D, other) = {}

(* The ids "G" read as deleted.                                            *)
Left(D, G) == \A id \in G : id \in DOMAIN D \ Tracking(D) /\ (D[id].deleted \/ D[id].prev # 0)

Kept(s, D, R, G) == Formed(s, D) /\ FreeList(s, D) /\ Apart(D, R) /\ Left(D, G)

LEMMA FreeListFacts ==
  ASSUME NEW s \in Setting, NEW D, Formed(s, D), FreeList(s, D)
  PROVE  /\ 0 \in Tracking(D) /\ Tracking(D) \subseteq DOMAIN D
         /\ Free(D) \subseteq DOMAIN D \ Tracking(D) /\ 0 \notin Free(D)
<1>1. 0 \in Tracking(D) /\ Tracking(D) \subseteq DOMAIN D
  BY MembersOfChained DEF FreeList, Tracking
<1>2. Free(D) \subseteq DOMAIN D \ Tracking(D)
  BY DEF FreeList, Free, Outside
<1> QED
  BY <1>1, <1>2

(* The list is the same as long as its blocks are.                         *)
LEMMA ListUnchanged ==
  ASSUME NEW s \in Setting, NEW D, Formed(s, D), FreeList(s, D),
         NEW D2, Formed(s, D2), DOMAIN D \subseteq DOMAIN D2,
         \A t \in Tracking(D) : D2[t] = D[t]
  PROVE  /\ FreeList(s, D2)
         /\ Chain(D2, 0) = Chain(D, 0)
         /\ Tracking(D2) = Tracking(D) /\ Free(D2) = Free(D)
<1>1. Tracking(D) \subseteq DOMAIN D /\ Sound(D2) /\ Chained(D, 0)
  BY FreeListFacts, FormedFacts DEF FreeList
<1>2. Chained(D2, 0) /\ Chain(D2, 0) = Chain(D, 0) /\ Tracking(D2) = Tracking(D)
  <2>1. \A m \in Members(D, 0) : m \in DOMAIN D2 /\ D2[m].next = D[m].next
    BY <1>1 DEF Tracking
  <2> QED
    BY <1>1, <2>1, ChainUnchanged DEF Tracking
<1>3. Free(D2) = Free(D)
  <2>1. \A t \in Tracking(D) : \A j \in 1 .. D[t].size : D[t].cells[j] \in DOMAIN D
    BY DEF FreeList, Outside
  <2> QED
    BY <1>2, <2>1 DEF Free
<1>4. Sealed(s, D2) /\ Outside(D2)
  BY <1>2 DEF FreeList, Sealed, Outside
<1>5. NoneTwice(D2)
  BY <1>2 DEF FreeList, NoneTwice
<1>6. FreeList(s, D2)
  BY <1>2, <1>4, <1>5 DEF FreeList
<1> QED
  BY <1>2, <1>3, <1>6

(* Whatever is done to the list and to blocks of nobody, the records stay. *)
LEMMA KeptThrough ==
  ASSUME NEW s \in Setting, NEW D, NEW R, NEW G, Kept(s, D, R, G),
         NEW D2, Formed(s, D2), DOMAIN D \subseteq DOMAIN D2, FreeList(s, D2), Left(D2, G),
         \A m \in InRecords(D, R) : D2[m] = D[m],
         InRecords(D, R) \cap (Tracking(D2) \cup Free(D2)) = {}
  PROVE  /\ Kept(s, D2, R, G)
         /\ InRecords(D2, R) = InRecords(D, R)
<1>1. ASSUME NEW id \in DOMAIN R
      PROVE  /\ Chained(D2, id) /\ Members(D2, id) = Members(D, id)
             /\ Lookup(D2, id) = R[id]
  <2>1. Chained(D, id) /\ Lookup(D, id) = R[id] /\ Sound(D2)
    BY FormedFacts DEF Kept, Apart
  <2>2. \A m \in Members(D, id) : m \in DOMAIN D2 /\ D2[m] = D[m]
    BY <2>1, MembersOfChained DEF InRecords
  <2> QED
    BY <2>1, <2>2, LookupUnchanged
<1>2. InRecords(D2, R) = InRecords(D, R)
  BY <1>1 DEF InRecords
<1>3. Apart(D2, R)
  <2> SUFFICES ASSUME NEW id \in DOMAIN R
               PROVE  /\ Members(D, id) \cap (Tracking(D2) \cup Free(D2)) = {}
                      /\ \A other \in DOMAIN R :
                           other # id => Members(D, id) \cap Members(D, other) = {}
    BY <1>1, Zenon DEF Apart
  <2>1. Members(D, id) \subseteq InRecords(D, R)
    BY DEF InRecords
  <2> QED
    BY <2>1 DEF Kept, Apart
<1> QED
  BY <1>2, <1>3 DEF Kept

(* Nothing that matters is touched when blocks of nobody are written.      *)
LEMMA KeptAside ==
  ASSUME NEW s \in Setting, NEW D, NEW R, NEW G, Kept(s, D, R, G),
         NEW D2, Formed(s, D2), DOMAIN D \subseteq DOMAIN D2,
         \A m \in Tracking(D) \cup InRecords(D, R) : D2[m] = D[m],
         \A id \in G : D2[id].deleted \/ D2[id].prev # 0
  PROVE  /\ Kept(s, D2, R, G)
         /\ Chain(D2, 0) = Chain(D, 0)
         /\ Tracking(D2) = Tracking(D) /\ Free(D2) = Free(D)
         /\ InRecords(D2, R) = InRecords(D, R)
<1>1. Formed(s, D) /\ FreeList(s, D) /\ Apart(D, R) /\ Left(D, G)
  BY DEF Kept
<1>2. /\ FreeList(s, D2) /\ Chain(D2, 0) = Chain(D, 0)
      /\ Tracking(D2) = Tracking(D) /\ Free(D2) = Free(D)
  BY <1>1, ListUnchanged
<1>3. Left(D2, G)
  BY <1>1, <1>2 DEF Left
<1>4. InRecords(D, R) \cap (Tracking(D2) \cup Free(D2)) = {}
  BY <1>1, <1>2 DEF Apart, InRecords
<1>5. Kept(s, D2, R, G) /\ InRecords(D2, R) = InRecords(D, R)
  BY <1>2, <1>3, <1>4, KeptThrough
<1> QED
  BY <1>2, <1>5

(* The last block of the list's chain.                                     *)
LEMMA LastOfList ==
  ASSUME NEW s \in Setting, NEW D, Formed(s, D), FreeList(s, D)
  PROVE  /\ Len(Chain(D, 0)) \in Nat \ {0}
         /\ Last(Chain(D, 0)) = Chain(D, 0)[Len(Chain(D, 0))]
         /\ Last(Chain(D, 0)) \in Tracking(D)
         /\ D[Last(Chain(D, 0))].next = 0
         /\ \A t \in Tracking(D) : t # Last(Chain(D, 0)) => D[t].next # 0
<1> DEFINE c == Chain(D, 0)
<1>1. Linked(D, c)
  BY DEF FreeList, Chained
<1> HIDE DEF c
<1>0. D[c[Len(c)]].next = 0
  BY <1>1 DEF Linked
<1>2. /\ Len(c) \in Nat \ {0} /\ c[Len(c)] \in Range(c)
      /\ \A m \in Range(c) : \E i \in 1 .. Len(c) : m = c[i]
      /\ D[c[Len(c)]].next = 0
  BY <1>0, <1>1, MembersOfLinked
<1>3. ASSUME NEW t \in Range(c), t # c[Len(c)] PROVE D[t].next # 0
  <2>1. PICK i \in 1 .. Len(c) : t = c[i]
    BY <1>2
  <2>2. i \in 1 .. Len(c) - 1
    BY <1>2, <1>3, <2>1
  <2> QED
    BY <1>1, <2>1, <2>2 DEF Linked
<1> QED
  BY <1>2, <1>3 DEF Last, Tracking, Members, c

(* The chain does not change when a block keeps its Next header.           *)
LEMMA ListWritten ==
  ASSUME NEW s \in Setting, NEW D, Formed(s, D), FreeList(s, D),
         NEW t \in Tracking(D), NEW b, NEW E, Formed(s, E), Changed(D, E, t, b),
         b.next = D[t].next
  PROVE  Chained(E, 0) /\ Chain(E, 0) = Chain(D, 0) /\ Tracking(E) = Tracking(D)
<1>1. Tracking(D) \subseteq DOMAIN D /\ Chained(D, 0) /\ Sound(E)
  BY FreeListFacts, FormedFacts DEF FreeList
<1>2. \A m \in Members(D, 0) : m \in DOMAIN E /\ E[m].next = D[m].next
  BY <1>1 DEF Tracking, Changed
<1>3. Chained(E, 0) /\ Chain(E, 0) = Chain(D, 0) /\ Members(E, 0) = Members(D, 0)
  BY <1>1, <1>2, ChainUnchanged
<1> QED
  BY <1>3 DEF Tracking

LEMMA RecordsAside ==
  ASSUME NEW D, NEW R, Apart(D, R)
  PROVE  /\ InRecords(D, R) \subseteq DOMAIN D
         /\ InRecords(D, R) \cap (Tracking(D) \cup Free(D)) = {}
<1>1. ASSUME NEW id \in DOMAIN R
      PROVE  /\ Members(D, id) \subseteq DOMAIN D
             /\ Members(D, id) \cap (Tracking(D) \cup Free(D)) = {}
  BY MembersOfChained DEF Apart
<1> QED
  BY <1>1 DEF InRecords

(* A write to a block of the list, when the list it leaves is one.         *)
LEMMA KeptByList ==
  ASSUME NEW s \in Setting, NEW D, NEW R, NEW G, Kept(s, D, R, G),
         NEW t \in Tracking(D), NEW b, NEW E, Formed(s, E), Changed(D, E, t, b),
         FreeList(s, E),
         \A u \in Tracking(E) \ Tracking(D) : u \notin InRecords(D, R) \cup G,
         InRecords(D, R) \cap Free(E) = {}
  PROVE  Kept(s, E, R, G) /\ InRecords(E, R) = InRecords(D, R)
<1>1. Formed(s, D) /\ FreeList(s, D) /\ Apart(D, R) /\ Left(D, G)
  BY DEF Kept
<1>2. Left(E, G)
  BY <1>1 DEF Left, Changed
<1>3. /\ InRecords(D, R) \subseteq DOMAIN D
      /\ InRecords(D, R) \cap (Tracking(D) \cup Free(D)) = {}
  BY <1>1, RecordsAside
<1>4. \A m \in InRecords(D, R) : E[m] = D[m]
  BY <1>3 DEF Changed
<1>5. InRecords(D, R) \cap (Tracking(E) \cup Free(E)) = {}
  BY <1>3
<1>6. DOMAIN D \subseteq DOMAIN E
  BY DEF Changed
<1> QED
  BY <1>2, <1>4, <1>5, <1>6, KeptThrough

(* The last number is taken off.                                           *)
LEMMA ListTaken ==
  ASSUME NEW s \in Setting, NEW D, NEW R, NEW G, Kept(s, D, R, G),
         NEW t, t = Last(Chain(D, 0)), D[t].size # 0,
         NEW n, n = D[t].cells[D[t].size],
         NEW E, Formed(s, E), Changed(D, E, t, DropUInt32(D[t]))
  PROVE  /\ Kept(s, E, R, G)
         /\ n \in Free(D)
         /\ Tracking(E) = Tracking(D) /\ Free(E) = Free(D) \ {n}
         /\ InRecords(E, R) = InRecords(D, R)
<1> DEFINE b == DropUInt32(D[t])
<1>1. /\ Formed(s, D) /\ FreeList(s, D) /\ Apart(D, R) /\ Left(D, G)
      /\ Sealed(s, D) /\ Outside(D) /\ NoneTwice(D)
  BY DEF Kept, FreeList
<1>2. /\ t \in Tracking(D) /\ D[t].next = 0 /\ t \in DOMAIN D /\ D[t] \in Blocks(s)
      /\ Tracking(D) \subseteq DOMAIN D
  BY <1>1, LastOfList, FreeListFacts, FormedFacts
<1>3. /\ b.size = D[t].size - 1 /\ b.next = D[t].next
      /\ b.deleted = D[t].deleted /\ b.cells = D[t].cells
      /\ Changed(D, E, t, b)
  BY <1>2, DropUInt32Facts
<1> HIDE DEF b
<1>4. Chained(E, 0) /\ Tracking(E) = Tracking(D)
  BY <1>1, <1>2, <1>3, ListWritten
<1>5. D[t].size \in Nat \ {0} /\ D[t].size \in 1 .. D[t].size
  BY <1>2, BlockFacts
<1>6. n \in Free(D)
  BY <1>1, <1>2, <1>5 DEF Free, Outside
(* The slots that are left are those of before but one.                    *)
<1>7. ASSUME NEW u \in Tracking(D), NEW j \in 1 .. E[u].size
      PROVE  /\ j \in 1 .. D[u].size /\ E[u].cells[j] = D[u].cells[j]
             /\ D[u].cells[j] # n
  <2>1. j \in 1 .. D[u].size /\ E[u].cells[j] = D[u].cells[j] /\ (u = t => j # D[t].size)
    <3>1. CASE u = t
      BY <1>3, <1>5, <3>1 DEF Changed
    <3>2. CASE u # t
      BY <1>2, <1>3, <3>2 DEF Changed
    <3> QED
      BY <3>1, <3>2
  <2> QED
    BY <1>1, <1>2, <1>5, <2>1 DEF NoneTwice
<1>8. ASSUME NEW u \in Tracking(D), NEW j \in 1 .. D[u].size, D[u].cells[j] # n
      PROVE  j \in 1 .. E[u].size /\ E[u].cells[j] = D[u].cells[j]
  <2>1. CASE u = t
    <3>1. j # D[t].size
      BY <1>8, <2>1
    <3> QED
      BY <1>3, <1>5, <2>1, <3>1 DEF Changed
  <2>2. CASE u # t
    BY <1>2, <1>3, <2>2 DEF Changed
  <2> QED
    BY <2>1, <2>2
<1>9. Free(E) = Free(D) \ {n}
  <2>1. DOMAIN E = DOMAIN D
    BY <1>3 DEF Changed
  <2> QED
    BY <1>4, <1>7, <1>8, <2>1 DEF Free
<1>10. FreeList(s, E)
  <2>1. Sealed(s, E)
    BY <1>1, <1>2, <1>3, <1>4 DEF Sealed, Changed
  <2>2. Outside(E)
    BY <1>1, <1>3, <1>4, <1>7 DEF Outside, Changed
  <2>3. NoneTwice(E)
    BY <1>1, <1>4, <1>7 DEF NoneTwice
  <2> QED
    BY <1>4, <2>1, <2>2, <2>3 DEF FreeList
<1>11. Kept(s, E, R, G) /\ InRecords(E, R) = InRecords(D, R)
  <2>1. InRecords(D, R) \cap Free(E) = {}
    BY <1>1, <1>4, <1>9, RecordsAside
  <2> QED
    BY <1>2, <1>3, <1>4, <1>10, <2>1, KeptByList
<1> QED
  BY <1>4, <1>6, <1>9, <1>11

LEMMA NumbersAreFree ==
  ASSUME NEW D, Outside(D), NEW t \in Tracking(D), NEW j \in 1 .. D[t].size
  PROVE  D[t].cells[j] \in Free(D)
  BY DEF Outside, Free

(* A number is added, where there is room for it.                          *)
LEMMA ListMarked ==
  ASSUME NEW s \in Setting, NEW D, NEW R, NEW G, Kept(s, D, R, G),
         NEW t, t = Last(Chain(D, 0)), D[t].size < s.contentSize,
         NEW n \in DOMAIN D, n \notin Tracking(D) \cup Free(D) \cup InRecords(D, R),
         NEW E, Formed(s, E), Changed(D, E, t, AppendUInt32(D[t], n))
  PROVE  /\ Kept(s, E, R, G)
         /\ Tracking(E) = Tracking(D) /\ Free(E) = Free(D) \cup {n}
         /\ InRecords(E, R) = InRecords(D, R)
<1> DEFINE b == AppendUInt32(D[t], n)
           z == D[t].size
<1>1. /\ Formed(s, D) /\ FreeList(s, D) /\ Apart(D, R) /\ Left(D, G)
      /\ Sealed(s, D) /\ Outside(D) /\ NoneTwice(D)
  BY DEF Kept, FreeList
<1>2. /\ t \in Tracking(D) /\ D[t].next = 0 /\ t \in DOMAIN D /\ D[t] \in Blocks(s)
      /\ Tracking(D) \subseteq DOMAIN D /\ n \in Nat
  BY <1>1, LastOfList, FreeListFacts, FormedFacts
<1>3. /\ b.size = z + 1 /\ b.next = D[t].next /\ b.deleted = D[t].deleted
      /\ \A j \in 1 .. z : b.cells[j] = D[t].cells[j]
      /\ b.cells[z + 1] = n
      /\ Changed(D, E, t, b)
  BY <1>2, AppendUInt32Facts
<1>4. z \in Nat
  BY <1>2, BlockFacts
<1> HIDE DEF b, z
<1>5. Chained(E, 0) /\ Tracking(E) = Tracking(D)
  BY <1>1, <1>2, <1>3, ListWritten
(* The slots are those of before and one more.                             *)
<1>6. ASSUME NEW u \in Tracking(D), NEW j \in 1 .. E[u].size
      PROVE  \/ j \in 1 .. D[u].size /\ E[u].cells[j] = D[u].cells[j] /\ D[u].cells[j] # n
             \/ u = t /\ j = z + 1 /\ E[u].cells[j] = n
  <2>1. CASE u = t
    <3>1. j \in 1 .. z + 1 /\ E[u].cells[j] = b.cells[j]
      BY <1>3, <2>1 DEF Changed
    <3>2. CASE j = z + 1
      BY <1>3, <2>1, <3>1, <3>2
    <3>3. CASE j # z + 1
      <4>1. j \in 1 .. z
        BY <1>4, <3>1, <3>3
      <4>2. j \in 1 .. D[u].size
        BY <2>1, <4>1 DEF z
      <4>3. E[u].cells[j] = D[u].cells[j]
        BY <1>3, <2>1, <3>1, <4>1
      <4> QED
        BY <1>1, <4>2, <4>3, NumbersAreFree
    <3> QED
      BY <3>2, <3>3
  <2>2. CASE u # t
    <3>1. j \in 1 .. D[u].size /\ E[u].cells[j] = D[u].cells[j]
      BY <1>2, <1>3, <2>2 DEF Changed
    <3> QED
      BY <1>1, <3>1, NumbersAreFree
  <2> QED
    BY <2>1, <2>2
<1>7. ASSUME NEW u \in Tracking(D), NEW j \in 1 .. D[u].size
      PROVE  j \in 1 .. E[u].size /\ E[u].cells[j] = D[u].cells[j]
  <2>1. CASE u = t
    <3>1. E[u] = b /\ j \in 1 .. z
      BY <1>3, <2>1 DEF Changed, z
    <3>2. j \in 1 .. z + 1
      BY <1>4, <3>1
    <3> QED
      BY <1>3, <2>1, <3>1, <3>2
  <2>2. CASE u # t
    BY <1>2, <1>3, <2>2 DEF Changed
  <2> QED
    BY <2>1, <2>2
<1>8. z + 1 \in 1 .. E[t].size /\ E[t].cells[z + 1] = n
  <2>1. E[t] = b
    BY <1>3 DEF Changed
  <2> QED
    BY <1>3, <1>4, <2>1
<1>9. DOMAIN E = DOMAIN D
  BY <1>3 DEF Changed
<1>10. Free(E) = Free(D) \cup {n}
  <2>1. Free(E) \subseteq Free(D) \cup {n}
    BY <1>5, <1>6, <1>9 DEF Free
  <2>2. Free(D) \subseteq Free(E)
    BY <1>5, <1>7, <1>9 DEF Free
  <2>3. n \in Free(E)
    BY <1>2, <1>5, <1>8, <1>9 DEF Free
  <2> QED
    BY <2>1, <2>2, <2>3
<1>11. FreeList(s, E)
  <2>1. Sealed(s, E)
    BY <1>1, <1>2, <1>3, <1>5 DEF Sealed, Changed
  <2>2. Outside(E)
    BY <1>1, <1>5, <1>6, <1>9 DEF Outside
  <2>3. NoneTwice(E)
    BY <1>1, <1>5, <1>6 DEF NoneTwice
  <2> QED
    BY <1>5, <2>1, <2>2, <2>3 DEF FreeList
<1>12. Kept(s, E, R, G) /\ InRecords(E, R) = InRecords(D, R)
  <2>1. InRecords(D, R) \cap Free(E) = {}
    BY <1>1, <1>10, RecordsAside
  <2> QED
    BY <1>2, <1>3, <1>5, <1>11, <2>1, KeptByList
<1> QED
  BY <1>5, <1>10, <1>12

(* A block with one number in it is added to the full list.                *)
Relinked(block, m) == [block EXCEPT !.next = m]

LEMMA ListGrown ==
  ASSUME NEW s \in Setting, NEW D, NEW R, NEW G, Kept(s, D, R, G),
         NEW t, t = Last(Chain(D, 0)), D[t].size = s.contentSize,
         NEW m \in DOMAIN D, m \notin Tracking(D) \cup Free(D) \cup InRecords(D, R) \cup G,
         NEW n \in DOMAIN D, n \notin Tracking(D) \cup Free(D) \cup InRecords(D, R), n # m,
         ~ D[m].deleted, D[m].next = 0, D[m].size = 1, D[m].cells[1] = n,
         NEW E, Formed(s, E), Changed(D, E, t, Relinked(D[t], m))
  PROVE  /\ Kept(s, E, R, G)
         /\ Tracking(E) = Tracking(D) \cup {m} /\ Free(E) = Free(D) \cup {n}
         /\ InRecords(E, R) = InRecords(D, R)
<1> DEFINE b == Relinked(D[t], m)
<1>1. /\ Formed(s, D) /\ FreeList(s, D) /\ Apart(D, R) /\ Left(D, G)
      /\ Sealed(s, D) /\ Outside(D) /\ NoneTwice(D)
  BY DEF Kept, FreeList
<1>2. /\ t \in Tracking(D) /\ D[t].next = 0 /\ t \in DOMAIN D /\ D[t] \in Blocks(s)
      /\ Tracking(D) \subseteq DOMAIN D /\ 0 \in Tracking(D) /\ Sound(E)
  BY <1>1, LastOfList, FreeListFacts, FormedFacts
<1>3. /\ b.size = D[t].size /\ b.next = m /\ b.deleted = D[t].deleted /\ b.cells = D[t].cells
      /\ Changed(D, E, t, b)
  BY <1>2 DEF Blocks, Relinked
<1> HIDE DEF b
<1>4. /\ DOMAIN E = DOMAIN D /\ E[m] = D[m] /\ m # t /\ m # 0
      /\ \A u \in Tracking(D) : /\ E[u].size = D[u].size /\ E[u].cells = D[u].cells
                                /\ E[u].deleted = D[u].deleted
                                /\ u # t => E[u].next = D[u].next
  BY <1>2, <1>3 DEF Changed
<1>5. Chained(E, 0) /\ Tracking(E) = Tracking(D) \cup {m}
  <2> DEFINE c == Chain(D, 0)
  <2>1. /\ m \notin Members(D, 0) /\ E[Last(c)].next = m /\ E[m].next = 0
        /\ \A k \in Members(D, 0) : k # Last(c) => E[k].next = D[k].next
    BY <1>3, <1>4 DEF Changed, Tracking
  <2>2. Chained(D, 0) /\ m \in DOMAIN E /\ DOMAIN D \subseteq DOMAIN E
    BY <1>1, <1>4 DEF FreeList
  <2>3. Chained(E, 0) /\ Members(E, 0) = Members(D, 0) \cup {m}
    BY <1>2, <1>4, <2>1, <2>2, ChainLengthened
  <2> QED
    BY <2>3 DEF Tracking
<1>6. /\ \A u \in Tracking(D) : \A j \in 1 .. E[u].size : j \in 1 .. D[u].size
      /\ \A j \in 1 .. E[m].size : j = 1 /\ E[m].cells[j] = n
      /\ 1 \in 1 .. E[m].size /\ E[m].cells[1] = n
  BY <1>4
<1>7. Free(E) = Free(D) \cup {n}
  <2>1. Free(E) \subseteq Free(D) \cup {n}
    BY <1>4, <1>5, <1>6 DEF Free
  <2>2. Free(D) \subseteq Free(E)
    BY <1>4, <1>5 DEF Free
  <2>3. n \in Free(E)
    BY <1>4, <1>5, <1>6 DEF Free
  <2> QED
    BY <2>1, <2>2, <2>3
<1>8. FreeList(s, E)
  <2>1. Sealed(s, E)
    <3> SUFFICES ASSUME NEW u \in Tracking(D) \cup {m}
                 PROVE  ~ E[u].deleted /\ (E[u].next # 0 => E[u].size = s.contentSize)
      BY <1>5 DEF Sealed
    <3> QED
      BY <1>1, <1>4 DEF Sealed
  <2>2. Outside(E)
    <3> SUFFICES ASSUME NEW u \in Tracking(D) \cup {m}, NEW j \in 1 .. E[u].size
                 PROVE  E[u].cells[j] \in DOMAIN D \ (Tracking(D) \cup {m})
      BY <1>4, <1>5 DEF Outside
    <3>1. CASE u = m
      BY <1>6, <3>1
    <3>2. CASE u \in Tracking(D)
      <4>1. j \in 1 .. D[u].size /\ E[u].cells[j] = D[u].cells[j]
        BY <1>4, <3>2
      <4> QED
        BY <1>1, <3>2, <4>1, NumbersAreFree DEF Outside
    <3> QED
      BY <3>1, <3>2
  <2>3. NoneTwice(E)
    <3> SUFFICES ASSUME NEW u \in Tracking(D) \cup {m}, NEW v \in Tracking(D) \cup {m},
                        NEW j \in 1 .. E[u].size, NEW k \in 1 .. E[v].size,
                        E[u].cells[j] = E[v].cells[k]
                 PROVE  u = v /\ j = k
      BY <1>5 DEF NoneTwice
    <3>1. \A w \in Tracking(D) : \A i \in 1 .. E[w].size :
            i \in 1 .. D[w].size /\ E[w].cells[i] = D[w].cells[i] /\ D[w].cells[i] # n
      BY <1>1, <1>4, NumbersAreFree
    <3> QED
      BY <1>1, <1>6, <3>1 DEF NoneTwice
  <2> QED
    BY <1>5, <2>1, <2>2, <2>3 DEF FreeList
<1>9. Kept(s, E, R, G) /\ InRecords(E, R) = InRecords(D, R)
  <2>1. InRecords(D, R) \cap Free(E) = {}
    BY <1>1, <1>7, RecordsAside
  <2>2. \A u \in Tracking(E) \ Tracking(D) : u \notin InRecords(D, R) \cup G
    BY <1>5
  <2> QED
    BY <1>2, <1>3, <1>8, <2>1, <2>2, KeptByList
<1> QED
  BY <1>5, <1>7, <1>9

(* The chain of the list, cut off after the block "t".                     *)
CutAfter(D, t, E) ==
  /\ Sound(E) /\ DOMAIN D \subseteq DOMAIN E /\ E[t].next = 0
  /\ \A u \in Tracking(D) : u # t => E[u].next = D[u].next

(* The last two blocks of a list of more than one.                         *)
LastTwo(D, t, e) ==
  /\ t \in Tracking(D) /\ e \in Tracking(D) /\ e # t /\ D[t].next = e /\ e # 0
  /\ \A E : CutAfter(D, t, E) => Chained(E, 0) /\ Tracking(E) = Tracking(D) \ {e}

LEMMA LastTwoOfList ==
  ASSUME NEW s \in Setting, NEW D, Formed(s, D), FreeList(s, D), Len(Chain(D, 0)) # 1
  PROVE  LastTwo(D, Chain(D, 0)[Len(Chain(D, 0)) - 1], Chain(D, 0)[Len(Chain(D, 0))])
<1> DEFINE c == Chain(D, 0)
           L == Len(c)
<1>1. Chained(D, 0) /\ Linked(D, c) /\ Tracking(D) = Range(c) /\ L # 1
  BY DEF FreeList, Chained, Tracking, Members
<1> HIDE DEF c
<1>2. /\ L \in Nat \ {0} /\ Range(c) = {c[i] : i \in 1 .. L} /\ IsInjective(c)
      /\ DOMAIN c = 1 .. L
  BY <1>1, MembersOfLinked DEF Linked
<1>0. L = Len(c)
  OBVIOUS
<1> HIDE DEF L
<1>n. L \in Nat \ {0} /\ L # 1
  BY <1>1, <1>2
<1>3. /\ L - 1 \in 1 .. L /\ L \in 1 .. L /\ L - 1 \in 1 .. L - 1 /\ (L - 1) + 1 = L
      /\ L # L - 1
      /\ \A i \in 1 .. L - 1 : i \in 1 .. L /\ i # L
      /\ \A i \in 1 .. L : i # L => i \in 1 .. L - 1
      /\ \A i \in 1 .. (L - 1) - 1 : i \in 1 .. L /\ i # L - 1
  BY <1>n
<1>4. /\ \A i \in 1 .. L : c[i] = c[L] => i = L
      /\ \A i \in 1 .. L : c[i] = c[L - 1] => i = L - 1
  BY <1>2, <1>3 DEF IsInjective
<1>5. D[c[L - 1]].next = c[L] /\ c[L] # 0
  <2>1. \A i \in 1 .. L - 1 : c[i + 1] # 0 /\ D[c[i]].next = c[i + 1]
    BY <1>0, <1>1 DEF Linked
  <2> QED
    BY <1>3, <2>1
<1>6. c[L - 1] \in Tracking(D) /\ c[L] \in Tracking(D) /\ c[L] # c[L - 1]
  BY <1>1, <1>2, <1>3, <1>4
<1>7. ASSUME NEW E, CutAfter(D, c[L - 1], E)
      PROVE  Chained(E, 0) /\ Tracking(E) = Tracking(D) \ {c[L]}
  <2>1. ASSUME NEW i \in 1 .. (L - 1) - 1 PROVE E[c[i]].next = D[c[i]].next
    <3>1. i \in 1 .. L /\ i # L - 1
      BY <1>3
    <3>2. c[i] \in Tracking(D) /\ c[i] # c[L - 1]
      BY <1>1, <1>2, <1>4, <3>1
    <3> QED
      BY <1>7, <3>2 DEF CutAfter
  <2>2. Chained(E, 0) /\ Members(E, 0) = {c[i] : i \in 1 .. L - 1}
    <3> DEFINE k == L - 1
    <3>1. /\ k \in 1 .. Len(Chain(D, 0)) /\ E[Chain(D, 0)[k]].next = 0
          /\ \A i \in 1 .. k - 1 : E[Chain(D, 0)[i]].next = D[Chain(D, 0)[i]].next
      BY <1>0, <1>3, <1>7, <2>1 DEF c, CutAfter
    <3> HIDE DEF k
    <3>2. Chained(E, 0) /\ Members(E, 0) = {Chain(D, 0)[i] : i \in 1 .. k}
      BY <1>1, <1>7, <3>1, ChainShortened DEF CutAfter
    <3> QED
      BY <3>2 DEF k, c
  <2>3. {c[i] : i \in 1 .. L - 1} = Range(c) \ {c[L]}
    BY <1>2, <1>3, <1>4
  <2> QED
    BY <1>1, <2>2, <2>3 DEF Tracking
<1> QED
  <2>1. LastTwo(D, c[L - 1], c[L])
    <3>1. \A E : CutAfter(D, c[L - 1], E) => Chained(E, 0) /\ Tracking(E) = Tracking(D) \ {c[L]}
      BY <1>7
    <3> DEFINE t == c[L - 1]
               e == c[L]
    <3>2. /\ t \in Tracking(D) /\ e \in Tracking(D) /\ e # t /\ D[t].next = e /\ e # 0
          /\ \A E : CutAfter(D, t, E) => Chained(E, 0) /\ Tracking(E) = Tracking(D) \ {e}
      BY <1>5, <1>6, <3>1
    <3> HIDE DEF t, e
    <3>3. LastTwo(D, t, e)
      BY <3>2, Zenon DEF LastTwo
    <3> QED
      BY <3>3 DEF t, e
  <2> QED
    BY <1>0, <2>1 DEF c

(* The number of the empty last block takes the place of the last number.  *)
LEMMA ListExchanged ==
  ASSUME NEW s \in Setting, NEW D, NEW R, NEW G, Kept(s, D, R, G),
         NEW t, NEW e, LastTwo(D, t, e), D[e].size = 0,
         NEW z, D[t].size = z, NEW n, D[t].cells[z] = n,
         NEW b, b.size = z, b.next = 0, b.deleted = D[t].deleted,
         \A j \in 1 .. z - 1 : b.cells[j] = D[t].cells[j], b.cells[z] = e,
         NEW E, Formed(s, E), Changed(D, E, t, b)
  PROVE  /\ Kept(s, E, R, G)
         /\ n \in Free(D)
         /\ Tracking(E) = Tracking(D) \ {e} /\ Free(E) = (Free(D) \ {n}) \cup {e}
         /\ InRecords(E, R) = InRecords(D, R)
<1>1. /\ Formed(s, D) /\ FreeList(s, D) /\ Apart(D, R) /\ Left(D, G)
      /\ Sealed(s, D) /\ Outside(D) /\ NoneTwice(D) /\ Chained(D, 0)
      /\ s.contentSize \in Nat \ {0} /\ Sound(E)
  BY SettingFacts, FormedFacts DEF Kept, FreeList
<1>2. t \in Tracking(D) /\ e \in Tracking(D) /\ e # t /\ D[t].next = e /\ e # 0
  BY DEF LastTwo
<1>3. Tracking(D) \subseteq DOMAIN D /\ t \in DOMAIN D /\ e \in DOMAIN D
  BY <1>1, <1>2, FreeListFacts
<1>4. z = s.contentSize
  BY <1>1, <1>2 DEF Sealed
<1>7. z \in Nat \ {0} /\ z \in 1 .. z
  BY <1>1, <1>4
<1>8. n \in Free(D) /\ e \notin Free(D)
  BY <1>1, <1>2, <1>7, NumbersAreFree, FreeListFacts
<1>9. DOMAIN E = DOMAIN D /\ E[t] = b /\ \A u \in DOMAIN D : u # t => E[u] = D[u]
  BY DEF Changed
<1>10. Chained(E, 0) /\ Tracking(E) = Tracking(D) \ {e}
  <2>1. /\ DOMAIN D \subseteq DOMAIN E /\ E[t].next = 0
        /\ \A u \in Tracking(D) : u # t => E[u].next = D[u].next
    BY <1>3, <1>9
  <2>2. CutAfter(D, t, E)
    BY <1>1, <2>1 DEF CutAfter
  <2> QED
    BY <2>2 DEF LastTwo
(* The slots are the same, with "e" in the place of "n".                   *)
<1>11. ASSUME NEW u \in Tracking(D), u # e
       PROVE  E[u].size = D[u].size
  BY <1>3, <1>9 
<1>12. ASSUME NEW u \in Tracking(D), NEW j \in 1 .. D[u].size, u # t \/ j # z
       PROVE  D[u].cells[j] # n /\ E[u].cells[j] = D[u].cells[j]
  <2>1. D[u].cells[j] # n
    BY <1>1, <1>2, <1>7, <1>12 DEF NoneTwice
  <2>2. CASE u = t
    <3>1. j \in 1 .. z - 1
      BY <1>7, <1>12, <2>2 
    <3> QED
      BY <1>9, <2>1, <2>2, <3>1
  <2>3. CASE u # t
    BY <1>3, <1>9, <2>1, <2>3
  <2> QED
    BY <2>2, <2>3
<1>13. E[t].cells[z] = e /\ z \in 1 .. D[t].size /\ \A j \in 1 .. D[e].size : FALSE
  BY <1>7, <1>9 
<1>14. Free(E) = (Free(D) \ {n}) \cup {e}
  <2>1. ASSUME NEW k \in Free(E) PROVE k \in (Free(D) \ {n}) \cup {e}
    <3>0. PICK u \in Tracking(D) \ {e} : \E j \in 1 .. D[u].size : E[u].cells[j] = k
      BY <1>10, <1>11 DEF Free
    <3>1. PICK j \in 1 .. D[u].size : E[u].cells[j] = k
      BY <3>0
    <3>2. CASE u = t /\ j = z
      BY <1>13, <3>1, <3>2
    <3>3. CASE u # t \/ j # z
      BY <1>1, <1>12, <3>1, <3>3, NumbersAreFree
    <3> QED
      BY <3>2, <3>3
  <2>2. ASSUME NEW k \in Free(D), k # n PROVE k \in Free(E)
    <3>0. PICK u \in Tracking(D) : \E j \in 1 .. D[u].size : D[u].cells[j] = k
      BY DEF Free
    <3>1. PICK j \in 1 .. D[u].size : D[u].cells[j] = k
      BY <3>0
    <3>2. u # t \/ j # z
      BY <1>7, <2>2, <3>1
    <3>3. u # e
      BY <1>13, <3>1
    <3>4. u \in Tracking(E) /\ j \in 1 .. E[u].size /\ E[u].cells[j] = k /\ k \in DOMAIN E
      BY <1>9, <1>10, <1>11, <1>12, <3>1, <3>2, <3>3 DEF Free
    <3> QED
      BY <3>4 DEF Free
  <2>3. e \in Free(E)
    BY <1>2, <1>3, <1>9, <1>10, <1>11, <1>13 DEF Free
  <2> QED
    BY <2>1, <2>2, <2>3
<1>15. FreeList(s, E)
  <2>1. Sealed(s, E)
    <3> SUFFICES ASSUME NEW u \in Tracking(D) \ {e}
                 PROVE  ~ E[u].deleted /\ (E[u].next # 0 => E[u].size = s.contentSize)
      BY <1>10 DEF Sealed
    <3> QED
      BY <1>1, <1>3, <1>9 DEF Sealed
  <2>2. ASSUME NEW u \in Tracking(D) \ {e}, NEW j \in 1 .. E[u].size
        PROVE  /\ j \in 1 .. D[u].size
               /\ \/ /\ u = t /\ j = z
                     /\ E[u].cells[j] = e
                  \/ /\ u # t \/ j # z
                     /\ E[u].cells[j] = D[u].cells[j] /\ D[u].cells[j] \in Free(D)
    <3>1. u \in Tracking(D) /\ j \in 1 .. D[u].size
      BY <1>11
    <3>2. D[u].cells[j] \in Free(D)
      BY <1>1, <3>1, NumbersAreFree
    <3>3. CASE u = t /\ j = z
      BY <1>13, <3>1, <3>3
    <3>4. CASE u # t \/ j # z
      <4>1. E[u].cells[j] = D[u].cells[j]
        BY <1>12, <3>1, <3>4
      <4> QED
        BY <3>1, <3>2, <3>4, <4>1
    <3> QED
      BY <3>3, <3>4
  <2>3. Outside(E)
    <3> SUFFICES ASSUME NEW u \in Tracking(D) \ {e}, NEW j \in 1 .. E[u].size
                 PROVE  E[u].cells[j] \in DOMAIN D \ (Tracking(D) \ {e})
      BY <1>9, <1>10 DEF Outside
    <3>1. Free(D) \subseteq DOMAIN D \ Tracking(D)
      BY <1>1, FreeListFacts
    <3> QED
      BY <1>2, <1>3, <2>2, <3>1
  <2>4. NoneTwice(E)
    <3> SUFFICES ASSUME NEW u \in Tracking(D) \ {e}, NEW v \in Tracking(D) \ {e},
                        NEW j \in 1 .. E[u].size, NEW k \in 1 .. E[v].size,
                        E[u].cells[j] = E[v].cells[k]
                 PROVE  u = v /\ j = k
      BY <1>10 DEF NoneTwice
    <3> QED
      BY <1>1, <1>8, <2>2 DEF NoneTwice
  <2> QED
    BY <1>10, <2>1, <2>3, <2>4 DEF FreeList
<1>16. Kept(s, E, R, G) /\ InRecords(E, R) = InRecords(D, R)
  <2>1. InRecords(D, R) \cap Free(E) = {}
    BY <1>1, <1>2, <1>14, RecordsAside
  <2>2. \A u \in Tracking(E) \ Tracking(D) : u \notin InRecords(D, R) \cup G
    BY <1>10
  <2> QED
    BY <1>2, <1>15, <2>1, <2>2, KeptByList
<1> QED
  BY <1>8, <1>10, <1>14, <1>16

-----------------------------------------------------------------------------
(* Streams of which blocks are written.                                    *)

(* Functions on the same set are equal where all their values are.         *)
FunctionOn(S, f) == f = [x \in S |-> f[x]]

LEMMA SameFunction ==
  ASSUME NEW S, NEW f, NEW g, FunctionOn(S, f), FunctionOn(S, g), \A x \in S : f[x] = g[x]
  PROVE  f = g
<1>1. [x \in S |-> f[x]] = [x \in S |-> g[x]]
  OBVIOUS
<1> QED
  BY <1>1, Zenon DEF FunctionOn

(* The stream with one block written.                                      *)
Put(D, id, b) == [D EXCEPT ![id] = b]

LEMMA PutChanges ==
  ASSUME NEW s \in Setting, NEW D, Formed(s, D), NEW id \in DOMAIN D, NEW b, FormedBlock(s, D, b)
  PROVE  Formed(s, Put(D, id, b)) /\ Changed(D, Put(D, id, b), id, b)
  BY FormedExcept DEF Put

LEMMA FormedFunction ==
  ASSUME NEW s, NEW D, Formed(s, D)
  PROVE  FunctionOn(DOMAIN D, D)
  BY DEF Formed, FunctionOn

LEMMA PutFacts ==
  ASSUME NEW D, NEW id \in DOMAIN D, NEW b
  PROVE  /\ FunctionOn(DOMAIN D, Put(D, id, b)) /\ DOMAIN Put(D, id, b) = DOMAIN D
         /\ Put(D, id, b)[id] = b
         /\ \A other \in DOMAIN D : other # id => Put(D, id, b)[other] = D[other]
<1>1. Put(D, id, b) = [x \in DOMAIN D |-> IF x = id THEN b ELSE D[x]]
  BY DEF Put
<1> QED
  BY <1>1 DEF FunctionOn

LEMMA PutTwice ==
  ASSUME NEW D, NEW id \in DOMAIN D, NEW b, NEW c
  PROVE  Put(Put(D, id, c), id, b) = Put(D, id, b)
<1> DEFINE X == Put(D, id, c)
           Y == Put(D, id, b)
           Z == Put(X, id, b)
<1>1. /\ FunctionOn(DOMAIN D, Y) /\ Y[id] = b /\ DOMAIN X = DOMAIN D
      /\ \A o \in DOMAIN D : o # id => Y[o] = D[o] /\ X[o] = D[o]
  BY PutFacts
<1> HIDE DEF X, Y
<1>2. /\ FunctionOn(DOMAIN D, Z) /\ Z[id] = b
      /\ \A o \in DOMAIN D : o # id => Z[o] = X[o]
  <2>1. id \in DOMAIN X
    BY <1>1
  <2>2. /\ FunctionOn(DOMAIN X, Z) /\ Z[id] = b
        /\ \A o \in DOMAIN X : o # id => Z[o] = X[o]
    BY <2>1, PutFacts
  <2> QED
    BY <1>1, <2>2
<1> HIDE DEF Z
<1>3. \A o \in DOMAIN D : Z[o] = Y[o]
  BY <1>1, <1>2
<1>4. Z = Y
  BY <1>1, <1>2, <1>3, SameFunction
<1> QED
  BY <1>4 DEF X, Y, Z

LEMMA PutSame ==
  ASSUME NEW s, NEW D, Formed(s, D), NEW id \in DOMAIN D
  PROVE  Put(D, id, D[id]) = D
<1>1. D = [x \in DOMAIN D |-> D[x]]
  BY FormedFunction DEF FunctionOn
<1> QED
  BY <1>1 DEF Put

(* Two blocks, one after the other.                                        *)
LEMMA PutBoth ==
  ASSUME NEW D, NEW i \in DOMAIN D, NEW k \in DOMAIN D, i # k, NEW b, NEW c
  PROVE  Put(Put(D, i, b), k, c) = Put(Put(D, k, c), i, b)
<1> DEFINE X == Put(D, i, b)
           Y == Put(D, k, c)
           U == Put(X, k, c)
           V == Put(Y, i, b)
<1>1. /\ DOMAIN X = DOMAIN D /\ X[i] = b /\ \A o \in DOMAIN D : o # i => X[o] = D[o]
      /\ DOMAIN Y = DOMAIN D /\ Y[k] = c /\ \A o \in DOMAIN D : o # k => Y[o] = D[o]
  BY PutFacts
<1> HIDE DEF X, Y
<1>2. /\ FunctionOn(DOMAIN D, U) /\ U[k] = c /\ \A o \in DOMAIN D : o # k => U[o] = X[o]
      /\ FunctionOn(DOMAIN D, V) /\ V[i] = b /\ \A o \in DOMAIN D : o # i => V[o] = Y[o]
  <2>1. k \in DOMAIN X /\ i \in DOMAIN Y
    BY <1>1
  <2>2. /\ FunctionOn(DOMAIN X, U) /\ U[k] = c /\ \A o \in DOMAIN X : o # k => U[o] = X[o]
        /\ FunctionOn(DOMAIN Y, V) /\ V[i] = b /\ \A o \in DOMAIN Y : o # i => V[o] = Y[o]
    BY <2>1, PutFacts
  <2> QED
    BY <1>1, <2>2
<1> HIDE DEF U, V
<1>3. ASSUME NEW o \in DOMAIN D PROVE U[o] = V[o]
  <2>1. CASE o = k
    BY <1>1, <1>2, <2>1
  <2>2. CASE o # k
    BY <1>1, <1>2, <2>2
  <2> QED
    BY <2>1, <2>2
<1>4. U = V
  BY <1>2, <1>3, SameFunction
<1> QED
  BY <1>4 DEF X, Y, U, V

(* A block up to its first sector, and the cells of another beyond it.     *)
Merged(s, b, c) ==
  [b EXCEPT !.cells = SubSeq(@, 1, s.sectorCells)
                        \o SubSeq(c.cells, s.sectorCells + 1, s.contentSize)]

SameBeyond(s, b, c) ==
  \A j \in 1 .. s.contentSize : j > s.sectorCells => b.cells[j] = c.cells[j]

(* Two blocks with the same headers.                                       *)
Labels(b) == <<b.next, b.length, b.size, b.prev, b.deleted>>

LEMMA MergedFacts ==
  ASSUME NEW s \in Setting, NEW b \in Blocks(s), NEW c \in Blocks(s)
  PROVE  /\ Merged(s, b, c) \in Blocks(s)
         /\ Labels(Merged(s, b, c)) = Labels(b)
         /\ \A j \in 1 .. s.contentSize :
              Merged(s, b, c).cells[j] = IF j > s.sectorCells THEN c.cells[j] ELSE b.cells[j]
<1> DEFINE n == s.contentSize
           h == s.sectorCells
           p == b.cells
           q == c.cells
           x == SubSeq(p, 1, h)
           y == SubSeq(q, h + 1, n)
           z == x \o y
<1>1. n \in Nat \ {0} /\ h \in 0 .. n /\ h \in Nat
  BY SettingAssumption
<1>2. /\ p \in [1 .. n -> Cells(s)] /\ p \in Seq(Cells(s)) /\ Len(p) = n
      /\ q \in [1 .. n -> Cells(s)] /\ q \in Seq(Cells(s)) /\ Len(q) = n
  BY BlockFacts
<1>m. Merged(s, b, c) = [b EXCEPT !.cells = z]
  BY DEF Merged
<1> HIDE DEF n, h, p, q
<1>3. x \in Seq(Cells(s)) /\ Len(x) = h /\ \A j \in 1 .. h : x[j] = p[j]
  <2>1. \A j \in 1 .. h : p[j] \in Cells(s)
    BY <1>1, <1>2
  <2>2. /\ x \in Seq(Cells(s)) /\ Len(x) = (IF 1 <= h THEN h - 1 + 1 ELSE 0)
        /\ \A i \in 1 .. h - 1 + 1 : x[i] = p[1 + i - 1]
    BY <1>1, <2>1, SubSeqProperties
  <2>3. (IF 1 <= h THEN h - 1 + 1 ELSE 0) = h /\ h - 1 + 1 = h /\ \A i \in 1 .. h : 1 + i - 1 = i
    BY <1>1
  <2> QED
    BY <2>2, <2>3
<1>4. y \in Seq(Cells(s)) /\ Len(y) = n - h /\ \A j \in 1 .. n - h : y[j] = q[h + j]
  <2>1. \A j \in h + 1 .. n : q[j] \in Cells(s)
    BY <1>1, <1>2
  <2>0. h + 1 \in Int /\ n \in Int
    BY <1>1
  <2> DEFINE h1 == h + 1
  <2>2. /\ SubSeq(q, h1, n) \in Seq(Cells(s))
        /\ Len(SubSeq(q, h1, n)) = (IF h1 <= n THEN n - h1 + 1 ELSE 0)
        /\ \A i \in 1 .. n - h1 + 1 : SubSeq(q, h1, n)[i] = q[h1 + i - 1]
    <3>1. h1 \in Int /\ n \in Int /\ \A j \in h1 .. n : q[j] \in Cells(s)
      BY <2>0, <2>1
    <3> HIDE DEF h1
    <3> QED
      BY <3>1, SubSeqProperties
  <2>3. /\ (IF h1 <= n THEN n - h1 + 1 ELSE 0) = n - h /\ n - h1 + 1 = n - h
        /\ \A i \in 1 .. n - h : h1 + i - 1 = h + i
    BY <1>1
  <2>4. y = SubSeq(q, h1, n)
    OBVIOUS
  <2> HIDE DEF h1, y
  <2> QED
    BY <2>2, <2>3, <2>4
<1> HIDE DEF x, y
<1>5. /\ z \in Seq(Cells(s)) /\ Len(z) = Len(x) + Len(y)
      /\ \A i \in 1 .. Len(x) + Len(y) : z[i] = IF i <= Len(x) THEN x[i] ELSE y[i - Len(x)]
  BY <1>3, <1>4, ConcatProperties
<1> HIDE DEF z
<1>6. Len(z) = n /\ z \in [1 .. n -> Cells(s)]
  <2>1. Len(z) = n
    BY <1>1, <1>3, <1>4, <1>5
  <2> QED
    BY <1>5, <2>1, LenProperties
<1>7. ASSUME NEW j \in 1 .. n PROVE z[j] = IF j > h THEN q[j] ELSE p[j]
  <2>1. CASE j > h
    <3>1. j \in 1 .. Len(x) + Len(y) /\ ~ (j <= Len(x)) /\ j - h \in 1 .. n - h /\ h + (j - h) = j
      BY <1>1, <1>3, <1>4, <2>1
    <3> QED
      BY <1>3, <1>4, <1>5, <2>1, <3>1
  <2>2. CASE ~ (j > h)
    <3>1. j \in 1 .. Len(x) + Len(y) /\ j <= Len(x) /\ j \in 1 .. h
      BY <1>1, <1>3, <1>4, <2>2
    <3> QED
      BY <1>3, <1>5, <2>2, <3>1
  <2> QED
    BY <2>1, <2>2
<1>8. /\ Merged(s, b, c) \in Blocks(s) /\ Merged(s, b, c).cells = z
      /\ Labels(Merged(s, b, c)) = Labels(b)
  BY <1>6, <1>m DEF Blocks, Labels, n
<1> QED
  BY <1>7, <1>8 DEF n, h, p, q

LEMMA LabelsFacts ==
  ASSUME NEW b, NEW c, Labels(b) = Labels(c)
  PROVE  /\ b.next = c.next /\ b.length = c.length /\ b.size = c.size /\ b.prev = c.prev
         /\ b.deleted = c.deleted
  BY DEF Labels

(* Blocks are equal where all headers and cells are.                       *)
LEMMA SameBlock ==
  ASSUME NEW s \in Setting, NEW b \in Blocks(s), NEW c \in Blocks(s), Labels(b) = Labels(c),
         \A j \in 1 .. s.contentSize : b.cells[j] = c.cells[j]
  PROVE  b = c
<1>1. b.cells \in [1 .. s.contentSize -> Cells(s)] /\ c.cells \in [1 .. s.contentSize -> Cells(s)]
  BY BlockFacts
<1>2. b.cells = c.cells
  <2> DEFINE p == b.cells
             q == c.cells
             N == 1 .. s.contentSize
  <2>1. FunctionOn(N, p) /\ FunctionOn(N, q) /\ \A j \in N : p[j] = q[j]
    BY <1>1 DEF FunctionOn
  <2> HIDE DEF p, q, N
  <2>2. p = q
    BY <2>1, SameFunction
  <2> QED
    BY <2>2 DEF p, q
<1>3. /\ b.next = c.next /\ b.length = c.length /\ b.size = c.size /\ b.prev = c.prev
      /\ b.deleted = c.deleted
  BY LabelsFacts
<1> QED
  BY <1>2, <1>3 DEF Blocks

LEMMA MergedSame ==
  ASSUME NEW s \in Setting, NEW b \in Blocks(s), NEW c \in Blocks(s), SameBeyond(s, b, c)
  PROVE  Merged(s, b, c) = b
<1>1. /\ Merged(s, b, c) \in Blocks(s) /\ Labels(Merged(s, b, c)) = Labels(b)
      /\ \A j \in 1 .. s.contentSize : Merged(s, b, c).cells[j] = b.cells[j]
  BY MergedFacts DEF SameBeyond
<1> QED
  BY <1>1, SameBlock

LEMMA MergedBeyond ==
  ASSUME NEW s \in Setting, NEW b \in Blocks(s), NEW c \in Blocks(s)
  PROVE  SameBeyond(s, c, Merged(s, b, c))
  BY MergedFacts DEF SameBeyond

-----------------------------------------------------------------------------
(* Writes under way.                                                       *)

(* What a block of the stream is after a write to it.                      *)
Written(s, old, write) ==
  IF write.part = "sector" THEN Merged(s, write.block, old) ELSE Merged(s, old, write.block)

LEMMA OnStreamWritten ==
  ASSUME NEW old, NEW write
  PROVE  OnStream(old, write) = Written(setting, old, write)
  BY DEF OnStream, Written, Merged, SectorCells, BlockContentSize

WriteTo(s, D) == [id : DOMAIN D, block : Blocks(s), part : {"sector", "beyond"}]

(* What is to be found on the stream between any two writes: all that must *)
(* hold unless the list is torn, and what readers need even then.  The     *)
(* blocks "M" are none of the list and none of a record.                   *)
Fine(s, D, R, G, M) ==
  /\ Formed(s, D) /\ Chained(D, 0) /\ Sealed(s, D) /\ Left(D, G)
  /\ \A id \in DOMAIN R : Chained(D, id) /\ Lookup(D, id) = R[id]
  /\ M \cap (Tracking(D) \cup InRecords(D, R)) = {}
  /\ Torn(D) \/ Kept(s, D, R, G)

(* The streams "S" from before the first write to after the last.          *)
Runs(s, D, ws, S) ==
  /\ ws \in Seq(WriteTo(s, D))
  /\ S[0] = D /\ \A k \in 0 .. Len(ws) : DOMAIN S[k] = DOMAIN D
  /\ \A k \in 1 .. Len(ws) :
       S[k] = Put(S[k - 1], ws[k].id, Written(s, S[k - 1][ws[k].id], ws[k]))

(* The writes "ws" make "F" of "D", and the process may end before and     *)
(* after any of them.                                                      *)
Passes(s, D, ws, F, R, G, M, S) ==
  /\ Runs(s, D, ws, S) /\ S[Len(ws)] = F
  /\ \A k \in 0 .. Len(ws) : Fine(s, S[k], R, G, M)

Pending(s, D, ws, F, R, G, M) == \E S : Passes(s, D, ws, F, R, G, M, S)

LEMMA WriteFacts ==
  ASSUME NEW s, NEW D, NEW w \in WriteTo(s, D)
  PROVE  w.id \in DOMAIN D /\ w.block \in Blocks(s)
  BY DEF WriteTo

LEMMA WrittenFacts ==
  ASSUME NEW s \in Setting, NEW old \in Blocks(s), NEW w, w.block \in Blocks(s)
  PROVE  Written(s, old, w) \in Blocks(s)
  BY MergedFacts DEF Written

LEMMA KeptFine ==
  ASSUME NEW s, NEW D, NEW R, NEW G, Kept(s, D, R, G),
         NEW M, M \cap (Tracking(D) \cup InRecords(D, R)) = {}
  PROVE  Fine(s, D, R, G, M)
  BY DEF Fine, Kept, FreeList, Apart

LEMMA FineFewer ==
  ASSUME NEW s, NEW D, NEW R, NEW G, NEW M, Fine(s, D, R, G, M),
         NEW Q, DOMAIN Q \subseteq DOMAIN R, \A id \in DOMAIN Q : Q[id] = R[id],
         NEW H, H \subseteq G, NEW N, N \subseteq M
  PROVE  Fine(s, D, Q, H, N)
<1>1. /\ Formed(s, D) /\ Chained(D, 0) /\ Sealed(s, D) /\ Left(D, G)
      /\ \A id \in DOMAIN R : Chained(D, id) /\ Lookup(D, id) = R[id]
      /\ M \cap (Tracking(D) \cup InRecords(D, R)) = {}
      /\ Torn(D) \/ Kept(s, D, R, G)
  BY DEF Fine
<1>2. Left(D, H)
  BY <1>1 DEF Left
<1>3. InRecords(D, Q) \subseteq InRecords(D, R)
  BY DEF InRecords
<1>4. Kept(s, D, R, G) => Kept(s, D, Q, H)
  BY <1>2 DEF Kept, Apart
<1>5. N \cap (Tracking(D) \cup InRecords(D, Q)) = {}
  BY <1>1, <1>3
<1> QED
  BY <1>1, <1>2, <1>4, <1>5 DEF Fine

LEMMA PendingFewer ==
  ASSUME NEW s, NEW D, NEW ws, NEW F, NEW R, NEW G, NEW M, Pending(s, D, ws, F, R, G, M),
         NEW Q, DOMAIN Q \subseteq DOMAIN R, \A id \in DOMAIN Q : Q[id] = R[id],
         NEW H, H \subseteq G, NEW N, N \subseteq M
  PROVE  Pending(s, D, ws, F, Q, H, N)
<1>1. PICK S : Passes(s, D, ws, F, R, G, M, S)
  BY DEF Pending
<1>2. \A k \in 0 .. Len(ws) : Fine(s, S[k], Q, H, N)
  <2> SUFFICES ASSUME NEW k \in 0 .. Len(ws) PROVE Fine(s, S[k], Q, H, N)
    OBVIOUS
  <2>1. Fine(s, S[k], R, G, M)
    BY <1>1 DEF Passes
  <2> QED
    BY <2>1, FineFewer
<1> QED
  BY <1>1, <1>2 DEF Passes, Pending

LEMMA PendingFacts ==
  ASSUME NEW s, NEW D, NEW ws, NEW F, NEW R, NEW G, NEW M, Pending(s, D, ws, F, R, G, M)
  PROVE  /\ ws \in Seq(WriteTo(s, D)) /\ Len(ws) \in Nat
         /\ \A i \in 1 .. Len(ws) : ws[i].id \in DOMAIN D /\ ws[i].block \in Blocks(s)
         /\ Fine(s, D, R, G, M) /\ Fine(s, F, R, G, M)
         /\ DOMAIN F = DOMAIN D /\ Formed(s, D) /\ Formed(s, F)
<1>1. PICK S : Passes(s, D, ws, F, R, G, M, S)
  BY DEF Pending
<1>2. ws \in Seq(WriteTo(s, D)) /\ S[0] = D /\ S[Len(ws)] = F
      /\ \A k \in 0 .. Len(ws) : DOMAIN S[k] = DOMAIN D /\ Fine(s, S[k], R, G, M)
  BY <1>1 DEF Passes, Runs
<1>3. Len(ws) \in Nat /\ 0 \in 0 .. Len(ws) /\ Len(ws) \in 0 .. Len(ws)
  BY <1>2
<1>4. Fine(s, D, R, G, M) /\ Fine(s, F, R, G, M) /\ DOMAIN F = DOMAIN D
  BY <1>2, <1>3
<1>5. \A i \in 1 .. Len(ws) : ws[i] \in WriteTo(s, D)
  BY <1>2
<1>6. \A i \in 1 .. Len(ws) : ws[i].id \in DOMAIN D /\ ws[i].block \in Blocks(s)
  BY <1>5, WriteFacts
<1> QED
  BY <1>2, <1>3, <1>4, <1>6 DEF Fine

LEMMA PendingNone ==
  ASSUME NEW s, NEW D, NEW R, NEW G, NEW M, Fine(s, D, R, G, M)
  PROVE  Pending(s, D, <<>>, D, R, G, M)
<1> DEFINE S == [k \in {0} |-> D]
           none == <<>>
<1>1. S[0] = D /\ Len(none) = 0 /\ none \in Seq(WriteTo(s, D))
  OBVIOUS
<1> HIDE DEF S, none
<1>2. \A k \in 0 .. Len(none) : k = 0
  BY <1>1
<1>3. \A k \in 1 .. Len(none) : FALSE
  BY <1>1
<1>4. Runs(s, D, none, S)
  BY <1>1, <1>2, <1>3 DEF Runs
<1>5. Passes(s, D, none, D, R, G, M, S)
  BY <1>1, <1>2, <1>4 DEF Passes
<1> QED
  BY <1>5 DEF Pending, none

(* No writes are left.                                                     *)
LEMMA PendingOver ==
  ASSUME NEW s, NEW D, NEW F, NEW R, NEW G, NEW M, Pending(s, D, <<>>, F, R, G, M)
  PROVE  F = D
<1> DEFINE none == <<>>
<1>1. Len(none) = 0
  OBVIOUS
<1>2. PICK S : Passes(s, D, none, F, R, G, M, S)
  BY DEF Pending
<1> HIDE DEF none
<1> QED
  BY <1>1, <1>2 DEF Passes, Runs

(* One more write is put after those under way.                            *)
LEMMA PendingMore ==
  ASSUME NEW s, NEW D, NEW ws, NEW F, NEW R, NEW G, NEW M, Pending(s, D, ws, F, R, G, M),
         NEW w \in WriteTo(s, D), NEW E, E = Put(F, w.id, Written(s, F[w.id], w)),
         Fine(s, E, R, G, M)
  PROVE  Pending(s, D, ws \o <<w>>, E, R, G, M)
<1> DEFINE L == Len(ws)
           x == ws \o <<w>>
<1>1. PICK S : Passes(s, D, ws, F, R, G, M, S)
  BY DEF Pending
<1>2. /\ ws \in Seq(WriteTo(s, D)) /\ S[0] = D /\ S[L] = F
      /\ \A k \in 0 .. L : DOMAIN S[k] = DOMAIN D /\ Fine(s, S[k], R, G, M)
      /\ \A k \in 1 .. L : S[k] = Put(S[k - 1], ws[k].id, Written(s, S[k - 1][ws[k].id], ws[k]))
  BY <1>1 DEF Passes, Runs
<1>3. L \in Nat
  BY <1>2
<1>4. /\ x \in Seq(WriteTo(s, D)) /\ Len(x) = L + 1 /\ x[L + 1] = w
      /\ \A k \in 1 .. L : x[k] = ws[k]
  BY <1>2
<1> HIDE DEF x, L
<1> DEFINE T == [k \in 0 .. L + 1 |-> IF k = L + 1 THEN E ELSE S[k]]
<1>5. /\ T[L + 1] = E /\ \A k \in 0 .. L : T[k] = S[k]
      /\ L \in 0 .. L /\ 0 \in 0 .. L /\ L + 1 - 1 = L
      /\ \A k \in 0 .. L + 1 : k = L + 1 \/ k \in 0 .. L
      /\ \A k \in 1 .. L + 1 : k = L + 1 \/ (k \in 1 .. L /\ k \in 0 .. L /\ k - 1 \in 0 .. L)
  BY <1>3
<1> HIDE DEF T
<1>6. DOMAIN E = DOMAIN D
  <2>1. DOMAIN F = DOMAIN D
    BY <1>2, <1>5
  <2> QED
    BY <2>1 DEF Put
<1>7. \A k \in 0 .. L + 1 : DOMAIN T[k] = DOMAIN D /\ Fine(s, T[k], R, G, M)
  BY <1>2, <1>5, <1>6
<1>8. \A k \in 1 .. L + 1 : T[k] = Put(T[k - 1], x[k].id, Written(s, T[k - 1][x[k].id], x[k]))
  <2> SUFFICES ASSUME NEW k \in 1 .. L + 1
               PROVE  T[k] = Put(T[k - 1], x[k].id, Written(s, T[k - 1][x[k].id], x[k]))
    OBVIOUS
  <2>1. CASE k = L + 1
    <3>1. T[k] = E /\ T[k - 1] = F /\ x[k] = w
      BY <1>2, <1>4, <1>5, <2>1
    <3> QED
      BY <3>1
  <2>2. CASE k # L + 1
    <3>1. k \in 1 .. L /\ T[k] = S[k] /\ T[k - 1] = S[k - 1] /\ x[k] = ws[k]
      BY <1>4, <1>5, <2>2
    <3> QED
      BY <1>2, <3>1
  <2> QED
    BY <2>1, <2>2
<1>9. Runs(s, D, x, T)
  BY <1>2, <1>4, <1>5, <1>7, <1>8 DEF Runs
<1>10. Passes(s, D, x, E, R, G, M, T)
  BY <1>4, <1>5, <1>7, <1>9 DEF Passes
<1> QED
  BY <1>10 DEF Pending, x

(* One is put before them.                                                 *)
LEMMA PendingFirst ==
  ASSUME NEW s, NEW D, NEW w \in WriteTo(s, D), NEW R, NEW G, NEW M, Fine(s, D, R, G, M),
         NEW E, E = Put(D, w.id, Written(s, D[w.id], w)),
         NEW ws, NEW F, Pending(s, E, ws, F, R, G, M)
  PROVE  Pending(s, D, <<w>> \o ws, F, R, G, M)
<1> DEFINE L == Len(ws)
           x == <<w>> \o ws
<1>1. PICK S : Passes(s, E, ws, F, R, G, M, S)
  BY DEF Pending
<1>0. DOMAIN E = DOMAIN D
  BY DEF Put
<1>2. /\ ws \in Seq(WriteTo(s, D)) /\ S[0] = E /\ S[L] = F
      /\ \A k \in 0 .. L : DOMAIN S[k] = DOMAIN D /\ Fine(s, S[k], R, G, M)
      /\ \A k \in 1 .. L : S[k] = Put(S[k - 1], ws[k].id, Written(s, S[k - 1][ws[k].id], ws[k]))
  BY <1>0, <1>1 DEF Passes, Runs, WriteTo
<1>3. L \in Nat
  BY <1>2
<1>4. /\ x \in Seq(WriteTo(s, D)) /\ Len(x) = L + 1 /\ x[1] = w
      /\ \A k \in 2 .. L + 1 : x[k] = ws[k - 1]
  BY <1>2
<1> HIDE DEF x, L
<1> DEFINE T == [k \in 0 .. L + 1 |-> IF k = 0 THEN D ELSE S[k - 1]]
<1>5. /\ T[0] = D /\ T[1] = S[0] /\ T[L + 1] = S[L]
      /\ \A k \in 1 .. L + 1 : T[k] = S[k - 1] /\ k - 1 \in 0 .. L
      /\ \A k \in 0 .. L + 1 : k = 0 \/ k \in 1 .. L + 1
      /\ \A k \in 2 .. L + 1 : k - 1 \in 1 .. L /\ T[k] = S[k - 1] /\ T[k - 1] = S[k - 1 - 1]
      /\ \A k \in 1 .. L + 1 : k = 1 \/ k \in 2 .. L + 1
  BY <1>3
<1>5a. L + 1 \in 0 .. L + 1 /\ 1 - 1 = 0
  BY <1>3
<1> HIDE DEF T
<1>7. \A k \in 0 .. L + 1 : DOMAIN T[k] = DOMAIN D /\ Fine(s, T[k], R, G, M)
  BY <1>2, <1>5
<1>8. \A k \in 1 .. L + 1 : T[k] = Put(T[k - 1], x[k].id, Written(s, T[k - 1][x[k].id], x[k]))
  <2> SUFFICES ASSUME NEW k \in 1 .. L + 1
               PROVE  T[k] = Put(T[k - 1], x[k].id, Written(s, T[k - 1][x[k].id], x[k]))
    OBVIOUS
  <2>1. CASE k = 1
    <3>1. T[k] = E /\ T[k - 1] = D /\ x[k] = w
      BY <1>2, <1>4, <1>5, <1>5a, <2>1
    <3> QED
      BY <3>1
  <2>2. CASE k # 1
    <3>1. k \in 2 .. L + 1
      BY <1>5, <2>2
    <3>2. /\ k - 1 \in 1 .. L /\ T[k] = S[k - 1] /\ T[k - 1] = S[k - 1 - 1] /\ x[k] = ws[k - 1]
      BY <1>4, <1>5, <3>1
    <3>3. S[k - 1] = Put(S[k - 1 - 1], ws[k - 1].id, Written(s, S[k - 1 - 1][ws[k - 1].id], ws[k - 1]))
      BY <1>2, <3>2
    <3> QED
      BY <3>2, <3>3
  <2> QED
    BY <2>1, <2>2
<1>9. Runs(s, D, x, T)
  BY <1>4, <1>5, <1>7, <1>8 DEF Runs
<1>10. Passes(s, D, x, F, R, G, M, T)
  BY <1>2, <1>4, <1>5, <1>7, <1>9 DEF Passes
<1> QED
  BY <1>10 DEF Pending, x

(* The first write is made.                                                *)
LEMMA PendingLess ==
  ASSUME NEW s, NEW D, NEW ws, NEW F, NEW R, NEW G, NEW M, Pending(s, D, ws, F, R, G, M),
         ws # <<>>,
         NEW E, E = Put(D, Head(ws).id, Written(s, D[Head(ws).id], Head(ws)))
  PROVE  Pending(s, E, Tail(ws), F, R, G, M)
<1> DEFINE L == Len(ws)
           t == Tail(ws)
<1>1. PICK S : Passes(s, D, ws, F, R, G, M, S)
  BY DEF Pending
<1>2. /\ ws \in Seq(WriteTo(s, D)) /\ S[0] = D /\ S[L] = F
      /\ \A k \in 0 .. L : DOMAIN S[k] = DOMAIN D /\ Fine(s, S[k], R, G, M)
      /\ \A k \in 1 .. L : S[k] = Put(S[k - 1], ws[k].id, Written(s, S[k - 1][ws[k].id], ws[k]))
  BY <1>1 DEF Passes, Runs
<1>3. L \in Nat \ {0} /\ Head(ws) = ws[1]
  BY <1>2
<1>0. DOMAIN E = DOMAIN D
  BY DEF Put
<1>4. /\ t \in Seq(WriteTo(s, E)) /\ Len(t) = L - 1
      /\ \A k \in 1 .. L - 1 : t[k] = ws[k + 1]
  <2> DEFINE W == WriteTo(s, D)
  <2>1. W = WriteTo(s, E)
    BY <1>0 DEF WriteTo
  <2>2. ws \in Seq(W) /\ ws # <<>>
    BY <1>2
  <2> HIDE DEF W
  <2>3. /\ Tail(ws) \in Seq(W) /\ Len(Tail(ws)) = Len(ws) - 1
        /\ \A k \in 1 .. Len(Tail(ws)) : Tail(ws)[k] = ws[k + 1]
    BY <2>2, HeadTailProperties
  <2> QED
    BY <2>1, <2>3
<1> HIDE DEF t, L
<1> DEFINE T == [k \in 0 .. L - 1 |-> S[k + 1]]
<1>5. /\ \A k \in 0 .. L - 1 : T[k] = S[k + 1] /\ k + 1 \in 0 .. L
      /\ T[0] = S[1] /\ T[L - 1] = S[L]
      /\ \A k \in 1 .. L - 1 : /\ k + 1 \in 1 .. L /\ k + 1 - 1 = k
                               /\ T[k] = S[k + 1] /\ T[k - 1] = S[k]
      /\ 1 \in 1 .. L /\ 1 - 1 = 0
  BY <1>3
<1> HIDE DEF T
<1>6. S[1] = E
  <2>1. S[1] = Put(S[1 - 1], ws[1].id, Written(s, S[1 - 1][ws[1].id], ws[1]))
    BY <1>2, <1>5
  <2> QED
    BY <1>2, <1>3, <1>5, <2>1
<1>7. \A k \in 0 .. L - 1 : DOMAIN T[k] = DOMAIN E /\ Fine(s, T[k], R, G, M)
  BY <1>0, <1>2, <1>5
<1>8. \A k \in 1 .. L - 1 : T[k] = Put(T[k - 1], t[k].id, Written(s, T[k - 1][t[k].id], t[k]))
  <2> SUFFICES ASSUME NEW k \in 1 .. L - 1
               PROVE  T[k] = Put(T[k - 1], t[k].id, Written(s, T[k - 1][t[k].id], t[k]))
    OBVIOUS
  <2> DEFINE j == k + 1
  <2>1. j \in 1 .. L /\ j - 1 = k /\ T[k] = S[j] /\ T[k - 1] = S[k] /\ t[k] = ws[j]
    BY <1>4, <1>5
  <2> HIDE DEF j
  <2>2. S[j] = Put(S[j - 1], ws[j].id, Written(s, S[j - 1][ws[j].id], ws[j]))
    BY <1>2, <2>1
  <2> QED
    BY <2>1, <2>2
<1>9. Runs(s, E, t, T)
  BY <1>4, <1>5, <1>6, <1>7, <1>8 DEF Runs
<1>10. Passes(s, E, t, F, R, G, M, T)
  BY <1>2, <1>4, <1>5, <1>7, <1>9 DEF Passes
<1> QED
  BY <1>10 DEF Pending, t

-----------------------------------------------------------------------------
(* Writes that leave the list and the records as they are.                 *)

(* A block of nobody is written.                                           *)
LEMMA FineAside ==
  ASSUME NEW s \in Setting, NEW D, NEW R, NEW G, NEW M, Fine(s, D, R, G, M),
         NEW id \in DOMAIN D, id \notin Tracking(D) \cup InRecords(D, R),
         NEW b, FormedBlock(s, D, b), id \in G => b.deleted \/ b.prev # 0
  PROVE  /\ Fine(s, Put(D, id, b), R, G, M)
         /\ Tracking(Put(D, id, b)) = Tracking(D)
<1> DEFINE E == Put(D, id, b)
<1>1. /\ Formed(s, D) /\ Chained(D, 0) /\ Sealed(s, D) /\ Left(D, G)
      /\ \A r \in DOMAIN R : Chained(D, r) /\ Lookup(D, r) = R[r]
      /\ M \cap (Tracking(D) \cup InRecords(D, R)) = {}
      /\ Torn(D) \/ Kept(s, D, R, G)
  BY DEF Fine
<1>2. Formed(s, E) /\ Changed(D, E, id, b)
  BY <1>1, PutChanges
<1> HIDE DEF E
<1>3. DOMAIN E = DOMAIN D /\ E[id] = b /\ \A m \in DOMAIN D : m # id => E[m] = D[m]
  BY <1>2 DEF Changed
<1>4. Tracking(D) \subseteq DOMAIN D
  BY <1>1, MembersOfChained DEF Tracking
<1>5. Sound(E)
  BY <1>2, FormedFacts
<1>6. Chained(E, 0) /\ Chain(E, 0) = Chain(D, 0) /\ Tracking(E) = Tracking(D)
  <2>1. \A m \in Members(D, 0) : m \in DOMAIN E /\ E[m].next = D[m].next
    BY <1>3, <1>4 DEF Tracking
  <2> QED
    BY <1>1, <1>5, <2>1, ChainUnchanged DEF Tracking
<1>7. \A t \in Tracking(D) : E[t] = D[t]
  BY <1>3, <1>4
<1>8. Sealed(s, E)
  BY <1>1, <1>6, <1>7 DEF Sealed
<1>9. Left(E, G)
  BY <1>1, <1>3, <1>6 DEF Left
<1>10. ASSUME NEW r \in DOMAIN R
       PROVE  Chained(E, r) /\ Lookup(E, r) = R[r] /\ Members(E, r) = Members(D, r)
  <2>1. Chained(D, r) /\ Lookup(D, r) = R[r] /\ Members(D, r) \subseteq InRecords(D, R)
    BY <1>1 DEF InRecords
  <2>2. \A m \in Members(D, r) : m \in DOMAIN E /\ E[m] = D[m]
    BY <1>3, <2>1, MembersOfChained
  <2> QED
    BY <1>5, <2>1, <2>2, LookupUnchanged
<1>11. InRecords(E, R) = InRecords(D, R)
  BY <1>10 DEF InRecords
<1>12. Torn(D) => Torn(E)
  <2>1. E # <<>>
    BY <1>2, FormedFacts
  <2> QED
    BY <1>6, <1>7, <2>1 DEF Torn, Tracking, Members
<1>13. Kept(s, D, R, G) => Kept(s, E, R, G)
  <2> SUFFICES ASSUME Kept(s, D, R, G) PROVE Kept(s, E, R, G)
    OBVIOUS
  <2>1. \A m \in Tracking(D) \cup InRecords(D, R) : E[m] = D[m]
    BY <1>3, <1>4, RecordsAside DEF Kept
  <2>2. \A g \in G : E[g].deleted \/ E[g].prev # 0
    BY <1>9 DEF Left
  <2> QED
    BY <1>2, <1>3, <2>1, <2>2, KeptAside
<1>14. Fine(s, E, R, G, M)
  BY <1>1, <1>2, <1>6, <1>8, <1>9, <1>10, <1>11, <1>12, <1>13 DEF Fine
<1> QED
  BY <1>6, <1>14 DEF E

(* A block of the list is written, but for its headers.                    *)
Relabelled(s, D, E, R, G) ==
  /\ Formed(s, E) /\ Chained(E, 0) /\ Chain(E, 0) = Chain(D, 0) /\ Tracking(E) = Tracking(D)
  /\ Sealed(s, E) /\ Left(E, G)
  /\ \A r \in DOMAIN R : Chained(E, r) /\ Lookup(E, r) = R[r]
  /\ InRecords(E, R) = InRecords(D, R)

LEMMA ListRelabelled ==
  ASSUME NEW s \in Setting, NEW D, NEW R, NEW G, Kept(s, D, R, G),
         NEW t \in Tracking(D), NEW c \in Blocks(s), Labels(c) = Labels(D[t])
  PROVE  /\ Changed(D, Put(D, t, c), t, c) /\ t \in DOMAIN D
         /\ Relabelled(s, D, Put(D, t, c), R, G)
<1> DEFINE E == Put(D, t, c)
<1>1. Formed(s, D) /\ FreeList(s, D) /\ Apart(D, R) /\ Left(D, G) /\ Sealed(s, D)
  BY DEF Kept, FreeList
<1>2. t \in DOMAIN D /\ Tracking(D) \subseteq DOMAIN D
  BY <1>1, FreeListFacts
<1>3. c.next = D[t].next /\ c.size = D[t].size /\ c.deleted = D[t].deleted /\ c.prev = D[t].prev
  BY LabelsFacts
<1>4. FormedBlock(s, D, c)
  BY <1>1, <1>2, <1>3, FormedFacts DEF FormedBlock
<1>5. Formed(s, E) /\ Changed(D, E, t, c)
  BY <1>1, <1>2, <1>4, PutChanges
<1> HIDE DEF E
<1>6. Chained(E, 0) /\ Chain(E, 0) = Chain(D, 0) /\ Tracking(E) = Tracking(D)
  BY <1>1, <1>3, <1>5, ListWritten
<1>7. Sealed(s, E)
  BY <1>1, <1>2, <1>3, <1>5, <1>6 DEF Sealed, Changed
<1>8. Left(E, G)
  BY <1>1, <1>5, <1>6 DEF Left, Changed
<1>9. InRecords(D, R) \subseteq DOMAIN D /\ InRecords(D, R) \cap Tracking(D) = {}
  BY <1>1, RecordsAside
<1>10. ASSUME NEW r \in DOMAIN R
       PROVE  Chained(E, r) /\ Lookup(E, r) = R[r] /\ Members(E, r) = Members(D, r)
  <2>1. Chained(D, r) /\ Lookup(D, r) = R[r] /\ Members(D, r) \subseteq InRecords(D, R)
    BY <1>1 DEF InRecords, Apart
  <2>2. \A m \in Members(D, r) : m \in DOMAIN E /\ E[m] = D[m]
    BY <1>5, <1>9, <2>1 DEF Changed
  <2>3. Sound(E)
    BY <1>5, FormedFacts
  <2> QED
    BY <2>1, <2>2, <2>3, LookupUnchanged
<1>11. InRecords(E, R) = InRecords(D, R)
  BY <1>10 DEF InRecords
<1>12. Relabelled(s, D, E, R, G)
  BY <1>5, <1>6, <1>7, <1>8, <1>10, <1>11 DEF Relabelled
<1> QED
  BY <1>2, <1>5, <1>12 DEF E

(* The cells changed are not used.                                         *)
LEMMA KeptAlike ==
  ASSUME NEW s \in Setting, NEW D, NEW R, NEW G, Kept(s, D, R, G),
         NEW t \in Tracking(D), NEW c \in Blocks(s), Labels(c) = Labels(D[t]),
         \A j \in 1 .. D[t].size : c.cells[j] = D[t].cells[j]
  PROVE  /\ Kept(s, Put(D, t, c), R, G)
         /\ Tracking(Put(D, t, c)) = Tracking(D) /\ InRecords(Put(D, t, c), R) = InRecords(D, R)
<1> DEFINE E == Put(D, t, c)
<1>1. Changed(D, E, t, c) /\ t \in DOMAIN D /\ Relabelled(s, D, E, R, G)
  BY ListRelabelled
<1> HIDE DEF E
<1>2. /\ Formed(s, D) /\ FreeList(s, D) /\ Apart(D, R) /\ Left(D, G)
      /\ Sealed(s, D) /\ Outside(D) /\ NoneTwice(D)
  BY DEF Kept, FreeList
<1>3. /\ Formed(s, E) /\ Chained(E, 0) /\ Tracking(E) = Tracking(D) /\ Sealed(s, E)
      /\ InRecords(E, R) = InRecords(D, R)
  BY <1>1 DEF Relabelled
<1>4. \A u \in Tracking(D) : E[u].size = D[u].size /\ \A j \in 1 .. D[u].size : E[u].cells[j] = D[u].cells[j]
  <2>1. c.size = D[t].size /\ Tracking(D) \subseteq DOMAIN D
    BY <1>2, LabelsFacts, FreeListFacts
  <2> QED
    BY <1>1, <2>1 DEF Changed
<1>5. DOMAIN E = DOMAIN D
  BY <1>1 DEF Changed
<1>6. Free(E) = Free(D)
  BY <1>3, <1>4, <1>5 DEF Free
<1>7. FreeList(s, E)
  <2>1. Outside(E)
    BY <1>2, <1>3, <1>4, <1>5 DEF Outside
  <2>2. NoneTwice(E)
    BY <1>2, <1>3, <1>4 DEF NoneTwice
  <2> QED
    BY <1>3, <2>1, <2>2 DEF FreeList
<1>8. InRecords(D, R) \cap Free(E) = {}
  BY <1>2, <1>6, RecordsAside
<1>9. Kept(s, E, R, G)
  BY <1>1, <1>3, <1>7, <1>8, KeptByList
<1> QED
  BY <1>3, <1>9 DEF E

(* One of them is the number of the list's last block: the list is torn.   *)
LEMMA FineTorn ==
  ASSUME NEW s \in Setting, NEW D, NEW R, NEW G, Kept(s, D, R, G),
         NEW M, M \cap (Tracking(D) \cup InRecords(D, R)) = {},
         NEW t \in Tracking(D), NEW c \in Blocks(s), Labels(c) = Labels(D[t]),
         NEW j \in 1 .. D[t].size, c.cells[j] = Last(Chain(D, 0))
  PROVE  Fine(s, Put(D, t, c), R, G, M)
<1> DEFINE E == Put(D, t, c)
<1>1. Changed(D, E, t, c) /\ t \in DOMAIN D /\ Relabelled(s, D, E, R, G)
  BY ListRelabelled
<1> HIDE DEF E
<1>2. /\ Formed(s, E) /\ Chained(E, 0) /\ Chain(E, 0) = Chain(D, 0) /\ Tracking(E) = Tracking(D)
      /\ Sealed(s, E) /\ Left(E, G)
      /\ \A r \in DOMAIN R : Chained(E, r) /\ Lookup(E, r) = R[r]
      /\ InRecords(E, R) = InRecords(D, R)
  BY <1>1 DEF Relabelled
<1>3. E[t] = c /\ c.size = D[t].size
  BY <1>1, LabelsFacts DEF Changed
<1>4. Last(Chain(E, 0)) \in Range(Used(E[t]))
  <2> DEFINE q == Used(c)
  <2>1. q \in Seq(Cells(s)) /\ Len(q) = c.size /\ \A k \in 1 .. c.size : q[k] = c.cells[k]
    BY UsedFacts
  <2> HIDE DEF q
  <2>2. j \in DOMAIN q /\ q[j] = Last(Chain(D, 0))
    BY <1>3, <2>1
  <2>3. Last(Chain(D, 0)) \in Range(q)
    BY <2>2 DEF Range
  <2> QED
    BY <1>2, <1>3, <2>3 DEF q
<1>5. Torn(E)
  <2>1. E # <<>>
    BY <1>2, FormedFacts
  <2>2. t \in Range(Chain(E, 0))
    BY <1>2 DEF Tracking, Members
  <2> QED
    BY <1>4, <2>1, <2>2 DEF Torn
<1>6. Fine(s, E, R, G, M)
  BY <1>2, <1>5 DEF Fine
<1> QED
  BY <1>6 DEF E

-----------------------------------------------------------------------------
(* The writes of Block.Write and Block.Dispose.                            *)

(* A block is disposed that has not changed beyond its first sector.       *)
LEMMA PendingSector ==
  ASSUME NEW s \in Setting, NEW D, NEW ws, NEW F, NEW R, NEW G, NEW M, Pending(s, D, ws, F, R, G, M),
         NEW id \in DOMAIN F, NEW b \in Blocks(s), SameBeyond(s, b, F[id]),
         Fine(s, Put(F, id, b), R, G, M)
  PROVE  Pending(s, D, ws \o Disposed(id, b), Put(F, id, b), R, G, M)
<1> DEFINE w == [id |-> id, block |-> b, part |-> "sector"]
<1>1. DOMAIN F = DOMAIN D /\ Formed(s, F)
  BY PendingFacts
<1>2. w \in WriteTo(s, D) /\ w.id = id /\ w.block = b /\ w.part = "sector"
  BY <1>1 DEF WriteTo
<1>3. Disposed(id, b) = <<w>>
  BY DEF Disposed
<1> HIDE DEF w
<1>4. Written(s, F[id], w) = b
  <2>1. F[id] \in Blocks(s)
    BY <1>1, FormedFacts
  <2>2. Merged(s, b, F[id]) = b
    BY <2>1, MergedSame
  <2> QED
    BY <1>2, <2>2 DEF Written
<1>5. Put(F, id, b) = Put(F, w.id, Written(s, F[w.id], w))
  BY <1>2, <1>4
<1>6. Pending(s, D, ws \o <<w>>, Put(F, id, b), R, G, M)
  BY <1>2, <1>5, PendingMore
<1> QED
  BY <1>3, <1>6

(* What is written beyond the first sector, if anything is.                *)
Outer(s, D, id, b, last) ==
  IF last > s.sectorCells THEN Put(D, id, Merged(s, D[id], b)) ELSE D

LEMMA PendingBeyond ==
  ASSUME setting \in Setting, NEW D, NEW ws, NEW F, NEW R, NEW G, NEW M,
         Pending(setting, D, ws, F, R, G, M),
         NEW id \in DOMAIN F, NEW b \in Blocks(setting), NEW last,
         Fine(setting, Outer(setting, F, id, b, last), R, G, M)
  PROVE  Pending(setting, D, ws \o Beyond(id, b, last), Outer(setting, F, id, b, last), R, G, M)
<1> DEFINE w == [id |-> id, block |-> b, part |-> "beyond"]
<1>1. DOMAIN F = DOMAIN D /\ Formed(setting, F) /\ ws \in Seq(WriteTo(setting, D))
  BY PendingFacts
<1>2. w \in WriteTo(setting, D) /\ w.id = id /\ w.block = b /\ w.part = "beyond"
  BY <1>1 DEF WriteTo
<1>3. Beyond(id, b, last) = IF last > setting.sectorCells THEN <<w>> ELSE <<>>
  BY DEF Beyond, SectorCells
<1> HIDE DEF w
<1>4. CASE last > setting.sectorCells
  <2>1. Written(setting, F[id], w) = Merged(setting, F[id], b)
    BY <1>2 DEF Written
  <2>2. Outer(setting, F, id, b, last) = Put(F, w.id, Written(setting, F[w.id], w))
    BY <1>2, <1>4, <2>1 DEF Outer
  <2>3. Pending(setting, D, ws \o <<w>>, Outer(setting, F, id, b, last), R, G, M)
    BY <1>2, <2>2, PendingMore
  <2> QED
    BY <1>3, <1>4, <2>3
<1>5. CASE ~ (last > setting.sectorCells)
  <2>1. Beyond(id, b, last) = <<>> /\ Outer(setting, F, id, b, last) = F
    BY <1>3, <1>5 DEF Outer
  <2>2. ws \o <<>> = ws
    BY <1>1
  <2> QED
    BY <2>1, <2>2
<1> QED
  BY <1>4, <1>5

(* A block is written as a whole, in the two parts.                        *)
LEMMA OuterFacts ==
  ASSUME NEW s \in Setting, NEW D, Formed(s, D), NEW id \in DOMAIN D, NEW b \in Blocks(s), NEW last,
         last > s.sectorCells \/ SameBeyond(s, b, D[id])
  PROVE  /\ DOMAIN Outer(s, D, id, b, last) = DOMAIN D
         /\ SameBeyond(s, b, Outer(s, D, id, b, last)[id])
         /\ \A c : Put(Outer(s, D, id, b, last), id, c) = Put(D, id, c)
<1>1. CASE last > s.sectorCells
  <2> DEFINE m == Merged(s, D[id], b)
  <2>1. Outer(s, D, id, b, last) = Put(D, id, m)
    BY <1>1 DEF Outer
  <2>2. SameBeyond(s, b, m)
    BY FormedFacts, MergedBeyond
  <2> HIDE DEF m
  <2>3. DOMAIN Put(D, id, m) = DOMAIN D /\ Put(D, id, m)[id] = m
    BY PutFacts
  <2>4. \A c : Put(Put(D, id, m), id, c) = Put(D, id, c)
    BY PutTwice
  <2> QED
    BY <2>1, <2>2, <2>3, <2>4
<1>2. CASE ~ (last > s.sectorCells)
  BY <1>2 DEF Outer
<1> QED
  BY <1>1, <1>2

LEMMA PendingWhole ==
  ASSUME setting \in Setting, NEW D, NEW R, NEW G, NEW M, Fine(setting, D, R, G, M),
         NEW id \in DOMAIN D, NEW b \in Blocks(setting), NEW last,
         last > setting.sectorCells \/ SameBeyond(setting, b, D[id]),
         Fine(setting, Outer(setting, D, id, b, last), R, G, M),
         Fine(setting, Put(D, id, b), R, G, M)
  PROVE  Pending(setting, D, Beyond(id, b, last) \o Disposed(id, b), Put(D, id, b), R, G, M)
<1> DEFINE X == Outer(setting, D, id, b, last)
           none == <<>>
           y == Beyond(id, b, last)
<1>1. Formed(setting, D)
  BY DEF Fine
<1>2. /\ DOMAIN X = DOMAIN D /\ SameBeyond(setting, b, X[id])
      /\ \A c : Put(X, id, c) = Put(D, id, c)
  BY <1>1, OuterFacts
<1>3. Pending(setting, D, none, D, R, G, M)
  BY PendingNone
<1>4. none \o y = y
  BY DEF Beyond
<1> HIDE DEF none
<1>5. Pending(setting, D, y, X, R, G, M)
  <2>1. Pending(setting, D, none \o y, X, R, G, M)
    BY <1>3, PendingBeyond
  <2> QED
    BY <1>4, <2>1
<1> HIDE DEF X, y
<1>6. Put(X, id, b) = Put(D, id, b)
  BY <1>2
<1>7. id \in DOMAIN X /\ Fine(setting, Put(X, id, b), R, G, M)
  BY <1>2, <1>6
<1>8. Pending(setting, D, y \o Disposed(id, b), Put(X, id, b), R, G, M)
  BY <1>2, <1>5, <1>7, PendingSector
<1> QED
  BY <1>6, <1>8 DEF y

(* Another block, that no write is to, is changed beforehand.              *)
LEMMA PendingAside ==
  ASSUME NEW s \in Setting, NEW D, NEW ws, NEW F, NEW R, NEW G, NEW M, Pending(s, D, ws, F, R, G, M),
         NEW id \in M, id \in DOMAIN D, \A i \in 1 .. Len(ws) : ws[i].id # id,
         NEW c, FormedBlock(s, D, c), id \in G => c.deleted \/ c.prev # 0
  PROVE  Pending(s, Put(D, id, c), ws, Put(F, id, c), R, G, M)
<1> DEFINE L == Len(ws)
           D2 == Put(D, id, c)
<1>1. PICK S : Passes(s, D, ws, F, R, G, M, S)
  BY DEF Pending
<1>2. /\ ws \in Seq(WriteTo(s, D)) /\ S[0] = D /\ S[L] = F
      /\ \A k \in 0 .. L : DOMAIN S[k] = DOMAIN D /\ Fine(s, S[k], R, G, M)
      /\ \A k \in 1 .. L : S[k] = Put(S[k - 1], ws[k].id, Written(s, S[k - 1][ws[k].id], ws[k]))
  BY <1>1 DEF Passes, Runs
<1>3. L \in Nat
  BY <1>2
<1>4. DOMAIN D2 = DOMAIN D /\ ws \in Seq(WriteTo(s, D2))
  <2>1. DOMAIN D2 = DOMAIN D
    BY PutFacts
  <2> QED
    BY <1>2, <2>1 DEF WriteTo
<1>5. \A k \in 1 .. L : ws[k].id \in DOMAIN D /\ ws[k].id # id
  BY PendingFacts
<1> HIDE DEF L
<1> DEFINE T == [k \in 0 .. L |-> Put(S[k], id, c)]
<1>6. /\ 0 \in 0 .. L /\ L \in 0 .. L
      /\ \A k \in 0 .. L : T[k] = Put(S[k], id, c)
      /\ \A k \in 1 .. L : k \in 0 .. L /\ k - 1 \in 0 .. L
  BY <1>3
<1> HIDE DEF T
<1>7. T[0] = D2 /\ T[L] = Put(F, id, c)
  BY <1>2, <1>6
<1>8. ASSUME NEW k \in 0 .. L PROVE DOMAIN T[k] = DOMAIN D2 /\ Fine(s, T[k], R, G, M)
  <2>1. T[k] = Put(S[k], id, c) /\ DOMAIN S[k] = DOMAIN D /\ Fine(s, S[k], R, G, M)
    BY <1>2, <1>6
  <2>2. FormedBlock(s, S[k], c) /\ id \notin Tracking(S[k]) \cup InRecords(S[k], R)
    BY <2>1 DEF FormedBlock, Fine
  <2>3. Fine(s, Put(S[k], id, c), R, G, M)
    BY <2>1, <2>2, FineAside
  <2>4. DOMAIN Put(S[k], id, c) = DOMAIN D
    BY <2>1, PutFacts
  <2> QED
    BY <1>4, <2>1, <2>3, <2>4
<1>9. ASSUME NEW k \in 1 .. L
      PROVE  T[k] = Put(T[k - 1], ws[k].id, Written(s, T[k - 1][ws[k].id], ws[k]))
  <2> DEFINE P == S[k - 1]
             n == ws[k].id
             b == Written(s, P[n], ws[k])
  <2>1. S[k] = Put(P, n, b) /\ DOMAIN P = DOMAIN D /\ n \in DOMAIN D /\ n # id
    BY <1>2, <1>5, <1>6
  <2>2. T[k] = Put(S[k], id, c) /\ T[k - 1] = Put(P, id, c)
    BY <1>6
  <2> HIDE DEF P, n, b
  <2>3. Put(P, id, c)[n] = P[n]
    BY <2>1, PutFacts
  <2>4. Put(Put(P, n, b), id, c) = Put(Put(P, id, c), n, b)
    BY <2>1, PutBoth
  <2>5. b = Written(s, T[k - 1][n], ws[k])
    BY <2>2, <2>3 DEF b
  <2> QED
    BY <2>1, <2>2, <2>4, <2>5 DEF n
<1>10. Runs(s, D2, ws, T)
  BY <1>4, <1>7, <1>8, <1>9 DEF Runs, L
<1>11. Passes(s, D2, ws, Put(F, id, c), R, G, M, T)
  BY <1>7, <1>8, <1>10 DEF Passes, L
<1> QED
  BY <1>11 DEF Pending

-----------------------------------------------------------------------------
(* Blocks an operation has open, put onto the stream.                      *)

(* The stream with the first "k" of the blocks, that are all different.    *)
Applied(D, ws, k) ==
  [id \in DOMAIN D |->
     IF \E j \in 1 .. k : ws[j].id = id
     THEN ws[CHOOSE j \in 1 .. k : ws[j].id = id].block ELSE D[id]]

(* Blocks of "D" that are all different.                                   *)
Distinct(D, ws) ==
  /\ Len(ws) \in Nat /\ \A i \in 1 .. Len(ws) : ws[i].id \in DOMAIN D
  /\ \A i, j \in 1 .. Len(ws) : ws[i].id = ws[j].id => i = j

LEMMA DistinctApplied ==
  ASSUME NEW D, NEW ws, Distinct(D, ws), NEW k \in 0 .. Len(ws)
  PROVE  /\ DOMAIN Applied(D, ws, k) = DOMAIN D
         /\ FunctionOn(DOMAIN D, Applied(D, ws, k))
         /\ \A j \in 1 .. k : Applied(D, ws, k)[ws[j].id] = ws[j].block
         /\ \A id \in DOMAIN D :
              (\A j \in 1 .. k : ws[j].id # id) => Applied(D, ws, k)[id] = D[id]
<1> DEFINE A == Applied(D, ws, k)
<1>1. Len(ws) \in Nat /\ \A j \in 1 .. k : j \in 1 .. Len(ws) /\ ws[j].id \in DOMAIN D
  <2>1. /\ Len(ws) \in Nat
        /\ \A i \in 1 .. Len(ws) : ws[i].id \in DOMAIN D
    BY DEF Distinct
  <2> QED
    BY <2>1
<1>2. DOMAIN A = DOMAIN D /\ FunctionOn(DOMAIN D, A)
  BY DEF Applied, FunctionOn
<1>3. ASSUME NEW j \in 1 .. k PROVE A[ws[j].id] = ws[j].block
  <2> DEFINE id == ws[j].id
             i == CHOOSE i \in 1 .. k : ws[i].id = id
  <2>1. i \in 1 .. k /\ ws[i].id = id
    OBVIOUS
  <2>2. i = j
    BY <1>1, <2>1 DEF Distinct
  <2>3. A[id] = ws[i].block
    BY <1>1 DEF Applied
  <2> QED
    BY <2>2, <2>3
<1>4. ASSUME NEW id \in DOMAIN D, \A j \in 1 .. k : ws[j].id # id PROVE A[id] = D[id]
  BY <1>4 DEF Applied
<1> QED
  BY <1>2, <1>3, <1>4

(* One block more.                                                         *)
LEMMA AppliedNext ==
  ASSUME NEW D, NEW ws, Distinct(D, ws), NEW k \in 0 .. Len(ws) - 1
  PROVE  /\ FunctionOn(DOMAIN D, Applied(D, ws, k + 1))
         /\ Changed(Applied(D, ws, k), Applied(D, ws, k + 1), ws[k + 1].id, ws[k + 1].block)
<1> DEFINE A == Applied(D, ws, k)
           B == Applied(D, ws, k + 1)
<1>1. /\ k \in 0 .. Len(ws) /\ k + 1 \in 0 .. Len(ws) /\ k + 1 \in 1 .. k + 1 /\ k + 1 \in 1 .. Len(ws)
      /\ \A j \in 1 .. k + 1 : j \in 1 .. k \/ j = k + 1
      /\ \A j \in 1 .. k : j \in 1 .. k + 1
  BY DEF Distinct
<1>2. /\ DOMAIN A = DOMAIN D
      /\ \A j \in 1 .. k : A[ws[j].id] = ws[j].block
      /\ \A id \in DOMAIN D : (\A j \in 1 .. k : ws[j].id # id) => A[id] = D[id]
  BY <1>1, DistinctApplied
<1>3. /\ DOMAIN B = DOMAIN D /\ FunctionOn(DOMAIN D, B)
      /\ \A j \in 1 .. k + 1 : B[ws[j].id] = ws[j].block
      /\ \A id \in DOMAIN D : (\A j \in 1 .. k + 1 : ws[j].id # id) => B[id] = D[id]
  BY <1>1, DistinctApplied
<1> HIDE DEF A, B
<1>4. ASSUME NEW id \in DOMAIN D, id # ws[k + 1].id PROVE B[id] = A[id]
  <2>1. CASE \E j \in 1 .. k : ws[j].id = id
    BY <1>1, <1>2, <1>3, <2>1
  <2>2. CASE \A j \in 1 .. k : ws[j].id # id
    <3>1. \A j \in 1 .. k + 1 : ws[j].id # id
      BY <1>1, <1>4, <2>2
    <3> QED
      BY <1>2, <1>3, <2>2, <3>1
  <2> QED
    BY <2>1, <2>2
<1>5. ws[k + 1].id \in DOMAIN D
  BY <1>1 DEF Distinct
<1>6. Changed(A, B, ws[k + 1].id, ws[k + 1].block)
  BY <1>1, <1>2, <1>3, <1>4, <1>5 DEF Changed
<1> QED
  BY <1>3, <1>6 DEF A, B

LEMMA AppliedNone ==
  ASSUME NEW s, NEW D, NEW ws, Formed(s, D)
  PROVE  Applied(D, ws, 0) = D
<1>1. D = [id \in DOMAIN D |-> D[id]]
  BY DEF Formed
<1>2. 1 .. 0 = {}
  OBVIOUS
<1> QED
  BY <1>1, <1>2 DEF Applied

-----------------------------------------------------------------------------
(* AllocateBlock and MarkAsFree keep the free list and the records through *)
(* each of the writes they make.                                           *)

(* A block with its headers reset.                                         *)
Blank(s, b) ==
  b \in Blocks(s) /\ b.next = 0 /\ b.length = 0 /\ b.size = 0 /\ b.prev = 0 /\ ~ b.deleted

(* "n" is a block of nobody in "F", which "D" has become; it was a free    *)
(* one, or is new.                                                         *)
Handed(D, R, F, n) ==
  /\ n \in DOMAIN F \ {0} /\ n \notin Tracking(F) \cup Free(F) \cup InRecords(F, R)
  /\ n \notin DOMAIN D \/ n \in Free(D)
  /\ DOMAIN F = DOMAIN D \cup {n}
  /\ InRecords(F, R) = InRecords(D, R)
  /\ Tracking(F) \cup Free(F) \cup {n} = Tracking(D) \cup Free(D) \cup {n}
  /\ \A m \in DOMAIN D \ Tracking(D) : F[m] = D[m]

(* The stream is "F" in the end.                                           *)
Allocation(s, D, R, G, a, F) ==
  /\ Kept(s, F, R, G)
  /\ \A M : M \cap (Tracking(D) \cup InRecords(D, R)) = {} =>
              Pending(s, a.disk, a.writes, F, R, G, M)
  /\ \A i \in 1 .. Len(a.writes) : a.writes[i].id \in Tracking(D)
  /\ Blank(s, a.block.block) /\ SameBeyond(s, a.block.block, F[a.block.id])
  /\ Handed(D, R, F, a.block.id)

LEMMA FindBlocksFacts ==
  ASSUME NEW D, NEW id, Len(Chain(D, id)) \in Nat
  PROVE  /\ Len(FindBlocks(D, id)) = Len(Chain(D, id))
         /\ \A i \in 1 .. Len(Chain(D, id)) :
              FindBlocks(D, id)[i] = [id |-> Chain(D, id)[i], block |-> D[Chain(D, id)[i]]]
  BY DEF FindBlocks, Opened

(* A new block changes nothing.                                            *)
LEMMA KeptExtended ==
  ASSUME setting \in Setting, NEW D, NEW R, NEW G, Kept(setting, D, R, G)
  PROVE  /\ Kept(setting, Extend(D), R, G)
         /\ Chain(Extend(D), 0) = Chain(D, 0)
         /\ Tracking(Extend(D)) = Tracking(D) /\ Free(Extend(D)) = Free(D)
         /\ InRecords(Extend(D), R) = InRecords(D, R)
         /\ Size(D) \in DOMAIN Extend(D) /\ Size(D) \notin DOMAIN D /\ Size(D) # 0
         /\ DOMAIN Extend(D) = DOMAIN D \cup {Size(D)} /\ Extend(D)[Size(D)] = Fresh
         /\ \A id \in DOMAIN D : Extend(D)[id] = D[id]
         /\ Tracking(D) \cup Free(D) \cup InRecords(D, R) \subseteq DOMAIN D
<1> DEFINE E == Extend(D)
           n == Size(D)
<1>1. Formed(setting, D) /\ FreeList(setting, D) /\ Apart(D, R) /\ Left(D, G)
  BY DEF Kept
<1>2. /\ Formed(setting, E) /\ n \in DOMAIN E /\ n \notin DOMAIN D /\ n # 0
      /\ DOMAIN E = DOMAIN D \cup {n} /\ E[n] = Fresh
      /\ \A id \in DOMAIN D : E[id] = D[id]
  BY <1>1, FormedExtend
<1>3. Tracking(D) \subseteq DOMAIN D /\ Free(D) \subseteq DOMAIN D /\ InRecords(D, R) \subseteq DOMAIN D
  BY <1>1, FreeListFacts, RecordsAside
<1> HIDE DEF E, n
<1>4. \A id \in G : E[id].deleted \/ E[id].prev # 0
  BY <1>1, <1>2 DEF Left
<1>5. \A m \in Tracking(D) \cup InRecords(D, R) : E[m] = D[m]
  BY <1>2, <1>3
<1>6. DOMAIN D \subseteq DOMAIN E
  BY <1>2
<1>7. /\ Kept(setting, E, R, G)
      /\ Chain(E, 0) = Chain(D, 0)
      /\ Tracking(E) = Tracking(D) /\ Free(E) = Free(D)
      /\ InRecords(E, R) = InRecords(D, R)
  BY <1>2, <1>4, <1>5, <1>6, KeptAside
<1> QED
  BY <1>2, <1>3, <1>7 DEF E, n

LEMMA ResetCells ==
  ASSUME setting \in Setting, NEW b
  PROVE  Reset(b).cells = b.cells
<1>1. Fresh \in Blocks(setting)
  BY FreshFacts
<1> QED
  BY <1>1 DEF Reset, Blocks

(* A new block.                                                            *)
LEMMA AllocatesNew ==
  ASSUME setting \in Setting, NEW D, NEW R, NEW G, Kept(setting, D, R, G)
  PROVE  Allocation(setting, D, R, G,
                    [disk |-> Extend(D), writes |-> <<>>, block |-> Opened(Size(D), Fresh)],
                    Extend(D))
<1> DEFINE E == Extend(D)
           n == Size(D)
           none == <<>>
<1>7. /\ Kept(setting, E, R, G)
      /\ Tracking(E) = Tracking(D) /\ Free(E) = Free(D)
      /\ InRecords(E, R) = InRecords(D, R)
      /\ n \in DOMAIN E /\ n \notin DOMAIN D /\ n # 0
      /\ DOMAIN E = DOMAIN D \cup {n} /\ E[n] = Fresh
      /\ \A id \in DOMAIN D : E[id] = D[id]
      /\ Tracking(D) \cup Free(D) \cup InRecords(D, R) \subseteq DOMAIN D
  BY KeptExtended
<1> HIDE DEF E, n
<1>8. ASSUME NEW M, M \cap (Tracking(D) \cup InRecords(D, R)) = {}
      PROVE  Pending(setting, E, none, E, R, G, M)
  <2>1. Fine(setting, E, R, G, M)
    BY <1>7, <1>8, KeptFine
  <2> QED
    BY <2>1, PendingNone
<1>9. Handed(D, R, E, n)
  BY <1>7 DEF Handed
<1>10. Blank(setting, Fresh) /\ SameBeyond(setting, Fresh, E[n])
  BY <1>7, FreshFacts DEF Blank, SameBeyond
<1> DEFINE a == [disk |-> E, writes |-> none, block |-> Opened(n, Fresh)]
<1>11. /\ a.disk = E /\ a.writes = none /\ a.block.id = n /\ a.block.block = Fresh
       /\ \A i \in 1 .. Len(a.writes) : a.writes[i].id \in Tracking(D)
  BY DEF Opened
<1> HIDE DEF a, none
<1>12. Allocation(setting, D, R, G, a, E)
  BY <1>7, <1>8, <1>9, <1>10, <1>11, Zenon DEF Allocation
<1> QED
  BY <1>12 DEF a, E, n, none

(* The last number of the list.                                            *)
LEMMA AllocatesTaken ==
  ASSUME setting \in Setting, NEW D, NEW R, NEW G, Kept(setting, D, R, G),
         NEW t, t = Last(Chain(D, 0)), D[t].size # 0,
         NEW n, n = D[t].cells[D[t].size]
  PROVE  /\ n \in Free(D) /\ n # 0
         /\ \E F : Allocation(setting, D, R, G,
              [disk |-> D, writes |-> Disposed(t, DropUInt32(D[t])),
               block |-> Opened(n, Reset(D[n]))], F)
<1> DEFINE b == DropUInt32(D[t])
           E == Put(D, t, b)
           ws == Disposed(t, b)
           none == <<>>
<1>1. Formed(setting, D) /\ FreeList(setting, D) /\ Apart(D, R) /\ Left(D, G)
  BY DEF Kept
<1>2. t \in Tracking(D) /\ Tracking(D) \subseteq DOMAIN D /\ t \in DOMAIN D
      /\ Free(D) \subseteq DOMAIN D \ Tracking(D) /\ 0 \notin Free(D)
  BY <1>1, LastOfList, FreeListFacts
<1>3. D[t] \in Blocks(setting) /\ D[t].next \in DOMAIN D /\ D[t].prev \in DOMAIN D
  BY <1>1, <1>2, FormedFacts
<1>4. b \in Blocks(setting) /\ FormedBlock(setting, D, b) /\ SameBeyond(setting, b, D[t])
  BY <1>3, DropUInt32Facts DEF FormedBlock, SameBeyond
<1>5. Formed(setting, E) /\ Changed(D, E, t, b)
  BY <1>1, <1>2, <1>4, PutChanges
<1>w. Len(ws) = 1 /\ ws[1].id = t /\ none \o ws = ws
  BY DEF Disposed
<1> HIDE DEF E, b, ws, none
<1>6. /\ Kept(setting, E, R, G)
      /\ n \in Free(D)
      /\ Tracking(E) = Tracking(D) /\ Free(E) = Free(D) \ {n}
      /\ InRecords(E, R) = InRecords(D, R)
  BY <1>5, ListTaken DEF b
<1>7. ASSUME NEW M, M \cap (Tracking(D) \cup InRecords(D, R)) = {}
      PROVE  Pending(setting, D, ws, E, R, G, M)
  <2>1. Fine(setting, E, R, G, M) /\ Fine(setting, D, R, G, M)
    BY <1>6, <1>7, KeptFine
  <2>2. Pending(setting, D, none, D, R, G, M)
    BY <2>1, PendingNone DEF none
  <2>3. Fine(setting, Put(D, t, b), R, G, M)
    BY <2>1 DEF E
  <2>4. Pending(setting, D, none \o Disposed(t, b), Put(D, t, b), R, G, M)
    BY <1>2, <1>4, <2>2, <2>3, PendingSector
  <2>5. Disposed(t, b) = ws /\ Put(D, t, b) = E
    BY DEF E, ws
  <2> QED
    BY <1>w, <2>4, <2>5
<1>8. InRecords(D, R) \cap (Tracking(D) \cup Free(D)) = {}
  BY <1>1, RecordsAside
<1>9. Handed(D, R, E, n)
  BY <1>2, <1>5, <1>6, <1>8 DEF Handed, Changed
<1>10. Blank(setting, Reset(D[n])) /\ SameBeyond(setting, Reset(D[n]), E[n])
  <2>1. D[n] \in Blocks(setting) /\ E[n] = D[n]
    BY <1>1, <1>2, <1>5, <1>6, FormedFacts DEF Changed
  <2>2. Blank(setting, Reset(D[n]))
    BY <2>1, ResetFacts DEF Blank
  <2>3. Reset(D[n]).cells = E[n].cells
    BY <2>1, ResetCells
  <2> QED
    BY <2>2, <2>3 DEF SameBeyond
<1> DEFINE a == [disk |-> D, writes |-> ws, block |-> Opened(n, Reset(D[n]))]
<1>11. /\ a.disk = D /\ a.writes = ws /\ a.block.id = n /\ a.block.block = Reset(D[n])
  BY DEF Opened
<1>12. \A i \in 1 .. Len(ws) : ws[i].id \in Tracking(D)
  BY <1>2, <1>w
<1> HIDE DEF a
<1>13. Allocation(setting, D, R, G, a, E)
  BY <1>6, <1>7, <1>9, <1>10, <1>11, <1>12, Zenon DEF Allocation
<1> QED
  BY <1>2, <1>6, <1>13 DEF a, ws, b


(* A full block with its last number exchanged for "e", at the end.        *)
Exchanged(block, e) == [AppendUInt32(DropUInt32(block), e) EXCEPT !.next = 0]

(* The empty block, that leaves the chain.                                 *)
Alone(block) == [block EXCEPT !.prev = 0]

LEMMA ExchangedFacts ==
  ASSUME NEW s \in Setting, NEW block \in Blocks(s), block.size = s.contentSize, NEW e \in Nat
  PROVE  /\ Exchanged(block, e) \in Blocks(s)
         /\ Exchanged(block, e).size = s.contentSize
         /\ Exchanged(block, e).next = 0 /\ Exchanged(block, e).prev = block.prev
         /\ Exchanged(block, e).deleted = block.deleted
         /\ \A j \in 1 .. s.contentSize - 1 : Exchanged(block, e).cells[j] = block.cells[j]
         /\ Exchanged(block, e).cells[s.contentSize] = e
<1> DEFINE z == s.contentSize
           d == DropUInt32(block)
           p == AppendUInt32(d, e)
<1>1. z \in Nat \ {0} /\ z - 1 + 1 = z /\ z - 1 < z
  BY SettingFacts
<1>2. /\ d \in Blocks(s) /\ d.size = z - 1 /\ d.prev = block.prev
      /\ d.deleted = block.deleted /\ d.cells = block.cells
  BY <1>1, DropUInt32Facts
<1> HIDE DEF d
<1>3. d.size < s.contentSize
  BY <1>1, <1>2
<1>4. /\ p \in Blocks(s) /\ p.size = d.size + 1
      /\ p.prev = d.prev /\ p.deleted = d.deleted
      /\ \A j \in 1 .. d.size : p.cells[j] = d.cells[j]
      /\ p.cells[d.size + 1] = e
  BY <1>2, <1>3, AppendUInt32Facts
<1> HIDE DEF p
<1>5. /\ p.size = z /\ p.prev = block.prev /\ p.deleted = block.deleted
      /\ \A j \in 1 .. z - 1 : p.cells[j] = block.cells[j]
      /\ p.cells[z] = e
  <2> HIDE DEF z
  <2> QED
    BY <1>1, <1>2, <1>4
<1> DEFINE b == [p EXCEPT !.next = 0]
<1>6. /\ b \in Blocks(s) /\ b.size = p.size /\ b.next = 0 /\ b.prev = p.prev
      /\ b.deleted = p.deleted /\ b.cells = p.cells
  BY <1>4 DEF Blocks
<1>7. Exchanged(block, e) = b
  BY DEF Exchanged, p, d
<1> HIDE DEF b
<1> QED
  BY <1>5, <1>6, <1>7

LEMMA WriteIds ==
  ASSUME NEW S, NEW t \in S, NEW e \in S, NEW b, NEW c, NEW last
  PROVE  /\ \A i \in 1 .. Len(Beyond(t, b, last) \o Disposed(t, b)) :
              (Beyond(t, b, last) \o Disposed(t, b))[i].id \in S
         /\ \A i \in 1 .. Len(Beyond(t, b, last) \o Disposed(t, b) \o Disposed(e, c)) :
              (Beyond(t, b, last) \o Disposed(t, b) \o Disposed(e, c))[i].id \in S
<1> DEFINE W == [id : S, block : {b, c}, part : {"sector", "beyond"}]
           x == Beyond(t, b, last)
           y == Disposed(t, b)
           v == Disposed(e, c)
<1>1. x \in Seq(W) /\ y \in Seq(W) /\ v \in Seq(W) /\ \A w \in W : w.id \in S
  <2> DEFINE o == [id |-> t, block |-> b, part |-> "beyond"]
             p == [id |-> t, block |-> b, part |-> "sector"]
             r == [id |-> e, block |-> c, part |-> "sector"]
  <2>1. o \in W /\ p \in W /\ r \in W /\ \A w \in W : w.id \in S
    OBVIOUS
  <2>2. /\ x = (IF last > SectorCells THEN <<o>> ELSE <<>>)
        /\ y = <<p>> /\ v = <<r>>
    BY DEF Beyond, Disposed
  <2> HIDE DEF o, p, r, W, x, y, v
  <2> QED
    BY <2>1, <2>2
<1> HIDE DEF x, y, v, W
<1>2. x \o y \in Seq(W) /\ x \o y \o v \in Seq(W)
  BY <1>1
<1>3. ASSUME NEW s \in Seq(W), NEW i \in 1 .. Len(s) PROVE s[i].id \in S
  BY <1>1
<1> QED
  BY <1>2, <1>3 DEF x, y, v

(* The last number of the last block but one, when the last has none.      *)
LEMMA AllocatesExchanged ==
  ASSUME setting \in Setting, NEW D, NEW R, NEW G, Kept(setting, D, R, G),
         NEW t, NEW e, LastTwo(D, t, e), e = Last(Chain(D, 0)), D[e].size = 0,
         NEW n, n = D[t].cells[D[t].size],
         NEW b, b = Exchanged(D[t], e), NEW q, q = Alone(D[e]),
         NEW ws, ws = Beyond(t, b, b.size) \o Disposed(t, b) \o Disposed(e, q)
  PROVE  /\ n \in Free(D) /\ n # 0 /\ t \in DOMAIN D /\ D[t].size # 0
         /\ \E F : Allocation(setting, D, R, G,
              [disk |-> D, writes |-> ws, block |-> Opened(n, Reset(D[n]))], F)
<1>1. Formed(setting, D) /\ FreeList(setting, D) /\ Apart(D, R) /\ Left(D, G)
  BY DEF Kept
<1>2. /\ t \in Tracking(D) /\ e \in Tracking(D) /\ e # t /\ D[t].next = e /\ e # 0
      /\ Tracking(D) \subseteq DOMAIN D /\ t \in DOMAIN D /\ e \in DOMAIN D
      /\ Free(D) \subseteq DOMAIN D \ Tracking(D) /\ 0 \notin Free(D)
  BY <1>1, FreeListFacts DEF LastTwo
<1>3. /\ D[t] \in Blocks(setting) /\ D[t].prev \in DOMAIN D /\ D[t].size = setting.contentSize
      /\ D[e] \in Blocks(setting) /\ D[e].next \in DOMAIN D
      /\ 0 \in DOMAIN D /\ DOMAIN D \subseteq Nat /\ e \in Nat
  BY <1>1, <1>2, FormedFacts DEF FreeList, Sealed
<1> DEFINE z == setting.contentSize
<1>7. /\ b \in Blocks(setting) /\ b.size = z /\ b.next = 0 /\ b.prev = D[t].prev
      /\ b.deleted = D[t].deleted
      /\ \A j \in 1 .. z - 1 : b.cells[j] = D[t].cells[j]
      /\ b.cells[z] = e
  <2> DEFINE block == D[t]
  <2>1. block \in Blocks(setting) /\ block.size = setting.contentSize /\ e \in Nat
    BY <1>3
  <2> HIDE DEF block
  <2>2. /\ Exchanged(block, e) \in Blocks(setting)
        /\ Exchanged(block, e).size = setting.contentSize
        /\ Exchanged(block, e).next = 0 /\ Exchanged(block, e).prev = block.prev
        /\ Exchanged(block, e).deleted = block.deleted
        /\ \A j \in 1 .. setting.contentSize - 1 :
             Exchanged(block, e).cells[j] = block.cells[j]
        /\ Exchanged(block, e).cells[setting.contentSize] = e
    BY <2>1, ExchangedFacts
  <2> QED
    BY <2>2 DEF block
<1>10. D[t].size = z /\ D[t].cells[z] = n
  BY <1>3
<1>z. z \in Nat \ {0} /\ z \in 1 .. z /\ z = setting.contentSize
  BY SettingFacts
<1> HIDE DEF z
<1>8. FormedBlock(setting, D, b)
  BY <1>3, <1>7 DEF FormedBlock
<1> DEFINE E == Put(D, t, b)
<1>9. Formed(setting, E) /\ Changed(D, E, t, b)
  BY <1>1, <1>2, <1>8, PutChanges
<1> HIDE DEF E
<1>11. /\ Kept(setting, E, R, G)
       /\ n \in Free(D)
       /\ Tracking(E) = Tracking(D) \ {e} /\ Free(E) = (Free(D) \ {n}) \cup {e}
       /\ InRecords(E, R) = InRecords(D, R)
  BY <1>7, <1>9, <1>10, ListExchanged
(* The number is written, the Next header still is the old one.            *)
<1>12. ASSUME NEW M, M \cap (Tracking(D) \cup InRecords(D, R)) = {}
       PROVE  /\ b.size > setting.sectorCells \/ SameBeyond(setting, b, D[t])
              /\ Fine(setting, Outer(setting, D, t, b, b.size), R, G, M)
  <2>1. CASE z > setting.sectorCells
    <3> DEFINE c == Merged(setting, D[t], b)
    <3>1. /\ c \in Blocks(setting) /\ Labels(c) = Labels(D[t])
          /\ \A j \in 1 .. setting.contentSize :
               c.cells[j] = IF j > setting.sectorCells THEN b.cells[j] ELSE D[t].cells[j]
      BY <1>3, <1>7, MergedFacts
    <3> HIDE DEF c
    <3>2. c.cells[z] = e
      BY <1>7, <1>z, <2>1, <3>1
    <3>3. Fine(setting, Put(D, t, c), R, G, M)
      <4>1. z \in 1 .. D[t].size /\ c.cells[z] = Last(Chain(D, 0))
        BY <1>10, <1>z, <3>2
      <4> QED
        BY <1>2, <1>12, <3>1, <4>1, FineTorn
    <3>4. Outer(setting, D, t, b, b.size) = Put(D, t, c)
      BY <1>7, <2>1 DEF Outer, c
    <3> QED
      BY <1>7, <2>1, <3>3, <3>4
  <2>2. CASE ~ (z > setting.sectorCells)
    <3>1. Outer(setting, D, t, b, b.size) = D
      BY <1>7, <2>2 DEF Outer
    <3>2. \A j \in 1 .. setting.contentSize : ~ (j > setting.sectorCells)
      <4>1. setting.sectorCells \in 0 .. setting.contentSize
        BY SettingAssumption
      <4> QED
        BY <1>z, <2>2, <4>1
    <3>3. SameBeyond(setting, b, D[t])
      BY <3>2, Zenon DEF SameBeyond
    <3> QED
      BY <1>12, <3>1, <3>3, KeptFine
  <2> QED
    BY <2>1, <2>2
<1> DEFINE F == Put(E, e, q)
<1>13. /\ q \in Blocks(setting) /\ FormedBlock(setting, E, q) /\ DOMAIN E = DOMAIN D
       /\ e \in DOMAIN E /\ E[e] = D[e] /\ q.cells = D[e].cells
  BY <1>2, <1>3, <1>9 DEF Blocks, FormedBlock, Changed, Alone
<1>14. Formed(setting, F) /\ Changed(E, F, e, q)
  BY <1>9, <1>13, PutChanges
<1> HIDE DEF F
<1>15. InRecords(D, R) \cap (Tracking(D) \cup Free(D)) = {}
  BY <1>1, RecordsAside
<1>16. /\ Kept(setting, F, R, G) /\ Tracking(F) = Tracking(E) /\ Free(F) = Free(E)
       /\ InRecords(F, R) = InRecords(E, R)
  <2>1. \A m \in Tracking(E) \cup InRecords(E, R) : F[m] = E[m]
    <3>1. \A m \in Tracking(E) \cup InRecords(E, R) : m \in DOMAIN E /\ m # e
      <4>1. Tracking(E) \cup InRecords(E, R) \subseteq DOMAIN E
        BY <1>11, FreeListFacts, RecordsAside DEF Kept
      <4> QED
        BY <1>2, <1>11, <1>15, <4>1
    <3> QED
      BY <1>14, <3>1 DEF Changed
  <2>2. \A id \in G : F[id].deleted \/ F[id].prev # 0
    <3>1. \A id \in G : id # e /\ id \in DOMAIN E /\ (E[id].deleted \/ E[id].prev # 0)
      BY <1>1, <1>2, <1>9, <1>11 DEF Left, Changed, Kept
    <3> QED
      BY <1>14, <3>1 DEF Changed
  <2>3. DOMAIN E \subseteq DOMAIN F
    BY <1>14 DEF Changed
  <2> QED
    BY <1>11, <1>14, <2>1, <2>2, <2>3, KeptAside
<1>19. ASSUME NEW M, M \cap (Tracking(D) \cup InRecords(D, R)) = {}
       PROVE  Pending(setting, D, ws, F, R, G, M)
  <2> DEFINE x == Beyond(t, b, b.size) \o Disposed(t, b)
  <2>1. Fine(setting, D, R, G, M) /\ Fine(setting, E, R, G, M) /\ Fine(setting, F, R, G, M)
    <3>1. M \cap (Tracking(E) \cup InRecords(E, R)) = {} /\ M \cap (Tracking(F) \cup InRecords(F, R)) = {}
      BY <1>11, <1>16, <1>19
    <3> QED
      BY <1>11, <1>16, <1>19, <3>1, KeptFine
  <2>2. Fine(setting, Outer(setting, D, t, b, b.size), R, G, M)
        /\ (b.size > setting.sectorCells \/ SameBeyond(setting, b, D[t]))
    BY <1>12, <1>19
  <2>3. Pending(setting, D, x, E, R, G, M)
    <3>1. Fine(setting, Put(D, t, b), R, G, M)
      BY <2>1 DEF E
    <3>2. Pending(setting, D, x, Put(D, t, b), R, G, M)
      BY <1>2, <1>7, <2>1, <2>2, <3>1, PendingWhole
    <3> QED
      BY <3>2 DEF E
  <2>4. ws = x \o Disposed(e, q)
    OBVIOUS
  <2> HIDE DEF x
  <2>5. SameBeyond(setting, q, E[e]) /\ Fine(setting, Put(E, e, q), R, G, M)
    BY <1>13, <2>1 DEF SameBeyond, F
  <2>6. Pending(setting, D, x \o Disposed(e, q), Put(E, e, q), R, G, M)
    BY <1>13, <2>3, <2>5, PendingSector
  <2> QED
    BY <2>4, <2>6 DEF F
<1>20. \A i \in 1 .. Len(ws) : ws[i].id \in Tracking(D)
  BY <1>2, WriteIds
<1>21. DOMAIN F = DOMAIN D /\ \A m \in DOMAIN D \ Tracking(D) : F[m] = D[m]
  BY <1>2, <1>9, <1>14 DEF Changed
<1>22. n \in DOMAIN D /\ n # 0 /\ n \notin Tracking(D) /\ n # e
  BY <1>2, <1>11
<1>23. Handed(D, R, F, n)
  <2>1. n \notin Tracking(F) \cup Free(F) \cup InRecords(F, R)
    BY <1>11, <1>15, <1>16, <1>22
  <2>2. Tracking(F) \cup Free(F) \cup {n} = Tracking(D) \cup Free(D) \cup {n}
    BY <1>2, <1>11, <1>16
  <2>3. InRecords(F, R) = InRecords(D, R) /\ DOMAIN F = DOMAIN D \cup {n} /\ n \in DOMAIN F \ {0}
    BY <1>11, <1>16, <1>21, <1>22
  <2> QED
    BY <1>11, <1>21, <2>1, <2>2, <2>3 DEF Handed
<1>24. Blank(setting, Reset(D[n])) /\ SameBeyond(setting, Reset(D[n]), F[n])
  <2>1. D[n] \in Blocks(setting) /\ F[n] = D[n]
    BY <1>1, <1>21, <1>22, FormedFacts
  <2>2. Blank(setting, Reset(D[n]))
    BY <2>1, ResetFacts DEF Blank
  <2>3. Reset(D[n]).cells = F[n].cells
    BY <2>1, ResetCells
  <2> QED
    BY <2>2, <2>3 DEF SameBeyond
<1> DEFINE a == [disk |-> D, writes |-> ws, block |-> Opened(n, Reset(D[n]))]
<1>25. /\ a.disk = D /\ a.writes = ws /\ a.block.id = n /\ a.block.block = Reset(D[n])
  BY DEF Opened
<1> HIDE DEF a
<1>26. Allocation(setting, D, R, G, a, F)
  BY <1>16, <1>19, <1>20, <1>23, <1>24, <1>25, Zenon DEF Allocation
<1>27. D[t].size # 0
  BY <1>10, <1>z
<1> QED
  BY <1>2, <1>11, <1>22, <1>26, <1>27 DEF a


LEMMA LastUsed ==
  ASSUME NEW s \in Setting, NEW b \in Blocks(s), b.size # 0
  PROVE  Last(Used(b)) = b.cells[b.size]
<1>1. Len(Used(b)) = b.size /\ b.size \in 1 .. b.size /\ \A j \in 1 .. b.size : Used(b)[j] = b.cells[j]
  BY UsedFacts, BlockFacts
<1> QED
  BY <1>1 DEF Last

LEMMA FindsFree ==
  ASSUME setting \in Setting, NEW D, Formed(setting, D), FreeList(setting, D),
         NEW L, L = Len(Chain(D, 0)), NEW e, e = Chain(D, 0)[L], NEW t, t = Chain(D, 0)[L - 1],
         NEW b, b = Exchanged(D[t], e), NEW q, q = Alone(D[e])
  PROVE  /\ e = Last(Chain(D, 0))
         /\ D[e].size # 0 => TryFindFreeBlock(D) =
              [id |-> D[e].cells[D[e].size], writes |-> Disposed(e, DropUInt32(D[e]))]
         /\ D[e].size = 0 /\ L = 1 => TryFindFreeBlock(D) = [id |-> 0, writes |-> <<>>]
         /\ D[e].size = 0 /\ L # 1 /\ t \in DOMAIN D /\ D[t].size # 0 => TryFindFreeBlock(D) =
              [id |-> D[t].cells[D[t].size],
               writes |-> Beyond(t, b, b.size) \o Disposed(t, b) \o Disposed(e, q)]
<1> DEFINE blocks == FindBlocks(D, 0)
           last == blocks[L]
           second == blocks[L - 1]
<1>1. L \in Nat \ {0} /\ e = Last(Chain(D, 0)) /\ e \in Tracking(D) /\ e \in DOMAIN D
      /\ D[e] \in Blocks(setting)
  BY LastOfList, FreeListFacts, FormedFacts
<1>2. Len(blocks) = L /\ \A i \in 1 .. L : blocks[i] = [id |-> Chain(D, 0)[i], block |-> D[Chain(D, 0)[i]]]
  <2>1. Len(Chain(D, 0)) \in Nat
    BY <1>1
  <2>2. /\ Len(FindBlocks(D, 0)) = Len(Chain(D, 0))
        /\ \A i \in 1 .. Len(Chain(D, 0)) :
             FindBlocks(D, 0)[i] = [id |-> Chain(D, 0)[i], block |-> D[Chain(D, 0)[i]]]
    BY <2>1, FindBlocksFacts
  <2> QED
    BY <2>2
<1> HIDE DEF blocks
<1>3. last.id = e /\ last.block = D[e]
  <2>1. L \in 1 .. L
    BY <1>1
  <2>2. last = [id |-> Chain(D, 0)[L], block |-> D[Chain(D, 0)[L]]]
    BY <1>2, <2>1
  <2> QED
    BY <2>2
<1>0. \A k \in Nat \ {0} : k # 1 => k - 1 \in 1 .. k
  OBVIOUS
<1>4. L # 1 => second.id = t /\ second.block = D[t]
  <2>1. L # 1 => L - 1 \in 1 .. L
    BY <1>0, <1>1, Zenon
  <2>2. L # 1 => second = [id |-> Chain(D, 0)[L - 1], block |-> D[Chain(D, 0)[L - 1]]]
    BY <1>2, <2>1
  <2> QED
    BY <2>2
<1> HIDE DEF blocks, last, second
<1>5. TryFindFreeBlock(D) = IF last.block.size # 0 THEN TakeFrom(last)
                            ELSE IF L = 1 THEN [id |-> 0, writes |-> <<>>]
                            ELSE Exchange(second, last)
  BY <1>2 DEF TryFindFreeBlock, blocks, last, second
<1>6. ASSUME D[e].size # 0
      PROVE  TryFindFreeBlock(D) =
               [id |-> D[e].cells[D[e].size], writes |-> Disposed(e, DropUInt32(D[e]))]
  <2>1. Last(Used(D[e])) = D[e].cells[D[e].size]
    BY <1>1, <1>6, LastUsed
  <2> QED
    BY <1>3, <1>5, <1>6, <2>1 DEF TakeFrom
<1>7. ASSUME D[e].size = 0, L # 1, t \in DOMAIN D, D[t].size # 0
      PROVE  TryFindFreeBlock(D) =
               [id |-> D[t].cells[D[t].size],
                writes |-> Beyond(t, b, b.size) \o Disposed(t, b) \o Disposed(e, q)]
  <2>1. TryFindFreeBlock(D) = Exchange(second, last)
    BY <1>3, <1>5, <1>7
  <2>2. D[t] \in Blocks(setting)
    BY <1>7, FormedFacts
  <2>3. Last(Used(second.block)) = D[t].cells[D[t].size]
    BY <1>4, <1>7, <2>2, LastUsed
  <2>6. Exchange(second, last) = [id |-> Last(Used(second.block)),
                                  writes |-> Beyond(t, b, b.size) \o Disposed(t, b)
                                               \o Disposed(e, q)]
    BY <1>3, <1>4, <1>7, Zenon DEF Exchange, Exchanged, Alone
  <2> QED
    BY <2>1, <2>3, <2>6
<1> QED
  BY <1>1, <1>3, <1>5, <1>6, <1>7

(* AllocateBlock keeps what has to hold through each of its writes, and    *)
(* what it hands out is a block of nobody.                                 *)
LEMMA AllocationKeeps ==
  ASSUME setting \in Setting, NEW D, NEW R, NEW G, Kept(setting, D, R, G)
  PROVE  \E F : Allocation(setting, D, R, G, AllocateBlock(D), F)
<1> DEFINE L == Len(Chain(D, 0))
           e == Chain(D, 0)[L]
           t == Chain(D, 0)[L - 1]
           free == TryFindFreeBlock(D)
<1>1. Formed(setting, D) /\ FreeList(setting, D)
  BY DEF Kept
<1>2. Tracked(D) = D
  BY <1>1, FormedFacts DEF Tracked
<1>3. AllocateBlock(D) =
        IF free.id = 0
        THEN [disk |-> Extend(D), writes |-> <<>>, block |-> Opened(Size(D), Fresh)]
        ELSE [disk |-> D, writes |-> free.writes, block |-> Opened(free.id, Reset(D[free.id]))]
  BY <1>2 DEF AllocateBlock
<1> HIDE DEF L, e, t, free
<1>4. e = Last(Chain(D, 0))
  BY <1>1, FindsFree DEF L, e
<1>5. CASE D[e].size # 0
  <2> DEFINE n == D[e].cells[D[e].size]
             ws == Disposed(e, DropUInt32(D[e]))
  <2>1. free = [id |-> n, writes |-> ws]
    BY <1>1, <1>5, FindsFree DEF L, e, free
  <2> HIDE DEF ws
  <2>2. /\ n \in Free(D) /\ n # 0
        /\ \E F : Allocation(setting, D, R, G,
                    [disk |-> D, writes |-> ws, block |-> Opened(n, Reset(D[n]))], F)
    BY <1>4, <1>5, AllocatesTaken DEF ws
  <2> HIDE DEF n
  <2>3. AllocateBlock(D) = [disk |-> D, writes |-> ws, block |-> Opened(n, Reset(D[n]))]
    BY <1>3, <2>1, <2>2
  <2> QED
    BY <2>2, <2>3
<1>6. CASE D[e].size = 0 /\ L = 1
  <2>1. free = [id |-> 0, writes |-> <<>>]
    BY <1>1, <1>6, FindsFree DEF L, e, free
  <2> QED
    BY <1>3, <2>1, AllocatesNew
<1>7. CASE D[e].size = 0 /\ L # 1
  <2> DEFINE n == D[t].cells[D[t].size]
             b == Exchanged(D[t], e)
             q == Alone(D[e])
             ws == Beyond(t, b, b.size) \o Disposed(t, b) \o Disposed(e, q)
             a == [disk |-> D, writes |-> ws, block |-> Opened(n, Reset(D[n]))]
  <2>1. LastTwo(D, t, e)
    BY <1>1, <1>7, LastTwoOfList DEF L, e, t
  <2> HIDE DEF b, q, ws
  <2>2. /\ n \in Free(D) /\ n # 0 /\ t \in DOMAIN D /\ D[t].size # 0
        /\ \E F : Allocation(setting, D, R, G, a, F)
    BY <1>4, <1>7, <2>1, AllocatesExchanged DEF b, q, ws
  <2>3. free = [id |-> n, writes |-> ws]
    <3>1. TryFindFreeBlock(D) = [id |-> D[t].cells[D[t].size],
                                 writes |-> Beyond(t, b, b.size) \o Disposed(t, b) \o Disposed(e, q)]
      <4>1. D[e].size = 0 /\ L # 1 /\ t \in DOMAIN D /\ D[t].size # 0
        BY <1>7, <2>2
      <4> HIDE DEF n, a
      <4>2. D[e].size = 0 /\ L # 1 /\ t \in DOMAIN D /\ D[t].size # 0 => TryFindFreeBlock(D) =
              [id |-> D[t].cells[D[t].size],
               writes |-> Beyond(t, b, b.size) \o Disposed(t, b) \o Disposed(e, q)]
        BY <1>1, FindsFree DEF L, e, t, b, q
      <4> QED
        BY <4>1, <4>2, Zenon
    <3> QED
      BY <3>1 DEF free, n, ws
  <2> HIDE DEF n
  <2>4. AllocateBlock(D) = a
    BY <1>3, <2>2, <2>3
  <2> QED
    BY <2>2, <2>4
<1> QED
  BY <1>5, <1>6, <1>7

-----------------------------------------------------------------------------
(* Blocks that are given back.                                             *)

(* "id" is on the free list of "F", which "D" has become.                  *)
Marked(D, R, F, id) ==
  /\ id \in Free(F)
  /\ DOMAIN D \subseteq DOMAIN F
  /\ InRecords(F, R) = InRecords(D, R)
  /\ Tracking(F) = Tracking(D) \cup (DOMAIN F \ DOMAIN D) /\ Free(F) = Free(D) \cup {id}
  /\ \A m \in DOMAIN D \ Tracking(D) : F[m] = D[m]

Marking(s, D, R, G, id, a, F) ==
  /\ Kept(s, F, R, G) /\ Pending(s, a.disk, a.writes, F, R, G, {})
  /\ Marked(D, R, F, id)

LEMMA AppendElsewhere ==
  ASSUME NEW s \in Setting, NEW b \in Blocks(s), NEW n
  PROVE  \A j \in 1 .. s.contentSize : j # b.size + 1 => AppendUInt32(b, n).cells[j] = b.cells[j]
<1>1. b.cells \in [1 .. s.contentSize -> Cells(s)]
  BY BlockFacts
<1>2. AppendUInt32(b, n).cells = [b.cells EXCEPT ![b.size + 1] = n]
  BY DEF AppendUInt32, Blocks
<1> QED
  BY <1>1, <1>2

(* The last block of the list has room.                                    *)
LEMMA MarksInPlace ==
  ASSUME setting \in Setting, NEW D, NEW R, NEW G, Kept(setting, D, R, G),
         NEW e, e = Last(Chain(D, 0)), D[e].size < setting.contentSize,
         NEW id \in DOMAIN D, id \notin Tracking(D) \cup Free(D) \cup InRecords(D, R),
         NEW b, b = AppendUInt32(D[e], id),
         NEW ws, ws = Beyond(e, b, b.size) \o Disposed(e, b)
  PROVE  \E F : Marking(setting, D, R, G, id, [disk |-> D, writes |-> ws], F)
<1> DEFINE E == Put(D, e, b)
           z == D[e].size
<1>1. Formed(setting, D) /\ FreeList(setting, D)
  BY DEF Kept
<1>2. e \in Tracking(D) /\ e \in DOMAIN D
  BY <1>1, LastOfList, FreeListFacts
<1>3. /\ D[e] \in Blocks(setting) /\ D[e].next \in DOMAIN D /\ D[e].prev \in DOMAIN D
      /\ id \in Nat /\ DOMAIN D \subseteq Nat
  BY <1>1, <1>2, FormedFacts
<1>4. /\ b \in Blocks(setting) /\ FormedBlock(setting, D, b) /\ b.size = z + 1
      /\ \A j \in 1 .. z : b.cells[j] = D[e].cells[j]
      /\ \A j \in 1 .. setting.contentSize : j # z + 1 => b.cells[j] = D[e].cells[j]
  <2>1. /\ b \in Blocks(setting) /\ b.size = z + 1 /\ b.next = D[e].next /\ b.prev = D[e].prev
        /\ \A j \in 1 .. z : b.cells[j] = D[e].cells[j]
    BY <1>3, AppendUInt32Facts
  <2>2. \A j \in 1 .. setting.contentSize : j # z + 1 => b.cells[j] = D[e].cells[j]
    BY <1>3, AppendElsewhere
  <2> QED
    BY <1>3, <2>1, <2>2 DEF FormedBlock
<1>5. Formed(setting, E) /\ Changed(D, E, e, b)
  BY <1>1, <1>2, <1>4, PutChanges
<1>z. /\ z \in Nat /\ setting.contentSize \in Nat \ {0}
      /\ setting.sectorCells \in 0 .. setting.contentSize
      /\ \A j \in 1 .. D[e].size : j \in 1 .. setting.contentSize /\ j \in 1 .. z
  BY <1>3, BlockFacts, SettingAssumption
<1> HIDE DEF E, z
<1>6. /\ Kept(setting, E, R, G)
      /\ Tracking(E) = Tracking(D) /\ Free(E) = Free(D) \cup {id}
      /\ InRecords(E, R) = InRecords(D, R)
  BY <1>5, ListMarked
(* The number is written, but not yet in use.                              *)
<1>7. /\ b.size > setting.sectorCells \/ SameBeyond(setting, b, D[e])
      /\ Fine(setting, Outer(setting, D, e, b, b.size), R, G, {})
  <2>1. CASE z + 1 > setting.sectorCells
    <3> DEFINE c == Merged(setting, D[e], b)
    <3>1. /\ c \in Blocks(setting) /\ Labels(c) = Labels(D[e])
          /\ \A j \in 1 .. setting.contentSize :
               c.cells[j] = IF j > setting.sectorCells THEN b.cells[j] ELSE D[e].cells[j]
      BY <1>3, <1>4, MergedFacts
    <3> HIDE DEF c
    <3>2. \A j \in 1 .. D[e].size : c.cells[j] = D[e].cells[j]
      BY <1>4, <1>z, <3>1
    <3>3. Kept(setting, Put(D, e, c), R, G)
      BY <1>2, <3>1, <3>2, KeptAlike
    <3>4. Fine(setting, Put(D, e, c), R, G, {})
      BY <3>3, KeptFine
    <3>5. Outer(setting, D, e, b, b.size) = Put(D, e, c)
      BY <1>4, <2>1 DEF Outer, c
    <3> QED
      BY <1>4, <2>1, <3>4, <3>5
  <2>2. CASE ~ (z + 1 > setting.sectorCells)
    <3>1. Outer(setting, D, e, b, b.size) = D
      BY <1>4, <2>2 DEF Outer
    <3>2. \A j \in 1 .. setting.contentSize : j > setting.sectorCells => j # z + 1
      BY <2>2
    <3>3. SameBeyond(setting, b, D[e])
      BY <1>4, <3>2, Zenon DEF SameBeyond
    <3> QED
      BY <3>1, <3>3, KeptFine
  <2> QED
    BY <2>1, <2>2
<1>8. Pending(setting, D, ws, E, R, G, {})
  <2>1. Fine(setting, D, R, G, {}) /\ Fine(setting, E, R, G, {})
    BY <1>6, KeptFine
  <2> QED
    BY <1>2, <1>4, <1>7, <2>1, PendingWhole DEF E
<1>9. Marked(D, R, E, id)
  BY <1>2, <1>5, <1>6 DEF Marked, Changed
<1> DEFINE a == [disk |-> D, writes |-> ws]
<1>10. a.disk = D /\ a.writes = ws
  OBVIOUS
<1> HIDE DEF a
<1>11. Marking(setting, D, R, G, id, a, E)
  BY <1>6, <1>8, <1>9, <1>10 DEF Marking
<1> QED
  BY <1>11 DEF a

(* A new block with the number in it.                                      *)
Fringe(e, id) == AppendUInt32([Fresh EXCEPT !.prev = e], id)

LEMMA FringeFacts ==
  ASSUME setting \in Setting, NEW e \in Nat, NEW id \in Nat
  PROVE  /\ Fringe(e, id) \in Blocks(setting) /\ ~ Fringe(e, id).deleted
         /\ Fringe(e, id).next = 0 /\ Fringe(e, id).prev = e
         /\ Fringe(e, id).size = 1 /\ Fringe(e, id).cells[1] = id
<1> DEFINE b == [Fresh EXCEPT !.prev = e]
<1>1. b \in Blocks(setting) /\ b.size = 0 /\ b.next = 0 /\ b.prev = e /\ ~ b.deleted
  <2> DEFINE f == Fresh
  <2>1. f \in Blocks(setting) /\ f.size = 0 /\ f.next = 0 /\ ~ f.deleted
    BY FreshFacts
  <2> HIDE DEF f
  <2>2. b = [f EXCEPT !.prev = e]
    BY DEF f
  <2> QED
    BY <2>1, <2>2 DEF Blocks
<1> HIDE DEF b
<1>2. b.size < setting.contentSize
  BY <1>1, SettingFacts
<1>3. /\ AppendUInt32(b, id) \in Blocks(setting)
      /\ AppendUInt32(b, id).size = b.size + 1
      /\ AppendUInt32(b, id).next = b.next /\ AppendUInt32(b, id).prev = b.prev
      /\ AppendUInt32(b, id).deleted = b.deleted
      /\ AppendUInt32(b, id).cells[b.size + 1] = id
  BY <1>1, <1>2, AppendUInt32Facts
<1>4. Fringe(e, id) = AppendUInt32(b, id) /\ 0 + 1 = 1
  BY DEF Fringe, b
<1> QED
  BY <1>1, <1>3, <1>4

LEMMA FringeElsewhere ==
  ASSUME setting \in Setting, NEW e \in Nat, NEW id \in Nat
  PROVE  \A j \in 1 .. setting.contentSize : j # 0 + 1 => Fringe(e, id).cells[j] = Fresh.cells[j]
<1> DEFINE b == [Fresh EXCEPT !.prev = e]
<1>1. b \in Blocks(setting) /\ b.size = 0 /\ b.cells = Fresh.cells
  <2> DEFINE f == Fresh
  <2>1. f \in Blocks(setting) /\ f.size = 0
    BY FreshFacts
  <2> HIDE DEF f
  <2>2. b = [f EXCEPT !.prev = e]
    BY DEF f
  <2>3. b \in Blocks(setting) /\ b.size = 0
    BY <2>1, <2>2 DEF Blocks
  <2>4. b.cells = f.cells
    BY <2>1, <2>2 DEF Blocks
  <2> QED
    BY <2>3, <2>4 DEF f
<1> HIDE DEF b
<1>2. \A j \in 1 .. setting.contentSize : j # b.size + 1 => AppendUInt32(b, id).cells[j] = b.cells[j]
  BY <1>1, AppendElsewhere
<1>3. Fringe(e, id) = AppendUInt32(b, id)
  BY DEF Fringe, b
<1> QED
  BY <1>1, <1>2, <1>3

(* The list grows by a new block.                                          *)
LEMMA MarksInNew ==
  ASSUME setting \in Setting, NEW D, NEW R, NEW G, Kept(setting, D, R, G),
         NEW e, e = Last(Chain(D, 0)), D[e].size = setting.contentSize,
         NEW id \in DOMAIN D, id \notin Tracking(D) \cup Free(D) \cup InRecords(D, R),
         NEW m, m = Size(D), NEW b, b = Fringe(e, id), NEW q, q = Relinked(D[e], m),
         NEW ws, ws = Beyond(m, b, b.size) \o Disposed(m, b) \o Disposed(e, q)
  PROVE  \E F : Marking(setting, D, R, G, id, [disk |-> Extend(D), writes |-> ws], F)
<1> DEFINE X == Extend(D)
           E == Put(X, m, b)
           F == Put(E, e, q)
<1>1. Formed(setting, D) /\ FreeList(setting, D) /\ Left(D, G)
  BY DEF Kept
<1>2. e \in Tracking(D) /\ e \in DOMAIN D
  BY <1>1, LastOfList, FreeListFacts
<1>3. D[e] \in Blocks(setting) /\ D[e].prev \in DOMAIN D /\ id \in Nat /\ e \in Nat /\ 0 \in DOMAIN D
  BY <1>1, <1>2, FormedFacts
<1>4. /\ Kept(setting, X, R, G)
      /\ Chain(X, 0) = Chain(D, 0)
      /\ Tracking(X) = Tracking(D) /\ Free(X) = Free(D)
      /\ InRecords(X, R) = InRecords(D, R)
      /\ m \in DOMAIN X /\ m \notin DOMAIN D /\ m # 0
      /\ DOMAIN X = DOMAIN D \cup {m} /\ X[m] = Fresh
      /\ \A n \in DOMAIN D : X[n] = D[n]
      /\ Tracking(D) \cup Free(D) \cup InRecords(D, R) \subseteq DOMAIN D
  BY KeptExtended
<1>5. b \in Blocks(setting) /\ ~ b.deleted /\ b.next = 0 /\ b.prev = e /\ b.size = 1 /\ b.cells[1] = id
  BY <1>3, FringeFacts
<1> HIDE DEF X
<1>6. Formed(setting, X) /\ FormedBlock(setting, X, b)
  BY <1>2, <1>3, <1>4, <1>5 DEF Kept, FormedBlock
<1>7. Formed(setting, E) /\ Changed(X, E, m, b)
  BY <1>4, <1>6, PutChanges
<1> HIDE DEF E
<1>8. /\ DOMAIN E = DOMAIN D \cup {m} /\ E[m] = b
      /\ \A n \in DOMAIN D : E[n] = D[n]
  BY <1>4, <1>7 DEF Changed
<1>9. /\ Kept(setting, E, R, G)
      /\ Chain(E, 0) = Chain(D, 0)
      /\ Tracking(E) = Tracking(D) /\ Free(E) = Free(D)
      /\ InRecords(E, R) = InRecords(D, R)
  <2>1. \A n \in Tracking(X) \cup InRecords(X, R) : E[n] = X[n]
    BY <1>4, <1>8
  <2>2. \A n \in G : E[n].deleted \/ E[n].prev # 0
    BY <1>1, <1>8 DEF Left
  <2>3. DOMAIN X \subseteq DOMAIN E
    BY <1>4, <1>8
  <2> QED
    BY <1>4, <1>7, <2>1, <2>2, <2>3, KeptAside
(* The new block is none of the list until the old one is disposed.        *)
<1>10. /\ b.size > setting.sectorCells \/ SameBeyond(setting, b, X[m])
       /\ Fine(setting, Outer(setting, X, m, b, b.size), R, G, {})
  <2>0. Fine(setting, X, R, G, {})
    BY <1>4, KeptFine
  <2>1. CASE 1 > setting.sectorCells
    <3> DEFINE c == Merged(setting, X[m], b)
    <3>1. c \in Blocks(setting) /\ Labels(c) = Labels(X[m]) /\ X[m] \in Blocks(setting)
      BY <1>4, <1>5, FreshFacts, MergedFacts
    <3> HIDE DEF c
    <3>2. FormedBlock(setting, X, c)
      <4>1. c.next = X[m].next /\ c.prev = X[m].prev
        BY <3>1, LabelsFacts
      <4> QED
        BY <1>3, <1>4, <3>1, <4>1, FreshFacts DEF FormedBlock
    <3>3. m \notin Tracking(X) \cup InRecords(X, R) /\ m \notin G
      BY <1>1, <1>4 DEF Left
    <3>4. Fine(setting, Put(X, m, c), R, G, {})
      BY <1>4, <2>0, <3>2, <3>3, FineAside
    <3>5. Outer(setting, X, m, b, b.size) = Put(X, m, c)
      BY <1>5, <2>1 DEF Outer, c
    <3> QED
      BY <1>5, <2>1, <3>4, <3>5
  <2>2. CASE ~ (1 > setting.sectorCells)
    <3>1. Outer(setting, X, m, b, b.size) = X
      BY <1>5, <2>2 DEF Outer
    <3>2. \A j \in 1 .. setting.contentSize : j > setting.sectorCells => j # 0 + 1
      <4>1. setting.sectorCells \in 0 .. setting.contentSize /\ setting.contentSize \in Nat
        BY SettingAssumption
      <4> QED
        BY <2>2, <4>1
    <3>3. \A j \in 1 .. setting.contentSize : j # 0 + 1 => b.cells[j] = X[m].cells[j]
      <4>1. b = Fringe(e, id) /\ X[m].cells = Fresh.cells
        BY <1>4
      <4>2. \A j \in 1 .. setting.contentSize : j # 0 + 1 => Fringe(e, id).cells[j] = Fresh.cells[j]
        BY <1>3, FringeElsewhere
      <4> QED
        BY <4>1, <4>2, Zenon
    <3>4. SameBeyond(setting, b, X[m])
      BY <3>2, <3>3, Zenon DEF SameBeyond
    <3> QED
      BY <2>0, <3>1, <3>4
  <2> QED
    BY <2>1, <2>2
<1>11. q \in Blocks(setting) /\ FormedBlock(setting, E, q) /\ e \in DOMAIN E /\ SameBeyond(setting, q, E[e])
  <2>1. m \in Nat
    BY <1>6, <1>4, FormedFacts
  <2>2. q \in Blocks(setting) /\ q.cells = D[e].cells /\ q.next = m /\ q.prev = D[e].prev
    BY <1>3, <2>1 DEF Blocks, Relinked
  <2> QED
    BY <1>2, <1>3, <1>8, <2>2 DEF FormedBlock, SameBeyond
<1>12. Formed(setting, F) /\ Changed(E, F, e, q)
  BY <1>7, <1>11, PutChanges
<1> HIDE DEF F
<1>13. /\ Kept(setting, F, R, G)
       /\ Tracking(F) = Tracking(E) \cup {m} /\ Free(F) = Free(E) \cup {id}
       /\ InRecords(F, R) = InRecords(E, R)
  <2>1. e = Last(Chain(E, 0)) /\ E[e].size = setting.contentSize /\ E[e] = D[e]
    BY <1>2, <1>8, <1>9
  <2>2. /\ m \in DOMAIN E /\ m \notin Tracking(E) \cup Free(E) \cup InRecords(E, R) \cup G
        /\ id \in DOMAIN E /\ id \notin Tracking(E) \cup Free(E) \cup InRecords(E, R) /\ id # m
    BY <1>1, <1>4, <1>8, <1>9 DEF Left
  <2>3. ~ E[m].deleted /\ E[m].next = 0 /\ E[m].size = 1 /\ E[m].cells[1] = id
    BY <1>5, <1>8
  <2>4. Changed(E, F, e, Relinked(E[e], m))
    BY <1>12, <2>1
  <2> QED
    BY <1>9, <1>12, <2>1, <2>2, <2>3, <2>4, ListGrown, SMTT(30)
<1>16. Pending(setting, X, ws, F, R, G, {})
  <2> DEFINE x == Beyond(m, b, b.size) \o Disposed(m, b)
  <2>1. Fine(setting, X, R, G, {}) /\ Fine(setting, E, R, G, {}) /\ Fine(setting, F, R, G, {})
    BY <1>4, <1>9, <1>13, KeptFine
  <2>2. Pending(setting, X, x, Put(X, m, b), R, G, {})
    <3>1. Fine(setting, Put(X, m, b), R, G, {})
      BY <2>1 DEF E
    <3>2. m \in DOMAIN X
      BY <1>4
    <3> QED
      BY <1>5, <1>10, <2>1, <3>1, <3>2, PendingWhole
  <2>4. ws = x \o Disposed(e, q)
    OBVIOUS
  <2> HIDE DEF x
  <2>5. Pending(setting, X, x, E, R, G, {}) /\ Fine(setting, Put(E, e, q), R, G, {})
    BY <2>1, <2>2 DEF E, F
  <2>6. Pending(setting, X, x \o Disposed(e, q), Put(E, e, q), R, G, {})
    BY <1>11, <2>5, PendingSector
  <2> QED
    BY <2>4, <2>6 DEF F
<1>18. DOMAIN F = DOMAIN D \cup {m} /\ \A n \in DOMAIN D \ Tracking(D) : F[n] = D[n]
  BY <1>2, <1>8, <1>12 DEF Changed
<1>19. Marked(D, R, F, id)
  <2>1. id \in Free(F) /\ DOMAIN D \subseteq DOMAIN F /\ InRecords(F, R) = InRecords(D, R)
    BY <1>9, <1>13, <1>18
  <2>2. Tracking(F) = Tracking(D) \cup (DOMAIN F \ DOMAIN D) /\ Free(F) = Free(D) \cup {id}
    BY <1>4, <1>9, <1>13, <1>18
  <2> QED
    BY <1>18, <2>1, <2>2 DEF Marked
<1> DEFINE a == [disk |-> X, writes |-> ws]
<1>20. a.disk = X /\ a.writes = ws
  OBVIOUS
<1> HIDE DEF a
<1>21. Marking(setting, D, R, G, id, a, F)
  BY <1>13, <1>16, <1>19, <1>20 DEF Marking
<1> QED
  BY <1>21 DEF a, X

(* MarkAsFree keeps what has to hold through each of its writes.           *)
LEMMA MarkingKeeps ==
  ASSUME setting \in Setting, NEW D, NEW R, NEW G, Kept(setting, D, R, G),
         NEW id \in DOMAIN D, id \notin Tracking(D) \cup Free(D) \cup InRecords(D, R)
  PROVE  \E F : Marking(setting, D, R, G, id, MarkAsFree(D, id), F)
<1> DEFINE e == Last(Chain(D, 0))
           m == Size(D)
           z == setting.contentSize
<1>1. Formed(setting, D) /\ FreeList(setting, D)
  BY DEF Kept
<1>2. /\ Len(Chain(D, 0)) \in Nat \ {0} /\ e = Chain(D, 0)[Len(Chain(D, 0))] /\ e \in DOMAIN D
  BY <1>1, LastOfList, FreeListFacts
<1>3. /\ D[e] \in Blocks(setting) /\ D[e].size \in 0 .. z /\ z \in Nat \ {0} /\ id \in Nat
  BY <1>1, <1>2, FormedFacts, BlockFacts, SettingFacts
<1>4. Last(FindBlocks(D, 0)) = Opened(e, D[e])
  <2> DEFINE c == Chain(D, 0)
             L == Len(c)
  <2>1. L \in Nat \ {0}
    BY <1>2
  <2>2. Len(FindBlocks(D, 0)) = L
        /\ \A i \in 1 .. L : FindBlocks(D, 0)[i] = [id |-> c[i], block |-> D[c[i]]]
    BY <2>1, FindBlocksFacts
  <2>3. e = c[L]
    BY <1>2
  <2> HIDE DEF c, L, e
  <2>4. L \in 1 .. L
    BY <2>1
  <2> QED
    BY <2>2, <2>3, <2>4 DEF Last, Opened
<1> HIDE DEF e, m, z
<1> DEFINE last == Last(FindBlocks(D, 0))
           fresh == Opened(m, [Fresh EXCEPT !.prev = e])
<1>9. last.id = e /\ last.block = D[e] /\ fresh.id = m /\ fresh.block = [Fresh EXCEPT !.prev = e]
  BY <1>4 DEF Opened
<1>0. MarkAsFree(D, id) =
        LET room == HasRoom(last.block)
            target == IF room THEN last ELSE fresh
            marked == AppendUInt32(target.block, id)
        IN  [disk |-> IF room THEN D ELSE Extend(D),
             writes |-> Beyond(target.id, marked, marked.size) \o Disposed(target.id, marked)
               \o IF room THEN <<>> ELSE Disposed(last.id, [last.block EXCEPT !.next = target.id])]
  <2>1. last.id = e
    BY <1>9
  <2> QED
    BY <2>1 DEF MarkAsFree, m
<1> HIDE DEF last, fresh
<1>7. ASSUME HasRoom(D[e])
      PROVE  MarkAsFree(D, id) =
               [disk |-> D,
                writes |-> Beyond(e, AppendUInt32(D[e], id), AppendUInt32(D[e], id).size)
                             \o Disposed(e, AppendUInt32(D[e], id)) \o <<>>]
  BY <1>0, <1>7, <1>9, Zenon
<1>8. ASSUME ~ HasRoom(D[e])
      PROVE  MarkAsFree(D, id) =
               [disk |-> Extend(D),
                writes |-> Beyond(m, Fringe(e, id), Fringe(e, id).size)
                             \o Disposed(m, Fringe(e, id)) \o Disposed(e, Relinked(D[e], m))]
  BY <1>0, <1>8, <1>9, Zenon DEF Fringe, Relinked
<1>5. CASE D[e].size < z
  <2> DEFINE b == AppendUInt32(D[e], id)
             x == Beyond(e, b, b.size)
             w == Disposed(e, b)
             ws == x \o w
  <2>1. x \o w \o <<>> = x \o w
    BY DEF Disposed, Beyond
  <2>2. MarkAsFree(D, id) = [disk |-> D, writes |-> x \o w \o <<>>]
    BY <1>5, <1>7 DEF HasRoom, BlockContentSize, z
  <2>3. MarkAsFree(D, id) = [disk |-> D, writes |-> ws]
    BY <2>1, <2>2
  <2> HIDE DEF ws
  <2>4. \E F : Marking(setting, D, R, G, id, [disk |-> D, writes |-> ws], F)
    BY <1>5, MarksInPlace DEF e, z, ws
  <2> QED
    BY <2>3, <2>4
<1>6. CASE ~ (D[e].size < z)
  <2> DEFINE b == Fringe(e, id)
             ws == Beyond(m, b, b.size) \o Disposed(m, b) \o Disposed(e, Relinked(D[e], m))
  <2>1. D[e].size = z
    BY <1>3, <1>6
  <2>2. MarkAsFree(D, id) = [disk |-> Extend(D), writes |-> ws]
    BY <1>6, <1>8 DEF HasRoom, BlockContentSize, z
  <2> HIDE DEF ws
  <2>3. \E F : Marking(setting, D, R, G, id, [disk |-> Extend(D), writes |-> ws], F)
    BY <2>1, MarksInNew DEF e, z, m, ws
  <2> QED
    BY <2>2, <2>3
<1> QED
  BY <1>5, <1>6
=============================================================================
