-------------------------- MODULE RecordStorageProofs --------------------------
(***************************************************************************)
(* The invariant of RecordStorage and the properties that follow from it,  *)
(* for blocks and sectors of any length, any number of them, any records,  *)
(* and any number of operations and crashes, up to one in the middle of an *)
(* exchange.                                                               *)
(***************************************************************************)
EXTENDS FreeListProofs

-----------------------------------------------------------------------------
(* The invariant.                                                          *)

(* The blocks "M" are in nobody's hands but the operation's; when "all"    *)
(* holds every block is in somebody's.                                     *)
Held(D, R, M, all) ==
  /\ M \subseteq DOMAIN D
  /\ M \cap (Tracking(D) \cup Free(D) \cup InRecords(D, R)) = {}
  /\ all => DOMAIN D = Tracking(D) \cup Free(D) \cup InRecords(D, R) \cup M

Others(st, r) == [id \in DOMAIN st \ {r} |-> st[id]]

Operation(s, D) ==
  [name : {"idle", "create", "delete", "update", "return"}, record : DOMAIN D,
   data : s.payload \cup {NoData}, rest : Seq(Cells(s)),
   open : Seq([id : DOMAIN D, block : Blocks(s)]), used : Nat]

(* Create has written all blocks but the last, which it has open.          *)
Creating(s, D, R, o, all) ==
  LET cur == o.open[1]
      M == Put(D, cur.id, cur.block)
      c == Chain(M, o.record)
  IN  /\ Len(o.open) = 1 /\ o.data # NoData
      /\ FormedBlock(s, D, cur.block) /\ cur.block.size = 0 /\ cur.block.next = 0
      /\ Chained(M, o.record) /\ c[Len(c)] = cur.id
      /\ Held(D, R, Range(c), all)
      /\ ~ M[o.record].deleted /\ M[o.record].prev = 0 /\ M[o.record].length = Len(o.data)
      /\ cur.id # o.record => cur.block.prev # 0
      /\ Contents(M, c) \o o.rest = o.data

(* Delete has the rest of the chain before it.                             *)
Deleting(D, R, o, all) ==
  LET cur == o.open[1]
  IN  /\ Len(o.open) = 1 /\ o.data = NoData
      /\ cur.block = D[cur.id]
      /\ Chained(D, cur.id)
      /\ Held(D, R, Members(D, cur.id), all)
      /\ cur.id = o.record \/ (o.record \in Free(D) /\ D[o.record].deleted)

(* The first "m" blocks Update has open make up the record, those from     *)
(* there to "used" are freed and those after "used" are still to be.       *)
Kept1(open, m, used) == {open[i].id : i \in {i \in 1 .. Len(open) : i <= m \/ i > used}}

Firsts(open, m) == [i \in 1 .. m |-> open[i].id]

Open(s, D, open, m) ==
  /\ Distinct(D, open)
  /\ \A i \in 1 .. Len(open) : FormedBlock(s, D, open[i].block)
  /\ \A i \in 2 .. m : open[i].block.prev # 0
  /\ \A i \in m + 1 .. Len(open) :
       open[i].block = D[open[i].id] /\ open[i].id \notin Tracking(D)

Rewritten(D, open, m, data, rest) ==
  /\ open[1].block.length = Len(data)
  /\ Linked(Applied(D, open, m), Firsts(open, m))
  /\ Contents(Applied(D, open, m), Firsts(open, m)) \o rest = data

UpdatingTo(s, D, R, o, all, m) ==
  /\ IF o.rest = <<>> THEN m # 0 ELSE m = o.used
  /\ Held(D, R, Kept1(o.open, m, o.used), all)
  /\ Open(s, D, o.open, m)
  /\ IF m = 0 THEN o.rest = o.data ELSE Rewritten(D, o.open, m, o.data, o.rest)

Updating(s, D, R, o, all) ==
  /\ o.data # NoData /\ o.open # <<>> /\ o.open[1].id = o.record
  /\ ~ o.open[1].block.deleted /\ o.open[1].block.prev = 0
  /\ o.used \in 0 .. Len(o.open)
  /\ \E m \in 0 .. o.used : UpdatingTo(s, D, R, o, all, m)

Returning(D, R, o, all) ==
  IF o.data = NoData
  THEN /\ o.record \in Free(D) /\ D[o.record].deleted
       /\ Held(D, R, {}, all)
  ELSE /\ Chained(D, o.record) /\ Lookup(D, o.record) = o.data
       /\ Held(D, R, Members(D, o.record), all)

InOperation(s, D, R, o, all) ==
  /\ o.name = "idle" => o = Idle /\ Held(D, R, {}, all)
  /\ o.name # "idle" => o.record # 0
  /\ o.name = "create" => Creating(s, D, R, o, all)
  /\ o.name = "delete" => Deleting(D, R, o, all)
  /\ o.name = "update" => Updating(s, D, R, o, all)
  /\ o.name = "return" => Returning(D, R, o, all)
(* An operation on the stream "F", with no writes under way.               *)
Consistent(s, F, o, st, g, all) ==
  /\ Kept(s, F, Others(st, o.record), g \ {o.record})
  /\ o \in Operation(s, F)
  /\ DOMAIN st \cup g \subseteq DOMAIN F \ {0}
  /\ InOperation(s, F, Others(st, o.record), o, all)

(* What the blocks have beyond their first sector is on the stream.        *)
Settled(s, F, open) == \A i \in 1 .. Len(open) : SameBeyond(s, open[i].block, F[open[i].id])

(* The writes under way make "F" of the stream.                            *)
Underway(s, D, ws, F, o, st, g, all) ==
  /\ Pending(s, D, ws, F, Others(st, o.record), g \ {o.record}, {})
  /\ Consistent(s, F, o, st, g, all)
  /\ Settled(s, F, o.open)
  /\ o.name = "idle" => ws = <<>>

Intact ==
  /\ stored \in [DOMAIN stored -> Payload]
  /\ IF disk = <<>>
     THEN writes = <<>> /\ op = Idle /\ stored = <<>> /\ gone = {}
     ELSE \E F : Underway(setting, disk, writes, F, op, stored, gone, crashes = 0)

(* Once an exchange has been torn nothing more is promised.                *)
IInv ==
  /\ setting \in Setting /\ crashes \in 0 .. MaxCrashes
  /\ torn \in BOOLEAN /\ (crashes = 0 => ~ torn)
  /\ ~ torn => Intact

-----------------------------------------------------------------------------
(* Blocks in the hands of the operation.                                   *)

LEMMA HeldAfterAllocation ==
  ASSUME NEW D, NEW R, NEW M, NEW all, Held(D, R, M, all), NEW F, NEW n, Handed(D, R, F, n)
  PROVE  n \notin M /\ n # 0 /\ Held(F, R, M \cup {n}, all)
<1>1. /\ n \in DOMAIN F /\ n # 0 /\ n \notin Tracking(F) \cup Free(F) \cup InRecords(F, R)
      /\ n \notin DOMAIN D \/ n \in Free(D)
      /\ DOMAIN F = DOMAIN D \cup {n}
      /\ InRecords(F, R) = InRecords(D, R)
      /\ Tracking(F) \cup Free(F) \cup {n} = Tracking(D) \cup Free(D) \cup {n}
  BY DEF Handed
<1>2. /\ M \subseteq DOMAIN D
      /\ M \cap (Tracking(D) \cup Free(D) \cup InRecords(D, R)) = {}
      /\ all => DOMAIN D = Tracking(D) \cup Free(D) \cup InRecords(D, R) \cup M
  BY DEF Held
<1>3. n \notin M
  BY <1>1, <1>2
<1>4. M \cap (Tracking(F) \cup Free(F) \cup InRecords(F, R)) = {}
  BY <1>1, <1>2, <1>3
<1>5. all => DOMAIN F = Tracking(F) \cup Free(F) \cup InRecords(F, R) \cup (M \cup {n})
  BY <1>1, <1>2
<1>6. M \cup {n} \subseteq DOMAIN F
  BY <1>1, <1>2
<1> QED
  BY <1>1, <1>3, <1>4, <1>5, <1>6 DEF Held

LEMMA HeldAfterMarking ==
  ASSUME NEW D, NEW R, NEW M, NEW all, Held(D, R, M, all), NEW id \in M,
         NEW F, Marked(D, R, F, id)
  PROVE  Held(F, R, M \ {id}, all)
<1>1. /\ DOMAIN D \subseteq DOMAIN F /\ InRecords(F, R) = InRecords(D, R)
      /\ Tracking(F) = Tracking(D) \cup (DOMAIN F \ DOMAIN D) /\ Free(F) = Free(D) \cup {id}
  BY DEF Marked
<1>2. /\ M \subseteq DOMAIN D
      /\ M \cap (Tracking(D) \cup Free(D) \cup InRecords(D, R)) = {}
      /\ all => DOMAIN D = Tracking(D) \cup Free(D) \cup InRecords(D, R) \cup M
  BY DEF Held
<1>3. M \ {id} \subseteq DOMAIN F
  BY <1>1, <1>2
<1>4. (M \ {id}) \cap (Tracking(F) \cup Free(F) \cup InRecords(F, R)) = {}
  BY <1>1, <1>2
<1>5. all => DOMAIN F = Tracking(F) \cup Free(F) \cup InRecords(F, R) \cup (M \ {id})
  BY <1>1, <1>2
<1> QED
  BY <1>3, <1>4, <1>5 DEF Held

(* They and free blocks can be written, if the ids that are gone are not   *)
(* found by it.                                                            *)
LEMMA HeldWritten ==
  ASSUME NEW s \in Setting, NEW D, NEW R, NEW G, Kept(s, D, R, G),
         NEW M, NEW all, Held(D, R, M, all), NEW id \in M \cup Free(D),
         NEW b, FormedBlock(s, D, b), id \in G => b.deleted \/ b.prev # 0
  PROVE  /\ Kept(s, Put(D, id, b), R, G)
         /\ Held(Put(D, id, b), R, M, all)
         /\ Changed(D, Put(D, id, b), id, b) /\ Formed(s, Put(D, id, b))
         /\ Tracking(Put(D, id, b)) = Tracking(D) /\ Free(Put(D, id, b)) = Free(D)
<1> DEFINE E == Put(D, id, b)
<1>1. Formed(s, D) /\ Left(D, G)
  BY DEF Kept
<1>2. id \in DOMAIN D /\ id \notin Tracking(D) \cup InRecords(D, R)
  BY FreeListFacts, RecordsAside DEF Held, Kept
<1>3. Formed(s, E) /\ Changed(D, E, id, b)
  BY <1>1, <1>2, FormedExcept DEF Put
<1> HIDE DEF E
<1>4. DOMAIN E = DOMAIN D /\ E[id] = b /\ \A m \in DOMAIN D : m # id => E[m] = D[m]
  BY <1>3 DEF Changed
<1>5. Tracking(D) \cup InRecords(D, R) \subseteq DOMAIN D
  BY FreeListFacts, RecordsAside DEF Kept
<1>6. \A m \in Tracking(D) \cup InRecords(D, R) : E[m] = D[m]
  BY <1>2, <1>4, <1>5
<1>7. \A k \in G : E[k].deleted \/ E[k].prev # 0
  BY <1>1, <1>4 DEF Left
<1>8. DOMAIN D \subseteq DOMAIN E
  BY <1>4
<1>9. /\ Kept(s, E, R, G)
      /\ Tracking(E) = Tracking(D) /\ Free(E) = Free(D) /\ InRecords(E, R) = InRecords(D, R)
  BY <1>3, <1>6, <1>7, <1>8, KeptAside
<1>10. Held(E, R, M, all)
  BY <1>4, <1>9 DEF Held
<1> QED
  BY <1>3, <1>9, <1>10 DEF E

-----------------------------------------------------------------------------
(* Fewer records are kept, or one more.                                    *)

LEMMA KeptFewer ==
  ASSUME NEW s, NEW D, NEW R, NEW G, Kept(s, D, R, G),
         NEW Q, DOMAIN Q \subseteq DOMAIN R, \A id \in DOMAIN Q : Q[id] = R[id],
         NEW H, H \subseteq G
  PROVE  Kept(s, D, Q, H)
<1>1. Apart(D, Q)
  BY DEF Kept, Apart
<1>2. Left(D, H)
  BY DEF Kept, Left
<1> QED
  BY <1>1, <1>2 DEF Kept

LEMMA OthersFacts ==
  ASSUME NEW st, NEW r
  PROVE  /\ DOMAIN Others(st, r) = DOMAIN st \ {r}
         /\ \A id \in DOMAIN Others(st, r) : Others(st, r)[id] = st[id]
         /\ Others(Others(st, r), r) = Others(st, r)
         /\ st \in [DOMAIN st -> Payload] => Others(st, r) \in [DOMAIN Others(st, r) -> Payload]
         /\ FunctionOn(DOMAIN st, st) /\ r \notin DOMAIN st => Others(st, r) = st
<1>1. DOMAIN Others(st, r) = DOMAIN st \ {r} /\ \A id \in DOMAIN st \ {r} : Others(st, r)[id] = st[id]
  BY DEF Others
<1>2. ASSUME FunctionOn(DOMAIN st, st), r \notin DOMAIN st PROVE Others(st, r) = st
  <2>1. DOMAIN st \ {r} = DOMAIN st
    BY <1>2
  <2> QED
    BY <1>2, <2>1 DEF Others, FunctionOn
<1>3. Others(Others(st, r), r) = Others(st, r)
  <2>1. (DOMAIN st \ {r}) \ {r} = DOMAIN st \ {r}
    OBVIOUS
  <2> QED
    BY <1>1, <2>1 DEF Others
<1>4. st \in [DOMAIN st -> Payload] => Others(st, r) \in [DOMAIN st \ {r} -> Payload]
  BY DEF Others
<1> QED
  BY <1>1, <1>2, <1>3, <1>4

(* The blocks of a record somebody works on are out of the others' reach.  *)
LEMMA HeldOne ==
  ASSUME NEW D, NEW R, Apart(D, R), NEW all, Held(D, R, {}, all), NEW id \in DOMAIN R
  PROVE  Held(D, Others(R, id), Members(D, id), all)
<1> DEFINE Q == Others(R, id)
<1>1. DOMAIN Q = DOMAIN R \ {id}
  BY OthersFacts
<1>2. InRecords(D, R) = InRecords(D, Q) \cup Members(D, id)
  BY <1>1 DEF InRecords
<1>3. Members(D, id) \cap (Tracking(D) \cup Free(D)) = {} /\ Members(D, id) \subseteq DOMAIN D
  BY MembersOfChained DEF Apart
<1>4. Members(D, id) \cap InRecords(D, Q) = {}
  BY <1>1 DEF InRecords, Apart
<1>5. all => DOMAIN D = Tracking(D) \cup Free(D) \cup InRecords(D, Q) \cup Members(D, id)
  BY <1>2 DEF Held
<1> QED
  BY <1>3, <1>4, <1>5 DEF Held

(* An operation is done: its record is one of those kept.                  *)
LEMMA KeptMore ==
  ASSUME NEW s, NEW D, NEW R, NEW G, Kept(s, D, R, G),
         NEW id, NEW all, Chained(D, id), Held(D, R, Members(D, id), all),
         NEW Q, DOMAIN Q = DOMAIN R \cup {id}, id \notin DOMAIN R,
         \A k \in DOMAIN R : Q[k] = R[k], Q[id] = Lookup(D, id)
  PROVE  Kept(s, D, Q, G) /\ Held(D, Q, {}, all)
<1>1. Members(D, id) \cap (Tracking(D) \cup Free(D) \cup InRecords(D, R)) = {}
  BY DEF Held
<1>2. \A k \in DOMAIN R : Members(D, k) \cap Members(D, id) = {}
  BY <1>1 DEF InRecords
<1>3. Apart(D, R)
  BY DEF Kept
<1>4. Apart(D, Q)
  <2> SUFFICES ASSUME NEW k \in DOMAIN Q
               PROVE  /\ Chained(D, k) /\ Lookup(D, k) = Q[k]
                      /\ Members(D, k) \cap (Tracking(D) \cup Free(D)) = {}
                      /\ \A other \in DOMAIN Q : other # k =>
                           Members(D, k) \cap Members(D, other) = {}
    BY DEF Apart
  <2>1. CASE k = id
    BY <1>1, <1>2, <2>1
  <2>2. CASE k \in DOMAIN R
    BY <1>2, <1>3, <2>2 DEF Apart
  <2> QED
    BY <2>1, <2>2
<1>5. InRecords(D, Q) = InRecords(D, R) \cup Members(D, id)
  BY DEF InRecords
<1>6. Held(D, Q, {}, all)
  BY <1>5 DEF Held
<1> QED
  BY <1>4, <1>6 DEF Kept

-----------------------------------------------------------------------------
(* What every step of an operation needs.                                  *)

(* The records are among the blocks of records.                            *)
LEMMA RecordsOwnTheirs ==
  ASSUME NEW D, NEW R, Apart(D, R)
  PROVE  DOMAIN R \subseteq InRecords(D, R)
<1> SUFFICES ASSUME NEW id \in DOMAIN R PROVE id \in InRecords(D, R)
  OBVIOUS
<1>1. id \in Members(D, id)
  BY MembersOfChained DEF Apart
<1> QED
  BY <1>1 DEF InRecords

(* A block is allocated, "n" in "F", beside the blocks "M".                *)
HasAllocated(s, D, R, H, M, all, n, F) ==
  /\ Kept(s, F, R, H) /\ Formed(s, F)
  /\ n \in DOMAIN F /\ n # 0
  /\ n \notin M /\ n \notin DOMAIN R
  /\ DOMAIN F = DOMAIN D \cup {n}
  /\ Held(F, R, M \cup {n}, all)
  /\ \A m \in DOMAIN D \ Tracking(D) : F[m] = D[m]

LEMMA AllocationFacts ==
  ASSUME NEW s \in Setting, NEW D, NEW R, NEW G, NEW M, NEW all, NEW a, NEW F,
         Kept(s, D, R, G), Allocation(s, D, R, G, a, F), Held(D, R, M, all),
         NEW H, H \subseteq G
  PROVE  HasAllocated(s, D, R, H, M, all, a.block.id, F)
<1> DEFINE n == a.block.id
<1>1. Kept(s, F, R, G) /\ Handed(D, R, F, n)
  BY DEF Allocation
<1>2. \A id \in DOMAIN R : R[id] = R[id]
  OBVIOUS
<1>3. Kept(s, F, R, H) /\ Formed(s, F)
  <2>1. Kept(s, F, R, H)
    BY <1>1, <1>2, KeptFewer
  <2> QED
    BY <2>1 DEF Kept
<1> HIDE DEF n
<1>4. n \notin M /\ n # 0 /\ Held(F, R, M \cup {n}, all)
  BY <1>1, HeldAfterAllocation
<1>5. /\ n \in DOMAIN F /\ DOMAIN F = DOMAIN D \cup {n} /\ n \notin InRecords(D, R)
      /\ \A m \in DOMAIN D \ Tracking(D) : F[m] = D[m]
  BY <1>1 DEF Handed
<1>6. n \notin DOMAIN R
  BY <1>5, RecordsOwnTheirs DEF Kept
<1>7. HasAllocated(s, D, R, H, M, all, n, F)
  BY <1>3, <1>4, <1>5, <1>6 DEF HasAllocated
<1> QED
  BY <1>7 DEF n

LEMMA UsedNone ==
  ASSUME NEW s \in Setting, NEW b \in Blocks(s), b.size = 0
  PROVE  Used(b) = <<>>
<1>1. Used(b) \in Seq(Cells(s)) /\ Len(Used(b)) = 0
  BY UsedFacts
<1> QED
  BY <1>1, EmptySeq

(* A record of one block.                                                  *)
LEMMA OneBlock ==
  ASSUME NEW s \in Setting, NEW D, Formed(s, D), NEW n \in DOMAIN D, D[n].next = 0
  PROVE  /\ Chained(D, n) /\ Chain(D, n) = <<n>> /\ Members(D, n) = {n}
         /\ Linked(D, <<n>>)
         /\ Contents(D, <<n>>) = Used(D[n])
<1>1. Sound(D) /\ Used(D[n]) \in Seq(Cells(s))
  BY FormedFacts
<1>2. Chained(D, n) /\ Chain(D, n) = <<n>> /\ Members(D, n) = {n}
  BY <1>1, ChainOfOne
<1>3. Linked(D, <<n>>)
  BY <1>2 DEF Chained
<1>4. Contents(D, <<n>>) = Used(D[n])
  <2> DEFINE c == <<>>
             U == Used(D[n])
  <2>1. c \in Seq(DOMAIN D) /\ Append(c, n) = <<n>> /\ Contents(D, c) = <<>>
    BY ContentsOfNone
  <2>2. Filled(D, c, Cells(s))
    BY DEF Filled, Range
  <2> HIDE DEF c, U
  <2>3. Contents(D, Append(c, n)) = Contents(D, c) \o U
    BY <1>1, <2>1, <2>2, ContentsAppend DEF U
  <2>4. <<>> \o U = U
    BY <1>1 DEF U
  <2> QED
    BY <2>1, <2>3, <2>4 DEF U
<1> QED
  BY <1>2, <1>3, <1>4

LEMMA Found ==
  ASSUME NEW D, NEW id \in DOMAIN D, ~ D[id].deleted, D[id].prev = 0,
         NEW data, Contents(D, Chain(D, id)) = data, D[id].length = Len(data)
  PROVE  Lookup(D, id) = data
  BY ContentIsContents DEF Lookup

-----------------------------------------------------------------------------
(* Create.                                                                 *)

(* Create has a block for the new record.                                  *)
Starting(s, D, st, g, all, a, F, b) ==
  /\ FunctionOn(DOMAIN st, st) /\ Kept(s, D, st, g) /\ Held(D, st, {}, all)
  /\ DOMAIN st \cup g \subseteq DOMAIN D \ {0}
  /\ Allocation(s, D, st, g, a, F)
  /\ b \in Blocks(s) /\ b.next = 0 /\ b.size = 0 /\ b.prev = 0 /\ ~ b.deleted

HasStarted(s, st, g, all, b, n, F, E) ==
  /\ Others(st, n) = st /\ n \notin DOMAIN st /\ n # 0 /\ n \in DOMAIN F
  /\ Kept(s, F, st, g \ {n}) /\ Held(F, st, {n}, all)
  /\ FormedBlock(s, F, b)
  /\ DOMAIN st \cup g \subseteq DOMAIN F \ {0}
  /\ Formed(s, E) /\ E[n] = b /\ n \in DOMAIN E

LEMMA CreateStarts ==
  ASSUME NEW s \in Setting, NEW D, NEW st, NEW g, NEW all, NEW a, NEW F, NEW b,
         Starting(s, D, st, g, all, a, F, b)
  PROVE  HasStarted(s, st, g, all, b, a.block.id, F, Put(F, a.block.id, b))
<1> DEFINE n == a.block.id
           M == {}
<1>1. /\ FunctionOn(DOMAIN st, st) /\ Kept(s, D, st, g) /\ Held(D, st, M, all)
      /\ DOMAIN st \cup g \subseteq DOMAIN D \ {0}
      /\ Allocation(s, D, st, g, a, F) /\ g \ {n} \subseteq g
      /\ b \in Blocks(s) /\ b.next = 0 /\ b.prev = 0
  BY DEF Starting
<1> HIDE DEF M, n
<1>2. HasAllocated(s, D, st, g \ {n}, M, all, n, F)
  BY <1>1, AllocationFacts DEF n
<1>3. M \cup {n} = {n}
  BY DEF M
<1>4. /\ Held(F, st, {n}, all) /\ n # 0 /\ n \in DOMAIN F /\ n \notin DOMAIN st
      /\ DOMAIN F = DOMAIN D \cup {n} /\ Formed(s, F) /\ Kept(s, F, st, g \ {n})
  BY <1>2, <1>3 DEF HasAllocated
<1>5. Others(st, n) = st
  BY <1>1, <1>4, OthersFacts
<1>6. FormedBlock(s, F, b)
  BY <1>1, <1>4, FormedFacts DEF FormedBlock
<1>7. Formed(s, Put(F, n, b)) /\ Changed(F, Put(F, n, b), n, b)
  BY <1>4, <1>6, PutChanges
<1>8. DOMAIN st \cup g \subseteq DOMAIN F \ {0}
  BY <1>1, <1>4
<1>9. Put(F, n, b)[n] = b /\ n \in DOMAIN Put(F, n, b)
  BY <1>7 DEF Changed
<1>10. HasStarted(s, st, g, all, b, n, F, Put(F, n, b))
  BY <1>4, <1>5, <1>6, <1>7, <1>8, <1>9 DEF HasStarted
<1> QED
  BY <1>10 DEF n

(* A record of no data is written at once.                                 *)
LEMMA CreatesEmpty ==
  ASSUME NEW s \in Setting, NEW D, NEW st, NEW g, NEW all, NEW a, NEW F, NEW b,
         Starting(s, D, st, g, all, a, F, b), b.length = 0, <<>> \in s.payload,
         NEW o, o \in Operation(s, F), o.name = "return", o.record = a.block.id, o.data = <<>>
  PROVE  Consistent(s, Put(F, a.block.id, b), o, st, g, all)
<1> DEFINE n == a.block.id
           E == Put(F, n, b)
<1>s. HasStarted(s, st, g, all, b, n, F, E)
  BY CreateStarts
<1>o. o.record = n
  OBVIOUS
<1> HIDE DEF n
<1>1. /\ Others(st, n) = st /\ n # 0 /\ n \in DOMAIN F
      /\ DOMAIN st \cup g \subseteq DOMAIN F \ {0}
      /\ Formed(s, E) /\ E[n] = b /\ n \in DOMAIN E
  BY <1>s DEF HasStarted
<1>2. Kept(s, E, st, g \ {n}) /\ Held(E, st, {n}, all) /\ DOMAIN E = DOMAIN F
  <2> DEFINE M == {n}
             H == g \ {n}
  <2>1. n \in M \cup Free(F) /\ n \notin H
    OBVIOUS
  <2>2. Kept(s, F, st, H) /\ Held(F, st, M, all) /\ FormedBlock(s, F, b)
    BY <1>s DEF HasStarted
  <2> HIDE DEF M, H
  <2>3. Kept(s, E, st, H) /\ Held(E, st, M, all)
    BY <2>1, <2>2, HeldWritten
  <2>4. DOMAIN E = DOMAIN F
    BY <1>1, PutFacts
  <2> QED
    BY <2>3, <2>4 DEF M, H
<1> HIDE DEF E
<1>3. /\ Chained(E, n) /\ Chain(E, n) = <<n>> /\ Members(E, n) = {n}
      /\ Contents(E, <<n>>) = Used(E[n])
  BY <1>1, OneBlock DEF Starting
<1>4. Used(E[n]) = <<>> /\ Len(<<>>) = 0
  BY <1>1, UsedNone DEF Starting
<1>5. Lookup(E, n) = <<>>
  BY <1>1, <1>3, <1>4, Found DEF Starting
<1>6. <<>> # NoData
  BY SettingFacts
<1>7. Returning(E, st, o, all)
  BY <1>o, <1>2, <1>3, <1>5, <1>6 DEF Returning
<1>8. InOperation(s, E, st, o, all)
  BY <1>o, <1>1, <1>7 DEF InOperation
<1>9. o \in Operation(s, E)
  BY <1>2 DEF Operation
<1>10. Consistent(s, E, o, st, g, all)
  BY <1>o, <1>1, <1>2, <1>8, <1>9 DEF Consistent
<1> QED
  BY <1>10 DEF E, n

LEMMA CreatesFirst ==
  ASSUME NEW s \in Setting, NEW D, NEW st, NEW g, NEW all, NEW a, NEW F, NEW b,
         Starting(s, D, st, g, all, a, F, b), NEW data \in s.payload, b.length = Len(data),
         NEW o, o \in Operation(s, F), o.name = "create", o.record = a.block.id,
         o.data = data, o.rest = data,
         Len(o.open) = 1, o.open[1].id = a.block.id, o.open[1].block = b
  PROVE  Consistent(s, F, o, st, g, all)
<1> DEFINE n == a.block.id
           E == Put(F, n, b)
<1>s. HasStarted(s, st, g, all, b, n, F, E)
  BY CreateStarts
<1>o. o.record = n /\ o.open[1].id = n
  OBVIOUS
<1> HIDE DEF n
<1>1. /\ Others(st, n) = st /\ n # 0 /\ n \in DOMAIN F
      /\ Kept(s, F, st, g \ {n}) /\ Held(F, st, {n}, all)
      /\ FormedBlock(s, F, b)
      /\ DOMAIN st \cup g \subseteq DOMAIN F \ {0}
      /\ Formed(s, E) /\ E[n] = b /\ n \in DOMAIN E
  BY <1>s DEF HasStarted
<1> HIDE DEF E
<1>2. /\ Chained(E, n) /\ Chain(E, n) = <<n>> /\ Members(E, n) = {n}
      /\ Contents(E, <<n>>) = Used(E[n])
  BY <1>1, OneBlock DEF Starting
<1>3. Used(E[n]) = <<>> /\ data # NoData /\ data \in Seq(Cells(s))
  BY <1>1, UsedNone, PayloadFacts DEF Starting
<1>4. Contents(E, <<n>>) \o data = data /\ Len(<<n>>) = 1 /\ <<n>>[1] = n /\ Range(<<n>>) = {n}
  BY <1>2, <1>3 DEF Members
<1>5. Creating(s, F, st, o, all)
  BY <1>o, <1>1, <1>2, <1>3, <1>4 DEF Creating, E, Starting
<1>6. InOperation(s, F, st, o, all)
  BY <1>o, <1>1, <1>5 DEF InOperation
<1> QED
  BY <1>o, <1>1, <1>6 DEF Consistent

LEMMA ChunkFacts ==
  ASSUME setting \in Setting, NEW data \in Seq(Cells(setting))
  PROVE  /\ Chunk(data) \in Seq(Cells(setting)) /\ Len(Chunk(data)) <= setting.contentSize
         /\ Len(Chunk(data)) \in Nat
         /\ Remainder(data) \in Seq(Cells(setting))
         /\ Chunk(data) \o Remainder(data) = data
<1> DEFINE z == setting.contentSize
           L == Len(data)
           k == IF L < z THEN L ELSE z
           C == Cells(setting)
<1>1. z \in Nat \ {0} /\ L \in Nat
  BY SettingFacts
<1>2. Chunk(data) = SubSeq(data, 1, k) /\ Remainder(data) = SubSeq(data, z + 1, L)
  BY DEF Chunk, Remainder, BlockContentSize
<1>3. data \in Seq(C) /\ L = Len(data) /\ \A i \in 1 .. L : data[i] \in C
  OBVIOUS
<1> HIDE DEF z, L, C
<1>4. CASE L < z
  <2>1. k = L /\ L < z + 1 /\ z + 1 \in Int /\ L \in Int
    BY <1>1, <1>4
  <2>2. Chunk(data) = data
    BY <1>2, <1>3, <2>1, SubSeqFull
  <2>3. Remainder(data) = <<>>
    BY <1>2, <2>1, SubSeqEmpty
  <2>4. data \o <<>> = data /\ <<>> \in Seq(C)
    BY <1>3, ConcatEmptySeq
  <2> QED
    BY <1>1, <1>3, <1>4, <2>2, <2>3, <2>4 DEF z, L, C
<1>5. CASE ~ (L < z)
  <2>1. /\ k = z /\ 1 \in 1 .. L + 1 /\ k \in 1 - 1 .. L /\ L \in k .. L
        /\ 1 \in Int /\ k \in Int /\ (1 <= k) /\ k - 1 + 1 = k /\ k + 1 = z + 1
        /\ \A i \in 1 .. k : i \in 1 .. L
    BY <1>1, <1>5
  <2> HIDE DEF k
  <2>2. Chunk(data) \o Remainder(data) = SubSeq(data, 1, L)
    BY <1>2, <1>3, <2>1, ConcatAdjacentSubSeq
  <2>3. SubSeq(data, 1, L) = data
    BY <1>3, SubSeqFull
  <2>4. SubSeq(data, 1, k) \in Seq(C) /\ Len(SubSeq(data, 1, k)) = IF 1 <= k THEN k - 1 + 1 ELSE 0
    <3>1. \A i \in 1 .. k : data[i] \in C
      BY <1>3, <2>1
    <3> QED
      BY <2>1, <3>1, SubSeqProperties
  <2>5. SubSeq(data, z + 1, L) \in Seq(C)
    <3>1. z + 1 \in Int /\ L \in Int
      BY <1>1
    <3>2. \A i \in z + 1 .. L : data[i] \in C
      <4>1. \A i \in z + 1 .. L : i \in 1 .. L
        BY <1>1
      <4> QED
        BY <1>3, <4>1
    <3> QED
      BY <3>1, <3>2, SubSeqProperties
  <2>6. Chunk(data) \in Seq(C) /\ Remainder(data) \in Seq(C) /\ Chunk(data) \o Remainder(data) = data
    BY <1>2, <2>2, <2>3, <2>4, <2>5
  <2>7. Len(Chunk(data)) = z
    <3>1. (IF 1 <= k THEN k - 1 + 1 ELSE 0) = z
      BY <1>1, <2>1
    <3> QED
      BY <1>2, <2>4, <3>1, Zenon
  <2>8. Len(Chunk(data)) \in Nat /\ Len(Chunk(data)) <= z
    BY <1>1, <2>7
  <2> QED
    BY <2>6, <2>8 DEF z, C
<1> QED
  BY <1>4, <1>5

(* The chain "c" of a record Create is at, as it will be with the block    *)
(* "b" that is open, number "k", in "M".                                   *)
CreatingAs(s, D, R, o, all, M, c, k, b) ==
  /\ Formed(s, M) /\ Changed(D, M, k, b)
  /\ Chained(M, o.record) /\ Chain(M, o.record) = c /\ Members(M, o.record) = Range(c)
  /\ Linked(M, c) /\ c \in Seq(DOMAIN D) /\ c # <<>> /\ c[Len(c)] = k /\ c[1] = o.record
  /\ k \in Range(c) /\ k # 0 /\ o.record \in Range(c)
  /\ Range(c) \subseteq DOMAIN D /\ Range(c) \cap Tracking(D) = {}
  /\ Held(D, R, Range(c), all)
  /\ \A i \in 1 .. Len(c) - 1 : c[i] \in Range(c) \ {k}
  /\ \A m \in Range(c) \ {k} : M[m] = D[m]
  /\ Used(M[k]) = <<>> /\ b.next = 0 /\ b.prev \in DOMAIN D
  /\ ~ M[o.record].deleted /\ M[o.record].prev = 0 /\ M[o.record].length = Len(o.data)
  /\ k # o.record => b.prev # 0
  /\ Contents(M, c) \o o.rest = o.data
  /\ o.data # NoData
  /\ Contents(M, c) \in Seq(Cells(s)) /\ o.rest \in Seq(Cells(s))

LEMMA CreateUnfolds ==
  ASSUME NEW s \in Setting, NEW D, NEW R, NEW G, NEW o, NEW all,
         Kept(s, D, R, G), o \in Operation(s, D), Creating(s, D, R, o, all)
  PROVE  CreatingAs(s, D, R, o, all, Put(D, o.open[1].id, o.open[1].block),
           Chain(Put(D, o.open[1].id, o.open[1].block), o.record),
           o.open[1].id, o.open[1].block)
<1> DEFINE k == o.open[1].id
           b == o.open[1].block
           M == Put(D, k, b)
           c == Chain(M, o.record)
<1>1. /\ FormedBlock(s, D, b) /\ b.size = 0 /\ b.next = 0
      /\ Chained(M, o.record) /\ c[Len(c)] = k
      /\ Held(D, R, Range(c), all)
      /\ ~ M[o.record].deleted /\ M[o.record].prev = 0 /\ M[o.record].length = Len(o.data)
      /\ k # o.record => b.prev # 0
      /\ Contents(M, c) \o o.rest = o.data /\ o.data # NoData
  BY DEF Creating
<1>2. o.rest \in Seq(Cells(s)) /\ Formed(s, D)
  BY DEF Operation, Kept
<1> HIDE DEF k, b, M, c
<1>3. Linked(M, c) /\ c[1] = o.record /\ Members(M, o.record) = Range(c)
  BY <1>1 DEF Chained, c, Members
<1>4. /\ Len(c) \in Nat \ {0} /\ c # <<>> /\ IsInjective(c)
      /\ \A i \in 1 .. Len(c) : c[i] \in Range(c)
      /\ k \in Range(c)
  BY <1>1, <1>3, MembersOfLinked DEF Linked
<1>5. o.record \in Range(c)
  BY <1>1, <1>3, MembersOfChained
<1>6. /\ Range(c) \subseteq DOMAIN D /\ Range(c) \cap Tracking(D) = {} /\ k \in DOMAIN D /\ k # 0
  BY <1>1, <1>2, <1>4, FreeListFacts DEF Held, Kept
<1>7. Formed(s, M) /\ Changed(D, M, k, b)
  BY <1>1, <1>2, <1>6, PutChanges DEF M
<1>8. \A m \in Range(c) \ {k} : M[m] = D[m]
  BY <1>6, <1>7 DEF Changed
<1>9. \A i \in 1 .. Len(c) - 1 : c[i] \in Range(c) \ {k}
  <2> TAKE i \in 1 .. Len(c) - 1
  <2>1. i \in 1 .. Len(c) /\ Len(c) \in 1 .. Len(c) /\ i # Len(c)
    BY <1>4
  <2>2. c[i] # c[Len(c)]
    <3>1. c \in Seq(DOMAIN M)
      BY <1>3 DEF Linked
    <3> QED
      BY <1>4, <2>1, <3>1 DEF IsInjective
  <2> QED
    BY <1>1, <1>4, <2>1, <2>2
<1>10. c \in Seq(DOMAIN D)
  BY <1>3, <1>7 DEF Linked, Changed
<1>11. Used(M[k]) = <<>>
  BY <1>1, <1>7, UsedNone DEF Changed, FormedBlock
<1>12. Contents(M, c) \in Seq(Cells(s))
  <2>1. Filled(M, c, Cells(s))
    BY <1>6, <1>7, FormedFacts DEF Filled, Changed
  <2> QED
    BY <1>10, <2>1, ContentsType
<1>13. Chain(M, o.record) = c /\ b.prev \in DOMAIN D
  BY <1>1 DEF c, FormedBlock
<1> HIDE DEF c
<1>14. CreatingAs(s, D, R, o, all, M, c, k, b)
  BY <1>1, <1>2, <1>3, <1>4, <1>5, <1>6, <1>7, <1>8, <1>9, <1>10, <1>11, <1>12, <1>13 DEF CreatingAs
<1> QED
  BY <1>14 DEF c, M, k, b

(* The block "w" is what becomes of the block Create has open.             *)
Filling(s, D, o, b, w, next, used) ==
  /\ FormedBlock(s, D, w)
  /\ w.next = next /\ w.prev = b.prev /\ w.deleted = b.deleted /\ w.length = b.length
  /\ Used(w) = used

LEMMA CreateEnds ==
  ASSUME NEW s \in Setting, NEW D, NEW o, NEW st, NEW g, NEW all,
         Consistent(s, D, o, st, g, all), o.name = "create",
         NEW k, k = o.open[1].id, NEW b, b = o.open[1].block,
         NEW w, Filling(s, D, o, b, w, 0, o.rest),
         NEW o2, o2 \in Operation(s, D), o2.name = "return",
         o2.record = o.record, o2.data = o.data
  PROVE  Consistent(s, Put(D, k, w), o2, st, g, all)
<1> DEFINE R == Others(st, o.record)
           H == g \ {o.record}
           M == Put(D, k, b)
           c == Chain(M, o.record)
           E == Put(D, k, w)
<1>1. /\ Kept(s, D, R, H) /\ o \in Operation(s, D) /\ Formed(s, D)
      /\ DOMAIN st \cup g \subseteq DOMAIN D \ {0}
      /\ InOperation(s, D, R, o, all)
  BY DEF Consistent, Kept
<1>2. Creating(s, D, R, o, all) /\ o.record # 0
  BY <1>1 DEF InOperation
<1>3. CreatingAs(s, D, R, o, all, M, c, k, b)
  BY <1>1, <1>2, CreateUnfolds
<1>6. o.record \notin H
  OBVIOUS
<1> HIDE DEF M, c, E, R, H
<1>7. /\ Kept(s, E, R, H)
      /\ Held(E, R, Range(c), all) /\ Changed(D, E, k, w) /\ Formed(s, E)
  <2>1. k \in H => w.deleted \/ w.prev # 0
    BY <1>3, <1>6 DEF CreatingAs, Filling
  <2>2. /\ Held(D, R, Range(c), all) /\ k \in Range(c) \cup Free(D)
        /\ FormedBlock(s, D, w)
    BY <1>3 DEF CreatingAs, Filling
  <2> QED
    BY <1>1, <2>1, <2>2, HeldWritten DEF E
<1>8. \A m \in Range(c) : /\ m \in DOMAIN E /\ E[m].next = M[m].next
                          /\ m # k => E[m] = M[m]
  BY <1>3, <1>7 DEF CreatingAs, Changed, Filling
<1>9. Chained(E, o.record) /\ Chain(E, o.record) = c /\ Members(E, o.record) = Range(c)
  <2>1. Sound(E)
    BY <1>7, FormedFacts
  <2>2. Chained(M, o.record) /\ Chain(M, o.record) = c /\ Members(M, o.record) = Range(c)
    BY <1>3 DEF CreatingAs
  <2> QED
    BY <1>8, <2>1, <2>2, ChainUnchanged
<1>10. Contents(E, c) = o.data
  <2>1. /\ c \in Seq(DOMAIN D) /\ c # <<>> /\ Range(c) \subseteq DOMAIN D /\ Used(M[k]) = <<>>
        /\ Formed(s, M) /\ DOMAIN M = DOMAIN D /\ DOMAIN E = DOMAIN D /\ E[k] = w
        /\ Contents(M, c) \o o.rest = o.data
    BY <1>3, <1>7 DEF CreatingAs, Changed
  <2>2. Last(c) = k
    BY <1>3 DEF CreatingAs, Last
  <2>3. Filled(M, c, Cells(s)) /\ Filled(E, c, Cells(s))
    BY <1>7, <2>1, FormedFacts DEF Filled
  <2>4. \A i \in 1 .. Len(c) - 1 : E[c[i]] = M[c[i]]
    BY <1>3, <1>8 DEF CreatingAs
  <2>5. Contents(E, c) = Contents(M, c) \o Used(E[Last(c)])
    <3>1. Used(M[Last(c)]) = <<>> /\ c \in Seq(DOMAIN D) /\ c # <<>>
      BY <2>1, <2>2
    <3> QED
      BY <2>3, <2>4, <3>1, ContentsChanged
  <2> QED
    BY <2>1, <2>2, <2>5 DEF Filling
<1>11. /\ o.record \in DOMAIN E
       /\ ~ E[o.record].deleted /\ E[o.record].prev = 0 /\ E[o.record].length = Len(o.data)
  BY <1>3, <1>7, <1>8 DEF CreatingAs, Changed, Filling
<1>12. Lookup(E, o.record) = o.data
  BY <1>9, <1>10, <1>11, Found
<1>13. Returning(E, R, o2, all)
  BY <1>3, <1>7, <1>9, <1>12 DEF Returning, CreatingAs
<1>14. InOperation(s, E, R, o2, all)
  BY <1>2, <1>13 DEF InOperation
<1>15. o2 \in Operation(s, E) /\ DOMAIN st \cup g \subseteq DOMAIN E \ {0}
  BY <1>1, <1>7 DEF Operation, Changed
<1>16. Consistent(s, E, o2, st, g, all)
  BY <1>7, <1>14, <1>15 DEF Consistent, R, H
<1> QED
  BY <1>16 DEF E

(* Some data in two parts.                                                 *)
Parts(s, data, chunk, rest) ==
  chunk \in Seq(Cells(s)) /\ rest \in Seq(Cells(s)) /\ chunk \o rest = data

Behind(s, p, data, chunk, rest) ==
  p \o chunk \in Seq(Cells(s)) /\ (p \o chunk) \o rest = p \o data

LEMMA PartsBehind ==
  ASSUME NEW s, NEW data, NEW chunk, NEW rest, Parts(s, data, chunk, rest),
         NEW p \in Seq(Cells(s))
  PROVE  Behind(s, p, data, chunk, rest)
<1>1. chunk \in Seq(Cells(s)) /\ rest \in Seq(Cells(s))
  BY DEF Parts
<1>2. p \o chunk \in Seq(Cells(s))
  BY <1>1, ConcatProperties
<1>3. (p \o chunk) \o rest = p \o (chunk \o rest)
  BY <1>1, ConcatAssociative
<1> QED
  BY <1>2, <1>3 DEF Parts, Behind

(* The block "e" is the next one of the chain, "n", with nothing in it.    *)
CreatingNext(s, F, o, o2, n, e, k, rest) ==
  /\ e \in Blocks(s) /\ e.next = 0 /\ e.size = 0 /\ e.prev = k
  /\ o2 \in Operation(s, F) /\ o2.name = "create"
  /\ o2.record = o.record /\ o2.data = o.data /\ o2.rest = rest
  /\ Len(o2.open) = 1 /\ o2.open[1].id = n /\ o2.open[1].block = e

LEMMA CreateContinues ==
  ASSUME NEW s \in Setting, NEW D, NEW o, NEW st, NEW g, NEW all,
         Consistent(s, D, o, st, g, all), o.name = "create",
         NEW k, k = o.open[1].id, NEW b, b = o.open[1].block,
         NEW a, NEW F, Allocation(s, D, Others(st, o.record), g \ {o.record}, a, F),
         NEW n, n = a.block.id,
         NEW chunk, NEW rest, Parts(s, o.rest, chunk, rest),
         NEW w, Filling(s, F, o, b, w, n, chunk),
         NEW e, NEW o2, CreatingNext(s, F, o, o2, n, e, k, rest)
  PROVE  Consistent(s, Put(F, k, w), o2, st, g, all)
<1> DEFINE R == Others(st, o.record)
           H == g \ {o.record}
           M == Put(D, k, b)
           c == Chain(M, o.record)
           E == Put(F, k, w)
           M2 == Put(E, n, e)
           c2 == Append(c, n)
<1>1. /\ Kept(s, D, R, H) /\ o \in Operation(s, D) /\ Formed(s, D)
      /\ DOMAIN st \cup g \subseteq DOMAIN D \ {0}
      /\ InOperation(s, D, R, o, all)
  BY DEF Consistent, Kept
<1>2. Creating(s, D, R, o, all) /\ o.record # 0
  BY <1>1 DEF InOperation
<1>3. CreatingAs(s, D, R, o, all, M, c, k, b)
  BY <1>1, <1>2, CreateUnfolds
<1>4. o.record \notin H /\ H \subseteq H
  OBVIOUS
<1> HIDE DEF M, c, E, R, H, M2, c2
<1>5. HasAllocated(s, D, R, H, Range(c), all, n, F)
  <2>1. Held(D, R, Range(c), all) /\ Allocation(s, D, R, H, a, F)
    BY <1>3 DEF CreatingAs, R, H
  <2> QED
    BY <1>1, <1>4, <2>1, AllocationFacts
<1> DEFINE N == Range(c) \cup {n}
<1> HIDE DEF N
<1>6. /\ n \notin Range(c) /\ n # 0 /\ n \in DOMAIN F /\ DOMAIN F = DOMAIN D \cup {n}
      /\ Formed(s, F)
      /\ \A m \in DOMAIN D \ Tracking(D) : F[m] = D[m]
      /\ k \in Range(c) /\ k # n /\ Range(c) \subseteq DOMAIN D /\ Range(c) \cap Tracking(D) = {}
  BY <1>3, <1>5 DEF HasAllocated, CreatingAs
<1>7. Kept(s, E, R, H) /\ Held(E, R, N, all) /\ Changed(F, E, k, w) /\ Formed(s, E)
  <2>1. k \in H => w.deleted \/ w.prev # 0
    BY <1>3, <1>4 DEF CreatingAs, Filling
  <2>2. /\ Kept(s, F, R, H) /\ Held(F, R, N, all) /\ k \in N \cup Free(F)
        /\ FormedBlock(s, F, w)
    BY <1>5, <1>6 DEF HasAllocated, Filling, N
  <2> QED
    BY <2>1, <2>2, HeldWritten DEF E
<1>8. FormedBlock(s, E, e) /\ n \in DOMAIN E
  BY <1>6, <1>7, FormedFacts DEF FormedBlock, CreatingNext, Changed
<1>9. Formed(s, M2) /\ Changed(E, M2, n, e)
  BY <1>7, <1>8, PutChanges DEF M2
<1>10. /\ DOMAIN M2 = DOMAIN F /\ M2[n] = e /\ M2[k] = w
       /\ \A m \in Range(c) : m # k => M2[m] = M[m]
       /\ DOMAIN M = DOMAIN D /\ M[k] = b
  <2>1. Changed(D, M, k, b) /\ \A m \in Range(c) \ {k} : M[m] = D[m]
    BY <1>3 DEF CreatingAs
  <2>2. DOMAIN M2 = DOMAIN F /\ M2[n] = e /\ DOMAIN M = DOMAIN D /\ M[k] = b
    BY <1>7, <1>9, <2>1 DEF Changed
  <2>3. \A m \in Range(c) : m \in DOMAIN F /\ m # n /\ F[m] = D[m]
    BY <1>6
  <2>4. \A m \in Range(c) : M2[m] = E[m] /\ (m # k => E[m] = F[m])
    BY <1>6, <1>7, <1>9, <2>3 DEF Changed
  <2>5. M2[k] = w
    BY <1>6, <1>7, <2>4 DEF Changed
  <2> QED
    BY <2>1, <2>2, <2>3, <2>4, <2>5
<1>11. Lengthening(M, c, M2, n) /\ Linked(M, c) /\ c[1] = o.record
  BY <1>3, <1>6, <1>10 DEF Lengthening, CreatingAs, Filling, CreatingNext
<1>12. Linked(M2, c2) /\ Range(c2) = N /\ c2[1] = o.record
  BY <1>11, LinkedLengthened DEF c2, N
<1>13. /\ Chained(M2, o.record) /\ Chain(M2, o.record) = c2
  BY <1>9, <1>12, FormedFacts, LinkedIsChained
<1>14. c \in Seq(DOMAIN D) /\ c # <<>> /\ c2[Len(c2)] = n /\ Last(c) = k
  BY <1>3 DEF CreatingAs, c2, Last
<1>15. Contents(M2, c2) \o rest = o.data
  <2>1. Filled(M, c, Cells(s)) /\ Filled(M2, c, Cells(s))
    BY <1>3, <1>6, <1>9, <1>10, FormedFacts DEF Filled, CreatingAs
  <2>2. Contents(M2, c) = Contents(M, c) \o Used(M2[Last(c)])
    <3>1. \A i \in 1 .. Len(c) - 1 : M2[c[i]] = M[c[i]]
      BY <1>3, <1>10 DEF CreatingAs
    <3>2. Used(M[Last(c)]) = <<>> /\ c \in Seq(DOMAIN D) /\ c # <<>>
      BY <1>3, <1>14 DEF CreatingAs
    <3> QED
      BY <2>1, <3>1, <3>2, ContentsChanged
  <2>3. Contents(M2, c) = Contents(M, c) \o chunk
    BY <1>10, <1>14, <2>2 DEF Filling
  <2>4. Contents(M2, c2) = Contents(M2, c) \o Used(M2[n])
    <3>1. c \in Seq(DOMAIN F) /\ n \in DOMAIN F
      BY <1>6, <1>14
    <3>2. Used(M2[n]) \in Seq(Cells(s))
      BY <1>6, <1>9, <1>10, FormedFacts
    <3> QED
      BY <2>1, <3>1, <3>2, ContentsAppend DEF c2
  <2>5. Used(M2[n]) = <<>>
    BY <1>10, UsedNone DEF CreatingNext
  <2>6. /\ Contents(M, c) \in Seq(Cells(s)) /\ Contents(M, c) \o o.rest = o.data
    BY <1>3 DEF CreatingAs
  <2>7. Contents(M2, c) \in Seq(Cells(s)) /\ Contents(M2, c) \o rest = o.data
    <3> DEFINE p == Contents(M, c)
    <3>1. p \in Seq(Cells(s)) /\ p \o o.rest = o.data
      BY <2>6
    <3>2. Contents(M2, c) = p \o chunk
      BY <2>3
    <3> HIDE DEF p
    <3>3. Behind(s, p, o.rest, chunk, rest)
      BY <3>1, PartsBehind, Zenon
    <3> QED
      BY <3>1, <3>2, <3>3 DEF Behind
  <2> QED
    BY <2>4, <2>5, <2>7
<1>16. ~ M2[o.record].deleted /\ M2[o.record].prev = 0 /\ M2[o.record].length = Len(o.data)
  BY SMTT(30), <1>3, <1>10 DEF CreatingAs, Filling
<1>17. Creating(s, E, R, o2, all)
  <2>1. k # 0 /\ o.data # NoData
    BY <1>3 DEF CreatingAs
  <2> QED
    BY <1>7, <1>8, <1>12, <1>13, <1>14, <1>15, <1>16, <2>1 DEF Creating, CreatingNext, M2
<1>18. InOperation(s, E, R, o2, all)
  BY <1>2, <1>17 DEF InOperation, CreatingNext
<1>19. DOMAIN st \cup g \subseteq DOMAIN E \ {0} /\ o2 \in Operation(s, E)
  BY <1>1, <1>6, <1>7 DEF Changed, CreatingNext, Operation
<1>20. Consistent(s, E, o2, st, g, all)
  BY <1>7, <1>18, <1>19 DEF Consistent, R, H, CreatingNext
<1> QED
  BY <1>20 DEF E

-----------------------------------------------------------------------------
(* Delete and Update are called.                                           *)

LEMMA IdleFacts ==
  ASSUME NEW s \in Setting, NEW D, NEW o, NEW st, NEW g, NEW all,
         Consistent(s, D, o, st, g, all), o.name = "idle", FunctionOn(DOMAIN st, st)
  PROVE  /\ Kept(s, D, st, g) /\ Held(D, st, {}, all) /\ o = Idle
         /\ DOMAIN st \cup g \subseteq DOMAIN D \ {0}
<1>1. /\ Kept(s, D, Others(st, o.record), g \ {o.record})
      /\ DOMAIN st \cup g \subseteq DOMAIN D \ {0}
      /\ InOperation(s, D, Others(st, o.record), o, all)
  BY DEF Consistent
<1>2. o = Idle /\ Held(D, Others(st, o.record), {}, all)
  BY <1>1 DEF InOperation
<1>3. o.record = 0
  BY <1>2 DEF Idle
<1>4. g \ {0} = g /\ 0 \notin DOMAIN st
  BY <1>1
<1>5. Others(st, 0) = st
  BY <1>4, OthersFacts
<1> QED
  BY <1>1, <1>2, <1>3, <1>4, <1>5

(* The record "id" is worked on from now on.                               *)
LEMMA SetAside ==
  ASSUME NEW s \in Setting, NEW D, NEW st, NEW g, NEW all, NEW id \in DOMAIN st,
         Kept(s, D, st, g), Held(D, st, {}, all), DOMAIN st \cup g \subseteq DOMAIN D \ {0}
  PROVE  /\ Kept(s, D, Others(st, id), g \ {id})
         /\ Held(D, Others(st, id), Members(D, id), all)
         /\ Chained(D, id) /\ Lookup(D, id) = st[id] /\ id # 0
<1>1. /\ DOMAIN Others(st, id) \subseteq DOMAIN st
      /\ \A k \in DOMAIN Others(st, id) : Others(st, id)[k] = st[k]
  BY OthersFacts
<1>2. g \ {id} \subseteq g
  OBVIOUS
<1>3. Kept(s, D, Others(st, id), g \ {id})
  BY <1>1, <1>2, KeptFewer
<1>4. Apart(D, st)
  BY DEF Kept
<1>5. Held(D, Others(st, id), Members(D, id), all)
  BY <1>4, HeldOne
<1> QED
  BY <1>3, <1>4, <1>5 DEF Apart

LEMMA DeleteStarts ==
  ASSUME NEW s \in Setting, NEW D, NEW o, NEW st, NEW g, NEW all,
         Consistent(s, D, o, st, g, all), o.name = "idle", FunctionOn(DOMAIN st, st),
         NEW id \in DOMAIN st,
         NEW o2, o2 \in Operation(s, D), o2.name = "delete", o2.record = id, o2.data = NoData,
         Len(o2.open) = 1, o2.open[1].id = id, o2.open[1].block = D[id]
  PROVE  Consistent(s, D, o2, st, g, all)
<1>1. /\ Kept(s, D, st, g) /\ Held(D, st, {}, all)
      /\ DOMAIN st \cup g \subseteq DOMAIN D \ {0}
  BY IdleFacts
<1>2. /\ Kept(s, D, Others(st, id), g \ {id})
      /\ Held(D, Others(st, id), Members(D, id), all)
      /\ Chained(D, id) /\ id # 0
  BY <1>1, SetAside
<1>3. Deleting(D, Others(st, id), o2, all)
  BY <1>2 DEF Deleting
<1>4. InOperation(s, D, Others(st, id), o2, all)
  BY <1>2, <1>3 DEF InOperation
<1> QED
  BY <1>1, <1>2, <1>4 DEF Consistent

LEMMA UpdateStarts ==
  ASSUME NEW s \in Setting, NEW D, NEW o, NEW st, NEW g, NEW all,
         Consistent(s, D, o, st, g, all), o.name = "idle", FunctionOn(DOMAIN st, st),
         NEW id \in DOMAIN st, st[id] \in s.payload,
         NEW data \in s.payload, data # <<>>,
         NEW o2, o2.name = "update", o2.record = id, o2.data = data, o2.rest = data,
         o2.open = FindBlocks(D, id), o2.used = 0, o2 \in Operation(s, D)
  PROVE  Consistent(s, D, o2, st, g, all)
<1> DEFINE R == Others(st, id)
           c == Chain(D, id)
           L == Len(c)
           open == o2.open
<1>1. /\ Kept(s, D, st, g) /\ Held(D, st, {}, all)
      /\ DOMAIN st \cup g \subseteq DOMAIN D \ {0}
  BY IdleFacts
<1>2. /\ Kept(s, D, R, g \ {id}) /\ Held(D, R, Members(D, id), all)
      /\ Chained(D, id) /\ Lookup(D, id) = st[id] /\ id # 0 /\ Formed(s, D)
  <2>1. Formed(s, D)
    BY <1>1 DEF Kept
  <2> QED
    BY <1>1, <2>1, SetAside
<1>3. ~ D[id].deleted /\ D[id].prev = 0
  BY <1>2, SettingFacts DEF Lookup
<1>4. /\ c \in Seq(DOMAIN D) /\ IsInjective(c) /\ c[1] = id /\ L \in Nat \ {0}
      /\ Range(c) = {c[i] : i \in 1 .. L} /\ Members(D, id) = Range(c)
      /\ \A i \in 1 .. L : c[i] \in DOMAIN D
  BY <1>2, MembersOfLinked DEF Chained, Linked, Members
<1>5. /\ Len(open) = L
      /\ \A i \in 1 .. L : open[i].id = c[i] /\ open[i].block = D[c[i]]
  <2> DEFINE blocks == FindBlocks(D, id)
  <2>1. Len(Chain(D, id)) \in Nat
    BY <1>4
  <2>2. /\ Len(blocks) = Len(Chain(D, id))
        /\ \A i \in 1 .. Len(Chain(D, id)) :
             blocks[i] = [id |-> Chain(D, id)[i], block |-> D[Chain(D, id)[i]]]
    BY <2>1, FindBlocksFacts
  <2>3. blocks = open
    OBVIOUS
  <2> HIDE DEF blocks
  <2>4. \A i \in 1 .. Len(Chain(D, id)) :
          blocks[i].id = Chain(D, id)[i] /\ blocks[i].block = D[Chain(D, id)[i]]
    <3> TAKE i \in 1 .. Len(Chain(D, id))
    <3> DEFINE m == Chain(D, id)[i]
    <3>1. blocks[i] = [id |-> m, block |-> D[m]]
      BY <2>2
    <3> HIDE DEF m
    <3>2. blocks[i].id = m /\ blocks[i].block = D[m]
      BY <3>1
    <3> QED
      BY <3>2 DEF m
  <2> QED
    BY <2>2, <2>3, <2>4
<1>6. open # <<>> /\ open[1].id = id /\ open[1].block = D[id]
  BY <1>4, <1>5
<1> HIDE DEF c, L, open
<1>7. Kept1(open, 0, 0) = Members(D, id)
  <2>1. {i \in 1 .. L : i <= 0 \/ i > 0} = 1 .. L
    BY <1>4
  <2>2. Kept1(open, 0, 0) = {open[i].id : i \in 1 .. L}
    BY <1>5, <2>1 DEF Kept1
  <2> QED
    BY <1>4, <1>5, <2>2
<1>8. Open(s, D, open, 0)
  <2>1. Distinct(D, open)
    <3>1. DOMAIN c = 1 .. L
      BY <1>4 DEF L
    <3>2. \A i, j \in 1 .. L : c[i] = c[j] => i = j
      BY <1>4, <3>1 DEF IsInjective
    <3> QED
      BY <1>4, <1>5, <3>2 DEF Distinct
  <2>2. \A i \in 1 .. L : c[i] \notin Tracking(D)
    BY <1>2, <1>4 DEF Held
  <2>3. \A i \in 1 .. L : FormedBlock(s, D, open[i].block)
    BY <1>2, <1>4, <1>5 DEF Formed
  <2>4. 2 .. 0 = {} /\ 0 + 1 .. L = 1 .. L
    BY <1>4
  <2> QED
    BY <1>5, <2>1, <2>2, <2>3, <2>4 DEF Open
<1>9. UpdatingTo(s, D, R, o2, all, 0)
  BY <1>2, <1>7, <1>8 DEF UpdatingTo, open
<1>10. 0 \in 0 .. Len(open) /\ 0 \in 0 .. 0 /\ data # NoData
  BY <1>4, <1>5, PayloadFacts
<1>11. Updating(s, D, R, o2, all)
  BY <1>3, <1>6, <1>9, <1>10 DEF Updating, open
<1>12. InOperation(s, D, R, o2, all)
  BY <1>2, <1>11 DEF InOperation
<1> QED
  BY <1>1, <1>2, <1>12 DEF Consistent

-----------------------------------------------------------------------------
(* Delete.                                                                 *)

(* A block of the operation's is put into the free list.                   *)
HasMarked(s, D, R, G, M, all, k, F) ==
  /\ Kept(s, F, R, G) /\ Formed(s, F)
  /\ DOMAIN D \subseteq DOMAIN F
  /\ Held(F, R, M \ {k}, all)
  /\ Free(F) = Free(D) \cup {k}
  /\ \A m \in DOMAIN D \ Tracking(D) : F[m] = D[m]
  /\ M \cap Tracking(D) = {} /\ M \cap Free(D) = {} /\ M \subseteq DOMAIN D
  /\ Tracking(F) = Tracking(D) \cup (DOMAIN F \ DOMAIN D)
  /\ Free(D) \subseteq DOMAIN D \ Tracking(D)

LEMMA MarkingFacts ==
  ASSUME NEW s, NEW D, NEW R, NEW G, Kept(s, D, R, G),
         NEW M, NEW all, Held(D, R, M, all), NEW k \in M,
         NEW a, NEW F, Marking(s, D, R, G, k, a, F), s \in Setting
  PROVE  HasMarked(s, D, R, G, M, all, k, F)
<1>1. M \subseteq DOMAIN D /\ M \cap (Tracking(D) \cup Free(D) \cup InRecords(D, R)) = {}
  BY DEF Held
<1>4. Kept(s, F, R, G) /\ Formed(s, F) /\ Marked(D, R, F, k)
  BY DEF Marking, Kept
<1>6. Held(F, R, M \ {k}, all)
  BY <1>4, HeldAfterMarking
<1>7. /\ DOMAIN D \subseteq DOMAIN F /\ Free(F) = Free(D) \cup {k}
      /\ Tracking(F) = Tracking(D) \cup (DOMAIN F \ DOMAIN D)
      /\ \A m \in DOMAIN D \ Tracking(D) : F[m] = D[m]
  BY <1>4 DEF Marked
<1>8. Free(D) \subseteq DOMAIN D \ Tracking(D)
  BY FreeListFacts DEF Kept
<1> QED
  BY <1>1, <1>4, <1>6, <1>7, <1>8 DEF HasMarked

LEMMA DeleteGoesOn ==
  ASSUME NEW s \in Setting, NEW D, NEW o, NEW st, NEW g, NEW all,
         Consistent(s, D, o, st, g, all), o.name = "delete",
         NEW k, k = o.open[1].id,
         NEW a, NEW F, Marking(s, D, Others(st, o.record), g \ {o.record}, k, a, F),
         NEW w, FormedBlock(s, F, w), w.deleted,
         NEW next, next = D[k].next,
         NEW o2, o2 \in Operation(s, F), o2.record = o.record, o2.data = o.data,
         IF next = 0 THEN o2.name = "return"
         ELSE o2.name = "delete" /\ Len(o2.open) = 1 /\ o2.open[1].id = next
              /\ o2.open[1].block = D[next]
  PROVE  Consistent(s, Put(F, k, w), o2, st, g, all)
<1> DEFINE R == Others(st, o.record)
           H == g \ {o.record}
           M == Members(D, k)
           E == Put(F, k, w)
<1>1. /\ Kept(s, D, R, H) /\ Formed(s, D)
      /\ DOMAIN st \cup g \subseteq DOMAIN D \ {0}
      /\ InOperation(s, D, R, o, all)
  BY DEF Consistent, Kept
<1>2. Deleting(D, R, o, all) /\ o.record # 0
  BY <1>1 DEF InOperation
<1>3. /\ Chained(D, k) /\ Held(D, R, M, all) /\ o.data = NoData
      /\ k = o.record \/ (o.record \in Free(D) /\ D[o.record].deleted)
  BY <1>2 DEF Deleting
<1>4. k \in M
  BY <1>3, MembersOfChained
<1>5. HasMarked(s, D, R, H, M, all, k, F)
  <2>1. Marking(s, D, R, H, k, a, F)
    OBVIOUS
  <2> HIDE DEF R, H, M
  <2> QED
    BY <1>1, <1>3, <1>4, <2>1, MarkingFacts
<1> HIDE DEF R, H, M, E
<1> DEFINE N == M \ {k}
<1> HIDE DEF N
<1>6. /\ Kept(s, E, R, H) /\ Held(E, R, N, all) /\ Changed(F, E, k, w) /\ Formed(s, E)
      /\ Free(E) = Free(F)
  <2>1. k \in N \cup Free(F)
    BY <1>5 DEF HasMarked
  <2>2. Kept(s, F, R, H) /\ Held(F, R, N, all)
    BY <1>5 DEF HasMarked, N
  <2> QED
    BY <2>1, <2>2, HeldWritten DEF E
<1>7. /\ DOMAIN E = DOMAIN F /\ DOMAIN D \subseteq DOMAIN E
      /\ Free(E) = Free(D) \cup {k} /\ E[k] = w
      /\ \A m \in M \cup Free(D) : m # k => E[m] = D[m]
      /\ M \subseteq DOMAIN D
  <2>1. \A m \in M \cup Free(D) : m \in DOMAIN F /\ F[m] = D[m]
    BY <1>5 DEF HasMarked
  <2> QED
    BY <1>5, <1>6, <2>1 DEF HasMarked, Changed
<1>8. o.record \in Free(E) /\ E[o.record].deleted
  <2>1. CASE k = o.record
    BY <1>7, <2>1
  <2>2. CASE k # o.record
    BY <1>3, <1>7, <2>2
  <2> QED
    BY <2>1, <2>2
<1>9. InOperation(s, E, R, o2, all)
  <2>1. CASE next = 0
    <3>1. M = {k}
      <4>1. k \in DOMAIN D /\ Sound(D) /\ D[k].next = 0
        BY <1>1, <1>4, <1>7, <2>1, FormedFacts
      <4> QED
        BY <4>1, ChainOfOne DEF M
    <3>2. Held(E, R, {}, all)
      <4>1. N = {}
        BY <3>1 DEF N
      <4> QED
        BY <1>6, <4>1
    <3>3. Returning(E, R, o2, all)
      BY <1>3, <1>8, <3>2 DEF Returning
    <3> QED
      BY <1>2, <2>1, <3>3 DEF InOperation
  <2>2. CASE next # 0
    <3>1. Chained(D, next) /\ Members(D, next) = N
      BY <1>1, <1>3, <2>2, FormedFacts, ChainOfNext DEF M, N
    <3>2. \A m \in N : m \in DOMAIN E /\ E[m] = D[m]
      BY <1>7 DEF N
    <3>3. Chained(E, next) /\ Members(E, next) = N
      <4>1. /\ Sound(E)
            /\ \A m \in Members(D, next) : m \in DOMAIN E /\ E[m].next = D[m].next
        BY <1>6, <3>1, <3>2, FormedFacts
      <4> QED
        BY <3>1, <4>1, ChainUnchanged
    <3>4. next \in N
      BY <3>1, MembersOfChained
    <3>5. Deleting(E, R, o2, all)
      BY <1>3, <1>6, <1>8, <2>2, <3>2, <3>3, <3>4 DEF Deleting
    <3> QED
      BY <1>2, <2>2, <3>5 DEF InOperation
  <2> QED
    BY <2>1, <2>2
<1>10. DOMAIN st \cup g \subseteq DOMAIN E \ {0} /\ o2 \in Operation(s, E)
  BY <1>1, <1>7 DEF Operation
<1>12. Consistent(s, E, o2, st, g, all)
  BY <1>6, <1>9, <1>10 DEF Consistent, R, H
<1> QED
  BY <1>12 DEF E

-----------------------------------------------------------------------------
(* Update writes a block.                                                  *)

LEMMA AppliedFormed ==
  ASSUME NEW s, NEW D, Formed(s, D), NEW ws, Distinct(D, ws), NEW k \in 0 .. Len(ws),
         \A i \in 1 .. k : FormedBlock(s, D, ws[i].block)
  PROVE  Formed(s, Applied(D, ws, k))
<1> DEFINE A == Applied(D, ws, k)
<1>1. /\ DOMAIN A = DOMAIN D /\ FunctionOn(DOMAIN D, A)
      /\ \A j \in 1 .. k : A[ws[j].id] = ws[j].block
      /\ \A id \in DOMAIN D : (\A j \in 1 .. k : ws[j].id # id) => A[id] = D[id]
  BY DistinctApplied
<1>2. Size(A) = Size(D)
  BY <1>1 DEF Size
<1> HIDE DEF A
<1>3. \A id \in DOMAIN D : FormedBlock(s, D, A[id])
  <2> TAKE id \in DOMAIN D
  <2>1. CASE \E j \in 1 .. k : ws[j].id = id
    BY <1>1, <2>1
  <2>2. CASE \A j \in 1 .. k : ws[j].id # id
    BY <1>1, <2>2 DEF Formed
  <2> QED
    BY <2>1, <2>2
<1>4. \A id \in DOMAIN A : FormedBlock(s, A, A[id])
  BY <1>1, <1>3 DEF FormedBlock
<1>5. A \in [DOMAIN D -> Blocks(s)]
  BY <1>1, <1>3 DEF FunctionOn, FormedBlock
<1>6. Formed(s, A)
  BY <1>2, <1>4, <1>5 DEF Formed
<1> QED
  BY <1>6 DEF A

LEMMA RelinkedFacts ==
  ASSUME NEW s \in Setting, NEW b \in Blocks(s), NEW m \in Nat
  PROVE  /\ Relinked(b, m) \in Blocks(s)
         /\ Relinked(b, m).next = m /\ Relinked(b, m).prev = b.prev
         /\ Relinked(b, m).deleted = b.deleted /\ Relinked(b, m).length = b.length
         /\ Used(Relinked(b, m)) = Used(b)
  BY DEF Relinked, Blocks, Used

LEMMA FirstsFacts ==
  ASSUME NEW open, NEW m \in Nat
  PROVE  /\ Len(Firsts(open, m)) = m
         /\ \A i \in 1 .. m : Firsts(open, m)[i] = open[i].id
         /\ Range(Firsts(open, m)) = {open[i].id : i \in 1 .. m}
         /\ DOMAIN Firsts(open, m) = 1 .. m
  BY DEF Firsts, Range

(* What an iteration does to the blocks that are open: the one after the   *)
(* first "u" becomes "t", which is linked to the one before.               *)
Writes(s, F, open, open2, u, t, chunk, data) ==
  /\ Len(open) \in Nat /\ u \in 0 .. Len(open)
  /\ IF u = Len(open) THEN Len(open2) = u + 1 ELSE Len(open2) = Len(open)
  /\ \A i \in 1 .. Len(open) : /\ open2[i].id = open[i].id
                               /\ i \notin {u, u + 1} => open2[i].block = open[i].block
  /\ u # 0 => open2[u].block = Relinked(open[u].block, open2[u + 1].id)
  /\ open2[u + 1].block = t /\ FormedBlock(s, F, t) /\ t.next = 0 /\ Used(t) = chunk
  /\ IF u = 0 THEN t.length = Len(data) ELSE t.prev # 0
  /\ Distinct(F, open2)
  /\ \A i \in 1 .. Len(open2) : open2[i].id \notin Tracking(F) \cup {0}

LEMMA WritesOpen ==
  ASSUME NEW s \in Setting, NEW D, Formed(s, D), NEW F, Formed(s, F), DOMAIN D \subseteq DOMAIN F,
         NEW open, NEW open2, NEW u, NEW t, NEW chunk, NEW data,
         Open(s, D, open, u), Writes(s, F, open, open2, u, t, chunk, data),
         \A i \in 1 .. Len(open) : i # u + 1 => F[open[i].id] = D[open[i].id]
  PROVE  Open(s, F, open2, u + 1)
<1> DEFINE L == Len(open)
           L2 == Len(open2)
<1>1. /\ Distinct(D, open)
      /\ \A i \in 1 .. L : FormedBlock(s, D, open[i].block)
      /\ \A i \in 2 .. u : open[i].block.prev # 0
      /\ \A i \in u + 1 .. L : open[i].block = D[open[i].id]
  BY DEF Open
<1>2. /\ L \in Nat /\ u \in 0 .. L
      /\ IF u = L THEN L2 = u + 1 ELSE L2 = L
      /\ \A i \in 1 .. L : /\ open2[i].id = open[i].id
                           /\ i \notin {u, u + 1} => open2[i].block = open[i].block
      /\ u # 0 => open2[u].block = Relinked(open[u].block, open2[u + 1].id)
      /\ open2[u + 1].block = t /\ FormedBlock(s, F, t) /\ t.next = 0 /\ Used(t) = chunk
      /\ IF u = 0 THEN t.length = Len(data) ELSE t.prev # 0
      /\ Distinct(F, open2)
      /\ \A i \in 1 .. L2 : open2[i].id \notin Tracking(F) \cup {0}
  BY DEF Writes
<1> HIDE DEF L, L2
<1>3. /\ u + 1 \in 1 .. L2
      /\ \A i \in 1 .. L2 : i \in 1 .. L \/ i = u + 1
      /\ \A i \in 1 .. L2 : i \in u + 2 .. L2 => i \in u + 1 .. L /\ i \in 1 .. L
      /\ u # 0 => u \in 1 .. L
      /\ u \in Nat
  BY <1>2
<1>4. ASSUME u # 0
      PROVE  /\ FormedBlock(s, F, open2[u].block)
             /\ open2[u].block.prev = open[u].block.prev
  <2>1. open[u].block \in Blocks(s) /\ open[u].block.prev \in DOMAIN F
    BY <1>1, <1>3, <1>4 DEF FormedBlock
  <2>2. open2[u + 1].id \in DOMAIN F /\ open2[u + 1].id \in Nat
    <3>1. open2[u + 1].id \in DOMAIN F
      BY <1>2, <1>3 DEF Distinct, L2
    <3> QED
      BY <3>1, FormedFacts
  <2>3. open2[u].block = Relinked(open[u].block, open2[u + 1].id)
    BY <1>2, <1>4
  <2> QED
    <3> DEFINE b == open[u].block
               n == open2[u + 1].id
               q == open2[u].block
    <3>1. b \in Blocks(s) /\ b.prev \in DOMAIN F /\ n \in DOMAIN F /\ n \in Nat /\ q = Relinked(b, n)
      BY <2>1, <2>2, <2>3
    <3> HIDE DEF b, n, q
    <3>2. q \in Blocks(s) /\ q.next = n /\ q.prev = b.prev
      BY <3>1, RelinkedFacts
    <3>3. FormedBlock(s, F, q) /\ q.prev = b.prev
      BY <3>1, <3>2 DEF FormedBlock
    <3> QED
      BY <3>3 DEF q, b
<1>5. \A i \in 1 .. L2 : FormedBlock(s, F, open2[i].block)
  <2> TAKE i \in 1 .. L2
  <2>1. CASE i = u + 1
    BY <1>2, <2>1
  <2>2. CASE i = u
    BY <1>2, <1>4, <2>2
  <2>3. CASE i \notin {u, u + 1}
    BY <1>1, <1>2, <1>3, <2>3 DEF FormedBlock
  <2> QED
    BY <2>1, <2>2, <2>3
<1>6. \A i \in 2 .. u + 1 : open2[i].block.prev # 0
  <2> TAKE i \in 2 .. u + 1
  <2>0. i = u + 1 \/ i = u \/ i \notin {u, u + 1}
    OBVIOUS
  <2>1. CASE i = u + 1
    BY <1>2, <2>1
  <2>2. CASE i = u
    BY <1>1, <1>2, <1>4, <2>2
  <2>3. CASE i \notin {u, u + 1}
    <3>1. i \in 2 .. u /\ i \in 1 .. L
      BY <1>2, <2>3
    <3> QED
      BY <1>1, <1>2, <2>3, <3>1
  <2> QED
    BY <2>0, <2>1, <2>2, <2>3
<1>7. \A i \in u + 2 .. L2 : /\ open2[i].block = F[open2[i].id]
                             /\ open2[i].id \notin Tracking(F)
  <2> TAKE i \in u + 2 .. L2
  <2>1. i \in 1 .. L2 /\ i \in u + 1 .. L /\ i \in 1 .. L /\ i \notin {u, u + 1}
    BY <1>2
  <2>2. F[open[i].id] = D[open[i].id]
    BY <2>1 DEF L
  <2> QED
    BY <1>1, <1>2, <2>1, <2>2
<1>8. (u + 1) + 1 = u + 2
  BY <1>2
<1> QED
  BY <1>2, <1>5, <1>6, <1>7, <1>8, Zenon DEF Open, L2

LEMMA WritesFirst ==
  ASSUME NEW s \in Setting, NEW F, Formed(s, F),
         NEW open, NEW open2, NEW t, NEW chunk, NEW rest, NEW data,
         Writes(s, F, open, open2, 0, t, chunk, data), Open(s, F, open2, 1),
         Parts(s, data, chunk, rest)
  PROVE  Rewritten(F, open2, 1, data, rest)
<1> DEFINE A == Applied(F, open2, 1)
           n == open2[1].id
           c == Firsts(open2, 1)
<1>1. /\ Distinct(F, open2) /\ 1 \in 0 .. Len(open2) /\ 1 \in 1 .. Len(open2)
      /\ FormedBlock(s, F, open2[1].block)
      /\ open2[1].block.length = Len(data) /\ open2[1].block.next = 0
      /\ Used(open2[1].block) = chunk /\ n \in DOMAIN F
  <2>1. /\ Len(open2) \in Nat /\ Len(open2) # 0
        /\ open2[0 + 1].block = t /\ t.next = 0 /\ Used(t) = chunk /\ t.length = Len(data)
        /\ FormedBlock(s, F, t) /\ Distinct(F, open2)
    BY DEF Writes
  <2>2. open2[1].block = t /\ 1 \in 1 .. Len(open2) /\ 1 \in 0 .. Len(open2)
    BY <2>1
  <2> QED
    BY <2>1, <2>2 DEF Distinct
<1>2. /\ DOMAIN A = DOMAIN F /\ A[n] = open2[1].block
  BY <1>1, DistinctApplied
<1>3. Formed(s, A)
  BY <1>1, AppliedFormed
<1>4. c = <<n>>
  BY DEF Firsts
<1> HIDE DEF A, n, c
<1>5. Linked(A, <<n>>) /\ Contents(A, <<n>>) = Used(A[n])
  BY <1>1, <1>2, <1>3, OneBlock
<1>6. Contents(A, c) \o rest = data
  BY <1>1, <1>2, <1>4, <1>5 DEF Parts
<1> QED
  BY <1>1, <1>4, <1>5, <1>6 DEF Rewritten, A, c

LEMMA WritesMore ==
  ASSUME NEW s \in Setting, NEW D, Formed(s, D), NEW F, Formed(s, F), DOMAIN D \subseteq DOMAIN F,
         NEW open, NEW open2, NEW u, u # 0, NEW t, NEW chunk, NEW data, NEW rest, NEW rest2,
         Open(s, D, open, u), Rewritten(D, open, u, data, rest),
         Writes(s, F, open, open2, u, t, chunk, data), Open(s, F, open2, u + 1),
         Parts(s, rest, chunk, rest2)
  PROVE  Rewritten(F, open2, u + 1, data, rest2)
<1> DEFINE A == Applied(D, open, u)
           A2 == Applied(F, open2, u + 1)
           c == Firsts(open, u)
           c2 == Firsts(open2, u + 1)
           n == open2[u + 1].id
           L == Len(open)
           L2 == Len(open2)
<1>1. /\ Distinct(D, open) /\ Distinct(F, open2)
      /\ \A i \in 1 .. L : FormedBlock(s, D, open[i].block)
      /\ \A i \in 1 .. L2 : FormedBlock(s, F, open2[i].block)
  BY DEF Open
<1>2. /\ L \in Nat /\ u \in 1 .. L /\ u \in 0 .. L /\ u \in Nat
      /\ L2 \in Nat /\ u + 1 \in 1 .. L2 /\ u + 1 \in 0 .. L2
      /\ \A i \in 1 .. u : i \in 1 .. L /\ i \in 1 .. u + 1 /\ i \in 1 .. L2 /\ i # u + 1
      /\ 1 \in 1 .. L /\ \A i \in 1 .. u + 1 : i \in 1 .. L2
      /\ u + 1 \in 1 .. u + 1 /\ u \in 1 .. u
  BY DEF Writes
<1>3. /\ \A i \in 1 .. L : /\ open2[i].id = open[i].id
                           /\ i \notin {u, u + 1} => open2[i].block = open[i].block
      /\ open2[u].block = Relinked(open[u].block, n)
      /\ open2[u + 1].block = t /\ t.next = 0 /\ Used(t) = chunk
      /\ \A i \in 1 .. L2 : open2[i].id \notin Tracking(F) \cup {0}
  BY DEF Writes
<1>4. /\ DOMAIN A = DOMAIN D /\ \A i \in 1 .. u : A[open[i].id] = open[i].block
  BY <1>1, <1>2, DistinctApplied
<1>5. /\ DOMAIN A2 = DOMAIN F /\ \A i \in 1 .. u + 1 : A2[open2[i].id] = open2[i].block
  BY <1>1, <1>2, DistinctApplied
<1>6. Formed(s, A) /\ Formed(s, A2)
  BY <1>1, <1>2, AppliedFormed
<1>7. /\ Linked(A, c) /\ Contents(A, c) \o rest = data /\ open[1].block.length = Len(data)
  BY DEF Rewritten
<1>8. /\ Len(c) = u /\ (\A i \in 1 .. u : c[i] = open[i].id)
      /\ Range(c) = {open[i].id : i \in 1 .. u} /\ DOMAIN c = 1 .. u
  BY <1>2, FirstsFacts
<1>9. c2 = Append(c, n)
  <2>1. /\ Len(c2) = u + 1 /\ (\A i \in 1 .. u + 1 : c2[i] = open2[i].id)
    BY <1>2, FirstsFacts
  <2>2. c2 = [i \in 1 .. u + 1 |-> open2[i].id]
    BY DEF Firsts
  <2>3. Append(c, n) = [i \in 1 .. u + 1 |-> IF i = u + 1 THEN n ELSE c[i]]
    <3>1. c = [i \in 1 .. u |-> open[i].id]
      BY DEF Firsts
    <3> HIDE DEF c
    <3> QED
      BY <1>8, <1>2, <3>1
  <2> HIDE DEF c, c2
  <2>4. \A i \in 1 .. u + 1 : open2[i].id = (IF i = u + 1 THEN n ELSE c[i])
    <3> TAKE i \in 1 .. u + 1
    <3>1. i = u + 1 \/ i \in 1 .. u
      BY <1>2
    <3>2. ASSUME i \in 1 .. u PROVE open2[i].id = c[i] /\ i # u + 1
      BY <1>2, <1>3, <1>8, <3>2
    <3> QED
      BY <3>1, <3>2
  <2> QED
    BY <2>2, <2>3, <2>4, Zenon
<1> HIDE DEF A, A2, c, c2, n, L, L2
<1>10. n \in DOMAIN F /\ n # 0 /\ A2[n] = t /\ n \notin Range(c)
  <2>1. n \in DOMAIN F /\ n # 0
    BY <1>1, <1>2, <1>3 DEF Distinct, n, L2
  <2>2. A2[n] = t
    BY <1>2, <1>3, <1>5 DEF n
  <2>3. \A i \in 1 .. u : open[i].id # n
    <3> TAKE i \in 1 .. u
    <3>1. i \in 1 .. L2 /\ u + 1 \in 1 .. L2 /\ i # u + 1 /\ open2[i].id = open[i].id
      BY <1>2, <1>3
    <3> QED
      BY <1>1, <3>1 DEF Distinct, n, L2
  <2> QED
    BY <1>8, <2>1, <2>2, <2>3
<1>11. \A i \in 1 .. u : /\ Used(A2[c[i]]) = Used(A[c[i]])
                         /\ i # u => A2[c[i]] = A[c[i]]
  <2> TAKE i \in 1 .. u
  <2>1. i \in 1 .. L /\ i \in 1 .. u + 1 /\ i # u + 1 /\ c[i] = open[i].id
    BY <1>2, <1>8
  <2>2. A2[c[i]] = open2[i].block /\ A[c[i]] = open[i].block
    BY <1>3, <1>4, <1>5, <2>1
  <2>3. CASE i # u
    BY <1>3, <2>1, <2>2, <2>3
  <2>4. CASE i = u
    <3> DEFINE b == open[u].block
               q == open2[u].block
    <3>1. b \in Blocks(s) /\ q = Relinked(b, n)
      BY <1>1, <1>2, <1>3 DEF FormedBlock, L
    <3>2. n \in Nat
      BY <1>10, FormedFacts
    <3> HIDE DEF b, q
    <3>3. Used(q) = Used(b)
      BY <3>1, <3>2, RelinkedFacts
    <3> QED
      BY <2>2, <2>4, <3>3 DEF b, q
  <2> QED
    BY <2>3, <2>4
<1>12. A2[c[u]].next = n
  <2>1. A2[c[u]] = Relinked(open[u].block, n)
    BY <1>2, <1>3, <1>5, <1>8
  <2>2. open[u].block \in Blocks(s) /\ n \in Nat
    BY <1>1, <1>2, <1>10, FormedFacts DEF FormedBlock, L
  <2> QED
    BY <2>1, <2>2, RelinkedFacts
<1>13. Lengthening(A, c, A2, n)
  <2>1. \A m \in Range(c) : m # c[u] => A2[m].next = A[m].next
    BY <1>8, <1>11
  <2> QED
    BY <1>3, <1>4, <1>5, <1>8, <1>10, <1>12, <2>1 DEF Lengthening
<1>14. Linked(A2, c2)
  BY <1>7, <1>9, <1>13, LinkedLengthened
<1>15. Contents(A2, c2) \o rest2 = data
  <2>1. c \in Seq(DOMAIN A) /\ Range(c) \subseteq DOMAIN A
    BY <1>7, MembersOfLinked DEF Linked
  <2>2. Filled(A, c, Cells(s)) /\ Filled(A2, c, Cells(s))
    BY <1>4, <1>5, <1>6, <2>1, FormedFacts DEF Filled
  <2>3. Contents(A, c) \in Seq(Cells(s))
    BY <2>1, <2>2, ContentsType
  <2>4. Contents(A2, c) = Contents(A, c)
    <3>1. \A i \in 1 .. Len(c) : Used(A2[c[i]]) = Used(A[c[i]])
      BY <1>8, <1>11
    <3> QED
      BY <3>1, ContentsSame
  <2>5. Contents(A2, c2) = Contents(A2, c) \o Used(A2[n])
    <3>1. c \in Seq(DOMAIN A2) /\ n \in DOMAIN A2 /\ Used(A2[n]) \in Seq(Cells(s))
      <4>1. c \in Seq(DOMAIN D) /\ DOMAIN A2 = DOMAIN F /\ DOMAIN D \subseteq DOMAIN F
        BY <1>4, <1>5, <2>1
      <4>2. n \in DOMAIN A2
        BY <1>5, <1>10
      <4>3. Used(A2[n]) \in Seq(Cells(s))
        BY <1>6, <4>2, FormedFacts
      <4>4. c \in Seq(DOMAIN F)
        BY <4>1
      <4> QED
        BY <4>1, <4>2, <4>3, <4>4
    <3> QED
      BY <1>9, <2>2, <3>1, ContentsAppend
  <2>6. Contents(A2, c2) = Contents(A, c) \o chunk
    BY <1>3, <1>10, <2>4, <2>5
  <2> DEFINE p == Contents(A, c)
  <2>7. p \in Seq(Cells(s)) /\ p \o rest = data /\ Contents(A2, c2) = p \o chunk
    BY <1>7, <2>3, <2>6
  <2> HIDE DEF p
  <2>8. Behind(s, p, rest, chunk, rest2)
    BY <2>7, PartsBehind, Zenon
  <2> QED
    BY <2>7, <2>8 DEF Behind
<1>16. open2[1].block.length = Len(data)
  <2>1. CASE u = 1
    <3> DEFINE b == open[1].block
               q == open2[1].block
    <3>1. b \in Blocks(s) /\ q = Relinked(b, n) /\ b.length = Len(data)
      BY <1>1, <1>2, <1>3, <1>7, <2>1 DEF FormedBlock, L
    <3>2. n \in Nat
      BY <1>10, FormedFacts
    <3> HIDE DEF b, q
    <3>3. q.length = b.length
      BY <3>1, <3>2, RelinkedFacts
    <3> QED
      BY <3>1, <3>3 DEF q
  <2>2. CASE u # 1
    <3>1. 1 \in 1 .. L /\ 1 \notin {u, u + 1}
      BY <1>2, <2>2
    <3> QED
      BY <1>3, <1>7, <3>1
  <2> QED
    BY <2>1, <2>2
<1> QED
  BY <1>14, <1>15, <1>16 DEF Rewritten, A2, c2

(* Update is the one "o" says in the stream "D", and has more to write.    *)
UpdatingAs(s, D, R, o, all, u) ==
  /\ Held(D, R, Kept1(o.open, u, u), all)
  /\ Open(s, D, o.open, u)
  /\ IF u = 0 THEN o.rest = o.data ELSE Rewritten(D, o.open, u, o.data, o.rest)
  /\ o.data # NoData /\ o.open # <<>> /\ o.open[1].id = o.record
  /\ ~ o.open[1].block.deleted /\ o.open[1].block.prev = 0
  /\ u \in 0 .. Len(o.open) /\ Len(o.open) \in Nat \ {0}
  /\ \A i \in 1 .. Len(o.open) : /\ o.open[i].id \in DOMAIN D \ Tracking(D)
                                 /\ o.open[i].id \in Kept1(o.open, u, u)
  /\ Kept1(o.open, u, u) = {o.open[i].id : i \in 1 .. Len(o.open)}

LEMMA EveryBlock ==
  ASSUME NEW open, NEW u \in Nat, Len(open) \in Nat
  PROVE  Kept1(open, u, u) = {open[i].id : i \in 1 .. Len(open)}
<1>1. {i \in 1 .. Len(open) : i <= u \/ i > u} = 1 .. Len(open)
  OBVIOUS
<1> QED
  BY <1>1 DEF Kept1

LEMMA UpdateUnfolds ==
  ASSUME NEW s \in Setting, NEW D, NEW o, NEW st, NEW g, NEW all,
         Consistent(s, D, o, st, g, all), o.name = "update", o.rest # <<>>
  PROVE  /\ UpdatingAs(s, D, Others(st, o.record), o, all, o.used)
         /\ Kept(s, D, Others(st, o.record), g \ {o.record}) /\ Formed(s, D)
         /\ DOMAIN st \cup g \subseteq DOMAIN D \ {0} /\ o.record # 0 /\ o \in Operation(s, D)
<1> DEFINE R == Others(st, o.record)
           u == o.used
           L == Len(o.open)
<1>1. /\ Kept(s, D, R, g \ {o.record}) /\ Formed(s, D)
      /\ DOMAIN st \cup g \subseteq DOMAIN D \ {0} /\ o \in Operation(s, D)
      /\ InOperation(s, D, R, o, all)
  BY DEF Consistent, Kept
<1>2. Updating(s, D, R, o, all) /\ o.record # 0
  BY <1>1 DEF InOperation
<1>3. PICK m \in 0 .. u : UpdatingTo(s, D, R, o, all, m)
  BY <1>2 DEF Updating
<1>4. m = u
  BY <1>3 DEF UpdatingTo
<1>5. /\ Held(D, R, Kept1(o.open, u, u), all) /\ Open(s, D, o.open, u)
      /\ IF u = 0 THEN o.rest = o.data ELSE Rewritten(D, o.open, u, o.data, o.rest)
  BY <1>3, <1>4 DEF UpdatingTo
<1>6. /\ o.data # NoData /\ o.open # <<>> /\ o.open[1].id = o.record
      /\ ~ o.open[1].block.deleted /\ o.open[1].block.prev = 0
      /\ u \in 0 .. L /\ L \in Nat \ {0} /\ u \in Nat
  <2>1. L \in Nat
    BY <1>5 DEF Open, Distinct
  <2>2. o.open \in Seq([id : DOMAIN D, block : Blocks(s)])
    BY <1>1 DEF Operation
  <2> QED
    BY <1>2, <2>1, <2>2 DEF Updating
<1>7. Kept1(o.open, u, u) = {o.open[i].id : i \in 1 .. L}
  BY <1>6, EveryBlock
<1>8. \A i \in 1 .. L : /\ o.open[i].id \in DOMAIN D \ Tracking(D)
                        /\ o.open[i].id \in Kept1(o.open, u, u)
  BY <1>5, <1>7 DEF Held
<1> HIDE DEF R, u, L
<1>9. UpdatingAs(s, D, R, o, all, u)
  BY <1>5, <1>6, <1>7, <1>8 DEF UpdatingAs, L
<1> QED
  BY <1>1, <1>2, <1>9 DEF R, u

(* An iteration: the stream will be "F".                                   *)
UpdatesBlock(s, D, R, H, o, all, F, o2, t, chunk) ==
  /\ Kept(s, F, R, H)
  /\ DOMAIN D \subseteq DOMAIN F
  /\ \A i \in 1 .. Len(o.open) : i # o.used + 1 => F[o.open[i].id] = D[o.open[i].id]
  /\ o2 \in Operation(s, F) /\ o2.name = "update" /\ o2.used = o.used + 1
  /\ o2.record = o.record /\ o2.data = o.data
  /\ Len(o2.open) \in Nat /\ Held(F, R, {o2.open[i].id : i \in 1 .. Len(o2.open)}, all)
  /\ Parts(s, o.rest, chunk, o2.rest)
  /\ Writes(s, F, o.open, o2.open, o.used, t, chunk, o.data)
  /\ o.used = 0 => ~ t.deleted /\ t.prev = 0

LEMMA UpdateGoesOn ==
  ASSUME NEW s \in Setting, NEW D, NEW o, NEW st, NEW g, NEW all,
         Consistent(s, D, o, st, g, all), o.name = "update", o.rest # <<>>,
         NEW F, NEW o2, NEW t, NEW chunk,
         UpdatesBlock(s, D, Others(st, o.record), g \ {o.record}, o, all, F, o2, t, chunk)
  PROVE  Consistent(s, F, o2, st, g, all)
<1> DEFINE R == Others(st, o.record)
           H == g \ {o.record}
           u == o.used
           open == o.open
           open2 == o2.open
<1>1. /\ UpdatingAs(s, D, R, o, all, u) /\ Formed(s, D)
      /\ DOMAIN st \cup g \subseteq DOMAIN D \ {0} /\ o.record # 0
  BY UpdateUnfolds
<1>2. /\ Kept(s, F, R, H)
      /\ DOMAIN D \subseteq DOMAIN F
      /\ \A i \in 1 .. Len(open) : i # u + 1 => F[open[i].id] = D[open[i].id]
      /\ o2 \in Operation(s, F) /\ o2.name = "update" /\ o2.used = u + 1
      /\ o2.record = o.record /\ o2.data = o.data
      /\ Len(open2) \in Nat /\ Held(F, R, {open2[i].id : i \in 1 .. Len(open2)}, all)
      /\ Parts(s, o.rest, chunk, o2.rest)
      /\ Writes(s, F, open, open2, u, t, chunk, o.data)
      /\ u = 0 => ~ t.deleted /\ t.prev = 0
  BY DEF UpdatesBlock
<1>3. Formed(s, F)
  BY <1>2 DEF Kept
<1>4. /\ Open(s, D, open, u)
      /\ IF u = 0 THEN o.rest = o.data ELSE Rewritten(D, open, u, o.data, o.rest)
      /\ o.data # NoData /\ open[1].id = o.record
      /\ ~ open[1].block.deleted /\ open[1].block.prev = 0
      /\ u \in 0 .. Len(open) /\ Len(open) \in Nat \ {0} /\ u \in Nat
  BY <1>1 DEF UpdatingAs
<1> HIDE DEF R, H, u, open, open2
<1>5. Open(s, F, open2, u + 1)
  BY <1>1, <1>2, <1>3, <1>4, WritesOpen
<1>6. Rewritten(F, open2, u + 1, o.data, o2.rest)
  <2>1. CASE u = 0
    <3>1. /\ Writes(s, F, open, open2, 0, t, chunk, o.data) /\ Open(s, F, open2, 1)
          /\ Parts(s, o.data, chunk, o2.rest)
      BY <1>2, <1>4, <1>5, <2>1
    <3> QED
      BY <1>3, <2>1, <3>1, WritesFirst
  <2>2. CASE u # 0
    <3>1. Rewritten(D, open, u, o.data, o.rest)
      BY <1>4, <2>2
    <3> QED
      BY <1>1, <1>2, <1>3, <1>4, <1>5, <2>2, <3>1, WritesMore, Zenon
  <2> QED
    BY <2>1, <2>2
<1>7. Kept1(open2, u + 1, u + 1) = {open2[i].id : i \in 1 .. Len(open2)}
  BY <1>2, <1>4, EveryBlock
<1>8. UpdatingTo(s, F, R, o2, all, u + 1)
  <2>1. u + 1 # 0
    BY <1>4
  <2> QED
    BY <1>2, <1>5, <1>6, <1>7, <2>1 DEF UpdatingTo, open2
<1>9. /\ open2 # <<>> /\ open2[1].id = o.record
      /\ ~ open2[1].block.deleted /\ open2[1].block.prev = 0
      /\ u + 1 \in 0 .. Len(open2) /\ u + 1 \in 0 .. u + 1
  <2>1. /\ IF u = Len(open) THEN Len(open2) = u + 1 ELSE Len(open2) = Len(open)
        /\ \A i \in 1 .. Len(open) : /\ open2[i].id = open[i].id
                                     /\ i \notin {u, u + 1} => open2[i].block = open[i].block
        /\ u # 0 => open2[u].block = Relinked(open[u].block, open2[u + 1].id)
        /\ open2[u + 1].block = t
    BY <1>2 DEF Writes
  <2>2. u + 1 \in 0 .. Len(open2) /\ u + 1 \in 0 .. u + 1 /\ Len(open2) # 0 /\ 1 \in 1 .. Len(open)
    BY <1>4, <2>1
  <2>3. open2 # <<>>
    BY <2>2
  <2>4. ~ open2[1].block.deleted /\ open2[1].block.prev = 0
    <3>1. CASE u = 0
      BY <1>2, <2>1, <3>1
    <3>2. CASE u = 1
      <4> DEFINE b == open[1].block
                 n == open2[u + 1].id
                 q == open2[1].block
      <4>1. q = Relinked(b, n)
        BY <2>1, <3>2
      <4>2. b \in Blocks(s) /\ n \in Nat
        <5>1. b \in Blocks(s)
          BY <1>4, <2>2 DEF Open, FormedBlock
        <5>2. n \in DOMAIN F
          <6>1. u + 1 \in 1 .. Len(open2)
            BY <1>4, <2>1
          <6> QED
            BY <1>5, <6>1 DEF Open, Distinct
        <5> QED
          BY <1>3, <5>1, <5>2, FormedFacts
      <4>3. ~ b.deleted /\ b.prev = 0
        BY <1>4
      <4> HIDE DEF b, n, q
      <4>4. q.deleted = b.deleted /\ q.prev = b.prev
        BY <4>1, <4>2, RelinkedFacts
      <4> QED
        BY <4>3, <4>4 DEF q
    <3>3. CASE u \notin {0, 1}
      <4>1. 1 \notin {u, u + 1}
        BY <1>4, <3>3
      <4> QED
        BY <1>4, <2>1, <2>2, <4>1
    <3> QED
      BY <3>1, <3>2, <3>3
  <2> QED
    BY <1>4, <2>1, <2>2, <2>3, <2>4
<1>10. Updating(s, F, R, o2, all)
  BY <1>2, <1>4, <1>8, <1>9 DEF Updating, open2
<1>11. InOperation(s, F, R, o2, all)
  BY <1>1, <1>2, <1>10 DEF InOperation
<1>12. DOMAIN st \cup g \subseteq DOMAIN F \ {0}
  BY <1>1, <1>2, <1>3
<1> QED
  BY <1>2, <1>11, <1>12 DEF Consistent, R, H

-----------------------------------------------------------------------------
(* Update frees the blocks left over and writes the others.                *)

(* The first "m" blocks are still the same in the stream "F".              *)
LEMMA RewrittenStill ==
  ASSUME NEW D, NEW F, DOMAIN D \subseteq DOMAIN F, NEW open, NEW m \in 0 .. Len(open), m # 0,
         Distinct(D, open), Distinct(F, open),
         NEW data, NEW rest, Rewritten(D, open, m, data, rest)
  PROVE  Rewritten(F, open, m, data, rest)
<1> DEFINE A == Applied(D, open, m)
           A2 == Applied(F, open, m)
           c == Firsts(open, m)
<1>1. /\ Len(c) = m /\ \A i \in 1 .. m : c[i] = open[i].id
      /\ Range(c) = {open[i].id : i \in 1 .. m}
  <2>1. m \in Nat
    BY DEF Distinct
  <2> QED
    BY <2>1, FirstsFacts
<1>2. DOMAIN A = DOMAIN D /\ \A i \in 1 .. m : A[open[i].id] = open[i].block
  BY DistinctApplied
<1>3. DOMAIN A2 = DOMAIN F /\ \A i \in 1 .. m : A2[open[i].id] = open[i].block
  BY DistinctApplied
<1>4. \A i \in 1 .. m : open[i].id \in DOMAIN F
  BY DEF Distinct
<1> HIDE DEF A, A2, c
<1>5. Linked(A, c) /\ Contents(A, c) \o rest = data
  BY DEF Rewritten, A, c
<1>6. Linked(A2, c)
  <2>1. \A n \in Range(c) : n \in DOMAIN A2 /\ A2[n].next = A[n].next
    BY <1>1, <1>2, <1>3, <1>4
  <2> QED
    BY <1>5, <2>1, LinkedUnchanged
<1>7. Contents(A2, c) = Contents(A, c)
  <2>1. \A i \in 1 .. Len(c) : A2[c[i]] = A[c[i]]
    BY <1>1, <1>2, <1>3
  <2> QED
    BY <2>1, ContentsUnchanged
<1>8. Contents(A2, c) \o rest = data
  BY <1>5, <1>7
<1> QED
  BY <1>6, <1>8 DEF Rewritten, A2, c

LEMMA OneFewer ==
  ASSUME NEW D, NEW open, Distinct(D, open), NEW m \in 0 .. Len(open), NEW u \in m .. Len(open) - 1
  PROVE  /\ open[u + 1].id \in Kept1(open, m, u)
         /\ Kept1(open, m, u + 1) = Kept1(open, m, u) \ {open[u + 1].id}
<1>1. /\ Len(open) \in Nat /\ m \in Nat /\ u \in Nat /\ m <= u /\ u + 1 <= Len(open)
      /\ u + 1 \in 1 .. Len(open)
      /\ \A i, j \in 1 .. Len(open) : open[i].id = open[j].id => i = j
  BY DEF Distinct
<1> DEFINE I == {i \in 1 .. Len(open) : i <= m \/ i > u}
           J == {i \in 1 .. Len(open) : i <= m \/ i > u + 1}
<1>2. u + 1 \in I /\ J = I \ {u + 1}
  BY <1>1
<1>3. I \subseteq 1 .. Len(open)
  OBVIOUS
<1>4. Kept1(open, m, u) = {open[i].id : i \in I} /\ Kept1(open, m, u + 1) = {open[i].id : i \in J}
  BY DEF Kept1
<1> HIDE DEF I, J
<1>5. \A i \in I : open[i].id = open[u + 1].id => i = u + 1
  BY <1>1, <1>3
<1> QED
  BY <1>2, <1>4, <1>5

LEMMA UpdateFrees ==
  ASSUME NEW s \in Setting, NEW D, NEW o, NEW st, NEW g, NEW all,
         Consistent(s, D, o, st, g, all), o.name = "update", o.rest = <<>>,
         o.used < Len(o.open),
         NEW k, k = o.open[o.used + 1].id, NEW a, NEW F,
         Marking(s, D, Others(st, o.record), g \ {o.record}, k, a, F),
         NEW o2, o2 \in Operation(s, F), o2.name = "update", o2.used = o.used + 1,
         o2.record = o.record, o2.data = o.data, o2.rest = <<>>, o2.open = o.open
  PROVE  Consistent(s, F, o2, st, g, all)
<1> DEFINE R == Others(st, o.record)
           H == g \ {o.record}
           u == o.used
           open == o.open
<1>1. /\ Kept(s, D, R, H) /\ Formed(s, D)
      /\ DOMAIN st \cup g \subseteq DOMAIN D \ {0}
      /\ InOperation(s, D, R, o, all)
  BY DEF Consistent, Kept
<1>2. Updating(s, D, R, o, all) /\ o.record # 0
  BY <1>1 DEF InOperation
<1>3. /\ o.data # NoData /\ open # <<>> /\ open[1].id = o.record
      /\ ~ open[1].block.deleted /\ open[1].block.prev = 0
      /\ u \in 0 .. Len(open)
  BY <1>2 DEF Updating
<1>4. PICK m \in 0 .. u : UpdatingTo(s, D, R, o, all, m)
  BY <1>2 DEF Updating
<1>5. /\ m # 0 /\ Held(D, R, Kept1(open, m, u), all) /\ Open(s, D, open, m)
      /\ Rewritten(D, open, m, o.data, <<>>)
  BY <1>4 DEF UpdatingTo
<1> HIDE DEF R, H, u, open
<1>6. Distinct(D, open) /\ Len(open) \in Nat
  BY <1>5 DEF Open, Distinct
<1>7. /\ m \in 0 .. Len(open) /\ u \in m .. Len(open) - 1 /\ u + 1 \in 0 .. Len(open)
      /\ m \in 0 .. u + 1 /\ u + 1 \in Nat
  BY <1>3, <1>4, <1>6 DEF u, open
<1>8. k \in Kept1(open, m, u) /\ Kept1(open, m, u + 1) = Kept1(open, m, u) \ {k}
  BY <1>6, <1>7, OneFewer DEF u, open
<1> DEFINE M == Kept1(open, m, u)
<1> HIDE DEF M
<1>9. HasMarked(s, D, R, H, M, all, k, F)
  <2>1. Marking(s, D, R, H, k, a, F)
    BY DEF R, H
  <2> QED
    BY <1>1, <1>5, <1>8, <2>1, MarkingFacts DEF M
<1>10. /\ Kept(s, F, R, H) /\ Formed(s, F)
       /\ DOMAIN D \subseteq DOMAIN F
       /\ Held(F, R, M \ {k}, all)
       /\ Tracking(F) = Tracking(D) \cup (DOMAIN F \ DOMAIN D)
       /\ \A n \in DOMAIN D \ Tracking(D) : F[n] = D[n]
  BY <1>9 DEF HasMarked
<1>11. Distinct(F, open)
  BY <1>6, <1>10 DEF Distinct
<1>12. Open(s, F, open, m)
  <2>1. \A i \in 1 .. Len(open) : FormedBlock(s, F, open[i].block)
    BY <1>5, <1>10 DEF Open, FormedBlock
  <2>2. ASSUME NEW i \in m + 1 .. Len(open)
        PROVE  open[i].block = F[open[i].id] /\ open[i].id \notin Tracking(F)
    <3>1. i \in 1 .. Len(open)
      BY <1>7, <2>2
    <3>2. open[i].id \in DOMAIN D \ Tracking(D) /\ open[i].block = D[open[i].id]
      BY <1>5, <1>6, <2>2, <3>1 DEF Open, Distinct
    <3> QED
      BY <1>10, <3>2
  <2> QED
    BY <1>5, <1>11, <2>1, <2>2 DEF Open
<1>13. Rewritten(F, open, m, o.data, <<>>)
  BY <1>5, <1>6, <1>7, <1>10, <1>11, RewrittenStill
<1>14. UpdatingTo(s, F, R, o2, all, m)
  <2>1. Held(F, R, Kept1(open, m, u + 1), all)
    BY <1>8, <1>10 DEF M
  <2> QED
    BY <1>5, <1>12, <1>13, <2>1 DEF UpdatingTo, open, u
<1>15. Updating(s, F, R, o2, all)
  BY <1>3, <1>7, <1>14 DEF Updating, open, u
<1>16. InOperation(s, F, R, o2, all)
  BY <1>2, <1>15 DEF InOperation
<1>17. DOMAIN st \cup g \subseteq DOMAIN F \ {0}
  BY <1>1, <1>10
<1> QED
  BY <1>10, <1>16, <1>17 DEF Consistent, R, H

(* The blocks of the record, "M", among those that are open are to be      *)
(* written, all others are as they are in the stream.                      *)
Disposable(s, D, R, H, M, all, open) ==
  /\ Kept(s, D, R, H) /\ Held(D, R, M, all) /\ Distinct(D, open)
  /\ \A i \in 1 .. Len(open) :
       /\ FormedBlock(s, D, open[i].block) /\ SameBeyond(s, open[i].block, D[open[i].id])
       /\ open[i].block = D[open[i].id]
            \/ /\ open[i].id \in M
               /\ open[i].id \in H => open[i].block.deleted \/ open[i].block.prev # 0

(* "x" writes the first "k" of them.                                       *)
Disposing(s, D, R, H, M, all, open, k, x) ==
  /\ Pending(s, D, x, Applied(D, open, k), R, H, {})
  /\ Kept(s, Applied(D, open, k), R, H) /\ Held(Applied(D, open, k), R, M, all)

LEMMA DisposesNone ==
  ASSUME NEW s \in Setting, NEW D, NEW R, NEW H, NEW M, NEW all, NEW open,
         Disposable(s, D, R, H, M, all, open)
  PROVE  Disposing(s, D, R, H, M, all, open, 0, <<>>)
<1>1. Kept(s, D, R, H) /\ Held(D, R, M, all) /\ Formed(s, D)
  BY DEF Disposable, Kept
<1>2. Pending(s, D, <<>>, D, R, H, {})
  <2>1. Fine(s, D, R, H, {})
    BY <1>1, KeptFine
  <2> QED
    BY <2>1, PendingNone
<1>3. Applied(D, open, 0) = D
  BY <1>1, AppliedNone
<1> QED
  BY <1>1, <1>2, <1>3, Zenon DEF Disposing

LEMMA DisposesNext ==
  ASSUME NEW s \in Setting, NEW D, NEW R, NEW H, NEW M, NEW all, NEW open,
         Disposable(s, D, R, H, M, all, open),
         NEW k \in 0 .. Len(open) - 1, NEW x, Disposing(s, D, R, H, M, all, open, k, x),
         NEW y, y = x \o (IF open[k + 1].block = D[open[k + 1].id] THEN <<>>
                          ELSE Disposed(open[k + 1].id, open[k + 1].block))
  PROVE  Disposing(s, D, R, H, M, all, open, k + 1, y)
<1> DEFINE id == open[k + 1].id
           b == open[k + 1].block
           A == Applied(D, open, k)
           B == Applied(D, open, k + 1)
<1>1. /\ Kept(s, D, R, H) /\ Distinct(D, open) /\ Len(open) \in Nat
      /\ k \in Nat /\ k \in 0 .. Len(open) /\ k + 1 \in 0 .. Len(open) /\ k + 1 \in 1 .. Len(open)
      /\ \A i \in 1 .. k : i \in 1 .. k + 1 /\ i # k + 1 /\ i \in 1 .. Len(open)
      /\ k + 1 \in 1 .. k + 1
  BY DEF Disposable, Distinct
<1>2. Pending(s, D, x, A, R, H, {}) /\ Kept(s, A, R, H) /\ Held(A, R, M, all)
  BY DEF Disposing
<1>3. /\ FormedBlock(s, D, b) /\ id \in DOMAIN D /\ SameBeyond(s, b, D[id])
      /\ b = D[id] \/ (id \in M /\ (id \in H => b.deleted \/ b.prev # 0))
  BY <1>1 DEF Disposable, Distinct
<1>4. \A i \in 1 .. k : open[i].id # id
  BY <1>1 DEF Distinct
<1>5. DOMAIN A = DOMAIN D /\ FunctionOn(DOMAIN D, A) /\ A[id] = D[id]
  BY <1>1, <1>3, <1>4, DistinctApplied
<1>6. FunctionOn(DOMAIN D, B) /\ Changed(A, B, id, b)
  BY <1>1, AppliedNext
<1>7. CASE b = D[id]
  <2>1. y = x
    <3>1. x \in Seq(WriteTo(s, D))
      BY <1>2, PendingFacts
    <3> QED
      BY <1>7, <3>1
  <2> HIDE DEF A, B, id, b
  <2>2. \A m \in DOMAIN D : B[m] = A[m]
    BY <1>5, <1>6, <1>7 DEF Changed
  <2>3. B = A
    BY <1>5, <1>6, <2>2, SameFunction
  <2> QED
    BY <1>2, <2>1, <2>3 DEF Disposing, A, B
<1>8. CASE b # D[id]
  <2>1. y = x \o Disposed(id, b)
    BY <1>8
  <2> HIDE DEF A, B, id, b
  <2> DEFINE E == Put(A, id, b)
  <2>2. FormedBlock(s, A, b) /\ b \in Blocks(s) /\ id \in DOMAIN A /\ SameBeyond(s, b, A[id])
    BY <1>3, <1>5 DEF FormedBlock
  <2>3. Kept(s, E, R, H) /\ Held(E, R, M, all)
    BY <1>2, <1>3, <1>8, <2>2, HeldWritten
  <2>4. FunctionOn(DOMAIN D, E) /\ E[id] = b /\ \A m \in DOMAIN D : m # id => E[m] = A[m]
    BY <1>5, <2>2, PutFacts
  <2>5. Pending(s, D, x \o Disposed(id, b), E, R, H, {})
    <3>1. Fine(s, E, R, H, {})
      BY <2>3, KeptFine
    <3> QED
      BY <1>2, <2>2, <3>1, PendingSector
  <2> HIDE DEF E
  <2>6. B = E
    <3>1. \A m \in DOMAIN D : B[m] = E[m]
      BY <1>5, <1>6, <2>4 DEF Changed
    <3> QED
      BY <1>6, <2>4, <3>1, SameFunction
  <2> QED
    BY <2>1, <2>3, <2>5, <2>6 DEF Disposing, B
<1> QED
  BY <1>7, <1>8

(* What UpdateDispose writes.                                              *)
Dirty(D, open) ==
  [i \in 1 .. Len(open) |->
     IF open[i].block = D[open[i].id] THEN <<>> ELSE Disposed(open[i].id, open[i].block)]

LEMMA DisposesAll ==
  ASSUME NEW s \in Setting, NEW D, NEW R, NEW H, NEW M, NEW all, NEW open, Len(open) # 0,
         Disposable(s, D, R, H, M, all, open)
  PROVE  Disposing(s, D, R, H, M, all, open, Len(open), FlattenSeq(Dirty(D, open)))
<1> DEFINE C == WriteTo(s, D)
           ss == Dirty(D, open)
           L == Len(open)
<1>1. /\ Distinct(D, open) /\ L \in Nat \ {0}
      /\ \A i \in 1 .. L : open[i].id \in DOMAIN D /\ open[i].block \in Blocks(s)
  BY DEF Disposable, Distinct, FormedBlock
<1>2. /\ Len(ss) = L /\ ss # <<>>
      /\ \A i \in 1 .. L : ss[i] = IF open[i].block = D[open[i].id] THEN <<>>
                                   ELSE Disposed(open[i].id, open[i].block)
  BY <1>1 DEF Dirty
<1>3. ss \in Seq(Seq(C))
  <2>1. \A i \in 1 .. L : ss[i] \in Seq(C)
    <3> TAKE i \in 1 .. L
    <3>1. Disposed(open[i].id, open[i].block) \in Seq(C)
      <4>1. [id |-> open[i].id, block |-> open[i].block, part |-> "sector"] \in C
        BY <1>1 DEF WriteTo
      <4> HIDE DEF C
      <4> QED
        BY <4>1 DEF Disposed
    <3>2. <<>> \in Seq(C)
      OBVIOUS
    <3> QED
      BY <1>2, <3>1, <3>2
  <2>2. ss = [i \in 1 .. L |-> ss[i]]
    BY DEF Dirty
  <2> HIDE DEF ss, C
  <2> QED
    BY <1>1, <2>1, <2>2
<1> HIDE DEF C, ss, L
<1>4. PICK f : Unfolded(C, ss, f)
  BY <1>2, <1>3, FlattenUnfolds
<1>5. /\ f \in [1 .. L -> Seq(C)] /\ FlattenSeq(ss) = f[L] /\ f[1] = ss[1]
      /\ \A i \in 2 .. L : f[i] = f[i - 1] \o ss[i]
  BY <1>2, <1>4 DEF Unfolded
<1> DEFINE x(k) == IF k = 0 THEN <<>> ELSE f[k]
           T == {k \in 0 .. L : Disposing(s, D, R, H, M, all, open, k, x(k))}
<1>6. 0 \in T
  <2>1. Disposing(s, D, R, H, M, all, open, 0, <<>>)
    BY DisposesNone
  <2> QED
    BY <1>1, <2>1
<1>7. ASSUME NEW k \in 0 .. L - 1, k \in T PROVE k + 1 \in T
  <2>1. x(k + 1) = x(k) \o ss[k + 1]
    <3>1. CASE k = 0
      <4>1. ss[1] \in Seq(C) /\ k + 1 = 1
        BY <1>1, <1>5, <3>1
      <4>2. <<>> \o ss[1] = ss[1]
        BY <4>1
      <4> QED
        BY <1>5, <3>1, <4>1, <4>2
    <3>2. CASE k # 0
      <4>1. k + 1 \in 2 .. L /\ k + 1 - 1 = k /\ k + 1 # 0
        BY <1>1, <3>2
      <4> DEFINE j == k + 1
      <4>2. \A i \in 2 .. L : f[i] = f[i - 1] \o ss[i]
        BY <1>5
      <4>3. j \in 2 .. L /\ j - 1 = k
        BY <4>1
      <4> HIDE DEF j
      <4>4. f[j] = f[k] \o ss[j]
        BY <4>2, <4>3
      <4> QED
        BY <3>2, <4>1, <4>4 DEF j
    <3> QED
      BY <3>1, <3>2
  <2>2. ss[k + 1] = IF open[k + 1].block = D[open[k + 1].id] THEN <<>>
                    ELSE Disposed(open[k + 1].id, open[k + 1].block)
    <3>1. k + 1 \in 1 .. L
      BY <1>1
    <3> QED
      BY <1>2, <3>1
  <2>3. Disposing(s, D, R, H, M, all, open, k, x(k)) /\ k \in 0 .. Len(open) - 1
    BY <1>7 DEF L
  <2>4. k + 1 \in 0 .. L
    BY <1>1
  <2> DEFINE xk == x(k)
             y == x(k + 1)
  <2>5. y = xk \o (IF open[k + 1].block = D[open[k + 1].id] THEN <<>>
                   ELSE Disposed(open[k + 1].id, open[k + 1].block))
    BY <2>1, <2>2
  <2>6. Disposing(s, D, R, H, M, all, open, k, xk)
    BY <2>3
  <2> HIDE DEF xk, y, x
  <2>7. Disposing(s, D, R, H, M, all, open, k + 1, y)
    BY <2>3, <2>5, <2>6, DisposesNext
  <2> QED
    BY <2>4, <2>7 DEF y
<1>8. L \in T
  <2> HIDE DEF T
  <2>1. \A k \in 0 .. L - 1 : k \in T => k + 1 \in T
    BY <1>7
  <2>2. \A k \in 0 .. L : k \in T
    BY <1>1, <1>6, <2>1, Upward
  <2> QED
    BY <1>1, <2>2
<1>9. x(L) = FlattenSeq(ss)
  BY <1>1, <1>5
<1> QED
  BY <1>8, <1>9 DEF L, ss

LEMMA UpdateEnds ==
  ASSUME NEW s \in Setting, NEW D, NEW o, NEW st, NEW g, NEW all,
         Consistent(s, D, o, st, g, all), Settled(s, D, o.open), o.name = "update", o.rest = <<>>,
         o.used = Len(o.open),
         NEW o2, o2 \in Operation(s, D), o2.name = "return", o2.record = o.record, o2.data = o.data
  PROVE  /\ Consistent(s, Applied(D, o.open, Len(o.open)), o2, st, g, all)
         /\ Pending(s, D, FlattenSeq(Dirty(D, o.open)), Applied(D, o.open, Len(o.open)),
                    Others(st, o.record), g \ {o.record}, {})
<1> DEFINE R == Others(st, o.record)
           H == g \ {o.record}
           open == o.open
           L == Len(open)
           x == FlattenSeq(Dirty(D, open))
           E == Applied(D, open, L)
<1>1. /\ Kept(s, D, R, H) /\ Formed(s, D)
      /\ DOMAIN st \cup g \subseteq DOMAIN D \ {0}
      /\ InOperation(s, D, R, o, all)
  BY DEF Consistent, Kept
<1>2. Updating(s, D, R, o, all) /\ o.record # 0
  BY <1>1 DEF InOperation
<1>3. /\ o.data # NoData /\ open # <<>> /\ open[1].id = o.record
      /\ ~ open[1].block.deleted /\ open[1].block.prev = 0
  BY <1>2 DEF Updating
<1>4. PICK m \in 0 .. L : UpdatingTo(s, D, R, o, all, m)
  BY <1>2 DEF Updating
<1>5. /\ m # 0 /\ Held(D, R, Kept1(open, m, L), all) /\ Open(s, D, open, m)
      /\ Rewritten(D, open, m, o.data, <<>>)
  BY <1>4 DEF UpdatingTo
<1>6. o.record \notin H
  OBVIOUS
<1> HIDE DEF R, H, open, x, L
<1>7. /\ Distinct(D, open) /\ L \in Nat /\ m \in 1 .. L /\ m \in Nat /\ L # 0
      /\ \A i \in 1 .. m : i \in 1 .. L
      /\ L \in 0 .. L /\ 1 \in 1 .. m
      /\ \A i \in 1 .. L : FormedBlock(s, D, open[i].block)
      /\ \A i \in 2 .. m : open[i].block.prev # 0
      /\ \A i \in m + 1 .. L : open[i].block = D[open[i].id]
  <2>1. L \in Nat
    BY <1>5 DEF Open, Distinct, L
  <2>2. m \in 1 .. L /\ m \in Nat /\ L # 0 /\ (\A i \in 1 .. m : i \in 1 .. L)
        /\ L \in 0 .. L /\ 1 \in 1 .. m
    BY <1>4, <1>5, <2>1
  <2> QED
    BY <1>5, <2>1, <2>2 DEF Open, L
<1> DEFINE M == Kept1(open, m, L)
           A == Applied(D, open, m)
           c == Firsts(open, m)
<1>8. M = {open[i].id : i \in 1 .. m}
  <2>1. {i \in 1 .. L : i <= m \/ i > L} = 1 .. m
    BY <1>7
  <2> QED
    BY <2>1 DEF Kept1, L
<1> HIDE DEF M
<1>9. Disposable(s, D, R, H, M, all, open)
  <2>s. \A i \in 1 .. L : SameBeyond(s, open[i].block, D[open[i].id])
    BY DEF Settled, open, L
  <2> SUFFICES ASSUME NEW i \in 1 .. L
               PROVE  \/ open[i].block = D[open[i].id]
                      \/ /\ open[i].id \in M
                         /\ open[i].id \in H => open[i].block.deleted \/ open[i].block.prev # 0
    BY <1>1, <1>5, <1>7, <2>s DEF Disposable, M, L
  <2>1. i = 1 \/ i \in 2 .. m \/ i \in m + 1 .. L
    BY <1>7
  <2>2. CASE i = 1
    BY <1>3, <1>6, <1>7, <1>8, <2>2
  <2>3. CASE i \in 2 .. m
    <3>1. i \in 1 .. m
      BY <1>7, <2>3
    <3> QED
      BY <1>7, <1>8, <2>3, <3>1
  <2>4. CASE i \in m + 1 .. L
    BY <1>7, <2>4
  <2> QED
    BY <2>1, <2>2, <2>3, <2>4
<1>10. Pending(s, D, x, E, R, H, {}) /\ Kept(s, E, R, H) /\ Held(E, R, M, all)
  <2>1. Disposing(s, D, R, H, M, all, open, L, x)
    BY <1>7, <1>9, DisposesAll DEF L, x
  <2> QED
    BY <2>1 DEF Disposing
<1>11. Formed(s, E)
  BY <1>10 DEF Kept
<1>12. /\ DOMAIN E = DOMAIN D /\ \A i \in 1 .. L : E[open[i].id] = open[i].block
  BY <1>7, DistinctApplied DEF L
<1>13. /\ DOMAIN A = DOMAIN D /\ \A i \in 1 .. m : A[open[i].id] = open[i].block
  <2>1. m \in 0 .. Len(open)
    BY <1>7 DEF L
  <2> QED
    BY <1>7, <2>1, DistinctApplied
<1>14. /\ Len(c) = m /\ (\A i \in 1 .. m : c[i] = open[i].id) /\ Range(c) = M
  BY <1>7, <1>8, FirstsFacts
<1>15. Linked(A, c) /\ Contents(A, c) \o <<>> = o.data /\ open[1].block.length = Len(o.data)
  BY <1>5 DEF Rewritten
<1> HIDE DEF A, c, E
<1>16. \A i \in 1 .. m : E[c[i]] = A[c[i]]
  BY <1>7, <1>12, <1>13, <1>14
<1>17. Linked(E, c)
  <2>1. \A n \in Range(c) : n \in DOMAIN E /\ E[n].next = A[n].next
    <3>1. Range(c) \subseteq DOMAIN A
      BY <1>15, MembersOfLinked
    <3> QED
      BY <1>8, <1>12, <1>13, <1>14, <1>16, <3>1
  <2> QED
    BY <1>15, <2>1, LinkedUnchanged
<1>18. Contents(E, c) = o.data
  <2>1. Contents(E, c) = Contents(A, c)
    BY <1>14, <1>16, ContentsUnchanged
  <2>2. Contents(E, c) \in Seq(Cells(s))
    <3>1. c \in Seq(DOMAIN E) /\ Range(c) \subseteq DOMAIN E
      BY <1>17, MembersOfLinked DEF Linked
    <3>2. Filled(E, c, Cells(s))
      BY <1>11, <3>1, FormedFacts DEF Filled
    <3> QED
      BY <3>1, <3>2, ContentsType
  <2> QED
    BY <1>15, <2>1, <2>2
<1>19. c[1] = o.record
  BY <1>3, <1>7, <1>14 DEF open
<1>20. o.record \in DOMAIN E /\ Chain(E, o.record) = c /\ Chained(E, o.record)
  <2>1. Sound(E)
    BY <1>11, FormedFacts
  <2> QED
    BY <1>17, <1>19, <2>1, LinkedIsChained
<1>21. Members(E, o.record) = M
  BY <1>14, <1>20 DEF Members
<1>22. E[o.record] = open[1].block
  BY <1>3, <1>7, <1>12
<1>23. Lookup(E, o.record) = o.data
  BY <1>3, <1>15, <1>18, <1>20, <1>22, Found
<1>24. Returning(E, R, o2, all)
  BY <1>3, <1>10, <1>20, <1>21, <1>23 DEF Returning
<1>25. InOperation(s, E, R, o2, all)
  BY <1>2, <1>24 DEF InOperation
<1>26. o2 \in Operation(s, E) /\ DOMAIN st \cup g \subseteq DOMAIN E \ {0}
  BY <1>1, <1>12 DEF Operation
<1>27. Consistent(s, E, o2, st, g, all)
  BY <1>10, <1>25, <1>26 DEF Consistent, R, H
<1> QED
  BY <1>10, <1>27 DEF x, open, E, R, H, L

-----------------------------------------------------------------------------
(* The end of an operation, and the end of the process.                    *)

LEMMA Idling ==
  ASSUME NEW s \in Setting, NEW D, NEW st, NEW g, NEW all,
         Kept(s, D, st, g), Held(D, st, {}, all), FunctionOn(DOMAIN st, st),
         DOMAIN st \cup g \subseteq DOMAIN D \ {0}
  PROVE  Consistent(s, D, Idle, st, g, all)
<1>1. Idle.record = 0 /\ Idle.name = "idle"
  BY DEF Idle
<1>2. Others(st, 0) = st /\ g \ {0} = g
  BY OthersFacts
<1>3. Idle \in Operation(s, D)
  BY FormedFacts DEF Idle, Operation, Kept
<1>4. InOperation(s, D, st, Idle, all)
  BY <1>1 DEF InOperation
<1> QED
  BY <1>1, <1>2, <1>3, <1>4 DEF Consistent

LEMMA ReturnsGone ==
  ASSUME NEW s \in Setting, NEW D, NEW o, NEW st, NEW g, NEW all,
         Consistent(s, D, o, st, g, all), o.name = "return", o.data = NoData
  PROVE  Consistent(s, D, Idle, Others(st, o.record), g \cup {o.record}, all)
<1> DEFINE R == Others(st, o.record)
           H == g \ {o.record}
           G == g \cup {o.record}
<1>1. /\ Kept(s, D, R, H) /\ Formed(s, D)
      /\ DOMAIN st \cup g \subseteq DOMAIN D \ {0}
      /\ InOperation(s, D, R, o, all)
  BY DEF Consistent, Kept
<1>2. o.record \in Free(D) /\ D[o.record].deleted /\ Held(D, R, {}, all)
  BY <1>1 DEF InOperation, Returning
<1>3. DOMAIN R = DOMAIN st \ {o.record} /\ FunctionOn(DOMAIN R, R)
  BY OthersFacts DEF Others, FunctionOn
<1> HIDE DEF R
<1>4. o.record \in DOMAIN D \ Tracking(D) /\ o.record # 0
  BY <1>1, <1>2, FreeListFacts DEF Kept
<1>5. Left(D, G)
  BY <1>1, <1>2, <1>4 DEF Left, Kept
<1>6. Kept(s, D, R, G)
  BY <1>1, <1>5 DEF Kept
<1>7. DOMAIN R \cup G \subseteq DOMAIN D \ {0}
  BY <1>1, <1>3, <1>4
<1> HIDE DEF G
<1>8. Consistent(s, D, Idle, R, G, all)
  BY <1>2, <1>3, <1>6, <1>7, Idling
<1> QED
  BY <1>8 DEF R, G

LEMMA ReturnsStored ==
  ASSUME NEW s \in Setting, NEW D, NEW o, NEW st, NEW g, NEW all,
         Consistent(s, D, o, st, g, all), o.name = "return", o.data # NoData,
         NEW st2, FunctionOn(DOMAIN st2, st2), DOMAIN st2 = DOMAIN st \cup {o.record},
         st2[o.record] = o.data, \A id \in DOMAIN st : id # o.record => st2[id] = st[id]
  PROVE  Consistent(s, D, Idle, st2, g \ {o.record}, all)
<1> DEFINE R == Others(st, o.record)
           H == g \ {o.record}
<1>1. /\ Kept(s, D, R, H) /\ Formed(s, D)
      /\ DOMAIN st \cup g \subseteq DOMAIN D \ {0}
      /\ InOperation(s, D, R, o, all)
  BY DEF Consistent, Kept
<1>2. /\ Chained(D, o.record) /\ Lookup(D, o.record) = o.data
      /\ Held(D, R, Members(D, o.record), all) /\ o.record # 0
  BY <1>1 DEF InOperation, Returning
<1>3. DOMAIN R = DOMAIN st \ {o.record} /\ \A id \in DOMAIN R : R[id] = st[id]
  BY OthersFacts
<1> HIDE DEF R
<1>4. /\ DOMAIN st2 = DOMAIN R \cup {o.record} /\ o.record \notin DOMAIN R
      /\ (\A id \in DOMAIN R : st2[id] = R[id]) /\ st2[o.record] = Lookup(D, o.record)
  BY <1>2, <1>3
<1>5. Kept(s, D, st2, H) /\ Held(D, st2, {}, all)
  BY <1>1, <1>2, <1>4, KeptMore
<1>6. DOMAIN st2 \cup H \subseteq DOMAIN D \ {0}
  BY <1>1, <1>2 DEF Chained
<1> QED
  BY <1>5, <1>6, Idling

(* Whatever had been written by then, the records nobody worked on are     *)
(* there, and what the operation held belongs to nobody.                   *)
LEMMA Crashes ==
  ASSUME NEW s \in Setting, NEW D, NEW r, NEW st, NEW g,
         Kept(s, D, Others(st, r), g \ {r}), DOMAIN st \cup g \subseteq DOMAIN D \ {0},
         NEW none, ~ none
  PROVE  Consistent(s, D, Idle, Others(st, r), g \ {r}, none)
<1> DEFINE R == Others(st, r)
           H == g \ {r}
<1>1. DOMAIN R = DOMAIN st \ {r} /\ FunctionOn(DOMAIN R, R)
  BY OthersFacts DEF Others, FunctionOn
<1> HIDE DEF R
<1>2. Held(D, R, {}, none)
  BY DEF Held
<1>3. DOMAIN R \cup H \subseteq DOMAIN D \ {0} /\ Kept(s, D, R, H)
  BY <1>1 DEF R
<1>4. Consistent(s, D, Idle, R, H, none)
  BY <1>1, <1>2, <1>3, Idling
<1> QED
  BY <1>4 DEF R

-----------------------------------------------------------------------------
(* The stream when nothing has been stored yet.                            *)

LEMMA FirstBlock ==
  ASSUME setting \in Setting, NEW D, D = Extend(<<>>), NEW all
  PROVE  /\ Formed(setting, D) /\ Kept(setting, D, <<>>, {}) /\ Held(D, <<>>, {}, all)
         /\ Chain(D, 0) = <<0>> /\ D[0].size = 0
         /\ AllocateBlock(<<>>) = AllocateBlock(D)
<1> DEFINE none == <<>>
<1>1. Size(none) = 0 /\ DOMAIN none = {} /\ DOMAIN none = 0 .. Size(none) - 1
  BY FS_EmptySet DEF Size
<1>e. none = <<>>
  OBVIOUS
<1> HIDE DEF none
<1>2. /\ Formed(setting, Extend(none)) /\ Size(Extend(none)) = Size(none) + 1
      /\ DOMAIN Extend(none) = DOMAIN none \cup {Size(none)}
      /\ Extend(none)[Size(none)] = Fresh
  <2>1. \A id \in DOMAIN none : FormedBlock(setting, none, none[id])
    BY <1>1
  <2>2. Size(none) \in Nat
    BY <1>1
  <2> QED
    BY <1>1, <2>1, <2>2, ExtendFacts
<1>3. Formed(setting, D) /\ DOMAIN D = {0} /\ D[0] = Fresh /\ Size(D) = 1
  BY <1>1, <1>2, <1>e
<1>4. /\ D[0].next = 0 /\ D[0].size = 0 /\ ~ D[0].deleted
  BY <1>3, FreshFacts
<1>5. Chained(D, 0) /\ Chain(D, 0) = <<0>> /\ Tracking(D) = {0}
  BY <1>3, <1>4, FormedFacts, ChainOfOne DEF Tracking
<1>6. FreeList(setting, D)
  BY <1>4, <1>5 DEF FreeList, Sealed, Outside, NoneTwice
<1>7. Apart(D, none) /\ InRecords(D, none) = {}
  BY <1>1 DEF Apart, InRecords
<1>8. Kept(setting, D, none, {})
  BY <1>3, <1>6, <1>7 DEF Kept, Left
<1>9. Held(D, none, {}, all)
  BY <1>3, <1>5, <1>7, FreeListFacts, <1>6 DEF Held
<1>10. AllocateBlock(none) = AllocateBlock(D)
  <2> DEFINE L == Len(Chain(D, 0))
             e == Chain(D, 0)[L]
             t == Chain(D, 0)[L - 1]
  <2>1. L = 1 /\ e = 0
    BY <1>5
  <2> HIDE DEF e, t, L
  <2>2. TryFindFreeBlock(D) = [id |-> 0, writes |-> <<>>]
    BY <1>3, <1>4, <1>6, <2>1, FindsFree DEF e, t, L
  <2>3. Tracked(none) = D /\ Tracked(D) = D
    BY <1>1, <1>3, <1>e DEF Tracked
  <2> QED
    BY <2>2, <2>3 DEF AllocateBlock
<1> QED
  BY <1>3, <1>4, <1>5, <1>8, <1>9, <1>10, <1>e

-----------------------------------------------------------------------------
(* The invariant holds after every step.                                   *)

LEMMA InvAfter ==
  ASSUME IInv, setting' = setting, crashes' = crashes, torn' = torn,
         stored' \in [DOMAIN stored' -> Payload],
         NEW F, Underway(setting, disk', writes', F, op', stored', gone', crashes = 0)
  PROVE  IInv'
<1>1. Formed(setting, disk')
  BY PendingFacts DEF Underway
<1>2. disk' # <<>> /\ setting \in Setting /\ crashes \in 0 .. MaxCrashes
  BY <1>1, FormedFacts DEF IInv
<1>3. setting' \in Setting /\ crashes' \in 0 .. MaxCrashes' /\ stored' \in [DOMAIN stored' -> Payload']
  BY <1>2 DEF MaxCrashes, Payload
<1>4. \E S : Underway(setting', disk', writes', S, op', stored', gone', crashes' = 0)
  BY Zenon
<1>5. Intact'
  BY <1>2, <1>3, <1>4, Zenon DEF Intact
<1>6. torn' \in BOOLEAN /\ (crashes' = 0 => ~ torn')
  BY DEF IInv
<1> QED
  BY <1>2, <1>3, <1>5, <1>6, Zenon DEF IInv

LEMMA InvRunning ==
  ASSUME IInv, ~ torn, writes = <<>>, op.name # "idle"
  PROVE  /\ setting \in Setting /\ disk # <<>>
         /\ Consistent(setting, disk, op, stored, gone, crashes = 0)
         /\ Settled(setting, disk, op.open)
         /\ Formed(setting, disk) /\ op \in Operation(setting, disk)
<1>1. setting \in Setting /\ Intact
  BY DEF IInv
<1>2. disk # <<>>
  BY <1>1 DEF Intact, Idle
<1>3. PICK F : Underway(setting, disk, writes, F, op, stored, gone, crashes = 0)
  BY <1>1, <1>2, Zenon DEF Intact
<1>4. F = disk
  BY <1>3, PendingOver DEF Underway
<1>5. Consistent(setting, disk, op, stored, gone, crashes = 0) /\ Settled(setting, disk, op.open)
  BY <1>3, <1>4, Zenon DEF Underway
<1> QED
  BY <1>1, <1>2, <1>5 DEF Consistent, Kept

(* Between operations the stream and what is stored in it, which has its   *)
(* first block once something is created.                                  *)
LEMMA InvIdle ==
  ASSUME IInv, ~ torn, writes = <<>>, op.name = "idle",
         NEW D, D = IF disk = <<>> THEN Extend(<<>>) ELSE disk
  PROVE  /\ setting \in Setting /\ FunctionOn(DOMAIN stored, stored)
         /\ Kept(setting, D, stored, gone) /\ Held(D, stored, {}, crashes = 0)
         /\ DOMAIN stored \cup gone \subseteq DOMAIN D \ {0}
         /\ AllocateBlock(disk) = AllocateBlock(D)
         /\ disk # <<>> => Consistent(setting, disk, op, stored, gone, crashes = 0)
<1>1. setting \in Setting /\ FunctionOn(DOMAIN stored, stored) /\ Intact
  BY DEF IInv, Intact, FunctionOn
<1>2. CASE disk = <<>>
  <2>1. stored = <<>> /\ gone = {} /\ D = Extend(<<>>)
    BY <1>1, <1>2 DEF Intact
  <2>2. Kept(setting, D, <<>>, {}) /\ Held(D, <<>>, {}, crashes = 0)
        /\ AllocateBlock(<<>>) = AllocateBlock(D)
    BY <1>1, <2>1, FirstBlock
  <2>3. DOMAIN stored \cup gone = {}
    BY <2>1
  <2> QED
    BY <1>1, <1>2, <2>1, <2>2, <2>3
<1>3. CASE disk # <<>>
  <2>0. PICK F : Underway(setting, disk, writes, F, op, stored, gone, crashes = 0)
    BY <1>1, <1>3, Zenon DEF Intact
  <2>1. Consistent(setting, disk, op, stored, gone, crashes = 0) /\ D = disk
    <3>1. F = disk
      BY <2>0, PendingOver DEF Underway
    <3> QED
      BY <1>3, <2>0, <3>1, Zenon DEF Underway
  <2>2. /\ Kept(setting, disk, stored, gone) /\ Held(disk, stored, {}, crashes = 0)
        /\ DOMAIN stored \cup gone \subseteq DOMAIN disk \ {0}
    BY <1>1, <2>1, IdleFacts
  <2> QED
    BY <1>1, <2>1, <2>2
<1> QED
  BY <1>2, <1>3

Fields(s, D, o, name, record, data, rest, open, used) ==
  /\ o = [name |-> name, record |-> record, data |-> data, rest |-> rest, open |-> open,
          used |-> used]
  /\ name \in {"idle", "create", "delete", "update", "return"} /\ record \in DOMAIN D
  /\ data \in s.payload \cup {NoData} /\ rest \in Seq(Cells(s))
  /\ open \in Seq([id : DOMAIN D, block : Blocks(s)]) /\ used \in Nat

LEMMA OperationType ==
  ASSUME NEW s, NEW D, NEW o, NEW name, NEW record, NEW data, NEW rest, NEW open, NEW used,
         Fields(s, D, o, name, record, data, rest, open, used)
  PROVE  /\ o \in Operation(s, D)
         /\ o.name = name /\ o.record = record /\ o.data = data /\ o.rest = rest
         /\ o.open = open /\ o.used = used
<1> DEFINE S == Seq(Cells(s))
           T == Seq([id : DOMAIN D, block : Blocks(s)])
<1>1. /\ o = [name |-> name, record |-> record, data |-> data, rest |-> rest, open |-> open,
              used |-> used]
      /\ name \in {"idle", "create", "delete", "update", "return"} /\ record \in DOMAIN D
      /\ data \in s.payload \cup {NoData} /\ rest \in S /\ open \in T /\ used \in Nat
  BY DEF Fields
<1>2. Operation(s, D) =
        [name : {"idle", "create", "delete", "update", "return"}, record : DOMAIN D,
         data : s.payload \cup {NoData}, rest : S, open : T, used : Nat]
  BY DEF Operation
<1> HIDE DEF S, T
<1> QED
  BY <1>1, <1>2

LEMMA OneOpen ==
  ASSUME NEW s, NEW D, NEW id \in DOMAIN D, NEW b \in Blocks(s)
  PROVE  /\ <<Opened(id, b)>> \in Seq([id : DOMAIN D, block : Blocks(s)])
         /\ Len(<<Opened(id, b)>>) = 1 /\ Head(<<Opened(id, b)>>) = Opened(id, b)
         /\ <<Opened(id, b)>>[1].id = id /\ <<Opened(id, b)>>[1].block = b
<1>1. Opened(id, b) \in [id : DOMAIN D, block : Blocks(s)]
  BY DEF Opened
<1>2. Opened(id, b).id = id /\ Opened(id, b).block = b
  BY DEF Opened
<1> DEFINE p == Opened(id, b)
<1> HIDE DEF p
<1> QED
  BY <1>1, <1>2 DEF p

LEMMA CreateKeeps ==
  ASSUME IInv, ~ torn, NEW data \in Payload, Create(data), setting' = setting
  PROVE  IInv' /\ op'.record \notin DOMAIN stored
<1> DEFINE D == IF disk = <<>> THEN Extend(<<>>) ELSE disk
           a == AllocateBlock(disk)
           n == a.block.id
           b == [a.block.block EXCEPT !.length = Len(data)]
           all == crashes = 0
<1>0. /\ op.name = "idle" /\ writes = <<>>
      /\ disk' = a.disk /\ stored' = stored /\ gone' = gone /\ crashes' = crashes /\ torn' = torn
      /\ IF data = <<>>
         THEN /\ writes' = a.writes \o Disposed(n, b)
              /\ op' = [Idle EXCEPT !.name = "return", !.record = n, !.data = data]
         ELSE /\ writes' = a.writes
              /\ op' = [Idle EXCEPT !.name = "create", !.record = n, !.data = data,
                                    !.rest = data, !.open = <<Opened(n, b)>>]
  BY DEF Create, Running, Opened
<1>1. /\ setting \in Setting /\ FunctionOn(DOMAIN stored, stored)
      /\ Kept(setting, D, stored, gone) /\ Held(D, stored, {}, all)
      /\ DOMAIN stored \cup gone \subseteq DOMAIN D \ {0}
      /\ a = AllocateBlock(D)
  BY <1>0, InvIdle
<1> HIDE DEF D, all
<1>2. PICK F : Allocation(setting, D, stored, gone, a, F)
  BY <1>1, AllocationKeeps
<1> HIDE DEF a
<1>3. b \in Blocks(setting) /\ b.next = 0 /\ b.size = 0 /\ b.prev = 0 /\ ~ b.deleted
      /\ b.length = Len(data) /\ SameBeyond(setting, b, F[n])
  <2>1. Blank(setting, a.block.block) /\ SameBeyond(setting, a.block.block, F[n])
    BY <1>2 DEF Allocation
  <2>2. Len(data) \in Nat
    BY <1>1, PayloadFacts DEF Payload
  <2>3. b \in Blocks(setting) /\ b.next = 0 /\ b.size = 0 /\ b.prev = 0 /\ ~ b.deleted
        /\ b.length = Len(data) /\ b.cells = a.block.block.cells
    BY <2>1, <2>2 DEF Blank, Blocks
  <2> HIDE DEF b
  <2> QED
    BY <2>1, <2>3 DEF SameBeyond
<1> HIDE DEF b
<1>4. Starting(setting, D, stored, gone, all, a, F, b)
  BY <1>1, <1>2, <1>3 DEF Starting
<1> DEFINE E == Put(F, n, b)
<1>5. HasStarted(setting, stored, gone, all, b, n, F, E)
  BY <1>1, <1>4, CreateStarts
<1>6. n \in DOMAIN F /\ n \notin DOMAIN stored /\ Others(stored, n) = stored
  BY <1>5 DEF HasStarted
<1>w. Pending(setting, a.disk, a.writes, F, stored, gone \ {n}, {})
  <2>1. Pending(setting, a.disk, a.writes, F, stored, gone, {})
    BY <1>2 DEF Allocation
  <2>2. gone \ {n} \subseteq gone
    OBVIOUS
  <2> QED
    BY <2>1, <2>2, PendingFewer
<1> HIDE DEF E
<1>7. /\ data \in setting.payload /\ data \in Seq(Cells(setting))
  BY <1>1, PayloadFacts DEF Payload
<1>8. stored' \in [DOMAIN stored' -> Payload]
  BY <1>0 DEF IInv, Intact
<1>9. CASE data = <<>>
  <2>1. /\ op'.name = "return" /\ op'.record = n /\ op'.data = <<>>
        /\ op'.rest = <<>> /\ op'.open = <<>> /\ op'.used = 0
        /\ op' = [name |-> "return", record |-> n, data |-> <<>>, rest |-> <<>>, open |-> <<>>,
                  used |-> 0]
    BY <1>0, <1>9 DEF Idle
  <2>2. op' \in Operation(setting, F)
    <3>1. <<>> \in setting.payload \cup {NoData} /\ <<>> \in Seq(Cells(setting))
          /\ <<>> \in Seq([id : DOMAIN F, block : Blocks(setting)])
          /\ 0 \in Nat /\ "return" \in {"idle", "create", "delete", "update", "return"}
      BY <1>7, <1>9
    <3>2. Fields(setting, F, op', "return", n, <<>>, <<>>, <<>>, 0)
      BY <1>6, <2>1, <3>1 DEF Fields
    <3> QED
      BY <3>2, OperationType
  <2>3. Consistent(setting, E, op', stored, gone, all)
    BY <1>1, <1>3, <1>4, <1>7, <1>9, <2>1, <2>2, CreatesEmpty DEF E
  <2>4. Pending(setting, a.disk, a.writes \o Disposed(n, b), E, stored, gone \ {n}, {})
    <3>1. Kept(setting, E, Others(stored, op'.record), gone \ {op'.record})
      BY <2>3 DEF Consistent
    <3>2. Kept(setting, E, stored, gone \ {n})
      BY <1>6, <2>1, <3>1
    <3>3. Fine(setting, E, stored, gone \ {n}, {})
      BY <3>2, KeptFine
    <3> QED
      BY <1>1, <1>3, <1>6, <1>w, <3>3, PendingSector DEF E
  <2>5. Settled(setting, E, op'.open)
    BY <2>1 DEF Settled
  <2>6. Underway(setting, disk', writes', E, op', stored', gone', crashes = 0)
    BY <1>0, <1>6, <1>9, <2>1, <2>3, <2>4, <2>5 DEF Underway, all
  <2> QED
    BY <1>0, <1>6, <1>8, <2>1, <2>6, InvAfter
<1>10. CASE data # <<>>
  <2>1. /\ op'.name = "create" /\ op'.record = n /\ op'.data = data
        /\ op'.rest = data /\ op'.open = <<Opened(n, b)>> /\ op'.used = 0
        /\ op' = [name |-> "create", record |-> n, data |-> data, rest |-> data,
                  open |-> <<Opened(n, b)>>, used |-> 0]
    BY <1>0, <1>10 DEF Idle
  <2>2. op' \in Operation(setting, F)
    <3>1. <<Opened(n, b)>> \in Seq([id : DOMAIN F, block : Blocks(setting)])
      BY <1>3, <1>6, OneOpen
    <3>2. /\ data \in setting.payload \cup {NoData} /\ 0 \in Nat
          /\ "create" \in {"idle", "create", "delete", "update", "return"}
      BY <1>7
    <3>3. Fields(setting, F, op', "create", n, data, data, <<Opened(n, b)>>, 0)
      BY <1>6, <1>7, <2>1, <3>1, <3>2 DEF Fields
    <3> QED
      BY <3>3, OperationType
  <2>3. Len(op'.open) = 1 /\ op'.open[1].id = n /\ op'.open[1].block = b
    BY <2>1 DEF Opened
  <2>4. Consistent(setting, F, op', stored, gone, all)
    BY <1>1, <1>3, <1>4, <1>7, <2>1, <2>2, <2>3, CreatesFirst
  <2>5. Settled(setting, F, op'.open)
    BY <1>3, <2>3 DEF Settled
  <2>6. Underway(setting, disk', writes', F, op', stored', gone', crashes = 0)
    BY <1>0, <1>6, <1>10, <1>w, <2>1, <2>4, <2>5 DEF Underway, all
  <2> QED
    BY <1>0, <1>6, <1>8, <2>1, <2>6, InvAfter
<1> QED
  BY <1>9, <1>10

(* The operation goes on; nothing is stored or deleted yet.                *)
LEMMA InvStep ==
  ASSUME IInv, ~ torn, setting' = setting, UNCHANGED <<stored, gone, crashes, torn>>,
         NEW F, Underway(setting, disk', writes', F, op', stored, gone, crashes = 0)
  PROVE  IInv'
<1>1. stored' = stored /\ gone' = gone /\ crashes' = crashes /\ torn' = torn
  OBVIOUS
<1>2. stored' \in [DOMAIN stored' -> Payload]
  BY <1>1 DEF IInv, Intact
<1>3. Underway(setting, disk', writes', F, op', stored', gone', crashes = 0)
  BY <1>1
<1> QED
  BY <1>1, <1>2, <1>3, InvAfter

(* It is called or at its end, and writes nothing.                         *)
LEMMA UnderwayResting ==
  ASSUME NEW s, NEW D, NEW o, NEW st, NEW g, NEW all, Consistent(s, D, o, st, g, all),
         Settled(s, D, o.open)
  PROVE  Underway(s, D, <<>>, D, o, st, g, all)
<1>1. Fine(s, D, Others(st, o.record), g \ {o.record}, {})
  BY KeptFine DEF Consistent
<1>2. Pending(s, D, <<>>, D, Others(st, o.record), g \ {o.record}, {})
  BY <1>1, PendingNone
<1> QED
  BY <1>2 DEF Underway

LEMMA DeleteKeeps ==
  ASSUME IInv, ~ torn, NEW id \in DOMAIN disk, Delete(id), setting' = setting
  PROVE  IInv'
<1>0. /\ op.name = "idle" /\ writes = <<>> /\ id \in DOMAIN stored
      /\ disk' = disk /\ writes' = writes /\ stored' = stored /\ gone' = gone
      /\ crashes' = crashes /\ torn' = torn
      /\ op' = [Idle EXCEPT !.name = "delete", !.record = id, !.open = <<Opened(id, disk[id])>>]
  BY DEF Delete, Running
<1>1. disk # <<>>
  OBVIOUS
<1>2. /\ setting \in Setting /\ FunctionOn(DOMAIN stored, stored)
      /\ Consistent(setting, disk, op, stored, gone, crashes = 0)
      /\ Kept(setting, disk, stored, gone)
  BY <1>0, <1>1, InvIdle
<1>3. /\ op'.name = "delete" /\ op'.record = id /\ op'.data = NoData
      /\ op'.open = <<Opened(id, disk[id])>>
  BY <1>0 DEF Idle
<1>4. op' \in Operation(setting, disk)
  <2>1. Formed(setting, disk)
    BY <1>2 DEF Kept
  <2>2. disk[id] \in Blocks(setting)
    BY <1>2, <2>1, FormedFacts
  <2>3. <<Opened(id, disk[id])>> \in Seq([id : DOMAIN disk, block : Blocks(setting)])
    BY <2>2, OneOpen
  <2>4. op' = [name |-> "delete", record |-> id, data |-> NoData, rest |-> <<>>,
               open |-> <<Opened(id, disk[id])>>, used |-> 0]
    BY <1>0 DEF Idle
  <2>5. /\ NoData \in setting.payload \cup {NoData} /\ <<>> \in Seq(Cells(setting)) /\ 0 \in Nat
        /\ "delete" \in {"idle", "create", "delete", "update", "return"}
    OBVIOUS
  <2>6. Fields(setting, disk, op', "delete", id, NoData, <<>>, <<Opened(id, disk[id])>>, 0)
    BY <2>3, <2>4, <2>5 DEF Fields
  <2> QED
    BY <2>6, OperationType
<1>5. Len(op'.open) = 1 /\ op'.open[1].id = id /\ op'.open[1].block = disk[id]
  BY <1>3 DEF Opened
<1>6. Consistent(setting, disk, op', stored, gone, crashes = 0)
  BY ZenonT(60), <1>0, <1>2, <1>3, <1>4, <1>5, DeleteStarts
<1>7. Settled(setting, disk, op'.open)
  BY <1>5 DEF Settled, SameBeyond
<1>8. Underway(setting, disk, <<>>, disk, op', stored, gone, crashes = 0)
  BY <1>6, <1>7, UnderwayResting
<1>9. Underway(setting, disk', writes', disk, op', stored, gone, crashes = 0)
  BY <1>0, <1>8
<1> QED
  BY <1>0, <1>9, InvStep

LEMMA UpdateKeeps ==
  ASSUME IInv, ~ torn, NEW id \in DOMAIN disk, NEW data \in Payload, Update(id, data),
         setting' = setting
  PROVE  IInv'
<1>0. /\ op.name = "idle" /\ writes = <<>> /\ id \in DOMAIN stored /\ data # <<>>
      /\ disk' = disk /\ writes' = writes /\ stored' = stored /\ gone' = gone
      /\ crashes' = crashes /\ torn' = torn
      /\ op' = [Idle EXCEPT !.name = "update", !.record = id, !.data = data, !.rest = data,
                            !.open = FindBlocks(disk, id)]
  BY DEF Update, Running
<1>1. disk # <<>>
  OBVIOUS
<1>2. /\ setting \in Setting /\ FunctionOn(DOMAIN stored, stored)
      /\ Consistent(setting, disk, op, stored, gone, crashes = 0)
      /\ Kept(setting, disk, stored, gone)
  BY <1>0, <1>1, InvIdle
<1>3. /\ op'.name = "update" /\ op'.record = id /\ op'.data = data /\ op'.rest = data
      /\ op'.open = FindBlocks(disk, id) /\ op'.used = 0
  BY <1>0 DEF Idle
<1>4. data \in setting.payload /\ data \in Seq(Cells(setting)) /\ stored[id] \in setting.payload
  BY <1>0, <1>2, PayloadFacts DEF Payload, IInv, Intact
<1>5. FindBlocks(disk, id) \in Seq([id : DOMAIN disk, block : Blocks(setting)])
  <2> DEFINE c == Chain(disk, id)
             W == [id : DOMAIN disk, block : Blocks(setting)]
  <2>1. Chained(disk, id) /\ Formed(setting, disk)
    BY <1>0, <1>2 DEF Kept, Apart
  <2>2. Len(c) \in Nat /\ \A i \in 1 .. Len(c) : c[i] \in DOMAIN disk
    BY <2>1, MembersOfLinked DEF Chained
  <2>3. \A i \in 1 .. Len(c) : Opened(c[i], disk[c[i]]) \in W
    BY <2>1, <2>2 DEF Opened, Formed
  <2>4. FindBlocks(disk, id) = [i \in 1 .. Len(c) |-> Opened(c[i], disk[c[i]])]
    BY DEF FindBlocks
  <2> HIDE DEF c, W
  <2>5. FindBlocks(disk, id) \in Seq(W)
    BY <2>2, <2>3, <2>4
  <2> QED
    BY <2>5 DEF W
<1>6. op' \in Operation(setting, disk)
  <2>1. op' = [name |-> "update", record |-> id, data |-> data, rest |-> data,
               open |-> FindBlocks(disk, id), used |-> 0]
    BY <1>0 DEF Idle
  <2>2. /\ data \in setting.payload \cup {NoData} /\ 0 \in Nat
        /\ "update" \in {"idle", "create", "delete", "update", "return"}
    BY <1>4
  <2> DEFINE open == FindBlocks(disk, id)
  <2>3. Fields(setting, disk, op', "update", id, data, data, open, 0)
    BY <1>4, <1>5, <2>1, <2>2 DEF Fields
  <2> HIDE DEF open
  <2> QED
    BY <2>3, OperationType
<1>7. Consistent(setting, disk, op', stored, gone, crashes = 0)
  <2> DEFINE all == crashes = 0
             o2 == op'
  <2>1. /\ Consistent(setting, disk, op, stored, gone, all) /\ setting \in Setting
        /\ FunctionOn(DOMAIN stored, stored) /\ op.name = "idle" /\ data # <<>>
        /\ stored[id] \in setting.payload /\ data \in setting.payload /\ id \in DOMAIN stored
    BY <1>0, <1>2, <1>4
  <2>2. /\ o2.name = "update" /\ o2.record = id /\ o2.data = data /\ o2.rest = data
        /\ o2.open = FindBlocks(disk, id) /\ o2.used = 0 /\ o2 \in Operation(setting, disk)
    BY <1>3, <1>6
  <2> HIDE DEF all, o2
  <2>3. Consistent(setting, disk, o2, stored, gone, all)
    BY <2>1, <2>2, UpdateStarts, Zenon
  <2> QED
    BY <2>3 DEF all, o2
<1>8. Settled(setting, disk, op'.open)
  <2>1. Len(Chain(disk, id)) \in Nat
    <3>1. Chained(disk, id)
      BY <1>0, <1>2 DEF Kept, Apart
    <3> QED
      BY <3>1, MembersOfLinked DEF Chained
  <2> DEFINE open == FindBlocks(disk, id)
             c == Chain(disk, id)
  <2>2. Len(open) = Len(c) /\ \A i \in 1 .. Len(c) : open[i] = [id |-> c[i], block |-> disk[c[i]]]
    BY <2>1, FindBlocksFacts
  <2>3. \A i \in 1 .. Len(open) : open[i].block = disk[open[i].id]
    <3> TAKE i \in 1 .. Len(open)
    <3> DEFINE m == c[i]
               b == disk[m]
    <3>1. open[i] = [id |-> m, block |-> b]
      BY <2>2
    <3> HIDE DEF open, m, b
    <3>2. open[i].id = m /\ open[i].block = b
      BY <3>1
    <3> QED
      BY <3>2 DEF b
  <2>4. op'.open = open
    BY <1>3
  <2> HIDE DEF open
  <2>5. Settled(setting, disk, open)
    BY <2>3 DEF Settled, SameBeyond
  <2> QED
    BY <2>4, <2>5
<1>9. Underway(setting, disk, <<>>, disk, op', stored, gone, crashes = 0)
  BY <1>7, <1>8, UnderwayResting
<1>10. Underway(setting, disk', writes', disk, op', stored, gone, crashes = 0)
  BY <1>0, <1>9
<1> QED
  BY <1>0, <1>10, InvStep

LEMMA FlushKeeps ==
  ASSUME IInv, ~ torn, Flush, setting' = setting
  PROVE  IInv'
<1> DEFINE h == Head(writes)
           R == Others(stored, op.record)
           H == gone \ {op.record}
           T == Tail(writes)
<1>0. /\ writes # <<>> /\ UNCHANGED <<stored, gone, crashes, torn>> /\ op' = op
      /\ disk' = [disk EXCEPT ![h.id] = OnStream(disk[h.id], h)] /\ writes' = T
  BY DEF Flush
<1>1. disk # <<>> /\ Intact
  BY <1>0 DEF IInv, Intact
<1>2. PICK F : Underway(setting, disk, writes, F, op, stored, gone, crashes = 0)
  BY <1>1, Zenon DEF Intact
<1>3. /\ Pending(setting, disk, writes, F, R, H, {}) /\ op.name # "idle"
      /\ Consistent(setting, F, op, stored, gone, crashes = 0)
      /\ Settled(setting, F, op.open)
  BY <1>0, <1>2 DEF Underway
<1>4. disk' = Put(disk, h.id, Written(setting, disk[h.id], h))
  BY <1>0, OnStreamWritten DEF Put
<1>5. Pending(setting, disk', T, F, R, H, {})
  BY <1>0, <1>3, <1>4, PendingLess
<1> HIDE DEF h, R, H, T
<1>6. Underway(setting, disk', T, F, op, stored, gone, crashes = 0)
  BY <1>3, <1>5 DEF Underway, R, H
<1>7. Underway(setting, disk', writes', F, op', stored, gone, crashes = 0)
  BY <1>0, <1>6
<1> QED
  BY <1>0, <1>7, InvStep


LEMMA IdleSettled ==
  ASSUME NEW s, NEW D, NEW st, NEW g, NEW all, Consistent(s, D, Idle, st, g, all)
  PROVE  Underway(s, D, <<>>, D, Idle, st, g, all)
<1>1. Settled(s, D, Idle.open)
  BY DEF Settled, Idle
<1> QED
  BY <1>1, UnderwayResting

LEMMA ReturnKeeps ==
  ASSUME IInv, ~ torn, Return, setting' = setting
  PROVE  IInv'
<1> DEFINE r == op.record
           all == crashes = 0
<1>0. /\ op.name = "return" /\ writes = <<>>
      /\ disk' = disk /\ writes' = writes /\ crashes' = crashes /\ torn' = torn /\ op' = Idle
      /\ IF op.data = NoData
         THEN /\ stored' = [id \in DOMAIN stored \ {r} |-> stored[id]]
              /\ gone' = gone \cup {r}
         ELSE /\ stored' = [id \in DOMAIN stored \cup {r} |->
                             IF id = r THEN op.data ELSE stored[id]]
              /\ gone' = gone \ {r}
  BY DEF Return, Running
<1>1. /\ setting \in Setting /\ Consistent(setting, disk, op, stored, gone, all)
      /\ op \in Operation(setting, disk)
  BY <1>0, InvRunning
<1>2. stored \in [DOMAIN stored -> Payload]
  BY DEF IInv, Intact
<1> HIDE DEF all, r
<1>3. CASE op.data = NoData
  <2>1. stored' = Others(stored, r) /\ gone' = gone \cup {r}
    BY <1>0, <1>3 DEF Others
  <2>2. Consistent(setting, disk, Idle, Others(stored, r), gone \cup {r}, all)
    BY <1>0, <1>1, <1>3, ReturnsGone DEF r
  <2>3. stored' \in [DOMAIN stored' -> Payload]
    BY <1>2, <2>1, OthersFacts
  <2>4. Underway(setting, disk, <<>>, disk, Idle, stored', gone', crashes = 0)
    BY <2>1, <2>2, IdleSettled DEF all
  <2>5. Underway(setting, disk', writes', disk, op', stored', gone', crashes = 0)
    BY <1>0, <2>4
  <2> QED
    BY <1>0, <2>3, <2>5, InvAfter
<1>4. CASE op.data # NoData
  <2> DEFINE st2 == stored'
  <2>1. /\ st2 = [id \in DOMAIN stored \cup {r} |-> IF id = r THEN op.data ELSE stored[id]]
        /\ gone' = gone \ {r}
    BY <1>0, <1>4
  <2>2. op.data \in Payload
    BY <1>1, <1>4 DEF Operation, Payload
  <2> HIDE DEF st2
  <2>3. /\ FunctionOn(DOMAIN st2, st2) /\ DOMAIN st2 = DOMAIN stored \cup {r}
        /\ st2[r] = op.data /\ \A id \in DOMAIN stored : id # r => st2[id] = stored[id]
    BY <2>1 DEF FunctionOn
  <2>4. st2 \in [DOMAIN st2 -> Payload]
    BY <1>2, <2>1, <2>2
  <2>5. Consistent(setting, disk, Idle, st2, gone \ {r}, all)
    BY <1>0, <1>1, <1>4, <2>3, ReturnsStored DEF r
  <2>6. Underway(setting, disk, <<>>, disk, Idle, stored', gone', crashes = 0)
    BY <2>1, <2>5, IdleSettled DEF all, st2
  <2>7. Underway(setting, disk', writes', disk, op', stored', gone', crashes = 0)
    BY <1>0, <2>6
  <2> QED
    BY <1>0, <2>4, <2>7, InvAfter DEF st2
<1> QED
  BY <1>3, <1>4

LEMMA CrashKeeps ==
  ASSUME IInv, ~ torn, Crash, setting' = setting
  PROVE  IInv'
<1> DEFINE r == op.record
           none == crashes' = 0
<1>0. /\ op.name # "idle" /\ crashes < MaxCrashes
      /\ crashes' = crashes + 1 /\ writes' = <<>> /\ op' = Idle /\ disk' = disk
      /\ stored' = Others(stored, r) /\ gone' = gone \ {r} /\ torn' = (torn \/ Torn(disk))
  BY DEF Crash, Others
<1>1. /\ disk # <<>> /\ setting \in Setting /\ crashes \in 0 .. MaxCrashes /\ Intact
  <2>1. Intact
    BY DEF IInv
  <2>2. disk # <<>>
    BY <1>0, <2>1 DEF Intact, Idle
  <2> QED
    BY <2>1, <2>2 DEF IInv
<1>2. MaxCrashes \in Nat
  BY <1>1, SettingFacts DEF MaxCrashes
<1>3. ~ none /\ crashes' \in 0 .. MaxCrashes
  BY <1>0, <1>1, <1>2
<1>t. torn' \in BOOLEAN
  BY <1>0
<1> HIDE DEF none
<1>4. /\ setting' \in Setting /\ crashes' \in 0 .. MaxCrashes' /\ (crashes' = 0 => ~ torn')
  BY <1>1, <1>3 DEF MaxCrashes, none
<1>5. ASSUME ~ torn' PROVE Intact'
  <2>1. PICK F : Underway(setting, disk, writes, F, op, stored, gone, crashes = 0)
    BY <1>1, Zenon DEF Intact
  <2>2. /\ Fine(setting, disk, Others(stored, r), gone \ {r}, {}) /\ DOMAIN F = DOMAIN disk
        /\ DOMAIN stored \cup gone \subseteq DOMAIN disk \ {0}
    <3>1. /\ Pending(setting, disk, writes, F, Others(stored, r), gone \ {r}, {})
          /\ DOMAIN stored \cup gone \subseteq DOMAIN F \ {0}
      BY <2>1 DEF Underway, Consistent
    <3> HIDE DEF r
    <3>2. Fine(setting, disk, Others(stored, r), gone \ {r}, {}) /\ DOMAIN F = DOMAIN disk
      BY <3>1, PendingFacts
    <3> QED
      BY <3>1, <3>2
  <2>3. Kept(setting, disk, Others(stored, r), gone \ {r})
    BY <1>0, <1>5, <2>2 DEF Fine
  <2>4. Consistent(setting, disk, Idle, Others(stored, r), gone \ {r}, none)
    BY <1>1, <1>3, <2>2, <2>3, Crashes
  <2>5. Underway(setting, disk, <<>>, disk, Idle, Others(stored, r), gone \ {r}, none)
    BY <2>4, IdleSettled
  <2>6. Underway(setting', disk', writes', disk, op', stored', gone', crashes' = 0)
    BY <1>0, <2>5 DEF none
  <2>7. stored' \in [DOMAIN stored' -> Payload']
    <3>1. stored \in [DOMAIN stored -> Payload]
      BY <1>1 DEF Intact
    <3>2. Others(stored, r) \in [DOMAIN Others(stored, r) -> Payload]
      BY <3>1, OthersFacts
    <3>3. Payload' = Payload
      BY DEF Payload
    <3> QED
      BY <1>0, <3>2, <3>3
  <2>8. \E S : Underway(setting', disk', writes', S, op', stored', gone', crashes' = 0)
    BY <2>6, Zenon
  <2> QED
    BY <1>0, <1>1, <2>7, <2>8, Zenon DEF Intact
<1> QED
  BY <1>t, <1>4, <1>5, Zenon DEF IInv

(* What is torn stays torn.                                                *)
LEMMA TornStays ==
  ASSUME IInv, torn, Next
  PROVE  IInv'
<1>1. /\ setting' = setting /\ torn'
      /\ crashes' = crashes \/ (crashes < MaxCrashes /\ crashes' = crashes + 1)
  BY DEF Next, Step, Create, Delete, Update, CreateWrite, DeleteBlock, UpdateWrite, UpdateFree,
         UpdateDispose, Flush, Return, Crash
<1>2. /\ setting \in Setting /\ crashes \in 0 .. MaxCrashes /\ crashes # 0
  BY DEF IInv
<1>3. MaxCrashes \in Nat /\ MaxCrashes' = MaxCrashes
  BY <1>1, <1>2, SettingFacts DEF MaxCrashes
<1>4. crashes' \in 0 .. MaxCrashes' /\ crashes' # 0
  BY <1>1, <1>2, <1>3
<1>5. torn' = TRUE
  BY DEF Next, Step, Create, Delete, Update, CreateWrite, DeleteBlock, UpdateWrite, UpdateFree,
         UpdateDispose, Flush, Return, Crash, IInv
<1> QED
  BY <1>1, <1>2, <1>4, <1>5 DEF IInv

(* An operation under way, field by field, in a stream "E" no shorter.     *)
LEMMA OperationFields ==
  ASSUME NEW s, NEW D, NEW o \in Operation(s, D), NEW E, DOMAIN D \subseteq DOMAIN E
  PROVE  Fields(s, E, o, o.name, o.record, o.data, o.rest, o.open, o.used)
<1> DEFINE S == Seq(Cells(s))
           W == [id : DOMAIN D, block : Blocks(s)]
           V == [id : DOMAIN E, block : Blocks(s)]
           T == Seq(W)
<1>1. Operation(s, D) =
        [name : {"idle", "create", "delete", "update", "return"}, record : DOMAIN D,
         data : s.payload \cup {NoData}, rest : S, open : T, used : Nat]
  BY DEF Operation
<1>2. W \subseteq V
  OBVIOUS
<1> HIDE DEF W, V
<1>3. Seq(W) \subseteq Seq(V)
  BY <1>2
<1> HIDE DEF S, T
<1>4. /\ o = [name |-> o.name, record |-> o.record, data |-> o.data, rest |-> o.rest,
              open |-> o.open, used |-> o.used]
      /\ o.name \in {"idle", "create", "delete", "update", "return"} /\ o.record \in DOMAIN D
      /\ o.data \in s.payload \cup {NoData} /\ o.rest \in S /\ o.open \in T /\ o.used \in Nat
  BY <1>1
<1>5. o.open \in Seq(V) /\ o.record \in DOMAIN E
  BY <1>3, <1>4 DEF T
<1> QED
  BY <1>4, <1>5 DEF Fields, S, V

(* The operation goes on with another name, rest, open blocks and number   *)
(* of blocks used.                                                         *)
Continuing(s, D, E, o, o2, name, rest, open, used) ==
  /\ o \in Operation(s, D) /\ DOMAIN D \subseteq DOMAIN E
  /\ name \in {"idle", "create", "delete", "update", "return"}
  /\ rest \in Seq(Cells(s)) /\ open \in Seq([id : DOMAIN E, block : Blocks(s)])
  /\ used \in Nat
  /\ o2 = [name |-> name, record |-> o.record, data |-> o.data, rest |-> rest,
           open |-> open, used |-> used]

LEMMA NextOperation ==
  ASSUME NEW s, NEW D, NEW E, NEW o, NEW o2, NEW name, NEW rest, NEW open, NEW used,
         Continuing(s, D, E, o, o2, name, rest, open, used)
  PROVE  /\ o2 \in Operation(s, E)
         /\ o2.name = name /\ o2.record = o.record /\ o2.data = o.data /\ o2.rest = rest
         /\ o2.open = open /\ o2.used = used
<1>1. Fields(s, E, o, o.name, o.record, o.data, o.rest, o.open, o.used)
  BY OperationFields DEF Continuing
<1> DEFINE r == o.record
           d == o.data
<1>2. r \in DOMAIN E /\ d \in s.payload \cup {NoData}
  BY <1>1 DEF Fields
<1>3. o2 = [name |-> name, record |-> r, data |-> d, rest |-> rest, open |-> open, used |-> used]
  BY DEF Continuing
<1> HIDE DEF r, d
<1>4. Fields(s, E, o2, name, r, d, rest, open, used)
  BY <1>2, <1>3 DEF Fields, Continuing
<1>5. /\ o2 \in Operation(s, E)
      /\ o2.name = name /\ o2.record = r /\ o2.data = d /\ o2.rest = rest
      /\ o2.open = open /\ o2.used = used
  BY <1>4, OperationType, Zenon
<1> QED
  BY <1>5 DEF r, d

LEMMA UpdateFreeKeeps ==
  ASSUME IInv, ~ torn, UpdateFree, setting' = setting
  PROVE  IInv'
<1> DEFINE k == op.open[op.used + 1].id
           m == MarkAsFree(disk, k)
           all == crashes = 0
           o2 == op'
           R == Others(stored, op.record)
           H == gone \ {op.record}
<1>0. /\ op.name = "update" /\ writes = <<>> /\ op.rest = <<>> /\ op.used < Len(op.open)
      /\ UNCHANGED <<stored, gone, crashes, torn>> /\ disk' = m.disk /\ writes' = m.writes
      /\ op' = [op EXCEPT !.used = op.used + 1]
  BY DEF UpdateFree, Running
<1>1. /\ setting \in Setting /\ Consistent(setting, disk, op, stored, gone, all)
      /\ Settled(setting, disk, op.open)
      /\ op \in Operation(setting, disk)
  BY <1>0, InvRunning
<1> HIDE DEF all, m
<1>2. /\ Kept(setting, disk, R, H) /\ k \in DOMAIN disk
      /\ k \notin Tracking(disk) \cup Free(disk) \cup InRecords(disk, R)
      /\ \A i \in 1 .. Len(op.open) : op.open[i].id \in DOMAIN disk \ Tracking(disk)
  <2> DEFINE u == op.used
             open == op.open
  <2>1. Kept(setting, disk, R, H) /\ Updating(setting, disk, R, op, all)
    BY <1>0, <1>1 DEF InOperation, Consistent
  <2>2. PICK j \in 0 .. u : UpdatingTo(setting, disk, R, op, all, j)
    BY <2>1 DEF Updating
  <2>3. /\ u \in 0 .. Len(open) /\ Distinct(disk, open) /\ Open(setting, disk, open, j)
        /\ Held(disk, R, Kept1(open, j, u), all)
    BY <2>1, <2>2 DEF Updating, UpdatingTo, Open
  <2> HIDE DEF R, H
  <2>4. j \in 0 .. Len(open) /\ u \in j .. Len(open) - 1
    BY <1>0, <2>3 DEF Distinct
  <2>5. k \in Kept1(open, j, u)
    BY <2>3, <2>4, OneFewer
  <2>6. /\ k \in DOMAIN disk
        /\ k \notin Tracking(disk) \cup Free(disk) \cup InRecords(disk, R)
    BY <2>3, <2>5 DEF Held
  <2>7. ASSUME NEW i \in 1 .. Len(open)
        PROVE  open[i].id \in DOMAIN disk \ Tracking(disk)
    <3>1. open[i].id \in DOMAIN disk
      BY <2>3 DEF Distinct
    <3>2. CASE i \in j + 1 .. Len(open)
      BY <2>3, <3>1, <3>2 DEF Open
    <3>3. CASE i <= j
      <4>1. open[i].id \in Kept1(open, j, u)
        BY <3>3 DEF Kept1
      <4> QED
        BY <2>3, <3>1, <4>1 DEF Held
    <3> QED
      BY <2>4, <3>2, <3>3
  <2> QED
    BY <2>1, <2>6, <2>7
<1> HIDE DEF R, H
<1>m. PICK F : Marking(setting, disk, R, H, k, m, F)
  BY <1>1, <1>2, MarkingKeeps DEF m
<1>d. /\ DOMAIN disk \subseteq DOMAIN F /\ Pending(setting, m.disk, m.writes, F, R, H, {})
      /\ \A q \in DOMAIN disk \ Tracking(disk) : F[q] = disk[q]
  BY <1>m DEF Marking, Marked
<1>3. /\ o2 \in Operation(setting, F) /\ o2.name = "update" /\ o2.record = op.record
      /\ o2.data = op.data /\ o2.rest = <<>> /\ o2.open = op.open /\ o2.used = op.used + 1
  <2> DEFINE open == op.open
             u == op.used + 1
             rest == op.rest
  <2>1. Fields(setting, F, op, op.name, op.record, op.data, op.rest, op.open, op.used)
    BY <1>1, <1>d, OperationFields
  <2>2. /\ open \in Seq([id : DOMAIN F, block : Blocks(setting)]) /\ u \in Nat
        /\ rest \in Seq(Cells(setting))
        /\ "update" \in {"idle", "create", "delete", "update", "return"}
    BY <2>1 DEF Fields
  <2>3. o2 = [name |-> "update", record |-> op.record, data |-> op.data, rest |-> rest,
              open |-> open, used |-> u]
    BY <1>0, <2>1 DEF Fields
  <2> HIDE DEF open, u, o2, rest
  <2>4. Continuing(setting, disk, F, op, o2, "update", rest, open, u)
    BY <1>1, <1>d, <2>2, <2>3 DEF Continuing
  <2>5. /\ o2 \in Operation(setting, F) /\ o2.name = "update" /\ o2.record = op.record
        /\ o2.data = op.data /\ o2.rest = rest /\ o2.open = open /\ o2.used = u
    BY <2>4, NextOperation
  <2> QED
    BY <1>0, <2>5 DEF open, u, rest
<1> HIDE DEF o2
<1>4. Consistent(setting, F, o2, stored, gone, all)
  <2> DEFINE open == op.open
  <2>1. Marking(setting, disk, Others(stored, op.record), gone \ {op.record}, k, m, F)
    BY <1>m DEF R, H
  <2> QED
    BY <1>0, <1>1, <1>3, <2>1, UpdateFrees
<1>5. Settled(setting, F, o2.open)
  <2> DEFINE open == op.open
  <2>1. /\ \A i \in 1 .. Len(open) : SameBeyond(setting, open[i].block, disk[open[i].id])
        /\ \A i \in 1 .. Len(open) : F[open[i].id] = disk[open[i].id]
    BY <1>1, <1>2, <1>d DEF Settled
  <2> HIDE DEF open
  <2>2. Settled(setting, F, open)
    BY <2>1 DEF Settled
  <2> QED
    BY <1>3, <2>2 DEF open
<1>6. Underway(setting, m.disk, m.writes, F, o2, stored, gone, all)
  BY <1>3, <1>4, <1>5, <1>d DEF Underway, R, H
<1>7. Underway(setting, disk', writes', F, op', stored, gone, crashes = 0)
  BY <1>0, <1>6 DEF o2, all
<1> QED
  BY <1>0, <1>7, InvStep

LEMMA UpdateDisposeKeeps ==
  ASSUME IInv, ~ torn, UpdateDispose, setting' = setting
  PROVE  IInv'
<1> DEFINE all == crashes = 0
           o2 == op'
<1>0. /\ op.name = "update" /\ writes = <<>> /\ op.rest = <<>> /\ op.used = Len(op.open)
      /\ UNCHANGED <<stored, gone, crashes, torn>> /\ disk' = disk
      /\ writes' = FlattenSeq(Dirty(disk, op.open))
      /\ op' = [op EXCEPT !.name = "return", !.open = <<>>]
  BY DEF UpdateDispose, Running, Dirty
<1>1. /\ setting \in Setting /\ Consistent(setting, disk, op, stored, gone, all)
      /\ Settled(setting, disk, op.open)
      /\ op \in Operation(setting, disk)
  BY <1>0, InvRunning
<1>2. /\ o2 \in Operation(setting, disk) /\ o2.name = "return" /\ o2.record = op.record
      /\ o2.data = op.data /\ o2.open = <<>>
  <2> DEFINE open == <<>>
             u == op.used
             rest == op.rest
  <2>1. Fields(setting, disk, op, op.name, op.record, op.data, op.rest, op.open, op.used)
    BY <1>1, OperationFields
  <2>2. /\ open \in Seq([id : DOMAIN disk, block : Blocks(setting)]) /\ u \in Nat
        /\ rest \in Seq(Cells(setting))
        /\ "return" \in {"idle", "create", "delete", "update", "return"}
    BY <2>1 DEF Fields
  <2>3. o2 = [name |-> "return", record |-> op.record, data |-> op.data, rest |-> rest,
              open |-> open, used |-> u]
    BY <1>0, <2>1 DEF Fields
  <2> HIDE DEF open, u, o2, rest
  <2>4. Continuing(setting, disk, disk, op, o2, "return", rest, open, u)
    BY <1>1, <2>2, <2>3 DEF Continuing
  <2>5. /\ o2 \in Operation(setting, disk) /\ o2.name = "return" /\ o2.record = op.record
        /\ o2.data = op.data /\ o2.open = open
    BY <2>4, NextOperation
  <2> QED
    BY <2>5 DEF open
<1> HIDE DEF o2, all
<1> DEFINE ws == FlattenSeq(Dirty(disk, op.open))
           F == Applied(disk, op.open, Len(op.open))
<1>3. /\ Consistent(setting, F, o2, stored, gone, all)
      /\ Pending(setting, disk, ws, F, Others(stored, op.record), gone \ {op.record}, {})
  BY <1>0, <1>1, <1>2, UpdateEnds, Zenon
<1> HIDE DEF ws, F
<1>4. Settled(setting, F, o2.open)
  BY <1>2 DEF Settled
<1>5. Underway(setting, disk, ws, F, o2, stored, gone, all)
  BY <1>2, <1>3, <1>4 DEF Underway
<1>6. Underway(setting, disk', writes', F, op', stored, gone, crashes = 0)
  BY <1>0, <1>5 DEF o2, all, ws
<1> QED
  BY <1>0, <1>6, InvStep

LEMMA DeletingSettled ==
  ASSUME NEW s, NEW D, NEW o, NEW st, NEW g, NEW all, Consistent(s, D, o, st, g, all),
         o.name = "delete"
  PROVE  Settled(s, D, o.open)
<1>1. Len(o.open) = 1 /\ o.open[1].block = D[o.open[1].id]
  BY DEF Consistent, InOperation, Deleting
<1> QED
  BY <1>1 DEF Settled, SameBeyond

LEMMA DeleteBlockKeeps ==
  ASSUME IInv, ~ torn, DeleteBlock, setting' = setting
  PROVE  IInv'
<1> DEFINE k == op.open[1].id
           b == op.open[1].block
           m == MarkAsFree(disk, k)
           w == [b EXCEPT !.deleted = TRUE]
           next == b.next
           all == crashes = 0
           o2 == op'
           R == Others(stored, op.record)
           H == gone \ {op.record}
<1>0. /\ op.name = "delete" /\ writes = <<>>
      /\ UNCHANGED <<stored, gone, crashes, torn>>
      /\ disk' = m.disk /\ writes' = m.writes \o Disposed(k, w)
      /\ op' = IF next = 0 THEN [op EXCEPT !.name = "return", !.open = <<>>]
               ELSE [op EXCEPT !.open = <<Opened(next, disk[next])>>]
  <2>1. Head(op.open) = op.open[1]
    OBVIOUS
  <2> QED
    BY <2>1, Zenon DEF DeleteBlock, Running
<1>1. /\ setting \in Setting /\ Consistent(setting, disk, op, stored, gone, all)
      /\ op \in Operation(setting, disk)
  BY <1>0, InvRunning
<1> HIDE DEF all, m
<1>2. Kept(setting, disk, R, H) /\ Deleting(disk, R, op, all) /\ Formed(setting, disk)
  BY <1>0, <1>1 DEF InOperation, Consistent, Kept
<1>3. b = disk[k] /\ Chained(disk, k) /\ Held(disk, R, Members(disk, k), all)
  BY <1>2 DEF Deleting
<1>4. k \in Members(disk, k) /\ k \in DOMAIN disk
  BY <1>3, MembersOfChained
<1>n. k \notin Tracking(disk) \cup Free(disk) \cup InRecords(disk, R)
  BY <1>3, <1>4 DEF Held
<1> HIDE DEF R, H
<1>m. PICK F : Marking(setting, disk, R, H, k, m, F)
  BY <1>1, <1>2, <1>4, <1>n, MarkingKeeps DEF m
<1>d. /\ DOMAIN disk \subseteq DOMAIN F /\ Pending(setting, m.disk, m.writes, F, R, H, {})
      /\ F[k] = disk[k] /\ k \in DOMAIN F
  BY <1>4, <1>m, <1>n DEF Marking, Marked
<1>5. k \in DOMAIN disk /\ b \in Blocks(setting) /\ next \in DOMAIN disk /\ b.prev \in DOMAIN disk
  <2>1. k \in DOMAIN disk
    BY <1>3 DEF Chained
  <2> QED
    BY <1>1, <1>2, <1>3, <2>1, FormedFacts
<1>6. FormedBlock(setting, F, w) /\ w.deleted /\ w \in Blocks(setting) /\ w.cells = b.cells
  <2>1. w \in Blocks(setting) /\ w.next = b.next /\ w.prev = b.prev /\ w.deleted
        /\ w.cells = b.cells
    BY <1>5 DEF Blocks
  <2> QED
    BY <1>5, <1>d, <2>1 DEF FormedBlock
<1> DEFINE open == IF next = 0 THEN <<>> ELSE <<Opened(next, disk[next])>>
           name == IF next = 0 THEN "return" ELSE "delete"
<1>7. open \in Seq([id : DOMAIN F, block : Blocks(setting)])
  <2>1. CASE next = 0
    BY <2>1
  <2>2. CASE next # 0
    <3>1. next \in DOMAIN F /\ disk[next] \in Blocks(setting)
      BY <1>1, <1>2, <1>5, <1>d, FormedFacts
    <3>2. <<Opened(next, disk[next])>> \in Seq([id : DOMAIN F, block : Blocks(setting)])
      BY <3>1, OneOpen
    <3> QED
      BY <2>2, <3>2
  <2> QED
    BY <2>1, <2>2
<1>8. /\ o2 \in Operation(setting, F) /\ o2.name = name /\ o2.record = op.record
      /\ o2.data = op.data /\ o2.open = open
  <2> DEFINE u == op.used
             rest == op.rest
  <2>1. Fields(setting, F, op, op.name, op.record, op.data, op.rest, op.open, op.used)
    BY <1>1, <1>d, OperationFields
  <2>2. /\ u \in Nat /\ rest \in Seq(Cells(setting))
        /\ name \in {"idle", "create", "delete", "update", "return"}
    BY <2>1 DEF Fields
  <2>3. o2 = [name |-> name, record |-> op.record, data |-> op.data, rest |-> rest,
              open |-> open, used |-> u]
    BY <1>0, <2>1 DEF Fields
  <2> HIDE DEF open, u, o2, rest, name
  <2>4. Continuing(setting, disk, F, op, o2, name, rest, open, u)
    BY <1>1, <1>7, <1>d, <2>2, <2>3 DEF Continuing
  <2> QED
    BY <2>4, NextOperation
<1>9. IF next = 0 THEN o2.name = "return"
      ELSE o2.name = "delete" /\ Len(o2.open) = 1 /\ o2.open[1].id = next
           /\ o2.open[1].block = disk[next]
  <2>1. CASE next = 0
    BY <1>8, <2>1
  <2>2. CASE next # 0
    <3>1. next \in DOMAIN disk /\ disk[next] \in Blocks(setting)
      BY <1>1, <1>2, <1>5, FormedFacts
    <3>2. o2.open = <<Opened(next, disk[next])>> /\ o2.name = "delete"
      BY <1>8, <2>2
    <3> HIDE DEF o2
    <3>3. Len(o2.open) = 1 /\ o2.open[1].id = next /\ o2.open[1].block = disk[next]
      BY <3>1, <3>2, OneOpen
    <3> QED
      BY <2>2, <3>2, <3>3
  <2> QED
    BY <2>1, <2>2
<1> HIDE DEF o2, w, open, name
<1> DEFINE Z == Put(F, k, w)
<1>10. Consistent(setting, Z, o2, stored, gone, all)
  <2>1. next = disk[k].next
    BY <1>3
  <2>2. Marking(setting, disk, Others(stored, op.record), gone \ {op.record}, k, m, F)
    BY <1>m DEF R, H
  <2> HIDE DEF next
  <2> QED
    BY ZenonT(60), <1>0, <1>1, <1>6, <1>8, <1>9, <2>1, <2>2, DeleteGoesOn
<1>11. Pending(setting, m.disk, m.writes \o Disposed(k, w), Z, R, H, {})
  <2>1. Kept(setting, Z, R, H)
    BY <1>8, <1>10 DEF Consistent, R, H
  <2>2. Fine(setting, Z, R, H, {})
    BY <2>1, KeptFine
  <2>3. SameBeyond(setting, w, F[k])
    BY <1>3, <1>6, <1>d DEF SameBeyond
  <2> QED
    BY <1>1, <1>6, <1>d, <2>2, <2>3, PendingSector
<1> HIDE DEF Z
<1>12. Settled(setting, Z, o2.open)
  <2>1. CASE next = 0
    <3>1. o2.open = <<>>
      BY <1>8, <2>1 DEF open
    <3> QED
      BY <3>1 DEF Settled
  <2>2. CASE next # 0
    BY <1>9, <1>10, <2>2, DeletingSettled
  <2> QED
    BY <2>1, <2>2
<1>13. Underway(setting, m.disk, m.writes \o Disposed(k, w), Z, o2, stored, gone, all)
  <2>1. o2.name # "idle"
    BY <1>9
  <2> QED
    BY <1>8, <1>10, <1>11, <1>12, <2>1 DEF Underway, R, H
<1>14. Underway(setting, disk', writes', Z, op', stored, gone, crashes = 0)
  BY <1>0, <1>13 DEF o2, all
<1> QED
  BY <1>0, <1>14, InvStep

-----------------------------------------------------------------------------
(* What is written beyond the first sector.                                *)

LEMMA FilledBeyond ==
  ASSUME setting \in Setting, NEW b \in Blocks(setting), NEW data \in Seq(Cells(setting)),
         Len(data) <= setting.contentSize, NEW c, SameBeyond(setting, b, c)
  PROVE  /\ SameBeyond(setting, Fill(b, data), c) \/ Fill(b, data).size > setting.sectorCells
         /\ Fill(b, data).size \in Nat
<1> DEFINE N == setting.contentSize
           L == Len(data)
           r == SubSeq(b.cells, L + 1, N)
           x == data \o r
           w == Fill(b, data)
           K == setting.sectorCells
<1>1. N \in Nat \ {0} /\ L \in Nat /\ L <= N /\ K \in 0 .. N
  BY SettingAssumption
<1>2. b.cells \in Seq(Cells(setting)) /\ Len(b.cells) = N
  BY BlockFacts
<1>3. w \in Blocks(setting) /\ w.size = L
  BY FillFacts
<1>4. w.cells = x
  BY <1>3 DEF Fill, BlockContentSize, Blocks
<1> HIDE DEF w, K
<1>5. \A j \in 1 .. N : j > L => x[j] = b.cells[j]
  <2> DEFINE p == b.cells
  <2>1. p \in Seq(Cells(setting)) /\ Len(p) = N /\ r = SubSeq(p, L + 1, N)
    BY <1>2
  <2> HIDE DEF p, N, r
  <2>2. r \in Seq(Cells(setting)) /\ Len(r) = N - L /\ \A j \in 1 .. N - L : r[j] = p[j + L]
    BY <1>1, <2>1
  <2>3. \A j \in 1 .. L + Len(r) : x[j] = IF j <= L THEN data[j] ELSE r[j - L]
    BY <2>2
  <2> HIDE DEF x, L
  <2>4. \A j \in 1 .. N : j > L => x[j] = r[j - L] /\ j - L \in 1 .. N - L /\ (j - L) + L = j
    BY <1>1, <2>2, <2>3
  <2> QED
    BY <2>2, <2>4 DEF p
<1> HIDE DEF x, L, N
<1>6. CASE L > K
  BY <1>1, <1>3, <1>6 DEF w, K
<1>7. CASE L <= K
  <2>1. \A j \in 1 .. N : j > K => j > L
    BY <1>1, <1>7
  <2>2. \A j \in 1 .. N : j > K => w.cells[j] = b.cells[j]
    BY <1>4, <1>5, <2>1
  <2>3. SameBeyond(setting, w, c)
    BY <2>2 DEF SameBeyond, N, K
  <2> QED
    BY <1>1, <1>3, <2>3 DEF w
<1> QED
  BY <1>1, <1>6, <1>7

LEMMA OuterHeld ==
  ASSUME NEW s \in Setting, NEW D, NEW R, NEW G, Kept(s, D, R, G),
         NEW M, NEW all, Held(D, R, M, all), NEW id \in M, NEW b \in Blocks(s), NEW last,
         NEW Z, Z = Outer(s, D, id, b, last)
  PROVE  /\ Kept(s, Z, R, G) /\ Held(Z, R, M, all) /\ Fine(s, Z, R, G, {})
         /\ Tracking(Z) = Tracking(D) /\ DOMAIN Z = DOMAIN D /\ Formed(s, Z)
         /\ \A m \in DOMAIN D : m # id => Z[m] = D[m]
<1> DEFINE c == Merged(s, D[id], b)
<1>1. id \in DOMAIN D /\ Formed(s, D) /\ Left(D, G)
  BY DEF Held, Kept
<1>2. D[id] \in Blocks(s) /\ D[id].next \in DOMAIN D /\ D[id].prev \in DOMAIN D
  BY <1>1, FormedFacts
<1>3. c \in Blocks(s) /\ Labels(c) = Labels(D[id])
  BY <1>2, MergedFacts
<1> HIDE DEF c
<1>4. c.next = D[id].next /\ c.prev = D[id].prev /\ c.deleted = D[id].deleted
  BY <1>3, LabelsFacts
<1>5. FormedBlock(s, D, c) /\ (id \in G => c.deleted \/ c.prev # 0)
  BY <1>1, <1>2, <1>3, <1>4 DEF FormedBlock, Left
<1>6. CASE last > s.sectorCells
  <2>1. Z = Put(D, id, c)
    BY <1>6 DEF Outer, c
  <2>2. /\ Kept(s, Z, R, G) /\ Held(Z, R, M, all)
        /\ Changed(D, Z, id, c) /\ Formed(s, Z) /\ Tracking(Z) = Tracking(D)
    BY <1>5, <2>1, HeldWritten
  <2> QED
    BY <2>2, KeptFine DEF Changed
<1>7. CASE ~ (last > s.sectorCells)
  <2>1. Z = D
    BY <1>7 DEF Outer
  <2> QED
    BY <1>1, <2>1, KeptFine
<1> QED
  BY <1>6, <1>7

(* Beyond the first sector of a block that no other write goes to.         *)
LEMMA BeyondFirst ==
  ASSUME setting \in Setting, NEW D, NEW ws, NEW F, NEW R, NEW G, NEW M,
         Pending(setting, D, ws, F, R, G, M),
         NEW k \in M, k \in DOMAIN D, \A i \in 1 .. Len(ws) : ws[i].id # k,
         NEW b \in Blocks(setting), NEW last, last > setting.sectorCells \/ SameBeyond(setting, b, F[k])
  PROVE  \E Z : /\ Pending(setting, D, Beyond(k, b, last) \o ws, Z, R, G, M)
                /\ DOMAIN Z = DOMAIN F /\ SameBeyond(setting, b, Z[k])
                /\ \A c : Put(Z, k, c) = Put(F, k, c)
<1>1. /\ ws \in Seq(WriteTo(setting, D)) /\ Fine(setting, D, R, G, M) /\ DOMAIN F = DOMAIN D
      /\ Formed(setting, D)
  BY PendingFacts
<1>2. CASE ~ (last > setting.sectorCells)
  <2>1. Beyond(k, b, last) = <<>>
    BY <1>2 DEF Beyond, SectorCells
  <2>2. <<>> \o ws = ws
    BY <1>1, ConcatEmptySeq
  <2>3. Pending(setting, D, Beyond(k, b, last) \o ws, F, R, G, M) /\ SameBeyond(setting, b, F[k])
    BY <1>2, <2>1, <2>2
  <2> QED
    BY <2>3, Zenon
<1>3. CASE last > setting.sectorCells
  <2> DEFINE w == [id |-> k, block |-> b, part |-> "beyond"]
             c == Merged(setting, D[k], b)
             E == Put(D, k, c)
             Z == Put(F, k, c)
  <2>1. Beyond(k, b, last) = <<w>>
    BY <1>3 DEF Beyond, SectorCells
  <2>2. w \in WriteTo(setting, D)
    BY DEF WriteTo
  <2>3. Written(setting, D[w.id], w) = c /\ w.id = k
    BY DEF Written
  <2>4. D[k] \in Blocks(setting) /\ D[k].next \in DOMAIN D /\ D[k].prev \in DOMAIN D
    BY <1>1, FormedFacts
  <2>5. /\ c \in Blocks(setting) /\ Labels(c) = Labels(D[k])
        /\ \A j \in 1 .. setting.contentSize :
             c.cells[j] = IF j > setting.sectorCells THEN b.cells[j] ELSE D[k].cells[j]
    BY <2>4, MergedFacts
  <2> HIDE DEF c, w
  <2>6. c.next = D[k].next /\ c.prev = D[k].prev /\ c.deleted = D[k].deleted
    BY <2>5, LabelsFacts
  <2>7. FormedBlock(setting, D, c) /\ (k \in G => c.deleted \/ c.prev # 0)
    BY <1>1, <2>4, <2>5, <2>6 DEF FormedBlock, Fine, Left
  <2>8. Pending(setting, E, ws, Z, R, G, M)
    BY <1>1, <2>7, PendingAside
  <2>9. Pending(setting, D, <<w>> \o ws, Z, R, G, M)
    <3>1. E = Put(D, w.id, Written(setting, D[w.id], w))
      BY <2>3
    <3> HIDE DEF E, Z
    <3> QED
      BY <1>1, <2>2, <2>8, <3>1, PendingFirst
  <2>10. DOMAIN Z = DOMAIN F /\ Z[k] = c
    BY <1>1, PutFacts
  <2>11. SameBeyond(setting, b, Z[k])
    BY <2>5, <2>10 DEF SameBeyond
  <2>12. \A d : Put(Z, k, d) = Put(F, k, d)
    BY <1>1, PutTwice
  <2> HIDE DEF Z
  <2> QED
    BY <2>1, <2>9, <2>10, <2>11, <2>12
<1> QED
  BY <1>2, <1>3

LEMMA CreateWriteKeeps ==
  ASSUME IInv, ~ torn, CreateWrite, setting' = setting
  PROVE  IInv'
<1> DEFINE k == op.open[1].id
           b == op.open[1].block
           chunk == Chunk(op.rest)
           rest == Remainder(op.rest)
           w == Fill(b, chunk)
           beyond == Beyond(k, w, w.size)
           a == AllocateBlock(disk)
           n == a.block.id
           v == [w EXCEPT !.next = n]
           e == [a.block.block EXCEPT !.prev = k]
           all == crashes = 0
           o2 == op'
           R == Others(stored, op.record)
           H == gone \ {op.record}
<1>0. /\ op.name = "create" /\ writes = <<>>
      /\ UNCHANGED <<stored, gone, crashes, torn>>
      /\ IF rest = <<>>
         THEN /\ writes' = beyond \o Disposed(k, w) /\ disk' = disk
              /\ op' = [op EXCEPT !.name = "return", !.rest = <<>>, !.open = <<>>]
         ELSE /\ disk' = a.disk
              /\ writes' = (beyond \o a.writes) \o Disposed(k, v)
              /\ op' = [op EXCEPT !.rest = rest, !.open = <<Opened(n, e)>>]
  <2>1. Head(op.open) = op.open[1]
    OBVIOUS
  <2> QED
    BY <2>1, Zenon DEF CreateWrite, Running
<1>1. /\ setting \in Setting /\ Consistent(setting, disk, op, stored, gone, all)
      /\ Settled(setting, disk, op.open)
      /\ op \in Operation(setting, disk)
  BY <1>0, InvRunning
<1> HIDE DEF all, a
<1>2. Kept(setting, disk, R, H) /\ Creating(setting, disk, R, op, all) /\ Formed(setting, disk)
  BY <1>0, <1>1 DEF InOperation, Consistent, Kept
<1> DEFINE M == Put(disk, k, b)
           c == Chain(M, op.record)
<1>3. CreatingAs(setting, disk, R, op, all, M, c, k, b)
  BY <1>1, <1>2, CreateUnfolds
<1>4. FormedBlock(setting, disk, b)
  BY <1>2 DEF Creating
<1>f. SameBeyond(setting, b, disk[k])
  <2>1. Len(op.open) = 1
    BY <1>2 DEF Creating
  <2> QED
    BY <1>1, <2>1 DEF Settled
<1> HIDE DEF M, c, R, H, b, k
<1>5. /\ k \in DOMAIN disk /\ k \in Nat /\ b.next = 0 /\ b \in Blocks(setting)
      /\ b.prev \in DOMAIN disk /\ 0 \in DOMAIN disk
      /\ op.rest \in Seq(Cells(setting)) /\ Held(disk, R, Range(c), all)
      /\ k \in Range(c) /\ k \notin Tracking(disk) \cup InRecords(disk, R)
  <2>1. k \in DOMAIN disk /\ b.next = 0 /\ op.rest \in Seq(Cells(setting))
        /\ Held(disk, R, Range(c), all) /\ k \in Range(c)
    BY <1>3 DEF CreatingAs, Changed
  <2>2. k \notin Tracking(disk) \cup InRecords(disk, R)
    BY <2>1 DEF Held
  <2> QED
    BY <1>1, <1>2, <1>4, <2>1, <2>2, FormedFacts DEF FormedBlock
<1>6. /\ chunk \in Seq(Cells(setting)) /\ Len(chunk) <= setting.contentSize
      /\ Len(chunk) \in Nat /\ rest \in Seq(Cells(setting)) /\ chunk \o rest = op.rest
  BY <1>1, <1>5, ChunkFacts
<1> HIDE DEF chunk, rest
<1>7. /\ w \in Blocks(setting) /\ Used(w) = chunk /\ w.size = Len(chunk)
      /\ w.next = 0 /\ w.length = b.length /\ w.prev = b.prev /\ w.deleted = b.deleted
  BY <1>1, <1>5, <1>6, FillFacts
<1>8. /\ w.size \in Nat
      /\ w.size > setting.sectorCells \/ SameBeyond(setting, w, disk[k])
  BY <1>1, <1>5, <1>6, <1>f, FilledBeyond
<1> HIDE DEF w
<1>9. CASE rest = <<>>
  <2>1. chunk = op.rest
    <3>1. chunk \o <<>> = chunk
      BY <1>6, ConcatEmptySeq
    <3> QED
      BY <1>6, <1>9, <3>1
  <2>2. Filling(setting, disk, op, b, w, 0, op.rest)
    BY <1>5, <1>7, <2>1 DEF Filling, FormedBlock
  <2>3. /\ o2 \in Operation(setting, disk) /\ o2.name = "return" /\ o2.record = op.record
        /\ o2.data = op.data /\ o2.open = <<>>
    <3> DEFINE none == <<>>
               u == op.used
    <3>1. Fields(setting, disk, op, op.name, op.record, op.data, op.rest, op.open, op.used)
      BY <1>1, OperationFields
    <3>2. /\ none \in Seq([id : DOMAIN disk, block : Blocks(setting)]) /\ u \in Nat
          /\ none \in Seq(Cells(setting))
          /\ "return" \in {"idle", "create", "delete", "update", "return"}
      BY <3>1 DEF Fields
    <3>3. o2 = [name |-> "return", record |-> op.record, data |-> op.data, rest |-> none,
                open |-> none, used |-> u]
      BY <1>0, <1>9, <3>1 DEF Fields
    <3> HIDE DEF none, u, o2
    <3>4. Continuing(setting, disk, disk, op, o2, "return", none, none, u)
      BY <1>1, <3>2, <3>3 DEF Continuing
    <3>5. /\ o2 \in Operation(setting, disk) /\ o2.name = "return" /\ o2.record = op.record
          /\ o2.data = op.data /\ o2.open = none
      BY <3>4, NextOperation
    <3> QED
      BY <3>5 DEF none
  <2> HIDE DEF o2
  <2> DEFINE Z == Put(disk, k, w)
             X == Outer(setting, disk, k, w, w.size)
  <2>4. Consistent(setting, Z, o2, stored, gone, all)
    BY <1>0, <1>1, <2>2, <2>3, CreateEnds DEF k, b
  <2>5. Pending(setting, disk, beyond \o Disposed(k, w), Z, R, H, {})
    <3>1. Kept(setting, Z, R, H)
      BY <2>3, <2>4 DEF Consistent, R, H
    <3>2. Fine(setting, Z, R, H, {}) /\ Fine(setting, disk, R, H, {})
      BY <1>2, <3>1, KeptFine
    <3>3. Fine(setting, X, R, H, {})
      BY <1>1, <1>2, <1>5, <1>7, OuterHeld
    <3> QED
      BY <1>1, <1>5, <1>7, <1>8, <3>2, <3>3, PendingWhole
  <2> HIDE DEF Z
  <2>6. Settled(setting, Z, o2.open)
    BY <2>3 DEF Settled
  <2>7. Underway(setting, disk, beyond \o Disposed(k, w), Z, o2, stored, gone, all)
    BY <2>3, <2>4, <2>5, <2>6 DEF Underway, R, H
  <2>8. Underway(setting, disk', writes', Z, op', stored, gone, crashes = 0)
    BY <1>0, <1>9, <2>7 DEF o2, all
  <2> QED
    BY <1>0, <2>8, InvStep
<1>10. CASE rest # <<>>
  <2>1. PICK F : Allocation(setting, disk, R, H, a, F)
    BY <1>1, <1>2, AllocationKeeps DEF a
  <2>2. HasAllocated(setting, disk, R, H, Range(c), all, n, F)
    BY <1>1, <1>2, <1>5, <2>1, AllocationFacts
  <2>3. /\ n \in DOMAIN F /\ DOMAIN F = DOMAIN disk \cup {n} /\ n \in Nat /\ n # k
        /\ Formed(setting, F) /\ Blank(setting, a.block.block) /\ F[k] = disk[k]
        /\ SameBeyond(setting, a.block.block, F[n])
        /\ Pending(setting, a.disk, a.writes, F, R, H, {k})
        /\ \A i \in 1 .. Len(a.writes) : a.writes[i].id # k
    <3>1. /\ n \in DOMAIN F /\ DOMAIN F = DOMAIN disk \cup {n}
          /\ Formed(setting, F) /\ Blank(setting, a.block.block) /\ F[k] = disk[k]
          /\ SameBeyond(setting, a.block.block, F[n])
      BY <1>5, <2>1, <2>2 DEF HasAllocated, Allocation, Handed, Kept
    <3>2. n # k
      BY <1>5, <2>2 DEF HasAllocated
    <3>3. {k} \cap (Tracking(disk) \cup InRecords(disk, R)) = {}
      BY <1>5
    <3>4. /\ Pending(setting, a.disk, a.writes, F, R, H, {k})
          /\ \A i \in 1 .. Len(a.writes) : a.writes[i].id \in Tracking(disk)
      BY <2>1, <3>3 DEF Allocation
    <3> QED
      BY <1>1, <1>5, <3>1, <3>2, <3>4, FormedFacts
  <2>4. Parts(setting, op.rest, chunk, rest)
    BY <1>6 DEF Parts
  <2>5. Filling(setting, F, op, b, v, n, chunk)
    <3> DEFINE q == Relinked(w, n)
    <3>1. v = q
      BY DEF Relinked
    <3> HIDE DEF n, v, q
    <3>2. /\ q \in Blocks(setting) /\ q.next = n /\ q.prev = w.prev
          /\ q.deleted = w.deleted /\ q.length = w.length /\ Used(q) = Used(w)
      BY <1>1, <1>7, <2>3, RelinkedFacts DEF q
    <3> QED
      BY <1>5, <1>7, <2>3, <3>1, <3>2 DEF Filling, FormedBlock
  <2>v. v \in Blocks(setting) /\ v.cells = w.cells
    BY <1>7, <2>3 DEF Blocks
  <2>6. /\ e \in Blocks(setting) /\ e.next = 0 /\ e.size = 0 /\ e.prev = k
        /\ e.cells = a.block.block.cells
    <3> DEFINE fresh == a.block.block
    <3>1. fresh \in Blocks(setting) /\ fresh.next = 0 /\ fresh.size = 0
      BY <2>3 DEF Blank
    <3>2. e = [fresh EXCEPT !.prev = k]
      OBVIOUS
    <3> HIDE DEF fresh, e
    <3>3. /\ e \in Blocks(setting) /\ e.next = 0 /\ e.size = 0 /\ e.prev = k
          /\ e.cells = fresh.cells
      BY <1>5, <3>1, <3>2 DEF Blocks
    <3> QED
      BY <3>3 DEF fresh
  <2> HIDE DEF n, e, v
  <2>7. /\ o2 \in Operation(setting, F) /\ o2.name = "create" /\ o2.record = op.record
        /\ o2.data = op.data /\ o2.rest = rest /\ o2.open = <<Opened(n, e)>>
    <3> DEFINE open == <<Opened(n, e)>>
               u == op.used
    <3>1. Fields(setting, disk, op, op.name, op.record, op.data, op.rest, op.open, op.used)
      BY <1>1, OperationFields
    <3>2. open \in Seq([id : DOMAIN F, block : Blocks(setting)])
      BY <2>3, <2>6, OneOpen
    <3>3. u \in Nat /\ "create" \in {"idle", "create", "delete", "update", "return"}
      BY <3>1 DEF Fields
    <3> HIDE DEF open
    <3>4. o2 = [name |-> "create", record |-> op.record, data |-> op.data, rest |-> rest,
                open |-> open, used |-> u]
      BY <1>0, <1>10, <3>1 DEF Fields, open
    <3> HIDE DEF u, o2
    <3>5. Continuing(setting, disk, F, op, o2, "create", rest, open, u)
      BY <1>1, <1>6, <2>3, <3>2, <3>3, <3>4 DEF Continuing
    <3>6. /\ o2 \in Operation(setting, F) /\ o2.name = "create" /\ o2.record = op.record
          /\ o2.data = op.data /\ o2.rest = rest /\ o2.open = open
      BY <3>5, NextOperation
    <3> QED
      BY <3>6 DEF open
  <2> HIDE DEF o2
  <2>8. Len(o2.open) = 1 /\ o2.open[1].id = n /\ o2.open[1].block = e
    <3> DEFINE open == <<Opened(n, e)>>
    <3>1. n \in DOMAIN F /\ e \in Blocks(setting)
      BY <2>3, <2>6
    <3>2. Len(open) = 1 /\ open[1].id = n /\ open[1].block = e
      BY <3>1, OneOpen
    <3>3. o2.open = open
      BY <2>7
    <3> HIDE DEF open
    <3> QED
      BY <3>2, <3>3
  <2>9. CreatingNext(setting, F, op, o2, n, e, k, rest)
    BY <2>6, <2>7, <2>8 DEF CreatingNext
  <2> DEFINE E == Put(F, k, v)
  <2>10. Consistent(setting, E, o2, stored, gone, all)
    <3>1. Allocation(setting, disk, Others(stored, op.record), gone \ {op.record}, a, F)
      BY <2>1 DEF R, H
    <3> QED
      BY <1>0, <1>1, <2>4, <2>5, <2>9, <3>1, CreateContinues DEF k, b, n
  <2>11. Pending(setting, a.disk, (beyond \o a.writes) \o Disposed(k, v), E, R, H, {})
    <3>1. k \in {k} /\ DOMAIN F = DOMAIN a.disk
      BY <2>3, PendingFacts
    <3>2. k \in DOMAIN a.disk /\ k \in DOMAIN F
      BY <1>5, <2>3, <3>1
    <3>3. w.size > setting.sectorCells \/ SameBeyond(setting, w, F[k])
      BY <1>8, <2>3
    <3>4. PICK Z : /\ Pending(setting, a.disk, Beyond(k, w, w.size) \o a.writes, Z, R, H, {k})
                   /\ DOMAIN Z = DOMAIN F /\ SameBeyond(setting, w, Z[k])
                   /\ \A x : Put(Z, k, x) = Put(F, k, x)
      BY <1>1, <1>7, <2>3, <3>1, <3>2, <3>3, BeyondFirst
    <3>5. Pending(setting, a.disk, beyond \o a.writes, Z, R, H, {})
      BY <3>4, PendingFewer
    <3>6. E = Put(Z, k, v)
      BY <3>4, Zenon
    <3> HIDE DEF E
    <3>7. Kept(setting, E, R, H)
      BY <2>7, <2>10 DEF Consistent, R, H
    <3>8. Fine(setting, Put(Z, k, v), R, H, {})
      BY <3>6, <3>7, KeptFine
    <3>9. v \in Blocks(setting) /\ SameBeyond(setting, v, Z[k])
      BY <2>v, <3>4 DEF SameBeyond
    <3> HIDE DEF beyond
    <3> QED
      <4>1. Pending(setting, a.disk, (beyond \o a.writes) \o Disposed(k, v), Put(Z, k, v), R, H, {})
        BY <1>1, <3>2, <3>4, <3>5, <3>8, <3>9, PendingSector
      <4> QED
        BY <3>6, <4>1
  <2>12. Settled(setting, E, o2.open)
    <3>1. E[n] = F[n]
      <4>1. k \in DOMAIN F /\ n \in DOMAIN F /\ n # k
        BY <1>5, <2>3
      <4> QED
        BY <4>1, PutFacts
    <3> QED
      BY <2>3, <2>6, <2>8, <3>1 DEF Settled, SameBeyond
  <2> HIDE DEF E, beyond
  <2>13. Underway(setting, a.disk, (beyond \o a.writes) \o Disposed(k, v), E, o2, stored, gone, all)
    BY <2>7, <2>10, <2>11, <2>12 DEF Underway, R, H
  <2>14. Underway(setting, disk', writes', E, op', stored, gone, crashes = 0)
    BY <1>0, <1>10, <2>13 DEF o2, all
  <2> QED
    BY <1>0, <2>14, InvStep
<1> QED
  BY <1>9, <1>10

-----------------------------------------------------------------------------
(* The iterations of Update that write.                                    *)

(* The blocks that are open with, if need be, one more, in the stream "E"  *)
(* that will be "F" when "ws" is written.                                  *)
Grown(s, D, R, H, all, E, ws, F, open, blocks, u) ==
  /\ Pending(s, E, ws, F, R, H, {}) /\ Kept(s, F, R, H) /\ Formed(s, F)
  /\ DOMAIN D \subseteq DOMAIN F /\ Settled(s, F, blocks)
  /\ \A i \in 1 .. Len(open) : F[open[i].id] = D[open[i].id]
  /\ Len(open) \in Nat /\ u \in 0 .. Len(open) /\ Len(blocks) \in Nat
  /\ IF u = Len(open) THEN Len(blocks) = u + 1 ELSE Len(blocks) = Len(open)
  /\ \A i \in 1 .. Len(open) : blocks[i] = open[i]
  /\ blocks \in Seq([id : DOMAIN F, block : Blocks(s)])
  /\ Distinct(F, blocks)
  /\ \A i \in 1 .. Len(blocks) : blocks[i].id \notin Tracking(F) \cup {0}
  /\ Held(F, R, {blocks[i].id : i \in 1 .. Len(blocks)}, all)
  /\ FormedBlock(s, F, blocks[u + 1].block)
  /\ u = 0 => ~ blocks[1].block.deleted /\ blocks[1].block.prev = 0

LEMMA GrowsNot ==
  ASSUME NEW s \in Setting, NEW D, NEW R, NEW H, Kept(s, D, R, H), NEW o \in Operation(s, D),
         NEW all, NEW u, UpdatingAs(s, D, R, o, all, u), u # Len(o.open),
         NEW open, open = o.open, Settled(s, D, open)
  PROVE  Grown(s, D, R, H, all, D, <<>>, D, open, open, u)
<1> DEFINE none == <<>>
           L == Len(open)
<1>1. Pending(s, D, none, D, R, H, {}) /\ Formed(s, D)
  <2>1. Fine(s, D, R, H, {})
    BY KeptFine
  <2> QED
    BY <2>1, PendingNone DEF Kept
<1>2. /\ Open(s, D, open, u) /\ Held(D, R, Kept1(open, u, u), all)
      /\ ~ open[1].block.deleted /\ open[1].block.prev = 0
      /\ u \in 0 .. L /\ L \in Nat \ {0}
      /\ \A i \in 1 .. L : open[i].id \in DOMAIN D \ Tracking(D)
      /\ Kept1(open, u, u) = {open[i].id : i \in 1 .. L}
  BY DEF UpdatingAs
<1>3. Distinct(D, open) /\ \A i \in 1 .. L : FormedBlock(s, D, open[i].block)
  BY <1>2 DEF Open
<1>4. open \in Seq([id : DOMAIN D, block : Blocks(s)])
  BY DEF Operation
<1>5. 0 \in Tracking(D)
  BY FreeListFacts DEF Kept
<1>6. u + 1 \in 1 .. L
  BY <1>2
<1>7. \A i \in 1 .. L : open[i].id \notin Tracking(D) \cup {0}
  BY <1>2, <1>5
<1> HIDE DEF none
<1>8. Grown(s, D, R, H, all, D, none, D, open, open, u)
  BY <1>1, <1>2, <1>3, <1>4, <1>6, <1>7 DEF Grown
<1> QED
  BY <1>8 DEF none

LEMMA Grows ==
  ASSUME NEW s \in Setting, NEW D, NEW R, NEW H, Kept(s, D, R, H), NEW o \in Operation(s, D),
         NEW all, NEW u, UpdatingAs(s, D, R, o, all, u), u = Len(o.open),
         NEW a, NEW F, Allocation(s, D, R, H, a, F),
         a.block = Opened(a.block.id, a.block.block),
         NEW open, open = o.open, Settled(s, D, open), NEW blocks, blocks = Append(open, a.block)
  PROVE  Grown(s, D, R, H, all, a.disk, a.writes, F, open, blocks, u)
<1> DEFINE L == Len(open)
           M == {open[i].id : i \in 1 .. L}
           n == a.block.id
           W == [id : DOMAIN F, block : Blocks(s)]
<1>1. /\ Open(s, D, open, u) /\ Held(D, R, M, all)
      /\ u \in 0 .. L /\ L \in Nat \ {0}
      /\ \A i \in 1 .. L : open[i].id \in DOMAIN D \ Tracking(D)
  BY DEF UpdatingAs
<1>2. HasAllocated(s, D, R, H, M, all, n, F)
  <2>1. Held(D, R, M, all) /\ H \subseteq H
    BY <1>1
  <2> HIDE DEF M
  <2> QED
    BY <2>1, AllocationFacts
<1>3. /\ Pending(s, a.disk, a.writes, F, R, H, {}) /\ Kept(s, F, R, H) /\ Formed(s, F)
      /\ n \in DOMAIN F /\ n # 0 /\ n \notin M
      /\ DOMAIN F = DOMAIN D \cup {n} /\ Held(F, R, M \cup {n}, all)
      /\ \A m \in DOMAIN D \ Tracking(D) : F[m] = D[m]
      /\ Blank(s, a.block.block) /\ SameBeyond(s, a.block.block, F[n])
  <2> HIDE DEF M
  <2>1. {} \cap (Tracking(D) \cup InRecords(D, R)) = {}
    OBVIOUS
  <2>2. Pending(s, a.disk, a.writes, F, R, H, {})
    BY <2>1 DEF Allocation
  <2> QED
    BY <1>2, <2>2 DEF HasAllocated, Allocation
<1>4. /\ open \in Seq(W) /\ a.block \in W
  <2>1. DOMAIN D \subseteq DOMAIN F
    BY <1>3
  <2>2. Fields(s, F, o, o.name, o.record, o.data, o.rest, o.open, o.used)
    BY <2>1, OperationFields
  <2>3. open \in Seq(W)
    BY <2>2 DEF Fields
  <2>4. a.block.block \in Blocks(s) /\ n \in DOMAIN F
    BY <1>3 DEF Blank
  <2> DEFINE q == a.block.block
  <2>5. a.block = [id |-> n, block |-> q] /\ q \in Blocks(s)
    BY <2>4 DEF Opened
  <2> HIDE DEF n, q
  <2> QED
    BY <2>3, <2>4, <2>5
<1> DEFINE new == a.block
<1> HIDE DEF W
<1>5. /\ blocks \in Seq(W) /\ Len(blocks) = L + 1 /\ blocks[L + 1] = new
      /\ \A i \in 1 .. L : blocks[i] = open[i]
  <2>1. blocks = Append(open, new) /\ open \in Seq(W) /\ new \in W
    BY <1>4
  <2> HIDE DEF new
  <2> QED
    BY <2>1
<1>6. \A i \in 1 .. L + 1 : i = L + 1 \/ i \in 1 .. L
  BY <1>1
<1>7. {blocks[i].id : i \in 1 .. L + 1} = M \cup {n}
  BY <1>1, <1>5, <1>6
<1>8. Distinct(F, blocks)
  <2>1. Distinct(D, open)
    BY <1>1 DEF Open
  <2>2. \A i \in 1 .. L + 1 : blocks[i].id \in DOMAIN F
    BY <1>1, <1>3, <1>5, <1>6
  <2>3. ASSUME NEW i \in 1 .. L + 1, NEW j \in 1 .. L + 1, blocks[i].id = blocks[j].id
        PROVE  i = j
    <3>1. CASE i \in 1 .. L /\ j \in 1 .. L
      BY <1>5, <2>1, <2>3, <3>1 DEF Distinct
    <3>2. CASE i = L + 1 /\ j \in 1 .. L
      BY <1>3, <1>5, <2>3, <3>2
    <3>3. CASE i \in 1 .. L /\ j = L + 1
      BY <1>3, <1>5, <2>3, <3>3
    <3> QED
      BY <1>6, <3>1, <3>2, <3>3
  <2> QED
    BY <1>1, <1>5, <2>2, <2>3 DEF Distinct
<1>9. \A i \in 1 .. L + 1 : blocks[i].id \notin Tracking(F) \cup {0}
  <2>1. 0 \in Tracking(D)
    BY FreeListFacts DEF Kept
  <2>2. \A i \in 1 .. L + 1 : blocks[i].id \in M \cup {n}
    BY <1>7
  <2>3. (M \cup {n}) \cap Tracking(F) = {}
    BY <1>3 DEF Held
  <2>4. 0 \notin M \cup {n}
    BY <1>1, <1>3, <2>1
  <2> QED
    BY <2>2, <2>3, <2>4
<1>10. FormedBlock(s, F, blocks[u + 1].block)
  <2>1. blocks[u + 1] = new /\ 0 \in DOMAIN F
    BY <1>3, <1>5, FormedFacts
  <2> QED
    BY <1>3, <2>1 DEF Blank, FormedBlock
<1>11. \A i \in 1 .. L : F[open[i].id] = D[open[i].id]
  BY <1>1, <1>3
<1>12. Held(F, R, {blocks[i].id : i \in 1 .. Len(blocks)}, all)
  BY <1>3, <1>5, <1>7
<1>13. u # 0 /\ u = L /\ L + 1 \in Nat /\ DOMAIN D \subseteq DOMAIN F
  BY <1>1, <1>3
<1>14. Settled(s, F, blocks)
  <2>1. \A i \in 1 .. L : SameBeyond(s, blocks[i].block, F[blocks[i].id])
    BY <1>5, <1>11 DEF Settled
  <2>2. SameBeyond(s, blocks[L + 1].block, F[blocks[L + 1].id])
    BY <1>3, <1>5
  <2> QED
    BY <1>5, <1>6, <2>1, <2>2 DEF Settled
<1> HIDE DEF M, L, n, new
<1> QED
  BY <1>1, <1>3, <1>5, <1>8, <1>9, <1>10, <1>11, <1>12, <1>13, <1>14 DEF Grown, W, L

(* The block after the first "u" is linked with the one before.            *)
Linking(blocks, u) ==
  IF u = 0 THEN blocks
  ELSE [blocks EXCEPT ![u].block.next = blocks[u + 1].id,
                      ![u + 1].block.prev = blocks[u].id]

Backlinked(block, m) == [block EXCEPT !.prev = m]

LEMMA BlockChanged ==
  ASSUME NEW i, NEW b, NEW c
  PROVE  [[id |-> i, block |-> b] EXCEPT !.block = c] = [id |-> i, block |-> c]
OBVIOUS

HasLinked(blocks, u, x) ==
  /\ x = [i \in 1 .. Len(blocks) |-> x[i]]
  /\ \A i \in 1 .. Len(blocks) :
       /\ x[i].id = blocks[i].id
       /\ x[i] = [id |-> x[i].id, block |-> x[i].block]
       /\ i \notin {u, u + 1} => x[i] = blocks[i]
  /\ u = 0 => x[u + 1].block = blocks[u + 1].block
  /\ u # 0 => /\ x[u + 1].block = Backlinked(blocks[u + 1].block, blocks[u].id)
              /\ x[u].block = Relinked(blocks[u].block, blocks[u + 1].id)

LEMMA LinkingFacts ==
  ASSUME NEW I, NEW B, NEW blocks \in Seq([id : I, block : B]),
         NEW u \in 0 .. Len(blocks) - 1,
         NEW x, x = Linking(blocks, u)
  PROVE  HasLinked(blocks, u, x)
<1> DEFINE W == [id : I, block : B]
           L == Len(blocks)
<1>1. L \in Nat /\ blocks = [i \in 1 .. L |-> blocks[i]] /\ \A i \in 1 .. L : blocks[i] \in W
  <2>1. blocks \in Seq(W)
    OBVIOUS
  <2> HIDE DEF W
  <2> QED
    BY <2>1
<1>2. \A i \in 1 .. L : blocks[i] = [id |-> blocks[i].id, block |-> blocks[i].block]
  BY <1>1
<1>3. CASE u = 0
  BY <1>1, <1>2, <1>3 DEF Linking, HasLinked
<1>4. CASE u # 0
  <2> DEFINE p == blocks[u]
             q == blocks[u + 1]
             pb == Relinked(p.block, q.id)
             qb == Backlinked(q.block, p.id)
             y == [blocks EXCEPT ![u] = [id |-> p.id, block |-> pb],
                                 ![u + 1] = [id |-> q.id, block |-> qb]]
  <2>1. u \in 1 .. L /\ u + 1 \in 1 .. L /\ u # u + 1
    BY <1>1, <1>4
  <2>2. x = y
    <3> DEFINE z == [blocks EXCEPT ![u] = [p EXCEPT !.block = pb],
                                   ![u + 1] = [q EXCEPT !.block = qb]]
    <3>1. x = z
      BY <1>1, <1>4, <2>1 DEF Linking, Relinked, Backlinked
    <3>2. p = [id |-> p.id, block |-> p.block] /\ q = [id |-> q.id, block |-> q.block]
      BY <1>2, <2>1
    <3>3. /\ [p EXCEPT !.block = pb] = [id |-> p.id, block |-> pb]
          /\ [q EXCEPT !.block = qb] = [id |-> q.id, block |-> qb]
      <4> HIDE DEF p, q, pb, qb
      <4> DEFINE i == p.id
                 j == q.id
                 c == p.block
                 d == q.block
      <4>1. p = [id |-> i, block |-> c] /\ q = [id |-> j, block |-> d]
        BY <3>2
      <4> HIDE DEF i, j, c, d
      <4>2. /\ [p EXCEPT !.block = pb] = [id |-> i, block |-> pb]
            /\ [q EXCEPT !.block = qb] = [id |-> j, block |-> qb]
        <5>1. /\ [[id |-> i, block |-> c] EXCEPT !.block = pb] = [id |-> i, block |-> pb]
              /\ [[id |-> j, block |-> d] EXCEPT !.block = qb] = [id |-> j, block |-> qb]
          BY BlockChanged, Zenon
        <5> QED
          BY <4>1, <5>1, Zenon
      <4> QED
        BY <4>2 DEF i, j
    <3> QED
      BY <3>1, <3>3
  <2> HIDE DEF p, q, pb, qb
  <2>3. /\ x = [i \in 1 .. L |-> x[i]]
        /\ x[u] = [id |-> p.id, block |-> pb] /\ x[u + 1] = [id |-> q.id, block |-> qb]
        /\ \A i \in 1 .. L : i \notin {u, u + 1} => x[i] = blocks[i]
    BY <1>1, <2>1, <2>2
  <2>4. /\ x[u].id = p.id /\ x[u].block = pb /\ x[u + 1].id = q.id /\ x[u + 1].block = qb
    BY <2>3
  <2> HIDE DEF y
  <2>5. \A i \in 1 .. L : /\ x[i].id = blocks[i].id
                          /\ x[i] = [id |-> x[i].id, block |-> x[i].block]
    <3> TAKE i \in 1 .. L
    <3>1. CASE i = u
      BY <2>3, <2>4, <3>1 DEF p
    <3>2. CASE i = u + 1
      BY <2>3, <2>4, <3>2 DEF q
    <3>3. CASE i \notin {u, u + 1}
      BY <1>2, <2>3, <3>3
    <3> QED
      BY <3>1, <3>2, <3>3
  <2> QED
    BY <1>4, <2>3, <2>4, <2>5 DEF p, q, pb, qb, HasLinked
<1> QED
  BY <1>3, <1>4

(* What becomes of the block of an iteration.                              *)
Targeted(f, u, data) == [f EXCEPT !.next = 0, !.length = IF u = 0 THEN Len(data) ELSE @]

Labelled(f, v) == [f EXCEPT !.next = 0, !.length = v]

HasLabelled(s, f, v, t) ==
  /\ t \in Blocks(s) /\ t.next = 0 /\ t.size = f.size /\ t.cells = f.cells
  /\ t.prev = f.prev /\ t.deleted = f.deleted /\ t.length = v

LEMMA LabelledFacts ==
  ASSUME NEW s, NEW f \in Blocks(s), NEW v \in Nat
  PROVE  HasLabelled(s, f, v, Labelled(f, v))
  BY DEF Blocks, Labelled, HasLabelled

LEMMA TargetFacts ==
  ASSUME setting \in Setting, NEW b \in Blocks(setting), NEW chunk \in Seq(Cells(setting)),
         Len(chunk) <= setting.contentSize, NEW u, NEW data, Len(data) \in Nat,
         NEW t, t = Targeted(Fill(b, chunk), u, data)
  PROVE  /\ t \in Blocks(setting) /\ t.next = 0 /\ Used(t) = chunk /\ t.size = Len(chunk)
         /\ t.prev = b.prev /\ t.deleted = b.deleted
         /\ t.cells = Fill(b, chunk).cells
         /\ u = 0 => t.length = Len(data)
<1> DEFINE f == Fill(b, chunk)
           m == Len(data)
<1>1. /\ f \in Blocks(setting) /\ Used(f) = chunk /\ f.size = Len(chunk)
      /\ f.prev = b.prev /\ f.deleted = b.deleted
  BY FillFacts
<1> DEFINE v == IF u = 0 THEN m ELSE f.length
<1>2. t = Labelled(f, v) /\ m \in Nat
  BY DEF Targeted, Labelled
<1>v. v \in Nat /\ (u = 0 => v = m)
  BY <1>1, <1>2, BlockFacts
<1> HIDE DEF f, m, v
<1>3. /\ t \in Blocks(setting) /\ t.next = 0 /\ t.size = f.size /\ t.cells = f.cells
      /\ t.prev = f.prev /\ t.deleted = f.deleted /\ t.length = v
  <2>1. f \in Blocks(setting)
    BY <1>1
  <2>2. HasLabelled(setting, f, v, Labelled(f, v))
    BY <1>v, <2>1, LabelledFacts, Zenon
  <2>3. HasLabelled(setting, f, v, t)
    BY <1>2, <2>2, Zenon
  <2> QED
    BY <2>3, Zenon DEF HasLabelled
<1>4. Used(t) = Used(f)
  BY <1>3 DEF Used
<1> QED
  BY <1>1, <1>3, <1>4, <1>v DEF m, f

LEMMA BacklinkedFacts ==
  ASSUME NEW s \in Setting, NEW b \in Blocks(s), NEW m \in Nat
  PROVE  /\ Backlinked(b, m) \in Blocks(s)
         /\ Backlinked(b, m).prev = m /\ Backlinked(b, m).deleted = b.deleted
         /\ Backlinked(b, m).cells = b.cells
  BY DEF Backlinked, Blocks

LEMMA RelinkedCells ==
  ASSUME NEW s \in Setting, NEW b \in Blocks(s), NEW m \in Nat
  PROVE  Relinked(b, m).cells = b.cells
  BY DEF Relinked, Blocks

(* An iteration that writes, on the blocks there are.                      *)
Iterating(blocks, u, chunk, data, x, t, open2) ==
  /\ x = Linking(blocks, u)
  /\ t = Targeted(Fill(x[u + 1].block, chunk), u, data)
  /\ open2 = [x EXCEPT ![u + 1].block = t]

HasIterated(s, R, all, F, open, open2, u, t, chunk, data) ==
  /\ Writes(s, F, open, open2, u, t, chunk, data)
  /\ t.size = Len(chunk) /\ (u = 0 => ~ t.deleted /\ t.prev = 0)
  /\ open2 \in Seq([id : DOMAIN F, block : Blocks(s)])
  /\ Len(open2) \in Nat /\ t \in Blocks(s) /\ t.size \in Nat
  /\ SameBeyond(s, t, F[open2[u + 1].id]) \/ t.size > s.sectorCells
  /\ \A i \in 1 .. Len(open2) : i # u + 1 => SameBeyond(s, open2[i].block, F[open2[i].id])
  /\ Held(F, R, {open2[i].id : i \in 1 .. Len(open2)}, all)

LEMMA Iterates ==
  ASSUME setting \in Setting, NEW D, NEW R, NEW H, NEW all, NEW E, NEW ws, NEW F,
         NEW open, NEW blocks, NEW u, Grown(setting, D, R, H, all, E, ws, F, open, blocks, u),
         NEW chunk \in Seq(Cells(setting)), Len(chunk) <= setting.contentSize,
         NEW data, Len(data) \in Nat,
         NEW x, NEW t, NEW open2, Iterating(blocks, u, chunk, data, x, t, open2)
  PROVE  /\ HasIterated(setting, R, all, F, open, open2, u, t, chunk, data)
         /\ open2[u + 1].id = blocks[u + 1].id
<1> DEFINE L == Len(open)
           L2 == Len(blocks)
           I == DOMAIN F
           B == Blocks(setting)
<1>1. /\ Formed(setting, F)
      /\ \A i \in 1 .. L2 : SameBeyond(setting, blocks[i].block, F[blocks[i].id])
      /\ L \in Nat /\ u \in 0 .. L /\ L2 \in Nat
      /\ IF u = L THEN L2 = u + 1 ELSE L2 = L
      /\ \A i \in 1 .. L : blocks[i] = open[i]
      /\ blocks \in Seq([id : I, block : B])
      /\ Distinct(F, blocks)
      /\ \A i \in 1 .. L2 : blocks[i].id \notin Tracking(F) \cup {0}
      /\ Held(F, R, {blocks[i].id : i \in 1 .. L2}, all)
      /\ FormedBlock(setting, F, blocks[u + 1].block)
      /\ u = 0 => ~ blocks[1].block.deleted /\ blocks[1].block.prev = 0
  BY DEF Grown, Settled
<1> HIDE DEF L, L2, I, B
<1>2. /\ u \in 0 .. L2 - 1 /\ u + 1 \in 1 .. L2 /\ u \in Nat
      /\ \A i \in 1 .. L : i \in 1 .. L2
      /\ u # 0 => u \in 1 .. L2 /\ u \in 1 .. L
  BY <1>1
<1>3. /\ x = [i \in 1 .. L2 |-> x[i]]
      /\ \A i \in 1 .. L2 :
           /\ x[i].id = blocks[i].id
           /\ x[i] = [id |-> x[i].id, block |-> x[i].block]
           /\ i \notin {u, u + 1} => x[i] = blocks[i]
      /\ u = 0 => x[u + 1].block = blocks[u + 1].block
      /\ u # 0 => /\ x[u + 1].block = Backlinked(blocks[u + 1].block, blocks[u].id)
                  /\ x[u].block = Relinked(blocks[u].block, blocks[u + 1].id)
  <2>1. HasLinked(blocks, u, x)
    BY <1>1, <1>2, LinkingFacts DEF L2, Iterating
  <2> QED
    BY <2>1 DEF HasLinked, L2
<1> DEFINE b == x[u + 1].block
<1>4. /\ \A i \in 1 .. L2 : blocks[i].id \in DOMAIN F /\ blocks[i].id \in Nat /\ blocks[i].id # 0
      /\ \A i \in 1 .. L2 : blocks[i].id \in I /\ blocks[i].block \in B
  <2>1. \A i \in 1 .. L2 : blocks[i].id \in DOMAIN F
    BY <1>1 DEF Distinct, L2
  <2>2. \A i \in 1 .. L2 : blocks[i] \in [id : I, block : B]
    <3> DEFINE W == [id : I, block : B]
    <3>1. blocks \in Seq(W)
      BY <1>1
    <3> HIDE DEF W
    <3>2. \A i \in 1 .. L2 : blocks[i] \in W
      BY <3>1 DEF L2
    <3> QED
      BY <3>2 DEF W
  <2>3. DOMAIN F \subseteq Nat
    BY <1>1, FormedFacts
  <2> QED
    BY <1>1, <2>1, <2>2, <2>3
<1>5. /\ b \in Blocks(setting) /\ b.prev \in DOMAIN F
      /\ b.cells = blocks[u + 1].block.cells
      /\ u = 0 => b.prev = 0 /\ ~ b.deleted
      /\ u # 0 => b.prev # 0
  <2> DEFINE old == blocks[u + 1].block
             m == blocks[u].id
  <2>1. old \in Blocks(setting) /\ old.prev \in DOMAIN F
    BY <1>1 DEF FormedBlock
  <2>2. CASE u = 0
    BY <1>1, <1>3, <2>1, <2>2
  <2>3. CASE u # 0
    <3>1. m \in Nat /\ m \in DOMAIN F /\ m # 0 /\ b = Backlinked(old, m)
      BY <1>2, <1>3, <1>4, <2>3
    <3> HIDE DEF m, old, b
    <3>2. b \in Blocks(setting) /\ b.prev = m /\ b.cells = old.cells
      BY <2>1, <3>1, BacklinkedFacts
    <3> QED
      BY <2>3, <3>1, <3>2 DEF old
  <2> QED
    BY <2>2, <2>3
<1> HIDE DEF b
<1>6. /\ t \in Blocks(setting) /\ t.next = 0 /\ Used(t) = chunk /\ t.size = Len(chunk)
      /\ t.prev = b.prev /\ t.deleted = b.deleted /\ t.cells = Fill(b, chunk).cells
      /\ u = 0 => t.length = Len(data)
  <2>1. t = Targeted(Fill(b, chunk), u, data)
    BY DEF b, Iterating
  <2> QED
    BY <1>5, <2>1, TargetFacts
<1>7. FormedBlock(setting, F, t)
  <2>1. 0 \in DOMAIN F
    BY <1>1, FormedFacts
  <2> QED
    BY <1>5, <1>6, <2>1 DEF FormedBlock
<1>8. /\ open2 = [i \in 1 .. L2 |-> open2[i]]
      /\ \A i \in 1 .. L2 : open2[i] = IF i = u + 1 THEN [id |-> x[i].id, block |-> t] ELSE x[i]
  <2> DEFINE p == x[u + 1]
             k == p.id
  <2>1. open2 = [x EXCEPT ![u + 1] = [p EXCEPT !.block = t]]
    BY DEF Iterating
  <2>2. [p EXCEPT !.block = t] = [id |-> k, block |-> t]
    <3>1. p = [id |-> k, block |-> b]
      BY <1>2, <1>3 DEF b
    <3> HIDE DEF p, k
    <3>2. [[id |-> k, block |-> b] EXCEPT !.block = t] = [id |-> k, block |-> t]
      OBVIOUS
    <3> QED
      BY <3>1, <3>2, Zenon
  <2>3. open2 = [x EXCEPT ![u + 1] = [id |-> k, block |-> t]]
    BY <2>1, <2>2, Zenon
  <2> HIDE DEF p, k
  <2>4. /\ open2 = [i \in 1 .. L2 |-> open2[i]]
        /\ open2[u + 1] = [id |-> k, block |-> t]
        /\ \A i \in 1 .. L2 : i # u + 1 => open2[i] = x[i]
    BY <1>2, <1>3, <2>3
  <2> QED
    BY <2>4 DEF k, p
<1>9. \A i \in 1 .. L2 : /\ open2[i].id = blocks[i].id
                         /\ open2[i].block = IF i = u + 1 THEN t ELSE x[i].block
                         /\ open2[i] = [id |-> open2[i].id, block |-> open2[i].block]
  <2> TAKE i \in 1 .. L2
  <2>1. CASE i = u + 1
    <3> DEFINE k == x[i].id
    <3>1. open2[i] = [id |-> k, block |-> t] /\ k = blocks[i].id
      BY <1>3, <1>8, <2>1
    <3> HIDE DEF k
    <3>2. open2[i].id = k /\ open2[i].block = t
      BY <3>1
    <3> QED
      BY <2>1, <3>1, <3>2
  <2>2. CASE i # u + 1
    <3>1. open2[i] = x[i]
      BY <1>8, <2>2
    <3> QED
      BY <1>3, <2>2, <3>1
  <2> QED
    BY <2>1, <2>2
<1>10. Len(open2) = L2
  BY <1>1, <1>8
<1>11. \A i \in 1 .. L2 : open2[i].block \in B
  <2> TAKE i \in 1 .. L2
  <2>1. CASE i = u + 1
    BY <1>6, <1>9, <2>1 DEF B
  <2>2. CASE i = u /\ u # 0
    <3> DEFINE old == blocks[u].block
               m == blocks[u + 1].id
               q == open2[i].block
    <3>1. old \in Blocks(setting) /\ m \in Nat
      BY <1>2, <1>4, <2>2 DEF B
    <3>3. q = Relinked(old, m)
      <4>1. x[u].block = Relinked(old, m)
        BY <1>3, <2>2
      <4>2. q = x[u].block
        <5>1. u \in 1 .. L2 /\ u # u + 1
          BY <1>2, <2>2
        <5>2. open2[u].block = x[u].block
          BY <1>9, <5>1
        <5> QED
          BY <2>2, <5>2
      <4> QED
        BY <4>1, <4>2
    <3> HIDE DEF old, m, q
    <3>2. q \in Blocks(setting)
      BY <3>1, <3>3, RelinkedFacts
    <3> QED
      BY <3>2 DEF q, B
  <2>3. CASE i \notin {u, u + 1}
    BY <1>3, <1>4, <1>9, <2>3
  <2> QED
    BY <2>1, <2>2, <2>3
<1>s. ASSUME NEW i \in 1 .. L2, i # u + 1
      PROVE  open2[i].block.cells = blocks[i].block.cells
  <2>1. CASE i = u /\ u # 0
    <3> DEFINE q == blocks[u].block
               m == blocks[u + 1].id
    <3>1. q \in Blocks(setting) /\ m \in Nat
      BY <1>2, <1>4, <2>1 DEF B
    <3>2. x[u].block = Relinked(q, m) /\ open2[i].block = x[u].block
      BY <1>3, <1>9, <1>s, <2>1
    <3> HIDE DEF m, q
    <3>3. Relinked(q, m).cells = q.cells
      BY <3>1, RelinkedCells
    <3> QED
      BY <2>1, <3>2, <3>3 DEF q
  <2>2. CASE i \notin {u, u + 1}
    BY <1>3, <1>9, <2>2
  <2> QED
    BY <1>s, <2>1, <2>2, <1>2
<1>u. \A i \in 1 .. L2 : i # u + 1 => SameBeyond(setting, open2[i].block, F[open2[i].id])
  <2> TAKE i \in 1 .. L2
  <2> HAVE i # u + 1
  <2>1. /\ open2[i].id = blocks[i].id /\ open2[i].block.cells = blocks[i].block.cells
        /\ SameBeyond(setting, blocks[i].block, F[blocks[i].id])
    BY <1>1, <1>9, <1>s
  <2> QED
    BY <2>1 DEF SameBeyond
<1>v. /\ SameBeyond(setting, t, F[open2[u + 1].id]) \/ t.size > setting.sectorCells
      /\ t.size \in Nat
  <2> DEFINE c == F[open2[u + 1].id]
             f == Fill(b, chunk)
  <2>1. SameBeyond(setting, blocks[u + 1].block, c)
    BY <1>1, <1>2, <1>9
  <2> HIDE DEF c
  <2>2. SameBeyond(setting, b, c)
    BY <1>5, <2>1 DEF SameBeyond
  <2>3. (SameBeyond(setting, f, c) \/ f.size > setting.sectorCells) /\ f.size \in Nat
    BY <1>5, <2>2, FilledBeyond
  <2>4. f.size = Len(chunk)
    BY <1>5, FillFacts
  <2>5. t.size = f.size /\ t.cells = f.cells
    BY <1>6, <2>4
  <2> HIDE DEF f
  <2>6. SameBeyond(setting, t, c) \/ t.size > setting.sectorCells
    BY <2>3, <2>5 DEF SameBeyond
  <2> QED
    BY <2>3, <2>5, <2>6 DEF c
<1>12. open2 \in Seq([id : I, block : B])
  <2> DEFINE W == [id : I, block : B]
  <2>1. \A i \in 1 .. L2 : open2[i] \in W
    <3> TAKE i \in 1 .. L2
    <3> DEFINE k == open2[i].id
               q == open2[i].block
    <3>1. open2[i] = [id |-> k, block |-> q] /\ k \in I /\ q \in B
      BY <1>4, <1>9, <1>11
    <3> HIDE DEF k, q
    <3> QED
      BY <3>1
  <2> HIDE DEF W
  <2>3. L2 \in Nat /\ open2 = [i \in 1 .. L2 |-> open2[i]]
    BY <1>1, <1>8
  <2>2. open2 \in Seq(W)
    BY <2>1, <2>3
  <2> QED
    BY <2>2 DEF W
<1>13. {open2[i].id : i \in 1 .. L2} = {blocks[i].id : i \in 1 .. L2}
  BY <1>9
<1>14. Distinct(F, open2)
  <2>1. \A i, j \in 1 .. L2 : blocks[i].id = blocks[j].id => i = j
    BY <1>1 DEF Distinct, L2
  <2> QED
    BY <1>1, <1>4, <1>9, <1>10, <2>1 DEF Distinct
<1>15. Writes(setting, F, open, open2, u, t, chunk, data)
  <2>1. \A i \in 1 .. L : /\ open2[i].id = open[i].id
                          /\ i \notin {u, u + 1} => open2[i].block = open[i].block
    <3> TAKE i \in 1 .. L
    <3>1. i \in 1 .. L2 /\ blocks[i] = open[i]
      BY <1>1, <1>2
    <3>2. open2[i].id = blocks[i].id /\ (i # u + 1 => open2[i].block = x[i].block)
      BY <1>9, <3>1
    <3>3. i \notin {u, u + 1} => x[i] = blocks[i]
      BY <1>3, <3>1
    <3> QED
      BY <3>1, <3>2, <3>3
  <2>2. u # 0 => open2[u].block = Relinked(open[u].block, open2[u + 1].id)
    <3>1. ASSUME u # 0
          PROVE  /\ open2[u].block = x[u].block /\ blocks[u] = open[u]
                 /\ open2[u + 1].id = blocks[u + 1].id
      <4>1. u \in 1 .. L2 /\ u \in 1 .. L /\ u + 1 \in 1 .. L2 /\ u # u + 1
        BY <1>2, <3>1
      <4>2. blocks[u] = open[u]
        BY <1>1, <4>1
      <4>3. open2[u].block = x[u].block /\ open2[u + 1].id = blocks[u + 1].id
        BY <1>9, <4>1
      <4> QED
        BY <4>2, <4>3
    <3> QED
      BY <1>3, <3>1
  <2>3. open2[u + 1].block = t
    BY <1>2, <1>9
  <2>4. IF u = 0 THEN t.length = Len(data) ELSE t.prev # 0
    BY <1>5, <1>6
  <2>5. \A i \in 1 .. L2 : open2[i].id \notin Tracking(F) \cup {0}
    BY <1>1, <1>9
  <2> QED
    BY <1>1, <1>6, <1>7, <1>10, <1>14, <2>1, <2>2, <2>3, <2>4, <2>5 DEF Writes, L
<1>16. HasIterated(setting, R, all, F, open, open2, u, t, chunk, data)
  BY <1>1, <1>5, <1>6, <1>10, <1>12, <1>13, <1>15, <1>u, <1>v DEF I, B, HasIterated
<1>17. open2[u + 1].id = blocks[u + 1].id
  BY <1>2, <1>9
<1> QED
  BY <1>16, <1>17


(* What the iteration writes beyond the first sector of its block.         *)
HasWritten(s, R, H, all, E, ws, F, open, open2, u, t, chunk, data, Z) ==
  /\ Pending(s, E, ws, Z, R, H, {})
  /\ Kept(s, Z, R, H) /\ DOMAIN Z = DOMAIN F
  /\ Held(Z, R, {open2[i].id : i \in 1 .. Len(open2)}, all)
  /\ Writes(s, Z, open, open2, u, t, chunk, data)
  /\ Settled(s, Z, open2)
  /\ \A i \in 1 .. Len(open) : i # u + 1 => Z[open[i].id] = F[open[i].id]

LEMMA IterationWritten ==
  ASSUME setting \in Setting, NEW E, NEW R, NEW H, NEW all, NEW ws, NEW F,
         NEW open, NEW open2, NEW u, NEW t, NEW chunk, NEW data,
         HasIterated(setting, R, all, F, open, open2, u, t, chunk, data),
         Kept(setting, F, R, H), Pending(setting, E, ws, F, R, H, {}),
         NEW k, k = open2[u + 1].id, NEW Z, Z = Outer(setting, F, k, t, t.size)
  PROVE  HasWritten(setting, R, H, all, E, ws \o Beyond(k, t, t.size), F, open, open2, u, t,
                    chunk, data, Z)
<1> DEFINE L == Len(open2)
           M == {open2[i].id : i \in 1 .. L}
<1>1. /\ Writes(setting, F, open, open2, u, t, chunk, data) /\ Held(F, R, M, all)
      /\ L \in Nat /\ t \in Blocks(setting) /\ t.size \in Nat
      /\ SameBeyond(setting, t, F[k]) \/ t.size > setting.sectorCells
      /\ \A i \in 1 .. L : i # u + 1 => SameBeyond(setting, open2[i].block, F[open2[i].id])
  BY DEF HasIterated
<1>2. /\ Len(open) \in Nat /\ u \in 0 .. Len(open) /\ Distinct(F, open2) /\ open2[u + 1].block = t
      /\ IF u = Len(open) THEN L = u + 1 ELSE L = Len(open)
      /\ \A i \in 1 .. Len(open) : open2[i].id = open[i].id
  BY <1>1 DEF Writes
<1>3. u + 1 \in 1 .. L /\ \A i \in 1 .. Len(open) : i \in 1 .. L
  BY <1>2
<1>4. k \in M /\ k \in DOMAIN F /\ Formed(setting, F)
  BY <1>2, <1>3 DEF Distinct, Kept
<1>5. \A i \in 1 .. L : i # u + 1 => open2[i].id # k /\ open2[i].id \in DOMAIN F
  BY <1>2, <1>3 DEF Distinct
<1> HIDE DEF M
<1>6. /\ Kept(setting, Z, R, H) /\ Held(Z, R, M, all) /\ Fine(setting, Z, R, H, {})
      /\ Tracking(Z) = Tracking(F) /\ DOMAIN Z = DOMAIN F
      /\ \A m \in DOMAIN F : m # k => Z[m] = F[m]
  BY <1>1, <1>4, OuterHeld
<1>7. SameBeyond(setting, t, Z[k])
  BY <1>1, <1>4, OuterFacts
<1>8. Pending(setting, E, ws \o Beyond(k, t, t.size), Z, R, H, {})
  <2>1. Fine(setting, Outer(setting, F, k, t, t.size), R, H, {})
    BY <1>6
  <2> HIDE DEF L
  <2>2. Pending(setting, E, ws \o Beyond(k, t, t.size), Outer(setting, F, k, t, t.size), R, H, {})
    BY <1>1, <1>4, <2>1, PendingBeyond
  <2> QED
    BY <2>2
<1>9. Writes(setting, Z, open, open2, u, t, chunk, data)
  <2>1. FormedBlock(setting, F, t) /\ Distinct(F, open2)
    BY <1>1 DEF Writes
  <2>2. FormedBlock(setting, Z, t) /\ Distinct(Z, open2)
    BY <1>6, <2>1 DEF FormedBlock, Distinct
  <2> QED
    BY <1>1, <1>6, <2>2 DEF Writes
<1>10. Settled(setting, Z, open2)
  <2>1. ASSUME NEW i \in 1 .. L
        PROVE  SameBeyond(setting, open2[i].block, Z[open2[i].id])
    <3>1. CASE i = u + 1
      BY <1>2, <1>7, <3>1
    <3>2. CASE i # u + 1
      BY <1>1, <1>5, <1>6, <3>2
    <3> QED
      BY <3>1, <3>2
  <2> QED
    BY <2>1 DEF Settled
<1>11. \A i \in 1 .. Len(open) : i # u + 1 => Z[open[i].id] = F[open[i].id]
  BY <1>2, <1>3, <1>5, <1>6
<1> QED
  BY <1>6, <1>8, <1>9, <1>10, <1>11 DEF M, HasWritten

LEMMA UpdateWriteKeeps ==
  ASSUME IInv, ~ torn, UpdateWrite, setting' = setting
  PROVE  IInv'
<1> DEFINE u == op.used
           open == op.open
           grow == u = Len(open)
           a == AllocateBlock(disk)
           blocks == IF grow THEN Append(open, a.block) ELSE open
           chunk == Chunk(op.rest)
           rest == Remainder(op.rest)
           x == Linking(blocks, u)
           t == Targeted(Fill(x[u + 1].block, chunk), u, op.data)
           open2 == [x EXCEPT ![u + 1].block = t]
           k == blocks[u + 1].id
           beyond == Beyond(k, t, t.size)
           first == IF grow THEN a.writes ELSE <<>>
           all == crashes = 0
           o2 == op'
           R == Others(stored, op.record)
           H == gone \ {op.record}
           E == IF grow THEN a.disk ELSE disk
<1>0. /\ op.name = "update" /\ writes = <<>> /\ op.rest # <<>>
      /\ UNCHANGED <<stored, gone, crashes, torn>>
      /\ disk' = E /\ writes' = first \o beyond
      /\ op' = [op EXCEPT !.rest = rest, !.used = u + 1, !.open = open2]
  BY Zenon DEF UpdateWrite, Running, Linking, Targeted
<1>1. /\ setting \in Setting /\ Consistent(setting, disk, op, stored, gone, all)
      /\ Settled(setting, disk, open)
      /\ op \in Operation(setting, disk)
  BY <1>0, InvRunning
<1>2. a.block = Opened(a.block.id, a.block.block)
  BY DEF AllocateBlock, Opened
<1> HIDE DEF all, a
<1>3. /\ UpdatingAs(setting, disk, R, op, all, u) /\ Kept(setting, disk, R, H)
  BY <1>0, <1>1, UpdateUnfolds
<1> HIDE DEF R, H
<1>4. \E F : Grown(setting, disk, R, H, all, E, first, F, open, blocks, u)
  <2>1. CASE grow
    <3>1. PICK F : Allocation(setting, disk, R, H, a, F)
      BY <1>1, <1>3, AllocationKeeps DEF a
    <3>2. E = a.disk /\ first = a.writes /\ blocks = Append(open, a.block)
      BY <2>1
    <3> HIDE DEF E, first, blocks
    <3>3. Grown(setting, disk, R, H, all, a.disk, a.writes, F, open, blocks, u)
      BY <1>1, <1>2, <1>3, <2>1, <3>1, <3>2, Grows
    <3>4. Grown(setting, disk, R, H, all, E, first, F, open, blocks, u)
      BY <3>2, <3>3
    <3> QED
      BY <3>4, Zenon
  <2>2. CASE ~ grow
    <3>1. E = disk /\ first = <<>> /\ blocks = open
      BY <2>2
    <3> HIDE DEF E, first, blocks
    <3>2. Grown(setting, disk, R, H, all, disk, <<>>, disk, open, open, u)
      BY <1>1, <1>3, <2>2, GrowsNot
    <3>3. Grown(setting, disk, R, H, all, E, first, disk, open, blocks, u)
      BY <3>1, <3>2
    <3> QED
      BY <3>3, Zenon
  <2> QED
    BY <2>1, <2>2
<1>f. PICK F : Grown(setting, disk, R, H, all, E, first, F, open, blocks, u)
  BY <1>4
<1> HIDE DEF blocks, E, first, grow
<1>5. /\ op.rest \in Seq(Cells(setting)) /\ op.data \in setting.payload
      /\ Len(op.data) \in Nat
  <2>1. op.rest \in Seq(Cells(setting)) /\ op.data \in setting.payload
    BY <1>1, <1>3 DEF Operation, UpdatingAs
  <2> QED
    BY <1>1, <2>1, PayloadFacts
<1>6. /\ chunk \in Seq(Cells(setting)) /\ Len(chunk) <= setting.contentSize
      /\ Len(chunk) \in Nat /\ rest \in Seq(Cells(setting)) /\ chunk \o rest = op.rest
  BY <1>1, <1>5, ChunkFacts
<1> HIDE DEF chunk, rest
<1>7. Iterating(blocks, u, chunk, op.data, x, t, open2)
  BY DEF Iterating
<1> DEFINE d == op.data
<1> HIDE DEF x, t, open2
<1>8. HasIterated(setting, R, all, F, open, open2, u, t, chunk, d) /\ open2[u + 1].id = k
  <2>1. Len(d) \in Nat /\ Iterating(blocks, u, chunk, d, x, t, open2)
    BY <1>5, <1>7
  <2>2. setting \in Setting /\ chunk \in Seq(Cells(setting)) /\ Len(chunk) <= setting.contentSize
    BY <1>1, <1>6
  <2> HIDE DEF d, u, open
  <2>3. HasIterated(setting, R, all, F, open, open2, u, t, chunk, d)
    BY <1>f, <2>1, <2>2, Iterates, Zenon
  <2>4. open2[u + 1].id = blocks[u + 1].id
    BY <1>f, <2>1, <2>2, Iterates
  <2> QED
    BY <2>3, <2>4
<1>9. /\ Pending(setting, E, first, F, R, H, {}) /\ Kept(setting, F, R, H)
      /\ DOMAIN disk \subseteq DOMAIN F /\ u \in Nat
      /\ \A i \in 1 .. Len(open) : F[open[i].id] = disk[open[i].id]
  BY <1>f DEF Grown
<1> HIDE DEF k
<1> DEFINE Z == Outer(setting, F, k, t, t.size)
<1>10. /\ Pending(setting, E, first \o beyond, Z, R, H, {})
       /\ Kept(setting, Z, R, H) /\ DOMAIN Z = DOMAIN F
       /\ Held(Z, R, {open2[i].id : i \in 1 .. Len(open2)}, all)
       /\ Writes(setting, Z, open, open2, u, t, chunk, d)
       /\ Settled(setting, Z, open2)
       /\ \A i \in 1 .. Len(open) : i # u + 1 => Z[open[i].id] = F[open[i].id]
  <2> DEFINE v == u
             p == open
  <2>1. k = open2[v + 1].id
    BY <1>8
  <2>2. HasIterated(setting, R, all, F, p, open2, v, t, chunk, d)
    BY <1>8
  <2>3. Z = Outer(setting, F, k, t, t.size) /\ beyond = Beyond(k, t, t.size)
    OBVIOUS
  <2> HIDE DEF v, p, d, Z, beyond
  <2>4. HasWritten(setting, R, H, all, E, first \o Beyond(k, t, t.size), F, p, open2, v, t,
                   chunk, d, Z)
    BY <1>1, <1>9, <2>1, <2>2, <2>3, IterationWritten
  <2>5. HasWritten(setting, R, H, all, E, first \o beyond, F, p, open2, v, t, chunk, d, Z)
    BY <2>3, <2>4, Zenon
  <2> QED
    BY <2>5, Zenon DEF HasWritten, v, p
<1> HIDE DEF Z, beyond
<1>11. /\ open2 \in Seq([id : DOMAIN Z, block : Blocks(setting)]) /\ Len(open2) \in Nat
       /\ (u = 0 => ~ t.deleted /\ t.prev = 0) /\ DOMAIN disk \subseteq DOMAIN Z
  BY <1>8, <1>9, <1>10 DEF HasIterated
<1>12. /\ o2 \in Operation(setting, Z) /\ o2.name = "update" /\ o2.record = op.record
       /\ o2.data = op.data /\ o2.rest = rest /\ o2.open = open2 /\ o2.used = u + 1
  <2> DEFINE v == u + 1
  <2>1. Fields(setting, disk, op, op.name, op.record, op.data, op.rest, op.open, op.used)
    BY <1>1, OperationFields
  <2>2. v \in Nat /\ "update" \in {"idle", "create", "delete", "update", "return"}
    BY <1>9
  <2>3. o2 = [name |-> "update", record |-> op.record, data |-> op.data, rest |-> rest,
              open |-> open2, used |-> v]
    BY <1>0, <2>1 DEF Fields
  <2> HIDE DEF v, o2
  <2>4. Continuing(setting, disk, Z, op, o2, "update", rest, open2, v)
    BY <1>1, <1>6, <1>11, <2>2, <2>3 DEF Continuing
  <2>5. /\ o2 \in Operation(setting, Z) /\ o2.name = "update" /\ o2.record = op.record
        /\ o2.data = op.data /\ o2.rest = rest /\ o2.open = open2 /\ o2.used = v
    BY <2>4, NextOperation
  <2> QED
    BY <2>5 DEF v
<1> HIDE DEF o2
<1>13. UpdatesBlock(setting, disk, R, H, op, all, Z, o2, t, chunk)
  <2>1. Parts(setting, op.rest, chunk, o2.rest)
    BY <1>6, <1>12 DEF Parts
  <2>2. \A i \in 1 .. Len(op.open) : i # op.used + 1 => Z[op.open[i].id] = disk[op.open[i].id]
    BY <1>9, <1>10
  <2> QED
    BY <1>10, <1>11, <1>12, <2>1, <2>2 DEF UpdatesBlock
<1>14. Consistent(setting, Z, o2, stored, gone, all)
  BY <1>0, <1>1, <1>13, UpdateGoesOn DEF R, H
<1>15. Underway(setting, E, first \o beyond, Z, o2, stored, gone, all)
  BY <1>10, <1>12, <1>14 DEF Underway, R, H
<1>16. Underway(setting, disk', writes', Z, op', stored, gone, crashes = 0)
  BY <1>0, <1>15 DEF o2, all
<1> QED
  BY <1>0, <1>16, InvStep

-----------------------------------------------------------------------------
(* The invariant holds always.                                             *)

LEMMA InvInit == Init => IInv
<1> SUFFICES ASSUME Init PROVE IInv
  OBVIOUS
<1>1. /\ setting \in Setting /\ disk = <<>> /\ writes = <<>> /\ op = Idle /\ stored = <<>>
      /\ gone = {} /\ crashes = 0 /\ torn = FALSE
  BY DEF Init
<1>2. 0 \in 0 .. MaxCrashes
  BY <1>1, SettingAssumption DEF MaxCrashes
<1>3. <<>> \in [DOMAIN <<>> -> Payload]
  OBVIOUS
<1>4. Intact
  BY <1>1, <1>3 DEF Intact
<1> QED
  BY <1>1, <1>2, <1>4 DEF IInv

LEMMA InvUnchanged ==
  ASSUME IInv, UNCHANGED vars
  PROVE  IInv'
<1>1. /\ setting' = setting /\ disk' = disk /\ writes' = writes /\ op' = op /\ stored' = stored
      /\ gone' = gone /\ crashes' = crashes /\ torn' = torn
  BY DEF vars
<1>2. /\ setting' \in Setting /\ crashes' \in 0 .. MaxCrashes'
      /\ torn' \in BOOLEAN /\ (crashes' = 0 => ~ torn')
  BY <1>1, Zenon DEF IInv, MaxCrashes
<1>3. ASSUME ~ torn' PROVE Intact'
  <2>1. Intact
    BY <1>1, <1>3 DEF IInv
  <2>2. stored' \in [DOMAIN stored' -> Payload']
    BY <1>1, <2>1, Zenon DEF Intact, Payload
  <2>3. CASE disk = <<>>
    <3>1. writes = <<>> /\ op = Idle /\ stored = <<>> /\ gone = {}
      BY <2>1, <2>3 DEF Intact
    <3> QED
      BY <1>1, <2>2, <2>3, <3>1 DEF Intact, Idle
  <2>4. CASE disk # <<>>
    <3>1. PICK F : Underway(setting, disk, writes, F, op, stored, gone, crashes = 0)
      BY <2>1, <2>4, Zenon DEF Intact
    <3>2. Underway(setting', disk', writes', F, op', stored', gone', crashes' = 0)
      BY <1>1, <3>1
    <3>3. disk' # <<>>
      BY <1>1, <2>4
    <3> QED
      BY <2>2, <3>2, <3>3, Zenon DEF Intact
  <2> QED
    BY <2>3, <2>4
<1> QED
  BY <1>2, <1>3, Zenon DEF IInv

LEMMA InvNext ==
  ASSUME IInv, [Next]_vars
  PROVE  IInv'
<1>1. CASE UNCHANGED vars
  BY <1>1, InvUnchanged
<1>2. CASE Next /\ torn
  BY <1>2, TornStays
<1>3. CASE Next /\ ~ torn
  <2>0. setting' = setting
    BY <1>3 DEF Next
  <2>1. ASSUME NEW data \in Payload, Create(data) PROVE IInv'
    BY <1>3, <2>0, <2>1, CreateKeeps
  <2>2. ASSUME NEW id \in DOMAIN disk, Delete(id) PROVE IInv'
    BY <1>3, <2>0, <2>2, DeleteKeeps
  <2>3. ASSUME NEW id \in DOMAIN disk, NEW data \in Payload, Update(id, data) PROVE IInv'
    BY <1>3, <2>0, <2>3, UpdateKeeps
  <2>4. CASE CreateWrite
    BY <1>3, <2>0, <2>4, CreateWriteKeeps
  <2>5. CASE DeleteBlock
    BY <1>3, <2>0, <2>5, DeleteBlockKeeps
  <2>6. CASE UpdateWrite
    BY <1>3, <2>0, <2>6, UpdateWriteKeeps
  <2>7. CASE UpdateFree
    BY <1>3, <2>0, <2>7, UpdateFreeKeeps
  <2>8. CASE UpdateDispose
    BY <1>3, <2>0, <2>8, UpdateDisposeKeeps
  <2>9. CASE Flush
    BY <1>3, <2>0, <2>9, FlushKeeps
  <2>10. CASE Return
    BY <1>3, <2>0, <2>10, ReturnKeeps
  <2>11. CASE Crash
    BY <1>3, <2>0, <2>11, CrashKeeps
  <2> QED
    BY <1>3, <2>1, <2>2, <2>3, <2>4, <2>5, <2>6, <2>7, <2>8, <2>9, <2>10, <2>11 DEF Next, Step
<1> QED
  BY <1>1, <1>2, <1>3

(* The invariant: as long as no process has ended in the middle of an       *)
(* exchange (Block.Write and Block.Dispose in TryFindFreeBlock), the writes *)
(* under way lead, over streams that can each be read, to one on which the  *)
(* blocks are those of the free list, of the records and of the operation.  *)
THEOREM Invariance == Spec => []IInv
<1>1. Init => IInv
  BY InvInit
<1>2. IInv /\ [Next]_vars => IInv'
  BY InvNext
<1> QED
  BY <1>1, <1>2, PTL DEF Spec

-----------------------------------------------------------------------------
(* What the invariant says.                                                *)

LEMMA InvStream ==
  ASSUME IInv, ~ torn, disk # <<>>
  PROVE  /\ setting \in Setting /\ Formed(setting, disk)
         /\ Fine(setting, disk, Others(stored, op.record), gone \ {op.record}, {})
         /\ writes \in Seq(WriteTo(setting, disk))
         /\ op.name \in {"idle", "create", "delete", "update", "return"}
         /\ DOMAIN stored \cup gone \subseteq DOMAIN disk \ {0}
<1>1. PICK F : Underway(setting, disk, writes, F, op, stored, gone, crashes = 0)
  BY Zenon DEF IInv, Intact
<1>2. setting \in Setting
  BY DEF IInv
<1>3. Pending(setting, disk, writes, F, Others(stored, op.record), gone \ {op.record}, {})
  BY <1>1, Zenon DEF Underway
<1>4. op \in Operation(setting, F) /\ DOMAIN stored \cup gone \subseteq DOMAIN F \ {0}
  BY <1>1, Zenon DEF Underway, Consistent
<1>5. /\ writes \in Seq(WriteTo(setting, disk)) /\ DOMAIN F = DOMAIN disk /\ Formed(setting, disk)
      /\ Fine(setting, disk, Others(stored, op.record), gone \ {op.record}, {})
  BY <1>3, PendingFacts
<1>6. op.name \in {"idle", "create", "delete", "update", "return"}
  BY <1>4 DEF Operation
<1> QED
  BY <1>2, <1>4, <1>5, <1>6

LEMMA InvTypeOK == IInv /\ ~ torn => TypeOK
<1> SUFFICES ASSUME IInv, ~ torn PROVE TypeOK
  OBVIOUS
<1>1. /\ setting \in Setting /\ crashes \in 0 .. MaxCrashes /\ Range(stored) \subseteq Payload
  BY DEF IInv, Intact, Range
<1>2. CASE disk = <<>>
  <2>1. writes = <<>> /\ op = Idle /\ stored = <<>> /\ gone = {}
    BY <1>2 DEF IInv, Intact
  <2>2. Len(writes) = 0 /\ DOMAIN stored = {} /\ DOMAIN disk = {} /\ op.name = "idle"
    BY <1>2, <2>1 DEF Idle
  <2>3. Size(disk) = 0 /\ {} = 0 .. 0 - 1
    BY <2>2, FS_EmptySet DEF Size
  <2> QED
    BY <1>1, <2>1, <2>2, <2>3 DEF TypeOK
<1>3. CASE disk # <<>>
  <2>1. /\ Formed(setting, disk) /\ writes \in Seq(WriteTo(setting, disk))
        /\ op.name \in {"idle", "create", "delete", "update", "return"}
        /\ DOMAIN stored \cup gone \subseteq DOMAIN disk \ {0}
    BY <1>3, InvStream
  <2>2. BlockType = Blocks(setting)
    BY DEF BlockType, Blocks, Cells, BlockContentSize, Payload
  <2>3. /\ DOMAIN disk = 0 .. Size(disk) - 1
        /\ \A id \in DOMAIN disk :
             /\ disk[id] \in BlockType
             /\ disk[id].next \in DOMAIN disk /\ disk[id].prev \in DOMAIN disk
    BY <1>1, <2>1, <2>2, FormedFacts
  <2>4. \A i \in 1 .. Len(writes) : writes[i].id \in DOMAIN disk /\ writes[i].block \in BlockType
    <3> DEFINE W == WriteTo(setting, disk)
    <3>1. \A w \in W : w.id \in DOMAIN disk /\ w.block \in BlockType
      BY <2>2 DEF WriteTo
    <3>2. writes \in Seq(W)
      BY <2>1
    <3> HIDE DEF W
    <3> QED
      BY <3>1, <3>2
  <2> QED
    BY <1>1, <2>1, <2>3, <2>4 DEF TypeOK
<1> QED
  BY <1>2, <1>3

LEMMA InvRecordsReadBack == IInv => RecordsReadBack
<1> SUFFICES ASSUME IInv, ~ torn, NEW id \in DOMAIN stored, id # op.record
             PROVE  Lookup(disk, id) = stored[id]
  BY DEF RecordsReadBack
<1>1. disk # <<>>
  BY DEF IInv, Intact
<1>2. Fine(setting, disk, Others(stored, op.record), gone \ {op.record}, {})
  BY <1>1, InvStream
<1>3. id \in DOMAIN Others(stored, op.record) /\ Others(stored, op.record)[id] = stored[id]
  BY DEF Others
<1> QED
  BY <1>2, <1>3 DEF Fine

LEMMA InvGoneStaysGone == IInv => GoneStaysGone
<1> SUFFICES ASSUME IInv, ~ torn, NEW id \in gone, id # op.record
             PROVE  Lookup(disk, id) = NoData
  BY DEF GoneStaysGone
<1>1. disk # <<>>
  BY DEF IInv, Intact
<1>2. Fine(setting, disk, Others(stored, op.record), gone \ {op.record}, {})
  BY <1>1, InvStream
<1>3. disk[id].deleted \/ disk[id].prev # 0
  BY <1>2 DEF Fine, Left
<1> QED
  BY <1>3 DEF Lookup

LEMMA InvFreeListReadable == IInv => FreeListReadable
<1> SUFFICES ASSUME IInv, ~ torn, disk # <<>> PROVE FreeListReadable
  BY DEF FreeListReadable
<1> DEFINE chain == Chain(disk, 0)
<1>1. /\ setting \in Setting /\ Linked(disk, chain) /\ Sealed(setting, disk)
  BY InvStream DEF Fine, Chained
<1>2. /\ Len(chain) \in Nat \ {0} /\ \A i \in 1 .. Len(chain) : chain[i] \in Tracking(disk)
  BY <1>1, MembersOfLinked DEF Tracking, Members
<1>3. IsInjective(chain) /\ \A i \in 1 .. Len(chain) - 1 : disk[chain[i]].next # 0
  BY <1>1 DEF Linked
<1> HIDE DEF chain
<1>4. \A i \in 1 .. Len(chain) : ~ disk[chain[i]].deleted
  BY <1>1, <1>2 DEF Sealed
<1>5. \A i \in 1 .. Len(chain) - 1 : disk[chain[i]].size = BlockContentSize
  BY <1>1, <1>2, <1>3 DEF Sealed, BlockContentSize
<1> QED
  BY <1>3, <1>4, <1>5 DEF FreeListReadable, chain

-----------------------------------------------------------------------------
(* Who owns the blocks between operations.                                 *)

(* Sequences with nothing in common and nothing twice, flattened.          *)
LEMMA FlattenApart ==
  ASSUME NEW C, NEW ss \in Seq(Seq(C)),
         \A i \in 1 .. Len(ss) : IsInjective(ss[i]),
         \A i, j \in 1 .. Len(ss) : i # j => Range(ss[i]) \cap Range(ss[j]) = {}
  PROVE  /\ FlattenSeq(ss) \in Seq(C) /\ IsInjective(FlattenSeq(ss))
         /\ Range(FlattenSeq(ss)) = UNION {Range(ss[i]) : i \in 1 .. Len(ss)}
<1>1. FlattenSeq(ss) \in Seq(C)
  BY FlattenType
<1>2. CASE ss = <<>>
  <2> DEFINE none == <<>>
  <2>1. FlattenSeq(ss) = none
    BY <1>2, FlattenEmpty
  <2>2. IsInjective(none) /\ Range(none) = {}
    BY DEF IsInjective, Range
  <2>3. UNION {Range(ss[i]) : i \in 1 .. Len(ss)} = {}
    <3>1. Len(ss) = 0
      BY <1>2
    <3>2. 1 .. Len(ss) = {}
      BY <3>1
    <3> QED
      BY <3>2
  <2> HIDE DEF none
  <2> QED
    BY <1>1, <2>1, <2>2, <2>3
<1>3. CASE ss # <<>>
  BY <1>1, <1>3, FlattenPrefixes
<1> QED
  BY <1>2, <1>3

(* An enumeration of a finite set has all of it, once.                     *)
LEMMA Enumerated ==
  ASSUME NEW S, IsFiniteSet(S)
  PROVE  /\ SetToSeq(S) \in Seq(S) /\ Len(SetToSeq(S)) \in Nat
         /\ IsInjective(SetToSeq(S)) /\ Range(SetToSeq(S)) = S
<1> DEFINE n == Cardinality(S)
           e == SetToSeq(S)
<1>1. n \in Nat /\ ExistsBijection(1 .. n, S)
  BY FS_CardinalityType
<1>2. PICK f \in [1 .. n -> S] : IsInjective(f)
  BY <1>1 DEF ExistsBijection, Bijection, Injection
<1>3. e \in [1 .. n -> S] /\ IsInjective(e)
  BY <1>2 DEF SetToSeq
<1> HIDE DEF e
<1>4. e \in Seq(S) /\ Len(e) = n /\ DOMAIN e = 1 .. n
  BY <1>1, <1>3
<1>5. Range(e) \subseteq S
  BY <1>3 DEF Range
<1>6. ExistsBijection(1 .. n, Range(e))
  <2>1. e \in [1 .. n -> Range(e)] /\ \A t \in Range(e) : \E i \in 1 .. n : e[i] = t
    BY <1>3, <1>4 DEF Range
  <2>2. e \in Bijection(1 .. n, Range(e))
    BY <1>3, <2>1 DEF Bijection, Injection, Surjection
  <2> QED
    BY <2>2 DEF ExistsBijection
<1>7. Cardinality(Range(e)) = n
  BY <1>1, <1>6, FS_CountingElements
<1>8. Range(e) = S
  BY <1>5, <1>7, FS_Subset
<1> QED
  BY <1>1, <1>3, <1>4, <1>8 DEF e

(* The free list has the numbers of the free blocks, each once.            *)
LEMMA FreeNumbers ==
  ASSUME NEW s \in Setting, NEW D, Formed(s, D), FreeList(s, D)
  PROVE  /\ Content(D, 0) \in Seq(DOMAIN D)
         /\ IsInjective(Content(D, 0)) /\ Range(Content(D, 0)) = Free(D)
<1> DEFINE c == Chain(D, 0)
           L == Len(c)
           ss == [i \in 1 .. L |-> Used(D[c[i]])]
           Numbers == DOMAIN D
<1>1. /\ Linked(D, c) /\ IsInjective(c) /\ Outside(D) /\ NoneTwice(D)
      /\ L \in Nat /\ DOMAIN c = 1 .. L
      /\ Tracking(D) = {c[i] : i \in 1 .. L} /\ Tracking(D) \subseteq DOMAIN D
      /\ \A i \in 1 .. L : c[i] \in Tracking(D)
  BY MembersOfLinked DEF FreeList, Chained, Linked, Tracking, Members
<1>2. Content(D, 0) = FlattenSeq(ss)
  BY DEF Content
<1> HIDE DEF c, L
<1>3. ASSUME NEW t \in Tracking(D)
      PROVE  /\ Used(D[t]) \in Seq(Numbers) /\ Len(Used(D[t])) = D[t].size /\ D[t].size \in Nat
             /\ DOMAIN Used(D[t]) = 1 .. D[t].size
             /\ \A j \in 1 .. D[t].size : Used(D[t])[j] = D[t].cells[j]
  <2> DEFINE u == Used(D[t])
             z == D[t].size
  <2>1. D[t] \in Blocks(s)
    BY <1>1, FormedFacts
  <2>2. /\ u \in Seq(Cells(s)) /\ Len(u) = z /\ z \in Nat
        /\ \A j \in 1 .. z : u[j] = D[t].cells[j]
    BY <2>1, UsedFacts, BlockFacts
  <2>3. \A j \in 1 .. z : D[t].cells[j] \in Numbers
    BY <1>1 DEF Outside
  <2> HIDE DEF u, z, Numbers
  <2>4. u = [j \in 1 .. z |-> u[j]] /\ DOMAIN u = 1 .. z
    BY <2>2
  <2>5. u \in Seq(Numbers)
    BY <2>2, <2>3, <2>4
  <2> QED
    BY <2>2, <2>4, <2>5 DEF u, z
<1> DEFINE V(i) == Used(D[c[i]])
<1>4. ss \in Seq(Seq(Numbers)) /\ Len(ss) = L /\ \A i \in 1 .. L : ss[i] = V(i)
  <2> DEFINE Q == Seq(Numbers)
  <2>1. \A i \in 1 .. L : V(i) \in Q
    BY <1>1, <1>3
  <2> HIDE DEF V, Q, Numbers
  <2>2. ss = [i \in 1 .. L |-> V(i)]
    BY DEF V
  <2> HIDE DEF ss
  <2> QED
    BY <1>1, <2>1, <2>2 DEF Q
<1> HIDE DEF ss
<1>m. ASSUME NEW i \in 1 .. L
      PROVE  /\ DOMAIN ss[i] = 1 .. D[c[i]].size
             /\ \A j \in 1 .. D[c[i]].size : ss[i][j] = D[c[i]].cells[j]
  <2> DEFINE t == c[i]
             v == ss[i]
  <2>1. t \in Tracking(D) /\ v = Used(D[t])
    BY <1>1, <1>4
  <2> HIDE DEF t, v
  <2>2. DOMAIN v = 1 .. D[t].size /\ \A j \in 1 .. D[t].size : v[j] = D[t].cells[j]
    BY <1>3, <2>1
  <2> QED
    BY <2>2 DEF t, v
<1>5. ASSUME NEW i \in 1 .. L PROVE IsInjective(ss[i])
  <2> DEFINE t == c[i]
             v == ss[i]
             z == D[t].size
  <2>1. t \in Tracking(D) /\ DOMAIN v = 1 .. z /\ \A j \in 1 .. z : v[j] = D[t].cells[j]
    BY <1>1, <1>m
  <2>2. \A j, k \in 1 .. z : D[t].cells[j] = D[t].cells[k] => j = k
    <3>1. t \in Tracking(D) /\ NoneTwice(D)
      BY <1>1, <2>1
    <3> HIDE DEF t, v
    <3> QED
      BY <3>1, Zenon DEF NoneTwice
  <2> HIDE DEF t, v, z
  <2>3. IsInjective(v)
    BY <2>1, <2>2 DEF IsInjective
  <2> QED
    BY <2>3 DEF v
<1>6. ASSUME NEW i \in 1 .. L, NEW n
      PROVE  n \in Range(ss[i]) <=> \E j \in 1 .. D[c[i]].size : D[c[i]].cells[j] = n
  <2> DEFINE t == c[i]
             v == ss[i]
             z == D[t].size
  <2>1. DOMAIN v = 1 .. z /\ \A j \in 1 .. z : v[j] = D[t].cells[j]
    BY <1>m
  <2> HIDE DEF t, v, z
  <2>2. n \in Range(v) <=> \E j \in 1 .. z : D[t].cells[j] = n
    BY <2>1 DEF Range
  <2> QED
    BY <2>2 DEF t, v, z
<1>7. ASSUME NEW i \in 1 .. L, NEW j \in 1 .. L, i # j PROVE Range(ss[i]) \cap Range(ss[j]) = {}
  <2>1. c[i] \in Tracking(D) /\ c[j] \in Tracking(D) /\ c[i] # c[j]
    BY <1>1, <1>7 DEF IsInjective
  <2> SUFFICES ASSUME NEW n, n \in Range(ss[i]), n \in Range(ss[j]) PROVE FALSE
    OBVIOUS
  <2>2. PICK k \in 1 .. D[c[i]].size : D[c[i]].cells[k] = n
    BY <1>6
  <2>3. PICK l \in 1 .. D[c[j]].size : D[c[j]].cells[l] = n
    BY <1>6
  <2> DEFINE t == c[i]
             u == c[j]
  <2>4. t \in Tracking(D) /\ u \in Tracking(D) /\ t # u /\ NoneTwice(D)
    BY <1>1, <2>1
  <2>5. k \in 1 .. D[t].size /\ l \in 1 .. D[u].size
    OBVIOUS
  <2>6. D[t].cells[k] = D[u].cells[l]
    BY <2>2, <2>3
  <2> HIDE DEF t, u
  <2> QED
    BY <2>4, <2>5, <2>6 DEF NoneTwice
<1>8. /\ FlattenSeq(ss) \in Seq(Numbers) /\ IsInjective(FlattenSeq(ss))
      /\ Range(FlattenSeq(ss)) = UNION {Range(ss[i]) : i \in 1 .. L}
  BY <1>4, <1>5, <1>7, FlattenApart
<1>9. UNION {Range(ss[i]) : i \in 1 .. L} = Free(D)
  <2>1. ASSUME NEW n \in UNION {Range(ss[i]) : i \in 1 .. L} PROVE n \in Free(D)
    <3>1. PICK i \in 1 .. L : n \in Range(ss[i])
      OBVIOUS
    <3>2. PICK j \in 1 .. D[c[i]].size : D[c[i]].cells[j] = n
      BY <1>6, <3>1
    <3>3. c[i] \in Tracking(D)
      BY <1>1
    <3>4. D[c[i]].cells[j] \in Free(D)
      BY <1>1, <3>3, NumbersAreFree
    <3> QED
      BY <3>2, <3>4
  <2>2. ASSUME NEW n \in Free(D) PROVE n \in UNION {Range(ss[i]) : i \in 1 .. L}
    <3>1. PICK t \in Tracking(D) : \E j \in 1 .. D[t].size : D[t].cells[j] = n
      BY DEF Free
    <3>2. PICK i \in 1 .. L : t = c[i]
      BY <1>1
    <3> QED
      BY <1>6, <3>1, <3>2
  <2> QED
    BY <2>1, <2>2
<1> QED
  BY <1>2, <1>8, <1>9

(* The chains of records that share no block, one behind the other.        *)
Chains(D, e) == [i \in 1 .. Len(e) |-> Chain(D, e[i])]

LEMMA RecordBlocks ==
  ASSUME NEW D, NEW R, Apart(D, R), NEW e \in Seq(DOMAIN R), IsInjective(e),
         Range(e) = DOMAIN R, NEW ss, ss = Chains(D, e)
  PROVE  /\ FlattenSeq(ss) \in Seq(DOMAIN D)
         /\ IsInjective(FlattenSeq(ss)) /\ Range(FlattenSeq(ss)) = InRecords(D, R)
<1> DEFINE N == Len(e)
           B == DOMAIN D
<1>1. /\ N \in Nat /\ DOMAIN e = 1 .. N
      /\ \A i \in 1 .. N : e[i] \in DOMAIN R
      /\ \A i, j \in 1 .. N : e[i] = e[j] => i = j
      /\ \A id \in DOMAIN R : \E i \in 1 .. N : e[i] = id
  BY DEF Range, IsInjective
<1>2. ASSUME NEW i \in 1 .. N
      PROVE  /\ Chain(D, e[i]) \in Seq(B) /\ IsInjective(Chain(D, e[i]))
             /\ ss[i] = Chain(D, e[i]) /\ Range(ss[i]) = Members(D, e[i])
  <2>1. Chained(D, e[i])
    BY <1>1 DEF Apart
  <2> QED
    BY <2>1 DEF Chained, Linked, Members, Chains
<1>3. ss \in Seq(Seq(B)) /\ Len(ss) = N
  <2> DEFINE Q == Seq(B)
  <2>1. \A i \in 1 .. N : Chain(D, e[i]) \in Q
    BY <1>2
  <2> HIDE DEF Q, B
  <2>2. ss \in Seq(Q) /\ Len(ss) = N
    BY <1>1, <2>1 DEF Chains
  <2> QED
    BY <2>2 DEF Q
<1> HIDE DEF B, N
<1>4. \A i \in 1 .. Len(ss) : IsInjective(ss[i])
  BY <1>2, <1>3
<1>5. \A i, j \in 1 .. Len(ss) : i # j => Range(ss[i]) \cap Range(ss[j]) = {}
  <2> SUFFICES ASSUME NEW i \in 1 .. N, NEW j \in 1 .. N, i # j
               PROVE  Range(ss[i]) \cap Range(ss[j]) = {}
    BY <1>3
  <2> DEFINE k == e[i]
             l == e[j]
  <2>1. k \in DOMAIN R /\ l \in DOMAIN R /\ k # l
    BY <1>1
  <2>2. Range(ss[i]) = Members(D, k) /\ Range(ss[j]) = Members(D, l)
    BY <1>2
  <2> HIDE DEF k, l
  <2>3. Members(D, k) \cap Members(D, l) = {}
    BY <2>1 DEF Apart
  <2> QED
    BY <2>2, <2>3
<1>6. /\ FlattenSeq(ss) \in Seq(B) /\ IsInjective(FlattenSeq(ss))
      /\ Range(FlattenSeq(ss)) = UNION {Range(ss[i]) : i \in 1 .. Len(ss)}
  <2> DEFINE q == ss
  <2>1. /\ q \in Seq(Seq(B)) /\ \A i \in 1 .. Len(q) : IsInjective(q[i])
        /\ \A i, j \in 1 .. Len(q) : i # j => Range(q[i]) \cap Range(q[j]) = {}
    BY <1>3, <1>4, <1>5
  <2> HIDE DEF q
  <2>2. FlattenSeq(q) \in Seq(B) /\ IsInjective(FlattenSeq(q))
    BY <2>1, FlattenApart
  <2>3. Range(FlattenSeq(q)) = UNION {Range(q[i]) : i \in 1 .. Len(q)}
    BY <2>1, FlattenApart
  <2> QED
    BY <2>2, <2>3 DEF q
<1>7. UNION {Range(ss[i]) : i \in 1 .. N} = InRecords(D, R)
  <2>1. {Range(ss[i]) : i \in 1 .. N} = {Members(D, id) : id \in DOMAIN R}
    BY <1>1, <1>2
  <2> QED
    BY <2>1, Zenon DEF InRecords
<1> QED
  BY <1>3, <1>6, <1>7 DEF B

LEMMA OwnedOnce ==
  ASSUME IInv, ~ torn, op.name = "idle", disk # <<>>
  PROVE  /\ IsInjective(Owned)
         /\ Range(Owned) = Tracking(disk) \cup Free(disk) \cup InRecords(disk, stored)
         /\ Held(disk, stored, {}, crashes = 0)
<1> DEFINE e == SetToSeq(DOMAIN stored)
           a == Chain(disk, 0)
           b == Content(disk, 0)
           c == FlattenSeq([i \in 1 .. Len(e) |-> Chain(disk, e[i])])
           B == DOMAIN disk
           all == crashes = 0
<1>1. /\ setting \in Setting /\ Kept(setting, disk, stored, gone) /\ Held(disk, stored, {}, all)
      /\ DOMAIN stored \subseteq DOMAIN disk
  <2>1. writes = <<>>
    BY Zenon DEF IInv, Intact, Underway
  <2> HIDE DEF all
  <2>2. all = (crashes = 0)
    BY DEF all
  <2> QED
    BY <2>1, <2>2, InvIdle
<1>2. /\ Formed(setting, disk) /\ FreeList(setting, disk) /\ Apart(disk, stored)
  BY <1>1 DEF Kept
<1>3. IsFiniteSet(DOMAIN stored)
  <2>1. IsFiniteSet(DOMAIN disk)
    BY <1>1, <1>2, FormedFacts DEF Sound
  <2> QED
    BY <1>1, <2>1, FS_Subset
<1>4. a \in Seq(B) /\ IsInjective(a) /\ Range(a) = Tracking(disk)
  BY <1>2 DEF FreeList, Chained, Linked, Tracking, Members
<1>5. b \in Seq(B) /\ IsInjective(b) /\ Range(b) = Free(disk)
  BY <1>1, <1>2, FreeNumbers
<1>6. c \in Seq(B) /\ IsInjective(c) /\ Range(c) = InRecords(disk, stored)
  <2>1. e \in Seq(DOMAIN stored) /\ IsInjective(e) /\ Range(e) = DOMAIN stored
    BY <1>3, Enumerated
  <2> HIDE DEF e
  <2> QED
    BY <1>2, <2>1, RecordBlocks DEF Chains
<1>7. Owned = a \o b \o c
  BY DEF Owned
<1>8. /\ Tracking(disk) \cap Free(disk) = {}
      /\ (Tracking(disk) \cup Free(disk)) \cap InRecords(disk, stored) = {}
  <2>1. Tracking(disk) \cap Free(disk) = {}
    BY <1>1, <1>2, FreeListFacts
  <2>2. \A id \in DOMAIN stored : Members(disk, id) \cap (Tracking(disk) \cup Free(disk)) = {}
    BY <1>2 DEF Apart
  <2> QED
    BY <2>1, <2>2 DEF InRecords
<1> HIDE DEF a, b, c, B
<1>9. a \o b \in Seq(B) /\ IsInjective(a \o b) /\ Range(a \o b) = Tracking(disk) \cup Free(disk)
  <2>1. a \o b \in Seq(B) /\ Range(a) \cap Range(b) = {}
    BY <1>4, <1>5, <1>8
  <2>2. Range(a \o b) = Range(a) \cup Range(b)
    BY <1>4, <1>5, RangeConcatenation
  <2>3. IsInjective(a \o b)
    BY <1>4, <1>5, <2>1, ConcatInjective
  <2> QED
    BY <1>4, <1>5, <2>1, <2>2, <2>3
<1> DEFINE d == a \o b
<1>10. d \in Seq(B) /\ IsInjective(d) /\ Range(d) = Tracking(disk) \cup Free(disk) /\ Owned = d \o c
  BY <1>7, <1>9
<1> HIDE DEF d
<1>11. IsInjective(d \o c)
  <2>1. Range(d) \cap Range(c) = {}
    BY <1>6, <1>8, <1>10
  <2> QED
    BY <1>6, <1>10, <2>1, ConcatInjective
<1>12. Range(d \o c) = Range(d) \cup Range(c)
  BY <1>6, <1>10, RangeConcatenation
<1> QED
  BY <1>1, <1>6, <1>10, <1>11, <1>12

-----------------------------------------------------------------------------
(* The properties.                                                         *)

(* Blocks keep to the stream and to their size, operations to theirs, as   *)
(* long as no process has ended in the middle of an exchange.              *)
THEOREM TypeCorrectness == Spec => [](~ torn => TypeOK)
<1>1. IInv => (~ torn => TypeOK)
  BY InvTypeOK
<1> QED
  BY <1>1, Invariance, PTL

(* Find returns what was stored last in a record nobody is working on,     *)
(* whatever operations on other records have been called, wherever they    *)
(* are and wherever the process ended in the middle of one: up to the      *)
(* first time it ended in the middle of an exchange.                       *)
THEOREM RecordsAreReadBack == Spec => []RecordsReadBack
<1>1. IInv => RecordsReadBack
  BY InvRecordsReadBack
<1> QED
  BY <1>1, Invariance, PTL

(* Find returns nothing for a record that was deleted, whatever has become *)
(* of its blocks, up to the same moment.                                   *)
THEOREM TheGoneStayGone == Spec => []GoneStaysGone
<1>1. IInv => GoneStaysGone
  BY InvGoneStaysGone
<1> QED
  BY <1>1, Invariance, PTL

(* FindBlocks(0) reaches the end of the free list and TryFindFreeBlock     *)
(* finds its second last block full, at every moment, in the middle of an  *)
(* exchange as well, and after crashes, up to the same moment.             *)
THEOREM TheFreeListIsReadable == Spec => []FreeListReadable
<1>1. IInv => FreeListReadable
  BY InvFreeListReadable
<1> QED
  BY <1>1, Invariance, PTL

(* Between operations a block is in one record, is free, or is one of the  *)
(* free list's own: no two of these, and none of them twice, also after    *)
(* crashes, up to the same moment.                                         *)
THEOREM BlocksAreOwnedOnce == Spec => []NoBlockOwnedTwice
<1>1. IInv => NoBlockOwnedTwice
  BY OwnedOnce DEF NoBlockOwnedTwice
<1> QED
  BY <1>1, Invariance, PTL

(* Between operations every block is one of these, as long as no operation *)
(* was interrupted.                                                        *)
THEOREM BlocksDoNotLeak == Spec => []NoBlockLeaks
<1>1. IInv => NoBlockLeaks
  <2> SUFFICES ASSUME IInv, op.name = "idle", crashes = 0, disk # <<>>
               PROVE  Range(Owned) = DOMAIN disk
    BY DEF NoBlockLeaks
  <2>1. ~ torn
    BY DEF IInv
  <2>2. /\ Range(Owned) = Tracking(disk) \cup Free(disk) \cup InRecords(disk, stored)
        /\ Held(disk, stored, {}, crashes = 0)
    BY <2>1, OwnedOnce
  <2> QED
    BY <2>2 DEF Held
<1> QED
  BY <1>1, Invariance, PTL

(* Create takes no block that a record alive is found by, up to a crash in *)
(* the middle of an exchange.                                              *)
THEOREM FreshIdsAreHandedOut == Spec => CreateHandsOutFreshIds
<1>1. ASSUME IInv, [Next]_vars
      PROVE  [\A data \in Payload : ~ torn /\ Create(data) => op'.record \notin DOMAIN stored]_vars
  <2>1. CASE UNCHANGED vars
    BY <2>1
  <2>2. CASE Next
    <3> SUFFICES ASSUME NEW data \in Payload, ~ torn, Create(data)
                 PROVE  op'.record \notin DOMAIN stored
      OBVIOUS
    <3>1. setting' = setting
      BY <2>2 DEF Next
    <3> QED
      BY <1>1, <3>1, CreateKeeps
  <2> QED
    BY <1>1, <2>1, <2>2
<1> QED
  BY <1>1, Invariance, PTL DEF Spec, CreateHandsOutFreshIds
=============================================================================
