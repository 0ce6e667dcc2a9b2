---------------------------- MODULE RecordStorage ----------------------------
(***************************************************************************)
(* RecordStorage over BlockStorage and Block of Datatent.CoreOld: records  *)
(* of any length in chains of blocks of equal size.  Record 0 is the free  *)
(* list: its blocks hold the numbers of the blocks nobody uses.            *)
(*                                                                         *)
(* One caller runs one operation at a time; each iteration of the loops of *)
(* Create, Delete and Update is a step.  The first sector of a block, with *)
(* its headers, is cached and goes to the stream when the block is         *)
(* disposed; content beyond it is written at once.  "writes" holds what an *)
(* iteration writes, in order, so that a crash can happen between any two. *)
(* The caller that finds its process ended in the middle of an operation   *)
(* goes on with a new one and leaves the record of that operation alone.   *)
(* Content is counted in cells of four bytes, the size of a block number.  *)
(***************************************************************************)
EXTENDS Integers, Sequences, SequencesExt, FiniteSets

CONSTANTS
  Setting,           \* streams and their users, see the variable
  NoData,            \* null: in place of the data of a deleted record
  Broken,            \* Find throws, or returns zeros nobody stored
  MaxRecords         \* bound: records alive at once

ASSUME SettingAssumption ==
  \A s \in Setting :
    /\ s.contentSize \in Nat \ {0} /\ s.sectorCells \in 0 .. s.contentSize
    /\ \A p \in s.payload : p \in Seq(Range(p))
    /\ NoData \notin s.payload
    /\ s.maxCrashes \in Nat

VARIABLES
  setting,   \* what the stream was opened with, and what is done with it
  disk,      \* the stream: block number -> block
  writes,    \* writes to the stream under way
  op,        \* the operation under way, with its locals
  stored,    \* history: what the caller put into each record it has
  gone,      \* history: ids the caller had and deleted
  crashes,   \* how often the process has ended
  torn       \* history: it has ended in the middle of an exchange

vars == <<setting, disk, writes, op, stored, gone, crashes, torn>>

BlockContentSize == setting.contentSize  \* cells in a block ...
SectorCells == setting.sectorCells       \* ... and those of them in its first sector
Payload == setting.payload               \* what callers store, sequences of cells
MaxBlocks == setting.maxBlocks           \* bound: nothing is stored in a longer stream
MaxCrashes == setting.maxCrashes         \* bound: how often the process ends

(* A block: its five headers, size being the content length, and cells.    *)
Fresh ==
  [next |-> 0, length |-> 0, size |-> 0, prev |-> 0, deleted |-> FALSE,
   cells |-> [i \in 1 .. BlockContentSize |-> 0]]

Used(block) == SubSeq(block.cells, 1, block.size)

(* Data over the first cells, or one number after those used.              *)
Fill(block, data) ==
  [block EXCEPT !.size = Len(data),
                !.cells = data \o SubSeq(@, Len(data) + 1, BlockContentSize)]
AppendUInt32(block, number) ==
  [block EXCEPT !.size = @ + 1, !.cells[block.size + 1] = number]
DropUInt32(block) == [block EXCEPT !.size = @ - 1]

Opened(id, block) == [id |-> id, block |-> block]

(* What goes to the stream: the first sector when a block is disposed, and *)
(* before that what Write puts beyond it, "last" being the last cell.      *)
Disposed(id, block) == <<[id |-> id, block |-> block, part |-> "sector"]>>
Beyond(id, block, last) ==
  IF last > SectorCells THEN <<[id |-> id, block |-> block, part |-> "beyond"]>> ELSE <<>>

Idle ==
  [name |-> "idle", record |-> 0, data |-> NoData, rest |-> <<>>,
   open |-> <<>>, used |-> 0]

-----------------------------------------------------------------------------
(* BlockStorage.                                                           *)

Size(D) == Cardinality(DOMAIN D)

(* CreateNew: the stream grows by one block of zeros.                      *)
Extend(D) == [id \in 0 .. Size(D) |-> IF id = Size(D) THEN Fresh ELSE D[id]]

(* The numbers met following the Next headers.  A chain longer than the    *)
(* stream has blocks is cut off: it has a cycle.                           *)
Chain(D, id) ==
  LET walk[n \in 0 .. Size(D)] ==
        [at \in DOMAIN D |->
           IF n = 0 \/ D[at].next = 0 THEN <<at>> ELSE <<at>> \o walk[n - 1][D[at].next]]
  IN  walk[Size(D)][id]

(* FindBlocks, which creates block 0 if it is not there.                   *)
Tracked(D) == IF Size(D) = 0 THEN Extend(D) ELSE D
FindBlocks(D, id) ==
  LET chain == Chain(D, id) IN [i \in 1 .. Len(chain) |-> Opened(chain[i], D[chain[i]])]

-----------------------------------------------------------------------------
(* RecordStorage: the free list.                                           *)

(* Mutant: the content length of the tracking block is not lowered.        *)
MutantTakeFrom(last) == [id |-> Last(Used(last.block)), writes |-> <<>>]

(* TryFindFreeBlock, when the last tracking block has a number: it is taken *)
(* off.                                                                     *)
TakeFrom(last) ==
  [id |-> Last(Used(last.block)), writes |-> Disposed(last.id, DropUInt32(last.block))]

(* Mutants: the empty block is forgotten, or stays in the chain.           *)
MutantExchangeForgets(second, last) ==
  [id |-> Last(Used(second.block)),
   writes |-> Disposed(second.id, [DropUInt32(second.block) EXCEPT !.next = 0])]
MutantExchangeLinked(second, last) ==
  [id |-> Last(Used(second.block)),
   writes |-> Disposed(second.id, AppendUInt32(DropUInt32(second.block), last.id))]

(* When it has none, the number comes from the block before it, which keeps *)
(* the number of the empty block instead: that one leaves the chain.        *)
Exchange(second, last) ==
  LET kept == [AppendUInt32(DropUInt32(second.block), last.id) EXCEPT !.next = 0] IN
  [id |-> Last(Used(second.block)),
   writes |-> Beyond(second.id, kept, kept.size) \o Disposed(second.id, kept)
                \o Disposed(last.id, [last.block EXCEPT !.prev = 0])]

(* The block number taken out, 0 if there is none, and the tracking blocks  *)
(* changed, in the order they are disposed.                                 *)
TryFindFreeBlock(D) ==
  LET blocks == FindBlocks(D, 0)
      last == blocks[Len(blocks)]
  IN  IF last.block.size # 0 THEN TakeFrom(last)
      ELSE IF Len(blocks) = 1 THEN [id |-> 0, writes |-> <<>>]
      ELSE Exchange(blocks[Len(blocks) - 1], last)

(* Mutant: the Next header of a reused block is not reset.                 *)
MutantReset(block) == [Fresh EXCEPT !.next = block.next, !.cells = block.cells]

(* AllocateBlock: a free block with its headers reset, or a new one.       *)
Reset(block) == [Fresh EXCEPT !.cells = block.cells]
AllocateBlock(D) ==
  LET free == TryFindFreeBlock(Tracked(D)) IN
  IF free.id = 0
    THEN [disk |-> Extend(Tracked(D)), writes |-> <<>>,
          block |-> Opened(Size(Tracked(D)), Fresh)]
    ELSE [disk |-> D, writes |-> free.writes, block |-> Opened(free.id, Reset(D[free.id]))]

(* Mutant: a number more has to fit into the tracking block.               *)
MutantHasRoom(block) == block.size + 1 < BlockContentSize

(* Another number fits into a tracking block.                              *)
HasRoom(block) == block.size < BlockContentSize

(* MarkAsFree: the number goes to the end of the free list, which grows by *)
(* a new block, never a free one, when its last block is full.             *)
MarkAsFree(D, id) ==
  LET last == Last(FindBlocks(D, 0))
      room == HasRoom(last.block)
      target == IF room THEN last ELSE Opened(Size(D), [Fresh EXCEPT !.prev = last.id])
      marked == AppendUInt32(target.block, id)
  IN  [disk |-> IF room THEN D ELSE Extend(D),
       writes |-> Beyond(target.id, marked, marked.size) \o Disposed(target.id, marked)
         \o IF room THEN <<>> ELSE Disposed(last.id, [last.block EXCEPT !.next = target.id])]

-----------------------------------------------------------------------------
(* The cells in the blocks of a chain.                                     *)
Content(D, id) ==
  LET chain == Chain(D, id) IN FlattenSeq([i \in 1 .. Len(chain) |-> Used(D[chain[i]])])

(* Mutant: child blocks are read as records.                               *)
MutantLookup(D, id) ==
  IF id \notin DOMAIN D \/ D[id].deleted THEN NoData
  ELSE IF Len(Content(D, id)) # D[id].length THEN Broken
  ELSE Content(D, id)

(* RecordStorage.Find: the data of a record.  The first block says how     *)
(* long it is; the blocks may hold more or less only if they are damaged.  *)
Lookup(D, id) ==
  IF id \notin DOMAIN D \/ D[id].deleted \/ D[id].prev # 0 THEN NoData
  ELSE IF Len(Content(D, id)) # D[id].length THEN Broken
  ELSE Content(D, id)

(* Mutants: one cell too many is written, or is written again.             *)
MutantChunk(data) ==
  SubSeq(data, 1, IF Len(data) <= BlockContentSize THEN Len(data) ELSE BlockContentSize + 1)
MutantRemainder(data) ==
  IF Len(data) <= BlockContentSize THEN <<>> ELSE SubSeq(data, BlockContentSize, Len(data))

(* As much as goes into one block, and what is left.                       *)
Chunk(data) == SubSeq(data, 1, IF Len(data) < BlockContentSize THEN Len(data) ELSE BlockContentSize)
Remainder(data) == SubSeq(data, BlockContentSize + 1, Len(data))

-----------------------------------------------------------------------------
Init ==
  /\ setting \in Setting
  /\ disk = <<>>
  /\ writes = <<>>
  /\ op = Idle
  /\ stored = <<>>
  /\ gone = {}
  /\ crashes = 0
  /\ torn = FALSE

(* A block the operation has open comes a second time only out of a list   *)
(* that holds it wrongly; the code then throws and the model goes no       *)
(* further.                                                                *)
NotOpen(id) == \A i \in 1 .. Len(op.open) : op.open[i].id # id

(* The operation under way is at its next iteration.                       *)
Running(name) == op.name = name /\ writes = <<>>

Create(data) ==
  /\ Running("idle")
  /\ Cardinality(DOMAIN stored) < MaxRecords /\ Size(disk) <= MaxBlocks
  /\ LET a == AllocateBlock(disk)
         first == Opened(a.block.id, [a.block.block EXCEPT !.length = Len(data)])
     IN  /\ disk' = a.disk
         /\ IF data = <<>>
              THEN /\ writes' = a.writes \o Disposed(first.id, first.block)
                   /\ op' = [Idle EXCEPT !.name = "return", !.record = first.id, !.data = data]
              ELSE /\ writes' = a.writes
                   /\ op' = [Idle EXCEPT !.name = "create", !.record = first.id, !.data = data,
                                         !.rest = data, !.open = <<first>>]
  /\ UNCHANGED <<stored, gone, crashes, torn>>

CreateWrite ==
  /\ Running("create")
  /\ LET current == Head(op.open)
         written == Fill(current.block, Chunk(op.rest))
         beyond == Beyond(current.id, written, written.size)
         a == AllocateBlock(disk)
     IN  IF Remainder(op.rest) = <<>>
           THEN /\ writes' = beyond \o Disposed(current.id, written)
                /\ op' = [op EXCEPT !.name = "return", !.rest = <<>>, !.open = <<>>]
                /\ UNCHANGED disk
           ELSE /\ NotOpen(a.block.id)
                /\ disk' = a.disk
                /\ writes' = beyond \o a.writes
                     \o Disposed(current.id, [written EXCEPT !.next = a.block.id])
                /\ op' = [op EXCEPT !.rest = Remainder(@),
                            !.open = <<Opened(a.block.id,
                                         [a.block.block EXCEPT !.prev = current.id])>>]
  /\ UNCHANGED <<stored, gone, crashes, torn>>

(* Callers delete what they have.                                          *)
Delete(id) ==
  /\ Running("idle")
  /\ id \in DOMAIN stored
  /\ op' = [Idle EXCEPT !.name = "delete", !.record = id, !.open = <<Opened(id, disk[id])>>]
  /\ UNCHANGED <<disk, writes, stored, gone, crashes, torn>>

DeleteBlock ==
  /\ Running("delete")
  /\ LET current == Head(op.open)
         next == current.block.next
         m == MarkAsFree(disk, current.id)
     IN  /\ disk' = m.disk
         /\ writes' = m.writes \o Disposed(current.id, [current.block EXCEPT !.deleted = TRUE])
         /\ op' = IF next = 0 THEN [op EXCEPT !.name = "return", !.open = <<>>]
                  ELSE [op EXCEPT !.open = <<Opened(next, disk[next])>>]
  /\ UNCHANGED <<stored, gone, crashes, torn>>

(* Update never gets nothing: the code would free all blocks of the record *)
(* and leave it to be found.                                               *)
Update(id, data) ==
  /\ Running("idle")
  /\ id \in DOMAIN stored /\ Size(disk) <= MaxBlocks
  /\ data # <<>>
  /\ op' = [Idle EXCEPT !.name = "update", !.record = id, !.data = data, !.rest = data,
                        !.open = FindBlocks(disk, id)]
  /\ UNCHANGED <<disk, writes, stored, gone, crashes, torn>>

UpdateWrite ==
  /\ Running("update")
  /\ op.rest # <<>>
  /\ LET used == op.used
         grow == used = Len(op.open)
         a == AllocateBlock(disk)
         blocks == IF grow THEN Append(op.open, a.block) ELSE op.open
         linked == IF used = 0 THEN blocks
                   ELSE [blocks EXCEPT ![used].block.next = blocks[used + 1].id,
                                       ![used + 1].block.prev = blocks[used].id]
         target == [Fill(linked[used + 1].block, Chunk(op.rest)) EXCEPT
                      !.next = 0,
                      !.length = IF used = 0 THEN Len(op.data) ELSE @]
     IN  /\ grow => NotOpen(a.block.id)
         /\ disk' = IF grow THEN a.disk ELSE disk
         /\ writes' = (IF grow THEN a.writes ELSE <<>>)
                        \o Beyond(blocks[used + 1].id, target, target.size)
         /\ op' = [op EXCEPT !.rest = Remainder(@), !.used = used + 1,
                             !.open = [linked EXCEPT ![used + 1].block = target]]
  /\ UNCHANGED <<stored, gone, crashes, torn>>

(* Mutant: the freeing starts at the last block still used.                *)
MutantUpdateFree ==
  /\ Running("update")
  /\ op.rest = <<>>
  /\ op.used < Len(op.open)
  /\ LET m == MarkAsFree(disk, op.open[op.used].id) IN
       /\ disk' = m.disk
       /\ writes' = m.writes
  /\ op' = [op EXCEPT !.used = @ + 1]
  /\ UNCHANGED <<stored, gone, crashes, torn>>

(* The blocks that are left over are freed one by one ...                  *)
UpdateFree ==
  /\ Running("update")
  /\ op.rest = <<>>
  /\ op.used < Len(op.open)
  /\ LET m == MarkAsFree(disk, op.open[op.used + 1].id) IN
       /\ disk' = m.disk
       /\ writes' = m.writes
  /\ op' = [op EXCEPT !.used = @ + 1]
  /\ UNCHANGED <<stored, gone, crashes, torn>>

(* ... and in the end all blocks are disposed, the changed ones written.   *)
UpdateDispose ==
  /\ Running("update")
  /\ op.rest = <<>>
  /\ op.used = Len(op.open)
  /\ writes' = FlattenSeq([i \in 1 .. Len(op.open) |->
                  LET b == op.open[i] IN
                  IF b.block = disk[b.id] THEN <<>> ELSE Disposed(b.id, b.block)])
  /\ op' = [op EXCEPT !.name = "return", !.open = <<>>]
  /\ UNCHANGED <<disk, stored, gone, crashes, torn>>

(* A block of the stream after one of the writes.                          *)
OnStream(old, write) ==
  LET new == write.block.cells
      kept(from, to) == SubSeq(from, 1, SectorCells) \o SubSeq(to, SectorCells + 1, BlockContentSize)
  IN  IF write.part = "sector" THEN [write.block EXCEPT !.cells = kept(new, old.cells)]
      ELSE [old EXCEPT !.cells = kept(old.cells, new)]

(* Block.Write and Block.Dispose: the writes are made in turn.             *)
Flush ==
  /\ writes # <<>>
  /\ LET write == Head(writes) IN disk' = [disk EXCEPT ![write.id] = OnStream(@, write)]
  /\ writes' = Tail(writes)
  /\ UNCHANGED <<op, stored, gone, crashes, torn>>

Return ==
  /\ Running("return")
  /\ IF op.data = NoData
       THEN /\ stored' = [id \in DOMAIN stored \ {op.record} |-> stored[id]]
            /\ gone' = gone \cup {op.record}
       ELSE /\ stored' = [id \in DOMAIN stored \cup {op.record} |->
                           IF id = op.record THEN op.data ELSE stored[id]]
            /\ gone' = gone \ {op.record}
  /\ op' = Idle
  /\ UNCHANGED <<disk, writes, crashes, torn>>

(* The last block of the free list's chain is in the list as well: what    *)
(* Exchange leaves on the stream between its first two writes, if the      *)
(* number it writes lies beyond the first sector.                          *)
Torn(D) ==
  D # <<>> /\ \E t \in Range(Chain(D, 0)) : Last(Chain(D, 0)) \in Range(Used(D[t]))

(* The process ends and a new one opens the stream.                        *)
Crash ==
  /\ op.name # "idle" /\ crashes < MaxCrashes
  /\ crashes' = crashes + 1
  /\ torn' = (torn \/ Torn(disk))
  /\ writes' = <<>>
  /\ op' = Idle
  /\ stored' = [id \in DOMAIN stored \ {op.record} |-> stored[id]]
  /\ gone' = gone \ {op.record}
  /\ UNCHANGED disk

Step ==
  CreateWrite \/ DeleteBlock \/ UpdateWrite \/ UpdateFree \/ UpdateDispose \/ Flush \/ Return

Next ==
  /\ \/ \E data \in Payload : Create(data)
     \/ \E id \in DOMAIN disk : Delete(id) \/ \E data \in Payload : Update(id, data)
     \/ Step
     \/ Crash
  /\ UNCHANGED setting

(* An operation once called runs on; nobody has to call one.               *)
Spec == Init /\ [][Next]_vars /\ WF_vars(Step /\ UNCHANGED setting)

-----------------------------------------------------------------------------
BlockType ==
  [next : Nat, length : Nat, size : 0 .. BlockContentSize, prev : Nat, deleted : BOOLEAN,
   cells : [1 .. BlockContentSize -> Nat \cup UNION {Range(p) : p \in Payload}]]

TypeOK ==
  /\ DOMAIN disk = 0 .. Size(disk) - 1
  /\ \A id \in DOMAIN disk :
       /\ disk[id] \in BlockType
       /\ disk[id].next \in DOMAIN disk /\ disk[id].prev \in DOMAIN disk
  /\ \A i \in 1 .. Len(writes) : writes[i].id \in DOMAIN disk /\ writes[i].block \in BlockType
  /\ op.name \in {"idle", "create", "delete", "update", "return"}
  /\ DOMAIN stored \cup gone \subseteq DOMAIN disk \ {0}
  /\ Range(stored) \subseteq Payload
  /\ crashes \in 0 .. MaxCrashes

(* Records nobody is working on read back as stored, at every moment of an *)
(* operation on another record and through everything that is done after a *)
(* crash in the middle of one (Find against Create, Delete and Update).    *)
(* Like the properties below that name "torn" this is said up to the first *)
(* crash in the middle of an exchange, which damages the free list.        *)
RecordsReadBack ==
  ~ torn => \A id \in DOMAIN stored : id # op.record => Lookup(disk, id) = stored[id]

(* A deleted record is not found again, not even when its blocks have      *)
(* become part of another record, until its id is handed out anew (Find's  *)
(* tests of the deleted and the previous header), up to a torn exchange.   *)
GoneStaysGone ==
  ~ torn => \A id \in gone : id # op.record => Lookup(disk, id) = NoData

(* The blocks of the free list's chain, of the free list, of the records.  *)
Owned ==
  LET ids == SetToSeq(DOMAIN stored) IN
  Chain(disk, 0) \o Content(disk, 0)
    \o FlattenSeq([i \in 1 .. Len(ids) |-> Chain(disk, ids[i])])

(* Between operations no block is free and part of a record, free twice,   *)
(* or part of two records, also after crashes in the middle of operations  *)
(* (TryFindFreeBlock and MarkAsFree against the chains), up to a torn one. *)
NoBlockOwnedTwice == ~ torn /\ op.name = "idle" /\ disk # <<>> => IsInjective(Owned)

(* Between operations every block of the stream is accounted for: loops    *)
(* that were not interrupted leak none.                                    *)
NoBlockLeaks ==
  op.name = "idle" /\ crashes = 0 /\ disk # <<>> => Range(Owned) = DOMAIN disk

(* The free list can be walked at every moment, in the middle of an        *)
(* exchange and after a crash that tore none: its chain has no cycle and   *)
(* no deleted block, so FindBlocks(0) never throws, and only its last      *)
(* block has room, so TryFindFreeBlock never finds the one before it       *)
(* empty.                                                                  *)
FreeListReadable ==
  ~ torn /\ disk # <<>> =>
    LET chain == Chain(disk, 0) IN
    /\ IsInjective(chain)
    /\ \A i \in 1 .. Len(chain) : ~ disk[chain[i]].deleted
    /\ \A i \in 1 .. Len(chain) - 1 : disk[chain[i]].size = BlockContentSize

(* Create never hands out the id of a record that is alive, unless an      *)
(* exchange was torn: AllocateBlock takes numbers nobody uses.             *)
CreateHandsOutFreshIds ==
  [][\A data \in Payload : ~ torn /\ Create(data) => op'.record \notin DOMAIN stored]_vars

(* Every loop of Create, Delete and Update comes to its end, unless an      *)
(* exchange was torn: the chains they follow have no cycle.                *)
OperationsReturn == op.name # "idle" ~> op.name = "idle" \/ torn
=============================================================================
