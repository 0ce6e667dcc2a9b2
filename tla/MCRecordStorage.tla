---------------------------- MODULE MCRecordStorage ----------------------------
(***************************************************************************)
(* Small instances of RecordStorage: records of none to three blocks, of   *)
(* one cell or of two, the last block full or partly filled.               *)
(***************************************************************************)
EXTENDS RecordStorage

CONSTANTS v, w

(* Every number of the free list in a block of its own.                    *)
Cells ==
  [contentSize |-> 1, sectorCells |-> 1, payload |-> {<<>>, <<v>>, <<w, v, w>>},
   maxBlocks |-> 5, maxCrashes |-> 0]

CrashingCells == [Cells EXCEPT !.maxBlocks = 4, !.maxCrashes = 1]

(* Blocks that are partly filled.                                          *)
Pairs ==
  [contentSize |-> 2, sectorCells |-> 2, payload |-> {<<v>>, <<v, v, w, w, w>>},
   maxBlocks |-> 4, maxCrashes |-> 1]

(* Content beyond the first sector; and as many blocks as it takes to end  *)
(* in the middle of an exchange on the free list.                          *)
SplitPairs == [Pairs EXCEPT !.sectorCells = 1]
TornPairs == [SplitPairs EXCEPT !.payload = {<<v, v, w, w, w>>}, !.maxBlocks = 5]

SafeSettings == {Cells, CrashingCells, Pairs, SplitPairs, TornPairs}
=============================================================================
