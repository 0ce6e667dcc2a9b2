-------------------------------- MODULE MCBTree --------------------------------
(***************************************************************************)
(* Small instances of BTree.                                               *)
(***************************************************************************)
EXTENDS BTree

CONSTANTS v, w

UniqueEntries == (1 .. 9) \X {v}
EqualEntries == {1} \X {v, w}
MixedEntries == {1, 2} \X {v}
=============================================================================
