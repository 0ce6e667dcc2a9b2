--------------------------- MODULE MCAddressPairs ---------------------------
(***************************************************************************)
(* Samples of addresses for AddressPairs.  The passing run uses narrow     *)
(* integers and small sizes, so that TLC's integers hold a packed address  *)
(* and blocks wrap around; the other one uses the sizes of Constants.cs in *)
(* words of four bytes (each size, and 2^32, is a multiple of four).       *)
(***************************************************************************)
EXTENDS AddressPairs

CONSTANTS Scopes, Blocks, Pages, Documents

MCSample ==
  [scope : Scopes, block : Blocks, page : Pages, document : Documents]
=============================================================================
