---------------------------- MODULE AddressPairs ----------------------------
(***************************************************************************)
(* Two addresses, a and b, as two callers of the storage may hold them.    *)
(* Nothing happens to them: each pair is an initial state, and the         *)
(* invariants say how packing, comparison and position relate the two.     *)
(***************************************************************************)
EXTENDS Addressing

CONSTANT Sample      \* the addresses the pair is drawn from

ASSUME SampleAssumption == Sample \subseteq Address

VARIABLES a, b

vars == <<a, b>>

Init ==
  /\ a \in Sample
  /\ b \in Sample

Next == UNCHANGED vars

Spec == Init /\ [][Next]_vars

TypeOK ==
  /\ a \in Address
  /\ b \in Address

-----------------------------------------------------------------------------
(* The addresses of the part of the file the code can reach without a uint *)
(* wrapping around: an existing page of a block that ends below UINT_RANGE.*)
InRange(x) ==
  /\ x.page < PAGES_PER_DATA_BLOCK
  /\ DATABASE_HEADER_SIZE + (x.block + 1) * BLOCK_SIZE_INCL_HEADER <= UINT_RANGE

(* A scope whose extent is a page: Page itself and Document, which         *)
(* ToPosition treats alike.                                                *)
PageScoped(x) == ScopeOf(x) \in {Page, Document}

(* The constructor Address(scope, fullAddress) yields an address of that   *)
(* scope with the block, page and document of the old one.                 *)
WithScopeKeepsTheRest ==
  \A scope \in AddressScope :
    LET x == Unpack(WithScope(scope, FullAddress(a))) IN
    /\ ScopeOf(x) = scope
    /\ Key(Document, x) = Key(Document, a)

(* Two addresses the code calls equal point to the same place of the file, *)
(* so a request is the same request whichever of the two it carries.       *)
EqualSamePosition ==
  ScopeOf(a) \in AddressScope /\ Equal(a, b) => ToPosition(a) = ToPosition(b)

(* Two different pages never share a byte of the file, and no page reaches *)
(* into the database header, as long as ToPosition does not wrap around.   *)
PagesDisjoint ==
  /\ InRange(a) /\ PageScoped(a) => Offset(a) >= DATABASE_HEADER_SIZE
  /\ /\ InRange(a) /\ InRange(b)
     /\ PageScoped(a) /\ PageScoped(b)
     /\ Key(Page, a) # Key(Page, b)
     => Disjoint(a, b)

(* A page lies inside the block it belongs to and outside any other, so a  *)
(* block request and a page request interfere only within one block.       *)
PageInsideItsBlock ==
  /\ InRange(a) /\ InRange(b)
  /\ PageScoped(a) /\ ScopeOf(b) = Block
  => IF a.block = b.block
       THEN /\ Offset(b) <= Offset(a)
            /\ Offset(a) + Length(a) <= Offset(b) + Length(b)
       ELSE Disjoint(a, b)

-----------------------------------------------------------------------------
(* What the code promises elsewhere and does not keep.                     *)

(* Byte 0 of a block is its marker, "always 1": no page of the block       *)
(* covers the block header (BaseBlock, header positions).                  *)
HeaderOutsidePages ==
  /\ InRange(a) /\ InRange(b)
  /\ ScopeOf(a) = Block /\ PageScoped(b)
  /\ a.block = b.block
  => Offset(b) >= Offset(a) + GetHeaderLengthForScope(Block)
=============================================================================
