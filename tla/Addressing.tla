----------------------------- MODULE Addressing -----------------------------
(***************************************************************************)
(* The struct Address of Datatent.Core: how a scope, a block, a page and a *)
(* document number are packed in one ulong, how an address is compared,    *)
(* and where in the data file it points to.  Everything is a function of   *)
(* the sizes of Constants.cs, which are the constants of this module, and  *)
(* of the widths of the machine integers involved.                         *)
(***************************************************************************)
EXTENDS Integers

CONSTANTS
  DATABASE_HEADER_SIZE,
  BLOCK_HEADER_SIZE,
  PAGE_HEADER_SIZE,
  DOCUMENT_HEADER_SIZE,
  PAGE_SIZE,              \* bytes of a page without its header
  PAGES_PER_DATA_BLOCK,
  UINT_RANGE,             \* number of values of a uint
  USHORT_RANGE,           \* number of values of a ushort
  BYTE_RANGE              \* number of values of a byte, the width of a scope

ASSUME SizesAssumption ==
  /\ DATABASE_HEADER_SIZE \in Nat \ {0}
  /\ BLOCK_HEADER_SIZE \in Nat \ {0}
  /\ PAGE_HEADER_SIZE \in Nat \ {0}
  /\ DOCUMENT_HEADER_SIZE \in Nat \ {0}
  /\ PAGE_SIZE \in Nat \ {0}
  /\ PAGES_PER_DATA_BLOCK \in Nat \ {0}

ASSUME WidthsAssumption ==
  /\ UINT_RANGE \in Nat \ {0}
  /\ USHORT_RANGE \in Nat \ {0}
  /\ BYTE_RANGE \in Nat \ {0}

PAGE_SIZE_INCL_HEADER == PAGE_HEADER_SIZE + PAGE_SIZE
DATA_BLOCK_SIZE == PAGES_PER_DATA_BLOCK * PAGE_SIZE_INCL_HEADER
BLOCK_SIZE_INCL_HEADER == BLOCK_HEADER_SIZE + DATA_BLOCK_SIZE

-----------------------------------------------------------------------------
(* The values of the enum AddressScope.                                    *)
Block == 1
Page == 2
Document == 3
AddressScope == {Block, Page, Document}

(* The enum is a byte, and a ushort is at least as wide as a byte.         *)
ASSUME ScopeAssumption ==
  /\ AddressScope \subseteq 0 .. BYTE_RANGE - 1
  /\ BYTE_RANGE <= USHORT_RANGE

USHORT == 0 .. USHORT_RANGE - 1

(* An address, unpacked.  "scope" holds the sixteen topmost bits.          *)
Address == [scope : USHORT, block : USHORT, page : USHORT, document : USHORT]

(* The constructors Address(scope, block [, page [, document]]).           *)
NewAddress(scope, block, page, document) ==
  [scope |-> scope, block |-> block, page |-> page, document |-> document]

(* Mutant: the page is not shifted to its place. *)
MutantFullAddressPage(a) ==
  ((a.scope * USHORT_RANGE + a.block) * USHORT_RANGE) * USHORT_RANGE + a.page + a.document

(* Address.FullAddress: the four numbers side by side, sixteen bits each.  *)
FullAddress(a) ==
  ((a.scope * USHORT_RANGE + a.block) * USHORT_RANGE + a.page) * USHORT_RANGE
    + a.document

(* The properties Scope, Block, Page and Document of a packed address.     *)
Unpack(full) ==
  LET Digit(width) == (full \div width) % USHORT_RANGE IN
  [scope    |-> Digit(USHORT_RANGE * USHORT_RANGE * USHORT_RANGE),
   block    |-> Digit(USHORT_RANGE * USHORT_RANGE),
   page     |-> Digit(USHORT_RANGE),
   document |-> Digit(1)]

(* Address.Scope: the cast to the enum keeps the low byte of the top bits. *)
ScopeOf(a) == a.scope % BYTE_RANGE

(* Mutant: the mask that makes room for the scope takes the block with it. *)
MutantWithScopeMask(scope, full) ==
  LET a == Unpack(full) IN
  IF ScopeOf(a) # scope
    THEN FullAddress([a EXCEPT !.scope = scope, !.block = 0]) ELSE full

(* Address(scope, fullAddress): the top bits are replaced only when their  *)
(* low byte is not the scope asked for.                                    *)
WithScope(scope, full) ==
  LET a == Unpack(full) IN
  IF ScopeOf(a) # scope THEN FullAddress([a EXCEPT !.scope = scope]) ELSE full

-----------------------------------------------------------------------------
(* Mutant: pages are compared without their block. *)
MutantKeyPageOnly(scope, a) ==
  CASE scope = Block    -> <<a.block>>
    [] scope = Page     -> <<a.page>>
    [] scope = Document -> <<a.block, a.page, a.document>>

(* The part of an address that AreTheSame compares under a scope.          *)
Key(scope, a) ==
  CASE scope = Block    -> <<a.block>>
    [] scope = Page     -> <<a.block, a.page>>
    [] scope = Document -> <<a.block, a.page, a.document>>

(* Address.AreTheSame, which throws when the scope of a is not in the enum.*)
AreTheSame(a, b, ignoreScope) ==
  /\ ignoreScope \/ ScopeOf(a) = ScopeOf(b)
  /\ Key(ScopeOf(a), a) = Key(ScopeOf(a), b)

(* operator == of Address.                                                 *)
Equal(a, b) == AreTheSame(a, b, FALSE)

-----------------------------------------------------------------------------
(* Mutants: pages laid out without their headers; pages counted from the   *)
(* start of the file; everything laid out from the start of the file.      *)
MutantOffsetPageStride(a) ==
  LET start == DATABASE_HEADER_SIZE + a.block * BLOCK_SIZE_INCL_HEADER IN
  IF ScopeOf(a) = Block
    THEN start % UINT_RANGE
    ELSE (start + a.page * PAGE_SIZE) % UINT_RANGE

MutantOffsetPageBase(a) ==
  IF ScopeOf(a) = Block
    THEN (DATABASE_HEADER_SIZE + a.block * BLOCK_SIZE_INCL_HEADER) % UINT_RANGE
    ELSE (a.block * BLOCK_SIZE_INCL_HEADER + a.page * PAGE_SIZE_INCL_HEADER) % UINT_RANGE

MutantOffsetNoHeader(a) ==
  LET start == a.block * BLOCK_SIZE_INCL_HEADER IN
  IF ScopeOf(a) = Block
    THEN start % UINT_RANGE
    ELSE (start + a.page * PAGE_SIZE_INCL_HEADER) % UINT_RANGE

(* Address.ToPosition: uint arithmetic, which wraps around without a sign. *)
Offset(a) ==
  LET start == DATABASE_HEADER_SIZE + a.block * BLOCK_SIZE_INCL_HEADER IN
  IF ScopeOf(a) = Block
    THEN start % UINT_RANGE
    ELSE (start + a.page * PAGE_SIZE_INCL_HEADER) % UINT_RANGE

Length(a) ==
  IF ScopeOf(a) = Block THEN BLOCK_SIZE_INCL_HEADER ELSE PAGE_SIZE_INCL_HEADER

ToPosition(a) == [offset |-> Offset(a), length |-> Length(a)]

(* FileSystemServiceBase.GetHeaderLengthForScope.                          *)
GetHeaderLengthForScope(scope) ==
  CASE scope = Block    -> BLOCK_HEADER_SIZE
    [] scope = Page     -> PAGE_HEADER_SIZE
    [] scope = Document -> DOCUMENT_HEADER_SIZE

(* The bytes of the data file that an address stands for.                  *)
Extent(a) == Offset(a) .. Offset(a) + Length(a) - 1

(* Two extents have no byte in common.                                     *)
Disjoint(a, b) ==
  \/ Offset(a) + Length(a) <= Offset(b)
  \/ Offset(b) + Length(b) <= Offset(a)
=============================================================================
