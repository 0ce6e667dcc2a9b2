---------------------------- MODULE AddressProofs ---------------------------
(***************************************************************************)
(* For all sizes and all pairs of addresses: as long as uint arithmetic    *)
(* does not wrap around, two pages share no byte, and a page lies within   *)
(* its block; packing loses nothing, replacing a scope changes the scope   *)
(* only, and equal addresses have equal positions.                         *)
(***************************************************************************)
EXTENDS AddressPairs, TLAPS

(* Both sizes derived from the constants are positive.                     *)
LEMMA SizesPositive ==
  /\ PAGE_SIZE_INCL_HEADER \in Nat \ {0}
  /\ DATA_BLOCK_SIZE \in Nat \ {0}
  /\ BLOCK_SIZE_INCL_HEADER \in Nat \ {0}
  /\ DATA_BLOCK_SIZE <= BLOCK_SIZE_INCL_HEADER
<1>1. PAGE_SIZE_INCL_HEADER \in Nat \ {0}
  BY SizesAssumption DEF PAGE_SIZE_INCL_HEADER
<1>2. \A m, n \in Nat \ {0} : m * n \in Nat \ {0}
  OBVIOUS
<1>3. DATA_BLOCK_SIZE \in Nat \ {0}
  BY <1>1, <1>2, SizesAssumption DEF DATA_BLOCK_SIZE
<1>4. BLOCK_SIZE_INCL_HEADER \in Nat \ {0} /\ DATA_BLOCK_SIZE <= BLOCK_SIZE_INCL_HEADER
  BY <1>3, SizesAssumption DEF BLOCK_SIZE_INCL_HEADER
<1> QED
  BY <1>1, <1>3, <1>4

(* Items of size s, side by side from 0 on: a smaller number ends before a *)
(* greater one begins.                                                     *)
LEMMA Stride ==
  ASSUME NEW s \in Nat \ {0}, NEW i \in Nat, NEW j \in Nat, i < j
  PROVE  /\ i * s \in Nat
         /\ j * s \in Nat
         /\ i * s + s <= j * s
<1>1. PICK k \in Nat : j = (i + 1) + k
  <2>1. j - (i + 1) \in Nat /\ j = (i + 1) + (j - (i + 1))
    OBVIOUS
  <2> QED
    BY <2>1
<1>2. j * s = (i + 1) * s + k * s
  BY <1>1
<1>3. (i + 1) * s = i * s + s
  OBVIOUS
<1>4. i * s \in Nat /\ j * s \in Nat /\ k * s \in Nat
  OBVIOUS
<1> QED
  BY <1>2, <1>3, <1>4

(* Items of size s, n of them: an item before the n-th ends by n * s.      *)
LEMMA StrideWithin ==
  ASSUME NEW s \in Nat \ {0}, NEW n \in Nat \ {0}, NEW i \in Nat, i < n
  PROVE  i * s \in Nat /\ i * s + s <= n * s
BY Stride

(* Where an address in range points to, with the modulus gone: a page of   *)
(* block n starts i pages behind the start of the block and ends inside it.*)
LEMMA InRangePosition ==
  ASSUME NEW x \in Address, InRange(x)
  PROVE  LET base == DATABASE_HEADER_SIZE + x.block * BLOCK_SIZE_INCL_HEADER
             inner == x.page * PAGE_SIZE_INCL_HEADER
         IN  /\ base \in Nat
             /\ inner \in Nat
             /\ base >= DATABASE_HEADER_SIZE
             /\ base + BLOCK_SIZE_INCL_HEADER <= UINT_RANGE
             /\ inner + PAGE_SIZE_INCL_HEADER <= DATA_BLOCK_SIZE
             /\ ScopeOf(x) = Block => Offset(x) = base
             /\ PageScoped(x) => Offset(x) = base + inner
<1> DEFINE B == BLOCK_SIZE_INCL_HEADER
           P == PAGE_SIZE_INCL_HEADER
           base == DATABASE_HEADER_SIZE + x.block * B
           inner == x.page * P
<1>1. x.block \in Nat /\ x.page \in Nat /\ x.page < PAGES_PER_DATA_BLOCK
  BY WidthsAssumption DEF Address, USHORT, InRange
<1>2. B \in Nat \ {0} /\ P \in Nat \ {0} /\ DATA_BLOCK_SIZE \in Nat
      /\ DATA_BLOCK_SIZE <= B
  BY SizesPositive
<1>3. inner \in Nat /\ inner + P <= DATA_BLOCK_SIZE
  <2>1. x.page * P \in Nat /\ x.page * P + P <= PAGES_PER_DATA_BLOCK * P
    BY <1>1, <1>2, StrideWithin, SizesAssumption
  <2> QED
    BY <2>1 DEF DATA_BLOCK_SIZE
<1>4. x.block * B \in Nat /\ (x.block + 1) * B = x.block * B + B
  BY <1>1, <1>2
<1>5. base \in Nat /\ base >= DATABASE_HEADER_SIZE /\ base + B <= UINT_RANGE
  <2>1. DATABASE_HEADER_SIZE + (x.block + 1) * B <= UINT_RANGE
    BY DEF InRange
  <2> QED
    BY <2>1, <1>2, <1>4, SizesAssumption, WidthsAssumption
<1>6. \A n \in Nat : n < UINT_RANGE => n % UINT_RANGE = n
  BY WidthsAssumption
<1>7. ScopeOf(x) = Block => Offset(x) = base
  <2>1. base < UINT_RANGE
    BY <1>2, <1>5, WidthsAssumption
  <2> QED
    BY <2>1, <1>5, <1>6 DEF Offset
<1>8. PageScoped(x) => Offset(x) = base + inner
  <2>1. base + inner \in Nat /\ base + inner < UINT_RANGE
    BY <1>2, <1>3, <1>5, WidthsAssumption
  <2>2. PageScoped(x) => ScopeOf(x) # Block
    BY DEF PageScoped, Page, Document, Block
  <2> QED
    BY <2>1, <2>2, <1>6 DEF Offset
<1> QED
  BY <1>3, <1>5, <1>7, <1>8

(* The disjointness of two pages, for all pairs of addresses in range.     *)
LEMMA PageExtentsDisjoint ==
  ASSUME NEW x \in Address, NEW y \in Address, InRange(x), InRange(y),
         PageScoped(x), PageScoped(y), Key(Page, x) # Key(Page, y)
  PROVE  Disjoint(x, y)
<1> DEFINE B == BLOCK_SIZE_INCL_HEADER
           P == PAGE_SIZE_INCL_HEADER
<1>1. /\ x.block \in Nat /\ x.page \in Nat
      /\ y.block \in Nat /\ y.page \in Nat
  BY WidthsAssumption DEF Address, USHORT
<1>2. B \in Nat \ {0} /\ P \in Nat \ {0} /\ DATA_BLOCK_SIZE \in Nat
      /\ DATA_BLOCK_SIZE <= B
  BY SizesPositive
<1>3. Length(x) = P /\ Length(y) = P
  BY DEF Length, PageScoped, Page, Document, Block
<1>4. x.block # y.block \/ x.page # y.page
  <2>1. Page # Block /\ Page # Document
    BY DEF Page, Block, Document
  <2>2. Key(Page, x) = <<x.block, x.page>> /\ Key(Page, y) = <<y.block, y.page>>
    BY <2>1, Zenon DEF Key
  <2> QED
    BY <2>2
<1>5. CASE x.block < y.block
  <2>1. x.block * B + B <= y.block * B /\ x.block * B \in Nat /\ y.block * B \in Nat
    BY <1>1, <1>2, <1>5, Stride
  <2> QED
    BY <2>1, <1>2, <1>3, InRangePosition, SizesAssumption DEF Disjoint
<1>6. CASE y.block < x.block
  <2>1. y.block * B + B <= x.block * B /\ x.block * B \in Nat /\ y.block * B \in Nat
    BY <1>1, <1>2, <1>6, Stride
  <2> QED
    BY <2>1, <1>2, <1>3, InRangePosition, SizesAssumption DEF Disjoint
<1>7. CASE x.block = y.block /\ x.page < y.page
  <2>1. x.page * P + P <= y.page * P
    BY <1>1, <1>2, <1>7, Stride
  <2> QED
    BY <2>1, <1>2, <1>3, <1>7, InRangePosition, SizesAssumption DEF Disjoint
<1>8. CASE x.block = y.block /\ y.page < x.page
  <2>1. y.page * P + P <= x.page * P
    BY <1>1, <1>2, <1>8, Stride
  <2> QED
    BY <2>1, <1>2, <1>3, <1>8, InRangePosition, SizesAssumption DEF Disjoint
<1> QED
  BY <1>1, <1>4, <1>5, <1>6, <1>7, <1>8

(* The type invariant of the pair.                                         *)
THEOREM PairTypeCorrect == Spec => []TypeOK
<1>1. Init => TypeOK
  BY SampleAssumption DEF Init, TypeOK
<1>2. TypeOK /\ [Next]_vars => TypeOK'
  BY DEF TypeOK, Next, vars
<1> QED
  BY <1>1, <1>2, PTL DEF Spec

(* Address.ToPosition gives two pages no common byte and keeps them off    *)
(* the database header, whatever the sizes are.                            *)
THEOREM PagesNeverOverlap == Spec => []PagesDisjoint
<1>1. TypeOK => PagesDisjoint
  <2> SUFFICES ASSUME TypeOK PROVE PagesDisjoint
    OBVIOUS
  <2>1. a \in Address /\ b \in Address
    BY DEF TypeOK
  <2>2. ASSUME InRange(a), PageScoped(a)
        PROVE  Offset(a) >= DATABASE_HEADER_SIZE
    BY <2>1, <2>2, InRangePosition, SizesAssumption
  <2> QED
    BY <2>1, <2>2, PageExtentsDisjoint DEF PagesDisjoint
<1> QED
  BY <1>1, PairTypeCorrect, PTL

(* A page lies inside its own block and shares no byte with another block. *)
THEOREM PagesStayInTheirBlock == Spec => []PageInsideItsBlock
<1> DEFINE B == BLOCK_SIZE_INCL_HEADER
<1>1. ASSUME TypeOK,
             InRange(a), InRange(b), PageScoped(a), ScopeOf(b) = Block
      PROVE  IF a.block = b.block
               THEN /\ Offset(b) <= Offset(a)
                    /\ Offset(a) + Length(a) <= Offset(b) + Length(b)
               ELSE Disjoint(a, b)
  <2>1. /\ a \in Address /\ b \in Address
        /\ a.block \in Nat /\ b.block \in Nat
    BY <1>1, WidthsAssumption DEF TypeOK, Address, USHORT
  <2>2. /\ B \in Nat \ {0} /\ PAGE_SIZE_INCL_HEADER \in Nat \ {0}
        /\ DATA_BLOCK_SIZE \in Nat /\ DATA_BLOCK_SIZE <= B
    BY SizesPositive
  <2>3. Length(a) = PAGE_SIZE_INCL_HEADER /\ Length(b) = B
    BY <1>1 DEF Length, PageScoped, Page, Document, Block
  <2>4. CASE a.block = b.block
    BY <1>1, <2>1, <2>2, <2>3, <2>4, InRangePosition, SizesAssumption
  <2>5. CASE a.block < b.block
    <3>1. a.block * B + B <= b.block * B /\ a.block * B \in Nat /\ b.block * B \in Nat
      BY <2>1, <2>2, <2>5, Stride
    <3> QED
      BY <1>1, <2>1, <2>2, <2>3, <2>5, <3>1, InRangePosition, SizesAssumption DEF Disjoint
  <2>6. CASE b.block < a.block
    <3>1. b.block * B + B <= a.block * B /\ a.block * B \in Nat /\ b.block * B \in Nat
      BY <2>1, <2>2, <2>6, Stride
    <3> QED
      BY <1>1, <2>1, <2>2, <2>3, <2>6, <3>1, InRangePosition, SizesAssumption DEF Disjoint
  <2> QED
    BY <2>1, <2>4, <2>5, <2>6
<1>2. TypeOK => PageInsideItsBlock
  BY <1>1 DEF PageInsideItsBlock
<1> QED
  BY <1>2, PairTypeCorrect, PTL
-----------------------------------------------------------------------------
(* Packing.  The number x * w + y, with y below w, is split into x and y.  *)
LEMMA DivMod ==
  ASSUME NEW w \in Nat \ {0}, NEW x \in Nat, NEW y \in 0 .. w - 1
  PROVE  (x * w + y) \div w = x /\ (x * w + y) % w = y
<1> DEFINE n == x * w + y
           q == n \div w
           m == n % w
<1>1. x * w \in Nat /\ n \in Nat
  OBVIOUS
<1>2. q \in Nat /\ m \in 0 .. w - 1 /\ n = q * w + m
  <2>1. \A k \in Nat : /\ k \div w \in Nat /\ k % w \in 0 .. w - 1
                       /\ k = (k \div w) * w + (k % w)
    OBVIOUS
  <2> QED
    BY <1>1, <2>1
<1> HIDE DEF q, m
<1>3. ~ q < x
  <2> SUFFICES ASSUME q < x PROVE FALSE
    OBVIOUS
  <2>1. q * w \in Nat /\ q * w + w <= x * w
    BY <1>2, Stride
  <2> QED
    BY <1>1, <1>2, <2>1
<1>4. ~ x < q
  <2> SUFFICES ASSUME x < q PROVE FALSE
    OBVIOUS
  <2>1. q * w \in Nat /\ x * w + w <= q * w
    BY <1>2, Stride
  <2> QED
    BY <1>1, <1>2, <2>1
<1>5. q = x
  BY <1>2, <1>3, <1>4
<1>6. m = y
  BY <1>1, <1>2, <1>5
<1> QED
  BY <1>5, <1>6 DEF q, m

(* The properties of a packed address give back what the constructor got.  *)
LEMMA UnpackFullAddress ==
  ASSUME NEW x \in Address
  PROVE  Unpack(FullAddress(x)) = x
<1> DEFINE R == USHORT_RANGE
           full == FullAddress(x)
           high == x.scope * R + x.block
           low == x.page * R + x.document
<1>1. R \in Nat \ {0}
  BY WidthsAssumption
<1>2. /\ x.scope \in 0 .. R - 1 /\ x.block \in 0 .. R - 1
      /\ x.page \in 0 .. R - 1 /\ x.document \in 0 .. R - 1
  BY DEF Address, USHORT
<1>3. \A i, j \in 0 .. R - 1 : i * R + j \in 0 .. R * R - 1
  <2> SUFFICES ASSUME NEW i \in 0 .. R - 1, NEW j \in 0 .. R - 1
               PROVE  i * R + j \in 0 .. R * R - 1
    OBVIOUS
  <2>1. i * R \in Nat /\ i * R + R <= R * R /\ R * R \in Nat
    BY <1>1, StrideWithin
  <2> QED
    BY <1>1, <2>1
<1>4. R * R \in Nat \ {0} /\ R * R * R \in Nat \ {0}
  <2>1. \A m, n \in Nat \ {0} : m * n \in Nat \ {0}
    OBVIOUS
  <2> QED
    BY <1>1, <2>1
<1>5. high \in Nat /\ low \in 0 .. R * R - 1
  BY <1>1, <1>2, <1>3
<1>6. full = (high * R + x.page) * R + x.document
  BY DEF FullAddress
<1>7. full = high * (R * R) + low
  BY <1>1, <1>2, <1>5, <1>6
<1>8. /\ x.block * (R * R) + low \in 0 .. R * R * R - 1
      /\ full = x.scope * (R * R * R) + (x.block * (R * R) + low)
  <2>1. x.block * (R * R) \in Nat /\ x.block * (R * R) + R * R <= R * (R * R)
    BY <1>1, <1>2, <1>4, StrideWithin
  <2>2. R * (R * R) = R * R * R
    BY <1>1
  <2>3. high * (R * R) = x.scope * (R * R * R) + x.block * (R * R)
    BY <1>1, <1>2
  <2> HIDE DEF low, high
  <2>4. x.scope * (R * R * R) \in Nat
    BY <1>2, <1>4
  <2> QED
    BY <1>4, <1>5, <1>7, <2>1, <2>2, <2>3, <2>4
<1>. DEFINE rest == x.block * (R * R) + low
<1>split. /\ \A i \in Nat, j \in 0 .. R - 1 : (i * R + j) \div R = i /\ (i * R + j) % R = j
      /\ \A i \in Nat, j \in 0 .. R * R * R - 1 : (i * (R * R * R) + j) \div (R * R * R) = i
  BY <1>1, <1>4, DivMod
<1>9. full \div (R * R * R) = x.scope /\ x.scope % R = x.scope
  <2>1. full \div (R * R * R) = x.scope
    <3>1. x.scope \in Nat /\ rest \in 0 .. R * R * R - 1
          /\ full = x.scope * (R * R * R) + rest
      BY <1>1, <1>2, <1>8
    <3> HIDE DEF rest, full
    <3> QED
      BY <1>split, <3>1
  <2>2. x.scope % R = x.scope
    BY <1>1, <1>2
  <2> QED
    BY <2>1, <2>2
<1>10. full \div (R * R) = high /\ high % R = x.block
  <2>1. full \div (R * R) = high
    BY <1>4, <1>5, <1>7, DivMod
  <2>2. high % R = x.block
    <3>1. x.scope \in Nat
      BY <1>1, <1>2
    <3> QED
      BY <1>split, <1>2, <3>1
  <2> QED
    BY <2>1, <2>2
<1>11. full \div R = high * R + x.page /\ (high * R + x.page) % R = x.page
  <2>1. high * R + x.page \in Nat
    BY <1>1, <1>2, <1>5
  <2>2. full \div R = high * R + x.page
    BY <1>1, <1>2, <1>6, <2>1, DivMod
  <2>3. (high * R + x.page) % R = x.page
    BY <1>1, <1>2, <1>5, DivMod
  <2> QED
    BY <2>2, <2>3
<1>12. full \div 1 = full /\ full % R = x.document
  <2>1. high * R + x.page \in Nat /\ full \in Nat
    BY <1>1, <1>2, <1>5, <1>6
  <2>2. full % R = x.document
    BY <1>split, <1>2, <1>6, <2>1
  <2> HIDE DEF full
  <2>3. full \div 1 = full
    BY <2>1
  <2> QED
    BY <2>2, <2>3
<1>13. x = [scope |-> x.scope, block |-> x.block, page |-> x.page,
            document |-> x.document]
  BY DEF Address
<1> HIDE DEF full, high
<1>14. Unpack(full) = [scope |-> x.scope, block |-> x.block, page |-> x.page,
                       document |-> x.document]
  BY <1>9, <1>10, <1>11, <1>12 DEF Unpack
<1> QED
  BY <1>13, <1>14 DEF full

(* The constructor that puts another scope in front of a packed address    *)
(* leaves its block, page and document alone, for every address.           *)
THEOREM WithScopeIsExact == Spec => []WithScopeKeepsTheRest
<1>1. ASSUME TypeOK, NEW scope \in AddressScope
      PROVE  LET x == Unpack(WithScope(scope, FullAddress(a))) IN
             ScopeOf(x) = scope /\ Key(Document, x) = Key(Document, a)
  <2> DEFINE y == [a EXCEPT !.scope = scope]
             x == Unpack(WithScope(scope, FullAddress(a)))
  <2>1. scope \in 0 .. BYTE_RANGE - 1 /\ scope \in USHORT /\ BYTE_RANGE \in Nat \ {0}
    BY ScopeAssumption, WidthsAssumption DEF USHORT
  <2>2. a \in Address /\ y \in Address
    BY <1>1, <2>1 DEF TypeOK, Address
  <2>3. Unpack(FullAddress(a)) = a /\ Unpack(FullAddress(y)) = y
    BY <2>2, UnpackFullAddress
  <2>4. x = IF ScopeOf(a) # scope THEN y ELSE a
    BY <2>3 DEF WithScope
  <2>5. ScopeOf(y) = scope
    BY <2>1, <2>2 DEF ScopeOf, Address
  <2>6. y.block = a.block /\ y.page = a.page /\ y.document = a.document
    BY <2>2 DEF Address
  <2>7. \A z : Key(Document, z) = <<z.block, z.page, z.document>>
    BY DEF Key, Document, Block, Page
  <2> QED
    BY <2>4, <2>5, <2>6, <2>7
<1>2. TypeOK => WithScopeKeepsTheRest
  BY <1>1 DEF WithScopeKeepsTheRest
<1> QED
  BY <1>2, PairTypeCorrect, PTL

(* Whatever two addresses operator == calls equal, ToPosition sends to the *)
(* same offset and length, wrapped around or not.                          *)
THEOREM EqualPointsToTheSame == Spec => []EqualSamePosition
<1>1. ASSUME ScopeOf(a) \in AddressScope, Equal(a, b)
      PROVE  ToPosition(a) = ToPosition(b)
  <2>1. ScopeOf(b) = ScopeOf(a) /\ Key(ScopeOf(a), a) = Key(ScopeOf(a), b)
    BY <1>1 DEF Equal, AreTheSame
  <2>2. CASE ScopeOf(a) = Block
    <3>1. a.block = b.block
      BY <2>1, <2>2 DEF Key, Block, Page, Document
    <3> QED
      BY <2>1, <2>2, <3>1 DEF ToPosition, Offset, Length
  <2>3. CASE ScopeOf(a) \in {Page, Document}
    <3>1. a.block = b.block /\ a.page = b.page
      BY <2>1, <2>3 DEF Key, Block, Page, Document
    <3>2. ScopeOf(a) # Block
      BY <2>3 DEF Block, Page, Document
    <3> QED
      BY <2>1, <3>1, <3>2 DEF ToPosition, Offset, Length
  <2> QED
    BY <1>1, <2>2, <2>3 DEF AddressScope
<1>2. EqualSamePosition
  BY <1>1 DEF EqualSamePosition
<1> QED
  BY <1>2, PTL
=============================================================================
