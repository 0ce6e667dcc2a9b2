----------------------------- MODULE ChainProofs -----------------------------
(***************************************************************************)
(* What RecordStorage is built from, for streams of any length: chains of  *)
(* blocks and their content.                                               *)
(***************************************************************************)
EXTENDS RecordStorage, TLAPS, WellFoundedInduction, FiniteSetTheorems, SequenceTheorems

-----------------------------------------------------------------------------
(* Induction and recursion over numbers.                                   *)

(* A set of numbers has a least one.                                       *)
LEMMA LeastNumber ==
  ASSUME NEW T \in SUBSET Nat, T # {}
  PROVE  \E x \in T : \A y \in T : x <= y
<1>1. PICK x \in T : \A y \in T : <<y, x>> \notin OpToRel(<, Nat)
  BY NatLessThanWellFounded, WFMin, Zenon
<1>2. \A y \in T : ~ (y < x)
  BY <1>1, Zenon DEF OpToRel
<1> QED
  BY <1>2

(* What goes from each number to the next reaches all of them.            *)
LEMMA Upward ==
  ASSUME NEW N \in Nat, NEW T, 0 \in T, \A n \in 0 .. N - 1 : n \in T => n + 1 \in T
  PROVE  \A n \in 0 .. N : n \in T
<1> DEFINE Missing == {n \in 0 .. N : n \notin T}
<1>1. SUFFICES ASSUME Missing # {} PROVE FALSE
  OBVIOUS
<1>2. Missing \in SUBSET Nat
  OBVIOUS
<1>3. PICK x \in Missing : \A y \in Missing : x <= y
  <2> HIDE DEF Missing
  <2> QED
    BY <1>1, <1>2, LeastNumber
<1>4. x # 0 /\ x - 1 \in 0 .. N - 1 /\ x - 1 \notin Missing
  BY <1>3
<1> QED
  BY <1>3, <1>4

(* Values that depend on the one before exist.                             *)
LEMMA Recursion ==
  ASSUME NEW S, NEW base \in S, NEW N \in Nat, NEW F \in [1 .. N -> [S -> S]]
  PROVE  \E f \in [0 .. N -> S] : f[0] = base /\ \A n \in 1 .. N : f[n] = F[n][f[n - 1]]
<1> DEFINE Upto(m) == \E f \in [0 .. m -> S] :
                        f[0] = base /\ \A n \in 1 .. m : f[n] = F[n][f[n - 1]]
           T == {m \in 0 .. N : Upto(m)}
<1>1. Upto(0)
  <2> DEFINE g == [n \in 0 .. 0 |-> base]
  <2>1. g \in [0 .. 0 -> S] /\ g[0] = base
    OBVIOUS
  <2>2. 1 .. 0 = {}
    OBVIOUS
  <2> HIDE DEF g
  <2> QED
    BY <2>1, <2>2
<1>2. ASSUME NEW m \in 0 .. N - 1, Upto(m) PROVE Upto(m + 1)
  <2>1. PICK f \in [0 .. m -> S] : f[0] = base /\ \A n \in 1 .. m : f[n] = F[n][f[n - 1]]
    BY <1>2
  <2> DEFINE g == [n \in 0 .. m + 1 |-> IF n = m + 1 THEN F[m + 1][f[m]] ELSE f[n]]
  <2>2. F[m + 1][f[m]] \in S
    OBVIOUS
  <2>3. g \in [0 .. m + 1 -> S]
    BY <2>2
  <2>4. g[0] = base
    BY <2>1
  <2>5. ASSUME NEW n \in 1 .. m + 1 PROVE g[n] = F[n][g[n - 1]]
    <3>1. g[n - 1] = f[n - 1]
      OBVIOUS
    <3>2. CASE n = m + 1
      BY <3>1, <3>2
    <3>3. CASE n # m + 1
      <4>1. n \in 1 .. m
        BY <3>3
      <4>2. g[n] = f[n]
        BY <3>3
      <4> QED
        BY <2>1, <3>1, <4>1, <4>2
    <3> QED
      BY <3>2, <3>3
  <2> HIDE DEF g
  <2> QED
    BY <2>3, <2>4, <2>5
<1>3. \A m \in 0 .. N : m \in T
  <2> HIDE DEF Upto
  <2>1. 0 \in T /\ \A m \in 0 .. N - 1 : m \in T => m + 1 \in T
    BY <1>1, <1>2
  <2> HIDE DEF T
  <2> QED
    BY <2>1, Upward
<1>4. Upto(N)
  <2> HIDE DEF Upto
  <2> QED
    BY <1>3
<1> QED
  BY <1>4, Zenon

(* The same, to be instantiated by name.                                   *)
Recurrence(S, base, N, F) ==
  \E f \in [0 .. N -> S] : f[0] = base /\ \A n \in 1 .. N : f[n] = F[n][f[n - 1]]

LEMMA RecurrenceHolds ==
  ASSUME NEW S, NEW base \in S, NEW N \in Nat, NEW F \in [1 .. N -> [S -> S]]
  PROVE  Recurrence(S, base, N, F)
<1>1. \E f \in [0 .. N -> S] : f[0] = base /\ \A n \in 1 .. N : f[n] = F[n][f[n - 1]]
  BY Recursion
<1> QED
  BY <1>1, Zenon DEF Recurrence

-----------------------------------------------------------------------------
(* Chains.                                                                 *)

(* A stream whose blocks all name blocks of it.                            *)
Sound(D) ==
  /\ IsFiniteSet(DOMAIN D)
  /\ \A id \in DOMAIN D : D[id].next \in DOMAIN D

(* The equations by which Chain is defined have a solution.                *)
LEMMA ChainUnfolds ==
  ASSUME NEW D, Sound(D), NEW id \in DOMAIN D
  PROVE  \E walk :
           /\ Chain(D, id) = walk[Size(D)][id]
           /\ \A n \in 0 .. Size(D), at \in DOMAIN D :
                walk[n][at] = IF n = 0 \/ D[at].next = 0 THEN <<at>>
                              ELSE <<at>> \o walk[n - 1][D[at].next]
<1> DEFINE N == Size(D)
           A == DOMAIN D
           S == [A -> Seq(A)]
           base == [at \in A |-> <<at>>]
           Longer(g) == [at \in A |-> IF D[at].next = 0 THEN <<at>> ELSE <<at>> \o g[D[at].next]]
           F == [n \in 1 .. N |-> [g \in S |-> Longer(g)]]
           Unfold(f) == [n \in 0 .. N |-> [at \in A |->
                         IF n = 0 \/ D[at].next = 0 THEN <<at>>
                         ELSE <<at>> \o f[n - 1][D[at].next]]]
<1>1. N \in Nat
  BY FS_CardinalityType DEF Sound, Size
<1>2. base \in S
  OBVIOUS
<1>3. ASSUME NEW g \in S PROVE Longer(g) \in S
  <2>1. ASSUME NEW at \in A
        PROVE  (IF D[at].next = 0 THEN <<at>> ELSE <<at>> \o g[D[at].next]) \in Seq(A)
    <3>1. D[at].next \in A
      BY DEF Sound
    <3>2. g[D[at].next] \in Seq(A) /\ <<at>> \in Seq(A)
      BY <3>1
    <3> QED
      BY <3>2, ConcatProperties
  <2> QED
    BY <2>1
<1>4. F \in [1 .. N -> [S -> S]]
  <2> HIDE DEF S, Longer
  <2> QED
    BY <1>3
<1>5. PICK f \in [0 .. N -> S] : f[0] = base /\ \A n \in 1 .. N : f[n] = F[n][f[n - 1]]
  <2> HIDE DEF F, S, base, N
  <2> QED
    BY <1>1, <1>2, <1>4, Recursion
<1>6. \A n \in 1 .. N : f[n] = Longer(f[n - 1])
  <2> HIDE DEF S, Longer
  <2>1. \A n \in 1 .. N : f[n - 1] \in S
    BY <1>1
  <2> QED
    BY <1>5, <2>1
<1>7. f = Unfold(f)
  <2>1. ASSUME NEW n \in 0 .. N
        PROVE  f[n] = Unfold(f)[n]
    <3>1. CASE n = 0
      BY <1>5, <3>1
    <3>2. CASE n # 0
      <4>1. n \in 1 .. N
        BY <1>1, <3>2
      <4>2. f[n] = Longer(f[n - 1])
        BY <1>6, <4>1
      <4> QED
        BY <3>2, <4>2
    <3> QED
      BY <3>1, <3>2
  <2>2. f = [n \in 0 .. N |-> f[n]]
    BY <1>5
  <2>3. DOMAIN Unfold(f) = 0 .. N /\ Unfold(f) = [n \in 0 .. N |-> Unfold(f)[n]]
    OBVIOUS
  <2> HIDE DEF Unfold
  <2> QED
    BY <2>1, <2>2, <2>3
<1> DEFINE walk == CHOOSE g : g = Unfold(g)
<1>8. walk = Unfold(walk)
  <2> HIDE DEF Unfold
  <2> QED
    BY <1>7
<1>9. Chain(D, id) = walk[N][id]
  BY DEF Chain
<1>10. ASSUME NEW n \in 0 .. N, NEW at \in A
       PROVE  walk[n][at] = IF n = 0 \/ D[at].next = 0 THEN <<at>>
                            ELSE <<at>> \o walk[n - 1][D[at].next]
  <2> HIDE DEF walk
  <2>1. walk[n] = Unfold(walk)[n]
    BY <1>8
  <2> QED
    BY <2>1
<1> HIDE DEF walk
<1> QED
  BY <1>9, <1>10

(* The blocks "c" follow one another by their Next headers, to the end.    *)
Linked(D, c) ==
  /\ c \in Seq(DOMAIN D) /\ c # <<>>
  /\ IsInjective(c)
  /\ \A i \in 1 .. Len(c) - 1 : c[i + 1] # 0 /\ D[c[i]].next = c[i + 1]
  /\ D[c[Len(c)]].next = 0

(* Such blocks are no more than the stream has.                            *)
LEMMA LinkedBounded ==
  ASSUME NEW D, IsFiniteSet(DOMAIN D), NEW c \in Seq(DOMAIN D), IsInjective(c)
  PROVE  Len(c) \in Nat /\ Len(c) <= Size(D)
<1>1. /\ Len(c) \in Nat /\ DOMAIN c = 1 .. Len(c)
      /\ c \in [1 .. Len(c) -> DOMAIN D]
  OBVIOUS
<1>2. c \in Injection(1 .. Len(c), DOMAIN D)
  BY <1>1 DEF Injection, IsInjective
<1>3. Cardinality(1 .. Len(c)) <= Cardinality(DOMAIN D)
  BY <1>2, FS_Injection
<1>4. Cardinality(1 .. Len(c)) = Len(c)
  <2>1. 1 \in Int /\ Len(c) \in Int
    BY <1>1
  <2>2. Cardinality(1 .. Len(c)) = IF 1 > Len(c) THEN 0 ELSE Len(c) - 1 + 1
    BY <2>1, FS_Interval
  <2> QED
    BY <1>1, <2>2
<1> QED
  BY <1>1, <1>3, <1>4 DEF Size

(* They are the chain of the first one.                                    *)
LEMMA LinkedChain ==
  ASSUME NEW D, Sound(D), NEW c, Linked(D, c)
  PROVE  Chain(D, c[1]) = c
<1> DEFINE L == Len(c)
<1>1. /\ L \in Nat \ {0} /\ c \in Seq(DOMAIN D)
      /\ \A i \in 1 .. L : c[i] \in DOMAIN D
  BY DEF Linked
<1>2. L <= Size(D) /\ Size(D) \in Nat
  BY <1>1, LinkedBounded, FS_CardinalityType DEF Linked, Sound, Size
<1>3. PICK walk :
        /\ Chain(D, c[1]) = walk[Size(D)][c[1]]
        /\ \A n \in 0 .. Size(D), at \in DOMAIN D :
             walk[n][at] = IF n = 0 \/ D[at].next = 0 THEN <<at>>
                           ELSE <<at>> \o walk[n - 1][D[at].next]
  <2>1. c[1] \in DOMAIN D
    BY <1>1
  <2> QED
    BY <2>1, ChainUnfolds
<1> DEFINE T == {n \in 0 .. Size(D) :
                   \A i \in 1 .. L : L - i <= n => walk[n][c[i]] = SubSeq(c, i, L)}
<1>4. SubSeq(c, L, L) = <<c[L]>>
  <2>1. L \in 1 .. L /\ L \in L .. L
    BY <1>1
  <2>2. SubSeq(c, L, L) = <<c[L]>> \o SubSeq(c, L + 1, L)
    BY <1>1, <2>1, SubSeqRecursiveFirst
  <2>3. SubSeq(c, L + 1, L) = <<>>
    BY <1>1, SubSeqEmpty
  <2>4. <<c[L]>> \in Seq(DOMAIN D)
    BY <1>1, <2>1
  <2>5. <<c[L]>> \o <<>> = <<c[L]>>
    BY <2>4, ConcatEmptySeq
  <2> QED
    BY <2>2, <2>3, <2>5
<1>5. 0 \in T
  <2>1. ASSUME NEW i \in 1 .. L, L - i <= 0 PROVE walk[0][c[i]] = SubSeq(c, i, L)
    <3>1. i = L
      BY <1>1, <2>1
    <3>2. walk[0][c[L]] = <<c[L]>>
      <4>1. 0 \in 0 .. Size(D) /\ c[L] \in DOMAIN D
        BY <1>1, <1>2
      <4> QED
        BY <1>3, <4>1
    <3> QED
      BY <1>4, <3>1, <3>2
  <2> QED
    BY <1>2, <2>1
<1>6. ASSUME NEW n \in 0 .. Size(D) - 1, n \in T PROVE n + 1 \in T
  <2>1. ASSUME NEW i \in 1 .. L, L - i <= n + 1
        PROVE  walk[n + 1][c[i]] = SubSeq(c, i, L)
    <3>1. n + 1 \in 0 .. Size(D) /\ n + 1 # 0 /\ (n + 1) - 1 = n
      BY <1>2
    <3>2. walk[n + 1][c[i]] = IF D[c[i]].next = 0 THEN <<c[i]>>
                              ELSE <<c[i]>> \o walk[n][D[c[i]].next]
      BY <1>1, <1>3, <3>1
    <3>3. CASE i = L
      BY <1>1, <1>4, <3>2, <3>3 DEF Linked
    <3>4. CASE i # L
      <4>1. i \in 1 .. L - 1 /\ i + 1 \in 1 .. L /\ L - (i + 1) <= n
        BY <1>1, <2>1, <3>4
      <4>2. D[c[i]].next = c[i + 1] /\ c[i + 1] # 0
        BY <4>1 DEF Linked
      <4>3. walk[n][c[i + 1]] = SubSeq(c, i + 1, L)
        BY <1>6, <4>1
      <4>4. SubSeq(c, i, L) = <<c[i]>> \o SubSeq(c, i + 1, L)
        <5>1. L \in i .. L
          BY <1>1
        <5> QED
          BY <1>1, <5>1, SubSeqRecursiveFirst
      <4> QED
        BY <3>2, <4>2, <4>3, <4>4
    <3> QED
      BY <3>3, <3>4
  <2> QED
    BY <1>2, <2>1
<1>7. Size(D) \in T
  <2> HIDE DEF T
  <2>1. \A n \in 0 .. Size(D) : n \in T
    BY <1>2, <1>5, <1>6, Upward
  <2> QED
    BY <1>2, <2>1
<1>8. walk[Size(D)][c[1]] = SubSeq(c, 1, L)
  BY <1>1, <1>2, <1>7
<1> QED
  BY <1>1, <1>3, <1>8, SubSeqFull

(* So does every chain that is one: what "Chained" says of a block.        *)
Chained(D, id) == id \in DOMAIN D /\ Linked(D, Chain(D, id)) /\ Chain(D, id)[1] = id

Members(D, id) == Range(Chain(D, id))

LEMMA LinkedIsChained ==
  ASSUME NEW D, Sound(D), NEW c, Linked(D, c)
  PROVE  c[1] \in DOMAIN D /\ Chain(D, c[1]) = c /\ Chained(D, c[1])
<1>1. c \in Seq(DOMAIN D) /\ c # <<>>
  BY DEF Linked
<1>2. c[1] \in DOMAIN D
  BY <1>1
<1> QED
  BY <1>2, LinkedChain DEF Chained

LEMMA MembersOfLinked ==
  ASSUME NEW D, NEW c, Linked(D, c)
  PROVE  /\ Len(c) \in Nat \ {0} /\ DOMAIN c = 1 .. Len(c)
         /\ Range(c) = {c[i] : i \in 1 .. Len(c)}
         /\ Range(c) \subseteq DOMAIN D
         /\ c[Len(c)] \in Range(c)
         /\ \A i \in 1 .. Len(c) : c[i] \in Range(c)
         /\ \A m \in Range(c) : \E i \in 1 .. Len(c) : m = c[i]
  BY DEF Linked, Range

(* A chain stays what it is as long as its blocks name the same next ones. *)
LEMMA LinkedUnchanged ==
  ASSUME NEW D, NEW c, Linked(D, c), NEW D2,
         \A m \in Range(c) : m \in DOMAIN D2 /\ D2[m].next = D[m].next
  PROVE  Linked(D2, c)
<1>1. /\ c \in Seq(DOMAIN D) /\ c # <<>> /\ IsInjective(c) /\ Len(c) \in Nat \ {0}
      /\ \A i \in 1 .. Len(c) : c[i] \in Range(c)
  BY MembersOfLinked DEF Linked
<1>2. c \in Seq(DOMAIN D2)
  BY <1>1
<1>3. \A i \in 1 .. Len(c) - 1 : c[i + 1] # 0 /\ D2[c[i]].next = c[i + 1]
  BY <1>1 DEF Linked
<1>4. D2[c[Len(c)]].next = 0
  BY <1>1 DEF Linked
<1> QED
  BY <1>1, <1>2, <1>3, <1>4 DEF Linked

LEMMA ChainUnchanged ==
  ASSUME NEW D, NEW id, Chained(D, id), NEW D2, Sound(D2),
         \A m \in Members(D, id) : m \in DOMAIN D2 /\ D2[m].next = D[m].next
  PROVE  Chained(D2, id) /\ Chain(D2, id) = Chain(D, id) /\ Members(D2, id) = Members(D, id)
<1> DEFINE c == Chain(D, id)
<1>1. Linked(D, c) /\ c[1] = id
  BY DEF Chained
<1>2. Linked(D2, c)
  <2>1. \A m \in Range(c) : m \in DOMAIN D2 /\ D2[m].next = D[m].next
    BY DEF Members
  <2> HIDE DEF c
  <2> QED
    BY <1>1, <2>1, LinkedUnchanged
<1>3. Chain(D2, c[1]) = c /\ Chained(D2, c[1])
  <2> HIDE DEF c
  <2> QED
    BY <1>2, LinkedIsChained
<1> QED
  BY <1>1, <1>3 DEF Members

(* A chain of one block.                                                   *)
LEMMA ChainOfOne ==
  ASSUME NEW D, Sound(D), NEW id \in DOMAIN D, D[id].next = 0
  PROVE  Chained(D, id) /\ Chain(D, id) = <<id>> /\ Members(D, id) = {id}
<1> DEFINE c == <<id>>
<1>1. c \in Seq(DOMAIN D) /\ c # <<>> /\ Len(c) = 1 /\ c[1] = id /\ Range(c) = {id}
  BY DEF Range
<1>2. Linked(D, c)
  BY <1>1 DEF Linked, IsInjective
<1>3. Chain(D, c[1]) = c /\ Chained(D, c[1])
  <2> HIDE DEF c
  <2> QED
    BY <1>2, LinkedIsChained
<1> QED
  BY <1>1, <1>3 DEF Members

LEMMA MembersOfChained ==
  ASSUME NEW D, NEW id, Chained(D, id)
  PROVE  /\ id \in Members(D, id) /\ Members(D, id) \subseteq DOMAIN D
         /\ Chain(D, id) \in Seq(Members(D, id))
         /\ \A m \in Members(D, id) : m # id => m # 0
         /\ \A m \in Members(D, id) : D[m].next # 0 => D[m].next \in Members(D, id)
<1> DEFINE c == Chain(D, id)
<1>1. Linked(D, c) /\ c[1] = id
  BY DEF Chained
<1> HIDE DEF c
<1>2. /\ Len(c) \in Nat \ {0} /\ c \in Seq(DOMAIN D)
      /\ Range(c) \subseteq DOMAIN D
      /\ \A i \in 1 .. Len(c) : c[i] \in Range(c)
      /\ \A m \in Range(c) : \E i \in 1 .. Len(c) : m = c[i]
  BY <1>1, MembersOfLinked DEF Linked
<1>3. c \in Seq(Range(c))
  BY <1>2, SeqOfRange
<1>4. ASSUME NEW m \in Range(c), m # id PROVE m # 0
  <2>1. PICK i \in 1 .. Len(c) : m = c[i]
    BY <1>2
  <2>2. i - 1 \in 1 .. Len(c) - 1 /\ (i - 1) + 1 = i
    BY <1>1, <1>2, <1>4, <2>1
  <2> QED
    BY <1>1, <2>1, <2>2 DEF Linked
<1>5. ASSUME NEW m \in Range(c), D[m].next # 0 PROVE D[m].next \in Range(c)
  <2>1. PICK i \in 1 .. Len(c) : m = c[i]
    BY <1>2
  <2>2. i # Len(c)
    BY <1>1, <1>5, <2>1 DEF Linked
  <2>3. i \in 1 .. Len(c) - 1 /\ i + 1 \in 1 .. Len(c)
    BY <1>2, <2>2
  <2> QED
    BY <1>1, <1>2, <2>1, <2>3 DEF Linked
<1> QED
  BY <1>1, <1>2, <1>3, <1>4, <1>5 DEF Members, c

(* The rest of a chain is the chain of its second block.                   *)
LEMMA ChainOfNext ==
  ASSUME NEW D, Sound(D), NEW id, Chained(D, id), D[id].next # 0
  PROVE  /\ Chained(D, D[id].next)
         /\ Members(D, D[id].next) = Members(D, id) \ {id}
<1> DEFINE c == Chain(D, id)
           L == Len(c)
           t == SubSeq(c, 2, L)
<1>1. Linked(D, c) /\ c[1] = id
  BY DEF Chained
<1> HIDE DEF c
<1>2. /\ L \in Nat \ {0} /\ c \in Seq(DOMAIN D) /\ IsInjective(c) /\ DOMAIN c = 1 .. L
      /\ Range(c) = {c[i] : i \in 1 .. L}
  BY <1>1, MembersOfLinked DEF Linked
<1>3. L # 1 /\ D[id].next = c[2]
  <2>1. L # 1
    BY <1>1 DEF Linked
  <2>2. 1 \in 1 .. L - 1
    BY <1>2, <2>1
  <2> QED
    BY <1>1, <2>1, <2>2 DEF Linked
<1>4. /\ t \in Seq(DOMAIN D) /\ Len(t) = L - 1
      /\ \A i \in 1 .. L - 1 : t[i] = c[i + 1]
  <2>1. \A i \in 2 .. L : c[i] \in DOMAIN D
    BY <1>2
  <2>2. L \in Int /\ 2 \in Int /\ 2 <= L
    BY <1>2, <1>3
  <2>3. /\ t \in Seq(DOMAIN D) /\ Len(t) = IF 2 <= L THEN L - 2 + 1 ELSE 0
        /\ \A i \in 1 .. L - 2 + 1 : t[i] = c[2 + i - 1]
    BY <2>1, <2>2, SubSeqProperties
  <2> QED
    BY <1>2, <2>2, <2>3
<1> HIDE DEF t
<1>5. Linked(D, t)
  <2>1. t # <<>>
    BY <1>2, <1>3, <1>4
  <2>2. IsInjective(t)
    <3>1. DOMAIN t = 1 .. L - 1 /\ \A i \in 1 .. L - 1 : i + 1 \in 1 .. L
      BY <1>2, <1>4
    <3> SUFFICES ASSUME NEW i \in 1 .. L - 1, NEW j \in 1 .. L - 1, t[i] = t[j] PROVE i = j
      BY <3>1 DEF IsInjective
    <3>2. c[i + 1] = c[j + 1]
      BY <1>4
    <3>3. i + 1 = j + 1
      BY <1>2, <3>1, <3>2 DEF IsInjective
    <3> QED
      BY <1>2, <3>3
  <2>3. ASSUME NEW i \in 1 .. Len(t) - 1 PROVE t[i + 1] # 0 /\ D[t[i]].next = t[i + 1]
    <3>1. /\ i \in 1 .. L - 1 /\ i + 1 \in 1 .. L - 1
          /\ t[i] = c[i + 1] /\ t[i + 1] = c[(i + 1) + 1]
      BY <1>2, <1>4
    <3> QED
      BY <1>1, <3>1 DEF Linked
  <2>4. t[Len(t)] = c[L]
    BY <1>2, <1>3, <1>4
  <2> QED
    BY <1>1, <1>4, <2>1, <2>2, <2>3, <2>4 DEF Linked
<1>6. t[1] = c[2]
  BY <1>2, <1>3, <1>4
<1>7. Range(t) = Range(c) \ {c[1]}
  <2>1. DOMAIN t = 1 .. L - 1
    BY <1>4
  <2>2. ASSUME NEW m \in Range(t) PROVE m \in Range(c) /\ m # c[1]
    <3>1. PICK i \in 1 .. L - 1 : m = t[i]
      BY <2>1 DEF Range
    <3>2. i + 1 \in 1 .. L /\ 1 \in 1 .. L /\ i + 1 # 1 /\ m = c[i + 1]
      BY <1>2, <1>4, <3>1
    <3> QED
      BY <1>2, <3>2 DEF IsInjective
  <2>3. ASSUME NEW m \in Range(c), m # c[1] PROVE m \in Range(t)
    <3>1. PICK i \in 1 .. L : m = c[i]
      BY <1>2
    <3>2. i - 1 \in 1 .. L - 1 /\ t[i - 1] = c[(i - 1) + 1] /\ (i - 1) + 1 = i
      BY <1>2, <1>4, <2>3, <3>1
    <3> QED
      BY <2>1, <3>1, <3>2 DEF Range
  <2> QED
    BY <2>2, <2>3
<1>8. Chain(D, t[1]) = t /\ Chained(D, t[1])
  BY <1>5, LinkedIsChained
<1> QED
  BY <1>1, <1>3, <1>6, <1>7, <1>8 DEF Members, c

(* A chain cut off: of its first "k" blocks the last one is the end now.   *)
LEMMA ChainShortened ==
  ASSUME NEW D, NEW id, Chained(D, id), NEW k \in 1 .. Len(Chain(D, id)),
         NEW D2, Sound(D2), DOMAIN D \subseteq DOMAIN D2,
         D2[Chain(D, id)[k]].next = 0,
         \A i \in 1 .. k - 1 : D2[Chain(D, id)[i]].next = D[Chain(D, id)[i]].next
  PROVE  /\ Chained(D2, id)
         /\ Chain(D2, id) = SubSeq(Chain(D, id), 1, k)
         /\ Members(D2, id) = {Chain(D, id)[i] : i \in 1 .. k}
<1> DEFINE c == Chain(D, id)
           L == Len(c)
           t == SubSeq(c, 1, k)
<1>1. Linked(D, c) /\ c[1] = id /\ k \in 1 .. L /\ D2[c[k]].next = 0
      /\ \A i \in 1 .. k - 1 : D2[c[i]].next = D[c[i]].next
  BY DEF Chained
<1> HIDE DEF c
<1>2. /\ L \in Nat \ {0} /\ c \in Seq(DOMAIN D) /\ IsInjective(c) /\ DOMAIN c = 1 .. L
      /\ Range(c) = {c[i] : i \in 1 .. L}
  BY <1>1, MembersOfLinked DEF Linked
<1>3. /\ t \in Seq(DOMAIN D2) /\ Len(t) = k
      /\ \A i \in 1 .. k : t[i] = c[i]
  <2>1. \A i \in 1 .. k : c[i] \in DOMAIN D2
    BY <1>1, <1>2
  <2>2. k \in Int /\ 1 \in Int /\ 1 <= k
    BY <1>1, <1>2
  <2>3. /\ t \in Seq(DOMAIN D2) /\ Len(t) = IF 1 <= k THEN k - 1 + 1 ELSE 0
        /\ \A i \in 1 .. k - 1 + 1 : t[i] = c[1 + i - 1]
    BY <2>1, <2>2, SubSeqProperties
  <2> QED
    BY <1>1, <1>2, <2>2, <2>3
<1> HIDE DEF t
<1>4. Linked(D2, t)
  <2>1. t # <<>> /\ DOMAIN t = 1 .. k
    BY <1>1, <1>2, <1>3
  <2>2. IsInjective(t)
    BY <1>1, <1>2, <1>3, <2>1 DEF IsInjective
  <2>3. ASSUME NEW i \in 1 .. Len(t) - 1 PROVE t[i + 1] # 0 /\ D2[t[i]].next = t[i + 1]
    <3>1. i \in 1 .. k - 1 /\ i \in 1 .. k /\ i + 1 \in 1 .. k /\ i \in 1 .. L - 1
      BY <1>1, <1>2, <1>3
    <3> QED
      BY <1>1, <1>3, <3>1 DEF Linked
  <2>4. D2[t[Len(t)]].next = 0
    BY <1>1, <1>2, <1>3
  <2> QED
    BY <1>3, <2>1, <2>2, <2>3, <2>4 DEF Linked
<1>5. t[1] = id /\ Range(t) = {c[i] : i \in 1 .. k}
  <2>1. 1 \in 1 .. k /\ DOMAIN t = 1 .. k
    BY <1>1, <1>2, <1>3
  <2> QED
    BY SMTT(30), <1>1, <1>3, <2>1 DEF Range
<1>6. Chain(D2, t[1]) = t /\ Chained(D2, t[1])
  BY <1>4, LinkedIsChained
<1> QED
  BY <1>5, <1>6 DEF Members, c, t

(* A chain made longer by one block.                                       *)
Lengthening(D, c, D2, n) ==
  /\ DOMAIN D \subseteq DOMAIN D2
  /\ n \in DOMAIN D2 /\ n # 0 /\ n \notin Range(c)
  /\ D2[c[Len(c)]].next = n /\ D2[n].next = 0
  /\ \A m \in Range(c) : m # c[Len(c)] => D2[m].next = D[m].next

LEMMA LinkedLengthened ==
  ASSUME NEW D, NEW c, Linked(D, c), NEW D2, NEW n, Lengthening(D, c, D2, n)
  PROVE  /\ Linked(D2, Append(c, n))
         /\ Range(Append(c, n)) = Range(c) \cup {n}
         /\ Append(c, n)[1] = c[1]
<1> DEFINE L == Len(c)
           t == Append(c, n)
<1>1. /\ DOMAIN D \subseteq DOMAIN D2
      /\ n \in DOMAIN D2 /\ n # 0 /\ n \notin Range(c)
      /\ D2[c[L]].next = n /\ D2[n].next = 0
      /\ \A m \in Range(c) : m # c[L] => D2[m].next = D[m].next
  BY DEF Lengthening
<1>2. /\ L \in Nat \ {0} /\ c \in Seq(DOMAIN D) /\ IsInjective(c) /\ DOMAIN c = 1 .. L
      /\ Range(c) = {c[i] : i \in 1 .. L}
      /\ \A i \in 1 .. L : c[i] \in Range(c)
  BY MembersOfLinked DEF Linked
<1>3. /\ t \in Seq(DOMAIN D2) /\ Len(t) = L + 1 /\ t # <<>>
      /\ \A i \in 1 .. L : t[i] = c[i]
      /\ t[L + 1] = n
  <2>1. c \in Seq(DOMAIN D2)
    BY <1>1, <1>2
  <2> QED
    BY <1>1, <2>1, AppendProperties
<1> HIDE DEF t
<1>4. DOMAIN t = 1 .. L + 1
  BY <1>2, <1>3
<1>5. IsInjective(t)
  <2> SUFFICES ASSUME NEW i \in 1 .. L + 1, NEW j \in 1 .. L + 1, t[i] = t[j] PROVE i = j
    BY <1>4 DEF IsInjective
  <2>1. CASE i = L + 1 /\ j # L + 1
    <3>1. j \in 1 .. L
      BY <1>2, <2>1
    <3> QED
      BY <1>1, <1>2, <1>3, <2>1, <3>1
  <2>2. CASE i # L + 1 /\ j = L + 1
    <3>1. i \in 1 .. L
      BY <1>2, <2>2
    <3> QED
      BY <1>1, <1>2, <1>3, <2>2, <3>1
  <2>3. CASE i # L + 1 /\ j # L + 1
    <3>1. i \in 1 .. L /\ j \in 1 .. L
      BY <1>2, <2>3
    <3> QED
      BY <1>2, <1>3, <3>1 DEF IsInjective
  <2> QED
    BY <2>1, <2>2, <2>3
<1>6. ASSUME NEW i \in 1 .. Len(t) - 1 PROVE t[i + 1] # 0 /\ D2[t[i]].next = t[i + 1]
  <2>1. i \in 1 .. L /\ t[i] = c[i]
    BY <1>2, <1>3
  <2>2. CASE i = L
    BY <1>1, <1>3, <2>1, <2>2
  <2>3. CASE i # L
    <3>0. L \in Nat \ {0} /\ i \in 1 .. L
      BY <1>2, <2>1
    <3>1. i \in 1 .. L - 1 /\ i + 1 \in 1 .. L /\ L \in 1 .. L
      <4> HIDE DEF L
      <4> QED
        BY <2>3, <3>0
    <3>2. c[i] # c[L]
      BY <1>2, <2>1, <2>3, <3>1 DEF IsInjective
    <3> QED
      BY ZenonT(60), <1>1, <1>2, <1>3, <2>1, <3>1, <3>2 DEF Linked
  <2> QED
    BY <2>2, <2>3
<1>7. Linked(D2, t)
  BY <1>1, <1>3, <1>5, <1>6 DEF Linked
<1>8. Range(t) = Range(c) \cup {n}
  <2>1. ASSUME NEW m \in Range(t) PROVE m \in Range(c) \cup {n}
    <3>1. PICK i \in 1 .. L + 1 : m = t[i]
      BY <1>4 DEF Range
    <3>2. i = L + 1 \/ i \in 1 .. L
      BY <1>1, <1>2
    <3> QED
      BY <1>2, <1>3, <3>1, <3>2
  <2>2. ASSUME NEW m \in Range(c) PROVE m \in Range(t)
    <3>1. PICK i \in 1 .. L : m = c[i]
      BY <1>1, <1>2
    <3>2. i \in DOMAIN t /\ m = t[i]
      BY <1>2, <1>3, <1>4, <3>1
    <3> QED
      BY <3>2 DEF Range
  <2>3. n \in Range(t)
    <3>1. L + 1 \in DOMAIN t
      BY <1>2, <1>4
    <3> QED
      BY <1>3, <3>1 DEF Range
  <2> QED
    BY <2>1, <2>2, <2>3
<1>9. t[1] = c[1]
  BY <1>2, <1>3
<1> QED
  BY <1>7, <1>8, <1>9 DEF t

LEMMA ChainLengthened ==
  ASSUME NEW D, NEW id, Chained(D, id), NEW D2, Sound(D2), NEW n \in DOMAIN D2,
         DOMAIN D \subseteq DOMAIN D2, n # 0, n \notin Members(D, id),
         D2[Last(Chain(D, id))].next = n, D2[n].next = 0,
         \A m \in Members(D, id) : m # Last(Chain(D, id)) => D2[m].next = D[m].next
  PROVE  /\ Chained(D2, id)
         /\ Chain(D2, id) = Append(Chain(D, id), n)
         /\ Members(D2, id) = Members(D, id) \cup {n}
<1> DEFINE c == Chain(D, id)
<1>1. Linked(D, c) /\ c[1] = id
  BY DEF Chained
<1>2. /\ n \notin Range(c) /\ D2[c[Len(c)]].next = n
      /\ \A m \in Range(c) : m # c[Len(c)] => D2[m].next = D[m].next
  BY DEF Members, Last
<1> HIDE DEF c
<1>3. /\ Linked(D2, Append(c, n)) /\ Range(Append(c, n)) = Range(c) \cup {n}
      /\ Append(c, n)[1] = c[1]
  <2>1. Lengthening(D, c, D2, n)
    BY <1>2 DEF Lengthening
  <2> QED
    BY <1>1, <2>1, LinkedLengthened
<1>4. Chain(D2, Append(c, n)[1]) = Append(c, n) /\ Chained(D2, Append(c, n)[1])
  BY <1>3, LinkedIsChained
<1> QED
  BY <1>1, <1>3, <1>4 DEF Members, c

-----------------------------------------------------------------------------
(* Flattening.                                                             *)

(* Sequences put one behind another, one at a time.                        *)
Concatenated(C, L, t) ==
  \E h \in [0 .. L -> Seq(C)] : h[0] = <<>> /\ \A n \in 1 .. L : h[n] = h[n - 1] \o t[n]

LEMMA Concatenations ==
  ASSUME NEW C, NEW L \in Nat, NEW t \in [1 .. L -> Seq(C)]
  PROVE  Concatenated(C, L, t)
<1> DEFINE X == Seq(C)
           J == [n \in 1 .. L |-> [g \in X |-> g \o t[n]]]
<1>1. J \in [1 .. L -> [X -> X]]
  <2>1. \A n \in 1 .. L, g \in X : g \o t[n] \in X
    BY ConcatProperties
  <2> HIDE DEF X
  <2> QED
    BY <2>1
<1>2. <<>> \in X
  OBVIOUS
<1>3. PICK h \in [0 .. L -> X] : h[0] = <<>> /\ \A n \in 1 .. L : h[n] = J[n][h[n - 1]]
  <2>1. Recurrence(X, <<>>, L, J)
    <3> HIDE DEF J, X
    <3> QED
      BY <1>1, <1>2, RecurrenceHolds
  <2> HIDE DEF J, X
  <2> QED
    BY <2>1, Zenon DEF Recurrence
<1>4. \A n \in 1 .. L : h[n] = h[n - 1] \o t[n]
  <2> HIDE DEF X
  <2>1. \A n \in 1 .. L : h[n - 1] \in X
    BY <1>3
  <2> QED
    BY <1>3, <2>1
<1>5. h \in [0 .. L -> Seq(C)] /\ h[0] = <<>> /\ \A n \in 1 .. L : h[n] = h[n - 1] \o t[n]
  BY <1>3, <1>4
<1> QED
  BY <1>5, Zenon DEF Concatenated

(* The equations by which FlattenSeq is defined have a solution.           *)
Unfolded(C, ss, f) ==
  /\ f \in [1 .. Len(ss) -> Seq(C)]
  /\ FlattenSeq(ss) = f[Len(ss)]
  /\ f[1] = ss[1]
  /\ \A i \in 2 .. Len(ss) : f[i] = f[i - 1] \o ss[i]

LEMMA FlattenUnfolds ==
  ASSUME NEW C, NEW ss \in Seq(Seq(C)), ss # <<>>
  PROVE  \E f : Unfolded(C, ss, f)
<1> DEFINE L == Len(ss)
           S == Seq(C)
           Unfold(f) == [i \in 1 .. L |-> IF i = 1 THEN ss[1] ELSE f[i - 1] \o ss[i]]
<1>1. L \in Nat \ {0} /\ \A i \in 1 .. L : ss[i] \in S
  OBVIOUS
<1>3. PICK h \in [0 .. L -> S] : h[0] = <<>> /\ \A n \in 1 .. L : h[n] = h[n - 1] \o ss[n]
  <2>1. L \in Nat /\ ss \in [1 .. L -> S]
    BY <1>1
  <2>2. Concatenated(C, L, ss)
    <3> HIDE DEF L
    <3> QED
      BY <2>1, Concatenations
  <2> HIDE DEF L
  <2> QED
    BY <2>2, Zenon DEF Concatenated
<1>4. /\ \A n \in 0 .. L : h[n] \in S
      /\ \A n \in 1 .. L : h[n] = h[n - 1] \o ss[n]
  <2> HIDE DEF S
  <2> QED
    BY <1>3
<1>5. h[1] = ss[1]
  <2>0. 1 \in 1 .. L /\ 1 - 1 = 0
    BY <1>1
  <2>1. h[1] = <<>> \o ss[1]
    BY <1>3, <1>4, <2>0
  <2> QED
    BY <1>1, <2>0, <2>1, ConcatEmptySeq
<1> DEFINE f == [i \in 1 .. L |-> h[i]]
<1>6. f = Unfold(f)
  <2>1. ASSUME NEW i \in 1 .. L PROVE f[i] = Unfold(f)[i]
    <3>1. CASE i = 1
      BY <1>5, <3>1
    <3>2. CASE i # 1
      <4>1. i - 1 \in 1 .. L
        BY <1>1, <3>2
      <4> QED
        BY <1>4, <3>2, <4>1
    <3> QED
      BY <3>1, <3>2
  <2> QED
    BY <2>1
<1> DEFINE flatten == CHOOSE g : g = Unfold(g)
<1>7. flatten = Unfold(flatten)
  <2> HIDE DEF Unfold, f
  <2> QED
    BY <1>6
<1>8. FlattenSeq(ss) = flatten[L]
  BY <1>1 DEF FlattenSeq
<1>9. \A i \in 1 .. L : flatten[i] = IF i = 1 THEN ss[1] ELSE flatten[i - 1] \o ss[i]
  <2> HIDE DEF flatten
  <2>1. \A i \in 1 .. L : flatten[i] = Unfold(flatten)[i]
    BY <1>7
  <2> QED
    BY <2>1
<1>10. flatten \in [1 .. L -> S]
  <2> HIDE DEF flatten
  <2> DEFINE T == {n \in 0 .. L : n # 0 => flatten[n] \in S}
  <2>1. 0 \in T
    OBVIOUS
  <2>2. ASSUME NEW n \in 0 .. L - 1, n \in T PROVE n + 1 \in T
    <3>1. n + 1 \in 1 .. L /\ (n + 1) - 1 = n
      BY <1>1
    <3>2. CASE n = 0
      BY SMTT(30), <1>1, <1>9, <3>1, <3>2
    <3>3. CASE n # 0
      <4>1. flatten[n + 1] = flatten[n] \o ss[n + 1]
        <5>1. flatten[n + 1] = IF n + 1 = 1 THEN ss[1]
                               ELSE flatten[(n + 1) - 1] \o ss[n + 1]
          BY <1>9, <3>1
        <5>2. n + 1 # 1
          BY <3>3
        <5> QED
          BY <3>1, <5>1, <5>2
      <4>2. flatten[n] \in S /\ ss[n + 1] \in S
        BY <1>1, <2>2, <3>1, <3>3
      <4>3. flatten[n + 1] \in S
        BY <4>1, <4>2, ConcatProperties
      <4> QED
        BY <3>1, <4>3
    <3> QED
      BY <3>2, <3>3
  <2>3. \A n \in 0 .. L : n \in T
    <3> HIDE DEF T
    <3> QED
      BY <1>1, <2>1, <2>2, Upward
  <2>4. \A n \in 1 .. L : flatten[n] \in S
    BY <1>1, <2>3
  <2>5. flatten = [i \in 1 .. L |-> flatten[i]]
    <3>1. Unfold(flatten) = [i \in 1 .. L |-> Unfold(flatten)[i]]
      OBVIOUS
    <3> HIDE DEF Unfold
    <3> QED
      BY <1>7, <3>1
  <2> QED
    BY <2>4, <2>5
<1> HIDE DEF flatten
<1>11. flatten[1] = ss[1] /\ \A i \in 2 .. L : flatten[i] = flatten[i - 1] \o ss[i]
  <2>1. 1 \in 1 .. L /\ \A i \in 2 .. L : i \in 1 .. L /\ i # 1
    BY <1>1
  <2> QED
    BY <1>9, <2>1
<1>12. Unfolded(C, ss, flatten)
  BY <1>8, <1>10, <1>11 DEF Unfolded
<1> QED
  BY <1>12, Zenon

LEMMA FlattenEmpty == FlattenSeq(<<>>) = <<>>
  BY DEF FlattenSeq

LEMMA FlattenType ==
  ASSUME NEW C, NEW ss \in Seq(Seq(C))
  PROVE  FlattenSeq(ss) \in Seq(C)
<1>1. CASE ss = <<>>
  <2>1. <<>> \in Seq(C)
    OBVIOUS
  <2>2. FlattenSeq(ss) = <<>>
    BY <1>1, FlattenEmpty, Zenon
  <2> QED
    BY <2>1, <2>2, Zenon
<1>2. CASE ss # <<>>
  <2>1. PICK f : Unfolded(C, ss, f)
    BY <1>2, FlattenUnfolds
  <2>2. Len(ss) \in 1 .. Len(ss)
    BY <1>2
  <2> QED
    BY <2>1, <2>2 DEF Unfolded
<1> QED
  BY <1>1, <1>2

LEMMA FlattenAppend ==
  ASSUME NEW C, NEW ss \in Seq(Seq(C)), NEW t \in Seq(C)
  PROVE  FlattenSeq(Append(ss, t)) = FlattenSeq(ss) \o t
<1> DEFINE L == Len(ss)
           tt == Append(ss, t)
<1>1. /\ L \in Nat /\ tt \in Seq(Seq(C)) /\ tt # <<>> /\ Len(tt) = L + 1
      /\ \A i \in 1 .. L : tt[i] = ss[i]
      /\ tt[L + 1] = t
  BY AppendProperties
<1> HIDE DEF tt
<1>2. PICK g : Unfolded(C, tt, g)
  BY <1>1, FlattenUnfolds
<1>3. CASE ss = <<>>
  <2>1. L = 0
    BY <1>3
  <2>2. FlattenSeq(tt) = g[1] /\ g[1] = tt[1]
    BY <1>1, <1>2, <2>1 DEF Unfolded
  <2>3. FlattenSeq(tt) = t
    BY <1>1, <2>1, <2>2
  <2> QED
    BY <1>3, <2>3, FlattenEmpty, ConcatEmptySeq DEF tt
<1>4. CASE ss # <<>>
  <2>1. L \in Nat \ {0}
    BY <1>1, <1>4
  <2>2. PICK f : Unfolded(C, ss, f)
    BY <1>4, FlattenUnfolds
  <2> DEFINE T == {i \in 0 .. L : i # 0 => f[i] = g[i]}
  <2>3. 0 \in T
    BY <2>1
  <2>4. ASSUME NEW i \in 0 .. L - 1, i \in T PROVE i + 1 \in T
    <3>1. i + 1 \in 1 .. L /\ (i + 1) - 1 = i
      BY <2>1
    <3>2. CASE i = 0
      <4>1. f[1] = ss[1] /\ g[1] = tt[1] /\ 1 \in 1 .. L
        BY <1>2, <2>1, <2>2 DEF Unfolded
      <4> QED
        BY <1>1, <3>1, <3>2, <4>1
    <3>3. CASE i # 0
      <4>1. i + 1 \in 2 .. L /\ i + 1 \in 2 .. L + 1
        BY <3>1, <3>3, <2>1
      <4>2. f[i + 1] = f[i] \o ss[i + 1]
        <5>1. f[i + 1] = f[(i + 1) - 1] \o ss[i + 1]
          BY <2>2, <4>1 DEF Unfolded
        <5> QED
          BY <3>1, <5>1
      <4>3. g[i + 1] = g[i] \o tt[i + 1]
        <5>1. g[i + 1] = g[(i + 1) - 1] \o tt[i + 1]
          BY <1>1, <1>2, <4>1 DEF Unfolded
        <5> QED
          BY <3>1, <5>1
      <4>4. f[i] = g[i] /\ tt[i + 1] = ss[i + 1]
        BY <1>1, <2>4, <3>1, <3>3
      <4>5. f[i + 1] = g[i + 1]
        BY <4>2, <4>3, <4>4, Zenon
      <4>6. i + 1 \in 0 .. L
        BY <2>1, <3>1
      <4> QED
        BY <4>5, <4>6
    <3> QED
      BY <3>2, <3>3
  <2>5. \A i \in 0 .. L : i \in T
    <3> HIDE DEF T, L
    <3> QED
      BY <1>1, <2>3, <2>4, Upward
  <2>6. f[L] = g[L]
    BY <2>1, <2>5
  <2>7. L + 1 \in 2 .. L + 1 /\ (L + 1) - 1 = L
    BY <2>1
  <2>8. g[L + 1] = g[(L + 1) - 1] \o tt[L + 1]
    BY <1>1, <1>2, <2>7 DEF Unfolded
  <2>9. FlattenSeq(tt) = g[L + 1] /\ FlattenSeq(ss) = f[L]
    BY <1>1, <1>2, <2>2 DEF Unfolded
  <2> QED
    BY <1>1, <2>6, <2>7, <2>8, <2>9 DEF tt
<1> QED
  BY <1>3, <1>4

LEMMA ConcatInjective ==
  ASSUME NEW C, NEW a \in Seq(C), NEW b \in Seq(C), IsInjective(a), IsInjective(b),
         Range(a) \cap Range(b) = {}
  PROVE  IsInjective(a \o b)
<1> DEFINE M == Len(a)
           N == Len(b)
<1>1. /\ M \in Nat /\ N \in Nat /\ DOMAIN a = 1 .. M /\ DOMAIN b = 1 .. N
  OBVIOUS
<1>2. /\ a \o b \in Seq(C) /\ Len(a \o b) = M + N
      /\ \A i \in 1 .. M + N : (a \o b)[i] = IF i <= M THEN a[i] ELSE b[i - M]
  BY ConcatProperties
<1>3. /\ \A i, j \in 1 .. M : a[i] = a[j] => i = j
      /\ \A i, j \in 1 .. N : b[i] = b[j] => i = j
      /\ \A i \in 1 .. M, j \in 1 .. N : a[i] # b[j]
  <2>1. \A i \in 1 .. M : a[i] \in Range(a)
    BY <1>1 DEF Range
  <2>2. \A i \in 1 .. N : b[i] \in Range(b)
    BY <1>1 DEF Range
  <2>3. \A i \in 1 .. M, j \in 1 .. N : a[i] # b[j]
    BY <2>1, <2>2
  <2> QED
    BY <1>1, <2>3 DEF IsInjective
<1>4. DOMAIN (a \o b) = 1 .. M + N
  BY <1>1, <1>2
<1> SUFFICES ASSUME NEW i \in 1 .. M + N, NEW j \in 1 .. M + N, (a \o b)[i] = (a \o b)[j]
             PROVE  i = j
  BY <1>4 DEF IsInjective
<1> DEFINE at(k) == IF k <= M THEN a[k] ELSE b[k - M]
<1>5. at(i) = at(j)
  BY <1>2
<1> HIDE DEF M, N
<1>6. /\ i <= M => i \in 1 .. M
      /\ ~ (i <= M) => i - M \in 1 .. N
      /\ j <= M => j \in 1 .. M
      /\ ~ (j <= M) => j - M \in 1 .. N
  BY <1>1
<1>7. CASE i <= M /\ j <= M
  BY <1>3, <1>5, <1>6, <1>7
<1>8. CASE ~ (i <= M) /\ ~ (j <= M)
  <2>1. i - M = j - M
    BY <1>3, <1>5, <1>6, <1>8
  <2> QED
    BY <1>1, <2>1
<1>9. CASE i <= M /\ ~ (j <= M)
  BY <1>3, <1>5, <1>6, <1>9
<1>10. CASE ~ (i <= M) /\ j <= M
  <2>1. b[i - M] = a[j] /\ j \in 1 .. M /\ i - M \in 1 .. N
    BY <1>5, <1>6, <1>10
  <2> QED
    BY <1>3, <2>1
<1> QED
  BY <1>7, <1>8, <1>9, <1>10

(* What is in a flattened sequence, in any order, and whether any of it is *)
(* there twice.                                                            *)
LEMMA FlattenPrefixes ==
  ASSUME NEW C, NEW ss \in Seq(Seq(C)), ss # <<>>,
         \A i \in 1 .. Len(ss) : IsInjective(ss[i]),
         \A i, j \in 1 .. Len(ss) : i # j => Range(ss[i]) \cap Range(ss[j]) = {}
  PROVE  /\ IsInjective(FlattenSeq(ss))
         /\ Range(FlattenSeq(ss)) = UNION {Range(ss[i]) : i \in 1 .. Len(ss)}
<1> DEFINE L == Len(ss)
           Into(n) == UNION {Range(ss[i]) : i \in 1 .. n}
<1>1. L \in Nat \ {0} /\ \A i \in 1 .. L : ss[i] \in Seq(C)
  OBVIOUS
<1>2. PICK f : Unfolded(C, ss, f)
  BY FlattenUnfolds
<1> DEFINE T == {n \in 0 .. L : n # 0 => IsInjective(f[n]) /\ Range(f[n]) = Into(n)}
<1>3. 0 \in T
  BY <1>1
<1>4. ASSUME NEW n \in 0 .. L - 1, n \in T PROVE n + 1 \in T
  <2>1. n + 1 \in 1 .. L /\ (n + 1) - 1 = n
    BY <1>1
  <2>2. CASE n = 0
    <3>1. f[1] = ss[1] /\ 1 \in 1 .. L
      BY <1>1, <1>2 DEF Unfolded
    <3>2. Into(1) = Range(ss[1])
      OBVIOUS
    <3>3. IsInjective(f[1]) /\ Range(f[1]) = Into(1)
      BY <3>1, <3>2, Zenon
    <3> QED
      BY <2>1, <2>2, <3>3
  <2>3. CASE n # 0
    <3>1. n \in 1 .. L /\ n + 1 \in 2 .. L
      BY <1>1, <2>1, <2>3
    <3>2. f[n + 1] = f[n] \o ss[n + 1]
      <4>1. f[n + 1] = f[(n + 1) - 1] \o ss[n + 1]
        BY <1>2, <3>1 DEF Unfolded
      <4> QED
        BY <2>1, <4>1
    <3>3. f[n] \in Seq(C) /\ ss[n + 1] \in Seq(C)
      BY <1>1, <1>2, <2>1, <3>1 DEF Unfolded
    <3>4. IsInjective(f[n]) /\ Range(f[n]) = Into(n)
      BY <1>4, <2>3
    <3>5. Into(n + 1) = Into(n) \cup Range(ss[n + 1])
      <4>1. 1 .. n + 1 = (1 .. n) \cup {n + 1}
        BY <1>1, <3>1
      <4> QED
        BY <4>1
    <3>6. Range(f[n + 1]) = Into(n + 1)
      <4>1. Range(f[n] \o ss[n + 1]) = Range(f[n]) \cup Range(ss[n + 1])
        BY <3>3, RangeConcatenation
      <4> HIDE DEF Into
      <4> QED
        BY <3>2, <3>4, <3>5, <4>1
    <3>7. Range(f[n]) \cap Range(ss[n + 1]) = {}
      <4>1. ASSUME NEW i \in 1 .. n PROVE Range(ss[i]) \cap Range(ss[n + 1]) = {}
        <5>1. i \in 1 .. L /\ i # n + 1
          BY <1>1, <2>1, <3>1
        <5> QED
          BY <2>1, <5>1
      <4> QED
        BY <3>4, <4>1
    <3>8. IsInjective(f[n + 1])
      <4>1. IsInjective(f[n] \o ss[n + 1])
        BY <1>1, <2>1, <3>3, <3>4, <3>7, ConcatInjective
      <4> QED
        BY <3>2, <4>1
    <3> HIDE DEF Into
    <3> QED
      BY <2>1, <3>6, <3>8
  <2> QED
    BY <2>2, <2>3
<1>5. \A n \in 0 .. L : n \in T
  <2> HIDE DEF T, L
  <2> QED
    BY <1>1, <1>3, <1>4, Upward
<1>6. IsInjective(f[L]) /\ Range(f[L]) = Into(L)
  <2> HIDE DEF Into
  <2> QED
    BY <1>1, <1>5
<1>7. FlattenSeq(ss) = f[L]
  BY <1>2 DEF Unfolded
<1> QED
  BY <1>6, <1>7, Zenon

-----------------------------------------------------------------------------
(* The content of the blocks "c".                                          *)

Contents(D, c) == FlattenSeq([i \in 1 .. Len(c) |-> Used(D[c[i]])])

(* Every block of "c" has its content from "V".                            *)
Filled(D, c, V) == \A m \in Range(c) : Used(D[m]) \in Seq(V)

LEMMA ContentsType ==
  ASSUME NEW D, NEW A, NEW c \in Seq(A), NEW V, Filled(D, c, V)
  PROVE  /\ [i \in 1 .. Len(c) |-> Used(D[c[i]])] \in Seq(Seq(V))
         /\ Contents(D, c) \in Seq(V)
<1>1. Len(c) \in Nat /\ \A i \in 1 .. Len(c) : c[i] \in Range(c)
  BY DEF Range
<1>2. [i \in 1 .. Len(c) |-> Used(D[c[i]])] \in [1 .. Len(c) -> Seq(V)]
  BY <1>1 DEF Filled
<1>3. [i \in 1 .. Len(c) |-> Used(D[c[i]])] \in Seq(Seq(V))
  BY <1>1, <1>2
<1> QED
  BY <1>3, FlattenType DEF Contents

LEMMA ContentsOfNone ==
  ASSUME NEW D
  PROVE  Contents(D, <<>>) = <<>>
<1>1. [i \in 1 .. Len(<<>>) |-> Used(D[<<>>[i]])] = <<>>
  OBVIOUS
<1> QED
  BY <1>1, FlattenEmpty DEF Contents

LEMMA ContentsAppend ==
  ASSUME NEW D, NEW A, NEW c \in Seq(A), NEW n \in A, NEW V, Filled(D, c, V),
         Used(D[n]) \in Seq(V)
  PROVE  Contents(D, Append(c, n)) = Contents(D, c) \o Used(D[n])
<1> DEFINE L == Len(c)
           cc == Append(c, n)
           ss == [i \in 1 .. L |-> Used(D[c[i]])]
           tt == [i \in 1 .. Len(cc) |-> Used(D[cc[i]])]
           u == Used(D[n])
<1>1. /\ L \in Nat /\ cc \in Seq(A) /\ Len(cc) = L + 1
      /\ \A i \in 1 .. L : cc[i] = c[i]
      /\ cc[L + 1] = n
  BY AppendProperties
<1>2. ss \in Seq(Seq(V)) /\ Len(ss) = L
  <2>1. ss \in Seq(Seq(V))
    BY ContentsType
  <2>2. DOMAIN ss = 1 .. L
    OBVIOUS
  <2> HIDE DEF ss
  <2> QED
    BY <1>1, <2>1, <2>2
<1>3. tt = Append(ss, u)
  <2> HIDE DEF cc
  <2>1. DOMAIN tt = 1 .. L + 1 /\ DOMAIN Append(ss, u) = 1 .. L + 1
    BY <1>1, <1>2
  <2>2. \A i \in 1 .. L + 1 : tt[i] = Append(ss, u)[i]
    <3> SUFFICES ASSUME NEW i \in 1 .. L + 1 PROVE tt[i] = Append(ss, u)[i]
      OBVIOUS
    <3>1. CASE i = L + 1
      BY <1>1, <1>2, <3>1
    <3>2. CASE i # L + 1
      <4>1. i \in 1 .. L
        BY <1>1, <3>2
      <4> QED
        BY <1>1, <1>2, <4>1
    <3> QED
      BY <3>1, <3>2
  <2>3. Append(ss, u) \in Seq(Seq(V)) /\ Len(Append(ss, u)) = L + 1
    <3> HIDE DEF ss
    <3> QED
      BY <1>2
  <2>4. tt \in Seq(Seq(V)) /\ Len(tt) = L + 1
    <3>1. \A i \in 1 .. L + 1 : Append(ss, u)[i] \in Seq(V)
      <4> HIDE DEF ss, u
      <4> QED
        BY <2>3
    <3>2. \A i \in 1 .. L + 1 : tt[i] \in Seq(V)
      <4> HIDE DEF tt, ss, u
      <4> QED
        BY <2>2, <3>1
    <3>3. tt = [i \in 1 .. L + 1 |-> tt[i]]
      BY <1>1
    <3> HIDE DEF tt
    <3> QED
      BY <1>1, <3>2, <3>3
  <2> HIDE DEF ss, tt, u
  <2> QED
    BY <2>2, <2>3, <2>4, SeqEqual
<1>4. FlattenSeq(Append(ss, u)) = FlattenSeq(ss) \o u
  <2> HIDE DEF ss
  <2> QED
    BY <1>2, FlattenAppend
<1> QED
  BY <1>3, <1>4, Zenon DEF Contents

LEMMA ContentsUnchanged ==
  ASSUME NEW D, NEW D2, NEW c, \A i \in 1 .. Len(c) : D2[c[i]] = D[c[i]]
  PROVE  Contents(D2, c) = Contents(D, c)
<1>1. [i \in 1 .. Len(c) |-> Used(D2[c[i]])] = [i \in 1 .. Len(c) |-> Used(D[c[i]])]
  OBVIOUS
<1> QED
  BY <1>1, Zenon DEF Contents

LEMMA ContentsSame ==
  ASSUME NEW D, NEW D2, NEW c, \A i \in 1 .. Len(c) : Used(D2[c[i]]) = Used(D[c[i]])
  PROVE  Contents(D2, c) = Contents(D, c)
<1>1. [i \in 1 .. Len(c) |-> Used(D2[c[i]])] = [i \in 1 .. Len(c) |-> Used(D[c[i]])]
  OBVIOUS
<1> QED
  BY <1>1, Zenon DEF Contents

(* Only the content of the last block may change.                          *)
LEMMA ContentsChanged ==
  ASSUME NEW A, NEW c \in Seq(A), c # <<>>, NEW V,
         NEW D, Filled(D, c, V), NEW D2, Filled(D2, c, V),
         \A i \in 1 .. Len(c) - 1 : D2[c[i]] = D[c[i]],
         Used(D[Last(c)]) = <<>>
  PROVE  Contents(D2, c) = Contents(D, c) \o Used(D2[Last(c)])
<1> DEFINE L == Len(c)
           p == SubSeq(c, 1, L - 1)
           n == c[L]
<1>1. L \in Nat \ {0} /\ n \in A /\ n \in Range(c) /\ \A i \in 1 .. L : c[i] \in Range(c)
  BY DEF Range
<1>2. /\ p \in Seq(A) /\ Len(p) = L - 1
      /\ \A i \in 1 .. L - 1 : p[i] = c[i]
  <2>1. 1 \in Int /\ L - 1 \in Int /\ \A i \in 1 .. L - 1 : c[i] \in A
    BY <1>1
  <2>2. /\ p \in Seq(A) /\ Len(p) = IF 1 <= L - 1 THEN L - 1 - 1 + 1 ELSE 0
        /\ \A i \in 1 .. L - 1 - 1 + 1 : p[i] = c[1 + i - 1]
    BY <2>1, SubSeqProperties
  <2>3. L \in Nat \ {0}
    BY <1>1
  <2> HIDE DEF p, L
  <2>4. L - 1 - 1 + 1 = L - 1 /\ \A i \in 1 .. L - 1 : 1 + i - 1 = i
    BY <2>3
  <2>5. Len(p) = L - 1
    BY <2>2, <2>3
  <2> QED
    BY <2>2, <2>4, <2>5
<1>3. c = Append(p, n)
  <2>1. L \in 1 .. L /\ 1 \in 1 .. L /\ L \in 1 .. Len(c)
    BY <1>1
  <2>2. SubSeq(c, 1, L) = SubSeq(c, 1, L - 1) \o <<c[L]>>
    BY <2>1, SubSeqRecursiveSecond
  <2>3. SubSeq(c, 1, L) = c
    BY SubSeqFull
  <2>4. Append(p, n) = p \o <<n>>
    BY <1>1, <1>2, AppendIsConcat
  <2> QED
    BY <2>2, <2>3, <2>4
<1> HIDE DEF p, n
<1>4. Range(p) \subseteq Range(c)
  <2>1. DOMAIN p = 1 .. L - 1 /\ \A i \in 1 .. L - 1 : i \in 1 .. L
    BY <1>1, <1>2
  <2>2. \A i \in 1 .. L - 1 : p[i] \in Range(c)
    BY <1>1, <1>2, <2>1
  <2> QED
    BY <2>1, <2>2 DEF Range
<1>5. Filled(D, p, V) /\ Filled(D2, p, V) /\ Used(D[n]) \in Seq(V) /\ Used(D2[n]) \in Seq(V)
  BY <1>1, <1>4 DEF Filled
<1>6. Contents(D, c) = Contents(D, p) \o Used(D[n])
  BY <1>1, <1>2, <1>3, <1>5, ContentsAppend
<1>7. Contents(D2, c) = Contents(D2, p) \o Used(D2[n])
  BY <1>1, <1>2, <1>3, <1>5, ContentsAppend
<1>8. Contents(D2, p) = Contents(D, p)
  <2>1. \A i \in 1 .. Len(p) : D2[p[i]] = D[p[i]]
    BY <1>2
  <2> QED
    BY <2>1, ContentsUnchanged
<1>9. Contents(D, p) \in Seq(V)
  BY <1>2, <1>5, ContentsType
<1>10. Used(D[n]) = <<>> /\ n = Last(c)
  BY DEF Last, n
<1>11. Contents(D, p) \o <<>> = Contents(D, p)
  BY <1>9, ConcatEmptySeq
<1> QED
  BY <1>6, <1>7, <1>8, <1>10, <1>11

LEMMA ContentIsContents ==
  ASSUME NEW D, NEW id
  PROVE  Content(D, id) = Contents(D, Chain(D, id))
  BY DEF Content, Contents

(* A record reads the same as long as none of its blocks changes.          *)
LEMMA LookupUnchanged ==
  ASSUME NEW D, NEW id, Chained(D, id), NEW D2, Sound(D2),
         \A m \in Members(D, id) : m \in DOMAIN D2 /\ D2[m] = D[m]
  PROVE  /\ Chained(D2, id) /\ Chain(D2, id) = Chain(D, id) /\ Members(D2, id) = Members(D, id)
         /\ Content(D2, id) = Content(D, id)
         /\ Lookup(D2, id) = Lookup(D, id)
<1>1. Chained(D2, id) /\ Chain(D2, id) = Chain(D, id) /\ Members(D2, id) = Members(D, id)
  BY ChainUnchanged
<1>2. id \in DOMAIN D /\ id \in DOMAIN D2 /\ D2[id] = D[id]
  BY MembersOfChained
<1>3. Content(D2, id) = Content(D, id)
  <2> DEFINE c == Chain(D, id)
  <2>1. Linked(D, c)
    BY DEF Chained
  <2>2. \A i \in 1 .. Len(c) : D2[c[i]] = D[c[i]]
    <3>1. \A m \in Range(c) : D2[m] = D[m]
      BY DEF Members
    <3> HIDE DEF c
    <3> QED
      BY <2>1, <3>1, MembersOfLinked
  <2>3. Contents(D2, c) = Contents(D, c)
    <3> HIDE DEF c
    <3> QED
      BY <2>2, ContentsUnchanged
  <2> QED
    BY <1>1, <2>3, ContentIsContents
<1>4. Lookup(D2, id) = Lookup(D, id)
  BY <1>2, <1>3, Zenon DEF Lookup
<1> QED
  BY <1>1, <1>3, <1>4
=============================================================================
