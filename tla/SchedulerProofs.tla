--------------------------- MODULE SchedulerProofs ---------------------------
(***************************************************************************)
(* For any number of clients, any capacity of the channel, any requests    *)
(* and any sizes: the state is well typed, every tuple is in one place and *)
(* no wake-up is lost, every client gets the answer to its own request,    *)
(* and no array is shared unless it was disposed twice; the database       *)
(* header is never overwritten, and scheduler, reader and file together    *)
(* implement FileStore, crashes included, as long as no array was.         *)
(***************************************************************************)
EXTENDS SchedulerRefinement, SequenceTheorems, TLAPS

-----------------------------------------------------------------------------
(* What the operators of a transfer return.                                *)

(* A page or a block starts at some byte and has some bytes.               *)
LEMMA PositionType ==
  ASSUME NEW a \in Address
  PROVE  Offset(a) \in Nat /\ Length(a) \in Nat
<1>1. /\ PAGE_SIZE_INCL_HEADER \in Nat
      /\ BLOCK_SIZE_INCL_HEADER \in Nat
  <2>1. PAGE_SIZE_INCL_HEADER \in Nat
    BY SizesAssumption DEF PAGE_SIZE_INCL_HEADER
  <2>2. \A x, y \in Nat : x * y \in Nat
    OBVIOUS
  <2>3. DATA_BLOCK_SIZE \in Nat
    BY <2>1, <2>2, SizesAssumption DEF DATA_BLOCK_SIZE
  <2> QED
    BY <2>1, <2>3, SizesAssumption DEF BLOCK_SIZE_INCL_HEADER
<1>2. a.block \in Nat /\ a.page \in Nat
  BY WidthsAssumption DEF Address, USHORT
<1>3. /\ a.block * BLOCK_SIZE_INCL_HEADER \in Nat
      /\ a.page * PAGE_SIZE_INCL_HEADER \in Nat
  <2>1. \A x, y \in Nat : x * y \in Nat
    OBVIOUS
  <2> QED
    BY <1>1, <1>2, <2>1
<1>4. \A x \in Nat : x % UINT_RANGE \in Nat
  BY WidthsAssumption
<1>5. Offset(a) \in Nat
  BY <1>3, <1>4, SizesAssumption DEF Offset
<1>6. Length(a) \in Nat
  BY <1>1 DEF Length
<1> QED
  BY <1>5, <1>6

(* The length of a valid request is a number of bytes.                     *)
LEMMA TransferType ==
  ASSUME NEW r \in IORequest, Valid(r)
  PROVE  TransferLength(r) \in Nat
<1>1. r.address \in Address
  BY DEF IORequest
<1>2. Length(r.address) \in Nat
  BY <1>1, PositionType
<1>3. ScopeOf(r.address) \in {Block, Page, Document}
  BY DEF Valid, AddressScope
<1>4. GetHeaderLengthForScope(ScopeOf(r.address)) \in Nat
  <2>1. Block # Page /\ Block # Document /\ Page # Document
    BY DEF Block, Page, Document
  <2>2. /\ BLOCK_HEADER_SIZE \in Nat
        /\ PAGE_HEADER_SIZE \in Nat
        /\ DOCUMENT_HEADER_SIZE \in Nat
    BY SizesAssumption
  <2> QED
    BY <1>3, <2>1, <2>2, Zenon DEF GetHeaderLengthForScope
<1> QED
  BY <1>2, <1>4 DEF TransferLength

(* Writing keeps the file a sequence of bytes.                             *)
LEMMA OverwriteType ==
  ASSUME NEW s \in Seq(Byte), NEW offset \in Nat, NEW n \in Nat, NEW value \in Byte
  PROVE  Overwrite(s, offset, n, value) \in Seq(Byte)
<1> DEFINE m == IF offset + n > Len(s) THEN offset + n ELSE Len(s)
<1>1. m \in Nat
  OBVIOUS
<1>2. Zero \in Byte
  BY DEF Byte
<1>3. \A i \in 1 .. m :
        (IF offset < i /\ i <= offset + n THEN value
         ELSE IF i <= Len(s) THEN s[i] ELSE Zero) \in Byte
  BY <1>1, <1>2
<1>4. Overwrite(s, offset, n, value) \in [1 .. m -> Byte]
  BY <1>3, Zenon DEF Overwrite
<1> QED
  BY <1>1, <1>4

(* Reading keeps an array a sequence of bytes.                             *)
LEMMA ReadIntoType ==
  ASSUME NEW array \in Seq(Byte), NEW s \in Seq(Byte), NEW offset \in Nat
  PROVE  ReadInto(array, s, offset) \in Seq(Byte)
<1>1. \A i \in 1 .. Len(array) :
        (IF offset + i <= Len(s) THEN s[offset + i] ELSE array[i]) \in Byte
  OBVIOUS
<1>2. ReadInto(array, s, offset) \in [1 .. Len(array) -> Byte]
  BY <1>1, Zenon DEF ReadInto
<1> QED
  BY <1>2

LEMMA AvailableType ==
  ASSUME NEW s \in Seq(Byte), NEW offset \in Nat, NEW n \in Nat
  PROVE  Available(s, offset, n) \in Nat
BY DEF Available

(* What Rent hands out is a sequence of bytes, out of the pool or new.     *)
LEMMA RentType ==
  ASSUME TypeOK, NEW b \in Buffer, NEW n \in Nat, NEW array \in Rent(b, n)
  PROVE  /\ array \in Seq(Byte)
         /\ Len(array) \in Rentable(n)
         /\ pool[b] > 0 \/ ~ Held(b)
<1>1. CASE pool[b] > 0
  <2>1. array = buffers[b] /\ Len(buffers[b]) \in Rentable(n)
    BY <1>1 DEF Rent
  <2> QED
    BY <1>1, <2>1 DEF TypeOK
<1>2. CASE ~ (pool[b] > 0)
  <2>1. PICK m \in Rentable(n) : array = [i \in 1 .. m |-> Zero] /\ ~ Held(b)
    BY <1>2 DEF Rent
  <2>2. m \in Nat
    BY <2>1 DEF Rentable
  <2>3. array \in [1 .. m -> Byte] /\ DOMAIN array = 1 .. m
    BY <2>1 DEF Byte
  <2>4. array \in Seq(Byte)
    BY <2>2, <2>3
  <2>5. Len(array) = m
    BY <2>2, <2>3, <2>4, LenProperties
  <2> QED
    BY <2>1, <2>4, <2>5
<1> QED
  BY <1>1, <1>2

(* A new process finds a sequence of bytes, too.                           *)
LEMMA SurvivorsType ==
  ASSUME TypeOK, NEW s \in Survivors
  PROVE  s \in Seq(Byte)
<1>1. PICK n \in Len(durable) .. Len(stream), kept \in SUBSET (1 .. Len(stream)) :
        s = [i \in 1 .. n |->
               IF i \in kept THEN stream[i]
               ELSE IF i <= Len(durable) THEN durable[i] ELSE Zero]
  BY SMTT(60) DEF Survivors
<1>2. n \in Nat
  BY DEF TypeOK
<1>3. \A i \in 1 .. n :
        (IF i \in kept THEN stream[i]
         ELSE IF i <= Len(durable) THEN durable[i] ELSE Zero) \in Byte
  BY <1>2 DEF TypeOK, Byte
<1>4. s \in [1 .. n -> Byte]
  BY <1>1, <1>3, Zenon
<1> QED
  BY <1>2, <1>4

-----------------------------------------------------------------------------
(* Type correctness.                                                       *)

LEMMA InitType == Init => TypeOK
<1> SUFFICES ASSUME Init PROVE TypeOK
  OBVIOUS
<1>1. stream \in [1 .. DATABASE_HEADER_SIZE -> Byte]
  BY DEF Init, Byte
<1>2. stream \in Seq(Byte)
  BY <1>1, SizesAssumption
<1>3. <<>> \in Seq(Byte) /\ <<>> \in Seq(Client)
  OBVIOUS
<1> QED
  BY <1>2, <1>3 DEF Init, TypeOK

LEMMA RestartType == ASSUME TypeOK, Restart PROVE TypeOK'
<1>1. stream' \in Seq(Byte)
  BY SurvivorsType DEF Restart
<1>2. <<>> \in Seq(Byte) /\ <<>> \in Seq(Client)
  OBVIOUS
<1> QED
  BY <1>1, <1>2 DEF Restart, TypeOK

(* The response the reader makes is the one to the request it took out.    *)
LEMMA ResponseMade ==
  ASSUME TypeOK, Phases, OnePlace, Read \/ Write
  PROVE  /\ current \in Client
         /\ ioResponse' \in IOResponse
         /\ ioResponse'.id = request[current].id
         /\ ioResponse'.address = request[current].address
         /\ ioResponse'.buffer # NoBuffer <=> request[current].direction = "Read"
<1> DEFINE r == request[current]
           n == TransferLength(r)
           offset == Offset(r.address)
<1>1. current \in Client /\ r \in IORequest /\ Valid(r)
  BY DEF Read, Write, TypeOK, Phases, OnePlace
<1>2. /\ r.id \in Id /\ r.address \in Address
      /\ r.direction = "Read" <=> r.direction # "Write"
  BY <1>1 DEF IORequest, Direction
<1>3. n \in Nat /\ offset \in Nat
  BY <1>1, <1>2, TransferType, PositionType
<1>4. CASE Read
  <2>1. PICK b \in Buffer :
          ioResponse' = [id |-> r.id, address |-> r.address, buffer |-> b,
                         got |-> Available(stream, offset, n)]
    BY <1>4 DEF Read
  <2>2. b \in Buffer
    BY <2>1
  <2>3. Available(stream, offset, n) \in Nat
    BY <1>3, AvailableType DEF TypeOK
  <2>4. r.direction = "Read"
    BY <1>4 DEF Read
  <2> QED
    BY <1>1, <1>2, <2>1, <2>2, <2>3, <2>4, BufferAssumption DEF IOResponse
<1>5. CASE Write
  <2>1. r.direction = "Write"
    BY <1>5 DEF Write
  <2>2. ioResponse' = [id |-> r.id, address |-> r.address, buffer |-> NoBuffer, got |-> 0]
    BY <1>5 DEF Write
  <2> QED
    BY <1>1, <1>2, <2>1, <2>2 DEF IOResponse
<1> QED
  BY <1>4, <1>5

LEMMA TypeStep ==
  ASSUME TypeOK, Phases, OnePlace, [Next]_vars
  PROVE  TypeOK'
<1> DEFINE PC == {"idle", "waitToWrite", "write", "blocked", "await", "answered"}
<1>1. ASSUME NEW c \in Client, Schedule(c) PROVE TypeOK'
  <2>1. PICK t \in Template, id \in Id :
          request' = [request EXCEPT ![c] = NewRequest(t, id)]
    BY <1>1 DEF Schedule
  <2>2. NewRequest(t, id) \in IORequest
    BY <2>1, TemplateAssumption DEF NewRequest, IORequest
  <2>3. request' \in [Client -> IORequest \cup {NoRequest}]
    BY <2>1, <2>2 DEF TypeOK
  <2>4. pc' \in [Client -> PC]
    BY <1>1 DEF Schedule, TypeOK
  <2> QED
    BY <1>1, <2>3, <2>4 DEF Schedule, channelVars, readerVars, fileVars, bufferVars, TypeOK
<1>2. ASSUME NEW c \in Client, WriteAsync(c) PROVE TypeOK'
  <2>1. pc' \in [Client -> PC]
    BY <1>2 DEF WriteAsync, TypeOK
  <2>2. items' \in Seq(Client) /\ blockedWriters' \in Seq(Client)
    <3>1. Append(items, c) \in Seq(Client) /\ Append(blockedWriters, c) \in Seq(Client)
      BY AppendProperties DEF TypeOK
    <3> QED
      BY <1>2, <3>1 DEF WriteAsync, TypeOK
  <2> QED
    BY <1>2, <2>1, <2>2 DEF WriteAsync, readerVars, fileVars, bufferVars, TypeOK
<1>3. ASSUME NEW c \in Client, Dispose(c) PROVE TypeOK'
  <2>1. response[c] \in IOResponse
    BY <1>3 DEF Dispose, TypeOK, Phases
  <2>2. response[c].buffer \in Buffer
    BY <1>3, <2>1 DEF Dispose, IOResponse
  <2>3. pool' \in [Buffer -> Nat]
    <3>1. pool' = pool \/ pool' = [pool EXCEPT ![response[c].buffer] = @ + 1]
      BY <1>3 DEF Dispose
    <3>2. pool \in [Buffer -> Nat]
      BY DEF TypeOK
    <3>3. pool[response[c].buffer] + 1 \in Nat
      BY <2>2, <3>2
    <3> QED
      BY <2>2, <3>1, <3>2, <3>3, Zenon
  <2>5. overReturned' \subseteq Buffer
    <3>1. overReturned' \subseteq overReturned \cup {response[c].buffer}
      BY <1>3 DEF Dispose
    <3> QED
      BY <2>2, <3>1 DEF TypeOK
  <2>4. disposals' \in [Client -> Nat]
    BY <1>3 DEF Dispose, TypeOK
  <2> QED
    BY <1>3, <2>3, <2>4, <2>5 DEF Dispose, channelVars, readerVars, fileVars, TypeOK
<1>11. ASSUME NEW c \in Client, Forget(c) PROVE TypeOK'
  <2>1. <<>> \in Seq(Byte)
    OBVIOUS
  <2>2. buffers' \in [Buffer -> Seq(Byte)] /\ overReturned' \subseteq Buffer
    <3> DEFINE content(b) == IF Unreachable(b)' THEN <<>> ELSE buffers[b]
    <3>1. \A b \in Buffer : content(b) \in Seq(Byte)
      BY <2>1 DEF TypeOK
    <3>2. buffers' = [b \in Buffer |-> content(b)] /\ overReturned' \subseteq overReturned
      BY <1>11 DEF Forget
    <3> HIDE DEF content
    <3> QED
      BY <3>1, <3>2 DEF TypeOK
  <2>3. /\ pc' \in [Client -> PC]
        /\ request' \in [Client -> IORequest \cup {NoRequest}]
        /\ response' \in [Client -> IOResponse \cup {NoResponse}]
        /\ disposals' \in [Client -> Nat]
    BY <1>11 DEF Forget, TypeOK
  <2>4. UNCHANGED <<pool, channelVars, readerVars, fileVars>>
    BY <1>11 DEF Forget
  <2> QED
    BY <2>2, <2>3, <2>4 DEF channelVars, readerVars, fileVars, TypeOK
<1>4. CASE TryRead
  <2>1. Head(items) \in Client /\ Tail(items) \in Seq(Client)
    BY <1>4 DEF TryRead, TypeOK
  <2>2. CASE blockedWriters # <<>>
    <3>1. Head(blockedWriters) \in Client /\ Tail(blockedWriters) \in Seq(Client)
      BY <2>2 DEF TypeOK
    <3>2. items' \in Seq(Client) /\ blockedWriters' \in Seq(Client)
      <4>1. Append(Tail(items), Head(blockedWriters)) \in Seq(Client)
        BY <2>1, <3>1, AppendProperties
      <4> QED
        BY <1>4, <2>2, <3>1, <4>1 DEF TryRead
    <3>3. pc' \in [Client -> PC]
      BY <1>4, <2>2, <3>1 DEF TryRead, TypeOK
    <3> QED
      BY <1>4, <2>1, <3>2, <3>3 DEF TryRead, fileVars, bufferVars, TypeOK
  <2>3. CASE blockedWriters = <<>>
    <3>1. pc' \in [Client -> PC]
      BY <1>4, <2>3 DEF TryRead, Woken, TypeOK
    <3> QED
      BY <1>4, <2>1, <2>3, <3>1 DEF TryRead, fileVars, bufferVars, TypeOK
  <2> QED
    BY <2>2, <2>3
<1>5. CASE Read
  <2> DEFINE r == request[current]
             n == TransferLength(r)
             offset == Offset(r.address)
  <2>1. r \in IORequest /\ Valid(r)
    BY <1>5 DEF Read, TypeOK, Phases, OnePlace
  <2>2. r.address \in Address
    BY <2>1 DEF IORequest
  <2>3. n \in Nat /\ offset \in Nat
    BY <2>1, <2>2, TransferType, PositionType
  <2>4. PICK b \in Buffer :
          /\ \E array \in Rent(b, n) :
               buffers' = [buffers EXCEPT ![b] = ReadInto(array, stream, offset)]
          /\ pool' = TakenOut(b)
    BY <1>5 DEF Read
  <2>5. PICK array \in Rent(b, n) :
          buffers' = [buffers EXCEPT ![b] = ReadInto(array, stream, offset)]
    BY <2>4
  <2>6. b \in Buffer
    BY <2>4
  <2>7. ReadInto(array, stream, offset) \in Seq(Byte)
    BY <2>3, <2>5, <2>6, RentType, ReadIntoType DEF TypeOK
  <2>8. buffers' \in [Buffer -> Seq(Byte)]
    BY <2>5, <2>7 DEF TypeOK
  <2>9. ioResponse' \in IOResponse
    BY <1>5, ResponseMade
  <2>10. pool' \in [Buffer -> Nat]
    BY <2>4, <2>6 DEF TakenOut, TypeOK
  <2> QED
    BY <1>5, <2>8, <2>9, <2>10 DEF Read, clientVars, channelVars, fileVars, TypeOK
<1>6. CASE Write
  <2> DEFINE r == request[current]
  <2>1. r \in IORequest /\ Valid(r)
    BY <1>6 DEF Write, TypeOK, Phases, OnePlace
  <2>2. r.address \in Address /\ r.value \in Byte
    BY <2>1 DEF IORequest, Byte
  <2>3. TransferLength(r) \in Nat /\ Offset(r.address) \in Nat
    BY <2>1, <2>2, TransferType, PositionType
  <2>4. stream' \in Seq(Byte)
    BY <1>6, <2>2, <2>3, OverwriteType DEF Write, TypeOK
  <2>5. ioResponse' \in IOResponse
    BY <1>6, ResponseMade
  <2>6. readerPc' \in {"flush", "setResult"}
    BY <1>6 DEF Write, AfterWrite
  <2> QED
    BY <1>6, <2>4, <2>5, <2>6 DEF Write, clientVars, channelVars, bufferVars, TypeOK
<1>7. CASE Flush
  BY <1>7 DEF Flush, clientVars, channelVars, bufferVars, TypeOK
<1>8. CASE SetResult
  <2>1. /\ response' \in [Client -> IOResponse \cup {NoResponse}]
        /\ pc' \in [Client -> PC]
    BY <1>8 DEF SetResult, Answered, TypeOK
  <2>2. guest' \in Client \cup {NoClient} /\ pool' = pool
    BY <1>8 DEF SetResult, Answered, AfterAnswer, TypeOK
  <2> QED
    BY <1>8, <2>1, <2>2 DEF SetResult, channelVars, fileVars, TypeOK
<1>12. CASE Yield
  BY <1>12 DEF Yield, clientVars, channelVars, fileVars, bufferVars, TypeOK
<1>9. CASE Restart
  BY <1>9, RestartType
<1>10. CASE UNCHANGED vars
  BY <1>10 DEF vars, clientVars, channelVars, readerVars, fileVars, bufferVars, TypeOK
<1> QED
  BY <1>1, <1>2, <1>3, <1>4, <1>5, <1>6, <1>7, <1>8, <1>9, <1>10, <1>11, <1>12
  DEF Next, Reader, ReaderThrows, Crash

-----------------------------------------------------------------------------
(* The tuples and the phases.                                              *)

(* Adding at the end of a sequence and taking its head, as sets.           *)
LEMMA AppendRange ==
  ASSUME NEW s \in Seq(Client), NEW c \in Client
  PROVE  /\ Append(s, c) \in Seq(Client)
         /\ Range(Append(s, c)) = Range(s) \cup {c}
         /\ IsInjective(s) /\ c \notin Range(s) => IsInjective(Append(s, c))
<1> DEFINE t == Append(s, c)
<1>1. /\ t \in Seq(Client)
      /\ Len(t) = Len(s) + 1 /\ Len(s) \in Nat
      /\ \A i \in 1 .. Len(s) : t[i] = s[i]
      /\ t[Len(s) + 1] = c
  BY AppendProperties
<1>2. DOMAIN s = 1 .. Len(s) /\ DOMAIN t = 1 .. Len(s) + 1
  BY <1>1
<1> HIDE DEF t
<1>3. Range(t) = Range(s) \cup {c}
  BY <1>1, <1>2 DEF Range
<1>4. IsInjective(s) /\ c \notin Range(s) => IsInjective(t)
  BY <1>1, <1>2 DEF Range, IsInjective
<1> QED
  BY <1>1, <1>3, <1>4 DEF t

LEMMA TailRange ==
  ASSUME NEW s \in Seq(Client), s # <<>>, IsInjective(s)
  PROVE  /\ Head(s) \in Range(s) /\ Head(s) \in Client
         /\ Tail(s) \in Seq(Client)
         /\ Range(Tail(s)) = Range(s) \ {Head(s)}
         /\ IsInjective(Tail(s))
<1> DEFINE t == Tail(s)
           h == Head(s)
<1>1. /\ t \in Seq(Client) /\ h \in Client
      /\ Len(t) = Len(s) - 1 /\ Len(s) \in Nat \ {0}
      /\ \A i \in 1 .. Len(t) : t[i] = s[i + 1]
      /\ h = s[1]
  BY HeadTailProperties, EmptySeq
<1>2. DOMAIN s = 1 .. Len(s) /\ DOMAIN t = 1 .. Len(s) - 1
  BY <1>1
<1> HIDE DEF t, h
<1>3. h \in Range(s)
  BY <1>1, <1>2 DEF Range
<1>4. Range(t) = Range(s) \ {h}
  <2>1. \A x \in Range(t) : x \in Range(s) /\ x # h
    BY <1>1, <1>2 DEF Range, IsInjective
  <2>2. \A x \in Range(s) : x # h => x \in Range(t)
    <3> SUFFICES ASSUME NEW i \in 1 .. Len(s), s[i] # h PROVE s[i] \in Range(t)
      BY <1>2 DEF Range
    <3>1. i - 1 \in 1 .. Len(t) /\ t[i - 1] = s[i]
      BY <1>1
    <3> QED
      BY <1>1, <1>2, <3>1 DEF Range
  <2> QED
    BY <2>1, <2>2
<1>5. IsInjective(t)
  <2> SUFFICES ASSUME NEW i \in 1 .. Len(t), NEW j \in 1 .. Len(t), t[i] = t[j]
               PROVE  i = j
    BY <1>1, <1>2 DEF IsInjective
  <2>1. /\ i + 1 \in DOMAIN s /\ j + 1 \in DOMAIN s
        /\ s[i + 1] = s[j + 1]
    BY <1>1, <1>2
  <2>2. i + 1 = j + 1
    BY <2>1 DEF IsInjective
  <2> QED
    BY <1>1, <2>2
<1> QED
  BY <1>1, <1>3, <1>4, <1>5 DEF t, h

LEMMA EmptyRange ==
  Range(<<>>) = {} /\ IsInjective(<<>>)
BY DEF Range, IsInjective

LEMMA PhaseStep ==
  ASSUME TypeOK, Phases, OnePlace, [Next]_vars
  PROVE  Phases'
<1>1. ASSUME NEW c \in Client, Schedule(c) PROVE Phases'
  <2>1. PICK t \in Template, id \in Id :
          request' = [request EXCEPT ![c] = NewRequest(t, id)]
    BY <1>1 DEF Schedule
  <2>2. NewRequest(t, id) # NoRequest
    BY <2>1, TemplateAssumption, NullAssumption DEF NewRequest, IORequest
  <2> QED
    BY <1>1, <2>1, <2>2 DEF Schedule, readerVars, TypeOK, Phases
<1>2. ASSUME NEW c \in Client, WriteAsync(c) PROVE Phases'
  BY <1>2 DEF WriteAsync, readerVars, TypeOK, Phases
<1>3. ASSUME NEW c \in Client, Dispose(c) \/ Forget(c) PROVE Phases'
  <2>1. CASE Dispose(c)
    BY <2>1 DEF Dispose, readerVars, TypeOK, Phases
  <2>2. CASE Forget(c)
    BY <2>2 DEF Forget, readerVars, TypeOK, Phases
  <2> QED
    BY <1>3, <2>1, <2>2
<1>4. CASE TryRead
  <2>1. CASE blockedWriters # <<>>
    <3>1. Head(blockedWriters) \in Client /\ pc[Head(blockedWriters)] = "blocked"
      BY <2>1, TailRange DEF TypeOK, OnePlace
    <3> QED
      BY <1>4, <2>1, <3>1 DEF TryRead, TypeOK, Phases
  <2>2. CASE blockedWriters = <<>>
    BY <1>4, <2>2 DEF TryRead, Woken, TypeOK, Phases
  <2> QED
    BY <2>1, <2>2
<1>5. CASE Read \/ Write
  <2>1. ioResponse' # NoResponse
    BY <1>5, ResponseMade, NullAssumption
  <2>2. readerPc' \in {"flush", "setResult"}
    BY <1>5 DEF Read, Write, AfterWrite
  <2> QED
    BY <1>5, <2>1, <2>2 DEF Read, Write, clientVars, Phases
<1>6. CASE Flush
  BY <1>6 DEF Flush, clientVars, Phases
<1>7. CASE SetResult
  <2>1. current \in Client /\ pc[current] = "await"
    BY <1>7 DEF SetResult, TypeOK, OnePlace
  <2>2. response[current] = NoResponse /\ ~ (disposals[current] > 0) /\ ioResponse # NoResponse
    BY <1>7, <2>1 DEF SetResult, Phases
  <2> QED
    BY <1>7, <2>1, <2>2 DEF SetResult, Answered, TypeOK, Phases
<1>8. CASE Restart
  BY <1>8 DEF Restart, Phases
<1>9. CASE Yield \/ UNCHANGED vars
  BY <1>9 DEF Yield, vars, clientVars, readerVars, Phases
<1> QED
  BY <1>1, <1>2, <1>3, <1>4, <1>5, <1>6, <1>7, <1>8, <1>9
  DEF Next, Reader, ReaderThrows, Crash

LEMMA PlaceStep ==
  ASSUME TypeOK, Phases, OnePlace, [Next]_vars
  PROVE  OnePlace'
<1>1. ASSUME NEW c \in Client, Schedule(c) PROVE OnePlace'
  BY <1>1 DEF Schedule, channelVars, readerVars, TypeOK, OnePlace
<1>2. ASSUME NEW c \in Client, WriteAsync(c) PROVE OnePlace'
  <2>1. c \notin Range(items) /\ c \notin Range(blockedWriters) /\ c # current
    BY <1>2 DEF WriteAsync, OnePlace
  <2>2. CASE HasRoom
    <3>1. /\ IsInjective(items') /\ Range(items') = Range(items) \cup {c}
          /\ pc' = [pc EXCEPT ![c] = "await"]
          /\ UNCHANGED <<blockedWriters, current, readerPc>>
      <4>1. /\ IsInjective(Append(items, c))
            /\ Range(Append(items, c)) = Range(items) \cup {c}
        BY <2>1, AppendRange DEF TypeOK, OnePlace
      <4> QED
        BY <1>2, <2>2, <4>1 DEF WriteAsync, readerVars
    <3> QED
      BY <1>2, <2>1, <3>1 DEF WriteAsync, TypeOK, OnePlace
  <2>3. CASE ~ HasRoom
    <3>1. /\ IsInjective(blockedWriters')
          /\ Range(blockedWriters') = Range(blockedWriters) \cup {c}
          /\ pc' = [pc EXCEPT ![c] = "blocked"]
          /\ UNCHANGED <<items, current, readerPc>>
      <4>1. /\ IsInjective(Append(blockedWriters, c))
            /\ Range(Append(blockedWriters, c)) = Range(blockedWriters) \cup {c}
        BY <2>1, AppendRange DEF TypeOK, OnePlace
      <4> QED
        BY <1>2, <2>3, <4>1 DEF WriteAsync, readerVars
    <3> QED
      BY <1>2, <2>1, <3>1 DEF WriteAsync, TypeOK, OnePlace
  <2> QED
    BY <2>2, <2>3
<1>3. ASSUME NEW c \in Client, Dispose(c) \/ Forget(c) PROVE OnePlace'
  BY <1>3 DEF Dispose, Forget, channelVars, readerVars, TypeOK, OnePlace
<1>4. CASE TryRead
  <2> DEFINE t == Tail(items)
  <2>1. /\ current = NoClient /\ current' = Head(items)
        /\ Head(items) \in Range(items) /\ Head(items) \in Client
        /\ t \in Seq(Client) /\ IsInjective(t)
        /\ Range(t) = Range(items) \ {Head(items)}
    BY <1>4, TailRange DEF TryRead, TypeOK, OnePlace
  <2>2. CASE blockedWriters # <<>>
    <3> DEFINE w == Head(blockedWriters)
    <3>1. /\ w \in Client /\ w \in Range(blockedWriters)
          /\ blockedWriters' = Tail(blockedWriters)
          /\ Range(blockedWriters') = Range(blockedWriters) \ {w}
          /\ IsInjective(blockedWriters')
      BY <1>4, <2>2, TailRange DEF TryRead, TypeOK, OnePlace
    <3>2. w \notin Range(items)
      BY <3>1 DEF OnePlace
    <3>3. /\ items' = Append(t, w)
          /\ pc' = [pc EXCEPT ![w] = "await"]
          /\ readerPc' = "transfer"
      BY <1>4, <2>2 DEF TryRead
    <3>4. IsInjective(items') /\ Range(items') = Range(t) \cup {w}
      BY <2>1, <3>1, <3>2, <3>3, AppendRange
    <3> HIDE DEF w, t
    <3> QED
      BY <2>1, <3>1, <3>2, <3>3, <3>4, ChannelAssumption DEF TypeOK, OnePlace
  <2>3. CASE blockedWriters = <<>>
    <3>1. /\ items' = t /\ blockedWriters' = blockedWriters
          /\ pc' = Woken /\ readerPc' = "transfer"
      BY <1>4, <2>3 DEF TryRead
    <3> HIDE DEF t
    <3> QED
      BY <2>1, <3>1, ChannelAssumption DEF Woken, TypeOK, OnePlace
  <2> QED
    BY <2>2, <2>3
<1>5. CASE Read \/ Write
  <2>1. /\ readerPc = "transfer" /\ readerPc' # "tryRead"
        /\ UNCHANGED <<pc, items, blockedWriters, current>>
    BY <1>5 DEF Read, Write, AfterWrite, clientVars, channelVars
  <2> QED
    BY <2>1 DEF OnePlace
<1>6. CASE Flush
  BY <1>6 DEF Flush, clientVars, channelVars, OnePlace
<1>7. CASE SetResult
  <2>1. current \in Client /\ pc[current] = "await"
    BY <1>7 DEF SetResult, TypeOK, OnePlace
  <2>2. NoClient \notin Range(items)
    BY RangeOfSeq, ChannelAssumption DEF TypeOK
  <2> QED
    BY <1>7, <2>1, <2>2, ChannelAssumption DEF SetResult, Answered, channelVars, TypeOK, OnePlace
<1>8. CASE Restart
  BY <1>8, EmptyRange, ChannelAssumption DEF Restart, OnePlace
<1>9. CASE Yield \/ UNCHANGED vars
  BY <1>9 DEF Yield, vars, clientVars, channelVars, readerVars, OnePlace
<1> QED
  BY <1>1, <1>2, <1>3, <1>4, <1>5, <1>6, <1>7, <1>8, <1>9
  DEF Next, Reader, ReaderThrows, Crash

(* The inductive invariant of what follows.                                *)
Places == TypeOK /\ Phases /\ OnePlace

LEMMA InitPlaces == Init => Places
<1> SUFFICES ASSUME Init PROVE Places
  OBVIOUS
<1>1. Phases
  BY DEF Init, Phases
<1>2. OnePlace
  BY EmptyRange, ChannelAssumption DEF Init, OnePlace
<1> QED
  BY <1>1, <1>2, InitType DEF Places

LEMMA NextPlaces == Places /\ [Next]_vars => Places'
BY TypeStep, PhaseStep, PlaceStep DEF Places

LEMMA PlacesInvariant == Spec => []Places
BY InitPlaces, NextPlaces, PTL DEF Spec

(* The state of channel, reader, clients, file and pool is well typed.     *)
THEOREM TypeCorrect == Spec => []TypeOK
<1>1. Places => TypeOK
  BY DEF Places
<1> QED
  BY <1>1, PlacesInvariant, PTL

(* Every waiting client's tuple is in one place: the channel, the blocked  *)
(* writers or the reader's hands (DefaultScheduler).                       *)
THEOREM EveryTupleInOnePlace == Spec => []OnePlace
<1>1. Places => OnePlace
  BY DEF Places
<1> QED
  BY <1>1, PlacesInvariant, PTL

-----------------------------------------------------------------------------
(* The bound of the channel and its wake-ups.                              *)

LEMMA BoundStep ==
  ASSUME Places, ChannelBound, [Next]_vars
  PROVE  ChannelBound'
<1> USE DEF Places
<1>1. ASSUME NEW c \in Client, Schedule(c) PROVE ChannelBound'
  BY <1>1 DEF Schedule, HasRoom, channelVars, TypeOK, ChannelBound
<1>2. ASSUME NEW c \in Client, WriteAsync(c) PROVE ChannelBound'
  <2>1. Len(Append(items, c)) = Len(items) + 1 /\ Len(items) \in Nat
    BY AppendProperties DEF TypeOK
  <2>2. CASE HasRoom
    BY <1>2, <2>1, <2>2, ChannelAssumption DEF WriteAsync, HasRoom, TypeOK, ChannelBound
  <2>3. CASE ~ HasRoom
    BY <1>2, <2>1, <2>3, ChannelAssumption DEF WriteAsync, HasRoom, TypeOK, ChannelBound
  <2> QED
    BY <2>2, <2>3
<1>3. ASSUME NEW c \in Client, Dispose(c) \/ Forget(c) PROVE ChannelBound'
  BY <1>3 DEF Dispose, Forget, channelVars, TypeOK, ChannelBound
<1>4. CASE TryRead
  <2>1. /\ Tail(items) \in Seq(Client)
        /\ Len(items) \in Nat \ {0}
        /\ Len(Tail(items)) = Len(items) - 1
    BY <1>4, HeadTailProperties, EmptySeq DEF TryRead, TypeOK
  <2>2. CASE blockedWriters # <<>>
    <3>1. Head(blockedWriters) \in Client
      BY <2>2 DEF TypeOK
    <3>2. Len(Append(Tail(items), Head(blockedWriters))) = Len(items)
      BY <2>1, <3>1, AppendProperties
    <3>3. Len(items) = Capacity
      <4>1. Len(items) <= Capacity /\ ~ (Len(items) < Capacity)
        BY <2>2, Zenon DEF ChannelBound
      <4> QED
        <5>1. Len(items) \in Nat /\ Capacity \in Nat
          BY <2>1, ChannelAssumption
        <5> QED
          BY <4>1, <5>1
    <3>4. Len(items') = Capacity
      BY <1>4, <2>2, <3>2, <3>3 DEF TryRead
    <3> QED
      BY <3>4, ChannelAssumption DEF ChannelBound
  <2>3. CASE blockedWriters = <<>>
    <3>1. items' = Tail(items) /\ blockedWriters' = blockedWriters /\ pc' = Woken
      BY <1>4, <2>3 DEF TryRead
    <3>2. \A c \in Client : pc'[c] # "waitToWrite"
      BY <3>1 DEF Woken
    <3>3. Len(items') <= Capacity
      BY <2>1, <3>1, ChannelAssumption DEF ChannelBound
    <3> QED
      BY <2>3, <3>1, <3>2, <3>3 DEF ChannelBound
  <2> QED
    BY <2>2, <2>3
<1>5. CASE Read \/ Write \/ Flush
  BY <1>5 DEF Read, Write, Flush, clientVars, channelVars, ChannelBound
<1>6. CASE SetResult
  BY <1>6 DEF SetResult, Answered, channelVars, TypeOK, ChannelBound
<1>7. CASE Restart
  BY <1>7, EmptySeq, ChannelAssumption DEF Restart, ChannelBound
<1>8. CASE Yield \/ UNCHANGED vars
  BY <1>8 DEF Yield, vars, clientVars, channelVars, ChannelBound
<1> QED
  BY <1>1, <1>2, <1>3, <1>4, <1>5, <1>6, <1>7, <1>8
  DEF Next, Reader, ReaderThrows, Crash

(* The channel never exceeds its capacity, and nobody waits for room while *)
(* there is room (ScheduleFileSystemRequest against Reader).               *)
THEOREM ChannelStaysBounded == Spec => []ChannelBound
<1>1. Init => ChannelBound
  BY EmptySeq, ChannelAssumption DEF Init, ChannelBound
<1>2. Places /\ ChannelBound /\ [Next]_vars => ChannelBound'
  BY BoundStep
<1> QED
  BY <1>1, <1>2, PlacesInvariant, PTL DEF Spec

-----------------------------------------------------------------------------
(* The answers.                                                            *)

(* The response in the reader's hands matches the request it took out.     *)
ReaderAnswer ==
  ioResponse # NoResponse =>
    /\ ioResponse.id = request[current].id
    /\ ioResponse.address = request[current].address
    /\ ioResponse.buffer # NoBuffer <=> request[current].direction = "Read"

Answers == ReaderAnswer /\ AnswersOwnRequest

LEMMA AnswerStep ==
  ASSUME Places, Answers, [Next]_vars
  PROVE  Answers'
<1> USE DEF Places
<1>1. ASSUME NEW c \in Client, Schedule(c) PROVE Answers'
  <2>1. c # current
    BY <1>1 DEF Schedule, OnePlace
  <2>2. PICK r : request' = [request EXCEPT ![c] = r]
    BY <1>1 DEF Schedule
  <2>3. ioResponse # NoResponse => current \in Client
    BY DEF TypeOK, Phases, OnePlace
  <2> QED
    BY <1>1, <2>1, <2>2, <2>3
    DEF Schedule, readerVars, TypeOK, Answers, ReaderAnswer, AnswersOwnRequest
<1>2. ASSUME NEW c \in Client, WriteAsync(c) PROVE Answers'
  BY <1>2 DEF WriteAsync, readerVars, TypeOK, Answers, ReaderAnswer, AnswersOwnRequest
<1>10. ASSUME NEW c \in Client, Dispose(c) PROVE Answers'
  BY <1>10 DEF Dispose, readerVars, Answers, ReaderAnswer, AnswersOwnRequest
<1>3. ASSUME NEW c \in Client, Forget(c) PROVE Answers'
  <2>1. c # current
    BY <1>3 DEF Forget, OnePlace
  <2>2. ioResponse # NoResponse => current \in Client
    BY DEF TypeOK, Phases, OnePlace
  <2> QED
    BY <1>3, <2>1, <2>2
    DEF Forget, readerVars, TypeOK, Answers, ReaderAnswer, AnswersOwnRequest
<1>4. CASE TryRead
  <2>1. ioResponse' = NoResponse
    BY <1>4 DEF TryRead, Phases
  <2>2. \A c \in Client : pc'[c] = "answered" => pc[c] = "answered"
    <3>1. blockedWriters # <<>> => Head(blockedWriters) \in Client
      BY DEF TypeOK
    <3> QED
      BY <1>4, <3>1 DEF TryRead, Woken, TypeOK
  <2> QED
    BY <1>4, <2>1, <2>2 DEF TryRead, Answers, ReaderAnswer, AnswersOwnRequest
<1>5. CASE Read \/ Write
  <2>1. UNCHANGED <<current, pc, request, response>>
    BY <1>5 DEF Read, Write, clientVars
  <2> QED
    BY <1>5, <2>1, ResponseMade DEF Answers, ReaderAnswer, AnswersOwnRequest
<1>6. CASE Flush
  BY <1>6 DEF Flush, clientVars, Answers, ReaderAnswer, AnswersOwnRequest
<1>7. CASE SetResult
  <2>1. current \in Client /\ ioResponse # NoResponse
    BY <1>7 DEF SetResult, TypeOK, Phases, OnePlace
  <2> QED
    BY <1>7, <2>1
    DEF SetResult, Answered, TypeOK, Answers, ReaderAnswer, AnswersOwnRequest
<1>8. CASE Restart
  BY <1>8 DEF Restart, Answers, ReaderAnswer, AnswersOwnRequest
<1>9. CASE Yield \/ UNCHANGED vars
  BY <1>9 DEF Yield, vars, clientVars, readerVars, Answers, ReaderAnswer, AnswersOwnRequest
<1> QED
  BY <1>1, <1>2, <1>3, <1>4, <1>5, <1>6, <1>7, <1>8, <1>9, <1>10
  DEF Next, Reader, ReaderThrows, Crash

(* A client is answered with the response to its own request, however many *)
(* others have requests under way (ScheduleFileSystemRequest).             *)
THEOREM EveryClientGetsItsAnswer == Spec => []AnswersOwnRequest
<1>1. Init => Answers
  BY DEF Init, Answers, ReaderAnswer, AnswersOwnRequest
<1>2. Places /\ Answers /\ [Next]_vars => Answers'
  BY AnswerStep
<1>3. Answers => AnswersOwnRequest
  BY DEF Answers
<1> QED
  BY <1>1, <1>2, <1>3, PlacesInvariant, PTL DEF Spec

-----------------------------------------------------------------------------
(* The arrays.                                                             *)

(* What the reader or a client has in its hands refers to its array.       *)
LEMMA HeldBuffers ==
  /\ \A b : Fills(b) => Held(b)
  /\ \A b : \A c \in Client : response[c] # NoResponse /\ response[c].buffer = b => Held(b)
BY DEF Held, Fills

(* The same four parts for one array.                                      *)
PrivateArray(b) ==
  /\ \A c, d \in Client : Reads(c, b) /\ Reads(d, b) => c = d
  /\ \A c \in Client : Reads(c, b) => ~ Fills(b)
  /\ pool[b] > 0 => ~ Fills(b) /\ \A c \in Client : ~ Reads(c, b)
  /\ pool[b] <= 1

LEMMA PrivateStep ==
  ASSUME Places, BuffersPrivate, [Next]_vars
  PROVE  BuffersPrivate'
<1> USE DEF Places
<1> SUFFICES ASSUME NEW b \in Buffer, b \notin overReturned' PROVE PrivateArray(b)'
  BY DEF BuffersPrivate, PrivateArray
<1>0. b \notin overReturned => PrivateArray(b)
  BY DEF BuffersPrivate, PrivateArray
<1>1. ASSUME UNCHANGED <<response, disposals, ioResponse, pool, overReturned>>
      PROVE  PrivateArray(b)'
  BY <1>0, <1>1 DEF PrivateArray, Reads, Fills
<1>2. ASSUME NEW c \in Client, Schedule(c) \/ WriteAsync(c) PROVE PrivateArray(b)'
  BY <1>1, <1>2 DEF Schedule, WriteAsync, readerVars, bufferVars
<1>3. ASSUME NEW c \in Client, Dispose(c) PROVE PrivateArray(b)'
  <2> DEFINE x == response[c].buffer
  <2>1. /\ response[c] # NoResponse /\ response' = response /\ ioResponse' = ioResponse
        /\ disposals' = [disposals EXCEPT ![c] = @ + 1]
        /\ pool' = [pool EXCEPT ![x] = @ + 1] \/ pool' = pool
        /\ overReturned' = IF disposals[c] = 0 THEN overReturned
                           ELSE overReturned \cup {x}
    BY <1>3 DEF Dispose, readerVars, Phases
  <2>2. PrivateArray(b)
    BY <1>0, <2>1
  <2>3. disposals[c] \in Nat
    BY DEF TypeOK
  <2>4. \A d \in Client : Reads(d, b)' => Reads(d, b) /\ d # c
    BY <2>1, <2>3 DEF Reads, TypeOK
  <2>5. Fills(b)' = Fills(b)
    BY <2>1 DEF Fills
  <2>6. CASE b # x
    <3>1. pool'[b] = pool[b]
      BY <2>1, <2>6 DEF TypeOK
    <3> QED
      BY <2>2, <2>4, <2>5, <3>1 DEF PrivateArray
  <2>7. CASE b = x
    <3>1. disposals[c] = 0
      BY <2>1, <2>7
    <3>2. Reads(c, b)
      BY <2>1, <2>7, <3>1 DEF Reads
    <3>3. pool[b] = 0
      BY <2>2, <3>2 DEF PrivateArray, TypeOK
    <3>4. pool'[b] <= 1
      BY <2>1, <2>7, <3>3 DEF TypeOK
    <3>5. ~ Fills(b)' /\ \A d \in Client : ~ Reads(d, b)'
      BY <2>2, <2>4, <2>5, <3>2 DEF PrivateArray
    <3> QED
      BY <3>4, <3>5 DEF PrivateArray
  <2> QED
    BY <2>6, <2>7
<1>4. ASSUME NEW c \in Client, Forget(c) PROVE PrivateArray(b)'
  <2>1. /\ response' = [response EXCEPT ![c] = NoResponse]
        /\ disposals' = [disposals EXCEPT ![c] = 0]
        /\ ioResponse' = ioResponse /\ pool' = pool
        /\ overReturned' = {y \in overReturned : ~ Unreachable(y)'}
    BY <1>4 DEF Forget, readerVars
  <2>2. \A d \in Client : Reads(d, b)' => Reads(d, b)
    BY <2>1 DEF Reads, TypeOK
  <2>3. Fills(b)' = Fills(b)
    BY <2>1 DEF Fills
  <2>4. CASE b \notin overReturned
    BY <1>0, <2>1, <2>2, <2>3, <2>4 DEF PrivateArray
  <2>5. CASE b \in overReturned
    <3>1. Unreachable(b)'
      BY <2>1, <2>5
    <3>2. pool'[b] = 0 /\ ~ Held(b)'
      BY <3>1 DEF Unreachable
    <3>3. ~ Fills(b)' /\ \A d \in Client : ~ Reads(d, b)'
      BY <3>2 DEF Held, Fills, Reads
    <3> QED
      BY <3>2, <3>3 DEF PrivateArray
  <2> QED
    BY <2>4, <2>5
<1>5. CASE TryRead
  BY <1>1, <1>5 DEF TryRead, bufferVars
<1>6. CASE Read
  <2> DEFINE n == TransferLength(request[current])
             offset == Offset(request[current].address)
  <2>1. PICK x \in Buffer :
          /\ \E array \in Rent(x, n) :
               buffers' = [buffers EXCEPT ![x] = ReadInto(array, stream, offset)]
          /\ pool' = TakenOut(x)
          /\ ioResponse' = [id |-> request[current].id,
                            address |-> request[current].address, buffer |-> x,
                            got |-> Available(stream, offset, n)]
    BY <1>6 DEF Read
  <2>2. /\ ioResponse'.buffer = x /\ ioResponse = NoResponse
        /\ UNCHANGED <<response, disposals, overReturned>>
    BY <1>6, <2>1 DEF Read, clientVars, Phases
  <2>3. PrivateArray(b)
    BY <1>0, <2>2
  <2>4. n \in Nat
    <3>1. request[current] \in IORequest /\ Valid(request[current])
      BY <1>6 DEF Read, TypeOK, Phases, OnePlace
    <3> QED
      BY <3>1, TransferType
  <2>5. pool[x] > 0 \/ ~ Held(x)
    BY <2>1, <2>4, RentType
  <2>6. \A d \in Client : Reads(d, b)' = Reads(d, b)
    BY <2>2 DEF Reads
  <2>7. CASE b # x
    <3>1. pool'[b] = pool[b] /\ ~ Fills(b)'
      BY <2>1, <2>2, <2>7 DEF TakenOut, Fills, TypeOK
    <3> QED
      BY <2>3, <2>6, <3>1 DEF PrivateArray
  <2>8. CASE b = x
    <3>1. \A d \in Client : ~ Reads(d, b)
      <4>1. CASE pool[x] > 0
        BY <2>3, <2>8, <4>1 DEF PrivateArray
      <4>2. CASE ~ Held(x)
        BY <2>8, <4>2, HeldBuffers DEF Reads
      <4> QED
        BY <2>5, <4>1, <4>2
    <3>2. pool'[b] = 0
      <4>1. pool[b] \in Nat /\ pool[b] <= 1
        BY <2>3 DEF PrivateArray, TypeOK
      <4> QED
        BY <2>1, <2>8, <4>1 DEF TakenOut, TypeOK
    <3> QED
      BY <2>6, <3>1, <3>2 DEF PrivateArray
  <2> QED
    BY <2>7, <2>8
<1>7. CASE Write
  <2>1. /\ ioResponse'.buffer = NoBuffer
        /\ UNCHANGED <<response, disposals, pool, overReturned>>
    BY <1>7 DEF Write, clientVars, bufferVars
  <2>2. ~ Fills(b)' /\ \A d \in Client : Reads(d, b)' = Reads(d, b)
    BY <2>1, BufferAssumption DEF Fills, Reads
  <2> QED
    BY <1>0, <2>1, <2>2 DEF PrivateArray
<1>8. CASE Flush
  BY <1>1, <1>8 DEF Flush, clientVars, bufferVars
<1>9. CASE SetResult
  <2>1. current \in Client /\ ioResponse # NoResponse
    BY <1>9 DEF SetResult, TypeOK, Phases, OnePlace
  <2>2. /\ response' = [response EXCEPT ![current] = ioResponse]
        /\ ioResponse' = NoResponse
        /\ UNCHANGED <<disposals, pool, overReturned>>
    BY <1>9 DEF SetResult, Answered, AfterAnswer
  <2>3. PrivateArray(b) /\ ~ Fills(b)'
    BY <1>0, <2>2 DEF Fills
  <2>4. \A d \in Client \ {current} : Reads(d, b)' = Reads(d, b)
    BY <2>2 DEF Reads, TypeOK
  <2>5. \A d \in Client : d = current => (Reads(d, b)' => Fills(b))
    BY <2>1, <2>2 DEF Reads, Fills, TypeOK
  <2>6. \A d, e \in Client : Reads(d, b)' /\ Reads(e, b)' => d = e
    BY <2>3, <2>4, <2>5 DEF PrivateArray
  <2>7. pool'[b] > 0 => \A d \in Client : ~ Reads(d, b)'
    BY <2>2, <2>3, <2>4, <2>5 DEF PrivateArray
  <2> QED
    BY <2>2, <2>3, <2>6, <2>7 DEF PrivateArray
<1>10. CASE Restart
  <2>1. ~ Fills(b)' /\ \A d \in Client : ~ Reads(d, b)'
    BY <1>10 DEF Restart, Fills, Reads
  <2>2. pool'[b] = 0
    BY <1>10 DEF Restart
  <2> QED
    BY <2>1, <2>2 DEF PrivateArray
<1>11. CASE Yield \/ UNCHANGED vars
  BY <1>1, <1>11 DEF Yield, vars, clientVars, readerVars, bufferVars
<1> QED
  BY <1>2, <1>3, <1>4, <1>5, <1>6, <1>7, <1>8, <1>9, <1>10, <1>11
  DEF Next, Reader, ReaderThrows, Crash

(* However often clients dispose their responses, an array is with one     *)
(* client, with the reader or once in the pool, unless it is one that was  *)
(* returned once too often (IOResponse.Dispose against                     *)
(* FileSystemServiceBase.Read).                                            *)
THEOREM ArraysAreNotShared == Spec => []BuffersPrivate
<1>1. Init => BuffersPrivate
  BY DEF Init, BuffersPrivate, Reads, Fills
<1>2. Places /\ BuffersPrivate /\ [Next]_vars => BuffersPrivate'
  BY PrivateStep
<1> QED
  BY <1>1, <1>2, PlacesInvariant, PTL DEF Spec

-----------------------------------------------------------------------------
(* The payloads.                                                           *)

(* No step writes into an array that a client may read.                    *)
LEMMA StableStep ==
  ASSUME Places, [Next]_vars, NEW c \in Client, NEW b \in Buffer,
         b \notin overReturned, Reads(c, b), response'[c] = response[c],
         BuffersPrivate
  PROVE  buffers'[b] = buffers[b]
<1> USE DEF Places
<1>1. ASSUME NEW d \in Client, Schedule(d) \/ WriteAsync(d) \/ Dispose(d)
      PROVE  buffers' = buffers
  BY <1>1 DEF Schedule, WriteAsync, Dispose, bufferVars
<1>2. ASSUME NEW d \in Client, Forget(d) PROVE buffers'[b] = buffers[b]
  <2>1. Held(b)'
    BY DEF Reads, Held
  <2>2. ~ Unreachable(b)'
    BY <2>1 DEF Unreachable
  <2> QED
    BY <1>2, <2>2 DEF Forget
<1>3. CASE Read
  <2> DEFINE n == TransferLength(request[current])
  <2>1. PICK x \in Buffer :
          \E array \in Rent(x, n) :
            buffers' = [buffers EXCEPT ![x] =
                          ReadInto(array, stream, Offset(request[current].address))]
    BY <1>3 DEF Read
  <2>2. n \in Nat
    <3>1. request[current] \in IORequest /\ Valid(request[current])
      BY <1>3 DEF Read, TypeOK, Phases, OnePlace
    <3> QED
      BY <3>1, TransferType
  <2>3. pool[x] > 0 \/ ~ Held(x)
    BY <2>1, <2>2, RentType
  <2>4. ~ (pool[b] > 0) /\ Held(b)
    BY HeldBuffers DEF BuffersPrivate, Reads
  <2>5. x # b
    BY <2>3, <2>4
  <2> HIDE DEF n
  <2> QED
    BY <2>1, <2>5 DEF TypeOK
<1>4. CASE TryRead \/ Write \/ Flush \/ SetResult \/ Yield \/ UNCHANGED vars
  BY <1>4 DEF TryRead, Write, Flush, SetResult, Yield, bufferVars, vars
<1>5. CASE Restart
  BY <1>5 DEF Restart, Reads
<1> QED
  BY <1>1, <1>2, <1>3, <1>4, <1>5 DEF Next, Reader, ReaderThrows, Crash

(* While a client holds a response it has not disposed, its bytes stay as  *)
(* they are, whatever the reader reads and whatever others dispose.        *)
THEOREM PayloadsAreStable == Spec => PayloadStable
<1>1. Places /\ BuffersPrivate /\ [Next]_vars =>
        [\A c \in Client, b \in Buffer \ overReturned :
           Reads(c, b) /\ response'[c] = response[c] => buffers'[b] = buffers[b]]_vars
  BY StableStep
<1>2. Spec => [][Next]_vars
  BY PTL DEF Spec
<1> QED
  BY <1>1, <1>2, PlacesInvariant, ArraysAreNotShared, PTL DEF PayloadStable

-----------------------------------------------------------------------------
(* The database header.                                                    *)

(* No write of a client is to a position that a uint cannot hold.  What    *)
(* Address.ToPosition does beyond that is known: it wraps around, and the  *)
(* header theorem does not hold of such requests.                          *)
NoWrapAround ==
  \A t \in Template :
    ScopeOf(t.address) \in AddressScope =>
      DATABASE_HEADER_SIZE + t.address.block * BLOCK_SIZE_INCL_HEADER
        + (IF ScopeOf(t.address) = Block THEN 0
           ELSE t.address.page * PAGE_SIZE_INCL_HEADER) < UINT_RANGE

(* Requests are the templates with an id.                                  *)
FromTemplate ==
  \A c \in Client :
    request[c] # NoRequest =>
      \E t \in Template, id \in Id : request[c] = NewRequest(t, id)

(* The inductive invariant: the file is at least as long as the header.    *)
HeaderInvariant ==
  /\ FromTemplate
  /\ HeaderIntact
  /\ Len(stream) >= DATABASE_HEADER_SIZE
  /\ Len(durable) >= DATABASE_HEADER_SIZE

(* A write behind the header keeps the file at least as long as it was and *)
(* changes no byte before its position.                                    *)
LEMMA OverwriteBehind ==
  ASSUME NEW s \in Seq(Byte), NEW offset \in Nat, NEW n \in Nat, NEW value \in Byte,
         NEW i \in 1 .. Len(s), i <= offset
  PROVE  /\ Overwrite(s, offset, n, value)[i] = s[i]
         /\ Len(Overwrite(s, offset, n, value)) >= Len(s)
<1> DEFINE m == IF offset + n > Len(s) THEN offset + n ELSE Len(s)
<1>1. m \in Nat /\ m >= Len(s) /\ Len(s) \in Nat
  OBVIOUS
<1>2. Overwrite(s, offset, n, value) =
        [j \in 1 .. m |-> IF offset < j /\ j <= offset + n THEN value
                          ELSE IF j <= Len(s) THEN s[j] ELSE Zero]
  BY DEF Overwrite
<1> HIDE DEF m
<1>3. Overwrite(s, offset, n, value)[i] = s[i]
  BY <1>1, <1>2
<1>4. Overwrite(s, offset, n, value) \in Seq(Byte)
  BY OverwriteType
<1>5. DOMAIN Overwrite(s, offset, n, value) = 1 .. m
  BY <1>2
<1>6. Len(Overwrite(s, offset, n, value)) = m
  BY <1>1, <1>4, <1>5, LenProperties
<1> QED
  BY <1>1, <1>3, <1>6

(* The position of an address whose arithmetic does not wrap around.       *)
LEMMA PositionBehindHeader ==
  ASSUME NEW x \in Address,
         DATABASE_HEADER_SIZE + x.block * BLOCK_SIZE_INCL_HEADER
           + (IF ScopeOf(x) = Block THEN 0 ELSE x.page * PAGE_SIZE_INCL_HEADER) < UINT_RANGE
  PROVE  Offset(x) >= DATABASE_HEADER_SIZE
<1>1. \A i, j \in Nat : i * j \in Nat
  OBVIOUS
<1>2. PAGE_SIZE_INCL_HEADER \in Nat /\ DATA_BLOCK_SIZE \in Nat /\ BLOCK_SIZE_INCL_HEADER \in Nat
  BY <1>1, SizesAssumption DEF PAGE_SIZE_INCL_HEADER, DATA_BLOCK_SIZE, BLOCK_SIZE_INCL_HEADER
<1>3. x.block * BLOCK_SIZE_INCL_HEADER \in Nat /\ x.page * PAGE_SIZE_INCL_HEADER \in Nat
  BY <1>1, <1>2, WidthsAssumption DEF Address, USHORT
<1>4. \A i \in Nat : i < UINT_RANGE => i % UINT_RANGE = i
  BY WidthsAssumption
<1> QED
  BY <1>3, <1>4, SizesAssumption DEF Offset

(* What a new process may find, spelled out as in the crash of the store.  *)
LEMMA SurvivorsShape ==
  ASSUME NEW s \in Survivors
  PROVE  \E n \in Len(durable) .. Len(stream), kept \in SUBSET (1 .. Len(stream)) :
           s = [i \in 1 .. n |->
                  IF i \in kept THEN stream[i]
                  ELSE IF i <= Len(durable) THEN durable[i] ELSE Zero]
<1>1. PICK n \in Len(durable) .. Len(stream), kept \in SUBSET (1 .. Len(stream)) :
        s = [i \in 1 .. n |->
               IF i \in kept THEN stream[i]
               ELSE IF i <= Len(durable) THEN durable[i] ELSE Zero]
  BY SMTT(60) DEF Survivors
<1> QED
  BY <1>1, ZenonT(60)

(* What a crash leaves is no shorter than what was flushed, and each byte  *)
(* is an old or a new one.                                                 *)
LEMMA SurvivorsKeep ==
  ASSUME TypeOK, NEW s \in Survivors, NEW k \in 1 .. Len(durable)
  PROVE  /\ Len(s) >= Len(durable)
         /\ s[k] = durable[k] \/ (k \in 1 .. Len(stream) /\ s[k] = stream[k])
<1>1. PICK n \in Len(durable) .. Len(stream), kept \in SUBSET (1 .. Len(stream)) :
        s = [i \in 1 .. n |->
               IF i \in kept THEN stream[i]
               ELSE IF i <= Len(durable) THEN durable[i] ELSE Zero]
  BY SurvivorsShape
<1>2. /\ n \in Nat /\ Len(durable) \in Nat /\ Len(durable) <= n
      /\ s \in Seq(Byte) /\ DOMAIN s = 1 .. n
  BY <1>1, SurvivorsType DEF TypeOK
<1>3. Len(s) = n
  BY <1>2, LenProperties
<1> QED
  BY <1>1, <1>2, <1>3

LEMMA HeaderStep ==
  ASSUME NoWrapAround, Places, HeaderInvariant, [Next]_vars
  PROVE  HeaderInvariant'
<1> USE DEF Places
<1> DEFINE D == DATABASE_HEADER_SIZE
<1>1. ASSUME NEW c \in Client, Schedule(c) PROVE HeaderInvariant'
  <2>1. PICK t \in Template, id \in Id : request' = [request EXCEPT ![c] = NewRequest(t, id)]
    BY <1>1 DEF Schedule
  <2>2. FromTemplate'
    BY <2>1, Zenon DEF HeaderInvariant, FromTemplate, TypeOK
  <2>3. UNCHANGED <<stream, durable>>
    BY <1>1 DEF Schedule, fileVars
  <2> QED
    BY <2>2, <2>3 DEF HeaderInvariant, HeaderIntact
<1>2. ASSUME UNCHANGED <<request, stream, durable>> PROVE HeaderInvariant'
  BY <1>2 DEF HeaderInvariant, HeaderIntact, FromTemplate
<1>3. ASSUME NEW c \in Client, WriteAsync(c) PROVE HeaderInvariant'
  BY <1>2, <1>3 DEF WriteAsync, fileVars
<1>10. ASSUME NEW c \in Client, Dispose(c) PROVE HeaderInvariant'
  BY <1>2, <1>10 DEF Dispose, fileVars
<1>4. ASSUME NEW c \in Client, Forget(c) PROVE HeaderInvariant'
  BY <1>4 DEF Forget, fileVars, TypeOK, HeaderInvariant, HeaderIntact, FromTemplate
<1>5. CASE TryRead \/ Read \/ SetResult
  BY <1>2, <1>5 DEF TryRead, Read, SetResult, clientVars, fileVars
<1>6. CASE Write
  <2> DEFINE r == request[current]
  <2>1. current \in Client /\ r \in IORequest /\ Valid(r)
    BY <1>6 DEF Write, TypeOK, Phases, OnePlace
  <2>2. PICK t \in Template, id \in Id : r = NewRequest(t, id)
    BY <2>1, NullAssumption DEF HeaderInvariant, FromTemplate
  <2>3. r.address = t.address /\ r.address \in Address /\ r.value \in Byte
    BY <2>1, <2>2 DEF NewRequest, IORequest, Byte
  <2>4. Offset(r.address) >= D
    BY <2>1, <2>3, PositionBehindHeader DEF NoWrapAround, Valid
  <2>5. Offset(r.address) \in Nat /\ TransferLength(r) \in Nat
    BY <2>1, <2>3, PositionType, TransferType
  <2>6. /\ stream' = Overwrite(stream, Offset(r.address), TransferLength(r), r.value)
        /\ UNCHANGED <<request, durable>>
    BY <1>6 DEF Write, clientVars
  <2>7. stream \in Seq(Byte) /\ Len(stream) \in Nat /\ Len(stream) >= D /\ D \in Nat \ {0}
    BY SizesAssumption DEF TypeOK, HeaderInvariant
  <2> HIDE DEF r
  <2> DEFINE o == Offset(r.address)
             n == TransferLength(r)
             v == r.value
             written == Overwrite(stream, o, n, v)
  <2>8. o \in Nat /\ n \in Nat /\ v \in Byte /\ o >= D /\ stream' = written
    BY <2>3, <2>4, <2>5, <2>6
  <2> HIDE DEF o, n, v
  <2>9. \A i \in 1 .. D : written[i] = stream[i] /\ Len(written) >= Len(stream)
    <3> SUFFICES ASSUME NEW i \in 1 .. D
                 PROVE  written[i] = stream[i] /\ Len(written) >= Len(stream)
      OBVIOUS
    <3>1. i \in 1 .. Len(stream) /\ i <= o
      BY <2>7, <2>8
    <3> QED
      BY <2>7, <2>8, <3>1, OverwriteBehind
  <2>10. Len(stream') >= D
    <3>1. written \in Seq(Byte) /\ Len(written) >= Len(stream)
      BY <2>7, <2>8, <2>9, OverwriteType
    <3>2. Len(written) \in Nat
      BY <3>1
    <3> HIDE DEF written
    <3> QED
      BY <2>7, <2>8, <3>1, <3>2
  <2>11. \A i \in 1 .. D : stream'[i] = Header
    <3> HIDE DEF written
    <3> QED
      BY <2>8, <2>9 DEF HeaderInvariant, HeaderIntact
  <2> QED
    BY <2>6, <2>10, <2>11 DEF HeaderInvariant, HeaderIntact, FromTemplate
<1>7. CASE Flush
  BY <1>7 DEF Flush, clientVars, HeaderInvariant, HeaderIntact, FromTemplate
<1>8. CASE Restart
  <2>1. /\ stream' \in Survivors /\ durable' = stream'
        /\ request' = [c \in Client |-> NoRequest]
    BY <1>8 DEF Restart
  <2>2. Len(durable) \in Nat /\ Len(durable) >= D /\ D \in Nat \ {0}
    BY SizesAssumption DEF TypeOK, HeaderInvariant
  <2>3. \A i \in 1 .. D : stream'[i] = Header /\ Len(stream') >= Len(durable)
    <3> SUFFICES ASSUME NEW i \in 1 .. D
                 PROVE  stream'[i] = Header /\ Len(stream') >= Len(durable)
      OBVIOUS
    <3>1. i \in 1 .. Len(durable)
      BY <2>2
    <3> QED
      BY <2>1, <3>1, SurvivorsKeep DEF HeaderInvariant, HeaderIntact
  <2>4. Len(stream') >= D
    <3>1. stream' \in Seq(Byte) /\ Len(stream') >= Len(durable)
      BY <2>1, <2>2, <2>3, SurvivorsType
    <3> QED
      BY <2>2, <3>1
  <2> QED
    BY <2>1, <2>3, <2>4 DEF HeaderInvariant, HeaderIntact, FromTemplate
<1>9. CASE Yield \/ UNCHANGED vars
  BY <1>2, <1>9 DEF Yield, vars, clientVars, fileVars
<1> QED
  BY <1>1, <1>3, <1>4, <1>5, <1>6, <1>7, <1>8, <1>9, <1>10 DEF Next, Reader, ReaderThrows, Crash

(* Whatever clients write and whenever the process ends, the database      *)
(* header stays: ToPosition starts behind it (FileSystemServiceBase.Write).*)
THEOREM HeaderStaysIntact ==
  ASSUME NoWrapAround
  PROVE  Spec => []HeaderIntact
<1>1. Init => HeaderInvariant
  <2> SUFFICES ASSUME Init PROVE HeaderInvariant
    OBVIOUS
  <2>1. stream = [i \in 1 .. DATABASE_HEADER_SIZE |-> Header] /\ durable = stream
    BY DEF Init
  <2>2. Len(stream) = DATABASE_HEADER_SIZE
    <3>1. stream \in Seq(Byte) /\ DOMAIN stream = 1 .. DATABASE_HEADER_SIZE
      BY <2>1, InitType DEF TypeOK
    <3> QED
      BY <3>1, SizesAssumption, LenProperties
  <2> QED
    BY <2>1, <2>2, SizesAssumption DEF Init, HeaderInvariant, HeaderIntact, FromTemplate
<1>2. Places /\ HeaderInvariant /\ [Next]_vars => HeaderInvariant'
  BY HeaderStep
<1>3. HeaderInvariant => HeaderIntact
  BY DEF HeaderInvariant
<1> QED
  BY <1>1, <1>2, <1>3, PlacesInvariant, PTL DEF Spec

-----------------------------------------------------------------------------
(* The refinement: one lemma for each step of FileStore.                   *)

(* Only a write that asks for it takes the reader to its flush.            *)
FlushAsked ==
  readerPc = "flush" =>
    request[current].direction = "Write" /\ "Flush" \in request[current].properties

LEMMA FlushStep ==
  ASSUME Places, FlushAsked, [Next]_vars
  PROVE  FlushAsked'
<1> USE DEF Places
<1>1. ASSUME NEW c \in Client, Schedule(c) \/ Forget(c) PROVE FlushAsked'
  <2>1. c # current /\ readerPc = "flush" => current \in Client
    BY <1>1 DEF Schedule, Forget, TypeOK, Phases, OnePlace
  <2> QED
    BY <1>1, <2>1 DEF Schedule, Forget, readerVars, TypeOK, OnePlace, FlushAsked
<1>2. ASSUME NEW c \in Client, WriteAsync(c) \/ Dispose(c) PROVE FlushAsked'
  BY <1>2 DEF WriteAsync, Dispose, readerVars, FlushAsked
<1>3. CASE TryRead \/ Read \/ Flush \/ SetResult \/ Restart
  BY <1>3 DEF TryRead, Read, Flush, SetResult, Restart, FlushAsked
<1>4. CASE Write
  BY <1>4 DEF Write, AfterWrite, clientVars, FlushAsked
<1>5. CASE Yield \/ UNCHANGED vars
  BY <1>5 DEF Yield, vars, clientVars, readerVars, FlushAsked
<1> QED
  BY <1>1, <1>2, <1>3, <1>4, <1>5 DEF Next, Reader, ReaderThrows, Crash

(* What a step may rely on as long as no array was returned twice.         *)
FileInvariant == Places /\ BuffersPrivate /\ FlushAsked /\ overReturned = {}

(* What the reader and the clients have in their hands.                    *)
LEMMA Hands ==
  ASSUME Places
  PROVE  /\ readerPc # "tryRead" =>
              /\ current \in Client /\ pc[current] = "await"
              /\ request[current] \in IORequest
         /\ \A c \in Client : Transferred(c) => ioResponse \in IOResponse
         /\ \A c \in Client : pc[c] = "answered" => response[c] \in IOResponse
         /\ \A c \in Client : Transferred(c) => pc[c] = "await"
         /\ \A c \in Client : disposals[c] > 0 => pc[c] = "answered"
BY ChannelAssumption DEF Places, TypeOK, Phases, OnePlace, Transferred

(* Schedule is the call.                                                   *)
LEMMA ScheduleCalls ==
  ASSUME FileInvariant, NEW c \in Client, Schedule(c)
  PROVE  \E o \in {NewRequest(t, id) : t \in Template, id \in Id} : Store!Call(c, o)
<1> USE DEF FileInvariant
<1>1. PICK t \in Template, id \in Id : request' = [request EXCEPT ![c] = NewRequest(t, id)]
  BY DEF Schedule
<1>2. /\ c # current /\ pc[c] = "idle"
      /\ ~ (disposals[c] > 0)
      /\ pc' = [pc EXCEPT ![c] = pc'[c]] /\ pc'[c] \in {"write", "waitToWrite"}
      /\ UNCHANGED <<response, disposals, current, readerPc, ioResponse, stream, durable, buffers>>
  BY Hands DEF Schedule, readerVars, fileVars, bufferVars, Places, TypeOK, OnePlace
<1>3. stateBar[c] = "idle"
  BY <1>2 DEF stateBar, Gone
<1>4. stateBar' = [stateBar EXCEPT ![c] = "called"]
  BY <1>2, Hands DEF stateBar, Gone, Returned, Transferred, Places, TypeOK
<1>5. answerBar' = answerBar
  BY <1>2 DEF answerBar, Returned, Transferred, Payload, Places, TypeOK
<1>8. opBar' = [opBar EXCEPT ![c] = NewRequest(t, id)]
  BY <1>1, <1>2 DEF opBar, Places, TypeOK
<1>6. flushedBar' = flushedBar
  BY <1>1, <1>2 DEF flushedBar, Places, TypeOK
<1>7. Store!Call(c, NewRequest(t, id))
  BY <1>2, <1>3, <1>4, <1>5, <1>6, <1>8 DEF Store!Call
<1> QED
  BY <1>7

(* Entering the channel, or its queue of blocked writers, is not visible.  *)
LEMMA WriteAsyncStutters ==
  ASSUME FileInvariant, NEW c \in Client, WriteAsync(c)
  PROVE  UNCHANGED Store!vars
<1> USE DEF FileInvariant
<1>1. /\ c # current /\ pc[c] = "write"
      /\ pc' = [pc EXCEPT ![c] = pc'[c]] /\ pc'[c] \in {"await", "blocked"}
      /\ UNCHANGED <<request, response, disposals, current, readerPc, ioResponse,
                     stream, durable, buffers>>
  BY DEF WriteAsync, readerVars, fileVars, bufferVars, Places, TypeOK, OnePlace
<1>2. stateBar' = stateBar
  BY <1>1, Hands DEF stateBar, Gone, Returned, Transferred, Places, TypeOK
<1>3. answerBar' = answerBar
  BY <1>1 DEF answerBar, Returned, Transferred, Payload, Places, TypeOK
<1>4. flushedBar' = flushedBar /\ opBar' = opBar
  BY <1>1 DEF flushedBar, opBar
<1> QED
  BY <1>1, <1>2, <1>3, <1>4 DEF Store!vars

(* Disposing the response for the first time is forgetting the operation;  *)
(* disposing it again is not visible, yet.                                 *)
LEMMA DisposeForgets ==
  ASSUME FileInvariant, NEW c \in Client, Dispose(c)
  PROVE  Store!Forget(c) \/ UNCHANGED Store!vars
<1> USE DEF FileInvariant
<1>1. /\ c # current /\ pc[c] = "answered" /\ disposals[c] \in Nat
      /\ disposals' = [disposals EXCEPT ![c] = @ + 1]
      /\ UNCHANGED <<pc, request, response, current, readerPc, ioResponse,
                     stream, durable, buffers>>
  BY DEF Dispose, readerVars, fileVars, Places, TypeOK, OnePlace
<1>2. \A d \in Client : (disposals'[d] > 0) <=> (d = c \/ disposals[d] > 0)
  BY <1>1 DEF Places, TypeOK
<1>3. flushedBar' = flushedBar
  BY <1>1 DEF flushedBar
<1>4. CASE disposals[c] = 0
  <2>1. stateBar[c] = "returned" /\ stateBar' = [stateBar EXCEPT ![c] = "idle"]
    <3>1. stateBar[c] = "returned"
      BY <1>1, <1>4 DEF stateBar, Gone, Returned
    <3>2. \A d \in Client : Gone(d)' <=> d = c \/ Gone(d)
      BY <1>1, <1>2 DEF Gone
    <3>3. \A d \in Client \ {c} : Returned(d)' = Returned(d)
      BY <1>1 DEF Returned, Places, TypeOK
    <3>4. \A d \in Client : Transferred(d)' = Transferred(d)
      BY <1>1 DEF Transferred
    <3> QED
      BY <3>1, <3>2, <3>3, <3>4 DEF stateBar
  <2>2. opBar' = [opBar EXCEPT ![c] = NoRequest]
    BY <1>1, <1>2 DEF opBar
  <2>3. \A d \in Client : Returned(d)' <=> d # c /\ Returned(d)
    BY <1>1 DEF Returned, Places, TypeOK
  <2>4. answerBar' = [answerBar EXCEPT ![c] = <<>>]
    BY <1>1, <2>3, Hands DEF answerBar, Transferred, Payload
  <2> QED
    BY <1>1, <1>3, <2>1, <2>2, <2>4 DEF Store!Forget
<1>5. CASE disposals[c] > 0
  <2>1. \A d \in Client : Returned(d)' <=> Returned(d)
    BY <1>1, <1>5 DEF Returned, Places, TypeOK
  <2>2. \A d \in Client : Gone(d)' <=> Gone(d)
    BY <1>1, <1>2, <1>5 DEF Gone
  <2>3. stateBar' = stateBar
    BY <1>1, <2>1, <2>2 DEF stateBar, Transferred
  <2>4. answerBar' = answerBar
    BY <1>1, <2>1 DEF answerBar, Transferred, Payload
  <2>5. opBar' = opBar
    BY <1>1, <1>2, <1>5 DEF opBar
  <2> QED
    BY <1>1, <1>3, <2>3, <2>4, <2>5 DEF Store!vars
<1> QED
  BY <1>1, <1>4, <1>5

(* Letting go of a response that was not disposed is forgetting, too; of   *)
(* one that was, it is not visible.  No array another response refers to   *)
(* is garbage.                                                             *)
LEMMA ForgetForgets ==
  ASSUME FileInvariant, NEW c \in Client, Forget(c)
  PROVE  Store!Forget(c) \/ UNCHANGED Store!vars
<1> USE DEF FileInvariant
<1>1. /\ c # current /\ pc[c] = "answered" /\ disposals[c] \in Nat
      /\ pc' = [pc EXCEPT ![c] = "idle"]
      /\ request' = [request EXCEPT ![c] = NoRequest]
      /\ response' = [response EXCEPT ![c] = NoResponse]
      /\ disposals' = [disposals EXCEPT ![c] = 0]
      /\ UNCHANGED <<current, readerPc, ioResponse, stream, durable>>
  BY DEF Forget, readerVars, fileVars, Places, TypeOK, OnePlace
<1>2. \A b \in Buffer : Held(b)' => buffers'[b] = buffers[b]
  BY DEF Forget, Unreachable
<1>3. \A d \in Client \ {c} : pc[d] = "answered" => Payload(response[d])' = Payload(response[d])
  <2> SUFFICES ASSUME NEW d \in Client \ {c}, pc[d] = "answered",
                      response[d].buffer # NoBuffer
               PROVE  buffers'[response[d].buffer] = buffers[response[d].buffer]
    BY <1>1 DEF Payload, Places, TypeOK
  <2>1. response'[d] = response[d] /\ response[d] # NoResponse
    BY <1>1 DEF Places, Phases, TypeOK
  <2>2. PICK b \in Buffer : b = response[d].buffer
    BY Hands DEF IOResponse
  <2>3. Held(b)'
    BY <2>1, <2>2 DEF Held
  <2> QED
    BY <1>2, <2>2, <2>3
<1>4. \A d \in Client : Transferred(d) => Payload(ioResponse)' = Payload(ioResponse)
  <2> SUFFICES ASSUME NEW d \in Client, Transferred(d), ioResponse.buffer # NoBuffer
               PROVE  buffers'[ioResponse.buffer] = buffers[ioResponse.buffer]
    BY <1>1 DEF Payload
  <2>1. ioResponse \in IOResponse /\ ioResponse # NoResponse
    BY Hands, NullAssumption
  <2>2. PICK b \in Buffer : b = ioResponse.buffer
    BY <2>1 DEF IOResponse
  <2>3. Held(b)'
    BY <1>1, <2>1, <2>2 DEF Held
  <2> QED
    BY <1>2, <2>2, <2>3
<1>5. \A d \in Client : Returned(d)' <=> d # c /\ Returned(d)
  BY <1>1 DEF Returned, Places, TypeOK
<1>6. \A d \in Client : Transferred(d)' = Transferred(d)
  BY <1>1 DEF Transferred
<1>7. answerBar' = [d \in Client |-> IF d = c THEN <<>> ELSE answerBar[d]]
  <2>1. \A d \in Client \ {c} : Returned(d) => Payload(response[d])' = Payload(response[d])
    BY <1>3 DEF Returned
  <2>2. ~ Transferred(c)
    BY <1>1 DEF Transferred
  <2> QED
    BY <1>4, <1>5, <1>6, <2>1, <2>2 DEF answerBar
<1>8. flushedBar' = flushedBar
  BY <1>1 DEF flushedBar, Places, TypeOK
<1>9. stateBar' = [stateBar EXCEPT ![c] = "idle"]
  BY <1>1, <1>5, <1>6 DEF stateBar, Gone, Places, TypeOK
<1>10. opBar' = [opBar EXCEPT ![c] = NoRequest]
  BY <1>1 DEF opBar, Places, TypeOK
<1>11. CASE disposals[c] = 0
  <2>1. stateBar[c] = "returned"
    BY <1>1, <1>11 DEF stateBar, Gone, Returned
  <2>2. answerBar' = [answerBar EXCEPT ![c] = <<>>]
    BY <1>7 DEF answerBar
  <2> QED
    BY <1>1, <1>8, <1>9, <1>10, <2>1, <2>2 DEF Store!Forget
<1>12. CASE disposals[c] > 0
  <2>1. stateBar[c] = "idle" /\ opBar[c] = NoRequest
    BY <1>12 DEF stateBar, Gone, opBar
  <2>2. answerBar[c] = <<>>
    BY <1>1, <1>12 DEF answerBar, Returned, Transferred
  <2>3. stateBar' = stateBar /\ opBar' = opBar
    BY <1>9, <1>10, <2>1 DEF stateBar, opBar
  <2>4. answerBar' = answerBar
    BY <1>7, <2>2 DEF answerBar
  <2> QED
    BY <1>1, <1>8, <2>3, <2>4 DEF Store!vars
<1> QED
  BY <1>1, <1>11, <1>12

(* Taking a tuple out of the channel is not visible.                       *)
LEMMA TryReadStutters ==
  ASSUME FileInvariant, TryRead
  PROVE  UNCHANGED Store!vars
<1> USE DEF FileInvariant
<1>1. /\ readerPc = "tryRead" /\ readerPc' = "transfer"
      /\ UNCHANGED <<request, response, disposals, ioResponse, stream, durable, buffers>>
  BY DEF TryRead, fileVars, bufferVars
<1>2. \A d \in Client : pc'[d] = pc[d] \/ /\ pc[d] \in {"blocked", "waitToWrite"}
                                          /\ pc'[d] \in {"await", "write"}
  <2>1. CASE blockedWriters # <<>>
    <3>1. Head(blockedWriters) \in Client /\ pc[Head(blockedWriters)] = "blocked"
      BY <2>1, TailRange DEF Places, TypeOK, OnePlace
    <3> QED
      BY <2>1, <3>1 DEF TryRead, Places, TypeOK
  <2>2. CASE blockedWriters = <<>>
    BY <2>2 DEF TryRead, Woken, Places, TypeOK
  <2> QED
    BY <2>1, <2>2
<1>3. stateBar' = stateBar
  BY <1>1, <1>2 DEF stateBar, Gone, Returned, Transferred
<1>4. answerBar' = answerBar
  BY <1>1, <1>2 DEF answerBar, Returned, Transferred, Payload
<1>5. flushedBar' = flushedBar /\ opBar' = opBar
  BY <1>1 DEF flushedBar, opBar
<1> QED
  BY <1>1, <1>3, <1>4, <1>5 DEF Store!vars

(* The abstract length of a request is the one the code computes.          *)
LEMMA WantedIsTransferLength ==
  ASSUME NEW r, Valid(r)
  PROVE  Wanted(r) = TransferLength(r)
<1>1. CASE "OnlyHeader" \in r.properties
  <2>1. ScopeOf(r.address) \in {Block, Page, Document}
    BY DEF Valid, AddressScope
  <2> QED
    BY <1>1, <2>1
    DEF Wanted, TransferLength, GetHeaderLengthForScope, Block, Page, Document
<1>2. CASE "OnlyHeader" \notin r.properties
  BY <1>2 DEF Wanted, TransferLength
<1> QED
  BY <1>1, <1>2

(* The bytes counted as read are those of the stream, whatever the array   *)
(* held before: its rest is never part of the payload.                     *)
LEMMA ReadPayload ==
  ASSUME NEW s \in Seq(Byte), NEW array \in Seq(Byte), NEW offset \in Nat, NEW n \in Nat,
         Len(array) >= n
  PROVE  SubSeq(ReadInto(array, s, offset), 1, Available(s, offset, n))
           = SubSeq(s, offset + 1, offset + Available(s, offset, n))
<1> DEFINE got == Available(s, offset, n)
           a == ReadInto(array, s, offset)
           x == SubSeq(a, 1, got)
           y == SubSeq(s, offset + 1, offset + got)
<1>1. /\ got \in Nat /\ got <= n /\ got <= Len(array)
      /\ got > 0 => offset + got <= Len(s)
  BY DEF Available
<1>2. /\ a \in Seq(Byte)
      /\ \A i \in 1 .. got : a[i] = s[offset + i]
  <2>1. a \in Seq(Byte)
    BY ReadIntoType
  <2>2. \A i \in 1 .. got : i \in 1 .. Len(array) /\ offset + i <= Len(s)
    BY <1>1
  <2> QED
    BY <2>1, <2>2 DEF ReadInto
<1>3. \A i \in 1 .. got : a[i] \in Byte
  <2>1. \A i \in 1 .. got : offset + i \in 1 .. Len(s)
    BY <1>1
  <2> QED
    BY <1>2, <2>1
<1>4. \A i \in offset + 1 .. offset + got : s[i] \in Byte
  <2>1. \A i \in offset + 1 .. offset + got : i \in 1 .. Len(s)
    BY <1>1
  <2> QED
    BY <2>1
<1> HIDE DEF got, a
<1>5. /\ x \in Seq(Byte) /\ Len(x) = got
      /\ \A i \in 1 .. got : x[i] = a[i]
  <2>1. /\ x \in Seq(Byte)
        /\ Len(x) = IF 1 <= got THEN got - 1 + 1 ELSE 0
        /\ \A i \in 1 .. got - 1 + 1 : x[i] = a[1 + i - 1]
    BY <1>1, <1>3, SubSeqProperties
  <2> HIDE DEF x
  <2> QED
    BY <1>1, <2>1
<1>6. /\ y \in Seq(Byte) /\ Len(y) = got
      /\ \A i \in 1 .. got : y[i] = s[offset + i]
  <2> DEFINE lo == offset + 1
             hi == offset + got
  <2>1. lo \in Int /\ hi \in Int
    BY <1>1
  <2>2. /\ SubSeq(s, lo, hi) \in Seq(Byte)
        /\ Len(SubSeq(s, lo, hi)) = IF lo <= hi THEN hi - lo + 1 ELSE 0
        /\ \A i \in 1 .. hi - lo + 1 : SubSeq(s, lo, hi)[i] = s[lo + i - 1]
    <3> HIDE DEF lo, hi
    <3> QED
      BY SMTT(30), <1>4, <2>1, SubSeqProperties DEF lo, hi
  <2>3. hi - lo + 1 = got /\ \A i \in 1 .. got : lo + i - 1 = offset + i
    BY <1>1
  <2> HIDE DEF y
  <2>4. y = SubSeq(s, lo, hi)
    BY DEF y
  <2> HIDE DEF lo, hi
  <2>5. Len(y) = got
    BY <1>1, <2>1, <2>2, <2>3, <2>4
  <2>6. \A i \in 1 .. got : y[i] = s[offset + i]
    <3> SUFFICES ASSUME NEW i \in 1 .. got PROVE y[i] = s[offset + i]
      OBVIOUS
    <3>1. y[i] = s[lo + i - 1]
      BY <2>2, <2>3, <2>4
    <3> QED
      BY <2>3, <3>1
  <2> QED
    BY <2>2, <2>4, <2>5, <2>6
<1> HIDE DEF x, y
<1>7. x = y
  BY <1>1, <1>2, <1>5, <1>6, SeqEqual
<1> QED
  BY <1>7 DEF x, y, a, got

(* The reader's transfer of a read is the instant of its answer.           *)
LEMMA ReadApplies ==
  ASSUME FileInvariant, Read
  PROVE  current \in Client /\ Store!Apply(current)
<1> USE DEF FileInvariant
<1> DEFINE c == current
           r == request[c]
           n == TransferLength(r)
           offset == Offset(r.address)
           got == Available(stream, offset, n)
<1>1. /\ c \in Client /\ pc[c] = "await" /\ r \in IORequest /\ Valid(r)
      /\ r.direction = "Read" /\ readerPc = "transfer" /\ readerPc' = "setResult"
      /\ ~ (disposals[c] > 0)
      /\ UNCHANGED <<pc, request, response, disposals, current, stream, durable>>
  BY Hands DEF Read, clientVars, fileVars
<1>2. r.address \in Address /\ n \in Nat /\ offset \in Nat
  <2>1. r.address \in Address
    BY <1>1 DEF IORequest
  <2> QED
    BY <1>1, <2>1, TransferType, PositionType
<1>3. PICK b \in Buffer :
        /\ \E array \in Rent(b, n) :
             buffers' = [buffers EXCEPT ![b] = ReadInto(array, stream, offset)]
        /\ ioResponse' = [id |-> r.id, address |-> r.address, buffer |-> b, got |-> got]
  BY DEF Read
<1>4. b \in Buffer /\ b # NoBuffer
  BY BufferAssumption
<1>5. PICK array \in Rent(b, n) :
        buffers' = [buffers EXCEPT ![b] = ReadInto(array, stream, offset)]
  BY <1>3
<1>6. /\ array \in Seq(Byte) /\ Len(array) >= n
      /\ pool[b] > 0 \/ ~ Held(b)
  <2>1. /\ array \in Seq(Byte) /\ Len(array) \in Rentable(n)
        /\ pool[b] > 0 \/ ~ Held(b)
    BY <1>2, <1>4, RentType DEF Places
  <2> HIDE DEF n
  <2> QED
    BY <1>2, <2>1 DEF Rentable
<1>7. Payload(ioResponse)' = BytesOf(stream, r)
  <2>1. buffers'[b] = ReadInto(array, stream, offset)
    BY <1>4, <1>5 DEF Places, TypeOK
  <2>2. Payload(ioResponse)' = SubSeq(buffers'[b], 1, got)
    BY <1>3, <1>4 DEF Payload
  <2>3. BytesOf(stream, r) = SubSeq(stream, offset + 1, offset + got)
    BY <1>1, WantedIsTransferLength DEF BytesOf
  <2>4. SubSeq(ReadInto(array, stream, offset), 1, got)
          = SubSeq(stream, offset + 1, offset + got)
    BY <1>2, <1>6, ReadPayload DEF Places, TypeOK
  <2> QED
    BY <2>1, <2>2, <2>3, <2>4
<1> HIDE DEF n, offset, got
<1>8. \A d \in Client : Returned(d) => Payload(response[d])' = Payload(response[d])
  <2>1. \A d \in Client : ~ Reads(d, b)
    BY <1>4, <1>6, HeldBuffers DEF BuffersPrivate, Reads
  <2>2. \A d \in Client : Returned(d) => response[d].buffer # b
    BY <2>1 DEF Returned, Reads, Places, Phases
  <2>3. \A x : x # b => buffers'[x] = buffers[x] \/ x \notin Buffer
    BY <1>4, <1>5 DEF Places, TypeOK
  <2>4. \A d \in Client : Returned(d) =>
          response[d].buffer = NoBuffer \/ response[d].buffer \in Buffer
    BY Hands DEF Returned, IOResponse
  <2> QED
    BY <1>1, <2>2, <2>3, <2>4 DEF Payload
<1>9. stateBar[c] = "called" /\ stateBar' = [stateBar EXCEPT ![c] = "applied"]
  BY <1>1, Hands DEF stateBar, Gone, Returned, Transferred, Places, TypeOK
<1>10. answerBar' = [answerBar EXCEPT ![c] = BytesOf(stream, r)]
  BY <1>1, <1>7, <1>8, Hands DEF answerBar, Returned, Transferred, Places, TypeOK
<1>11. flushedBar' = flushedBar /\ opBar' = opBar /\ opBar[c] = r
  BY <1>1 DEF flushedBar, opBar
<1> QED
  BY <1>1, <1>9, <1>10, <1>11 DEF Store!Apply, IsReadRequest

(* The reader's transfer of a write is the instant of its effect.          *)
LEMMA WriteApplies ==
  ASSUME FileInvariant, Write
  PROVE  current \in Client /\ Store!Apply(current)
<1> USE DEF FileInvariant
<1> DEFINE c == current
           r == request[c]
<1>1. /\ c \in Client /\ pc[c] = "await" /\ Valid(r) /\ r.direction = "Write"
      /\ readerPc = "transfer"
      /\ readerPc' = IF "Flush" \in r.properties THEN "flush" ELSE "setResult"
      /\ ioResponse'.buffer = NoBuffer /\ ~ (disposals[c] > 0)
      /\ UNCHANGED <<pc, request, response, disposals, current, durable, buffers>>
  BY Hands DEF Write, AfterWrite, clientVars, bufferVars
<1>2. stream' = FileAfter(stream, r)
  BY <1>1, WantedIsTransferLength DEF Write, FileAfter
<1>3. stateBar[c] = "called" /\ stateBar' = [stateBar EXCEPT ![c] = "applied"]
  BY <1>1, Hands DEF stateBar, Gone, Returned, Transferred, Places, TypeOK
<1>4. answerBar' = answerBar
  BY <1>1 DEF answerBar, Returned, Transferred, Payload
<1>5. flushedBar' = flushedBar /\ opBar' = opBar /\ opBar[c] = r
  BY <1>1 DEF flushedBar, opBar
<1> QED
  BY <1>1, <1>2, <1>3, <1>4, <1>5 DEF Store!Apply, IsReadRequest

(* The reader's flush makes the file safe, its own write included.         *)
LEMMA FlushMakesSafe ==
  ASSUME FileInvariant, Flush
  PROVE  Store!MakeSafe
<1> USE DEF FileInvariant
<1>1. /\ current \in Client /\ pc[current] = "await"
      /\ readerPc = "flush" /\ readerPc' = "setResult"
      /\ request[current].direction = "Write" /\ "Flush" \in request[current].properties
      /\ durable' = stream
      /\ UNCHANGED <<pc, request, response, disposals, current, ioResponse, stream, buffers>>
  BY Hands DEF Flush, FlushAsked, clientVars, bufferVars
<1>2. stateBar' = stateBar /\ opBar' = opBar
  BY <1>1 DEF stateBar, Gone, Returned, Transferred, opBar
<1>3. answerBar' = answerBar
  BY <1>1 DEF answerBar, Returned, Transferred, Payload
<1>4. \A d \in Client : stateBar[d] = "applied" <=> d = current
  BY <1>1, Hands DEF stateBar, Gone, Returned, Transferred
<1>5. flushedBar' = [d \in Client |-> stateBar[d] = "applied"]
  <2>1. flushedBar' = [d \in Client |-> d = current]
    BY <1>1 DEF flushedBar
  <2> QED
    BY <1>4, <2>1
<1> QED
  BY <1>1, <1>2, <1>3, <1>5 DEF Store!MakeSafe

(* Completing the source returns the answer.                               *)
LEMMA SetResultReturns ==
  ASSUME FileInvariant, SetResult
  PROVE  current \in Client /\ Store!Return(current)
<1> USE DEF FileInvariant
<1> DEFINE c == current
<1>1. /\ c \in Client /\ pc[c] = "await"
      /\ readerPc = "setResult" /\ readerPc' = "tryRead"
      /\ current' = NoClient
      /\ response' = [response EXCEPT ![c] = ioResponse]
      /\ pc' = [pc EXCEPT ![c] = "answered"]
      /\ disposals[c] = 0
      /\ UNCHANGED <<request, disposals, stream, durable, buffers>>
  <2>1. current \in Client /\ pc[current] = "await"
    BY Hands DEF SetResult
  <2>2. disposals[current] = 0
    <3>1. disposals[current] \in Nat /\ ~ (disposals[current] > 0)
      <4>1. pc[current] # "answered"
        BY <2>1
      <4> QED
        BY <2>1, <4>1, Hands DEF Places, TypeOK
    <3> QED
      BY <3>1
  <2> QED
    BY <2>1, <2>2 DEF SetResult, Answered, fileVars
<1>2. stateBar[c] = "applied" /\ stateBar' = [stateBar EXCEPT ![c] = "returned"]
  BY <1>1, Hands DEF stateBar, Gone, Returned, Transferred, Places, TypeOK
<1>3. answerBar' = answerBar
  BY <1>1, Hands DEF answerBar, Returned, Transferred, Payload, Places, TypeOK
<1>6. opBar' = opBar /\ opBar[c] = request[c]
  BY <1>1 DEF opBar
<1>4. IsFlushRequest(opBar[c]) => flushedBar[c]
  BY <1>1, <1>6 DEF IsFlushRequest, flushedBar
<1>5. flushedBar' = [flushedBar EXCEPT ![c] = FALSE]
  <2>1. flushedBar' = [d \in Client |-> FALSE]
    BY <1>1 DEF flushedBar
  <2>2. \A d \in Client \ {c} : flushedBar[d] = FALSE
    BY DEF flushedBar
  <2>3. flushedBar = [d \in Client |-> flushedBar[d]]
    BY DEF flushedBar
  <2> QED
    BY <2>1, <2>2, <2>3
<1> QED
  BY <1>1, <1>2, <1>3, <1>4, <1>5, <1>6 DEF Store!Return

(* The end of the process is a crash of the store.                         *)
LEMMA RestartCrashes ==
  ASSUME Restart
  PROVE  Store!Crash
<1>1. \E n \in Len(durable) .. Len(stream), kept \in SUBSET (1 .. Len(stream)) :
        stream' = [i \in 1 .. n |->
          IF i \in kept THEN stream[i]
          ELSE IF i <= Len(durable) THEN durable[i] ELSE Zero]
  <2>2. stream' \in Survivors
    BY DEF Restart
  <2> QED
    BY <2>2, SurvivorsShape
<1>2. /\ durable' = stream'
      /\ pc' = [c \in Client |-> "idle"]
      /\ request' = [c \in Client |-> NoRequest]
      /\ readerPc' = "tryRead"
  BY DEF Restart
<1>6. \A c \in Client : pc'[c] = "idle" /\ disposals'[c] = 0
  BY DEF Restart
<1>3. stateBar' = [c \in Client |-> "idle"]
  BY <1>6 DEF stateBar, Gone
<1>4. answerBar' = [c \in Client |-> <<>>]
  BY <1>2, <1>6 DEF answerBar, Returned, Transferred
<1>5. flushedBar' = [c \in Client |-> FALSE] /\ opBar' = [c \in Client |-> NoRequest]
  BY <1>2, <1>6 DEF flushedBar, opBar
<1> QED
  BY <1>1, <1>2, <1>3, <1>4, <1>5 DEF Store!Crash

LEMMA InitStore == Init => Store!Init
<1> SUFFICES ASSUME Init PROVE Store!Init
  OBVIOUS
<1>1. /\ stateBar = [c \in Client |-> "idle"]
      /\ answerBar = [c \in Client |-> <<>>]
      /\ flushedBar = [c \in Client |-> FALSE]
      /\ opBar = [c \in Client |-> NoRequest]
  BY DEF Init, stateBar, answerBar, flushedBar, opBar, Gone, Returned, Transferred
<1> QED
  BY <1>1 DEF Init, Store!Init

LEMMA StoreStep ==
  ASSUME FileInvariant, [Next]_vars
  PROVE  [Store!Next]_(Store!vars)
<1>1. ASSUME NEW c \in Client, Schedule(c) PROVE Store!Next
  BY <1>1, ScheduleCalls DEF Store!Next
<1>2. ASSUME NEW c \in Client, WriteAsync(c) PROVE UNCHANGED Store!vars
  BY <1>2, WriteAsyncStutters
<1>3. ASSUME NEW c \in Client, Dispose(c) \/ Forget(c)
      PROVE  Store!Next \/ UNCHANGED Store!vars
  BY <1>3, DisposeForgets, ForgetForgets DEF Store!Next
<1>4. CASE TryRead
  BY <1>4, TryReadStutters
<1>5. CASE Read
  BY <1>5, ReadApplies DEF Store!Next
<1>6. CASE Write
  BY <1>6, WriteApplies DEF Store!Next
<1>7. CASE Flush
  BY <1>7, FlushMakesSafe DEF Store!Next
<1>8. CASE SetResult
  BY <1>8, SetResultReturns DEF Store!Next
<1>9. CASE Restart
  BY <1>9, RestartCrashes DEF Store!Next
<1>10. CASE Yield \/ UNCHANGED vars
  <2>1. UNCHANGED <<pc, request, response, disposals, current, readerPc, ioResponse,
                    stream, durable, buffers>>
    BY <1>10 DEF Yield, vars, clientVars, readerVars, fileVars, bufferVars
  <2>2. UNCHANGED <<stateBar, answerBar, flushedBar, opBar>>
    BY <2>1 DEF stateBar, answerBar, flushedBar, opBar, Gone, Returned, Transferred, Payload
  <2> QED
    BY <2>1, <2>2 DEF Store!vars
<1> QED
  BY <1>1, <1>2, <1>3, <1>4, <1>5, <1>6, <1>7, <1>8, <1>9, <1>10
  DEF Next, Reader, ReaderThrows, Crash

(* Every step of scheduler, reader and file is one of the file store: each *)
(* request takes effect at one instant between its call and its answer, an *)
(* answer is what the file held at that instant, and a flushed write is    *)
(* answered only when it would survive the end of the process.  That holds *)
(* until somebody may hold an array that was returned twice.               *)
THEOREM SchedulerImplementsFileStore == Spec => ImplementsFileStore
<1>1. Init => FlushAsked
  BY DEF Init, FlushAsked
<1>2. Places /\ FlushAsked /\ [Next]_vars => FlushAsked'
  BY FlushStep
<1>3. Spec => []FlushAsked
  BY <1>1, <1>2, PlacesInvariant, PTL DEF Spec
<1>4. Places /\ BuffersPrivate /\ FlushAsked /\ [Next]_vars
        => [overReturned # {} \/ Store!Next]_(Store!vars)
  BY StoreStep DEF FileInvariant
<1> QED
  BY <1>3, <1>4, InitStore, PlacesInvariant, ArraysAreNotShared, PTL
  DEF Spec, ImplementsFileStore

(* No client has disposed its response twice, and no array was returned    *)
(* twice.                                                                  *)
NothingReturnedTwice ==
  /\ \A c \in Client : disposals[c] <= 1
  /\ overReturned = {}

LEMMA OnceStep ==
  ASSUME MaxDisposals <= 1, Places, NothingReturnedTwice, [Next]_vars
  PROVE  NothingReturnedTwice'
<1> USE DEF Places
<1>1. ASSUME NEW c \in Client, Dispose(c) PROVE NothingReturnedTwice'
  <2>1. /\ disposals[c] < MaxDisposals
        /\ disposals' = [disposals EXCEPT ![c] = @ + 1]
        /\ overReturned' = IF disposals[c] = 0 THEN overReturned
                           ELSE overReturned \cup {response[c].buffer}
    BY <1>1 DEF Dispose
  <2>2. disposals[c] = 0
    BY <2>1, ChannelAssumption DEF TypeOK
  <2> QED
    BY <2>1, <2>2 DEF NothingReturnedTwice, TypeOK
<1>2. ASSUME NEW c \in Client, Forget(c) PROVE NothingReturnedTwice'
  BY <1>2 DEF Forget, NothingReturnedTwice, TypeOK
<1>3. ASSUME UNCHANGED <<disposals, overReturned>> PROVE NothingReturnedTwice'
  BY <1>3 DEF NothingReturnedTwice
<1>4. ASSUME NEW c \in Client, Schedule(c) \/ WriteAsync(c) PROVE NothingReturnedTwice'
  BY <1>3, <1>4 DEF Schedule, WriteAsync, bufferVars
<1>5. CASE TryRead \/ Read \/ Write \/ Flush \/ SetResult \/ Yield \/ UNCHANGED vars
  BY <1>3, <1>5
  DEF TryRead, Read, Write, Flush, SetResult, Yield, vars, clientVars, bufferVars
<1>6. CASE Restart
  BY <1>6 DEF Restart, NothingReturnedTwice
<1> QED
  BY <1>1, <1>2, <1>4, <1>5, <1>6 DEF Next, Reader, ReaderThrows, Crash

(* Where clients dispose a response at most once, which nothing in         *)
(* IOResponse.Dispose makes them do, scheduler, reader and file implement  *)
(* the file store without exception.                                       *)
THEOREM DisposingOnceImplementsFileStore ==
  ASSUME MaxDisposals <= 1
  PROVE  Spec => Store!Init /\ [][Store!Next]_(Store!vars)
<1>1. Init => NothingReturnedTwice
  BY DEF Init, NothingReturnedTwice
<1>2. Places /\ NothingReturnedTwice /\ [Next]_vars => NothingReturnedTwice'
  BY OnceStep
<1>3. Spec => []NothingReturnedTwice
  BY <1>1, <1>2, PlacesInvariant, PTL DEF Spec
<1>4. NothingReturnedTwice => overReturned = {}
  BY DEF NothingReturnedTwice
<1>5. overReturned = {} /\ [overReturned # {} \/ Store!Next]_(Store!vars)
        => [Store!Next]_(Store!vars)
  OBVIOUS
<1> QED
  BY <1>3, <1>4, <1>5, SchedulerImplementsFileStore, PTL DEF ImplementsFileStore
=============================================================================
