------------------------------ MODULE Scheduler ------------------------------
(***************************************************************************)
(* DefaultScheduler and FileSystemServiceBase of Datatent.Core.            *)
(*                                                                         *)
(* Clients call ScheduleFileSystemRequest: each puts its request and a     *)
(* task completion source into a bounded channel and awaits the source.    *)
(* One reader takes the requests out one by one, transfers the bytes       *)
(* between a rented buffer or the payload and the stream, flushes if the   *)
(* request says so, and completes the source: the client goes on, on the   *)
(* reader's own thread if it awaits by then, because the source is made    *)
(* without RunContinuationsAsynchronously.  An exception on the reader     *)
(* ends the process, because Reader is async void.                         *)
(*                                                                         *)
(* A client has one request under way at a time, so a client also stands   *)
(* for its tuple (request, source) in the channel.                         *)
(***************************************************************************)
EXTENDS Addressing, Sequences, Functions

CONSTANTS
  Client,
  NoClient,
  NoRequest,
  NoResponse,
  Capacity,      \* of the channel; 100 in the code
  Template,      \* the requests clients make, without their id
  Id,            \* the Guids
  Value,         \* what the bytes of a payload are filled with
  Zero,          \* a byte nobody wrote
  Header,        \* a byte of the database header
  Buffer,        \* arrays the ArrayPool hands out
  NoBuffer,      \* Array.Empty<byte>(), the payload of a write's response
  MayCrash,      \* whether the environment may end the process at any time
  MaxDisposals,  \* times a client may dispose one response; no bound in the code
  PoolDepth      \* times the ArrayPool keeps one array

Byte == Value \cup {Zero, Header}
Direction == {"Read", "Write"}
IoRequestProperties == {"Flush", "OnlyHeader"}

ASSUME ChannelAssumption ==
  /\ NoClient \notin Client
  /\ Capacity \in Nat \ {0}
  /\ MayCrash \in BOOLEAN
  /\ MaxDisposals \in Nat
  /\ PoolDepth \in Nat

ASSUME TemplateAssumption ==
  Template \subseteq [direction : Direction, address : Address,
                      properties : SUBSET IoRequestProperties,
                      value : Value, size : Nat]

ASSUME BufferAssumption ==
  /\ NoBuffer \notin Buffer
  /\ Zero \notin Value /\ Header \notin Value /\ Zero # Header

IORequest ==
  [direction : Direction, address : Address,
   properties : SUBSET IoRequestProperties, value : Value, size : Nat, id : Id]

(* CreateReadRequest and CreateWriteIoRequest: what a client asks for, with *)
(* a Guid of its own.                                                      *)
NewRequest(t, id) ==
  [direction |-> t.direction, address |-> t.address,
   properties |-> t.properties, value |-> t.value, size |-> t.size, id |-> id]

IOResponse ==
  [id : Id, address : Address, buffer : Buffer \cup {NoBuffer}, got : Nat]

ASSUME NullAssumption ==
  /\ NoRequest \notin IORequest
  /\ NoResponse \notin IOResponse

VARIABLES
  pc,              \* where each client is in ScheduleFileSystemRequest
  request,         \* the request each client waits for
  response,        \* the response each client got
  disposals,       \* how often each client has disposed that response
  items,           \* the channel
  blockedWriters,  \* clients whose WriteAsync waits for room in the channel
  readerPc,        \* where the reader is in its loop
  current,         \* the client whose tuple the reader took out
  ioResponse,      \* the reader's local of that name
  guest,           \* the client that runs on the reader's thread
  stream,          \* the data file as the process sees it
  durable,         \* the data file without what was never flushed
  buffers,         \* content of the arrays
  pool,            \* how many times each array lies in the pool
  overReturned     \* history: the arrays of responses disposed more than once

clientVars == <<pc, request, response, disposals>>
channelVars == <<items, blockedWriters>>
readerVars == <<readerPc, current, ioResponse, guest>>
fileVars == <<stream, durable>>
bufferVars == <<buffers, pool, overReturned>>
vars == <<clientVars, channelVars, readerVars, fileVars, bufferVars>>

-----------------------------------------------------------------------------
(* What one transfer does.                                                 *)

(* The number of bytes a request is about.                                 *)
TransferLength(r) ==
  IF "OnlyHeader" \in r.properties
    THEN GetHeaderLengthForScope(ScopeOf(r.address))
    ELSE Length(r.address)

(* ToPosition, GetHeaderLengthForScope and Payload.Slice do not throw.     *)
Valid(r) ==
  /\ ScopeOf(r.address) \in AddressScope
  /\ r.direction = "Write" => TransferLength(r) <= r.size

(* Stream.Write at a position: bytes between the end and it become zero.   *)
Overwrite(s, offset, n, value) ==
  [i \in 1 .. IF offset + n > Len(s) THEN offset + n ELSE Len(s) |->
     IF offset < i /\ i <= offset + n THEN value
     ELSE IF i <= Len(s) THEN s[i] ELSE Zero]

(* Stream.Read at a position: as many bytes as there are go into the       *)
(* array, the rest of the array keeps what it held.                        *)
ReadInto(array, s, offset) ==
  [i \in 1 .. Len(array) |->
     IF offset + i <= Len(s) THEN s[offset + i] ELSE array[i]]

(* Mutant: a count that goes below zero when the file ends before offset.  *)
MutantAvailableNegative(s, offset, n) ==
  IF Len(s) - offset < n THEN Len(s) - offset ELSE n

(* How many of the n bytes from a position on the file has.                *)
Available(s, offset, n) ==
  IF Len(s) <= offset THEN 0
  ELSE IF Len(s) - offset < n THEN Len(s) - offset ELSE n

(* ArrayPool.Rent(n) hands out arrays that are longer than asked for, but  *)
(* never twice as long: the next power of two.                             *)
Rentable(n) == n .. 2 * n - 1

(* Some response, disposed or not, refers to array b.                      *)
Held(b) ==
  \E x \in {ioResponse} \cup {response[c] : c \in Client} :
    x # NoResponse /\ x.buffer = b

(* Rent(n) takes an array out of the pool, with what its last user left in *)
(* it, or makes a new one of zeros.  The name of a new array is one that   *)
(* nothing refers to; an array of the pool is rented whoever refers to it. *)
Rent(b, n) ==
  IF pool[b] > 0
    THEN {buffers[x] : x \in {y \in {b} : Len(buffers[y]) \in Rentable(n)}}
    ELSE {[i \in 1 .. m |-> Zero] : m \in {k \in Rentable(n) : ~ Held(b)}}

(* Mutant: the array rented is left in the pool. *)
MutantTakenOut(b) == pool

TakenOut(b) == [pool EXCEPT ![b] = IF @ > 0 THEN @ - 1 ELSE 0]

(* Nothing refers to array b any more.                                     *)
Unreachable(b) == pool[b] = 0 /\ ~ Held(b)

(* Mutant: off by one. *)
MutantHasRoom == Len(items) <= Capacity

(* Whether the bounded channel takes another tuple. *)
HasRoom == Len(items) < Capacity

(* Mutant: nobody is woken. *)
MutantWoken == pc

(* Mutant: room in the channel is taken for a tuple in the channel. *)
MutantWokenAwait ==
  [c \in Client |-> IF pc[c] = "waitToWrite" THEN "await" ELSE pc[c]]

(* The clients after those in WaitToWriteAsync have been woken. *)
Woken == [c \in Client |-> IF pc[c] = "waitToWrite" THEN "write" ELSE pc[c]]

(* Mutant: the flush is skipped. *)
MutantAfterWrite(r) == "setResult"

(* Where FileSystemServiceBase.Write goes when the bytes are in the stream. *)
AfterWrite(r) == IF "Flush" \in r.properties THEN "flush" ELSE "setResult"

(* Mutant: the tuple is looked up again at the head of the channel. *)
MutantAnswered == IF items = <<>> THEN current ELSE Head(items)

(* The client whose source SetResult completes. *)
Answered == current

(* What a new process may find in the file.  Of the bytes written but not  *)
(* flushed, any part may have reached it.                                  *)
Survivors ==
  {[i \in 1 .. n |->
      IF i \in kept THEN stream[i]
      ELSE IF i <= Len(durable) THEN durable[i] ELSE Zero] :
     n \in Len(durable) .. Len(stream), kept \in SUBSET (1 .. Len(stream))}

-----------------------------------------------------------------------------
(* Database.CreateNew has run: the file holds the database header.         *)
Init ==
  /\ pc = [c \in Client |-> "idle"]
  /\ request = [c \in Client |-> NoRequest]
  /\ response = [c \in Client |-> NoResponse]
  /\ disposals = [c \in Client |-> 0]
  /\ items = <<>>
  /\ blockedWriters = <<>>
  /\ readerPc = "tryRead"
  /\ current = NoClient
  /\ ioResponse = NoResponse
  /\ guest = NoClient
  /\ stream = [i \in 1 .. DATABASE_HEADER_SIZE |-> Header]
  /\ durable = stream
  /\ buffers = [b \in Buffer |-> <<>>]
  /\ pool = [b \in Buffer |-> 0]
  /\ overReturned = {}

(* ScheduleFileSystemRequest up to WaitToWriteAsync, which completes at    *)
(* once when the channel has room.  The request's Guid is a new one.       *)
Schedule(c) ==
  /\ pc[c] = "idle"
  /\ \E t \in Template, id \in Id :
       /\ \A d \in Client : request[d] # NoRequest => request[d].id # id
       /\ request' = [request EXCEPT ![c] = NewRequest(t, id)]
  /\ pc' = [pc EXCEPT ![c] =
       IF HasRoom THEN "write" ELSE "waitToWrite"]
  /\ UNCHANGED <<response, disposals, channelVars, readerVars, fileVars, bufferVars>>

(* WriteAsync: the tuple goes into the channel, or, when the channel has   *)
(* filled up since WaitToWriteAsync, into the queue of blocked writers.    *)
WriteAsync(c) ==
  /\ pc[c] = "write"
  /\ IF HasRoom
       THEN /\ items' = Append(items, c)
            /\ pc' = [pc EXCEPT ![c] = "await"]
            /\ UNCHANGED blockedWriters
       ELSE /\ blockedWriters' = Append(blockedWriters, c)
            /\ pc' = [pc EXCEPT ![c] = "blocked"]
            /\ UNCHANGED items
  /\ UNCHANGED <<request, response, disposals, readerVars, fileVars, bufferVars>>

(* IOResponse.Dispose: the array goes to the pool, which may drop it when  *)
(* it is full.  The response is a struct that does not remember whether it *)
(* was disposed, so each further call returns the array again, whoever has *)
(* rented it meanwhile.                                                    *)
Dispose(c) ==
  /\ pc[c] = "answered"
  /\ response[c].buffer # NoBuffer
  /\ disposals[c] < MaxDisposals
  /\ disposals' = [disposals EXCEPT ![c] = @ + 1]
  /\ \/ /\ pool[response[c].buffer] < PoolDepth
        /\ pool' = [pool EXCEPT ![response[c].buffer] = @ + 1]
     \/ UNCHANGED pool
  /\ overReturned' =
       IF disposals[c] = 0 THEN overReturned
       ELSE overReturned \cup {response[c].buffer}
  /\ UNCHANGED <<pc, request, response, buffers, channelVars, readerVars, fileVars>>

(* The client lets go of its response, disposed or not, and is free to     *)
(* call again; an array nothing refers to is garbage.                      *)
Forget(c) ==
  /\ pc[c] = "answered"
  /\ pc' = [pc EXCEPT ![c] = "idle"]
  /\ request' = [request EXCEPT ![c] = NoRequest]
  /\ response' = [response EXCEPT ![c] = NoResponse]
  /\ disposals' = [disposals EXCEPT ![c] = 0]
  /\ UNCHANGED <<pool, channelVars, readerVars, fileVars>>
  /\ buffers' = [b \in Buffer |-> IF Unreachable(b)' THEN <<>> ELSE buffers[b]]
  /\ overReturned' = {b \in overReturned : ~ Unreachable(b)'}

-----------------------------------------------------------------------------
(* TryRead.  The room it makes goes to the first blocked writer; only when *)
(* there is none are the clients in WaitToWriteAsync woken, all of them.   *)
TryRead ==
  /\ readerPc = "tryRead"
  /\ guest = NoClient
  /\ items # <<>>
  /\ current' = Head(items)
  /\ readerPc' = "transfer"
  /\ IF blockedWriters # <<>>
       THEN /\ items' = Append(Tail(items), Head(blockedWriters))
            /\ blockedWriters' = Tail(blockedWriters)
            /\ pc' = [pc EXCEPT ![Head(blockedWriters)] = "await"]
       ELSE /\ items' = Tail(items)
            /\ pc' = Woken
            /\ UNCHANGED blockedWriters
  /\ UNCHANGED <<request, response, disposals, ioResponse, guest, fileVars, bufferVars>>

(* FileSystemServiceBase.Read into a rented array.                         *)
Read ==
  /\ readerPc = "transfer"
  /\ LET r == request[current]
         n == TransferLength(r)
         offset == Offset(r.address)
     IN  /\ Valid(r) /\ r.direction = "Read"
         /\ \E b \in Buffer :
              /\ \E array \in Rent(b, n) :
                   buffers' = [buffers EXCEPT ![b] = ReadInto(array, stream, offset)]
              /\ pool' = TakenOut(b)
              /\ ioResponse' =
                   [id |-> r.id, address |-> r.address, buffer |-> b,
                    got |-> Available(stream, offset, n)]
  /\ readerPc' = "setResult"
  /\ UNCHANGED <<clientVars, channelVars, current, guest, fileVars, overReturned>>

(* FileSystemServiceBase.Write up to the flush.                            *)
Write ==
  /\ readerPc = "transfer"
  /\ LET r == request[current] IN
       /\ Valid(r) /\ r.direction = "Write"
       /\ stream' = Overwrite(stream, Offset(r.address), TransferLength(r), r.value)
       /\ ioResponse' =
            [id |-> r.id, address |-> r.address, buffer |-> NoBuffer, got |-> 0]
       /\ readerPc' = AfterWrite(r)
  /\ UNCHANGED <<clientVars, channelVars, current, guest, durable, bufferVars>>

Flush ==
  /\ readerPc = "flush"
  /\ durable' = stream
  /\ readerPc' = "setResult"
  /\ UNCHANGED <<clientVars, channelVars, current, ioResponse, guest, stream, bufferVars>>

(* Mutant: the reader disposes the response it has handed out (using). *)
MutantAfterAnswer ==
  IF ioResponse.buffer = NoBuffer THEN pool
  ELSE [pool EXCEPT ![ioResponse.buffer] = @ + 1]

(* The pool after an answer: the array is the client's to return.          *)
AfterAnswer == pool

(* The response completes the task completion source of the tuple.  If the *)
(* client awaits it by now, its continuation runs here and now, inside     *)
(* SetResult; if not, the client goes on by itself.                        *)
SetResult ==
  /\ readerPc = "setResult"
  /\ response' = [response EXCEPT ![Answered] = ioResponse]
  /\ pc' = [pc EXCEPT ![Answered] = "answered"]
  /\ readerPc' = "tryRead"
  /\ current' = NoClient
  /\ ioResponse' = NoResponse
  /\ guest' \in {NoClient, Answered}
  /\ pool' = AfterAnswer
  /\ UNCHANGED <<request, disposals, buffers, overReturned, channelVars, fileVars>>

(* The client on the reader's thread returns or awaits something: only     *)
(* then does the reader go on.  That is the client's affair.               *)
Yield ==
  /\ guest # NoClient
  /\ guest' = NoClient
  /\ UNCHANGED <<clientVars, channelVars, readerPc, current, ioResponse, fileVars, bufferVars>>

-----------------------------------------------------------------------------
(* The process ends and a new one opens the file (FileMode.OpenOrCreate).  *)
Restart ==
  /\ stream' \in Survivors
  /\ durable' = stream'
  /\ pc' = [c \in Client |-> "idle"]
  /\ request' = [c \in Client |-> NoRequest]
  /\ response' = [c \in Client |-> NoResponse]
  /\ disposals' = [c \in Client |-> 0]
  /\ items' = <<>>
  /\ blockedWriters' = <<>>
  /\ readerPc' = "tryRead"
  /\ current' = NoClient
  /\ ioResponse' = NoResponse
  /\ guest' = NoClient
  /\ buffers' = [b \in Buffer |-> <<>>]
  /\ pool' = [b \in Buffer |-> 0]
  /\ overReturned' = {}

(* Read or Write throws: nobody catches it in the async void Reader.       *)
ReaderThrows ==
  /\ readerPc = "transfer"
  /\ ~ Valid(request[current])
  /\ Restart

Crash == MayCrash /\ Restart

Reader == TryRead \/ Read \/ Write \/ Flush \/ SetResult

Next ==
  \/ \E c \in Client : Schedule(c) \/ WriteAsync(c) \/ Dispose(c) \/ Forget(c)
  \/ Reader
  \/ Yield
  \/ ReaderThrows
  \/ Crash

(* The reader, when no client runs on its thread, and a client on its way  *)
(* into the channel are never suspended for good.  No fairness of Yield: a *)
(* client may block the reader's thread for ever.  Whether a client calls, *)
(* disposes or lets go of a response is its own affair, too.               *)
Fairness ==
  /\ WF_vars(Reader)
  /\ \A c \in Client : WF_vars(WriteAsync(c))

Spec == Init /\ [][Next]_vars /\ Fairness

-----------------------------------------------------------------------------
TypeOK ==
  /\ pc \in [Client -> {"idle", "waitToWrite", "write", "blocked", "await", "answered"}]
  /\ request \in [Client -> IORequest \cup {NoRequest}]
  /\ response \in [Client -> IOResponse \cup {NoResponse}]
  /\ disposals \in [Client -> Nat]
  /\ items \in Seq(Client)
  /\ blockedWriters \in Seq(Client)
  /\ readerPc \in {"tryRead", "transfer", "flush", "setResult"}
  /\ current \in Client \cup {NoClient}
  /\ ioResponse \in IOResponse \cup {NoResponse}
  /\ guest \in Client \cup {NoClient}
  /\ stream \in Seq(Byte)
  /\ durable \in Seq(Byte)
  /\ buffers \in [Buffer -> Seq(Byte)]
  /\ pool \in [Buffer -> Nat]
  /\ overReturned \subseteq Buffer

(* A tuple is in one place only, and every client that waits is in one:    *)
(* its source is in the channel, with the blocked writers or with the      *)
(* reader, so that SetResult is called once for each source and for every  *)
(* source (DefaultScheduler.Reader and ScheduleFileSystemRequest).         *)
OnePlace ==
  /\ IsInjective(items) /\ IsInjective(blockedWriters)
  /\ current \notin Range(items)
  /\ \A c \in Client :
       /\ pc[c] = "blocked" <=> c \in Range(blockedWriters)
       /\ pc[c] = "await" <=> c = current \/ c \in Range(items)
  /\ current = NoClient <=> readerPc = "tryRead"

(* Where the reader and the clients are and what they hold agree: a step of *)
(* the induction that shows the other invariants.                          *)
Phases ==
  /\ \A c \in Client :
       /\ pc[c] = "answered" <=> response[c] # NoResponse
       /\ pc[c] = "idle" <=> request[c] = NoRequest
       /\ disposals[c] > 0 => response[c] # NoResponse /\ response[c].buffer # NoBuffer
  /\ readerPc \in {"flush", "setResult"} <=> ioResponse # NoResponse

(* The channel keeps its bound, and nobody waits for room while there is   *)
(* room: no wake-up of a writer is lost.                                   *)
ChannelBound ==
  /\ Len(items) <= Capacity
  /\ Len(items) < Capacity =>
       blockedWriters = <<>> /\ \A c \in Client : pc[c] # "waitToWrite"

(* The response a client gets is the one to its own request, with a buffer *)
(* exactly when it asked for one (the test AddAndWaitForResult compares    *)
(* the ids of one client; here others have requests under way).            *)
AnswersOwnRequest ==
  \A c \in Client :
    pc[c] = "answered" =>
      /\ response[c].id = request[c].id
      /\ response[c].address = request[c].address
      /\ response[c].buffer # NoBuffer <=> request[c].direction = "Read"

(* Client c may still read array b: its response has not been disposed.    *)
Reads(c, b) ==
  response[c] # NoResponse /\ response[c].buffer = b /\ disposals[c] = 0

(* The reader is about to hand array b out.                                *)
Fills(b) == ioResponse # NoResponse /\ ioResponse.buffer = b

(* An array is in one place only: with one client, with the reader or once *)
(* in the pool, so that no transfer goes to an array somebody reads.  Only *)
(* an array whose response was disposed more than once is not private any  *)
(* more, and the others stay so whatever happens to that one               *)
(* (IOResponse.Dispose, ArrayPool in FileSystemServiceBase.Read).          *)
BuffersPrivate ==
  \A b \in Buffer \ overReturned :
    /\ \A c, d \in Client : Reads(c, b) /\ Reads(d, b) => c = d
    /\ \A c \in Client : Reads(c, b) => ~ Fills(b)
    /\ pool[b] > 0 => ~ Fills(b) /\ \A c \in Client : ~ Reads(c, b)
    /\ pool[b] <= 1

(* While a client holds a response it has not disposed, the bytes it reads *)
(* in it do not change, whatever the reader serves meanwhile and whatever  *)
(* the other clients dispose how often, unless it was this very array.     *)
PayloadStable ==
  [][\A c \in Client, b \in Buffer \ overReturned :
       Reads(c, b) /\ response'[c] = response[c] => buffers'[b] = buffers[b]]_vars

(* No request reaches the database header, before and after a crash, since *)
(* Address.ToPosition starts behind it.                                    *)
HeaderIntact ==
  \A i \in 1 .. DATABASE_HEADER_SIZE : stream[i] = Header /\ durable[i] = Header

(* Every request is answered as long as the process lives, requests are    *)
(* valid and no client stays on the reader's thread for good, as one does  *)
(* that waits there, with .Result, for another request: no client waits    *)
(* forever for room in the channel or for its source.                      *)
EveryRequestAnswered ==
  []<>(guest = NoClient) =>
    \A c \in Client : (pc[c] # "idle") ~> (pc[c] = "answered")

-----------------------------------------------------------------------------
(* What the comment on Read says and the code does not keep: "Reads the    *)
(* data from the underlying stream".  Every byte of the payload within the *)
(* requested length is a byte of the stream, or zero where the stream ends.*)
PayloadFromStream ==
  \A c \in Client :
    pc[c] = "answered" /\ request[c].direction = "Read" /\ disposals[c] = 0 =>
      \A i \in response[c].got + 1 .. TransferLength(request[c]) :
        buffers[response[c].buffer][i] = Zero

=============================================================================
