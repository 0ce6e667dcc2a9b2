------------------------- MODULE SchedulerRefinement -------------------------
(***************************************************************************)
(* The scheduler implements FileStore: the reader's transfer is the        *)
(* instant at which a request takes effect, its flush makes the file safe, *)
(* SetResult is the answer.                                                *)
(***************************************************************************)
EXTENDS Scheduler

(* The reader has transferred the request of c and not yet answered it.    *)
Transferred(c) == current = c /\ readerPc \in {"flush", "setResult"}

(* The bytes of the file a response carries.                               *)
Payload(r) == IF r.buffer = NoBuffer THEN <<>> ELSE SubSeq(buffers[r.buffer], 1, r.got)

(* The client has the answer to its request and may still read it: it has  *)
(* not disposed it.                                                        *)
Returned(c) == pc[c] = "answered" /\ disposals[c] = 0

(* The client has no request under way and no answer it may read.          *)
Gone(c) == pc[c] = "idle" \/ disposals[c] > 0

stateBar ==
  [c \in Client |->
     IF Gone(c) THEN "idle"
     ELSE IF Returned(c) THEN "returned"
     ELSE IF Transferred(c) THEN "applied"
     ELSE "called"]

opBar == [c \in Client |-> IF disposals[c] > 0 THEN NoRequest ELSE request[c]]

answerBar ==
  [c \in Client |->
     IF Returned(c) THEN Payload(response[c])
     ELSE IF Transferred(c) THEN Payload(ioResponse) ELSE <<>>]

flushedBar ==
  [c \in Client |->
     /\ current = c /\ readerPc = "setResult"
     /\ request[c].direction = "Write" /\ "Flush" \in request[c].properties]

IsReadRequest(r) == r.direction = "Read"

(* The code looks at the Flush property of a write only.                   *)
IsFlushRequest(r) == r.direction = "Write" /\ "Flush" \in r.properties

(* The bytes a request is about: a header or all of the block or page.     *)
Wanted(r) ==
  IF "OnlyHeader" \notin r.properties THEN Length(r.address)
  ELSE CASE ScopeOf(r.address) = Block    -> BLOCK_HEADER_SIZE
         [] ScopeOf(r.address) = Page     -> PAGE_HEADER_SIZE
         [] ScopeOf(r.address) = Document -> DOCUMENT_HEADER_SIZE

FileAfter(s, r) == Overwrite(s, Offset(r.address), Wanted(r), r.value)

BytesOf(s, r) ==
  SubSeq(s, Offset(r.address) + 1,
            Offset(r.address) + Available(s, Offset(r.address), Wanted(r)))

Store == INSTANCE FileStore WITH
  Operation   <- {NewRequest(t, id) : t \in Template, id \in Id},
  NoOp        <- NoRequest,
  IsRead      <- IsReadRequest,
  IsFlush     <- IsFlushRequest,
  Effect      <- FileAfter,
  Answer      <- BytesOf,
  InitialFile <- [i \in 1 .. DATABASE_HEADER_SIZE |-> Header],
  file        <- stream,
  safe        <- durable,
  state       <- stateBar,
  op          <- opBar,
  answer      <- answerBar,
  flushed     <- flushedBar

(* Every step of the scheduler is one of FileStore or changes nothing that *)
(* FileStore knows of, except while somebody may hold an array that was    *)
(* returned once too often: such an array may be read by two clients.      *)
(* Where no response is disposed twice, overReturned is empty, and every   *)
(* behaviour of the scheduler is one of FileStore.                         *)
ImplementsFileStore ==
  Store!Init /\ [][overReturned # {} \/ Store!Next]_(Store!vars)
=============================================================================
