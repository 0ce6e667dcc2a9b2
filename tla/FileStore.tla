------------------------------ MODULE FileStore ------------------------------
(***************************************************************************)
(* What a client of the scheduler may rely on, with nothing said about     *)
(* channel, reader, arrays or streams: a request takes effect at one       *)
(* instant between its call and its answer; a read's answer is what the    *)
(* file holds at that instant; a write that asked for a flush is answered  *)
(* only when the whole file, this write included, would survive the end of *)
(* the process; and ending loses at most bytes written since the last      *)
(* flush, together with the requests under way.                            *)
(***************************************************************************)
EXTENDS Sequences, Integers

CONSTANTS
  Client,
  Operation,            \* what clients ask for
  NoOp,
  IsRead(_),
  IsFlush(_),
  Effect(_, _),         \* the file after a write
  Answer(_, _),         \* what a read sees in the file
  InitialFile,
  Zero

VARIABLES
  file,      \* the bytes
  safe,      \* the bytes as a crash before any further flush may find them
  state,     \* of each client: idle, called, applied, returned
  op,        \* the operation each client called
  answer,    \* the bytes the operation returned, or will return
  flushed    \* whether the file was made safe since the operation applied

vars == <<file, safe, state, op, answer, flushed>>

Init ==
  /\ file = InitialFile
  /\ safe = InitialFile
  /\ state = [c \in Client |-> "idle"]
  /\ op = [c \in Client |-> NoOp]
  /\ answer = [c \in Client |-> <<>>]
  /\ flushed = [c \in Client |-> FALSE]

Call(c, o) ==
  /\ state[c] = "idle"
  /\ state' = [state EXCEPT ![c] = "called"]
  /\ op' = [op EXCEPT ![c] = o]
  /\ UNCHANGED <<file, safe, answer, flushed>>

Apply(c) ==
  /\ state[c] = "called"
  /\ state' = [state EXCEPT ![c] = "applied"]
  /\ IF IsRead(op[c])
       THEN answer' = [answer EXCEPT ![c] = Answer(file, op[c])] /\ UNCHANGED file
       ELSE file' = Effect(file, op[c]) /\ UNCHANGED answer
  /\ UNCHANGED <<safe, op, flushed>>

MakeSafe ==
  /\ safe' = file
  /\ flushed' = [c \in Client |-> state[c] = "applied"]
  /\ UNCHANGED <<file, state, op, answer>>

Return(c) ==
  /\ state[c] = "applied"
  /\ IsFlush(op[c]) => flushed[c]
  /\ state' = [state EXCEPT ![c] = "returned"]
  /\ flushed' = [flushed EXCEPT ![c] = FALSE]
  /\ UNCHANGED <<file, safe, op, answer>>

Forget(c) ==
  /\ state[c] = "returned"
  /\ state' = [state EXCEPT ![c] = "idle"]
  /\ op' = [op EXCEPT ![c] = NoOp]
  /\ answer' = [answer EXCEPT ![c] = <<>>]
  /\ UNCHANGED <<file, safe, flushed>>

(* Each byte of the file found afterwards is the one last made safe or a   *)
(* later one; the file may be shorter than it was, not shorter than safe.  *)
Crash ==
  /\ \E n \in Len(safe) .. Len(file), kept \in SUBSET (1 .. Len(file)) :
       file' = [i \in 1 .. n |->
         IF i \in kept THEN file[i] ELSE IF i <= Len(safe) THEN safe[i] ELSE Zero]
  /\ safe' = file'
  /\ state' = [c \in Client |-> "idle"]
  /\ op' = [c \in Client |-> NoOp]
  /\ answer' = [c \in Client |-> <<>>]
  /\ flushed' = [c \in Client |-> FALSE]

Next ==
  \/ \E c \in Client :
       \/ \E o \in Operation : Call(c, o)
       \/ Apply(c)
       \/ Return(c)
       \/ Forget(c)
  \/ MakeSafe
  \/ Crash

Spec == Init /\ [][Next]_vars
=============================================================================
