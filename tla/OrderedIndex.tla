----------------------------- MODULE OrderedIndex -----------------------------
(***************************************************************************)
(* What a caller of IIndex may rely on: the index is a bag of entries.     *)
(* Insert adds one, in a unique index only under a new key; Delete of a    *)
(* key takes the entry of that key; Delete of a key and a value takes all  *)
(* entries equal to it, one after another, and returns when none is left.  *)
(***************************************************************************)
EXTENDS Bags

CONSTANTS Entry, NoEntry, KeyOf(_)

VARIABLES
  unique,      \* whether a key has at most one entry
  contents,    \* the bag
  deleting     \* the entry Delete is taking out, copy by copy, or NoEntry

vars == <<unique, contents, deleting>>

Init ==
  /\ unique \in BOOLEAN
  /\ contents = EmptyBag
  /\ deleting = NoEntry

(* The bag before and after a step, with an entry more or less.            *)
With(bag, e) == bag (+) SetToBag({e})
Less(bag, e) == bag (-) SetToBag({e})

Insert(old, new) ==
  /\ deleting = NoEntry
  /\ \E e \in BagToSet(new) :
       /\ unique => \A d \in BagToSet(old) : KeyOf(d) # KeyOf(e)
       /\ new = With(old, e)
  /\ UNCHANGED <<unique, deleting>>

DeleteKey(old, new) ==
  /\ unique
  /\ \E e \in BagToSet(old) : new = Less(old, e)
  /\ UNCHANGED <<unique, deleting>>

BeginDelete ==
  /\ ~ unique /\ deleting = NoEntry
  /\ deleting' \in Entry
  /\ UNCHANGED <<unique, contents>>

DeleteOne(old, new) ==
  /\ BagIn(deleting, old)
  /\ new = Less(old, deleting)
  /\ UNCHANGED <<unique, deleting>>

EndDelete ==
  /\ deleting # NoEntry /\ ~ BagIn(deleting, contents)
  /\ deleting' = NoEntry
  /\ UNCHANGED <<unique, contents>>

Next ==
  \/ BeginDelete
  \/ EndDelete
  \/ LET old == contents
         new == contents'
     IN  Insert(old, new) \/ DeleteKey(old, new) \/ DeleteOne(old, new)

Spec == Init /\ [][Next]_vars
=============================================================================
