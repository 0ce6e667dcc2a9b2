------------------------------- MODULE TokenSet -------------------------------
(***************************************************************************)
(* lunr.TokenSet: the minimal automaton of the words of a search index,    *)
(* built a word at a time in sorted order, and the token sets of a query   *)
(* (a word, a word with wildcards, a word and what is within some edits of *)
(* it) it is intersected with.                                             *)
(*                                                                         *)
(* A character is a string of length one, a word a sequence of characters. *)
(***************************************************************************)
EXTENDS Integers, SequencesExt

CONSTANTS
  Characters,   \* all characters, in the order in which words are sorted
  Digits        \* the digits of a number that is part of a key: ten in the code

Rank(c) == CHOOSE i \in DOMAIN Characters : Characters[i] = c

CommonPrefix(u, v) ==
  LET shorter == Min({Len(u), Len(v)})
  IN CHOOSE n \in 0 .. shorter :
       /\ \A i \in 1 .. n : u[i] = v[i]
       /\ n = shorter \/ u[n + 1] # v[n + 1]

(* The order of JavaScript's strings.                                      *)
Before(u, v) ==
  LET n == CommonPrefix(u, v)
  IN n < Len(v) /\ (n = Len(u) \/ Rank(u[n + 1]) < Rank(v[n + 1]))

Sorted(words) == SetToSortSeq(words, Before)

-----------------------------------------------------------------------------
(* A token set under construction: its nodes by id, counted from one, the  *)
(* last word, the path to it as far as it has not been compared with other *)
(* nodes, and the nodes that have, by their keys.  Node 1 is the root.     *)

NewNode == [final |-> FALSE, edges |-> <<>>]

NewBuilder ==
  [nodes |-> <<NewNode>>, previousWord |-> <<>>, uncheckedNodes |-> <<>>,
   minimizedNodes |-> <<>>]

RECURSIVE Numeral(_)
Numeral(n) ==
  IF n < Len(Digits) THEN <<Digits[n + 1]>>
  ELSE Append(Numeral(n \div Len(Digits)), Digits[(n % Len(Digits)) + 1])

(* Mutant: finality is not part of the key. *)
MutantKey(n) ==
  FoldLeft(LAMBDA key, label : key \o <<label>> \o Numeral(n.edges[label]),
           <<>>, SetToSortSeq(DOMAIN n.edges, LAMBDA c, d : Rank(c) < Rank(d)))

(* TokenSet.toString: whether the node is final, then each edge's label    *)
(* and the id it leads to, all written one after the other.                *)
Key(n) ==
  FoldLeft(LAMBDA key, label : key \o <<label>> \o Numeral(n.edges[label]),
           <<IF n.final THEN "1" ELSE "0">>,
           SetToSortSeq(DOMAIN n.edges, LAMBDA c, d : Rank(c) < Rank(d)))

(* Compares the nodes of the path beyond "downTo" with those seen before,  *)
(* the last one first; one that is there already takes the node's place.   *)
RECURSIVE Minimize(_, _)
Minimize(b, downTo) ==
  IF Len(b.uncheckedNodes) <= downTo THEN b
  ELSE LET node == Last(b.uncheckedNodes)
           key  == Key(b.nodes[node.child])
           rest == [b EXCEPT !.uncheckedNodes = Front(@)]
       IN Minimize(IF key \in DOMAIN b.minimizedNodes
                   THEN [rest EXCEPT !.nodes[node.parent].edges[node.char] =
                                        b.minimizedNodes[key]]
                   ELSE [rest EXCEPT !.minimizedNodes = (key :> node.child) @@ @],
                   downTo)

(* Builder.insert and Builder.finish.  The error for a word that comes     *)
(* before the last one is the guard Before(word, previousWord) of a caller.*)
Insert(builder, word) ==
  LET common == CommonPrefix(word, builder.previousWord)
      b      == Minimize(builder, common)
      parent == IF b.uncheckedNodes = <<>> THEN 1 ELSE Last(b.uncheckedNodes).child
      more   == Len(word) - common
      id(i)  == IF i = 0 THEN parent ELSE Len(b.nodes) + i
      linked(n, i) ==
        IF i = more THEN [n EXCEPT !.final = TRUE]
        ELSE [n EXCEPT !.edges = (word[common + i + 1] :> id(i + 1)) @@ @]
  IN [b EXCEPT
        !.nodes = [@ EXCEPT ![parent] = linked(@, 0)]
                    \o [i \in 1 .. more |-> linked(NewNode, i)],
        !.uncheckedNodes = @ \o [i \in 1 .. more |->
          [parent |-> id(i - 1), char |-> word[common + i], child |-> id(i)]],
        !.previousWord = word]

(* Mutant: the last node of the path is left alone. *)
MutantFinish(b) == Minimize(b, 1)

Finish(b) == Minimize(b, 0)

(* TokenSet.toArray, of a token set without loops.                         *)
RECURSIVE WordsFrom(_, _)
WordsFrom(nodes, n) ==
  UNION {{<<c>> \o w : w \in WordsFrom(nodes, nodes[n].edges[c])} :
           c \in DOMAIN nodes[n].edges}
    \cup (IF nodes[n].final THEN {<<>>} ELSE {})

-----------------------------------------------------------------------------
(* Token sets of a query: a root, the edges of each node, the final nodes. *)

(* fromString.  Node i has read the string up to and with its i-th         *)
(* character that is no wildcard; a wildcard is an edge "*" of the node it *)
(* is met at to that node, and every later node has one to the root.       *)
FromString(str) ==
  LET plain(i) == Len(SelectSeq(SubSeq(str, 1, i), LAMBDA c : c # "*"))
      last == plain(Len(str))
      char(n) == {i \in DOMAIN str : str[i] # "*" /\ plain(i) = n}
      wild(n) == \E i \in DOMAIN str : str[i] = "*" /\ plain(i) = n
      late(n) == \E m \in 0 .. n - 1 : wild(m)
      edges(n) ==
        (IF n < last THEN (str[CHOOSE i \in char(n + 1) : TRUE] :> n + 1) ELSE <<>>)
          @@ (IF wild(n) THEN ("*" :> n) ELSE <<>>)
          @@ (IF late(n) THEN ("*" :> 0) ELSE <<>>)
  IN [root |-> 0, edges |-> [n \in 0 .. last |-> edges(n)],
      final |-> IF str = <<>> THEN {} ELSE {last}]

(* fromFuzzyString builds a tree, depth first; these are the words that    *)
(* lead to its final nodes from a frame with "str" left to read and        *)
(* "edits" to spend.  "*" stands for any character.                        *)
RECURSIVE Edited(_, _)
Edited(str, edits) ==
  LET from(c, rest, left) == {<<c>> \o w : w \in Edited(rest, left)}
      \* a frame whose string is used up is not pushed: the node is final
      after(c, rest, left) == IF rest = <<>> THEN {<<c>>} ELSE from(c, rest, left)
      noEdit == IF str = <<>> THEN {} ELSE after(str[1], Tail(str), edits)
      deletion == IF Len(str) > 1 THEN after(str[2], Tail(Tail(str)), edits - 1)
                  ELSE IF Len(str) = 1 THEN {<<>>} ELSE {}
      substitution == IF str = <<>> THEN {} ELSE after("*", Tail(str), edits - 1)
      insertion == after("*", str, edits - 1)
      transposition ==
        IF Len(str) > 1 THEN from(str[2], <<str[1]>> \o Tail(Tail(str)), edits - 1)
        ELSE {}
  IN noEdit \cup (IF edits = 0 THEN {}
                  ELSE deletion \cup substitution \cup insertion \cup transposition)

FromFuzzyString(str, editDistance) ==
  LET words == Edited(str, editDistance)
      nodes == UNION {{SubSeq(w, 1, n) : n \in 0 .. Len(w)} : w \in words}
      labels(n) == {w[Len(n) + 1] : w \in {u \in words : Len(u) > Len(n) /\ SubSeq(u, 1, Len(n)) = n}}
  IN [root |-> <<>>, final |-> words,
      edges |-> [n \in nodes |-> [c \in labels(n) |-> Append(n, c)]]]

(* The words of intersect: those both sets take from the two nodes on, but *)
(* for the empty one, since the new root is never made final.              *)
RECURSIVE WordsOfBoth(_, _, _, _)
WordsOfBoth(nodes, n, query, q) ==
  LET both(c, qc) ==
        LET next  == nodes[n].edges[c]
            qNext == query.edges[q][qc]
        IN (IF nodes[next].final /\ qNext \in query.final THEN {<<c>>} ELSE {})
             \cup {<<c>> \o w : w \in WordsOfBoth(nodes, next, query, qNext)}
  IN UNION {UNION {both(c, qc) : qc \in {c, "*"} \cap DOMAIN query.edges[q]}
              : c \in DOMAIN nodes[n].edges}

Intersect(nodes, query) == WordsOfBoth(nodes, 1, query, query.root)
=============================================================================
