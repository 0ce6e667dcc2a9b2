---------------------------- MODULE MCSearchIndex -----------------------------
(***************************************************************************)
(* Small instances of SearchIndex.                                         *)
(***************************************************************************)
EXTENDS SearchIndex

(* The characters of a string.                                             *)
Chars(str) == [i \in 1 .. Len(str) |-> SubSeq(str, i, i)]

AllCharacters == Chars(" *-.0123456789:A\\^abs~")
Decimal == Chars("0123456789")
TwoFields == <<<<"a">>, <<"b">>>>
QuerySeparators == {" ", "-"}
DocumentSeparators == {" ", "-", "."}
English == {<<"b">>}
Docfx == {<<"a", "b">>, <<"s">>}

Document(ref, first, second) ==
  [ref |-> ref, content |-> (<<"a">> :> first) @@ (<<"b">> :> second)]

(* Every set of up to four of the words of one to three characters, a      *)
(* letter or a digit, as the text of one field.                            *)
Words == BoundedSeq({"a", "1"}, 3) \ {<<>>}
Spaced(words) == FoldLeft(LAMBDA str, w : str \o w \o <<" ">>, <<>>, SetToSeq(words))
WordSessions ==
  {[docs |-> <<Document("d", Spaced(W), <<>>)>>,
    queries |-> {Chars("a1*"), Chars("*1a"), Chars("a*1"), Chars("1a1~1")}] :
     W \in UNION {kSubset(n, Words) : n \in 0 .. 4}}

(* Every query of up to four characters, together with those that begin    *)
(* with the same two.                                                      *)
Special == {"a", "b", "*", "~", "1", ":", "^", "\\", " "}
Texts(prefix) ==
  {str \in {prefix \o rest : rest \in BoundedSeq(Special, IF Len(prefix) = 2 THEN 2 ELSE 0)} :
     \A i \in 1 .. Len(str) - 2 : SubSeq(str, i, i + 2) # <<"~", "1", "1">>}
QuerySessions ==
  {[docs |-> <<Document("d", Chars("a ab"), Chars("b-a")), Document("e", <<>>, Chars("ba"))>>,
    queries |-> Texts(prefix)] : prefix \in BoundedSeq(Special, 2)}

(* Two documents with two fields of several texts, and queries with fields,*)
(* boosts, plurals, stop words, characters that are trimmed away.          *)
Contents == {<<>>, Chars("s a"), Chars("abs a a"), Chars("as.bA *ab")}
Queries == {Chars("a"), Chars("as"), Chars("ab"), Chars("abs"), Chars("s*"), Chars("a:a b:as"),
            Chars("a^2 a*^3"), Chars("aab~1 a"), Chars("aab~2"), Chars("Ab* -b"), Chars("b:*"), Chars("a*b~1"),
            Chars("as.ba"), Chars("~1")}
DocumentSessions ==
  {[docs |-> <<Document("d", c[1], c[2]), Document("e", c[3], c[4])>>, queries |-> Queries] :
     c \in Contents \X Contents \X Contents \X Contents}

Sessions == WordSessions \cup QuerySessions \cup DocumentSessions

(* Texts whose words are parted in every way, each asked as it stands.     *)
Parted == {Chars("as ba"), Chars("as-ba"), Chars("as.ba")}
SeparatorSessions ==
  {[docs |-> <<Document("d", str, <<>>)>>, queries |-> {str}] : str \in Parted}

(* Terms with digits.  "2" leads to a node with the edges 0 and 1 to node  *)
(* 2, where "0" ends; the last of the longer terms has a node whose only   *)
(* edge, 0, leads to node 212.                                             *)
Longer(head, n, tail) == Chars(head) \o [i \in 1 .. n |-> "a"] \o Chars(tail)
Numbers ==
  {Chars("0"), Longer("11", 50, ""), Longer("1a", 50, ""), Longer("1b", 50, ""),
   Longer("1s", 54, "0ab"), Chars("20"), Chars("21")}
NumberSessions ==
  {[docs |-> <<Document("d", Spaced(Numbers), <<>>)>>, queries |-> {Chars("20")}]}
===============================================================================
