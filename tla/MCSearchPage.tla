----------------------------- MODULE MCSearchPage -----------------------------
(***************************************************************************)
(* A small instance of SearchPage: three pages of hits, one, none; a query *)
(* that is refused and one that is too short.                              *)
(***************************************************************************)
EXTENDS SearchPage

CONSTANTS wide, narrow, empty, refused, short, a, b, c

HitValues == {a, b, c}

Queries == {wide, narrow, empty, refused, short}
LongQueries == Queries \ {short}
RefusedQueries == {refused}
HitsOf ==
  [q \in Queries |-> CASE q = wide -> <<a, b, c, a, b>> [] q \in {narrow, short} -> <<b, a>> [] OTHER -> <<>>]
=============================================================================
