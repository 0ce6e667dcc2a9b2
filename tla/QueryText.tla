------------------------------ MODULE QueryText -------------------------------
(***************************************************************************)
(* lunr.QueryLexer and lunr.QueryParser: the text of a query becomes       *)
(* lexemes, the lexemes become the clauses of a lunr.Query.  Both are      *)
(* loops over state functions; each state function is an action here, and  *)
(* "state" is the one to be called next.  Positions count from zero as in  *)
(* the code.                                                               *)
(***************************************************************************)
EXTENDS TokenSet, TLC

CONSTANTS
  Fields,           \* the fields of the index, in order: allFields of the query
  TermSeparator,    \* characters that end a term of a query
  Unset             \* an attribute of a clause that was not given

VARIABLES
  text,             \* the query
  pos, start,       \* where the lexer is, and where its lexeme began
  escapes,          \* positions of the backslashes since "start"
  lexemes,
  state,            \* the state function that comes next
  lexemeIdx,        \* lexemes the parser has consumed
  currentClause,
  clauses           \* of the query

lexVars == <<pos, start, escapes, lexemes>>
parseVars == <<lexemeIdx, currentClause, clauses>>
queryVars == <<text, lexVars, state, parseVars>>

DigitValue == [c \in Range(Digits) |-> (CHOOSE i \in DOMAIN Digits : Digits[i] = c) - 1]

(* toLowerCase; "A" stands for the letters it changes.                     *)
ToLowerCase(word) == [i \in DOMAIN word |-> IF word[i] = "A" THEN "a" ELSE word[i]]

(* parseInt of a run of digits.                                            *)
ParseInt(digits) ==
  FoldLeft(LAMBDA n, c : n * Len(Digits) + DigitValue[c], 0, digits)

NewClause ==
  [fields |-> Unset, term |-> Unset, boost |-> Unset, editDistance |-> Unset,
   usePipeline |-> Unset]

-----------------------------------------------------------------------------
(* The lexer.                                                              *)

AtEnd == pos >= Len(text)
Char == text[pos + 1]

(* sliceString: what lies between two positions, without the backslashes   *)
(* that escape.                                                            *)
Slice(from, to) ==
  LET kept == SetToSortSeq({i \in from + 1 .. Min({to, Len(text)}) : i - 1 \notin escapes}, <)
  IN [i \in DOMAIN kept |-> text[kept[i]]]

(* emit, with the lexeme's end; ignore, for a lexer at a position.         *)
Emitted(type, end) == Append(lexemes, [type |-> type, str |-> Slice(start, end)])

Emit(type, end) == lexemes' = Emitted(type, end) /\ escapes' = {}

NoEmit == UNCHANGED <<lexemes, escapes>>

(* Mutant: a separator that is ignored is not stepped over. *)
MutantIgnore(from, at) == pos' = at /\ start' = at

Ignore(from, at) ==
  LET p == IF from = at THEN at + 1 ELSE at
  IN pos' = p /\ start' = p

(* The end of the digits that begin at a position.                         *)
DigitRun(from) ==
  CHOOSE e \in from .. Len(text) :
    /\ \A i \in from + 1 .. e : text[i] \in Range(Digits)
    /\ e = Len(text) \/ text[e + 1] \notin Range(Digits)

(* One round of lexText's loop.                                            *)
LexText ==
  /\ state = "lexText"
  /\ UNCHANGED <<text, parseVars>>
  /\ \/ /\ AtEnd
        /\ state' = "lexEOS"
        /\ UNCHANGED lexVars
     \/ /\ ~AtEnd /\ Char = "\\"
        /\ escapes' = escapes \cup {pos}
        /\ pos' = pos + 2
        /\ UNCHANGED <<start, lexemes, state>>
     \/ /\ ~AtEnd /\ Char = ":"
        /\ pos' = pos + 1
        /\ state' = "lexField"
        /\ UNCHANGED <<start, escapes, lexemes>>
     \/ /\ ~AtEnd /\ Char \in {"~", "^"}
        /\ state' = IF Char = "~" THEN "lexEditDistance" ELSE "lexBoost"
        /\ IF pos > start THEN Emit("TERM", pos) /\ start' = pos
                          ELSE NoEmit /\ UNCHANGED start
        /\ UNCHANGED pos
     \/ /\ ~AtEnd /\ Char \in TermSeparator
        /\ pos' = pos + 1
        /\ state' = "lexTerm"
        /\ UNCHANGED <<start, escapes, lexemes>>
     \/ /\ ~AtEnd /\ Char \notin {"\\", ":", "~", "^"} \cup TermSeparator
        /\ pos' = pos + 1
        /\ UNCHANGED <<start, escapes, lexemes, state>>

(* The character before "pos" is the ":".                                  *)
LexField ==
  /\ state = "lexField"
  /\ Emit("FIELD", pos - 1)
  /\ Ignore(pos - 1, pos - 1)
  /\ state' = "lexText"
  /\ UNCHANGED <<text, parseVars>>

(* Mutant: a term of one character is passed over. *)
MutantLexTerm ==
  /\ state = "lexTerm"
  /\ IF pos - start > 2
     THEN Emit("TERM", pos - 1) /\ Ignore(pos - 1, pos - 1)
     ELSE NoEmit /\ Ignore(start, pos)
  /\ state' = IF pos' < Len(text) THEN "lexText" ELSE "parseFieldOrTerm"
  /\ UNCHANGED <<text, parseVars>>

(* The character before "pos" is a separator.                              *)
LexTerm ==
  /\ state = "lexTerm"
  /\ IF pos - start > 1
     THEN Emit("TERM", pos - 1) /\ Ignore(pos - 1, pos - 1)
     ELSE NoEmit /\ Ignore(start, pos)
  /\ state' = IF pos' < Len(text) THEN "lexText" ELSE "parseFieldOrTerm"
  /\ UNCHANGED <<text, parseVars>>

LexNumber(name, type) ==
  /\ state = name
  /\ LET digits == IF start = pos THEN pos + 1 ELSE pos
         end    == DigitRun(digits)
     IN /\ lexemes' = Append(lexemes, [type |-> type, str |-> SubSeq(text, digits + 1, end)])
        /\ escapes' = {}
        /\ pos' = end /\ start' = end
  /\ state' = "lexText"
  /\ UNCHANGED <<text, parseVars>>

LexEditDistance == LexNumber("lexEditDistance", "EDIT_DISTANCE")

LexBoost == LexNumber("lexBoost", "BOOST")

LexEOS ==
  /\ state = "lexEOS"
  /\ IF pos > start THEN Emit("TERM", pos) /\ start' = pos
                    ELSE NoEmit /\ UNCHANGED start
  /\ state' = "parseFieldOrTerm"
  /\ UNCHANGED <<text, pos, parseVars>>

-----------------------------------------------------------------------------
(* The parser.                                                             *)

(* The lexeme "n" places behind the consumed ones, and its type.           *)
TypeAt(n) ==
  IF lexemeIdx + n <= Len(lexemes) THEN lexemes[lexemeIdx + n].type ELSE "none"

Lexeme == lexemes[lexemeIdx + 1]

(* Query.clause: what was not given gets its default.                      *)
WithDefaults(clause) ==
  [clause EXCEPT
     !.fields = IF @ = Unset THEN Fields ELSE @,
     !.boost = IF @ = Unset THEN 1 ELSE @,
     !.usePipeline = IF @ = Unset THEN TRUE ELSE @]

(* Mutant: the clause that follows inherits what this one was given. *)
MutantNextClause(clause) ==
  /\ clauses' = Append(clauses, WithDefaults(clause))
  /\ currentClause' = clause

(* nextClause, for the clause the lexeme has been added to.                *)
NextClause(clause) ==
  /\ clauses' = Append(clauses, WithDefaults(clause))
  /\ currentClause' = NewClause

SameClause(clause) == currentClause' = clause /\ UNCHANGED clauses

(* QueryParseError.                                                        *)
Fail == state' = "failed" /\ UNCHANGED <<currentClause, clauses>>

ParseFieldOrTerm ==
  /\ state = "parseFieldOrTerm"
  /\ state' = CASE TypeAt(1) = "none" -> "query"
                [] TypeAt(1) = "FIELD" -> "parseField"
                [] TypeAt(1) = "TERM" -> "parseTerm"
                [] OTHER -> "failed"
  /\ UNCHANGED <<text, lexVars, parseVars>>

ParseField ==
  /\ state = "parseField"
  /\ lexemeIdx' = lexemeIdx + 1
  /\ IF Contains(Fields, Lexeme.str) /\ TypeAt(2) = "TERM"
     THEN state' = "parseTerm" /\ SameClause([currentClause EXCEPT !.fields = <<Lexeme.str>>])
     ELSE Fail
  /\ UNCHANGED <<text, lexVars>>

(* How parseTerm, parseEditDistance and parseBoost end: by the lexeme      *)
(* behind the one they consume.                                            *)
Continue(clause) ==
  LET next == TypeAt(2)
  IN /\ state' = CASE next = "none" -> "query"
                   [] next = "TERM" -> "parseTerm"
                   [] next = "FIELD" -> "parseField"
                   [] next = "EDIT_DISTANCE" -> "parseEditDistance"
                   [] next = "BOOST" -> "parseBoost"
     /\ IF next \in {"none", "TERM", "FIELD"} THEN NextClause(clause) ELSE SameClause(clause)

ParseTerm ==
  /\ state = "parseTerm"
  /\ lexemeIdx' = lexemeIdx + 1
  /\ Continue([currentClause EXCEPT
                 !.term = ToLowerCase(Lexeme.str),
                 !.usePipeline = IF Contains(Lexeme.str, "*") THEN FALSE ELSE @])
  /\ UNCHANGED <<text, lexVars>>

ParseEditDistance ==
  /\ state = "parseEditDistance"
  /\ lexemeIdx' = lexemeIdx + 1
  /\ IF Lexeme.str = <<>> THEN Fail
     ELSE Continue([currentClause EXCEPT !.editDistance = ParseInt(Lexeme.str)])
  /\ UNCHANGED <<text, lexVars>>

ParseBoost ==
  /\ state = "parseBoost"
  /\ lexemeIdx' = lexemeIdx + 1
  /\ IF Lexeme.str = <<>> THEN Fail
     ELSE Continue([currentClause EXCEPT !.boost = ParseInt(Lexeme.str)])
  /\ UNCHANGED <<text, lexVars>>

-----------------------------------------------------------------------------
NoQuery ==
  /\ text = <<>> /\ pos = 0 /\ start = 0 /\ escapes = {} /\ lexemes = <<>>
  /\ state = "idle"
  /\ lexemeIdx = 0 /\ currentClause = NewClause /\ clauses = <<>>

(* new QueryLexer(str), new QueryParser(str, query), parser.parse().       *)
StartParsing(str) ==
  /\ state = "idle"
  /\ text' = str
  /\ pos' = 0 /\ start' = 0 /\ escapes' = {} /\ lexemes' = <<>>
  /\ state' = "lexText"
  /\ lexemeIdx' = 0 /\ currentClause' = NewClause /\ clauses' = <<>>

(* The parser is dropped with its lexer.                                   *)
DropQuery ==
  /\ text' = <<>> /\ pos' = 0 /\ start' = 0 /\ escapes' = {} /\ lexemes' = <<>>
  /\ state' = "idle"
  /\ lexemeIdx' = 0 /\ currentClause' = NewClause /\ clauses' = <<>>

Lex == LexText \/ LexField \/ LexTerm \/ LexEditDistance \/ LexBoost \/ LexEOS

Parse == ParseFieldOrTerm \/ ParseField \/ ParseTerm \/ ParseEditDistance \/ ParseBoost

Lexing == state \in {"lexText", "lexField", "lexTerm", "lexEditDistance", "lexBoost", "lexEOS"}

(* No character of a query is lost on the way to its lexemes, and none is  *)
(* read twice: once a text is cut up, the letters and wildcards of the     *)
(* lexemes, in order, are those of the text (QueryLexer.run with its       *)
(* backups, ignored characters and escape positions).                      *)
LexemesCoverText ==
  LET plain(str) == SelectSeq(str, LAMBDA c : c \notin
                      {"\\", ":", "~", "^"} \cup TermSeparator \cup Range(Digits))
  IN ~Lexing /\ state # "idle" =>
       plain(FoldLeft(LAMBDA s, l : s \o l.str, <<>>, lexemes)) = plain(text)

(* The lexer never goes round in circles: between two calls of a state     *)
(* function it moves on in the text, and only there, or it goes from       *)
(* lexText to a function that will (its loops end only because ignore      *)
(* steps over what was not consumed).                                      *)
LexerAdvances ==
  [][Lexing => \/ pos' > pos
               \/ state = "lexText" /\ state' # "lexText"
               \/ state # "lexText" /\ (state' = "lexText" => start' > start)
     ]_queryVars

(* The clauses a parser should make of the lexemes: each TERM is one, its  *)
(* field the FIELD just before it, its modifiers those between it and the  *)
(* next TERM or FIELD, the last of a kind counting.                        *)
ClauseOf(i) ==
  LET end == CHOOSE e \in i .. Len(lexemes) :
               /\ \A j \in i + 1 .. e : lexemes[j].type \in {"EDIT_DISTANCE", "BOOST"}
               /\ e = Len(lexemes) \/ lexemes[e + 1].type \in {"TERM", "FIELD"}
      given(type, default) ==
        LET ones == {j \in i + 1 .. end : lexemes[j].type = type}
        IN IF ones = {} THEN default ELSE ParseInt(lexemes[Max(ones)].str)
  IN [fields |-> IF i > 1 /\ lexemes[i - 1].type = "FIELD" THEN <<lexemes[i - 1].str>> ELSE Fields,
      term |-> ToLowerCase(lexemes[i].str),
      boost |-> given("BOOST", 1),
      editDistance |-> given("EDIT_DISTANCE", Unset),
      usePipeline |-> ~Contains(lexemes[i].str, "*")]

(* A query is refused exactly when it says something that has no meaning:  *)
(* a modifier with nothing to modify or no number, a field nobody knows,   *)
(* or one with no term behind it.                                          *)
Meaningless ==
  \E i \in DOMAIN lexemes : LET l == lexemes[i] IN
    \/ l.type \in {"EDIT_DISTANCE", "BOOST"} /\ (i = 1 \/ l.str = <<>>)
    \/ l.type = "FIELD" /\ (~Contains(Fields, l.str) \/ i = Len(lexemes)
                              \/ lexemes[i + 1].type # "TERM")

(* What is parsed is what was written, term by term (the state functions   *)
(* of QueryParser share one unfinished clause, and each decides for itself *)
(* when it is complete).                                                   *)
ClausesFollowLexemes ==
  LET terms == SetToSortSeq({i \in DOMAIN lexemes : lexemes[i].type = "TERM"}, <)
  IN /\ state = "query" => /\ ~Meaningless
                           /\ clauses = [k \in DOMAIN terms |-> ClauseOf(terms[k])]
     /\ state = "failed" => Meaningless
=============================================================================
