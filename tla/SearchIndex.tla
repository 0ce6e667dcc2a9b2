----------------------------- MODULE SearchIndex ------------------------------
(***************************************************************************)
(* The search index of the documentation site: lunr.Builder takes the      *)
(* documents one by one and builds an inverted index, a vector for each    *)
(* field of each document and the token set of all terms; lunr.Index runs  *)
(* the clauses of a query against them.  The calls are those of            *)
(* search-worker.js.                                                       *)
(*                                                                         *)
(* What the scores are made of besides term frequency (inverse document    *)
(* frequency, field length, the division by the magnitudes) is left out,   *)
(* and with it the order of the results: they are a function of the        *)
(* documents.                                                              *)
(***************************************************************************)
EXTENDS QueryText

CONSTANTS
  TokenSeparator,   \* characters that end a token of a document
  EnglishStopWords, \* of lunr.stopWordFilter
  StopWords,        \* of search-stopwords.json
  Session           \* what is indexed (docs) and asked (queries) together

VARIABLES
  session,
  added,                 \* documents added so far: documentCount
  pipeline, searchPipeline,
  termIndex,             \* of the next new term
  invertedIndex,         \* term -> its index and, for each field, documents
  fieldTermFrequencies,  \* field and document -> the terms and their counts
  phase,                 \* of the builder
  fieldVectors,
  tokenSet,              \* TokenSet.Builder
  pending,               \* terms not in the token set yet
  clauseIdx,             \* clauses that have been run
  matchingFields,        \* field and document -> terms found
  queryVectors,          \* field -> vector
  results                \* document -> score and the terms and fields found

indexVars == <<session, added, pipeline, searchPipeline, termIndex, invertedIndex,
               fieldTermFrequencies, phase, fieldVectors, tokenSet, pending>>
resultVars == <<clauseIdx, matchingFields, queryVectors, results>>
vars == <<indexVars, queryVars, resultVars>>

-----------------------------------------------------------------------------
(* Text to terms.                                                          *)

(* lunr.tokenizer: the runs of other characters than separators.           *)
Tokenizer(str) ==
  LET starts == SetToSortSeq({i \in DOMAIN str :
                  str[i] \notin TokenSeparator /\ (i = 1 \/ str[i - 1] \in TokenSeparator)}, <)
      end(i) == CHOOSE e \in i .. Len(str) :
                  /\ \A j \in i .. e : str[j] \notin TokenSeparator
                  /\ e = Len(str) \/ str[e + 1] \in TokenSeparator
  IN [k \in DOMAIN starts |-> ToLowerCase(SubSeq(str, starts[k], end(starts[k])))]

WordCharacter == Range(Digits) \cup {"a", "b", "s", "A"}

Trim(word) ==
  LET inside == {i \in DOMAIN word : word[i] \in WordCharacter}
  IN IF inside = {} THEN <<>> ELSE SubSeq(word, Min(inside), Max(inside))

(* porterStemmer over the characters of this model: words of one or two    *)
(* stay, of the suffixes only a plural s that does not follow another s    *)
(* (step 1a) can be formed.                                                *)
Stem(word) ==
  IF Len(word) >= 3 /\ Last(word) = "s" /\ word[Len(word) - 1] # "s"
  THEN Front(word) ELSE word

(* A function of a pipeline changes tokens or drops some (stop words).     *)
Changed(fn, word) ==
  CASE fn = "trimmer" -> Trim(word) [] fn = "stemmer" -> Stem(word) [] OTHER -> word

Dropped(fn) ==
  CASE fn = "stopWordFilter" -> EnglishStopWords
    [] fn = "docfxStopWordFilter" -> StopWords
    [] OTHER -> {}

(* Pipeline.run.                                                           *)
Run(stack, tokens) ==
  FoldLeft(LAMBDA ts, fn : SelectSeq([i \in DOMAIN ts |-> Changed(fn, ts[i])],
                                     LAMBDA t : t \notin Dropped(fn)),
           tokens, stack)

-----------------------------------------------------------------------------
(* lunr.Vector: pairs of an index and a value.                             *)

RECURSIVE PivotPoint(_, _, _, _)
PivotPoint(v, index, from, to) ==
  LET pivot == from + (to - from) \div 2
  IN CASE to - from <= 1 \/ v[pivot + 1][1] = index -> pivot
       [] OTHER -> IF v[pivot + 1][1] < index THEN PivotPoint(v, index, pivot, to)
                                              ELSE PivotPoint(v, index, from, pivot)

(* Mutant: always behind the pivot. *)
MutantPositionForIndex(v, index) ==
  IF v = <<>> THEN 0 ELSE PivotPoint(v, index, 0, Len(v)) + 1

PositionForIndex(v, index) ==
  IF v = <<>> THEN 0
  ELSE LET pivot == PivotPoint(v, index, 0, Len(v))
       IN IF v[pivot + 1][1] >= index THEN pivot ELSE pivot + 1

(* Mutant: a value that is there already is replaced. *)
MutantUpsert(v, index, value) ==
  LET at == PositionForIndex(v, index) + 1
  IN IF at \in DOMAIN v /\ v[at][1] = index
     THEN [v EXCEPT ![at][2] = value]
     ELSE InsertAt(v, at, <<index, value>>)

(* insert: a duplicate index, which throws in the code, would stay in the  *)
(* vector as one.                                                          *)
Insertion(v, index, value) == InsertAt(v, PositionForIndex(v, index) + 1, <<index, value>>)

(* upsert with addition, the function query() passes.                      *)
Upsert(v, index, value) ==
  LET at == PositionForIndex(v, index) + 1
  IN IF at \in DOMAIN v /\ v[at][1] = index
     THEN [v EXCEPT ![at][2] = @ + value]
     ELSE InsertAt(v, at, <<index, value>>)

RECURSIVE Dot(_, _)
Dot(a, b) ==
  CASE a = <<>> \/ b = <<>> -> 0
    [] OTHER -> IF a[1][1] < b[1][1] THEN Dot(Tail(a), b)
                ELSE IF a[1][1] > b[1][1] THEN Dot(a, Tail(b))
                ELSE a[1][2] * b[1][2] + Dot(Tail(a), Tail(b))

-----------------------------------------------------------------------------
(* The builder.                                                            *)

(* The counts of a field's terms, in the order of their first occurrence.  *)
Count(counts, term) ==
  LET at == SelectInSeq(counts, LAMBDA c : c.term = term)
  IN IF at = 0 THEN Append(counts, [term |-> term, tf |-> 1])
     ELSE [counts EXCEPT ![at].tf = @ + 1]

(* Object.keys of the counts: terms that are integers (here all shorter    *)
(* than 2^32) come first, in numeric order, the others as they were met.   *)
IsInteger(term) ==
  /\ term # <<>> /\ Range(term) \subseteq Range(Digits)
  /\ Head(term) # Head(Digits) \/ Len(term) = 1

Enumerated(counts) ==
  SortSeq(SelectSeq(counts, LAMBDA c : IsInteger(c.term)),
          LAMBDA c, d : ParseInt(c.term) < ParseInt(d.term))
    \o SelectSeq(counts, LAMBDA c : ~IsInteger(c.term))

NewPosting(index) == [index |-> index, docs |-> [f \in Range(Fields) |-> {}]]

(* Mutant: the term index is not counted up. *)
MutantPosted(entry, field, ref, term) ==
  LET posting == IF term \in DOMAIN entry.index THEN entry.index[term]
                 ELSE NewPosting(entry.next)
  IN [index |-> (term :> [posting EXCEPT !.docs[field] = @ \cup {ref}]) @@ entry.index,
      next |-> entry.next]

(* The inverted index and the next term index after a term of a field.     *)
Posted(entry, field, ref, term) ==
  LET new     == term \notin DOMAIN entry.index
      posting == IF new THEN NewPosting(entry.next) ELSE entry.index[term]
  IN [index |-> (term :> [posting EXCEPT !.docs[field] = @ \cup {ref}]) @@ entry.index,
      next |-> entry.next + (IF new THEN 1 ELSE 0)]

(* Builder.add, for the next document.                                     *)
Add ==
  /\ phase = "adding"
  /\ added < Len(session.docs)
  /\ LET doc == session.docs[added + 1]
         terms(f) == Run(pipeline, Tokenizer(doc.content[f]))
         field(entry, f) == FoldLeft(LAMBDA e, t : Posted(e, f, doc.ref, t), entry, terms(f))
         entry == FoldLeft(field, [index |-> invertedIndex, next |-> termIndex], Fields)
     IN /\ invertedIndex' = entry.index
        /\ termIndex' = entry.next
        /\ fieldTermFrequencies' =
             [r \in {<<f, doc.ref>> : f \in Range(Fields)} |->
                FoldLeft(Count, <<>>, terms(r[1]))] @@ fieldTermFrequencies
  /\ added' = added + 1
  /\ UNCHANGED <<session, pipeline, searchPipeline, phase, fieldVectors, tokenSet, pending,
                 queryVars, resultVars>>

(* The stop words come last: the pipeline is not run again.                *)
AddStopWordFilter ==
  /\ phase = "adding"
  /\ added = Len(session.docs)
  /\ pipeline' = Append(pipeline, "docfxStopWordFilter")
  /\ searchPipeline' = Append(searchPipeline, "docfxStopWordFilter")
  /\ phase' = "configured"
  /\ UNCHANGED <<session, added, termIndex, invertedIndex, fieldTermFrequencies, fieldVectors,
                 tokenSet, pending, queryVars, resultVars>>

(* Builder.build: the vectors, and what the token set is made of.          *)
Build ==
  /\ phase = "configured"
  /\ fieldVectors' =
       [r \in DOMAIN fieldTermFrequencies |->
          FoldLeft(LAMBDA v, c : Insertion(v, invertedIndex[c.term].index, c.tf),
                   <<>>, Enumerated(fieldTermFrequencies[r]))]
  /\ tokenSet' = NewBuilder
  /\ pending' = Sorted(DOMAIN invertedIndex)
  /\ phase' = "inserting"
  /\ UNCHANGED <<session, added, pipeline, searchPipeline, termIndex, invertedIndex,
                 fieldTermFrequencies, queryVars, resultVars>>

(* A round of TokenSet.fromArray.                                          *)
InsertTerm ==
  /\ phase = "inserting" /\ pending # <<>>
  /\ ~Before(Head(pending), tokenSet.previousWord)
  /\ tokenSet' = Insert(tokenSet, Head(pending))
  /\ pending' = Tail(pending)
  /\ UNCHANGED <<session, added, pipeline, searchPipeline, termIndex, invertedIndex,
                 fieldTermFrequencies, phase, fieldVectors, queryVars, resultVars>>

FinishTokenSet ==
  /\ phase = "inserting" /\ pending = <<>>
  /\ tokenSet' = Finish(tokenSet)
  /\ phase' = "ready"
  /\ UNCHANGED <<session, added, pipeline, searchPipeline, termIndex, invertedIndex,
                 fieldTermFrequencies, fieldVectors, pending, queryVars, resultVars>>

-----------------------------------------------------------------------------
(* Index.search and Index.query.                                           *)

NoResult ==
  /\ clauseIdx = 0
  /\ matchingFields = <<>> /\ queryVectors = <<>> /\ results = <<>>

(* The terms of the index that a clause's term stands for.                 *)
Expanded(clause, term) ==
  Intersect(tokenSet.nodes, IF clause.editDistance = Unset THEN FromString(term)
                            ELSE FromFuzzyString(term, clause.editDistance))

Search(str) ==
  /\ phase = "ready"
  /\ StartParsing(str)
  /\ UNCHANGED <<indexVars, resultVars>>

(* Query vectors with a term's index in the fields of a clause, matching   *)
(* fields with the term.                                                   *)
Weighed(vectors, clause, term) ==
  [f \in DOMAIN vectors \cup Range(clause.fields) |->
     LET v == IF f \in DOMAIN vectors THEN vectors[f] ELSE <<>>
     IN IF Contains(clause.fields, f) THEN Upsert(v, invertedIndex[term].index, clause.boost)
                                      ELSE v]

(* Mutant: a document's match data are those of its last term. *)
MutantMatched(fields, clause, term) ==
  [r \in {<<f, ref>> \in Range(clause.fields) \X {d.ref : d \in Range(session.docs)} :
            ref \in invertedIndex[term].docs[f]} |-> {<<term, r[1]>>}] @@ fields

Matched(fields, clause, term) ==
  LET found == {<<f, ref>> : f \in Range(clause.fields), ref \in
                  UNION {invertedIndex[term].docs[g] : g \in Range(clause.fields)}}
      hits == {r \in found : r[2] \in invertedIndex[term].docs[r[1]]}
  IN [r \in DOMAIN fields \cup hits |->
        (IF r \in DOMAIN fields THEN fields[r] ELSE {})
          \cup (IF r \in hits THEN {<<term, r[1]>>} ELSE {})]

(* A round of query()'s loop over the clauses.                             *)
RunClause ==
  /\ state = "query" /\ clauseIdx < Len(clauses)
  /\ LET clause   == clauses[clauseIdx + 1]
         terms    == IF clause.usePipeline THEN Run(searchPipeline, <<clause.term>>)
                                           ELSE <<clause.term>>
         expanded == SetToSeq(UNION {Expanded(clause, t) : t \in Range(terms)})
     IN /\ queryVectors' = FoldLeft(LAMBDA v, t : Weighed(v, clause, t), queryVectors, expanded)
        /\ matchingFields' = FoldLeft(LAMBDA m, t : Matched(m, clause, t), matchingFields, expanded)
  /\ clauseIdx' = clauseIdx + 1
  /\ UNCHANGED <<indexVars, queryVars, results>>

(* query(), from the matching fields to the results.                       *)
Score ==
  /\ state = "query" /\ clauseIdx = Len(clauses)
  /\ results' =
       [d \in {r[2] : r \in DOMAIN matchingFields} |->
          LET fields == {r \in DOMAIN matchingFields : r[2] = d}
          IN [score |-> MapThenSumSet(LAMBDA r : Dot(queryVectors[r[1]], fieldVectors[r]), fields),
              matchData |-> UNION {matchingFields[r] : r \in fields}]]
  /\ state' = "done"
  /\ UNCHANGED <<indexVars, text, lexVars, parseVars, clauseIdx, matchingFields, queryVectors>>

(* search returns, or throws the parser's error.                           *)
Return ==
  /\ state \in {"done", "failed"}
  /\ DropQuery
  /\ clauseIdx' = 0
  /\ matchingFields' = <<>> /\ queryVectors' = <<>> /\ results' = <<>>
  /\ UNCHANGED indexVars

-----------------------------------------------------------------------------
Init ==
  /\ session \in Session
  /\ added = 0
  /\ pipeline = Remove(<<"trimmer", "stopWordFilter", "stemmer">>, "stopWordFilter")
  /\ searchPipeline = <<"stemmer">>
  /\ termIndex = 0 /\ invertedIndex = <<>> /\ fieldTermFrequencies = <<>>
  /\ phase = "adding"
  /\ fieldVectors = <<>> /\ tokenSet = NewBuilder /\ pending = <<>>
  /\ NoQuery /\ NoResult

(* Parsing leaves the index and the results alone.                         *)
Next ==
  \/ Add \/ AddStopWordFilter \/ Build \/ InsertTerm \/ FinishTokenSet
  \/ \E str \in session.queries : Search(str)
  \/ (Lex \/ Parse) /\ UNCHANGED <<indexVars, resultVars>>
  \/ RunClause \/ Score \/ Return

Spec == Init /\ [][Next]_vars

-----------------------------------------------------------------------------
Reached == DOMAIN invertedIndex \ Range(pending)

TypeOK ==
  /\ phase \in {"adding", "configured", "inserting", "ready"}
  /\ added \in 0 .. Len(session.docs)
  /\ termIndex = Cardinality(DOMAIN invertedIndex)
  /\ DOMAIN fieldTermFrequencies = {<<f, session.docs[i].ref>> : f \in Range(Fields), i \in 1 .. added}
  /\ pos \in 0 .. Len(text) + 1 /\ start \in 0 .. pos
  /\ escapes \subseteq start .. pos - 1
  /\ lexemeIdx \in 0 .. Len(lexemes)
  /\ clauseIdx \in 0 .. Len(clauses)

(* At every step of its construction the token set holds exactly the terms *)
(* that were put in: sharing nodes by their keys (Builder.minimize) merges *)
(* no two that lead to different words.  With 212 nodes and more it can,   *)
(* if terms have digits.                                                   *)
TokenSetExact ==
  phase \in {"inserting", "ready"} /\ state = "idle" =>
    WordsFrom(tokenSet.nodes, 1) = Reached

RECURSIVE NodesFrom(_, _)
NodesFrom(nodes, n) ==
  {n} \cup UNION {NodesFrom(nodes, nodes[n].edges[c]) : c \in DOMAIN nodes[n].edges}

(* Once finished, the token set is the smallest one: no two nodes that can *)
(* be reached lead to the same words (what Builder.minimize is there for). *)
TokenSetMinimal ==
  phase = "ready" /\ state = "idle" =>
    LET reachable == NodesFrom(tokenSet.nodes, 1)
    IN Cardinality({WordsFrom(tokenSet.nodes, n) : n \in reachable}) = Cardinality(reachable)

(* The binary search of an insertion and the merge of the dot product need *)
(* ascending vectors without duplicates, whatever the order in which terms *)
(* are met (Vector.upsert).                                                *)
VectorsAscend ==
  \A v \in Range(fieldVectors) \cup Range(queryVectors) :
    \A i \in 1 .. Len(v) - 1 : v[i][1] < v[i + 1][1]

(* What a wildcard stands for: any run of characters, the empty one too    *)
(* (FromString: a node with an edge to itself).  The description of the    *)
(* query language, lunr.js:1677, says "one or more": by it a* would not    *)
(* find the term a, which the code finds.                                  *)
RECURSIVE Glob(_, _)
Glob(pattern, word) ==
  CASE pattern = <<>> -> word = <<>>
    [] pattern # <<>> /\ Head(pattern) = "*" ->
         Glob(Tail(pattern), word) \/ (word # <<>> /\ Glob(pattern, Tail(word)))
    [] OTHER -> word # <<>> /\ Head(word) = Head(pattern) /\ Glob(Tail(pattern), Tail(word))

Fits(pattern, word) ==
  Len(pattern) = Len(word) /\ \A i \in DOMAIN word : pattern[i] \in {word[i], "*"}

(* One insertion, deletion, substitution or transposition; the insertions  *)
(* at the places given.                                                    *)
Edits(str, places) ==
  {str} \cup {RemoveAt(str, i) : i \in DOMAIN str}
        \cup {ReplaceAt(str, i, "*") : i \in DOMAIN str}
        \cup {InsertAt(str, i, "*") : i \in places}
        \cup {[str EXCEPT ![i] = str[i + 1], ![i + 1] = str[i]] : i \in 1 .. Len(str) - 1}

(* What fromFuzzyString finds with one edit: not an insertion at the end,  *)
(* though lunr.js:1216 counts every insertion as an edit distance of 1.    *)
OneEdit(str) == Edits(str, 1 .. Max({1, Len(str)}))

TwoEdits(str) ==
  UNION {Edits(s, 1 .. Len(s) + 1) : s \in Edits(str, 1 .. Len(str) + 1)}

(* The words a clause must and may find.                                   *)
Asked(clause, word, least) ==
  LET term == IF clause.usePipeline THEN Stem(clause.term) ELSE clause.term
      edits == clause.editDistance
  IN /\ word # <<>>
     /\ clause.usePipeline => term \notin StopWords
     /\ CASE edits = Unset -> Glob(term, word)
          [] edits = 0 -> Fits(term, word)
          [] edits = 1 \/ (edits = 2 /\ least) -> \E p \in OneEdit(term) : Fits(p, word)
          [] OTHER -> \E p \in TwoEdits(term) : Fits(p, word)

Occurrence ==
  UNION {{<<d.ref, Stem(Trim(w)), f>> : w \in Range(Tokenizer(d.content[f]))} :
           d \in Range(session.docs), f \in Range(Fields)}

Wanted(least) ==
  {o \in Occurrence : \E c \in Range(clauses) :
     Contains(c.fields, o[3]) /\ Asked(c, o[2], least)}

(* A query finds every occurrence of what it asks for, in the fields it    *)
(* asks for, and nothing else: tokenizer, pipelines, inverted index, token *)
(* set, intersection and match data agree with what wildcards and edits    *)
(* mean.  What they mean is what the code makes of them (see Glob and      *)
(* OneEdit for where the comments of lunr.js say otherwise), what the      *)
(* terms of a query are is decided by its own separators (see              *)
(* FoundByItsText).  With two edits, at least what one edit reaches is     *)
(* found and at most what two reach.                                       *)
FindsWhatIsAsked ==
  state = "done" =>
    LET found == UNION {{<<d, m[1], m[2]>> : m \in results[d].matchData} : d \in DOMAIN results}
    IN Wanted(TRUE) \subseteq found /\ found \subseteq Wanted(FALSE)

(* A document is found by its own text: whoever asks for the words of a    *)
(* field as they stand there, without a character that means something in  *)
(* a query, gets the document, if one of its terms is no stop word         *)
(* (lunr.js:2636-2638 wants the separators of queries to match those of    *)
(* documents; search-worker.js:9 changes the latter only).                 *)
FoundByItsText ==
  state = "done" /\ Range(text) \cap {"*", "~", "^", ":", "\\"} = {} =>
    \A o \in Occurrence :
      /\ o[2] \notin StopWords \cup {<<>>}
      /\ \E d \in Range(session.docs) : d.ref = o[1] /\ d.content[o[3]] = text
      => o[1] \in DOMAIN results

(* The score of a document is the sum, over the occurrences found, of the  *)
(* term's count and the boosts of the clauses that ask for it: the indexes *)
(* in the postings, in the vectors of the fields and in those of the query *)
(* name the same terms.                                                    *)
ScoresAddUp ==
  state = "done" /\ (\A c \in Range(clauses) : c.editDistance # 2) =>
    \A d \in DOMAIN results :
      results[d].score =
        MapThenSumSet(
          LAMBDA m :
            MapThenSumSet(LAMBDA i : IF Contains(clauses[i].fields, m[2]) /\ Asked(clauses[i], m[1], TRUE)
                                     THEN clauses[i].boost ELSE 0, DOMAIN clauses)
            * LET content == session.docs[CHOOSE i \in DOMAIN session.docs :
                                            session.docs[i].ref = d].content[m[2]]
                  tokens == Tokenizer(content)
              IN Cardinality({i \in DOMAIN tokens : Stem(Trim(tokens[i])) = m[1]}),
          results[d].matchData)
=============================================================================
