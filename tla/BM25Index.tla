------------------------------ MODULE BM25Index ------------------------------
(***************************************************************************)
(* The in-memory lexical index (src/src/dynavec/bm25.py): for each         *)
(* document its terms, and beside them tables of document frequencies,     *)
(* postings, totals, and a cache of inverse document frequencies that a    *)
(* search fills and every change must empty.                               *)
(*                                                                         *)
(* A word is a sequence of parts: "sku-892" is <<"sku", "892">>.  Scores   *)
(* are whole numbers, a share of one rounded up, with k1 = 3/2 and         *)
(* b = 3/4 as by default; the logarithm is given as a table.               *)
(***************************************************************************)
EXTENDS Integers, Sublists, SequencesExt

CONSTANTS
  DocIds,       \* numbers: their order breaks ties
  DocTexts,     \* texts, as sequences of words; <<>> is no text
  Questions,    \* texts searched for
  WordParts, StopWords, \* parts of words; those that are stop words
  Idf,          \* [documents -> [documents with the term -> thousandths]]
  Tags, NoTag,  \* values of the one key of the metadata; NoTag if there is none
  Filters,      \* sets of [op, val, vals]
  NoDoc, NoIdf

ASSUME BM25Assumption ==
  /\ IsFiniteSet(DocIds) /\ DocIds \subseteq Nat
  /\ DocTexts \cup Questions \subseteq Seq(Seq(WordParts) \ {<<>>})
  /\ Tags \subseteq Nat \cup {NoTag} /\ NoTag \notin Nat
  /\ \A c \in UNION Filters :
       /\ c.val \in Nat \cup {NoTag}
       /\ c.op \in {"$gt", "$gte", "$lt", "$lte"} => c.val \in Nat
  /\ NoDoc \notin [tokens : Seq(Seq(WordParts)), tag : Tags]
  /\ \A n \in 1 .. Cardinality(DocIds) : \A f \in 0 .. n : Idf[n][f] \in Nat \ {0}

VARIABLES
  docs,         \* _docs
  frequencies,  \* _doc_freqs
  postings,     \* _inverted_index
  totalDocs, totalLength,
  idfCache,     \* _idf_cache
  ranked        \* ghost: what the last search was for, and its answer

bmvars == <<docs, frequencies, postings, totalDocs, totalLength, idfCache, ranked>>

(* default_tokenize: each word and, if it has several parts, its parts.    *)
Words(text) == Picked(text, {i \in DOMAIN text : Len(text[i]) > 1 \/ text[i][1] \notin StopWords})
Parts(w) ==
  IF Len(w) = 1 THEN <<w>>
  ELSE <<w>> \o Picked([i \in DOMAIN w |-> <<w[i]>>], {i \in DOMAIN w : w[i] \notin StopWords})
Tokens(text) == LET words == Words(text) IN Joined([i \in DOMAIN words |-> Parts(words[i])])
Terms == UNION {ToSet(Tokens(t)) : t \in DocTexts \cup Questions}

(* _matches_filter.  A filter is the set of its conditions: "is" a plain   *)
(* value, or an operator with its value, vals where that has to be a list  *)
(* (empty if it is none).  An operator it does not know is passed over,    *)
(* but $and and $or stand in the place of a key: their list is compared    *)
(* with the metadata of that name, which no document has.                  *)
Rejects(tag, c) ==
  \/ c.op \in {"is", "$eq"} /\ tag # c.val
  \/ c.op = "$ne" /\ tag = c.val
  \/ c.op = "$in" /\ tag \notin c.vals
  \/ c.op = "$nin" /\ tag \in c.vals
  \/ c.op = "$gt" /\ (tag = NoTag \/ tag <= c.val)
  \/ c.op = "$gte" /\ (tag = NoTag \/ tag < c.val)
  \/ c.op = "$lt" /\ (tag = NoTag \/ tag >= c.val)
  \/ c.op = "$lte" /\ (tag = NoTag \/ tag > c.val)
  \/ c.op \in {"$and", "$or"}
MatchesFilter(tag, f) == \A c \in f : ~Rejects(tag, c)

Tables == [docs |-> docs, frequencies |-> frequencies, postings |-> postings,
           totalDocs |-> totalDocs, totalLength |-> totalLength]
SetTables(t) ==
  /\ docs' = t.docs /\ frequencies' = t.frequencies /\ postings' = t.postings
  /\ totalDocs' = t.totalDocs /\ totalLength' = t.totalLength
NothingCached == [t \in Terms |-> NoIdf]

Removed(t, d) ==
  IF t.docs[d] = NoDoc THEN t
  ELSE LET had == ToSet(t.docs[d].tokens) IN
       [docs |-> [t.docs EXCEPT ![d] = NoDoc],
        frequencies |-> [u \in Terms |-> t.frequencies[u] - (IF u \in had THEN 1 ELSE 0)],
        postings |-> [u \in Terms |-> IF u \in had THEN t.postings[u] \ {d} ELSE t.postings[u]],
        totalDocs |-> t.totalDocs - 1,
        totalLength |-> t.totalLength - Len(t.docs[d].tokens)]

Added(t, d, tokens, tag) ==
  LET r == Removed(t, d) IN
  [docs |-> [r.docs EXCEPT ![d] = [tokens |-> tokens, tag |-> tag]],
   frequencies |-> [u \in Terms |-> r.frequencies[u] + (IF u \in ToSet(tokens) THEN 1 ELSE 0)],
   postings |-> [u \in Terms |-> IF u \in ToSet(tokens) THEN r.postings[u] \cup {d} ELSE r.postings[u]],
   totalDocs |-> r.totalDocs + 1,
   totalLength |-> r.totalLength + Len(tokens)]

AddDocument(d, text, tag) ==
  /\ SetTables(Added(Tables, d, Tokens(text), tag))
  /\ idfCache' = NothingCached
  /\ ranked' = NoDoc

(* Mutant: the cached frequencies outlive the document. *)
RemoveDocumentKeepsIdf(d) ==
  /\ docs[d] # NoDoc
  /\ SetTables(Removed(Tables, d))
  /\ ranked' = NoDoc /\ UNCHANGED idfCache
RemoveDocument(d) ==
  /\ docs[d] # NoDoc
  /\ SetTables(Removed(Tables, d))
  /\ idfCache' = NothingCached
  /\ ranked' = NoDoc

ClearIndex ==
  /\ totalDocs > 0
  /\ SetTables([docs |-> [d \in DocIds |-> NoDoc], frequencies |-> [u \in Terms |-> 0],
                postings |-> [u \in Terms |-> {}], totalDocs |-> 0, totalLength |-> 0])
  /\ idfCache' = NothingCached
  /\ ranked' = NoDoc

(* One term's share of a score: idf * tf * (k1 + 1) / (tf + k1 * (1 - b +  *)
(* b * length / average)), over the common denominator 8 * totalLength.    *)
TermScore(idf, tf, length, documents, total) ==
  LET denominator == 8 * tf * total + 3 * total + 9 * length * documents
  IN IF tf = 0 THEN 0 ELSE (idf * (20 * tf * total) + denominator - 1) \div denominator
ScoreOf(tokens, held, idf, documents, total) ==
  LET share == [i \in DOMAIN tokens |->
                  TermScore(idf[tokens[i]], Count(held, tokens[i]), Len(held), documents, total)]
      sum[n \in 0 .. Len(tokens)] == IF n = 0 THEN 0 ELSE sum[n - 1] + share[n]
  IN sum[Len(tokens)]
ByScore(ds, score, k) ==
  LET before(d, e) == score[d] > score[e] \/ (score[d] = score[e] /\ d < e)
      place(d) == Cardinality({e \in ds : before(e, d)}) + 1
  IN [i \in 1 .. (IF Cardinality(ds) < k THEN Cardinality(ds) ELSE k) |->
        LET d == CHOOSE e \in ds : place(e) = i IN [id |-> d, score |-> score[d]]]

(* search: the postings name the candidates, and the score of each takes   *)
(* the cached frequency of a term or computes and caches it.               *)
SearchIndex(q, k, f) ==
  LET tokens == Tokens(q)
      idf == [u \in ToSet(tokens) |->
                IF idfCache[u] # NoIdf THEN idfCache[u] ELSE Idf[totalDocs][frequencies[u]]]
      found == UNION {postings[u] : u \in ToSet(tokens)}
      candidates == {d \in found : MatchesFilter(docs[d].tag, f)}
      score == [d \in candidates |-> ScoreOf(tokens, docs[d].tokens, idf, totalDocs, totalLength)]
      met == {u \in ToSet(tokens) : \E d \in candidates : Count(docs[d].tokens, u) > 0}
  IN /\ totalDocs > 0 /\ tokens # <<>>
     /\ idfCache' = [u \in Terms |-> IF u \in met THEN idf[u] ELSE idfCache[u]]
     /\ ranked' = [q |-> q, k |-> k, f |-> f,
                   hits |-> ByScore({d \in candidates : score[d] > 0}, score, k)]
     /\ UNCHANGED <<docs, frequencies, postings, totalDocs, totalLength>>

BM25Init ==
  /\ docs = [d \in DocIds |-> NoDoc] /\ frequencies = [u \in Terms |-> 0]
  /\ postings = [u \in Terms |-> {}] /\ totalDocs = 0 /\ totalLength = 0
  /\ idfCache = NothingCached /\ ranked = NoDoc

BM25Next ==
  \/ \E d \in DocIds :
       \/ \E text \in DocTexts, tag \in Tags : AddDocument(d, text, tag)
       \/ RemoveDocument(d)
  \/ ClearIndex
  \/ \E q \in Questions, k \in 1 .. 2, f \in Filters : SearchIndex(q, k, f)

BM25Spec == BM25Init /\ [][BM25Next]_bmvars
-----------------------------------------------------------------------------
(* What a filter asks for, to compare with: how the value of a document    *)
(* stands to that of a condition, and which standings each operator takes. *)
Standing(tag, val) ==
  CASE tag = val -> "equal"
    [] tag # val /\ NoTag \in {tag, val} -> "unlike"
    [] tag # val /\ NoTag \notin {tag, val} -> IF tag < val THEN "below" ELSE "above"
Takes ==
  [op \in {"is", "$eq", "$ne", "$gt", "$gte", "$lt", "$lte"} |->
     (IF op \in {"is", "$eq", "$gte", "$lte"} THEN {"equal"} ELSE {})
     \cup (IF op \in {"$ne", "$gt", "$gte"} THEN {"above"} ELSE {})
     \cup (IF op \in {"$ne", "$lt", "$lte"} THEN {"below"} ELSE {})
     \cup (IF op = "$ne" THEN {"unlike"} ELSE {})]
Wanted(c) ==
  CASE c.op \in DOMAIN Takes -> {t \in Tags : Standing(t, c.val) \in Takes[c.op]}
    [] c.op = "$in" -> Tags \cap c.vals
    [] c.op = "$nin" -> Tags \ c.vals
    [] c.op \in {"$and", "$or"} -> {}
    [] OTHER -> Tags
Selected(f) == {t \in Tags : \A c \in f : t \in Wanted(c)}

(* A search answers from its documents alone: whatever was added,          *)
(* overwritten, removed, cleared and searched before, its answer is the    *)
(* ranking by BM25 of the documents that share a term with the question    *)
(* and have the metadata the filter asks for, counted afresh.              *)
LexicalAnswersExact ==
  ranked # NoDoc =>
    LET held == {d \in DocIds : docs[d] # NoDoc}
        tokens(d) == docs[d].tokens
        asked == Tokens(ranked.q)
        idf == [u \in ToSet(asked) |->
                  Idf[Cardinality(held)][Cardinality({d \in held : u \in ToSet(tokens(d))})]]
        total == Cardinality(Places([d \in held |-> tokens(d)]))
        met == {d \in held : /\ ToSet(tokens(d)) \cap ToSet(asked) # {}
                             /\ docs[d].tag \in Selected(ranked.f)}
        score == [d \in met |-> ScoreOf(asked, tokens(d), idf, Cardinality(held), total)]
    IN ranked.hits = ByScore(met, score, ranked.k)
=============================================================================
