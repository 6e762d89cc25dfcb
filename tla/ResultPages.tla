---------------------------- MODULE ResultPages ----------------------------
(***************************************************************************)
(* How the hits of a query reach the caller page by page: query_pages and  *)
(* query of the two S3 Vectors stores, get_many of the two DynamoDB stores *)
(* and, above them, search_stream, asearch_stream and asearch.             *)
(*                                                                         *)
(* The service ranks the matches 1, 2, ...; it cuts them into pages as it  *)
(* likes, and a page names the next one in the member TokenField.  The     *)
(* stores cut the pages again into chunks of the client's page size.  A    *)
(* record is the version of its text, 0 when there is none.                *)
(***************************************************************************)
EXTENDS Naturals, Sequences, FiniteSets

CONSTANTS
  Matches,      \* how many vectors match
  ServicePage,  \* the longest page of the service
  TopKs,        \* the values of top_k asked for
  MaxTopK,      \* _MAX_TOP_K
  PageSizes,    \* page_size, or config.top_k_page_size; NoSize for None
  NoSize,
  KeyLimit,     \* _BATCH_GET_LIMIT
  TokenField,   \* the member of a page that names the next one
  MaxAttempts,  \* of retry and async_retry
  LastText      \* how often the records are rewritten (bound)

ASSUME NoSizeAssumption == NoSize \notin Nat

ASSUME PagesAssumption ==
  /\ Matches \in Nat /\ ServicePage \in Nat /\ LastText \in Nat
  /\ TopKs \subseteq Nat /\ PageSizes \subseteq Nat \cup {NoSize}

Ids == 1 .. Matches

VARIABLES
  stage,     \* "idle", "reading", "hydrating", "done", "raised"
  ask,       \* [kind, topK, size] of the call
  fetched,   \* matches the paginator has returned
  over,      \* the loop over the pages has ended
  buffer,    \* matches not yet yielded
  yielded,   \* matches yielded by query_pages
  found,     \* results of query
  pending,   \* ids get_many is asked for
  got,       \* out of get_many
  attempt,   \* of the decorated call under way
  out,       \* what the caller has received
  text,      \* the records
  seen       \* the texts each record had since the call

rpvars == <<stage, ask, fetched, over, buffer, yielded, found, pending, got, attempt, out, text, seen>>
reading == <<fetched, over, buffer, yielded, found>>
hydrating == <<pending, got>>

NoAnswer == [id \in {} |-> 0]
SmallestOf(S) == CHOOSE x \in S : \A y \in S : x <= y
Limit == SmallestOf({ask.topK, Matches})

ResultPagesInit ==
  /\ stage = "idle"
  /\ ask = [kind |-> "search", topK |-> 0, size |-> NoSize]
  /\ fetched = 0 /\ over = FALSE /\ buffer = << >> /\ yielded = 0 /\ found = << >>
  /\ pending = << >> /\ got = NoAnswer /\ attempt = 0 /\ out = << >>
  /\ text = [d \in Ids |-> 1]
  /\ seen = [d \in Ids |-> {1}]

----------------------------------------------------------------------------
(* The call, and what the stores refuse: no page for a top_k of 0, an      *)
(* error beyond the service's limit or for a page size of 0.               *)
Ask(kind, k, size) ==
  /\ stage = "idle"
  /\ ask' = [kind |-> kind, topK |-> k, size |-> size]
  /\ stage' = IF k = 0 THEN "done"
              ELSE IF k > MaxTopK \/ size = 0 THEN "raised" ELSE "reading"
  /\ seen' = [d \in Ids |-> {text[d]}]
  /\ UNCHANGED <<reading, hydrating, attempt, out, text>>

(* Mutant: what is left in the buffer after the last page is not yielded. *)
ReadyWhole ==
  /\ buffer # << >> /\ yielded < ask.topK
  /\ IF ask.size = NoSize THEN TRUE ELSE Len(buffer) >= ask.size

(* A chunk can be cut from the buffer: a whole one, or the rest at the end. *)
Ready ==
  /\ buffer # << >> /\ yielded < ask.topK
  /\ IF ask.size = NoSize THEN TRUE ELSE Len(buffer) >= ask.size \/ over

Chunk ==
  LET room == {Len(buffer), ask.topK - yielded}
  IN SubSeq(buffer, 1, SmallestOf(IF ask.size = NoSize THEN room ELSE room \cup {ask.size}))

MayFetch == stage = "reading" /\ ~Ready /\ ~over /\ yielded < ask.topK

(* The next page, of n matches; the paginator stops at MaxItems.  A page   *)
(* in which the store finds no token is the last.                          *)
Fetch ==
  /\ MayFetch
  /\ \E n \in 0 .. SmallestOf({ServicePage, Limit - fetched}), token \in BOOLEAN :
       /\ fetched + n < Limit => token
       /\ fetched' = fetched + n
       /\ buffer' = buffer \o [i \in 1 .. n |-> fetched + i]
       /\ over' = ~(token /\ TokenField = "NextToken")
  /\ UNCHANGED <<stage, ask, yielded, found, hydrating, attempt, out, text, seen>>

(* A page could not be read.  query is decorated: it starts over with no   *)
(* results, some times; a stream has no retry, and raises in its middle.   *)
FetchFails ==
  /\ MayFetch
  /\ \/ /\ ask.kind = "search" /\ attempt + 1 < MaxAttempts
        /\ attempt' = attempt + 1
        /\ fetched' = 0 /\ over' = FALSE /\ buffer' = << >> /\ yielded' = 0 /\ found' = << >>
        /\ UNCHANGED stage
     \/ /\ stage' = "raised"
        /\ UNCHANGED <<reading, attempt>>
  /\ UNCHANGED <<ask, hydrating, out, text, seen>>

(* query_pages yields a chunk, which query collects *)
YieldToQuery ==
  /\ stage = "reading" /\ Ready /\ ask.kind = "search"
  /\ buffer' = SubSeq(buffer, Len(Chunk) + 1, Len(buffer))
  /\ yielded' = yielded + Len(Chunk)
  /\ found' = found \o Chunk
  /\ UNCHANGED <<stage, ask, fetched, over, hydrating, attempt, out, text, seen>>

(* and a stream hydrates at once. *)
YieldToStream ==
  /\ stage = "reading" /\ Ready /\ ask.kind = "stream"
  /\ buffer' = SubSeq(buffer, Len(Chunk) + 1, Len(buffer))
  /\ yielded' = yielded + Len(Chunk)
  /\ pending' = Chunk
  /\ stage' = "hydrating"
  /\ UNCHANGED <<ask, fetched, over, found, got, attempt, out, text, seen>>

(* The pages are drained: a search hydrates its results, all at once. *)
Drained ==
  /\ stage = "reading" /\ ~Ready /\ (over \/ yielded >= ask.topK)
  /\ stage' = IF ask.kind = "search" /\ found # << >> THEN "hydrating" ELSE "done"
  /\ pending' = SubSeq(found, 1, SmallestOf({ask.topK, Len(found)}))
  /\ attempt' = 0
  /\ UNCHANGED <<ask, reading, got, out, text, seen>>

----------------------------------------------------------------------------
(* The request of get_many under way: the keys of the current batch that   *)
(* are still unprocessed.                                                  *)
Request ==
  LET left == {i \in DOMAIN pending : pending[i] \notin DOMAIN got}
      start == ((SmallestOf(left) - 1) \div KeyLimit) * KeyLimit
  IN {pending[i] : i \in left \cap (start + 1 .. start + KeyLimit)}

Hydrated == \A i \in DOMAIN pending : pending[i] \in DOMAIN got

(* The service processes some keys and returns the others. *)
Hydrate ==
  /\ stage = "hydrating" /\ ~Hydrated
  /\ \E S \in SUBSET Request \ {{}} :
       got' = [d \in DOMAIN got \cup S |-> IF d \in S THEN text[d] ELSE got[d]]
  /\ UNCHANGED <<stage, ask, reading, pending, attempt, out, text, seen>>

(* get_many is decorated too: it asks for everything again, or raises. *)
HydrateFails ==
  /\ stage = "hydrating" /\ ~Hydrated
  /\ \/ /\ attempt + 1 < MaxAttempts
        /\ attempt' = attempt + 1
        /\ got' = NoAnswer
        /\ UNCHANGED stage
     \/ stage' = "raised" /\ UNCHANGED <<attempt, got>>
  /\ UNCHANGED <<ask, reading, pending, out, text, seen>>

Hits == [i \in DOMAIN pending |-> [id |-> pending[i], text |-> got[pending[i]]]]

(* The hits of a chunk go to the caller, in the order of the service; a    *)
(* match without a record goes without a text.                             *)
HandOver ==
  /\ stage = "hydrating" /\ Hydrated /\ ask.kind = "stream"
  /\ out' = out \o Hits
  /\ stage' = "reading"
  /\ pending' = << >> /\ got' = NoAnswer /\ attempt' = 0
  /\ UNCHANGED <<ask, reading, text, seen>>

(* A search returns all its hits. *)
Answer ==
  /\ stage = "hydrating" /\ Hydrated /\ ask.kind = "search"
  /\ out' = Hits
  /\ stage' = "done"
  /\ pending' = << >> /\ got' = NoAnswer /\ attempt' = 0
  /\ UNCHANGED <<ask, reading, text, seen>>

(* Another client rewrites or deletes a record meanwhile. *)
Rewrite(d) ==
  /\ stage \in {"reading", "hydrating"}
  /\ \A e \in Ids : text[e] < LastText
  /\ \E t \in {0, LastText} :
       /\ t # text[d]
       /\ text' = [text EXCEPT ![d] = t]
       /\ seen' = [seen EXCEPT ![d] = @ \cup {t}]
  /\ UNCHANGED <<stage, ask, reading, hydrating, attempt, out>>

ResultPagesNext ==
  \/ \E kind \in {"search", "stream"}, k \in TopKs, size \in PageSizes : Ask(kind, k, size)
  \/ Fetch \/ FetchFails \/ YieldToQuery \/ YieldToStream \/ Drained
  \/ Hydrate \/ HydrateFails \/ HandOver \/ Answer
  \/ \E d \in Ids : Rewrite(d)

----------------------------------------------------------------------------
(* What has reached the caller is the beginning of the service's ranking,  *)
(* none left out and none twice, whatever was retried.                     *)
HitsInOrder == Len(out) <= ask.topK /\ \A i \in DOMAIN out : out[i].id = i

(* Each hit has a text its record had while the call ran. *)
TextsCurrent == \A i \in DOMAIN out : out[i].text \in seen[out[i].id]

(* A stream hydrates page_size hits at a time, fewer only in the end. *)
BatchesWhole ==
  stage = "hydrating" /\ ask.kind = "stream" /\ ask.size # NoSize =>
    \/ Len(pending) = ask.size
    \/ Len(pending) < ask.size /\ (yielded = ask.topK \/ (over /\ buffer = << >>))

(* A call that ends without an error has all top_k matches, or all there   *)
(* are: tools/build_docs.py says that dynavec follows nextToken up to the  *)
(* service's limit.                                                        *)
WholeAnswer == stage = "done" => Len(out) = Limit

(* Paging loses nothing: see the four parts above. *)
PagesExact == HitsInOrder /\ TextsCurrent /\ BatchesWhole /\ WholeAnswer
============================================================================
