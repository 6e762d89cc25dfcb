-------------------------------- MODULE Ingest --------------------------------
(***************************************************************************)
(* Ingestion (src/src/dynavec/ingest.py): sources that read files into     *)
(* records, and the run that cuts records into chunks, drops repeated      *)
(* chunks, and upserts them in batches.                                    *)
(*                                                                         *)
(* A file is a record of its key, its extension, its units (the pages,     *)
(* slides, rows or paragraphs, each a text or NoText), its sheets, and how  *)
(* its front matter is.  A text is what chunks of it are compared by.      *)
(***************************************************************************)
EXTENDS Integers, Sublists, SequencesExt

CONSTANTS
  Corpora,     \* sources a run may find: sequences of [id, texts of its chunks]
  NoText,       \* a text of white space
  BatchSize,
  MaxRuns,     \* bound: runs of ingest
  NoChunk

Records == UNION {ToSet(c) : c \in Corpora}

(* Two records of a source with one id have the same texts.                *)
ASSUME IngestAssumption ==
  /\ BatchSize \in Nat \ {0} /\ MaxRuns \in Nat
  /\ Corpora \subseteq Seq(Records)
  /\ \A r \in Records : r.texts \in Seq(ToSet(r.texts))
  /\ \A c \in Corpora : \A r, s \in ToSet(c) : r.id = s.id => r.texts = s.texts

(***************************************************************************)
(* Sources.  Units are numbered as they come; a blank one keeps its number *)
(* and gives no record.                                                    *)
(***************************************************************************)
Record(id, text) == [id |-> id, text |-> text]
NonBlank(s) == Picked(s, {i \in DOMAIN s : s[i] # NoText})
Numbered(units, IdOf(_)) ==
  LET at == Increasing({i \in DOMAIN units : units[i] # NoText})
  IN [n \in DOMAIN at |-> Record(IdOf(at[n]), <<units[at[n]]>>)]
Whole(key, units) == IF NonBlank(units) = <<>> THEN <<>> ELSE << Record(<<key>>, NonBlank(units)) >>
Rows(rows, IdOf(_)) == IF rows = <<>> THEN <<>> ELSE Numbered(Tail(rows), IdOf)

PDFSource(f) == Numbered(f.units, LAMBDA n : <<f.key, "page", n>>)
PptxSource(f) == Numbered(f.units, LAMBDA n : <<f.key, "slide", n>>)
DocxSource(f) == Whole(f.key, f.units)
CsvSource(f) == Rows(f.units, LAMBDA n : <<f.key, "row", n>>)
XlsxSource(f) ==
  FoldLeft(LAMBDA acc, s : acc \o Rows(f.sheets[s], LAMBDA n : <<f.key, s, "row", n>>),
           <<>>, [s \in DOMAIN f.sheets |-> s])
URLSource(f) == Whole(f.key, f.units)

(* Front matter is none, a mapping, or not closed or not readable.         *)
FrontMatter(f) == [records |-> << Record(<<f.key>>, f.units) >>, raised |-> f.front = "bad"]
MarkdownSource(files) ==
  FoldLeft(LAMBDA acc, f :
             IF acc.raised \/ f.ext \notin {"md", "txt"} THEN acc
             ELSE IF f.ext = "md" /\ FrontMatter(f).raised THEN [acc EXCEPT !.raised = TRUE]
             ELSE [acc EXCEPT !.records = @ \o FrontMatter(f).records],
           [records |-> <<>>, raised |-> FALSE], files)

(* A resource has a uri or none, and parts that may have no text.          *)
MCPResourceSource(resources, wanted) ==
  FoldLeft(LAMBDA acc, r :
             IF r.key = NoText \/ r.key \notin wanted THEN acc ELSE acc \o Whole(r.key, r.units),
           <<>>, resources)

(* _parse_object: what a file gives, by its extension, and whether it then *)
(* raises.                                                                 *)
ParseObject(f) ==
  CASE f.ext = "md" -> [records |-> IF FrontMatter(f).raised \/ NonBlank(f.units) = <<>> THEN <<>>
                                    ELSE FrontMatter(f).records,
                        raised |-> FrontMatter(f).raised]
    [] f.ext = "csv" -> [records |-> Rows(f.units, LAMBDA n : <<f.key, "row", n>>), raised |-> f.front = "bad"]
    [] f.ext = "pdf" -> [records |-> Numbered(f.units, LAMBDA n : <<f.key, "page", n>>), raised |-> f.front = "bad"]
    [] f.ext = "docx" -> [records |-> Whole(f.key, f.units), raised |-> FALSE]
    [] f.ext = "pptx" -> [records |-> Numbered(f.units, LAMBDA n : <<f.key, "slide", n>>), raised |-> FALSE]
    [] f.ext = "xlsx" ->
         [records |-> FoldLeft(LAMBDA acc, s : acc \o Rows(f.sheets[s], LAMBDA n : <<f.key, s, "row", n>>),
                               <<>>, [s \in DOMAIN f.sheets |-> s]),
          raised |-> FALSE]
    [] OTHER -> [records |-> IF f.front = "bad" THEN <<>>
                             ELSE IF NonBlank(f.units) = <<>> THEN <<>> ELSE << Record(<<f.key>>, f.units) >>,
                 raised |-> FALSE]

(* S3Source: pages of a listing.  A page that says there is more and gives *)
(* no token is the last; what a file gave before it raised is kept.        *)
S3Source(pages, suffixes, onError) ==
  LET file(acc, f) ==
        IF acc.raised \/ f.ext \notin suffixes THEN acc
        ELSE [acc EXCEPT !.records = @ \o ParseObject(f).records,
                         !.raised = ParseObject(f).raised /\ onError = "raise"]
      page(acc, p) ==
        IF acc.raised \/ acc.ended THEN acc
        ELSE [FoldLeft(file, acc, p.files) EXCEPT !.ended = ~(p.truncated /\ p.token)]
  IN FoldLeft(page, [records |-> <<>>, raised |-> FALSE, ended |-> FALSE], pages)

(* chunk_text: the spans it cuts a text of n characters into.              *)
ChunkSpans(n, size, overlap) ==
  LET step == size - overlap
      last == CHOOSE k \in 0 .. n : k * step + size >= n /\ \A j \in 0 .. k - 1 : j * step + size < n
  IN IF n = 0 THEN <<>>
     ELSE [k \in 1 .. last + 1 |-> <<(k - 1) * step, IF k = last + 1 THEN n ELSE (k - 1) * step + size>>]

(***************************************************************************)
(* A run.                                                                  *)
(***************************************************************************)
VARIABLES
  corpus,     \* what the source gives now
  run,        \* the run: where it is, and its chunks in hand
  stored,     \* the namespace: [chunk ids -> text or NoChunk]
  runs,
  settled     \* ghost: the store when a run last returned, and the corpus unless it was edited

invars == <<corpus, run, stored, runs, settled>>

Pieces(r) == NonBlank(r.texts)
ChunksIn(r) == [n \in DOMAIN Pieces(r) |-> [id |-> <<r.id, n>>, text |-> Pieces(r)[n]]]
AllChunks(c) == Joined([i \in DOMAIN c |-> ChunksIn(c[i])])
ChunkIds == UNION {{x.id : x \in ToSet(AllChunks(c))} : c \in Corpora}
NotRun == [at |-> "idle", next |-> 1, seen |-> {}, batch |-> <<>>, total |-> 0]

Begin ==
  /\ run.at # "running" /\ runs < MaxRuns
  /\ runs' = runs + 1
  /\ run' = [NotRun EXCEPT !.at = "running"]
  /\ UNCHANGED <<corpus, stored, settled>>

(* The next chunk, unless its text has been seen in this run.              *)
(* Mutant: a repeated chunk takes the place of the one before. *)
TakeLast ==
  /\ run.at = "running" /\ Len(run.batch) < BatchSize /\ run.next <= Len(AllChunks(corpus))
  /\ LET c == AllChunks(corpus)[run.next] IN
     run' = [run EXCEPT !.next = @ + 1, !.seen = @ \cup {c.text},
                        !.batch = IF c.text \in run.seen /\ @ # <<>>
                                  THEN Append(SubSeq(@, 1, Len(@) - 1), c) ELSE Append(@, c)]
  /\ UNCHANGED <<corpus, stored, runs, settled>>
Take ==
  /\ run.at = "running" /\ Len(run.batch) < BatchSize /\ run.next <= Len(AllChunks(corpus))
  /\ LET c == AllChunks(corpus)[run.next] IN
     run' = [run EXCEPT !.next = @ + 1, !.seen = @ \cup {c.text},
                        !.batch = IF c.text \in run.seen THEN @ ELSE Append(@, c)]
  /\ UNCHANGED <<corpus, stored, runs, settled>>

Wrote(chunks) ==
  [id \in ChunkIds |-> IF \E c \in chunks : c.id = id
                       THEN (CHOOSE c \in chunks : c.id = id).text ELSE stored[id]]
BatchDue == run.at = "running" /\ run.batch # <<>>
              /\ (Len(run.batch) = BatchSize \/ run.next > Len(AllChunks(corpus)))

Upsert ==
  /\ BatchDue
  /\ stored' = Wrote(ToSet(run.batch))
  /\ run' = [run EXCEPT !.batch = <<>>, !.total = @ + Len(run.batch)]
  /\ UNCHANGED <<corpus, runs, settled>>

(* The write fails, part of it done, or the process dies; or the source    *)
(* fails, and what was in hand is never written.                           *)
UpsertFails ==
  /\ BatchDue
  /\ \E part_ \in SUBSET ToSet(run.batch) : stored' = Wrote(part_)
  /\ run' = [run EXCEPT !.at = "raised", !.batch = <<>>]
  /\ UNCHANGED <<corpus, runs, settled>>

SourceFails ==
  /\ run.at = "running" /\ ~BatchDue
  /\ run' = [run EXCEPT !.at = "raised", !.batch = <<>>]
  /\ UNCHANGED <<corpus, stored, runs, settled>>

Return ==
  /\ run.at = "running" /\ run.batch = <<>> /\ run.next > Len(AllChunks(corpus))
  /\ run' = [run EXCEPT !.at = "done"]
  /\ settled' = [corpus |-> {corpus}, stored |-> stored, before |-> settled.stored,
                 again |-> corpus \in settled.corpus]
  /\ UNCHANGED <<corpus, stored, runs>>

(* Between runs the documents change.                                      *)
Edit(c) ==
  /\ run.at # "running" /\ c # corpus
  /\ corpus' = c /\ run' = NotRun /\ settled' = [settled EXCEPT !.corpus = {}]
  /\ UNCHANGED <<stored, runs>>

IngestInit ==
  /\ corpus \in Corpora /\ run = NotRun /\ stored = [id \in ChunkIds |-> NoChunk] /\ runs = 0
  /\ settled = [corpus |-> {}, stored |-> stored, before |-> stored, again |-> FALSE]

IngestNext ==
  \/ Begin
  \/ Take
  \/ Upsert
  \/ UpsertFails
  \/ SourceFails
  \/ Return
  \/ \E c \in Corpora : Edit(c)

IngestSpec == IngestInit /\ [][IngestNext]_invars
-----------------------------------------------------------------------------
(* A run that returns has every text of the source in the store, each      *)
(* under the first chunk that has it, and has counted each once, whatever  *)
(* runs failed part way or ran over other documents before; and a run over *)
(* documents that have not changed since one returned changes nothing.     *)
IngestComplete ==
  run.at = "done" =>
    LET all == AllChunks(corpus)
        first(k) == \A j \in 1 .. k - 1 : all[j].text # all[k].text
    IN /\ \A k \in DOMAIN all : first(k) => stored[all[k].id] = all[k].text
       /\ run.total = Cardinality({all[k].text : k \in DOMAIN all})
       /\ settled.again => stored = settled.before

(* The spans of a text: they begin at its start and end at its end, each   *)
(* shares its last `overlap' characters with the next and is no longer     *)
(* than chunk_size, and none lies within another.                          *)
SpansExact(n, size, overlap) ==
  LET s == ChunkSpans(n, size, overlap) IN
  n > 0 =>
    /\ s[1][1] = 0 /\ s[Len(s)][2] = n
    /\ \A k \in DOMAIN s : s[k][2] - s[k][1] \in 1 .. size
    /\ \A k \in 1 .. Len(s) - 1 : s[k][2] - s[k + 1][1] = overlap /\ s[k][2] < s[k + 1][2]

(* A file gives the same texts under the same numbers from the bucket and  *)
(* from the disk, though each has its own reader; no two records of it     *)
(* share an id; a unit that is filled in later changes no other's id; with *)
(* on_error = "skip" a file that cannot be read costs the files after it   *)
(* nothing, on the same page of the listing or on the next; and a text     *)
(* read as a whole is the same through each of the sources that do so.     *)
LocalRecords(f) ==
  CASE f.ext = "pdf" -> PDFSource(f) [] f.ext = "pptx" -> PptxSource(f) [] f.ext = "docx" -> DocxSource(f)
    [] f.ext = "csv" -> CsvSource(f) [] f.ext = "xlsx" -> XlsxSource(f)
    [] OTHER -> SelectSeq(MarkdownSource(<<f>>).records, LAMBDA r : NonBlank(r.text) # <<>>)
SourcesAgree(f, other) ==
  LET records == ParseObject(f).records
      filled == [f EXCEPT !.units = [i \in DOMAIN @ |-> IF @[i] = NoText THEN f.key ELSE @[i]]]
      both == S3Source(<< [files |-> <<f, other>>, truncated |-> FALSE, token |-> FALSE] >>,
                       {f.ext, other.ext}, "skip").records
  IN /\ f.front # "bad" => records = LocalRecords(f)
     /\ Cardinality({records[i].id : i \in DOMAIN records}) = Len(records)
     /\ {records[i].id : i \in DOMAIN records}
          \subseteq {ParseObject(filled).records[i].id : i \in DOMAIN ParseObject(filled).records}
     /\ IsSuffix(ParseObject(other).records, both)
     /\ both = S3Source(<< [files |-> <<f>>, truncated |-> TRUE, token |-> TRUE],
                           [files |-> <<other>>, truncated |-> FALSE, token |-> FALSE] >>,
                        {f.ext, other.ext}, "skip").records
     /\ DocxSource(f) \o URLSource(other) = MCPResourceSource(<<f, other>>, {f.key, other.key})
=============================================================================
