------------------------------ MODULE Transfer ------------------------------
(***************************************************************************)
(* A namespace is exported to a file of lines and imported into another    *)
(* one: iter_namespace, export_namespace and import_namespace of           *)
(* src/dynavec/client.py, list_pages below them, and the import command of *)
(* src/dynavec/cli.py, which finds out the dimension itself.               *)
(*                                                                         *)
(* A document has a vector in one store and a record in the other, each    *)
(* with a version, 0 when it is missing.  Importing a line without a text  *)
(* writes a record that has none, Textless.  Other clients write to the    *)
(* exported namespace meanwhile, records expire, and a file may be edited. *)
(***************************************************************************)
EXTENDS Sublists

CONSTANTS
  Exported,       \* ids of documents in the namespace
  ListPage,       \* the longest page of ListVectors
  ImportBatch,    \* batch_size
  IndexDim,       \* dimension of the index
  Dims,           \* dimensions that vectors in a file can have
  LastVersion,    \* of a document (bound)
  MaxImports      \* (bound)

ASSUME ImportAssumption ==
  /\ ListPage \in Nat /\ ImportBatch \in Nat \ {0} /\ MaxImports \in Nat
  /\ IndexDim \in Dims

Textless == LastVersion + 1
Absent == [vec |-> 0, rec |-> 0]

VARIABLES
  source,    \* the documents of the exported namespace
  target,    \* and of the one imported into
  job,       \* "ready", "listing", "hydrating", "exported", "cut short", "importing", "imported", "refused"
  quiet,     \* nobody wrote to the source during the export or to the file since
  listed,    \* ids the listing has returned
  page,      \* vectors of the page being hydrated, in its order
  lines,     \* the file
  at,        \* line being read
  dim,       \* config.dimension of the importing client
  batch,     \* documents read and not yet stored
  count,     \* documents stored
  torn,      \* an upsert of an import has failed
  imports    \* imports started

trvars == <<source, target, job, quiet, listed, page, lines, at, dim, batch, count, torn, imports>>
exporting == <<listed, page, lines>>
importing == <<at, dim, batch, count, torn, imports>>

(* What is exported of a record. *)
AsRead(rec) == IF rec = 0 THEN Textless ELSE rec

Line(d, vec, rec) == [kind |-> "document", id |-> d, vec |-> vec, rec |-> rec, dim |-> IndexDim]
Oddities ==
  {[kind |-> k, id |-> d, vec |-> 1, rec |-> 1, dim |-> n] :
     k \in {"blank", "malformed", "document"}, d \in Exported, n \in Dims}
NoLine == CHOOSE o \in Oddities : o.kind = "blank"

TransferInit ==
  /\ source \in [Exported -> {Absent, [vec |-> 1, rec |-> 1]}]
  /\ target = [d \in Exported |-> Absent]
  /\ job = "ready" /\ quiet = TRUE
  /\ listed = {} /\ page = << >> /\ lines = << >>
  /\ at = 1 /\ dim = IndexDim /\ batch = << >> /\ count = 0 /\ torn = FALSE /\ imports = 0

----------------------------------------------------------------------------
(* The namespace changes under the export: another client rewrites or      *)
(* deletes a document, or a record expires.                                *)
SourceWrite(d) ==
  /\ job \in {"listing", "hydrating"} /\ quiet
  /\ \E doc \in {Absent, [vec |-> LastVersion, rec |-> LastVersion], [source[d] EXCEPT !.rec = 0]} :
       source' = [source EXCEPT ![d] = doc]
  /\ quiet' = FALSE
  /\ UNCHANGED <<target, job, exporting, importing>>

(* export_namespace opens the file and starts the listing. *)
Export ==
  /\ job = "ready"
  /\ job' = "listing"
  /\ lines' = << >>
  /\ UNCHANGED <<source, target, quiet, listed, page, importing>>

Unlisted == {d \in Exported \ listed : source[d].vec # 0}

(* list_pages: a page of the index, of which only this namespace's vectors *)
(* count.                                                                  *)
List ==
  /\ job = "listing"
  /\ \E n \in 1 .. ListPage : \E ids \in [1 .. n -> Unlisted] :
       /\ \A i, j \in 1 .. n : i # j => ids[i] # ids[j]
       /\ page' = [i \in 1 .. n |-> [id |-> ids[i], vec |-> source[ids[i]].vec]]
       /\ listed' = listed \cup {ids[i] : i \in 1 .. n}
  /\ job' = "hydrating"
  /\ UNCHANGED <<source, target, quiet, lines, importing>>

(* iter_namespace: the page is hydrated and becomes lines. *)
WriteLines ==
  /\ job = "hydrating"
  /\ lines' = lines \o
       [i \in DOMAIN page |-> Line(page[i].id, page[i].vec, AsRead(source[page[i].id].rec))]
  /\ page' = << >>
  /\ job' = "listing"
  /\ UNCHANGED <<source, target, quiet, listed, importing>>

(* A page cannot be listed or hydrated: the file keeps what it has. *)
ExportFails ==
  /\ job \in {"listing", "hydrating"}
  /\ job' = "cut short" /\ page' = << >>
  /\ UNCHANGED <<source, target, quiet, listed, lines, importing>>

(* Mutant: a page without a vector of the namespace ends the listing. *)
ExportEndsEarly ==
  /\ job = "listing"
  /\ job' = "exported"
  /\ UNCHANGED <<source, target, quiet, exporting, importing>>

(* Every page of the index has been listed. *)
ExportEnds ==
  /\ job = "listing" /\ Unlisted = {}
  /\ job' = "exported"
  /\ UNCHANGED <<source, target, quiet, exporting, importing>>

(* Somebody puts a line into the file. *)
EditFile ==
  /\ job \in {"exported", "cut short"} /\ quiet
  /\ \E i \in 0 .. Len(lines), o \in Oddities :
       lines' = SubSeq(lines, 1, i) \o <<o>> \o SubSeq(lines, i + 1, Len(lines))
  /\ quiet' = FALSE
  /\ UNCHANGED <<source, target, job, listed, page, importing>>

----------------------------------------------------------------------------
(* The import command, told no dimension, takes that of the first line     *)
(* with a vector, and that of the index when the file cannot be read so    *)
(* far.                                                                    *)
CommandDim ==
  LET first == {i \in DOMAIN lines : lines[i].kind # "blank" /\ \A j \in 1 .. i - 1 : lines[j].kind = "blank"}
  IN IF \E i \in first : lines[i].kind = "document" THEN lines[CHOOSE i \in first : TRUE].dim ELSE IndexDim

(* An import, by the command or by a client of the index.  It may follow   *)
(* one that was refused.                                                   *)
Import ==
  /\ job \in {"exported", "cut short", "imported", "refused"} /\ imports < MaxImports
  /\ imports' = imports + 1
  /\ job' = "importing"
  /\ at' = 1 /\ batch' = << >> /\ count' = 0
  /\ dim' \in {CommandDim, IndexDim}
  /\ UNCHANGED <<source, target, quiet, exporting, torn>>

Current == IF at <= Len(lines) THEN lines[at] ELSE NoLine
Good(line) == line.kind = "document" /\ line.dim = dim
BatchFull == Len(batch) >= ImportBatch \/ (at > Len(lines) /\ batch # << >>)
Reading == job = "importing" /\ ~BatchFull /\ at <= Len(lines)

(* A line is read; an invalid one ends the import. *)
ReadLine ==
  /\ Reading
  /\ IF Current.kind = "blank" \/ Good(Current)
     THEN at' = at + 1 /\ UNCHANGED job
     ELSE job' = "refused" /\ UNCHANGED at
  /\ batch' = IF Good(Current) THEN Append(batch, Current) ELSE batch
  /\ UNCHANGED <<source, target, quiet, exporting, dim, count, torn, imports>>

(* The document ds[i], i in S, that is stored last under id d. *)
LastOf(ds, S, d) == ds[CHOOSE i \in S : ds[i].id = d /\ \A j \in S : ds[j].id = d => j <= i]
Names(ds, S, d) == \E i \in S : ds[i].id = d

(* What is held of document d, before, once the documents ds are stored.   *)
AfterStoring(ds, before, d) ==
  IF Names(ds, DOMAIN ds, d)
  THEN LET l == LastOf(ds, DOMAIN ds, d) IN [vec |-> l.vec, rec |-> l.rec]
  ELSE before

(* A full batch, or the rest at the end of the file, is upserted. *)
StoreBatch ==
  /\ job = "importing" /\ BatchFull
  /\ \A i \in DOMAIN batch : batch[i].dim = IndexDim
  /\ target' = [d \in Exported |-> AfterStoring(batch, target[d], d)]
  /\ count' = count + Len(batch)
  /\ batch' = << >>
  /\ UNCHANGED <<source, job, quiet, exporting, at, dim, torn, imports>>

(* The upsert raises, with some of its writes applied: the vectors of a    *)
(* batch go in one request, which the service refuses when one of them has *)
(* another dimension than the index.                                       *)
StoreFails ==
  /\ job = "importing" /\ BatchFull
  /\ \E recs \in SUBSET DOMAIN batch, vecs \in {{}, DOMAIN batch} :
       /\ \A i \in vecs : batch[i].dim = IndexDim
       /\ target' = [d \in Exported |->
            [vec |-> IF Names(batch, vecs, d) THEN LastOf(batch, vecs, d).vec ELSE target[d].vec,
             rec |-> IF Names(batch, recs, d) THEN LastOf(batch, recs, d).rec ELSE target[d].rec]]
  /\ job' = "refused" /\ torn' = TRUE
  /\ UNCHANGED <<source, quiet, exporting, at, dim, batch, count, imports>>

ImportEnds ==
  /\ job = "importing" /\ ~BatchFull /\ at > Len(lines)
  /\ job' = "imported"
  /\ UNCHANGED <<source, target, quiet, exporting, importing>>

TransferNext ==
  \/ \E d \in Exported : SourceWrite(d)
  \/ Export \/ List \/ WriteLines \/ ExportFails \/ ExportEnds \/ EditFile
  \/ Import \/ ReadLine \/ StoreBatch \/ StoreFails \/ ImportEnds

TransferSpec == TransferInit /\ [][TransferNext]_trvars
----------------------------------------------------------------------------
Documents == Picked(lines, {i \in DOMAIN lines : Good(lines[i])})

(* An export that nobody disturbed has every document of the namespace     *)
(* once, as it is; one that failed has only documents of the namespace.    *)
ExportedWhole ==
  quiet =>
    /\ job = "exported" => {d \in Exported : source[d].vec # 0} = {lines[i].id : i \in DOMAIN lines}
    /\ \A i \in DOMAIN lines :
         /\ lines[i] = Line(lines[i].id, source[lines[i].id].vec, AsRead(source[lines[i].id].rec))
         /\ \A j \in 1 .. (i - 1) : lines[j].id # lines[i].id

(* The count of an import is that of the documents it has stored: as long  *)
(* as no upsert failed, in this import or before, the first import has     *)
(* stored these and nothing else, also when a line made it stop.           *)
CountStored ==
  imports = 1 /\ ~torn =>
    /\ count <= Len(Documents)
    /\ \A d \in Exported : target[d] = AfterStoring(SubSeq(Documents, 1, count), Absent, d)

(* An import that ends has stored every document of the file, the last of  *)
(* those with the same id, whatever an import before it has left behind.   *)
ImportedWhole ==
  job = "imported" =>
    /\ count = Len(Documents)
    /\ \A i \in DOMAIN Documents : target[Documents[i].id] = AfterStoring(Documents, Absent, Documents[i].id)

(* A namespace goes through a file and back: see the three parts above.    *)
TransferExact == ExportedWhole /\ CountStored /\ ImportedWhole
============================================================================
