------------------------- MODULE Pipelines_proofs --------------------------
(***************************************************************************)
(* Calls that pass a sequence of things through several hands: a transfer  *)
(* reads what was listed and stores what was read, a retriever fuses what  *)
(* the sub-searches of its plan found, a cache sends the texts it misses   *)
(* to the model and puts the vectors in their places, an ingestion cuts    *)
(* records into chunks and stores them in batches, a lexical index keeps   *)
(* the counts that its searches rank by.  Nothing is lost on the way,      *)
(* nothing is taken twice and nothing changes places, for any number of    *)
(* documents, lines, batches, calls and threads.                           *)
(***************************************************************************)
EXTENDS Transfer, Retriever, EmbedCache, Ingest, BM25Index, Sublists_proofs

(***************************************************************************)
(* Export and import.                                                      *)
(***************************************************************************)
Version == {0, 1, LastVersion}
LineType ==
  [kind: {"blank", "malformed", "document"}, id: Exported, vec: Version,
   rec: Version \cup {Textless}, dim: Dims]
Jobs == {"ready", "listing", "hydrating", "exported", "cut short", "importing", "imported", "refused"}
Storing == {"importing", "imported", "refused"}

TransferTypeOK ==
  /\ source \in [Exported -> [vec: Version, rec: Version]]
  /\ DOMAIN target = Exported
  /\ job \in Jobs /\ quiet \in BOOLEAN
  /\ listed \in SUBSET Exported
  /\ page \in Seq([id: Exported, vec: Version])
  /\ lines \in Seq(LineType)
  /\ at \in Nat /\ count \in Nat /\ imports \in Nat
  /\ batch \in Seq(LineType)

(* The export: the file and the page in hand have the documents listed,    *)
(* once each and as they are, as long as nobody has interfered.            *)
Whole_ ==
  /\ \A i \in DOMAIN lines : lines[i] = Line(lines[i].id, source[lines[i].id].vec, AsRead(source[lines[i].id].rec))
  /\ \A i, j \in DOMAIN lines : i # j => lines[i].id # lines[j].id
  /\ \A i \in DOMAIN page : page[i].vec = source[page[i].id].vec
  /\ \A i, j \in DOMAIN page : i # j => page[i].id # page[j].id
  /\ \A i \in DOMAIN page, j \in DOMAIN lines : page[i].id # lines[j].id
HasListed ==
  /\ \A i \in DOMAIN lines : lines[i].id \in listed
  /\ \A i \in DOMAIN page : page[i].id \in listed
  /\ \A d \in listed : source[d].vec # 0
  /\ job \in {"ready", "listing", "hydrating", "exported"} =>
       \A d \in listed : (\E i \in DOMAIN lines : lines[i].id = d) \/ \E i \in DOMAIN page : page[i].id = d
ExportInv ==
  /\ job # "hydrating" => page = << >>
  /\ job = "ready" => lines = << >>
  /\ job \in Jobs \ Storing <=> imports = 0
  /\ quiet => Whole_ /\ HasListed /\ (job = "exported" => Unlisted = {})

(* The import: what has been read is stored, up to the batch in hand.      *)
Read(n) == Picked(lines, {i \in 1 .. n : Good(lines[i])})
Done == SubSeq(Documents, 1, count)
ImportInv ==
  job \in Storing =>
    /\ at \in 1 .. Len(lines) + 1
    /\ count + Len(batch) = Len(Read(at - 1))
    /\ \A k \in DOMAIN batch : batch[k] = Read(at - 1)[count + k]
    /\ job = "imported" => at = Len(lines) + 1 /\ batch = << >>
TargetInv ==
  /\ imports = 0 => \A d \in Exported : target[d] = Absent
  /\ imports = 1 /\ ~torn => \A d \in Exported : target[d] = AfterStoring(Done, Absent, d)
  /\ job \in {"importing", "imported"} =>
       \A d \in Exported : Names(Done, DOMAIN Done, d) => target[d] = AfterStoring(Done, Absent, d)

TransferInv == TransferTypeOK /\ ExportInv /\ ImportInv /\ TargetInv

-----------------------------------------------------------------------------
(* A document that is named is stored last somewhere.                      *)
LEMMA LastThere ==
  ASSUME NEW X, NEW s \in Seq(X), NEW d, Names(s, DOMAIN s, d)
  PROVE  \E i \in DOMAIN s : /\ s[i].id = d /\ \A j \in DOMAIN s : s[j].id = d => j <= i
                             /\ LastOf(s, DOMAIN s, d) = s[i]
<1> DEFINE n == Len(s)
           T == {m \in 0 .. n - 1 : s[n - m].id = d}
<1>1. n \in Nat /\ DOMAIN s = 1 .. n
  OBVIOUS
<1>2. PICK k \in 1 .. n : s[k].id = d
  BY <1>1 DEF Names
<1>3. n - k \in T
  <2>1. n - k \in 0 .. n - 1 /\ n - (n - k) = k
    BY <1>1
  <2> QED  BY <1>2, <2>1
<1>4. T \in SUBSET Nat /\ T # {}
  <2>1. 0 .. n - 1 \subseteq Nat
    OBVIOUS
  <2> QED  BY <1>3, <2>1
<1> HIDE DEF T
<1>5. PICK m \in T : \A l \in T : m <= l
  BY <1>4, LeastNumber
<1> DEFINE i == n - m
<1>6. i \in DOMAIN s /\ s[i].id = d
  BY <1>1, <1>5 DEF T
<1>7. ASSUME NEW j \in DOMAIN s, s[j].id = d  PROVE j <= i
  <2>1. n - j \in 0 .. n - 1 /\ n - (n - j) = j
    BY <1>1
  <2>2. n - j \in T
    BY <1>7, <2>1 DEF T
  <2>3. m \in Nat /\ m <= n - j /\ j \in Nat
    BY <1>1, <1>4, <1>5, <2>2
  <2> QED  BY <1>1, <2>3
<1> HIDE DEF i, n
<1>8. \A l \in DOMAIN s : s[l].id = d /\ (\A j \in DOMAIN s : s[j].id = d => j <= l) => l = i
  BY <1>1, <1>6, <1>7
<1>9. LastOf(s, DOMAIN s, d) = s[i]
  BY <1>6, <1>7, <1>8, Zenon DEF LastOf
<1> QED  BY <1>6, <1>7, <1>9

(* Two lists name what either of them does. *)
LEMMA NamesInTwo ==
  ASSUME NEW X, NEW s \in Seq(X), NEW t \in Seq(X), NEW d
  PROVE  Names(s \o t, DOMAIN (s \o t), d) <=> Names(s, DOMAIN s, d) \/ Names(t, DOMAIN t, d)
<1> DEFINE u == s \o t
           m == Len(s)
<1>1. /\ u \in Seq(X) /\ m \in Nat /\ Len(t) \in Nat
      /\ DOMAIN s = 1 .. m /\ DOMAIN t = 1 .. Len(t) /\ DOMAIN u = 1 .. m + Len(t)
      /\ \A i \in 1 .. m + Len(t) : u[i] = IF i <= m THEN s[i] ELSE t[i - m]
  BY ConcatProperties, Positions
<1>2. /\ \A i \in DOMAIN s : i \in DOMAIN u /\ u[i] = s[i]
      /\ \A i \in DOMAIN t : m + i \in DOMAIN u /\ u[m + i] = t[i]
      /\ \A i \in DOMAIN u : i \in DOMAIN s \/ (i - m \in DOMAIN t /\ i = m + (i - m) /\ u[i] = t[i - m])
  BY <1>1
<1> HIDE DEF u, m
<1>3. Names(u, DOMAIN u, d) <=> Names(s, DOMAIN s, d) \/ Names(t, DOMAIN t, d)
  <2>1. ASSUME NEW i \in DOMAIN u, u[i].id = d  PROVE Names(s, DOMAIN s, d) \/ Names(t, DOMAIN t, d)
    BY <1>2, <2>1 DEF Names
  <2>2. ASSUME NEW i \in DOMAIN s, s[i].id = d  PROVE Names(u, DOMAIN u, d)
    BY <1>2, <2>2 DEF Names
  <2>3. ASSUME NEW i \in DOMAIN t, t[i].id = d  PROVE Names(u, DOMAIN u, d)
    BY <1>2, <2>3 DEF Names
  <2> QED  BY <2>1, <2>2, <2>3 DEF Names
<1> QED  BY <1>3 DEF u

(* Storing one list of documents and then another stores both.             *)
LEMMA StoringInTwo ==
  ASSUME NEW X, NEW s \in Seq(X), NEW t \in Seq(X), NEW before, NEW d
  PROVE  AfterStoring(s \o t, before, d) = AfterStoring(t, AfterStoring(s, before, d), d)
<1> DEFINE u == s \o t
           m == Len(s)
<1>1. /\ u \in Seq(X) /\ m \in Nat /\ Len(t) \in Nat
      /\ DOMAIN s = 1 .. m /\ DOMAIN t = 1 .. Len(t) /\ DOMAIN u = 1 .. m + Len(t)
      /\ \A i \in 1 .. m + Len(t) : u[i] = IF i <= m THEN s[i] ELSE t[i - m]
  BY ConcatProperties, Positions
<1>2. /\ \A i \in DOMAIN s : i \in DOMAIN u /\ u[i] = s[i]
      /\ \A i \in DOMAIN t : m + i \in DOMAIN u /\ u[m + i] = t[i]
      /\ \A i \in DOMAIN u : i \in DOMAIN s \/ (i - m \in DOMAIN t /\ i = m + (i - m) /\ u[i] = t[i - m])
  BY <1>1
<1>3. Names(u, DOMAIN u, d) <=> Names(s, DOMAIN s, d) \/ Names(t, DOMAIN t, d)
  BY NamesInTwo
<1> HIDE DEF u, m
<1>4. CASE Names(t, DOMAIN t, d)
  <2>1. PICK i \in DOMAIN t : /\ t[i].id = d /\ \A j \in DOMAIN t : t[j].id = d => j <= i
                              /\ LastOf(t, DOMAIN t, d) = t[i]
    BY <1>4, LastThere
  <2>2. PICK k \in DOMAIN u : /\ u[k].id = d /\ \A j \in DOMAIN u : u[j].id = d => j <= k
                              /\ LastOf(u, DOMAIN u, d) = u[k]
    BY <1>1, <1>3, <1>4, LastThere
  <2>3. m + i <= k
    BY <1>2, <2>1, <2>2
  <2>4. k - m \in DOMAIN t /\ u[k] = t[k - m] /\ k - m <= i
    <3>1. k \notin DOMAIN s
      BY <1>1, <2>1, <2>3
    <3>2. k - m \in DOMAIN t /\ u[k] = t[k - m]
      BY <1>2, <3>1
    <3> QED  BY <2>1, <2>2, <3>2
  <2>5. k - m = i
    BY <1>1, <2>1, <2>2, <2>3, <2>4
  <2> QED  BY <1>3, <1>4, <2>1, <2>2, <2>4, <2>5 DEF AfterStoring, u
<1>5. CASE ~Names(t, DOMAIN t, d) /\ Names(s, DOMAIN s, d)
  <2>1. PICK i \in DOMAIN s : /\ s[i].id = d /\ \A j \in DOMAIN s : s[j].id = d => j <= i
                              /\ LastOf(s, DOMAIN s, d) = s[i]
    BY <1>5, LastThere
  <2>2. PICK k \in DOMAIN u : /\ u[k].id = d /\ \A j \in DOMAIN u : u[j].id = d => j <= k
                              /\ LastOf(u, DOMAIN u, d) = u[k]
    BY <1>1, <1>3, <1>5, LastThere
  <2>3. k \in DOMAIN s
    BY <1>2, <1>5, <2>2 DEF Names
  <2>4. k = i
    BY <1>1, <1>2, <2>1, <2>2, <2>3
  <2> QED  BY <1>2, <1>3, <1>5, <2>1, <2>2, <2>4 DEF AfterStoring, u
<1>6. CASE ~Names(t, DOMAIN t, d) /\ ~Names(s, DOMAIN s, d)
  BY <1>3, <1>6 DEF AfterStoring, u
<1> QED  BY <1>4, <1>5, <1>6

(* What the stored documents name does not depend on what was there.       *)
LEMMA StoringForgets ==
  ASSUME NEW s, NEW a, NEW b, NEW d, Names(s, DOMAIN s, d)
  PROVE  AfterStoring(s, a, d) = AfterStoring(s, b, d)
BY DEF AfterStoring

LEMMA StoringNothing ==
  ASSUME NEW a, NEW d
  PROVE  ~Names(<< >>, DOMAIN << >>, d) /\ AfterStoring(<< >>, a, d) = a
BY DEF AfterStoring, Names

-----------------------------------------------------------------------------
(* The documents among the first lines are the first documents.            *)
LEMMA ReadFirst ==
  ASSUME lines \in Seq(LineType), NEW n \in 0 .. Len(lines)
  PROVE  /\ Read(n) \in Seq(LineType) /\ Len(Read(n)) <= Len(Documents)
         /\ Documents \in Seq(LineType) /\ Len(Documents) \in Nat
         /\ \A k \in 1 .. Len(Read(n)) : Read(n)[k] = Documents[k]
<1> DEFINE I == {i \in 1 .. n : Good(lines[i])}
           J == {i \in DOMAIN lines : Good(lines[i])}
<1>1. J \in SUBSET DOMAIN lines /\ I \in SUBSET J /\ \A i \in I : \A j \in J \ I : i < j
  OBVIOUS
<1>2. I \in SUBSET DOMAIN lines
  BY <1>1
<1>3. Read(n) = Picked(lines, I) /\ Documents = Picked(lines, J)
  BY DEF Read, Documents
<1> HIDE DEF I, J
<1>4. Read(n) \in Seq(LineType) /\ Documents \in Seq(LineType)
  BY <1>1, <1>2, <1>3, PickedFrom
<1>5. /\ Cardinality(I) \in Nat /\ Cardinality(I) <= Cardinality(J)
      /\ Len(Read(n)) = Cardinality(I) /\ Len(Documents) = Cardinality(J)
      /\ \A k \in 1 .. Cardinality(I) : Read(n)[k] = Documents[k]
  BY <1>1, <1>3, PickedFirst
<1> QED  BY <1>4, <1>5, LenProperties

LEMMA ReadNext ==
  ASSUME lines \in Seq(LineType), NEW n \in 1 .. Len(lines)
  PROVE  Read(n) = IF Good(lines[n]) THEN Append(Read(n - 1), lines[n]) ELSE Read(n - 1)
<1> DEFINE I == {i \in 1 .. n - 1 : Good(lines[i])}
           J == {i \in 1 .. n : Good(lines[i])}
<1>1. Read(n - 1) = Picked(lines, I) /\ Read(n) = Picked(lines, J)
  BY DEF Read
<1>2. CASE Good(lines[n])
  <2>1. J = I \cup {n} /\ I \in SUBSET DOMAIN lines /\ n \in DOMAIN lines /\ \A i \in I : i < n
    BY <1>2
  <2> HIDE DEF I, J
  <2>2. Picked(lines, J) = Append(Picked(lines, I), lines[n])
    BY <2>1, PickedNext
  <2> QED  BY <1>1, <1>2, <2>2
<1>3. CASE ~Good(lines[n])
  <2>1. J = I
    BY <1>3
  <2> QED  BY <1>1, <1>3, <2>1
<1> QED  BY <1>2, <1>3

LEMMA NothingPicked ==
  ASSUME NEW X, NEW seq \in Seq(X)
  PROVE  Len(Picked(seq, {})) = 0
BY PickedFrom, FS_EmptySet

LEMMA ReadAll ==
  ASSUME lines \in Seq(LineType)
  PROVE  Read(Len(lines)) = Documents
<1>1. DOMAIN lines = 1 .. Len(lines)
  OBVIOUS
<1> QED  BY <1>1 DEF Read, Documents

-----------------------------------------------------------------------------
LEMMA TransferInitInv == TransferInit => TransferInv
<1> SUFFICES ASSUME TransferInit  PROVE TransferInv
  OBVIOUS
<1>1. TransferTypeOK
  BY ImportAssumption DEF TransferInit, TransferTypeOK, Version, Absent, Jobs
<1>2. ExportInv
  BY DEF TransferInit, ExportInv, Whole_, HasListed, Jobs, Storing
<1>3. ImportInv /\ TargetInv
  BY DEF TransferInit, ImportInv, TargetInv, Storing
<1> QED  BY <1>1, <1>2, <1>3 DEF TransferInv

(* While it reads, an import has a line in hand, and it is one of the file. *)
LEMMA CurrentLine ==
  ASSUME TransferTypeOK, ImportInv, Reading
  PROVE  at \in 1 .. Len(lines) /\ Current = lines[at] /\ Current \in LineType
<1>1. at \in 1 .. Len(lines)
  BY DEF Reading, ImportInv, Storing, TransferTypeOK
<1> QED  BY <1>1 DEF Current, TransferTypeOK

(* What a page of the listing is. *)
ListedPage(n, ids) ==
  /\ \A i, j \in 1 .. n : i # j => ids[i] # ids[j]
  /\ page' = [i \in 1 .. n |-> [id |-> ids[i], vec |-> source[ids[i]].vec]]
  /\ listed' = listed \cup {ids[i] : i \in 1 .. n}

(* What a page becomes in the file. *)
LEMMA LinesOfPage ==
  ASSUME TransferTypeOK
  PROVE  LET more == [i \in DOMAIN page |-> Line(page[i].id, page[i].vec, AsRead(source[page[i].id].rec))]
         IN more \in Seq(LineType) /\ Len(more) = Len(page)
<1> DEFINE E(i) == Line(page[i].id, page[i].vec, AsRead(source[page[i].id].rec))
<1>1. page \in Seq([id: Exported, vec: Version]) /\ source \in [Exported -> [vec: Version, rec: Version]]
  BY DEF TransferTypeOK
<1>2. /\ DOMAIN page = 1 .. Len(page) /\ Len(page) \in Nat
      /\ \A i \in DOMAIN page : page[i] \in [id: Exported, vec: Version]
  BY <1>1, Positions
<1>3. \A i \in 1 .. Len(page) : E(i) \in LineType
  <2> SUFFICES ASSUME NEW i \in 1 .. Len(page)  PROVE E(i) \in LineType
    OBVIOUS
  <2>1. page[i].id \in Exported /\ page[i].vec \in Version
    BY <1>2
  <2>2. AsRead(source[page[i].id].rec) \in Version \cup {Textless}
    BY <1>1, <2>1 DEF AsRead
  <2> QED  BY <2>1, <2>2, ImportAssumption DEF Line, LineType
<1> HIDE DEF E
<1>4. [i \in 1 .. Len(page) |-> E(i)] \in Seq(LineType) /\ Len([i \in 1 .. Len(page) |-> E(i)]) = Len(page)
  BY <1>2, <1>3, IsASeq
<1> QED  BY <1>2, <1>4 DEF E

LEMMA TransferTypes ==
  ASSUME TransferInv, TransferNext  PROVE TransferTypeOK'
<1> USE DEF TransferInv, TransferTypeOK, exporting, importing
<1>1. CASE \E d \in Exported : SourceWrite(d)
  <2>1. PICK d \in Exported : SourceWrite(d)
    BY <1>1
  <2>2. PICK doc \in {Absent, [vec |-> LastVersion, rec |-> LastVersion], [source[d] EXCEPT !.rec = 0]} :
          source' = [source EXCEPT ![d] = doc]
    BY <2>1 DEF SourceWrite
  <2>3. doc \in [vec: Version, rec: Version]
    BY DEF Absent, Version
  <2>4. source' \in [Exported -> [vec: Version, rec: Version]]
    BY <2>2, <2>3
  <2> QED  BY <2>1, <2>4 DEF SourceWrite
<1>2. CASE Export
  <2>1. << >> \in Seq(LineType)
    OBVIOUS
  <2> QED  BY <1>2, <2>1 DEF Export, Jobs
<1>3. CASE List
  <2>1. PICK n \in 1 .. ListPage : \E ids \in [1 .. n -> Unlisted] : ListedPage(n, ids)
    BY <1>3 DEF List, ListedPage
  <2> PICK ids \in [1 .. n -> Unlisted] : ListedPage(n, ids)
    BY <2>1
  <2> USE DEF ListedPage
  <2>2. n \in Nat /\ \A i \in 1 .. n : ids[i] \in Exported
    BY ImportAssumption DEF Unlisted
  <2>3. \A i \in 1 .. n : [id |-> ids[i], vec |-> source[ids[i]].vec] \in [id: Exported, vec: Version]
    BY <2>2
  <2>4. page' \in Seq([id: Exported, vec: Version])
    BY <2>2, <2>3, IsASeq
  <2>5. listed' \in SUBSET Exported
    BY <2>2
  <2> QED  BY <1>3, <2>4, <2>5 DEF List, Jobs
<1>4. CASE WriteLines
  <2> DEFINE more == [i \in DOMAIN page |-> Line(page[i].id, page[i].vec, AsRead(source[page[i].id].rec))]
  <2>3. more \in Seq(LineType)
    BY LinesOfPage
  <2>4. lines' = lines \o more
    BY <1>4 DEF WriteLines
  <2> HIDE DEF more
  <2>5. lines' \in Seq(LineType)
    BY <2>3, <2>4, ConcatProperties
  <2>6. << >> \in Seq([id: Exported, vec: Version])
    OBVIOUS
  <2> QED  BY <1>4, <2>5, <2>6 DEF WriteLines, Jobs
<1>5. CASE ExportFails
  <2>1. << >> \in Seq([id: Exported, vec: Version])
    OBVIOUS
  <2> QED  BY <1>5, <2>1 DEF ExportFails, Jobs
<1>6. CASE ExportEnds
  BY <1>6 DEF ExportEnds, Jobs
<1>7. CASE EditFile
  <2>1. PICK i \in 0 .. Len(lines), o \in Oddities :
          lines' = SubSeq(lines, 1, i) \o <<o>> \o SubSeq(lines, i + 1, Len(lines))
    BY <1>7 DEF EditFile
  <2>2. o \in LineType
    BY DEF Oddities, LineType, Version
  <2>3. SubSeq(lines, 1, i) \in Seq(LineType) /\ SubSeq(lines, i + 1, Len(lines)) \in Seq(LineType)
    BY SubSeqProperties
  <2>4. lines' \in Seq(LineType)
    BY <2>1, <2>2, <2>3
  <2> QED  BY <1>7, <2>4 DEF EditFile
<1>8. CASE Import
  <2>1. << >> \in Seq(LineType)
    OBVIOUS
  <2>2. job' \in Jobs /\ at' \in Nat /\ count' \in Nat /\ imports' \in Nat /\ batch' \in Seq(LineType)
    <3>1. job' = "importing" /\ at' = 1 /\ count' = 0 /\ imports' = imports + 1 /\ batch' = << >>
      BY <1>8 DEF Import
    <3>2. imports + 1 \in Nat
      OBVIOUS
    <3> HIDE DEF TransferInv, TransferTypeOK
    <3> QED  BY <2>1, <3>1, <3>2 DEF Jobs
  <2> QED  BY <1>8, <2>2 DEF Import
<1>9. CASE ReadLine
  <2>1. at' \in Nat /\ job' \in Jobs
    <3>1. at + 1 \in Nat
      OBVIOUS
    <3> QED  BY <1>9, <3>1 DEF ReadLine, Jobs
  <2>2. CASE Good(Current)
    <3>2. Current \in LineType
      BY <1>9, CurrentLine DEF ReadLine
    <3> QED  BY <1>9, <2>1, <2>2, <3>2 DEF ReadLine
  <2>3. CASE ~Good(Current)
    BY <1>9, <2>1, <2>3 DEF ReadLine
  <2> QED  BY <2>2, <2>3
<1>10. CASE StoreBatch
  <2>1. << >> \in Seq(LineType) /\ Len(batch) \in Nat
    OBVIOUS
  <2> QED  BY <1>10, <2>1 DEF StoreBatch
<1>11. CASE StoreFails
  BY <1>11 DEF StoreFails, Jobs
<1>12. CASE ImportEnds
  BY <1>12 DEF ImportEnds, Jobs
<1> QED
  BY <1>1, <1>2, <1>3, <1>4, <1>5, <1>6, <1>7, <1>8, <1>9, <1>10, <1>11, <1>12 DEF TransferNext

-----------------------------------------------------------------------------
(* A page listed has the documents that had not been listed.               *)
LEMMA ListKeeps ==
  ASSUME TransferInv, List  PROVE ExportInv'
<1>1. PICK n \in 1 .. ListPage : \E ids \in [1 .. n -> Unlisted] : ListedPage(n, ids)
  BY DEF List, ListedPage
<1> PICK ids \in [1 .. n -> Unlisted] : ListedPage(n, ids)
  BY <1>1
<1>2. n \in Nat /\ \A i \in 1 .. n : ids[i] \in Exported \ listed /\ source[ids[i]].vec # 0
  BY ImportAssumption DEF Unlisted
<1>3. /\ job = "listing" /\ job' = "hydrating" /\ UNCHANGED <<source, quiet, lines, imports>>
  BY DEF List, importing
<1>4. page = << >> /\ imports = 0
  BY <1>3 DEF TransferInv, ExportInv, Storing, Jobs
<1>5. /\ DOMAIN page' = 1 .. n
      /\ \A i \in 1 .. n : page'[i].id = ids[i] /\ page'[i].vec = source[ids[i]].vec
      /\ \A i, j \in 1 .. n : i # j => ids[i] # ids[j]
      /\ \A d : d \in listed' <=> d \in listed \/ \E i \in 1 .. n : d = ids[i]
  BY DEF ListedPage
<1>6. ASSUME quiet  PROVE Whole_' /\ HasListed'
  <2>1. Whole_ /\ HasListed
    BY <1>6 DEF TransferInv, ExportInv
  <2>2. Whole_'
    BY <1>2, <1>3, <1>5, <2>1 DEF Whole_, HasListed
  <2>3. \A i \in DOMAIN lines' : lines'[i].id \in listed'
    BY <1>3, <1>5, <2>1 DEF HasListed
  <2>4. /\ \A i \in DOMAIN page' : page'[i].id \in listed'
        /\ \A d \in listed' : source'[d].vec # 0
    BY <1>2, <1>3, <1>5, <2>1 DEF HasListed
  <2>5. \A d \in listed' : (\E i \in DOMAIN lines' : lines'[i].id = d) \/ \E i \in DOMAIN page' : page'[i].id = d
    <3> SUFFICES ASSUME NEW d \in listed'
                 PROVE (\E i \in DOMAIN lines' : lines'[i].id = d) \/ \E i \in DOMAIN page' : page'[i].id = d
      OBVIOUS
    <3>1. CASE d \in listed
      BY <1>3, <1>4, <2>1, <3>1 DEF HasListed
    <3>2. CASE \E i \in 1 .. n : d = ids[i]
      BY <1>5, <3>2
    <3> QED  BY <1>5, <3>1, <3>2
  <2> QED  BY <2>2, <2>3, <2>4, <2>5 DEF HasListed
<1> QED  BY <1>3, <1>4, <1>6 DEF ExportInv, Storing, Jobs

LEMMA WriteLinesKeeps ==
  ASSUME TransferInv, WriteLines  PROVE ExportInv'
<1> DEFINE more == [i \in DOMAIN page |-> Line(page[i].id, page[i].vec, AsRead(source[page[i].id].rec))]
           m == Len(lines)
           n == Len(page)
<1>1. /\ job = "hydrating" /\ job' = "listing" /\ page' = << >> /\ lines' = lines \o more
      /\ UNCHANGED <<source, quiet, listed, imports>>
  BY DEF WriteLines, importing
<1>2. /\ DOMAIN page = 1 .. n /\ DOMAIN lines = 1 .. m /\ n \in Nat /\ m \in Nat
      /\ lines \in Seq(LineType)
  BY Positions DEF TransferInv, TransferTypeOK
<1>3. \A i \in 1 .. n : more[i] = Line(page[i].id, page[i].vec, AsRead(source[page[i].id].rec))
  BY <1>2
<1>4. more \in Seq(LineType) /\ Len(more) = n
  BY LinesOfPage DEF TransferInv
<1> HIDE DEF more, n, m
<1>5. /\ DOMAIN lines' = 1 .. m + n
      /\ \A i \in 1 .. m + n : lines'[i] = IF i <= m THEN lines[i] ELSE more[i - m]
  BY <1>1, <1>2, <1>4, ConcatProperties, Positions DEF m
<1>6. /\ \A i \in 1 .. m : i \in DOMAIN lines' /\ lines'[i] = lines[i]
      /\ \A i \in 1 .. n : m + i \in DOMAIN lines' /\ lines'[m + i] = more[i]
      /\ \A k \in DOMAIN lines' : k \in 1 .. m \/ (k - m \in 1 .. n /\ k = m + (k - m))
  BY <1>2, <1>5
<1>7. \A i \in 1 .. n : more[i].id = page[i].id
  <2> SUFFICES ASSUME NEW i \in 1 .. n  PROVE more[i].id = page[i].id
    OBVIOUS
  <2>1. more[i] = Line(page[i].id, page[i].vec, AsRead(source[page[i].id].rec))
    BY <1>3
  <2> QED  BY <2>1 DEF Line
<1>8. ASSUME quiet  PROVE Whole_' /\ HasListed'
  <2>1. Whole_ /\ HasListed
    BY <1>8 DEF TransferInv, ExportInv
  <2>2. ASSUME NEW k \in DOMAIN lines'
        PROVE  lines'[k] = Line(lines'[k].id, source'[lines'[k].id].vec, AsRead(source'[lines'[k].id].rec))
    <3>1. CASE k \in 1 .. m
      BY <1>1, <1>2, <1>6, <2>1, <3>1 DEF Whole_
    <3>2. CASE k - m \in 1 .. n /\ k = m + (k - m)
      <4>1. lines'[k] = more[k - m] /\ page[k - m].vec = source[page[k - m].id].vec
        BY <1>2, <1>6, <2>1, <3>2 DEF Whole_
      <4> QED  BY <1>1, <1>3, <1>7, <3>2, <4>1
    <3> QED  BY <1>6, <3>1, <3>2
  <2>3. ASSUME NEW i \in DOMAIN lines', NEW j \in DOMAIN lines', lines'[i].id = lines'[j].id  PROVE i = j
    <3>1. CASE i \in 1 .. m /\ j \in 1 .. m
      BY <1>2, <1>6, <2>1, <2>3, <3>1 DEF Whole_
    <3>2. CASE i \in 1 .. m /\ j - m \in 1 .. n /\ j = m + (j - m)
      <4>1. lines[i].id = page[j - m].id
        BY <1>6, <1>7, <2>3, <3>2
      <4> QED  BY <1>2, <2>1, <3>2, <4>1 DEF Whole_
    <3>3. CASE j \in 1 .. m /\ i - m \in 1 .. n /\ i = m + (i - m)
      <4>1. lines[j].id = page[i - m].id
        BY <1>6, <1>7, <2>3, <3>3
      <4> QED  BY <1>2, <2>1, <3>3, <4>1 DEF Whole_
    <3>4. CASE i - m \in 1 .. n /\ i = m + (i - m) /\ j - m \in 1 .. n /\ j = m + (j - m)
      <4>1. page[i - m].id = page[j - m].id
        BY <1>6, <1>7, <2>3, <3>4
      <4>2. i - m = j - m
        BY <1>2, <2>1, <3>4, <4>1 DEF Whole_
      <4> QED  BY <3>4, <4>2
    <3> QED  BY <1>6, <3>1, <3>2, <3>3, <3>4
  <2>4. Whole_'
    BY <1>1, <2>2, <2>3 DEF Whole_
  <2>5. ASSUME NEW k \in DOMAIN lines'  PROVE lines'[k].id \in listed'
    <3>1. CASE k \in 1 .. m
      BY <1>1, <1>2, <1>6, <2>1, <3>1 DEF HasListed
    <3>2. CASE k - m \in 1 .. n /\ k = m + (k - m)
      <4>1. lines'[k].id = page[k - m].id
        BY <1>6, <1>7, <3>2
      <4> QED  BY <1>1, <1>2, <2>1, <3>2, <4>1 DEF HasListed
    <3> QED  BY <1>6, <3>1, <3>2
  <2>6. ASSUME NEW d \in listed'  PROVE \E k \in DOMAIN lines' : lines'[k].id = d
    <3>1. (\E i \in 1 .. m : lines[i].id = d) \/ \E i \in 1 .. n : page[i].id = d
      BY <1>1, <1>2, <2>1 DEF HasListed
    <3>2. CASE \E i \in 1 .. m : lines[i].id = d
      BY <1>6, <3>2
    <3>3. CASE \E i \in 1 .. n : page[i].id = d
      BY <1>6, <1>7, <3>3
    <3> QED  BY <3>1, <3>2, <3>3
  <2> QED  BY <1>1, <2>1, <2>4, <2>5, <2>6 DEF HasListed
<1> QED  BY <1>1, <1>8 DEF TransferInv, ExportInv, Storing, Jobs

(* A step that leaves the export's part alone, or ends it.                 *)
LEMMA ExportStays ==
  ASSUME TransferInv, UNCHANGED <<source, quiet, listed, lines>>, page' = << >>, job' \in Jobs,
         job' \in Storing <=> imports' # 0, job' \notin {"ready", "listing", "hydrating"},
         job' = "exported" => job = "listing" /\ Unlisted = {}
  PROVE  ExportInv'
<1>1. ASSUME quiet  PROVE Whole_' /\ HasListed' /\ (job' = "exported" => Unlisted' = {})
  <2>1. Whole_ /\ HasListed
    BY <1>1 DEF TransferInv, ExportInv
  <2>2. DOMAIN page' = {}
    OBVIOUS
  <2>3. Whole_'
    BY <2>1, <2>2 DEF Whole_
  <2>4. job' = "exported" => page = << >> /\ Unlisted' = {}
    BY DEF TransferInv, ExportInv, Unlisted
  <2>5. HasListed'
    BY <2>1, <2>2, <2>4 DEF HasListed
  <2> QED  BY <2>3, <2>4, <2>5
<1> QED  BY <1>1 DEF ExportInv, Jobs, Storing

LEMMA ExportStep ==
  ASSUME TransferInv, TransferNext  PROVE ExportInv'
<1>0. /\ imports \in Nat /\ (job # "hydrating" => page = << >>) /\ (job = "ready" => lines = << >>)
      /\ (job \in Jobs \ Storing <=> imports = 0) /\ job \in Jobs
  BY DEF TransferInv, ExportInv, TransferTypeOK
<1> USE DEF exporting, importing, Jobs, Storing
<1>1. CASE \E d \in Exported : SourceWrite(d)
  <2>1. job' = job /\ job \in {"listing", "hydrating"} /\ quiet' = FALSE /\ UNCHANGED <<page, lines, imports>>
    BY <1>1 DEF SourceWrite
  <2> QED  BY <1>0, <2>1 DEF ExportInv
<1>2. CASE Export
  <2>1. job = "ready" /\ job' = "listing" /\ UNCHANGED <<source, quiet, listed, page, lines, imports>>
    BY <1>0, <1>2 DEF Export
  <2>2. quiet => Whole_ /\ HasListed
    BY DEF TransferInv, ExportInv
  <2> QED  BY <1>0, <2>1, <2>2 DEF ExportInv, Whole_, HasListed
<1>3. CASE List
  BY <1>3, ListKeeps
<1>4. CASE WriteLines
  BY <1>4, WriteLinesKeeps
<1>5. CASE ExportFails
  BY <1>0, <1>5, ExportStays DEF ExportFails
<1>6. CASE ExportEnds
  BY <1>0, <1>6, ExportStays DEF ExportEnds
<1>7. CASE EditFile
  <2>1. job' = job /\ job \in {"exported", "cut short"} /\ quiet' = FALSE /\ UNCHANGED <<page, imports>>
    BY <1>7 DEF EditFile
  <2> QED  BY <1>0, <2>1 DEF ExportInv
<1>8. CASE Import
  <2>1. /\ job' = "importing" /\ UNCHANGED <<source, quiet, listed, page, lines>>
        /\ imports' = imports + 1 /\ job # "hydrating"
    BY <1>8 DEF Import
  <2>2. imports \in Nat
    BY <1>0
  <2>3. imports' # 0
    BY <2>1, <2>2
  <2> QED  BY <1>0, <2>1, <2>3, ExportStays
<1>9. CASE ReadLine
  BY <1>0, <1>9, ExportStays DEF ReadLine, Reading
<1>10. CASE StoreBatch
  BY <1>0, <1>10, ExportStays DEF StoreBatch
<1>11. CASE StoreFails
  BY <1>0, <1>11, ExportStays DEF StoreFails
<1>12. CASE ImportEnds
  BY <1>0, <1>12, ExportStays DEF ImportEnds
<1> QED
  BY <1>1, <1>2, <1>3, <1>4, <1>5, <1>6, <1>7, <1>8, <1>9, <1>10, <1>11, <1>12 DEF TransferNext

(* What has been stored are the first documents of the file. *)
LEMMA DoneFirst ==
  ASSUME TransferTypeOK, ImportInv, job \in Storing
  PROVE  LET read == Read(at - 1) IN
         /\ Done \in Seq(LineType) /\ Len(Done) = count /\ count \in Nat /\ count <= Len(Documents)
         /\ \A k \in 1 .. count : Done[k] = Documents[k] /\ Done[k] = read[k]
         /\ read \in Seq(LineType) /\ Len(read) \in Nat /\ Len(batch) \in Nat
         /\ Documents \in Seq(LineType)
<1> DEFINE read == Read(at - 1)
<1>1. /\ lines \in Seq(LineType) /\ batch \in Seq(LineType) /\ count \in Nat /\ at \in Nat
      /\ at \in 1 .. Len(lines) + 1 /\ count + Len(batch) = Len(read)
  BY DEF TransferTypeOK, ImportInv
<1>2. at - 1 \in 0 .. Len(lines) /\ Len(batch) \in Nat
  BY <1>1
<1> HIDE DEF read
<1>3. /\ read \in Seq(LineType) /\ Len(read) <= Len(Documents)
      /\ Documents \in Seq(LineType) /\ Len(Documents) \in Nat
      /\ \A k \in 1 .. Len(read) : read[k] = Documents[k]
  BY <1>1, <1>2, ReadFirst DEF read
<1>4. Len(read) \in Nat /\ count <= Len(read) /\ count <= Len(Documents)
  BY <1>1, <1>2, <1>3, LenProperties
<1>5. Done \in Seq(LineType) /\ Len(Done) = count /\ \A k \in 1 .. count : Done[k] = Documents[k]
  <2>1. Documents \in Seq(LineType) /\ Len(Documents) \in Nat
    BY <1>3
  <2>2. \A i \in 1 .. count : Documents[i] \in LineType
    BY <1>1, <1>4, <2>1
  <2>3. /\ Done \in Seq(LineType) /\ Len(Done) = IF 1 <= count THEN count - 1 + 1 ELSE 0
        /\ \A i \in 1 .. count - 1 + 1 : Done[i] = Documents[1 + i - 1]
    BY <1>1, <2>2, SubSeqProperties DEF Done
  <2>4. count - 1 + 1 = count /\ \A i \in 1 .. count : 1 + i - 1 = i
    BY <1>1
  <2> HIDE DEF Done
  <2>5. Len(Done) = count
    BY <1>1, <2>3, <2>4
  <2>6. ASSUME NEW k \in 1 .. count  PROVE Done[k] = Documents[k]
    BY <2>3, <2>4
  <2> QED  BY <2>3, <2>5, <2>6
<1>6. ASSUME NEW k \in 1 .. count  PROVE Done[k] = read[k]
  <2>1. k \in 1 .. Len(read)
    BY <1>1, <1>4
  <2> QED  BY <1>3, <1>5, <2>1
<1> QED  BY <1>1, <1>2, <1>3, <1>4, <1>5, <1>6 DEF read

(* Storing the batch in hand makes the next documents stored, too.         *)
LEMMA DoneNext ==
  ASSUME TransferTypeOK, ImportInv, job \in Storing
  PROVE  SubSeq(Documents, 1, count + Len(batch)) = Done \o batch
<1> DEFINE read == Read(at - 1)
           n == count + Len(batch)
           t == SubSeq(Documents, 1, n)
           u == Done \o batch
<1>1. /\ Done \in Seq(LineType) /\ Len(Done) = count /\ count \in Nat
      /\ \A k \in 1 .. count : Done[k] = Documents[k]
      /\ read \in Seq(LineType) /\ Len(read) \in Nat /\ Len(batch) \in Nat /\ Documents \in Seq(LineType)
  BY DoneFirst
<1>2. n = Len(read) /\ batch \in Seq(LineType) /\ \A k \in DOMAIN batch : batch[k] = read[count + k]
  BY DEF ImportInv, TransferTypeOK
<1>3. at - 1 \in 0 .. Len(lines) /\ lines \in Seq(LineType)
  BY DEF ImportInv, TransferTypeOK
<1>4. Len(read) <= Len(Documents) /\ Len(Documents) \in Nat /\ \A k \in 1 .. n : read[k] = Documents[k]
  BY <1>2, <1>3, ReadFirst
<1> HIDE DEF read
<1>5. t \in Seq(LineType) /\ Len(t) = n /\ \A k \in 1 .. n : t[k] = Documents[k]
  BY <1>1, <1>2, <1>4
<1>6. u \in Seq(LineType) /\ Len(u) = n /\ \A k \in 1 .. n : u[k] = IF k <= count THEN Done[k] ELSE batch[k - count]
  BY <1>1, <1>2
<1> HIDE DEF t, u
<1>7. ASSUME NEW k \in 1 .. n  PROVE t[k] = u[k]
  <2>1. CASE k <= count
    <3>1. k \in 1 .. count
      BY <1>1, <2>1
    <3>2. u[k] = Done[k] /\ t[k] = Documents[k]
      BY <1>5, <1>6, <2>1
    <3> QED  BY <1>1, <3>1, <3>2
  <2>2. CASE ~(k <= count)
    <3>1. k - count \in 1 .. Len(batch) /\ count + (k - count) = k
      BY <1>1, <2>2
    <3>2. batch[k - count] = read[k]
      BY <1>2, <3>1
    <3> QED  BY <1>4, <1>5, <1>6, <2>2, <3>2
  <2> QED  BY <2>1, <2>2
<1>8. t = u
  BY <1>5, <1>6, <1>7, SeqEqual
<1> QED  BY <1>8 DEF t, u

-----------------------------------------------------------------------------
LEMMA ReadLineKeeps ==
  ASSUME TransferInv, ReadLine  PROVE ImportInv'
<1> DEFINE read == Read(at - 1)
<1>1. /\ job = "importing" /\ Reading
      /\ UNCHANGED <<lines, dim, count>>
  BY DEF ReadLine, Reading, exporting
<1>2. /\ lines \in Seq(LineType) /\ batch \in Seq(LineType) /\ count \in Nat
      /\ at \in 1 .. Len(lines) /\ Current = lines[at] /\ Current \in LineType
      /\ count + Len(batch) = Len(read) /\ \A k \in DOMAIN batch : batch[k] = read[count + k]
  BY <1>1, CurrentLine DEF TransferInv, TransferTypeOK, ImportInv, Storing
<1>3. Read(at - 1)' = Picked(lines, {i \in 1 .. at' - 1 : Good(lines[i])})
  BY <1>1 DEF Read, Good
<1>4. Read(at) = IF Good(lines[at]) THEN Append(read, lines[at]) ELSE read
  BY <1>2, ReadNext
<1>5. at - 1 \in 0 .. Len(lines) /\ (at + 1) - 1 = at /\ Len(lines) \in Nat
  BY <1>2
<1> HIDE DEF read
<1>6. read \in Seq(LineType)
  BY <1>2, <1>5, ReadFirst DEF read
<1>7. CASE Good(Current)
  <2>1. at' = at + 1 /\ job' = job /\ batch' = Append(batch, Current)
    BY <1>7 DEF ReadLine
  <2>2. Read(at - 1)' = Append(read, Current)
    BY <1>2, <1>3, <1>4, <1>5, <1>7, <2>1 DEF Read
  <2> DEFINE n == Len(batch)
             more == Append(batch, Current)
             then == Append(read, Current)
  <2>a. /\ n \in Nat /\ Len(read) = count + n /\ DOMAIN more = 1 .. n + 1 /\ Len(more) = n + 1
        /\ \A k \in 1 .. n : more[k] = batch[k] /\ k \in DOMAIN batch
        /\ more[n + 1] = Current
    BY <1>2
  <2>b. /\ Len(then) = Len(read) + 1 /\ then[Len(read) + 1] = Current
        /\ \A k \in 1 .. Len(read) : then[k] = read[k]
    BY <1>2, <1>6
  <2> HIDE DEF n, more, then
  <2>3. count + Len(more) = Len(then)
    BY <1>2, <2>a, <2>b
  <2>4. ASSUME NEW k \in DOMAIN more  PROVE more[k] = then[count + k]
    <3>1. CASE k \in 1 .. n
      <4>1. count + k \in 1 .. Len(read)
        BY <1>2, <2>a, <3>1
      <4> QED  BY <1>2, <2>a, <2>b, <3>1, <4>1
    <3>2. CASE k = n + 1
      <4>1. count + k = Len(read) + 1
        BY <1>2, <2>a, <3>2
      <4> QED  BY <2>a, <2>b, <3>2, <4>1
    <3> QED  BY <2>a, <3>1, <3>2
  <2>5. at' \in 1 .. Len(lines) + 1
    BY <1>2, <1>5, <2>1
  <2> QED  BY <1>1, <2>1, <2>2, <2>3, <2>4, <2>5 DEF ImportInv, more, then
<1>8. CASE ~Good(Current) /\ Current.kind = "blank"
  <2>1. at' = at + 1 /\ job' = job /\ batch' = batch
    BY <1>8 DEF ReadLine
  <2>2. Read(at - 1)' = read
    BY <1>2, <1>3, <1>4, <1>5, <1>8, <2>1 DEF Read
  <2>3. at' \in 1 .. Len(lines) + 1
    BY <1>2, <1>5, <2>1
  <2> QED  BY <1>1, <1>2, <2>1, <2>2, <2>3 DEF ImportInv
<1>9. CASE ~Good(Current) /\ Current.kind # "blank"
  <2>1. at' = at /\ job' = "refused" /\ batch' = batch
    BY <1>9 DEF ReadLine
  <2>2. Read(at - 1)' = read
    BY <1>3, <2>1 DEF read, Read
  <2>3. at' \in 1 .. Len(lines) + 1
    BY <1>2, <1>5, <2>1
  <2> QED  BY <1>1, <1>2, <2>1, <2>2, <2>3 DEF ImportInv
<1> QED  BY <1>7, <1>8, <1>9

LEMMA ImportBegins ==
  ASSUME TransferInv, Import  PROVE ImportInv' /\ TargetInv'
<1>1. /\ job' = "importing" /\ at' = 1 /\ batch' = << >> /\ count' = 0 /\ imports' = imports + 1
      /\ UNCHANGED <<target, lines, torn>>
  BY DEF Import, exporting
<1>2. lines \in Seq(LineType) /\ imports \in Nat /\ DOMAIN target = Exported
  BY DEF TransferInv, TransferTypeOK
<1>3. lines' \in Seq(LineType)
  BY <1>1, <1>2
<1>4. Len(Picked(lines', {})) = 0
  BY <1>3, NothingPicked
<1>5. ImportInv'
  <2>1. {i \in 1 .. at' - 1 : Good(lines[i])'} = {}
    BY <1>1
  <2>2. Len(Read(at - 1)') = 0
    BY <1>4, <2>1 DEF Read
  <2>3. Len(lines) \in Nat /\ Len(<< >>) = 0 /\ DOMAIN << >> = {}
    BY <1>2
  <2> QED  BY <1>1, <2>2, <2>3 DEF ImportInv
<1>6. Done' = << >>
  <2>1. Documents' \in Seq(LineType)
    BY <1>3, PickedFrom DEF Documents
  <2> QED  BY <1>1, <2>1 DEF Done
<1>7. \A d : ~Names(Done', DOMAIN Done', d) /\ AfterStoring(Done', Absent, d) = Absent
  BY <1>6, StoringNothing
<1>8. imports' = 1 => imports = 0
  BY <1>1, <1>2
<1>9. imports' # 0
  BY <1>1, <1>2
<1>10. imports = 0 => \A d \in Exported : target[d] = Absent
  BY DEF TransferInv, TargetInv
<1>11. TargetInv'
  BY <1>1, <1>7, <1>8, <1>9, <1>10 DEF TargetInv
<1> QED  BY <1>5, <1>11

LEMMA StoreBatchKeeps ==
  ASSUME TransferInv, StoreBatch  PROVE ImportInv' /\ TargetInv'
<1>1. /\ job = "importing" /\ job' = job /\ count' = count + Len(batch) /\ batch' = << >>
      /\ target' = [d \in Exported |-> AfterStoring(batch, target[d], d)]
      /\ UNCHANGED <<lines, at, dim, torn, imports>>
  BY DEF StoreBatch, exporting
<1>2. TransferTypeOK /\ ImportInv /\ job \in Storing
  BY <1>1 DEF TransferInv, Storing
<1>3. Documents' = Documents /\ Read(at - 1)' = Read(at - 1)
  BY <1>1 DEF Documents, Read, Good
<1>4. Done' = Done \o batch
  BY <1>1, <1>2, <1>3, DoneNext DEF Done
<1>5. Done \in Seq(LineType) /\ batch \in Seq(LineType) /\ count \in Nat /\ Len(batch) \in Nat
  BY <1>2, DoneFirst DEF TransferTypeOK
<1>6. ImportInv'
  <2>1. at \in 1 .. Len(lines) + 1 /\ count + Len(batch) = Len(Read(at - 1))
    BY <1>1, <1>2 DEF ImportInv
  <2>3. Len(<< >>) = 0 /\ DOMAIN << >> = {} /\ (count + Len(batch)) + 0 = count + Len(batch)
    BY <1>5
  <2> QED  BY <1>1, <1>3, <2>1, <2>3 DEF ImportInv
<1>7. \A d : AfterStoring(Done', Absent, d) = AfterStoring(batch, AfterStoring(Done, Absent, d), d)
  BY <1>4, <1>5, StoringInTwo
<1>8. ASSUME NEW d \in Exported, target[d] = AfterStoring(Done, Absent, d)
      PROVE  target'[d] = AfterStoring(Done', Absent, d)
  BY <1>1, <1>7, <1>8
<1>9. ASSUME NEW d \in Exported, Names(Done', DOMAIN Done', d)
      PROVE  target'[d] = AfterStoring(Done', Absent, d)
  <2>1. CASE Names(batch, DOMAIN batch, d)
    <3>1. AfterStoring(batch, target[d], d) = AfterStoring(batch, AfterStoring(Done, Absent, d), d)
      BY <2>1, StoringForgets
    <3> QED  BY <1>1, <1>7, <3>1
  <2>2. CASE ~Names(batch, DOMAIN batch, d)
    <3>1. Names(Done, DOMAIN Done, d)
      BY <1>4, <1>5, <1>9, <2>2, NamesInTwo
    <3>2. target[d] = AfterStoring(Done, Absent, d)
      BY <1>1, <3>1 DEF TransferInv, TargetInv
    <3> QED  BY <1>8, <3>2
  <2> QED  BY <2>1, <2>2
<1>10. imports # 0
  BY <1>1 DEF TransferInv, ExportInv, Storing, Jobs
<1>11. imports = 1 /\ ~torn => \A d \in Exported : target[d] = AfterStoring(Done, Absent, d)
  BY DEF TransferInv, TargetInv
<1>12. TargetInv'
  BY <1>1, <1>8, <1>9, <1>10, <1>11 DEF TargetInv
<1> QED  BY <1>6, <1>12

(* Steps that store nothing. *)
LEMMA TargetStays ==
  ASSUME TransferInv, UNCHANGED <<target, torn, count, imports>>,
         UNCHANGED <<lines, dim>> \/ (imports = 0 /\ job' \notin Storing),
         job' \in {"importing", "imported"} => job \in {"importing", "imported"}
  PROVE  TargetInv'
<1>1. CASE UNCHANGED <<lines, dim>>
  <2>1. Documents' = Documents
    BY <1>1 DEF Documents, Good
  <2>2. Done' = Done
    BY <2>1 DEF Done
  <2> QED  BY <2>2 DEF TransferInv, TargetInv
<1>2. CASE imports = 0 /\ job' \notin Storing
  BY <1>2 DEF TransferInv, TargetInv, Storing
<1> QED  BY <1>1, <1>2

LEMMA ImportStep ==
  ASSUME TransferInv, TransferNext  PROVE ImportInv' /\ TargetInv'
<1>0. job \in Jobs \ Storing <=> imports = 0
  BY DEF TransferInv, ExportInv
<1> USE DEF exporting, importing, Storing, Jobs
<1>1. CASE \E d \in Exported : SourceWrite(d)
  <2>1. UNCHANGED <<target, job, lines, at, dim, batch, count, torn, imports>> /\ job \notin Storing
    BY <1>1 DEF SourceWrite
  <2> QED  BY <2>1, TargetStays DEF ImportInv
<1>2. CASE Export \/ List \/ WriteLines \/ ExportFails \/ ExportEnds \/ EditFile
  <2>1. job \in Jobs \ Storing /\ job' \in Jobs \ Storing
    BY <1>2 DEF Export, List, WriteLines, ExportFails, ExportEnds, EditFile
  <2>2. UNCHANGED <<target, torn, count, imports>>
    BY <1>2 DEF Export, List, WriteLines, ExportFails, ExportEnds, EditFile
  <2> QED  BY <1>0, <2>1, <2>2, TargetStays DEF ImportInv
<1>3. CASE Import
  BY <1>3, ImportBegins
<1>4. CASE ReadLine
  <2>1. UNCHANGED <<target, torn, count, imports, lines, dim>> /\ job = "importing"
    BY <1>4 DEF ReadLine, Reading
  <2> QED  BY <1>4, <2>1, ReadLineKeeps, TargetStays
<1>5. CASE StoreBatch
  BY <1>5, StoreBatchKeeps
<1>6. CASE StoreFails
  <2>1. /\ job = "importing" /\ job' = "refused" /\ torn' = TRUE
        /\ UNCHANGED <<lines, at, dim, batch, count, imports>>
    BY <1>6 DEF StoreFails
  <2>2. ImportInv
    BY DEF TransferInv
  <2>3. ImportInv'
    BY <2>1, <2>2 DEF ImportInv, Read, Good
  <2>4. imports' # 0
    BY <1>0, <2>1
  <2> QED  BY <2>1, <2>3, <2>4 DEF TargetInv
<1>7. CASE ImportEnds
  <2>1. /\ job = "importing" /\ job' = "imported" /\ ~BatchFull /\ at > Len(lines)
        /\ UNCHANGED <<target, lines, at, dim, batch, count, torn, imports>>
    BY <1>7 DEF ImportEnds
  <2>2. ImportInv /\ lines \in Seq(LineType) /\ at \in Nat
    BY DEF TransferInv, TransferTypeOK
  <2>3. at = Len(lines) + 1 /\ batch = << >>
    BY <2>1, <2>2 DEF ImportInv, BatchFull
  <2>4. ImportInv'
    BY <2>1, <2>2, <2>3 DEF ImportInv, Read, Good
  <2> QED  BY <2>1, <2>4, TargetStays
<1> QED
  BY <1>1, <1>2, <1>3, <1>4, <1>5, <1>6, <1>7 DEF TransferNext

LEMMA TransferUnchanged ==
  ASSUME TransferInv, UNCHANGED trvars  PROVE TransferInv'
<1> USE DEF trvars
<1>1. TransferTypeOK'
  BY DEF TransferInv, TransferTypeOK, LineType, Version
<1>2. ExportInv'
  BY DEF TransferInv, ExportInv, Whole_, HasListed, Unlisted
<1>3. ImportInv' /\ TargetInv'
  BY DEF TransferInv, ImportInv, TargetInv, Read, Documents, Done, Good
<1> QED  BY <1>1, <1>2, <1>3 DEF TransferInv

(* The import's part of the property from the invariant.                   *)
LEMMA StoredWhole ==
  ASSUME TransferInv  PROVE CountStored /\ ImportedWhole
<1>1. TransferTypeOK /\ ImportInv /\ TargetInv /\ (job \in Jobs \ Storing <=> imports = 0) /\ job \in Jobs
  BY DEF TransferInv, ExportInv, TransferTypeOK
<1>2. CountStored
  <2> SUFFICES ASSUME imports = 1, ~torn  PROVE CountStored
    BY DEF CountStored
  <2>1. job \in Storing
    BY <1>1
  <2>2. count <= Len(Documents)
    BY <1>1, <2>1, DoneFirst
  <2> QED  BY <1>1, <2>2 DEF CountStored, TargetInv, Done
<1>3. ImportedWhole
  <2> SUFFICES ASSUME job = "imported"  PROVE ImportedWhole
    BY DEF ImportedWhole
  <2>1. at = Len(lines) + 1 /\ batch = << >> /\ count + Len(batch) = Len(Read(at - 1))
    BY <1>1 DEF ImportInv, Storing
  <2>2. lines \in Seq(LineType) /\ count \in Nat
    BY <1>1 DEF TransferTypeOK
  <2>3. at - 1 = Len(lines) /\ Len(batch) = 0
    BY <2>1, <2>2
  <2>4. count = Len(Documents)
    BY <2>1, <2>2, <2>3, ReadAll
  <2>5. Documents \in Seq(LineType)
    BY <1>1, DoneFirst DEF Storing
  <2>6. Done = Documents
    BY <2>4, <2>5 DEF Done
  <2>7. ASSUME NEW i \in DOMAIN Documents
        PROVE  target[Documents[i].id] = AfterStoring(Documents, Absent, Documents[i].id)
    <3>1. Documents[i].id \in Exported /\ Names(Documents, DOMAIN Documents, Documents[i].id)
      <4>1. Documents[i] \in LineType
        BY <2>5
      <4> QED  BY <4>1 DEF Names, LineType
    <3> QED  BY <1>1, <2>6, <3>1 DEF TargetInv
  <2> QED  BY <2>4, <2>7 DEF ImportedWhole
<1> QED  BY <1>2, <1>3

(* A namespace goes through a file and back: an export nobody disturbs has *)
(* every document once, an import counts what it has stored and, once it   *)
(* ends, has stored the whole file, the last of the lines of each id.      *)
THEOREM TransferLossless == TransferSpec => []TransferExact
<1>1. TransferInit => TransferInv
  BY TransferInitInv
<1>2. TransferInv /\ [TransferNext]_trvars => TransferInv'
  BY TransferTypes, ExportStep, ImportStep, TransferUnchanged DEF TransferInv
<1>3. TransferInv => TransferExact
  <2> SUFFICES ASSUME TransferInv  PROVE TransferExact
    OBVIOUS
  <2>1. ExportedWhole
    <3> SUFFICES ASSUME quiet  PROVE ExportedWhole
      BY DEF ExportedWhole
    <3>1. Whole_ /\ HasListed /\ (job = "exported" => Unlisted = {} /\ page = << >>) /\ lines \in Seq(LineType)
      BY DEF TransferInv, ExportInv, TransferTypeOK
    <3>2. job = "exported" => {d \in Exported : source[d].vec # 0} = {lines[i].id : i \in DOMAIN lines}
      <4> SUFFICES ASSUME job = "exported"
                   PROVE {d \in Exported : source[d].vec # 0} = {lines[i].id : i \in DOMAIN lines}
        OBVIOUS
      <4>1. ASSUME NEW d \in Exported, source[d].vec # 0  PROVE \E i \in DOMAIN lines : lines[i].id = d
        <5>1. d \in listed
          BY <3>1, <4>1 DEF Unlisted
        <5>2. DOMAIN page = {}
          BY <3>1
        <5> QED  BY <3>1, <5>1, <5>2 DEF HasListed
      <4>2. ASSUME NEW i \in DOMAIN lines  PROVE lines[i].id \in Exported /\ source[lines[i].id].vec # 0
        BY <3>1 DEF HasListed, TransferInv, TransferTypeOK
      <4> QED  BY <4>1, <4>2
    <3>3. \A i \in DOMAIN lines : \A j \in 1 .. (i - 1) : j \in DOMAIN lines /\ j # i
      BY <3>1
    <3> QED  BY <3>1, <3>2, <3>3 DEF ExportedWhole, Whole_
  <2> QED  BY <2>1, StoredWhole DEF TransferExact
<1> QED  BY <1>1, <1>2, <1>3, PTL DEF TransferSpec

-----------------------------------------------------------------------------
(***************************************************************************)
(* Composed retrievers.                                                    *)
(***************************************************************************)
(* The first `most' of a set of positions.                                *)
LEMMA FirstPositions ==
  ASSUME NEW X, NEW seq \in Seq(X), NEW J \in SUBSET DOMAIN seq, NEW most \in Nat \ {0}
  PROVE  LET I == {i \in J : Cardinality({j \in J : j < i}) < most} IN
         /\ I \in SUBSET J /\ Cardinality(I) \in Nat /\ Cardinality(I) <= most
         /\ I = {} => J = {}
<1> DEFINE Before(i) == {j \in J : j < i}
           I == {i \in J : Cardinality(Before(i)) < most}
<1>1. IsFiniteSet(J) /\ J \in SUBSET Nat
  BY Positions, FS_Subset
<1>2. I \in SUBSET J /\ IsFiniteSet(I) /\ Cardinality(I) \in Nat
  <2>1. I \in SUBSET J
    OBVIOUS
  <2> HIDE DEF I
  <2> QED  BY <1>1, <2>1, FS_Subset, FS_CardinalityType
<1>3. \A i \in J : IsFiniteSet(Before(i)) /\ Cardinality(Before(i)) \in Nat
  <2> SUFFICES ASSUME NEW i \in J  PROVE IsFiniteSet(Before(i)) /\ Cardinality(Before(i)) \in Nat
    OBVIOUS
  <2>1. Before(i) \in SUBSET J
    OBVIOUS
  <2> HIDE DEF Before
  <2> QED  BY <1>1, <2>1, FS_Subset, FS_CardinalityType
<1>4. ASSUME J # {}  PROVE I # {}
  <2>1. PICK i \in J : \A j \in J : i <= j
    BY <1>1, <1>4, LeastNumber
  <2>2. Before(i) = {}
    BY <1>1, <2>1
  <2>3. Cardinality(Before(i)) = 0
    BY <2>2, FS_EmptySet
  <2> QED  BY <2>3
<1>5. Cardinality(I) <= most
  <2> SUFFICES ASSUME most < Cardinality(I)  PROVE FALSE
    BY <1>2
  <2> DEFINE n == Cardinality(I)
             x == Increasing(I)[n]
  <2>1. n \in 1 .. n /\ n \in Nat
    BY <1>2
  <2>2. I \in SUBSET DOMAIN seq
    BY <1>2
  <2> HIDE DEF I, n
  <2>3. x \in I /\ \A k \in 1 .. n : Increasing(I)[k] = x => k = n
    BY <2>1, <2>2, PickedFrom DEF Numbers, n
  <2> HIDE DEF x
  <2>4. Cardinality({y \in I : y <= x}) = n
    BY <2>2, <2>3, IncreasingPlace DEF n
  <2> DEFINE U == {y \in I : y <= x}
             L == {y \in I : y < x}
  <2>5. U = L \cup {x} /\ x \notin L /\ L \in SUBSET I /\ L \in SUBSET Before(x) /\ x \in J
    BY <1>1, <1>2, <2>3
  <2> HIDE DEF U, L, Before
  <2>6. IsFiniteSet(L) /\ Cardinality(L) \in Nat /\ Cardinality(U) = Cardinality(L) + 1
    BY <1>2, <2>5, FS_Subset, FS_AddElement, FS_CardinalityType
  <2>7. Cardinality(L) <= Cardinality(Before(x))
    BY <1>3, <2>5, FS_Subset
  <2>8. Cardinality(Before(x)) < most
    BY <2>3 DEF I
  <2>9. Cardinality(U) = n
    BY <2>4 DEF U
  <2>10. Cardinality(Before(x)) \in Nat
    BY <1>3, <2>5
  <2> QED  BY <2>1, <2>6, <2>7, <2>8, <2>9, <2>10 DEF n
<1> QED  BY <1>2, <1>4, <1>5

(* What is kept of what the model returns: no two texts alike, none that   *)
(* has been seen, no more than allowed, and nothing only if nothing is of  *)
(* use.                                                                    *)
LEMMA CleanTextsKeep ==
  ASSUME NEW X, NEW out \in Seq(X), NEW seen, NEW most \in Nat \ {0}
  PROVE  LET texts == CleanTexts(seen, out, most) IN
         /\ texts \in Seq(X) /\ Len(texts) \in Nat /\ Len(texts) <= most
         /\ \A i, j \in DOMAIN texts : i # j => texts[i] # texts[j]
         /\ \A i \in DOMAIN texts : /\ KeyOf[texts[i]] \notin {Blank} \cup seen
                                    /\ \E j \in DOMAIN out : texts[i] = out[j]
         /\ texts = << >> => \A i \in DOMAIN out : KeyOf[out[i]] \in {Blank} \cup seen
<1> DEFINE New(i) == /\ KeyOf[out[i]] # Blank /\ KeyOf[out[i]] \notin seen
                     /\ \A j \in 1 .. i - 1 : KeyOf[out[j]] # KeyOf[out[i]]
           J == {i \in DOMAIN out : New(i)}
           I == {i \in J : Cardinality({j \in J : j < i}) < most}
           texts == Picked(out, I)
           n == Cardinality(I)
<1>1. CleanTexts(seen, out, most) = texts
  BY DEF CleanTexts
<1>2. J \in SUBSET DOMAIN out /\ DOMAIN out = 1 .. Len(out) /\ Len(out) \in Nat
  OBVIOUS
<1>3. \A i \in J : New(i)
  OBVIOUS
<1>4. J = {} => \A i \in DOMAIN out : KeyOf[out[i]] \in {Blank} \cup seen
  <2> SUFFICES ASSUME J = {}, NEW i \in DOMAIN out, KeyOf[out[i]] \notin {Blank} \cup seen  PROVE FALSE
    OBVIOUS
  <2> DEFINE T == {m \in DOMAIN out : KeyOf[out[m]] = KeyOf[out[i]]}
  <2>1. T \in SUBSET Nat /\ T # {}
    BY <1>2
  <2>2. PICK m \in T : \A k \in T : m <= k
    BY <2>1, LeastNumber
  <2>3. m \in DOMAIN out /\ KeyOf[out[m]] = KeyOf[out[i]]
    OBVIOUS
  <2>4. \A j \in 1 .. m - 1 : KeyOf[out[j]] # KeyOf[out[m]]
    <3> SUFFICES ASSUME NEW j \in 1 .. m - 1, KeyOf[out[j]] = KeyOf[out[m]]  PROVE FALSE
      OBVIOUS
    <3>1. j \in DOMAIN out /\ ~(m <= j)
      BY <1>2, <2>3
    <3>2. j \in T
      BY <2>3, <3>1
    <3> QED  BY <2>2, <3>1, <3>2
  <2>5. New(m)
    BY <2>3, <2>4
  <2> QED  BY <2>3, <2>5
<1> HIDE DEF J, New
<1>5. /\ I \in SUBSET J /\ n \in Nat /\ n <= most
      /\ I = {} => J = {}
  BY <1>2, FirstPositions
<1> HIDE DEF I
<1>6. I \in SUBSET DOMAIN out /\ \A i \in I : New(i)
  BY <1>2, <1>3, <1>5
<1>7. /\ Numbers(Increasing(I), n, I)
      /\ texts \in Seq(X) /\ Len(texts) = n
      /\ \A k \in 1 .. n : texts[k] = out[Increasing(I)[k]]
  BY <1>6, PickedFrom
<1>8. DOMAIN texts = 1 .. n /\ \A k \in 1 .. n : Increasing(I)[k] \in I
  BY <1>7 DEF Numbers
<1> HIDE DEF texts
<1>9. ASSUME NEW i \in I, NEW j \in I, i # j  PROVE out[i] # out[j]
  <2>1. i \in Nat /\ j \in Nat /\ i >= 1 /\ j >= 1
    BY <1>2, <1>6
  <2>2. New(i) /\ New(j)
    BY <1>6
  <2>3. i \in 1 .. j - 1 \/ j \in 1 .. i - 1
    BY <1>9, <2>1
  <2> QED  BY <2>2, <2>3 DEF New
<1>10. ASSUME NEW i \in DOMAIN texts, NEW j \in DOMAIN texts, i # j  PROVE texts[i] # texts[j]
  <2>1. Increasing(I)[i] # Increasing(I)[j]
    BY <1>7, <1>8, <1>10 DEF Numbers
  <2> QED  BY <1>7, <1>8, <1>9, <2>1
<1>11. ASSUME NEW i \in DOMAIN texts
       PROVE  KeyOf[texts[i]] \notin {Blank} \cup seen /\ \E j \in DOMAIN out : texts[i] = out[j]
  <2>1. Increasing(I)[i] \in I /\ texts[i] = out[Increasing(I)[i]]
    BY <1>7, <1>8
  <2> QED  BY <1>6, <2>1 DEF New
<1>12. texts = << >> => I = {}
  <2> SUFFICES ASSUME texts = << >>  PROVE I = {}
    OBVIOUS
  <2>1. n = 0
    BY <1>7
  <2>2. IsFiniteSet(I)
    BY <1>6, Positions, FS_Subset
  <2> QED  BY <2>1, <2>2, FS_EmptySet DEF n
<1> QED  BY <1>1, <1>4, <1>5, <1>7, <1>10, <1>11, <1>12

-----------------------------------------------------------------------------
(* What a plan is, for a call that was given out by the model.             *)
PlanSound(plan, out) ==
  LET usable == IF out = Failed THEN {} ELSE {KeyOf[t] : t \in ToSet(out)} \ {Blank, KeyOf[Query]}
      plain == {i \in DOMAIN plan : plan[i].task = Text(Query)}
  IN /\ (setup.original \/ (usable = {} /\ setup.kind = "multi query")) => plain = {1}
     /\ plan # <<>> /\ Cardinality(DOMAIN plan \ plain) <= setup.limit
     /\ \A i, j \in DOMAIN plan : i # j => plan[i].task # plan[j].task

(* The query, perhaps, and then as many expansions as allowed.             *)
PlanOf(p, w, v, n, task) ==
  (IF p = 1 THEN << [w |-> w, task |-> Text(Query)] >> ELSE << >>)
    \o [i \in 1 .. n |-> [w |-> v, task |-> task[i]]]
Plain(plan) == {i \in DOMAIN plan : plan[i].task = Text(Query)}

PlanShape(p, w, v, n, task, most) ==
  LET plan == PlanOf(p, w, v, n, task) IN
  /\ DOMAIN plan = 1 .. p + n /\ Len(plan) = p + n /\ plan # << >>
  /\ p = 1 => Plain(plan) = {1}
  /\ Cardinality(DOMAIN plan \ Plain(plan)) <= most
  /\ \A i, j \in DOMAIN plan : i # j => plan[i].task # plan[j].task

Expansions(task, n) ==
  /\ \A i \in 1 .. n : task[i] # Text(Query)
  /\ \A i, j \in 1 .. n : i # j => task[i] # task[j]

LEMMA PlanJoined ==
  ASSUME NEW most \in Nat, NEW n \in Nat, n <= most, NEW p \in {0, 1}, p + n # 0,
         NEW w, NEW v, NEW task, Expansions(task, n)
  PROVE  PlanShape(p, w, v, n, task, most)
<1> DEFINE q == IF p = 1 THEN << [w |-> w, task |-> Text(Query)] >> ELSE << >>
           r == [i \in 1 .. n |-> [w |-> v, task |-> task[i]]]
           S == {[w |-> w, task |-> Text(Query)]} \cup {[w |-> v, task |-> task[i]] : i \in 1 .. n}
           plan == q \o r
           plain == {i \in DOMAIN plan : plan[i].task = Text(Query)}
<1>1. q \in Seq(S) /\ Len(q) = p /\ (p = 1 => q[1].task = Text(Query))
  <2> DEFINE x == [w |-> w, task |-> Text(Query)]
  <2>1. x \in S /\ x.task = Text(Query)
    OBVIOUS
  <2>2. q = IF p = 1 THEN <<x>> ELSE << >>
    OBVIOUS
  <2> HIDE DEF S, x, q
  <2>3. CASE p = 1
    BY <2>1, <2>2, <2>3
  <2>4. CASE p = 0
    BY <2>2, <2>4
  <2> QED  BY <2>3, <2>4
<1>2. r \in Seq(S) /\ Len(r) = n /\ \A i \in 1 .. n : r[i].task = task[i]
  <2> DEFINE E(i) == [w |-> v, task |-> task[i]]
  <2>1. \A i \in 1 .. n : E(i) \in S
    OBVIOUS
  <2> HIDE DEF S, E
  <2>2. [i \in 1 .. n |-> E(i)] \in Seq(S)
    BY <2>1, IsASeq
  <2>3. r = [i \in 1 .. n |-> E(i)]
    BY DEF E
  <2>4. \A i \in 1 .. n : r[i].task = task[i]
    BY DEF E
  <2>5. DOMAIN r = 1 .. n
    OBVIOUS
  <2> HIDE DEF r
  <2> QED  BY <2>2, <2>3, <2>4, <2>5
<1> HIDE DEF q, r, S
<1>3. /\ plan \in Seq(S) /\ Len(plan) = p + n
      /\ \A i \in 1 .. p + n : plan[i] = IF i <= p THEN q[i] ELSE r[i - p]
  BY <1>1, <1>2, ConcatProperties
<1>4. DOMAIN plan = 1 .. p + n
  BY <1>3
<1> HIDE DEF plan
<1>5. \A i \in 1 .. p + n : \/ i = 1 /\ p = 1 /\ plan[i].task = Text(Query)
                            \/ i - p \in 1 .. n /\ plan[i].task = task[i - p] /\ i = p + (i - p)
  <2> SUFFICES ASSUME NEW i \in 1 .. p + n
               PROVE  \/ i = 1 /\ p = 1 /\ plan[i].task = Text(Query)
                      \/ i - p \in 1 .. n /\ plan[i].task = task[i - p] /\ i = p + (i - p)
    OBVIOUS
  <2>1. CASE i <= p
    <3>1. i = 1 /\ p = 1
      BY <2>1
    <3> QED  BY <1>1, <1>3, <2>1, <3>1
  <2>2. CASE ~(i <= p)
    <3>1. i - p \in 1 .. n /\ i = p + (i - p)
      BY <2>2
    <3>2. plan[i] = r[i - p]
      BY <1>3, <2>2
    <3> QED  BY <1>2, <3>1, <3>2
  <2> QED  BY <2>1, <2>2
<1>6. plan # << >>
  BY <1>3
<1>7. plain = {i \in 1 .. p + n : i <= p}
  BY <1>4, <1>5 DEF Expansions
<1>8. DOMAIN plan \ plain = p + 1 .. p + n
  BY <1>4, <1>7
<1>9. Cardinality(p + 1 .. p + n) = IF p + 1 > p + n THEN 0 ELSE (p + n) - (p + 1) + 1
  BY FS_Interval
<1>10. \A i, j \in DOMAIN plan : i # j => plan[i].task # plan[j].task
  <2> SUFFICES ASSUME NEW i \in 1 .. p + n, NEW j \in 1 .. p + n, i # j
               PROVE  plan[i].task # plan[j].task
    BY <1>4
  <2>1. \A m \in 1 .. n : task[m] # Text(Query)
    BY DEF Expansions
  <2>2. ASSUME i - p \in 1 .. n, j - p \in 1 .. n  PROVE task[i - p] # task[j - p]
    <3>1. i - p # j - p
      OBVIOUS
    <3> QED  BY <2>2, <3>1 DEF Expansions
  <2> HIDE DEF plan
  <2>3. CASE i = 1 /\ p = 1 /\ plan[i].task = Text(Query)
    <3>1. j - p \in 1 .. n /\ plan[j].task = task[j - p]
      BY <1>5, <2>3
    <3> QED  BY <2>1, <2>3, <3>1
  <2>4. CASE i - p \in 1 .. n /\ plan[i].task = task[i - p]
    <3>1. CASE j - p \in 1 .. n /\ plan[j].task = task[j - p]
      BY <2>2, <2>4, <3>1
    <3>2. CASE plan[j].task = Text(Query)
      BY <2>1, <2>4, <3>2
    <3> QED  BY <1>5, <3>1, <3>2
  <2> QED  BY <1>5, <2>3, <2>4
<1>11. p = 1 => plain = {1}
  BY <1>7
<1> HIDE DEF plain
<1>12. Cardinality(DOMAIN plan \ plain) <= most
  <2>1. Cardinality(p + 1 .. p + n) <= most
    BY <1>9
  <2> QED  BY <1>8, <2>1
<1>13. /\ DOMAIN plan = 1 .. p + n /\ Len(plan) = p + n /\ plan # << >>
       /\ p = 1 => plain = {1}
       /\ Cardinality(DOMAIN plan \ plain) <= most
       /\ \A i, j \in DOMAIN plan : i # j => plan[i].task # plan[j].task
  BY <1>3, <1>4, <1>6, <1>10, <1>11, <1>12
<1>14. plan = PlanOf(p, w, v, n, task)
  BY DEF plan, q, r, PlanOf
<1>15. Plain(plan) = plain
  BY DEF Plain, plain
<1> QED  BY <1>13, <1>14, <1>15 DEF PlanShape

(* The texts a plan is made of, and what is of use in what the model gave. *)
Seen == IF setup.kind \in {"hyde average", "hyde fuse"} THEN {} ELSE {KeyOf[Query]}
TextsOf(out) == IF out = Failed THEN << >> ELSE CleanTexts(Seen, out, setup.limit)
Usable(out) == IF out = Failed THEN {} ELSE {KeyOf[t] : t \in ToSet(out)} \ {Blank, KeyOf[Query]}
MustAsk(out) == setup.original \/ (Usable(out) = {} /\ setup.kind = "multi query")
Expanded(out) ==
  LET texts == TextsOf(out) IN
  IF setup.kind = "multi query" THEN [i \in DOMAIN texts |-> Text(texts[i])]
  ELSE IF setup.kind = "hyde fuse" THEN [i \in DOMAIN texts |-> Mean(<<texts[i]>>)]
  ELSE IF texts = <<>> THEN <<>> ELSE <<Mean(texts)>>

LEMMA SetupFacts ==
  ASSUME setup \in Setups
  PROVE  setup.limit \in Nat \ {0}
BY RetrieverAssumption DEF SetupOK

LEMMA SetupKinds ==
  ASSUME setup \in Setups
  PROVE  setup.kind \in {"multi query", "hyde average", "hyde fuse", "hybrid"}
BY RetrieverAssumption DEF SetupOK

LEMMA TextsSound ==
  ASSUME setup \in Setups, NEW out \in Outputs \cup {Failed}
  PROVE  LET texts == TextsOf(out) IN
         /\ Len(texts) \in Nat /\ Len(texts) <= setup.limit /\ DOMAIN texts = 1 .. Len(texts)
         /\ Len(texts) = 0 <=> texts = << >>
         /\ \A i, j \in DOMAIN texts : i # j => texts[i] # texts[j]
         /\ \A i \in DOMAIN texts : KeyOf[texts[i]] \notin Seen
         /\ Usable(out) = {} /\ setup.kind = "multi query" => texts = << >>
<1> DEFINE texts == TextsOf(out)
           most == setup.limit
<1>1. most \in Nat \ {0}
  BY SetupFacts
<1>2. CASE out = Failed
  <2>1. texts = << >>
    BY <1>2 DEF TextsOf
  <2> HIDE DEF texts
  <2>2. Len(texts) = 0 /\ DOMAIN texts = {} /\ 1 .. 0 = {}
    BY <2>1
  <2>3. 0 <= most
    BY <1>1
  <2> QED  BY <2>1, <2>2, <2>3 DEF texts
<1>3. CASE out # Failed
  <2>1. texts = CleanTexts(Seen, out, most)
    BY <1>3 DEF TextsOf
  <2>2. out \in Seq(DOMAIN KeyOf)
    BY <1>3, RetrieverAssumption
  <2> HIDE DEF texts, most
  <2>3. /\ texts \in Seq(DOMAIN KeyOf) /\ Len(texts) \in Nat /\ Len(texts) <= most
        /\ \A i, j \in DOMAIN texts : i # j => texts[i] # texts[j]
        /\ \A i \in DOMAIN texts : KeyOf[texts[i]] \notin {Blank} \cup Seen
        /\ \A i \in DOMAIN texts : \E j \in DOMAIN out : texts[i] = out[j]
    BY <1>1, <2>1, <2>2, CleanTextsKeep
  <2>4. DOMAIN texts = 1 .. Len(texts) /\ (Len(texts) = 0 <=> texts = << >>)
    BY <2>3
  <2>5. ASSUME texts # << >>, setup.kind = "multi query"  PROVE Usable(out) # {}
    <3>1. Seen = {KeyOf[Query]}
      BY <2>5 DEF Seen
    <3>2. 1 \in DOMAIN texts
      <4>1. Len(texts) # 0 /\ Len(texts) \in Nat
        BY <2>3, <2>4, <2>5
      <4>2. 1 \in 1 .. Len(texts)
        BY <4>1
      <4> QED  BY <2>4, <4>2
    <3>3. PICK j \in DOMAIN out : KeyOf[out[j]] \notin {Blank, KeyOf[Query]}
      BY <2>3, <3>1, <3>2
    <3> QED  BY <1>3, <3>3 DEF Usable, ToSet
  <2> QED  BY <2>3, <2>4, <2>5 DEF texts, most
<1> QED  BY <1>2, <1>3

(* A plan of distinct tasks, none the query itself, after the query or     *)
(* not.                                                                    *)
LEMMA PlanOfSound ==
  ASSUME setup \in Setups, NEW out, NEW p \in {0, 1}, NEW k \in Nat, k <= setup.limit, p + k # 0,
         NEW task, DOMAIN task = 1 .. k,
         \A i \in 1 .. k : task[i] # Text(Query),
         \A i, j \in 1 .. k : i # j => task[i] # task[j],
         MustAsk(out) => p = 1
  PROVE  LET plan == PlanOf(p, setup.weight, 1, k, task) IN
         PlanSound(plan, out) /\ Len(plan) \in Nat /\ DOMAIN plan = 1 .. Len(plan)
<1> DEFINE w == setup.weight
           v == 1
           plan == PlanOf(p, w, v, k, task)
           searched == Plain(plan)
           most == setup.limit
<1>1. most \in Nat
  BY SetupFacts
<1>2. most \in Nat /\ k <= most
  BY <1>1
<1> HIDE DEF most, w, v
<1>3. /\ DOMAIN plan = 1 .. p + k /\ Len(plan) = p + k /\ plan # << >>
      /\ p = 1 => searched = {1}
      /\ Cardinality(DOMAIN plan \ searched) <= most
      /\ \A i, j \in DOMAIN plan : i # j => plan[i].task # plan[j].task
  <2>1. Expansions(task, k)
    BY DEF Expansions
  <2>2. p \in {0, 1} /\ p + k # 0 /\ k \in Nat
    OBVIOUS
  <2>3. PlanShape(p, w, v, k, task, most)
    BY <1>2, <2>1, <2>2, PlanJoined
  <2> QED  BY <2>3 DEF PlanShape
<1> HIDE DEF plan, searched
<1>5. PlanSound(plan, out)
  BY <1>3 DEF PlanSound, searched, Plain, most, Usable, MustAsk
<1>6. p + k \in Nat
  OBVIOUS
<1>7. PlanSound(plan, out) /\ Len(plan) \in Nat /\ DOMAIN plan = 1 .. Len(plan)
  BY <1>3, <1>5, <1>6
<1> QED  BY <1>7 DEF plan, w, v

LEMMA PlanForSound ==
  ASSUME setup \in Setups, NEW out \in Outputs \cup {Failed}
  PROVE  LET plan == PlanFor(out) IN
         PlanSound(plan, out) /\ Len(plan) \in Nat /\ DOMAIN plan = 1 .. Len(plan)
<1> DEFINE texts == TextsOf(out)
           n == Len(texts)
           asks_ == setup.original \/ texts = << >>
           p == IF asks_ THEN 1 ELSE 0
           most == setup.limit
<1>1. most \in Nat \ {0} /\ 0 <= most /\ 1 <= most
  <2>1. most \in Nat \ {0}
    BY SetupFacts
  <2> HIDE DEF most
  <2> QED  BY <2>1
<1>1a. setup.kind \in {"multi query", "hyde average", "hyde fuse", "hybrid"}
  BY SetupKinds
<1>2. /\ n \in Nat /\ n <= most /\ DOMAIN texts = 1 .. n
      /\ n = 0 <=> texts = << >>
      /\ \A i, j \in 1 .. n : i # j => texts[i] # texts[j]
      /\ \A i \in 1 .. n : KeyOf[texts[i]] \notin Seen
  BY TextsSound
<1>3. MustAsk(out) => asks_
  BY TextsSound DEF MustAsk
<1>4. setup.kind # "hybrid" =>
        PlanFor(out) = (IF asks_ THEN << [w |-> setup.weight, task |-> Text(Query)] >> ELSE << >>)
                         \o [i \in DOMAIN Expanded(out) |-> [w |-> 1, task |-> Expanded(out)[i]]]
  BY DEF PlanFor, TextsOf, Seen, Expanded
<1>5. texts = << >> => asks_
  OBVIOUS
<1> HIDE DEF asks_, texts, n, most
<1>6. p \in {0, 1}
  OBVIOUS
<1>6a. p = 1 <=> asks_
  OBVIOUS
<1> HIDE DEF p
<1>8. p + n # 0 /\ (texts = << >> => p = 1) /\ (MustAsk(out) => p = 1)
  <2>1. CASE p = 1
    <3>1. 1 + n # 0
      BY <1>2
    <3> QED  BY <2>1, <3>1
  <2>2. CASE p = 0
    <3>1. n # 0 /\ texts # << >> /\ ~MustAsk(out)
      BY <1>2, <1>3, <1>5, <1>6a, <2>2
    <3>2. 0 + n # 0
      BY <1>2, <3>1
    <3> QED  BY <2>2, <3>1, <3>2
  <2> QED  BY <1>6, <2>1, <2>2
<1>9. ASSUME setup.kind # "hybrid", NEW k \in Nat, k <= most, p + k # 0,
             DOMAIN Expanded(out) = 1 .. k,
             \A i \in 1 .. k : Expanded(out)[i] # Text(Query),
             \A i, j \in 1 .. k : i # j => Expanded(out)[i] # Expanded(out)[j]
      PROVE  LET plan == PlanFor(out) IN
             PlanSound(plan, out) /\ Len(plan) \in Nat /\ DOMAIN plan = 1 .. Len(plan)
  <2> DEFINE plan == PlanOf(p, setup.weight, 1, k, Expanded(out))
  <2>1. PlanSound(plan, out) /\ Len(plan) \in Nat /\ DOMAIN plan = 1 .. Len(plan)
    BY <1>6, <1>8, <1>9, PlanOfSound DEF most
  <2>2. PlanFor(out) = plan
    <3>1. CASE p = 1
      BY <1>4, <1>6a, <1>9, <3>1 DEF PlanOf
    <3>2. CASE p = 0
      BY <1>4, <1>6a, <1>9, <3>2 DEF PlanOf
    <3> QED  BY <1>6, <3>1, <3>2
  <2> QED  BY <2>1, <2>2
<1>10. CASE setup.kind = "multi query"
  <2>1. Expanded(out) = [i \in DOMAIN texts |-> Text(texts[i])]
    BY <1>10, Zenon DEF Expanded, texts
  <2>1a. Seen = {KeyOf[Query]}
    BY <1>10 DEF Seen
  <2>2. \A i \in 1 .. n : Expanded(out)[i] # Text(Query)
    BY <1>2, <2>1, <2>1a DEF Text
  <2>3. \A i, j \in 1 .. n : i # j => Expanded(out)[i] # Expanded(out)[j]
    <3> SUFFICES ASSUME NEW i \in 1 .. n, NEW j \in 1 .. n, i # j, Expanded(out)[i] = Expanded(out)[j]  PROVE FALSE
      OBVIOUS
    <3>0. Text(texts[i]) = Text(texts[j])
      BY <1>2, <2>1
    <3>1. {texts[i]} = {texts[j]}
      <4>1. \A t : Text(t).of = {t}
        BY DEF Text
      <4> QED  BY <3>0, <4>1
    <3> QED  BY <1>2, <3>1
  <2> QED  BY <1>2, <1>8, <1>9, <1>10, <2>1, <2>2, <2>3
<1>11. CASE setup.kind = "hyde fuse"
  <2>1. Expanded(out) = [i \in DOMAIN texts |-> Mean(<<texts[i]>>)]
    <3>1. setup.kind # "multi query"
      BY <1>11
    <3> QED  BY <1>11, <3>1, Zenon DEF Expanded, texts
  <2>2. \A i \in 1 .. n : Expanded(out)[i] # Text(Query)
    BY <1>2, <2>1 DEF Text, Mean
  <2>3. \A i, j \in 1 .. n : i # j => Expanded(out)[i] # Expanded(out)[j]
    <3> SUFFICES ASSUME NEW i \in 1 .. n, NEW j \in 1 .. n, i # j, Expanded(out)[i] = Expanded(out)[j]  PROVE FALSE
      OBVIOUS
    <3>1. ToSet(<<texts[i]>>) = ToSet(<<texts[j]>>)
      BY <1>2, <2>1 DEF Mean
    <3>2. texts[i] = texts[j]
      BY <3>1 DEF ToSet
    <3> QED  BY <1>2, <3>2
  <2> QED  BY <1>2, <1>8, <1>9, <1>11, <2>1, <2>2, <2>3
<1>12. CASE setup.kind = "hyde average"
  <2>1. CASE texts = << >>
    <3>1. Expanded(out) = << >>
      BY <1>12, <2>1 DEF Expanded, texts
    <3>2. 0 \in Nat /\ 0 <= most /\ p + 0 # 0 /\ DOMAIN << >> = 1 .. 0 /\ 1 .. 0 = {}
      <4>1. p = 1
        BY <1>8, <2>1
      <4>2. 1 + 0 # 0
        OBVIOUS
      <4> QED  BY <1>1, <4>1, <4>2
    <3> QED  BY <1>9, <1>12, <3>1, <3>2
  <2>2. CASE texts # << >>
    <3>1. Expanded(out) = << Mean(texts) >>
      BY <1>12, <2>2 DEF Expanded, texts
    <3>2. DOMAIN Expanded(out) = 1 .. 1 /\ \A i \in 1 .. 1 : Expanded(out)[i] = Mean(texts)
      BY <3>1
    <3>3. \A i \in 1 .. 1 : Expanded(out)[i] # Text(Query)
      BY <3>2 DEF Mean, Text
    <3>4. \A i, j \in 1 .. 1 : i # j => Expanded(out)[i] # Expanded(out)[j]
      OBVIOUS
    <3>5. 1 \in Nat /\ 1 <= most /\ p + 1 # 0
      <4>1. p + 1 # 0
        BY <1>6
      <4> QED  BY <1>1, <4>1
    <3> QED  BY <1>9, <1>12, <3>2, <3>3, <3>4, <3>5
  <2> QED  BY <2>1, <2>2
<1>13. CASE setup.kind = "hybrid"
  <2> DEFINE a == [w |-> 2, task |-> Text(Query)]
             b == [w |-> setup.weight, task |-> Lexical(Query)]
             plan == <<a, b>>
             searched == {i \in DOMAIN plan : plan[i].task = Text(Query)}
  <2>1. PlanFor(out) = plan
    BY <1>13 DEF PlanFor
  <2>2. a.task = Text(Query) /\ b.task # Text(Query)
    BY DEF Text, Lexical
  <2> HIDE DEF a, b
  <2>3. DOMAIN plan = {1, 2} /\ Len(plan) = 2 /\ plan[1] = a /\ plan[2] = b /\ plan # << >>
    OBVIOUS
  <2> HIDE DEF plan
  <2>4. searched = {1} /\ DOMAIN plan \ searched = {2}
    BY <2>2, <2>3
  <2> HIDE DEF searched
  <2>5. Cardinality(DOMAIN plan \ searched) <= most
    BY <1>1, <2>4, FS_Singleton
  <2>6. \A i, j \in DOMAIN plan : i # j => plan[i].task # plan[j].task
    BY <2>2, <2>3
  <2>7. PlanSound(plan, out)
    BY <2>3, <2>4, <2>5, <2>6 DEF PlanSound, searched, most
  <2>8. 1 .. 2 = {1, 2} /\ 2 \in Nat
    OBVIOUS
  <2> QED  BY <2>1, <2>3, <2>7, <2>8
<1> QED  BY <1>1a, <1>10, <1>11, <1>12, <1>13

-----------------------------------------------------------------------------
(* A call: it has the fields of one; the plan of a call that is under way  *)
(* or done is sound; what its sub-searches found so far is what they find; *)
(* its answer fuses all of them.                                           *)
Hits(c, i) == Cut(Found[c.plan[i].task], Depth(c.k))
Weights(c) == [i \in DOMAIN c.plan |-> c.plan[i].w]
CallShape(c) ==
  c = [at |-> c.at, serial |-> c.serial, k |-> c.k, out |-> c.out, plan |-> c.plan, lists |-> c.lists,
       answer |-> c.answer]
ListsSound(c) ==
  /\ c.lists = [i \in DOMAIN c.plan |-> c.lists[i]]
  /\ \A i \in DOMAIN c.plan : c.lists[i] \in {Unknown, Failed, Hits(c, i)}
AnswerSound(c) ==
  IdsOf(c.answer) = IdsOf(Cut(ReciprocalRankFusion([i \in DOMAIN c.plan |-> Hits(c, i)], Weights(c)), c.k))
CallInv(c) ==
  /\ CallShape(c)
  /\ c.at \in {"collects", "alone", "done"} => PlanSound(c.plan, c.out)
  /\ c.at \in {"collects", "alone"} => ListsSound(c)
  /\ c.at = "alone" => DOMAIN c.plan = {1}
  /\ c.at = "done" => AnswerSound(c)
RetrieverInv ==
  /\ setup \in Setups
  /\ DOMAIN asked = Askers
  /\ \A a \in Askers : CallInv(asked[a])

(* The retriever in use stays: it is enough to look at the calls.          *)
LEMMA CallsKept ==
  ASSUME RetrieverInv, UNCHANGED setup, DOMAIN asked' = Askers, \A a \in Askers : CallInv(asked'[a])
  PROVE  RetrieverInv'
<1>1. setup' \in Setups
  BY DEF RetrieverInv
<1>2. ASSUME NEW a \in Askers  PROVE CallInv(asked[a])'
  <2> DEFINE c == asked'[a]
  <2>1. CallInv(c)
    OBVIOUS
  <2>2. PlanSound(c.plan, c.out) <=> PlanSound(asked[a].plan, asked[a].out)'
    BY DEF PlanSound
  <2>3. \A k : Depth(k) = Depth(k)'
    BY DEF Depth
  <2>4. \A i : Hits(c, i) = Hits(asked[a], i)'
    BY <2>3 DEF Hits
  <2>5. ListsSound(c) <=> ListsSound(asked[a])'
    BY <2>4 DEF ListsSound
  <2>6. AnswerSound(c) <=> AnswerSound(asked[a])'
    BY <2>4 DEF AnswerSound, Weights
  <2>7. CallShape(c) <=> CallShape(asked[a])'
    BY DEF CallShape
  <2> QED  BY <2>1, <2>2, <2>5, <2>6, <2>7 DEF CallInv
<1> QED  BY <1>1, <1>2 DEF RetrieverInv

LEMMA NotAskedSound == CallInv([NotAsked EXCEPT !.at = "raised"]) /\ CallInv(NotAsked)
<1> DEFINE r == [NotAsked EXCEPT !.at = "raised"]
<1>1. CallShape(r) /\ r.at = "raised" /\ CallShape(NotAsked) /\ NotAsked.at = "idle"
  BY DEF CallShape, NotAsked
<1> HIDE DEF r
<1>2. CallInv(r) /\ CallInv(NotAsked)
  BY <1>1 DEF CallInv
<1> QED  BY <1>2 DEF r

(* One call changes.                                                       *)
LEMMA OneCallKept ==
  ASSUME RetrieverInv, UNCHANGED setup, NEW a, NEW c, a \in Askers => CallInv(c),
         asked' = [asked EXCEPT ![a] = c]
  PROVE  RetrieverInv'
<1>1. DOMAIN asked' = Askers /\ \A b \in Askers : asked'[b] = IF b = a THEN c ELSE asked[b]
  BY DEF RetrieverInv
<1>2. \A b \in Askers : CallInv(asked'[b])
  BY <1>1 DEF RetrieverInv
<1> QED  BY <1>1, <1>2, CallsKept

LEMMA RetrieverInitInv == RetrieverInit => RetrieverInv
BY NotAskedSound DEF RetrieverInit, RetrieverInv

LEMMA AskForKeeps ==
  ASSUME RetrieverInv, NEW a \in Askers, NEW k, NEW out \in Outputs \cup {Failed}, AskFor(a, k, out)
  PROVE  RetrieverInv'
<1> DEFINE plan == PlanFor(out)
           c == [at |-> IF Len(plan) = 1 THEN "alone" ELSE "collects", serial |-> asks + 1, k |-> k,
                 out |-> out, plan |-> plan, lists |-> [i \in DOMAIN plan |-> Unknown], answer |-> <<>>]
<1>0. UNCHANGED setup /\ setup \in Setups
  BY DEF AskFor, RetrieverInv
<1>1. \/ asked' = [asked EXCEPT ![a] = [NotAsked EXCEPT !.at = "raised"]]
      \/ asked' = [asked EXCEPT ![a] = c]
  BY DEF AskFor
<1>2. PlanSound(plan, out) /\ DOMAIN plan = 1 .. Len(plan)
  BY <1>0, PlanForSound
<1>2a. Len(plan) = 1 => DOMAIN plan = {1}
  <2>1. 1 .. 1 = {1}
    OBVIOUS
  <2> QED  BY <1>2, <2>1
<1> HIDE DEF plan
<1>3. /\ CallShape(c) /\ c.plan = plan /\ c.out = out /\ c.at # "done"
      /\ c.at = "alone" => Len(plan) = 1
      /\ c.lists = [i \in DOMAIN plan |-> Unknown]
  BY DEF CallShape
<1> HIDE DEF c
<1>4. ListsSound(c)
  BY <1>3 DEF ListsSound
<1>5. CallInv(c)
  BY <1>2, <1>2a, <1>3, <1>4 DEF CallInv
<1> QED  BY <1>0, <1>1, <1>5, NotAskedSound, OneCallKept

LEMMA SearchAloneKeeps ==
  ASSUME RetrieverInv, NEW a \in Askers, SearchAlone(a)
  PROVE  RetrieverInv'
<1> DEFINE o == asked[a]
           hits == Hits(o, 1)
           c == [o EXCEPT !.lists = << hits >>, !.at = "collects"]
<1>1. UNCHANGED setup /\ asked' = [asked EXCEPT ![a] = c] /\ o.at = "alone"
  BY DEF SearchAlone, Hits
<1>2. CallInv(o)
  BY DEF RetrieverInv
<1>3. CallShape(o) /\ PlanSound(o.plan, o.out) /\ DOMAIN o.plan = {1}
  BY <1>1, <1>2 DEF CallInv
<1> HIDE DEF o, hits
<1>4. /\ CallShape(c) /\ c.plan = o.plan /\ c.out = o.out /\ c.k = o.k /\ c.at = "collects" /\ c.lists = << hits >>
  <2> DEFINE found == << hits >>
             d == [o EXCEPT !.lists = found]
  <2>1. CallShape(d) /\ d.plan = o.plan /\ d.out = o.out /\ d.k = o.k /\ d.lists = found
    <3> HIDE DEF found
    <3> QED  BY <1>3 DEF CallShape
  <2>2. c = [d EXCEPT !.at = "collects"]
    OBVIOUS
  <2> HIDE DEF d, found, c
  <2>3. CallShape(c) /\ c.plan = d.plan /\ c.out = d.out /\ c.k = d.k /\ c.at = "collects" /\ c.lists = d.lists
    BY <2>1, <2>2 DEF CallShape
  <2> QED  BY <2>1, <2>3 DEF found
<1> HIDE DEF c
<1>5. Hits(c, 1) = hits
  BY <1>4 DEF Hits, hits
<1>6. ListsSound(c)
  <2>1. << hits >> = [i \in {1} |-> << hits >>[i]] /\ << hits >>[1] = hits
    OBVIOUS
  <2> QED  BY <1>3, <1>4, <1>5, <2>1 DEF ListsSound
<1>7. CallInv(c)
  BY <1>3, <1>4, <1>6 DEF CallInv
<1> QED  BY <1>1, <1>7, OneCallKept

LEMMA FailAloneKeeps ==
  ASSUME RetrieverInv, NEW a \in Askers, FailAlone(a)
  PROVE  RetrieverInv'
<1> DEFINE c == [NotAsked EXCEPT !.at = "raised"]
<1>1. UNCHANGED setup /\ asked' = [asked EXCEPT ![a] = c]
  BY DEF FailAlone
<1>2. CallInv(c)
  BY NotAskedSound
<1> HIDE DEF c
<1> QED  BY <1>1, <1>2, OneCallKept

(* What a sub-search found goes to its place.                              *)
LEMMA DeliverKeeps ==
  ASSUME RetrieverInv, NEW f, NEW hits, Deliver(f, hits),
         asked[f.by].serial = f.serial => hits \in {Failed, Hits(asked[f.by], f.place)}
  PROVE  RetrieverInv'
<1>1. UNCHANGED setup
  BY DEF Deliver
<1>2. CASE asked[f.by].serial # f.serial
  <2>1. asked' = asked
    BY <1>2 DEF Deliver
  <2> QED  BY <1>1, <2>1, CallsKept DEF RetrieverInv
<1>3. CASE asked[f.by].serial = f.serial
  <2> DEFINE o == asked[f.by]
             c == [o EXCEPT !.lists = [o.lists EXCEPT ![f.place] = hits]]
  <2>1. asked' = [asked EXCEPT ![f.by] = c]
    BY <1>3 DEF Deliver
  <2>2. ASSUME f.by \in Askers  PROVE CallInv(c)
    <3>1. CallInv(o) /\ hits \in {Failed, Hits(o, f.place)}
      BY <1>3, <2>2 DEF RetrieverInv
    <3>2. CallShape(o)
      BY <3>1 DEF CallInv
    <3> HIDE DEF o
    <3>3. /\ CallShape(c) /\ c.plan = o.plan /\ c.out = o.out /\ c.k = o.k /\ c.at = o.at /\ c.answer = o.answer
          /\ c.lists = [o.lists EXCEPT ![f.place] = hits]
      BY <3>2 DEF CallShape
    <3> HIDE DEF c
    <3>4. \A i : Hits(c, i) = Hits(o, i)
      BY <3>3 DEF Hits
    <3>5. ASSUME ListsSound(o)  PROVE ListsSound(c)
      <4>1. /\ DOMAIN o.lists = DOMAIN o.plan
            /\ \A i \in DOMAIN o.plan : o.lists[i] \in {Unknown, Failed, Hits(o, i)}
        BY <3>5 DEF ListsSound
      <4>2. \A i \in DOMAIN o.plan : c.lists[i] = IF i = f.place THEN hits ELSE o.lists[i]
        BY <3>3, <4>1
      <4>3. \A i \in DOMAIN o.plan : c.lists[i] \in {Unknown, Failed, Hits(o, i)}
        BY <3>1, <4>1, <4>2
      <4>4. c.lists = [i \in DOMAIN o.plan |-> c.lists[i]]
        BY <3>3, <4>1
      <4> QED  BY <3>3, <3>4, <4>3, <4>4 DEF ListsSound
    <3>6. AnswerSound(c) <=> AnswerSound(o)
      BY <3>3, <3>4 DEF AnswerSound, Weights
    <3> QED  BY <3>1, <3>3, <3>5, <3>6 DEF CallInv
  <2> HIDE DEF c
  <2> QED  BY <1>1, <2>1, <2>2, OneCallKept
<1> QED  BY <1>2, <1>3

LEMMA SearchEndsKeeps ==
  ASSUME RetrieverInv, NEW f, FinishSearch(f) \/ FailSearch(f)
  PROVE  RetrieverInv'
<1>1. CASE FinishSearch(f)
  <2> DEFINE hits == IF asked[f.by].serial = f.serial THEN Hits(asked[f.by], f.place) ELSE Failed
  <2>1. Deliver(f, hits)
    BY <1>1 DEF FinishSearch, Hits
  <2>2. asked[f.by].serial = f.serial => hits \in {Failed, Hits(asked[f.by], f.place)}
    OBVIOUS
  <2> HIDE DEF hits
  <2> QED  BY <2>1, <2>2, DeliverKeeps
<1>2. CASE FailSearch(f)
  BY <1>2, DeliverKeeps DEF FailSearch
<1> QED  BY <1>1, <1>2

(* The answer fuses what all of the sub-searches found.                    *)
LEMMA CollectKeeps ==
  ASSUME RetrieverInv, NEW a \in Askers, Collect(a)
  PROVE  RetrieverInv'
<1> DEFINE o == asked[a]
           r == [NotAsked EXCEPT !.at = "raised"]
           c == [o EXCEPT !.at = "done", !.answer = Cut(ReciprocalRankFusion(o.lists, Weights(o)), o.k)]
<1>1. /\ UNCHANGED setup /\ o.at = "collects"
      /\ \/ (\A i \in DOMAIN o.lists : o.lists[i] \notin {Unknown, Failed}) /\ asked' = [asked EXCEPT ![a] = c]
         \/ asked' = [asked EXCEPT ![a] = r]
  BY DEF Collect, Weights
<1>2. CallInv(r)
  BY NotAskedSound
<1> HIDE DEF r
<1>3. CASE asked' = [asked EXCEPT ![a] = r]
  BY <1>1, <1>2, <1>3, OneCallKept
<1>4. CASE (\A i \in DOMAIN o.lists : o.lists[i] \notin {Unknown, Failed}) /\ asked' = [asked EXCEPT ![a] = c]
  <2>1. CallInv(o)
    BY DEF RetrieverInv
  <2>2. CallShape(o) /\ ListsSound(o) /\ PlanSound(o.plan, o.out)
    BY <1>1, <2>1 DEF CallInv
  <2> HIDE DEF o
  <2>3. DOMAIN o.lists = DOMAIN o.plan /\ \A i \in DOMAIN o.plan : o.lists[i] = Hits(o, i)
    BY <1>4, <2>2 DEF ListsSound
  <2>4. o.lists = [i \in DOMAIN o.plan |-> Hits(o, i)]
    BY <2>2, <2>3 DEF ListsSound
  <2>5. /\ CallShape(c) /\ c.plan = o.plan /\ c.out = o.out /\ c.k = o.k /\ c.at = "done"
        /\ c.answer = Cut(ReciprocalRankFusion(o.lists, Weights(o)), o.k)
    <3> DEFINE fused == Cut(ReciprocalRankFusion(o.lists, Weights(o)), o.k)
               d == [o EXCEPT !.answer = fused]
    <3>1. CallShape(d) /\ d.plan = o.plan /\ d.out = o.out /\ d.k = o.k /\ d.answer = fused
      <4> HIDE DEF fused
      <4> QED  BY <2>2 DEF CallShape
    <3>2. c = [d EXCEPT !.at = "done"]
      OBVIOUS
    <3> HIDE DEF d, fused, c
    <3>3. CallShape(c) /\ c.plan = d.plan /\ c.out = d.out /\ c.k = d.k /\ c.at = "done" /\ c.answer = d.answer
      BY <3>1, <3>2 DEF CallShape
    <3> QED  BY <3>1, <3>3 DEF fused
  <2> HIDE DEF c
  <2>6. \A i : Hits(c, i) = Hits(o, i)
    BY <2>5 DEF Hits
  <2>7. Weights(c) = Weights(o)
    BY <2>5 DEF Weights
  <2>8. [i \in DOMAIN c.plan |-> Hits(c, i)] = o.lists
    BY <2>4, <2>5, <2>6
  <2>9. AnswerSound(c)
    BY <2>5, <2>7, <2>8 DEF AnswerSound
  <2>10. CallInv(c)
    BY <2>2, <2>5, <2>9 DEF CallInv
  <2> QED  BY <1>1, <1>4, <2>10, OneCallKept
<1> QED  BY <1>1, <1>3, <1>4

LEMMA RetrieverStep == RetrieverInv /\ [RetrieverNext]_rtvars => RetrieverInv'
<1> SUFFICES ASSUME RetrieverInv, [RetrieverNext]_rtvars  PROVE RetrieverInv'
  OBVIOUS
<1>1. CASE \E a \in Askers, k \in 1 .. MaxTop, out \in Outputs \cup {Failed} : AskFor(a, k, out)
  BY <1>1, AskForKeeps
<1>2. CASE \E a \in Askers : SearchAlone(a) \/ FailAlone(a) \/ Collect(a)
  BY <1>2, SearchAloneKeeps, FailAloneKeeps, CollectKeeps
<1>3. CASE TakeUp \/ UNCHANGED rtvars
  <2>1. setup' = setup /\ asked' = asked
    BY <1>3 DEF TakeUp, rtvars
  <2> QED  BY <2>1, CallsKept DEF RetrieverInv
<1>4. CASE \E f \in threads : FinishSearch(f) \/ FailSearch(f)
  BY <1>4, SearchEndsKeeps
<1> QED  BY <1>1, <1>2, <1>3, <1>4 DEF RetrieverNext

(* Whatever the pool does with the sub-searches of whatever calls, and     *)
(* whatever the model returned: an answer fuses all of what its call       *)
(* planned to search for (retrievers.py).                                  *)
THEOREM AnswersFuseAll == RetrieverSpec => []FusionInOrder
<1>1. RetrieverInv => FusionInOrder
  <2> SUFFICES ASSUME RetrieverInv, NEW a \in Askers, asked[a].at = "done"
               PROVE  PlanSound(asked[a].plan, asked[a].out) /\ AnswerSound(asked[a])
    BY DEF FusionInOrder, PlanSound, AnswerSound, Hits, Weights
  <2> QED  BY DEF RetrieverInv, CallInv
<1>2. RetrieverInit => RetrieverInv
  BY RetrieverInitInv
<1>3. RetrieverInv /\ [RetrieverNext]_rtvars => RetrieverInv'
  BY RetrieverStep
<1> QED  BY <1>1, <1>2, <1>3, PTL DEF RetrieverSpec

-----------------------------------------------------------------------------
(***************************************************************************)
(* The embedding cache.                                                    *)
(***************************************************************************)
(* What the store may hold: no more than max_size vectors, each under its  *)
(* own text, once.                                                         *)
Vectors == [text : Texts, mode : Modes]
Entries == {e \in [key : Texts, vector : Vectors] : e.vector.text = e.key}
Distinct(s) == \A i, j \in DOMAIN s : i # j => s[i].key # s[j].key
StoreKept(s) ==
  /\ s \in Seq(Entries) /\ Distinct(s)
  /\ limit # NoLimit => Len(s) <= limit
KeptStores == {s \in Seq(Entries) : StoreKept(s)}

LEMMA PlaceFound ==
  ASSUME NEW s, NEW t, Stores(s, t)
  PROVE  Place(s, t) \in DOMAIN s /\ s[Place(s, t)].key = t
BY DEF Stores, Place

(* A hit is moved and nothing else changes.                                *)
LEMMA UsedKeeps ==
  ASSUME NEW s, StoreKept(s), NEW t
  PROVE  StoreKept(Used(s, t))
<1>1. CASE ~Stores(s, t)
  BY <1>1 DEF Used
<1>2. CASE Stores(s, t)
  <2> DEFINE p == Place(s, t)
             n == Len(s)
             from(j) == IF j < p THEN j ELSE IF j < n THEN j + 1 ELSE p
             r == MostRecent(s, p)
  <2>1. s \in Seq(Entries) /\ n \in Nat /\ DOMAIN s = 1 .. n
    BY DEF StoreKept
  <2>2. p \in 1 .. n
    BY <1>2, <2>1, PlaceFound
  <2> HIDE DEF p, n
  <2>3. \A j \in 1 .. n : from(j) \in 1 .. n
    BY <2>1, <2>2
  <2>4. \A i, j \in 1 .. n : i # j => from(i) # from(j)
    BY <2>1, <2>2
  <2>5. r = [j \in 1 .. n |-> s[from(j)]]
    BY <2>1 DEF MostRecent, n
  <2> HIDE DEF from, r
  <2>6. r \in Seq(Entries) /\ Len(r) = n /\ DOMAIN r = 1 .. n
    <3> DEFINE e(j) == s[from(j)]
    <3>1. \A j \in 1 .. n : e(j) \in Entries
      BY <2>1, <2>3
    <3> HIDE DEF e
    <3>2. [j \in 1 .. n |-> e(j)] \in Seq(Entries)
      BY <2>1, <3>1, IsASeq
    <3>3. r = [j \in 1 .. n |-> e(j)]
      BY <2>5 DEF e
    <3>4. DOMAIN r = 1 .. n
      BY <3>3
    <3> QED  BY <2>1, <3>2, <3>3, <3>4
  <2>7. \A j \in 1 .. n : r[j] = s[from(j)]
    BY <2>5
  <2>8. Distinct(r)
    <3>1. Distinct(s)
      BY DEF StoreKept
    <3> QED  BY <2>1, <2>3, <2>4, <2>6, <2>7, <3>1 DEF Distinct
  <2>9. limit # NoLimit => Len(r) <= limit
    BY <2>6 DEF StoreKept, n
  <2>10. Used(s, t) = r
    BY <1>2 DEF Used, r, p
  <2> QED  BY <2>6, <2>8, <2>9, <2>10 DEF StoreKept
<1> QED  BY <1>1, <1>2

(* What is recalled is a vector of the text.                               *)
LEMMA RecalledSound ==
  ASSUME NEW s, StoreKept(s), NEW t, Stores(s, t)
  PROVE  Recalled(s, t) \in Vectors /\ Recalled(s, t).text = t
<1>1. Place(s, t) \in DOMAIN s /\ s[Place(s, t)].key = t
  BY PlaceFound
<1>2. s[Place(s, t)] \in Entries
  BY <1>1 DEF StoreKept
<1> QED  BY <1>1, <1>2 DEF Recalled, Entries

(* A vector is stored under its text, in the place of the oldest if need   *)
(* be.                                                                     *)
LEMMA AppendKeeps ==
  ASSUME limit \in Nat \cup {NoLimit},
         NEW s, StoreKept(s), NEW e \in Entries, ~Stores(s, e.key), Room(s)
  PROVE  StoreKept(Append(s, e))
<1> DEFINE r == Append(s, e)
           n == Len(s)
<1>1. s \in Seq(Entries) /\ n \in Nat /\ DOMAIN s = 1 .. n /\ Distinct(s)
  BY DEF StoreKept
<1>2. r \in Seq(Entries) /\ Len(r) = n + 1 /\ (\A i \in 1 .. n : r[i] = s[i]) /\ r[n + 1] = e
  BY <1>1, AppendProperties
<1>3. DOMAIN r = 1 .. n + 1
  BY <1>2
<1>4. \A i \in 1 .. n : s[i].key # e.key
  BY <1>1 DEF Stores
<1> HIDE DEF r
<1>5. Distinct(r)
  <2> SUFFICES ASSUME NEW i \in 1 .. n + 1, NEW j \in 1 .. n + 1, i # j  PROVE r[i].key # r[j].key
    BY <1>3 DEF Distinct
  <2> HIDE DEF n
  <2>1. CASE i \in 1 .. n /\ j \in 1 .. n
    BY <1>1, <1>2, <2>1 DEF Distinct
  <2>2. CASE i = n + 1
    <3>1. j \in 1 .. n
      BY <1>1, <2>2
    <3> QED  BY <1>2, <1>4, <2>2, <3>1
  <2>3. CASE j = n + 1
    <3>1. i \in 1 .. n
      BY <1>1, <2>3
    <3> QED  BY <1>2, <1>4, <2>3, <3>1
  <2> QED  BY <1>1, <2>1, <2>2, <2>3
<1>6. limit # NoLimit => Len(r) <= limit
  <2> SUFFICES ASSUME limit # NoLimit  PROVE n + 1 <= limit
    BY <1>2
  <2>1. n < limit /\ limit \in Nat
    BY DEF Room
  <2> QED  BY <1>1, <2>1
<1> QED  BY <1>2, <1>5, <1>6 DEF StoreKept, r

LEMMA TailKeeps ==
  ASSUME limit \in Nat \cup {NoLimit}, NEW s, StoreKept(s), s # << >>
  PROVE  StoreKept(Tail(s)) /\ Len(Tail(s)) = Len(s) - 1 /\ \A t : Stores(Tail(s), t) => Stores(s, t)
<1> DEFINE r == Tail(s)
           n == Len(s)
<1>1. s \in Seq(Entries) /\ n \in Nat /\ DOMAIN s = 1 .. n /\ Distinct(s)
  BY DEF StoreKept
<1>2. r \in Seq(Entries) /\ Len(r) = n - 1 /\ \A i \in 1 .. n - 1 : r[i] = s[i + 1]
  BY <1>1, HeadTailProperties
<1>3. DOMAIN r = 1 .. n - 1 /\ \A i \in 1 .. n - 1 : i + 1 \in 1 .. n
  BY <1>1, <1>2
<1> HIDE DEF r, n
<1>4. Distinct(r)
  <2> SUFFICES ASSUME NEW i \in 1 .. n - 1, NEW j \in 1 .. n - 1, i # j  PROVE r[i].key # r[j].key
    BY <1>3 DEF Distinct
  <2>1. i + 1 \in DOMAIN s /\ j + 1 \in DOMAIN s /\ i + 1 # j + 1
    BY <1>1, <1>3
  <2>2. r[i] = s[i + 1] /\ r[j] = s[j + 1]
    BY <1>2
  <2>3. s[i + 1].key # s[j + 1].key
    BY <1>1, <2>1 DEF Distinct
  <2> QED  BY <2>2, <2>3
<1>5. limit # NoLimit => Len(r) <= limit
  <2> SUFFICES ASSUME limit # NoLimit  PROVE n - 1 <= limit
    BY <1>2
  <2>1. n <= limit
    BY DEF StoreKept, n
  <2>2. limit \in Nat
    OBVIOUS
  <2> QED  BY <1>1, <2>1, <2>2
<1>6. \A t : Stores(r, t) => Stores(s, t)
  BY <1>1, <1>2, <1>3 DEF Stores
<1> QED  BY <1>2, <1>4, <1>5, <1>6 DEF StoreKept, r, n

(* InMemoryCache.set keeps the store as it should be.                      *)
Accs == [store : KeptStores, raised : BOOLEAN]
LEMMA StoreOneKeeps ==
  ASSUME limit \in Nat \cup {NoLimit}, NEW acc \in Accs, NEW e \in Entries
  PROVE  StoreOne(acc, e) \in Accs
<1> DEFINE s == acc.store
<1>1. StoreKept(s) /\ acc = [store |-> s, raised |-> acc.raised] /\ acc.raised \in BOOLEAN
  BY DEF Accs, KeptStores
<1>2. ASSUME NEW r, StoreKept(r)  PROVE [acc EXCEPT !.store = r] \in Accs
  <2>1. r \in KeptStores
    BY <1>2 DEF KeptStores, StoreKept
  <2> QED  BY <2>1 DEF Accs
<1>4. [acc EXCEPT !.raised = TRUE] \in Accs
  BY DEF Accs
<1> HIDE DEF s
<1>5. CASE acc.raised
  BY <1>5 DEF StoreOne
<1>6. CASE ~acc.raised /\ Stores(s, e.key)
  <2>1. StoreOne(acc, e) = [acc EXCEPT !.store = Used(s, e.key)]
    BY <1>6 DEF StoreOne, s
  <2> QED  BY <1>1, <1>2, <2>1, UsedKeeps
<1>7. CASE ~acc.raised /\ ~Stores(s, e.key) /\ ~Room(s) /\ s = << >>
  <2>1. StoreOne(acc, e) = [acc EXCEPT !.raised = TRUE]
    BY <1>7 DEF StoreOne, s
  <2> QED  BY <1>4, <2>1
<1>8. CASE ~acc.raised /\ ~Stores(s, e.key) /\ Room(s)
  <2>1. StoreOne(acc, e) = [acc EXCEPT !.store = Append(s, e)]
    BY <1>8 DEF StoreOne, s
  <2> QED  BY <1>1, <1>2, <1>8, <2>1, AppendKeeps
<1>9. CASE ~acc.raised /\ ~Stores(s, e.key) /\ ~Room(s) /\ s # << >>
  <2>1. StoreOne(acc, e) = [acc EXCEPT !.store = Append(Tail(s), e)]
    BY <1>9 DEF StoreOne, s
  <2>2. StoreKept(Tail(s)) /\ Len(Tail(s)) = Len(s) - 1 /\ ~Stores(Tail(s), e.key)
    BY <1>1, <1>9, TailKeeps
  <2>3. Room(Tail(s))
    <3>1. limit # NoLimit => Len(s) <= limit /\ limit \in Nat /\ Len(s) \in Nat
      BY <1>1 DEF StoreKept
    <3> QED  BY <2>2, <3>1 DEF Room
  <2> QED  BY <1>2, <2>1, <2>2, <2>3, AppendKeeps
<1> QED  BY <1>5, <1>6, <1>7, <1>8, <1>9

(* The two loops: over the texts looked up, and over the vectors that came. *)
LEMMA LookedUpKeeps ==
  ASSUME StoreKept(store), NEW m \in Nat, NEW texts \in [1 .. m -> Texts]
  PROVE  LookedUp(texts) \in [0 .. m -> KeptStores]
<1> DEFINE step == [i \in 1 .. m |-> [s \in KeptStores |-> Used(s, texts[i])]]
           Loop(f) == f = [n \in 0 .. Len(texts) |-> IF n = 0 THEN store ELSE Used(f[n - 1], texts[n])]
<1>1. Len(texts) = m
  OBVIOUS
<1>2. \A s : StoreKept(s) <=> s \in KeptStores
  BY DEF KeptStores, StoreKept
<1>3. step \in [1 .. m -> [KeptStores -> KeptStores]]
  <2> SUFFICES ASSUME NEW s \in KeptStores, NEW i \in 1 .. m  PROVE Used(s, texts[i]) \in KeptStores
    OBVIOUS
  <2> QED  BY <1>2, UsedKeeps
<1>3a. \A s \in KeptStores, i \in 1 .. m : step[i][s] = Used(s, texts[i])
  OBVIOUS
<1> HIDE DEF step
<1>4. PICK f : RunOf(f, KeptStores, m, store, step)
  BY <1>2, <1>3, LoopRuns
<1>4a. f \in [0 .. m -> KeptStores] /\ f[0] = store /\ \A i \in 1 .. m : f[i] = step[i][f[i - 1]]
  BY <1>4 DEF RunOf
<1>5. \A i \in 1 .. m : f[i - 1] \in KeptStores /\ f[i] = Used(f[i - 1], texts[i])
  <2>1. \A i \in 1 .. m : i - 1 \in 0 .. m
    OBVIOUS
  <2> QED  BY <1>3a, <1>4a, <2>1
<1>6. Loop(f)
  <2>1. \A n \in 0 .. m : n = 0 \/ n \in 1 .. m
    OBVIOUS
  <2> QED  BY <1>1, <1>4a, <1>5, <2>1
<1> DEFINE a == CHOOSE g : Loop(g)
<1>7. Loop(a)
  BY <1>6
<1>8. LookedUp(texts) = a
  BY DEF LookedUp
<1> HIDE DEF a
<1>9. a = [n \in 0 .. m |-> a[n]] /\ a[0] = store /\ \A n \in 1 .. m : a[n] = Used(a[n - 1], texts[n])
  BY <1>1, <1>7
<1> HIDE DEF Loop
<1> DEFINE T == {n \in Nat : n <= m => a[n] \in KeptStores}
<1>10. 0 \in T
  BY <1>2, <1>9
<1>11. ASSUME NEW n \in Nat, n \in T  PROVE n + 1 \in T
  <2> SUFFICES ASSUME n + 1 <= m  PROVE a[n + 1] \in KeptStores
    OBVIOUS
  <2>1. a[n] \in KeptStores
    BY <1>11
  <2>2. n + 1 \in 1 .. m /\ n + 1 - 1 = n
    OBVIOUS
  <2>3. a[n + 1] = Used(a[n], texts[n + 1])
    <3>1. \A j \in 1 .. m : a[j] = Used(a[j - 1], texts[j])
      BY <1>9
    <3> QED  BY <2>2, <3>1
  <2> QED  BY <1>2, <2>1, <2>3, UsedKeeps
<1> HIDE DEF T
<1>12. \A n \in 0 .. m : a[n] \in KeptStores
  <2>1. Nat \subseteq T
    BY <1>10, <1>11, InductionBySet
  <2> QED  BY <2>1 DEF T
<1> QED  BY <1>8, <1>9, <1>12

LEMMA StoredAllKeeps ==
  ASSUME limit \in Nat \cup {NoLimit}, StoreKept(store), NEW m \in Nat, NEW fresh \in [1 .. m -> Entries]
  PROVE  StoredAll(fresh) \in Accs
<1> DEFINE x == [store |-> store, raised |-> FALSE]
           step == [i \in 1 .. m |-> [s \in Accs |-> StoreOne(s, fresh[i])]]
           Loop(f) == f = [n \in 0 .. Len(fresh) |-> IF n = 0 THEN x ELSE StoreOne(f[n - 1], fresh[n])]
<1>1. Len(fresh) = m
  OBVIOUS
<1>2. x \in Accs
  BY DEF Accs, KeptStores, StoreKept
<1> HIDE DEF x
<1>3. step \in [1 .. m -> [Accs -> Accs]]
  <2> SUFFICES ASSUME NEW s \in Accs, NEW i \in 1 .. m  PROVE StoreOne(s, fresh[i]) \in Accs
    OBVIOUS
  <2> QED  BY StoreOneKeeps
<1>3a. \A s \in Accs, i \in 1 .. m : step[i][s] = StoreOne(s, fresh[i])
  OBVIOUS
<1> HIDE DEF step
<1>4. PICK f : RunOf(f, Accs, m, x, step)
  BY <1>2, <1>3, LoopRuns
<1>4a. f \in [0 .. m -> Accs] /\ f[0] = x /\ \A i \in 1 .. m : f[i] = step[i][f[i - 1]]
  BY <1>4 DEF RunOf
<1>5. \A i \in 1 .. m : f[i - 1] \in Accs /\ f[i] = StoreOne(f[i - 1], fresh[i])
  <2>1. \A i \in 1 .. m : i - 1 \in 0 .. m
    OBVIOUS
  <2> QED  BY <1>3a, <1>4a, <2>1
<1>6. Loop(f)
  <2>1. \A n \in 0 .. m : n = 0 \/ n \in 1 .. m
    OBVIOUS
  <2> QED  BY <1>1, <1>4a, <1>5, <2>1
<1> DEFINE a == CHOOSE g : Loop(g)
<1>7. Loop(a)
  BY <1>6
<1>8. StoredAll(fresh) = a[m]
  BY <1>1 DEF StoredAll, x
<1> HIDE DEF a
<1>9. a[0] = x /\ \A n \in 1 .. m : a[n] = StoreOne(a[n - 1], fresh[n])
  BY <1>1, <1>7
<1> HIDE DEF Loop
<1> DEFINE T == {n \in Nat : n <= m => a[n] \in Accs}
<1>10. 0 \in T
  BY <1>2, <1>9
<1>11. ASSUME NEW n \in Nat, n \in T  PROVE n + 1 \in T
  <2> SUFFICES ASSUME n + 1 <= m  PROVE a[n + 1] \in Accs
    OBVIOUS
  <2>1. a[n] \in Accs
    BY <1>11
  <2>2. n + 1 \in 1 .. m /\ n + 1 - 1 = n
    OBVIOUS
  <2>3. a[n + 1] = StoreOne(a[n], fresh[n + 1])
    BY <1>9, <2>2
  <2>4. fresh[n + 1] \in Entries
    BY <2>2
  <2> QED  BY <2>1, <2>3, <2>4, StoreOneKeeps
<1> HIDE DEF T
<1>12. m \in T
  <2>1. Nat \subseteq T
    BY <1>10, <1>11, InductionBySet
  <2> QED  BY <2>1
<1> QED  BY <1>8, <1>12 DEF T

-----------------------------------------------------------------------------
(* A call under way: what it has found is a vector of the text in its      *)
(* place, or nothing yet, and nothing is missing once it is done.          *)
FoundSound(texts, results, lacks) ==
  /\ \E m \in Nat : texts \in [1 .. m -> Texts] /\ DOMAIN results = 1 .. m
  /\ \A i \in DOMAIN texts : results[i] \in lacks \/ (results[i] \in Vectors /\ results[i].text = texts[i])
EmbedShape(r) == r = [at |-> r.at, texts |-> r.texts, mode |-> r.mode, results |-> r.results]
EmbedSound(r) ==
  /\ EmbedShape(r)
  /\ r.at = "waits" => r.mode \in Modes /\ FoundSound(r.texts, r.results, {Missing})
  /\ r.at = "done" => FoundSound(r.texts, r.results, {})
EmbedInv ==
  /\ limit \in Nat \cup {NoLimit}
  /\ StoreKept(store)
  /\ DOMAIN embed = Loops
  /\ \A c \in Loops : EmbedSound(embed[c])

LEMMA StoreStays ==
  ASSUME UNCHANGED limit, NEW s, StoreKept(s), store' = s
  PROVE  StoreKept(store)'
BY DEF StoreKept, Distinct

LEMMA EmptyStoreKept == limit \in Nat \cup {NoLimit} => StoreKept(<< >>)
<1>1. << >> \in Seq(Entries) /\ Len(<< >>) = 0 /\ DOMAIN << >> = {}
  OBVIOUS
<1>2. limit \in Nat => 0 <= limit
  OBVIOUS
<1> QED  BY <1>1, <1>2 DEF StoreKept, Distinct

(* One call changes, and perhaps the store.                                *)
LEMMA OneEmbedKept ==
  ASSUME EmbedInv, UNCHANGED limit, NEW s, StoreKept(s), store' = s,
         NEW c, NEW r, EmbedSound(r), embed' = [embed EXCEPT ![c] = r]
  PROVE  EmbedInv'
<1>1. limit' \in Nat \cup {NoLimit}
  BY DEF EmbedInv
<1>2. DOMAIN embed' = Loops /\ \A b \in Loops : embed'[b] = IF b = c THEN r ELSE embed[b]
  BY DEF EmbedInv
<1>3. \A b \in Loops : EmbedSound(embed'[b])
  BY <1>2 DEF EmbedInv
<1>4. \A b \in Loops : EmbedSound(embed[b])'
  BY <1>3 DEF EmbedSound, EmbedShape, FoundSound
<1> QED  BY <1>1, <1>2, <1>4, StoreStays DEF EmbedInv

LEMMA EmbedKeeps ==
  ASSUME EmbedInv, NEW c \in Loops, NEW texts \in TextBatches, NEW mode \in Modes, Embed(c, texts, mode)
  PROVE  EmbedInv'
<1> DEFINE after == LookedUp(texts)
           results == HitsOf(texts, after)
           r == [at |-> IF Missing \in ToSet(results) THEN "waits" ELSE "done",
                 texts |-> texts, mode |-> mode, results |-> results]
<1>1. UNCHANGED limit /\ store' = after[Len(texts)] /\ embed' = [embed EXCEPT ![c] = r]
  BY DEF Embed
<1>2. PICK m \in Nat : texts \in [1 .. m -> Texts]
  BY EmbedCacheAssumption DEF TextBatches
<1>3. Len(texts) = m /\ DOMAIN texts = 1 .. m
  BY <1>2
<1>4. after \in [0 .. m -> KeptStores]
  BY <1>2, LookedUpKeeps DEF EmbedInv
<1> HIDE DEF after
<1>5. \A n \in 0 .. m : StoreKept(after[n])
  <2>1. \A n \in 0 .. m : after[n] \in KeptStores
    BY <1>4
  <2> QED  BY <2>1 DEF KeptStores
<1>6. DOMAIN results = 1 .. m
  BY <1>3 DEF HitsOf
<1>7. \A i \in 1 .. m : results[i] \in {Missing} \/ (results[i] \in Vectors /\ results[i].text = texts[i])
  <2> SUFFICES ASSUME NEW i \in 1 .. m
               PROVE  results[i] \in {Missing} \/ (results[i] \in Vectors /\ results[i].text = texts[i])
    OBVIOUS
  <2>1. i - 1 \in 0 .. m
    BY <1>2
  <2>2. StoreKept(after[i - 1])
    BY <1>5, <2>1
  <2>3. results[i] = IF Stores(after[i - 1], texts[i]) THEN Recalled(after[i - 1], texts[i]) ELSE Missing
    BY <1>3 DEF HitsOf
  <2> QED  BY <2>2, <2>3, RecalledSound
<1> HIDE DEF results
<1>8. Missing \notin ToSet(results) => \A i \in 1 .. m : results[i] # Missing
  BY <1>6 DEF ToSet
<1>9. /\ EmbedShape(r) /\ r.texts = texts /\ r.results = results /\ r.mode = mode
      /\ r.at = "done" => Missing \notin ToSet(results)
  BY DEF EmbedShape
<1> HIDE DEF r
<1>10. FoundSound(texts, results, {Missing})
  BY <1>2, <1>3, <1>6, <1>7 DEF FoundSound
<1>11. r.at = "done" => FoundSound(texts, results, {})
  BY <1>2, <1>3, <1>6, <1>7, <1>8, <1>9 DEF FoundSound
<1>12. EmbedSound(r)
  BY <1>9, <1>10, <1>11 DEF EmbedSound
<1>13. StoreKept(after[m])
  BY <1>2, <1>5
<1> QED  BY <1>1, <1>3, <1>12, <1>13, OneEmbedKept

(* The vectors come back to the places that were missing, and go into the  *)
(* store under their own texts.                                            *)
LEMMA ArriveKeeps ==
  ASSUME EmbedInv, NEW c \in Loops, Arrive(c)
  PROVE  EmbedInv'
<1> DEFINE r == embed[c]
           missed == Misses(r)
           one(i) == [key |-> r.texts[missed[i]], vector |-> Vector(r.texts[missed[i]], r.mode)]
           fresh == [i \in DOMAIN missed |-> one(i)]
           out == StoredAll(fresh)
           failed == [r EXCEPT !.at = "raised"]
           filled == [r EXCEPT !.at = "done", !.results = Filled(r)]
<1>1. UNCHANGED limit /\ r.at = "waits" /\ store' = out.store
  BY DEF Arrive
<1>2. embed' = [embed EXCEPT ![c] = failed] \/ embed' = [embed EXCEPT ![c] = filled]
  BY Zenon DEF Arrive
<1>3. EmbedSound(r)
  BY DEF EmbedInv
<1>4. EmbedShape(r) /\ r.mode \in Modes /\ FoundSound(r.texts, r.results, {Missing})
  BY <1>1, <1>3 DEF EmbedSound
<1> HIDE DEF r
<1>5. PICK m \in Nat : r.texts \in [1 .. m -> Texts] /\ DOMAIN r.results = 1 .. m
  BY <1>4 DEF FoundSound
<1>6. DOMAIN r.texts = 1 .. m /\ r.texts \in Seq(Texts)
  BY <1>5
<1> DEFINE I == {i \in DOMAIN r.texts : r.results[i] = Missing}
           k == Cardinality(I)
<1>7. missed = Increasing(I)
  BY DEF Misses
<1>8. I \in SUBSET DOMAIN r.texts
  OBVIOUS
<1> HIDE DEF I, missed
<1>9. Numbers(missed, k, I) /\ k \in Nat
  <2>1. IsFiniteSet(I)
    BY <1>6, <1>8, Positions, FS_Subset
  <2>2. k \in Nat
    BY <2>1, FS_CardinalityType
  <2> QED  BY <1>6, <1>7, <1>8, <2>2, PickedFrom
<1>10. DOMAIN missed = 1 .. k /\ \A i \in 1 .. k : missed[i] \in 1 .. m
  BY <1>6, <1>8, <1>9 DEF Numbers
<1>11. \A i \in 1 .. k : one(i) \in Entries
  <2> SUFFICES ASSUME NEW i \in 1 .. k  PROVE one(i) \in Entries
    OBVIOUS
  <2> DEFINE t == r.texts[missed[i]]
  <2>1. t \in Texts
    BY <1>5, <1>10
  <2> HIDE DEF t
  <2>2. [key |-> t, vector |-> Vector(t, r.mode)] \in Entries
    BY <1>4, <2>1 DEF Entries, Vectors, Vector
  <2> QED  BY <2>2 DEF t
<1> HIDE DEF one
<1>12. fresh \in [1 .. k -> Entries]
  BY <1>10, <1>11
<1> HIDE DEF fresh
<1>13. out \in Accs
  BY <1>9, <1>12, StoredAllKeeps DEF EmbedInv
<1> HIDE DEF out
<1>14. StoreKept(out.store)
  BY <1>13 DEF Accs, KeptStores
<1>15. EmbedSound(failed)
  <2>1. EmbedShape(failed) /\ failed.at = "raised"
    BY <1>4 DEF EmbedShape
  <2> QED  BY <2>1 DEF EmbedSound
<1>16. EmbedSound(filled)
  <2> DEFINE d == Filled(r)
             mid == [r EXCEPT !.results = d]
  <2>1. \A i \in 1 .. m : d[i] = IF r.results[i] = Missing THEN Vector(r.texts[i], r.mode) ELSE r.results[i]
    BY <1>6 DEF Filled
  <2>2. DOMAIN d = 1 .. m
    BY <1>6 DEF Filled
  <2> HIDE DEF d
  <2>3. \A i \in 1 .. m : Vector(r.texts[i], r.mode) \in Vectors /\ Vector(r.texts[i], r.mode).text = r.texts[i]
    BY <1>4, <1>5 DEF Vectors, Vector
  <2>4. \A i \in 1 .. m : r.results[i] = Missing \/ (r.results[i] \in Vectors /\ r.results[i].text = r.texts[i])
    BY <1>4, <1>6 DEF FoundSound
  <2>5. \A i \in 1 .. m : d[i] \in Vectors /\ d[i].text = r.texts[i]
    BY <2>1, <2>3, <2>4
  <2>6. FoundSound(r.texts, d, {})
    BY <1>5, <1>6, <2>2, <2>5 DEF FoundSound
  <2>7. EmbedShape(mid) /\ mid.texts = r.texts /\ mid.results = d
    BY <1>4 DEF EmbedShape
  <2>8. filled = [mid EXCEPT !.at = "done"]
    BY DEF d
  <2> HIDE DEF mid, filled
  <2>9. EmbedShape(filled) /\ filled.texts = r.texts /\ filled.results = d /\ filled.at = "done"
    BY <2>7, <2>8 DEF EmbedShape
  <2> QED  BY <2>6, <2>9 DEF EmbedSound
<1> HIDE DEF failed, filled
<1> QED  BY <1>1, <1>2, <1>14, <1>15, <1>16, OneEmbedKept

LEMMA EmbedFailsKeeps ==
  ASSUME EmbedInv, NEW c \in Loops, EmbedFails(c)
  PROVE  EmbedInv'
<1> DEFINE r == embed[c]
           failed == [r EXCEPT !.at = "raised"]
<1>1. UNCHANGED limit /\ store' = store /\ embed' = [embed EXCEPT ![c] = failed]
  BY DEF EmbedFails
<1>2. EmbedShape(r) /\ StoreKept(store)
  BY DEF EmbedInv, EmbedSound
<1> HIDE DEF r
<1>3. EmbedShape(failed) /\ failed.at = "raised"
  BY <1>2 DEF EmbedShape
<1> HIDE DEF failed
<1>4. EmbedSound(failed)
  BY <1>3 DEF EmbedSound
<1> QED  BY <1>1, <1>2, <1>4, OneEmbedKept

LEMMA EmbedStep == EmbedInv /\ [EmbedCacheNext]_ecvars => EmbedInv'
<1> SUFFICES ASSUME EmbedInv, [EmbedCacheNext]_ecvars  PROVE EmbedInv'
  OBVIOUS
<1>1. CASE \E c \in Loops, texts \in TextBatches, mode \in Modes : Embed(c, texts, mode)
  BY <1>1, EmbedKeeps
<1>2. CASE \E c \in Loops : Arrive(c) \/ EmbedFails(c)
  BY <1>2, ArriveKeeps, EmbedFailsKeeps
<1>3. CASE ClearStore
  <2>1. UNCHANGED limit /\ store' = << >> /\ embed' = embed
    BY <1>3 DEF ClearStore
  <2>2. StoreKept(store)'
    BY <2>1, EmptyStoreKept, StoreStays DEF EmbedInv
  <2>3. \A c \in Loops : EmbedSound(embed[c])'
    BY <2>1 DEF EmbedInv, EmbedSound, EmbedShape, FoundSound
  <2> QED  BY <2>1, <2>2, <2>3 DEF EmbedInv
<1>4. CASE UNCHANGED ecvars
  <2>1. UNCHANGED <<limit, store, embed>>
    BY <1>4 DEF ecvars
  <2>2. StoreKept(store)'
    BY <2>1, StoreStays DEF EmbedInv
  <2>3. \A c \in Loops : EmbedSound(embed[c])'
    BY <2>1 DEF EmbedInv, EmbedSound, EmbedShape, FoundSound
  <2> QED  BY <2>1, <2>2, <2>3 DEF EmbedInv
<1> QED  BY <1>1, <1>2, <1>3, <1>4 DEF EmbedCacheNext

LEMMA EmbedInitInv == EmbedCacheInit => EmbedInv
<1> SUFFICES ASSUME EmbedCacheInit  PROVE EmbedInv
  OBVIOUS
<1>1. limit \in Nat \cup {NoLimit} /\ store = << >> /\ embed = [c \in Loops |-> NotCalled]
  BY EmbedCacheAssumption DEF EmbedCacheInit
<1>2. EmbedSound(NotCalled)
  <2>1. EmbedShape(NotCalled) /\ NotCalled.at = "idle"
    BY DEF NotCalled, EmbedShape
  <2> QED  BY <2>1 DEF EmbedSound
<1> QED  BY <1>1, <1>2, EmptyStoreKept DEF EmbedInv

(* Whatever other calls look up, store and evict while a call waits for    *)
(* the model, and however often a text is repeated: every vector comes     *)
(* back in the place of its text, and the store keeps its limit            *)
(* (embeddings/cached.py, embeddings/cache.py).                            *)
THEOREM VectorsReturnInPlace == EmbedCacheSpec => []EmbeddingsAligned
<1>1. EmbedInv => EmbeddingsAligned
  <2> SUFFICES ASSUME EmbedInv  PROVE EmbeddingsAligned
    OBVIOUS
  <2>1. ASSUME NEW c \in Loops, embed[c].at = "done"
        PROVE  /\ DOMAIN embed[c].results = DOMAIN embed[c].texts
               /\ \A i \in DOMAIN embed[c].texts : embed[c].results[i].text = embed[c].texts[i]
    <3>1. FoundSound(embed[c].texts, embed[c].results, {})
      BY <2>1 DEF EmbedInv, EmbedSound
    <3> QED  BY <3>1 DEF FoundSound
  <2>2. store \in Seq(Entries) /\ Distinct(store) /\ (limit # NoLimit => Len(store) <= limit)
    BY DEF EmbedInv, StoreKept
  <2>3. \A i \in DOMAIN store : store[i].vector.text = store[i].key
    BY <2>2 DEF Entries
  <2> QED  BY <2>1, <2>2, <2>3 DEF EmbeddingsAligned, Distinct
<1>2. EmbedCacheInit => EmbedInv
  BY EmbedInitInv
<1>3. EmbedInv /\ [EmbedCacheNext]_ecvars => EmbedInv'
  BY EmbedStep
<1> QED  BY <1>1, <1>2, <1>3, PTL DEF EmbedCacheSpec

-----------------------------------------------------------------------------
(***************************************************************************)
(* Ingestion.                                                              *)
(***************************************************************************)
(* The chunks of a corpus: an id stands for one text.                      *)
SeqOfChunks(s) ==
  /\ Len(s) \in Nat /\ DOMAIN s = 1 .. Len(s)
  /\ \A j, k \in DOMAIN s : s[j].id = s[k].id => s[j].text = s[k].text
  /\ \A k \in DOMAIN s : s[k].id \in ChunkIds

LEMMA PiecesSeq ==
  ASSUME NEW r \in Records
  PROVE  Len(Pieces(r)) \in Nat /\ DOMAIN Pieces(r) = 1 .. Len(Pieces(r))
<1> DEFINE X == ToSet(r.texts)
           I == {i \in DOMAIN r.texts : r.texts[i] # NoText}
<1>1. r.texts \in Seq(X)
  BY IngestAssumption
<1>2. I \in SUBSET DOMAIN r.texts
  OBVIOUS
<1>3. Pieces(r) = Picked(r.texts, I)
  BY DEF Pieces, NonBlank
<1> HIDE DEF X, I
<1>4. Picked(r.texts, I) \in Seq(X)
  BY <1>1, <1>2, PickedFrom
<1> HIDE DEF X
<1> QED  BY <1>3, <1>4

LEMMA ChunksSound ==
  ASSUME NEW c \in Corpora
  PROVE  SeqOfChunks(AllChunks(c))
<1> DEFINE s == AllChunks(c)
           seqs == [i \in DOMAIN c |-> ChunksIn(c[i])]
           X == UNION {ToSet(ChunksIn(r)) : r \in Records}
           P == Places(seqs)
           nth == InOrder(P, RowByRow(P))
<1>1. c \in Seq(Records) /\ DOMAIN c = 1 .. Len(c) /\ Len(c) \in Nat
  BY IngestAssumption
<1>2. \A r \in Records : ChunksIn(r) \in Seq(X)
  <2> SUFFICES ASSUME NEW r \in Records  PROVE ChunksIn(r) \in Seq(X)
    OBVIOUS
  <2> DEFINE n == Len(Pieces(r))
             e(k) == [id |-> <<r.id, k>>, text |-> Pieces(r)[k]]
  <2>1. n \in Nat /\ DOMAIN Pieces(r) = 1 .. n
    BY PiecesSeq
  <2>2. ChunksIn(r) = [k \in 1 .. n |-> e(k)]
    BY <2>1 DEF ChunksIn
  <2> HIDE DEF n, e
  <2>3. \A k \in 1 .. n : e(k) \in ToSet(ChunksIn(r))
    <3>1. DOMAIN ChunksIn(r) = 1 .. n /\ \A k \in 1 .. n : ChunksIn(r)[k] = e(k)
      BY <2>2
    <3> QED  BY <3>1 DEF ToSet
  <2>4. \A k \in 1 .. n : e(k) \in X
    BY <2>3
  <2> HIDE DEF X
  <2> QED  BY <2>1, <2>2, <2>4, IsASeq
<1> HIDE DEF X
<1>3. seqs \in Seq(Seq(X))
  <2> DEFINE e(i) == ChunksIn(c[i])
             m == Len(c)
  <2>1. \A i \in 1 .. m : e(i) \in Seq(X)
    BY <1>1, <1>2
  <2>2. seqs = [i \in 1 .. m |-> e(i)]
    BY <1>1
  <2>3. m \in Nat
    BY <1>1
  <2> HIDE DEF e, m, seqs
  <2> QED  BY <2>1, <2>2, <2>3, IsASeq
<1>4. \A i \in 1 .. Len(c) : seqs[i] = ChunksIn(c[i]) /\ c[i] \in ToSet(c) /\ c[i] \in Records
  BY <1>1 DEF ToSet
<1>5. DOMAIN seqs = 1 .. Len(c)
  BY <1>1
<1>6. s = Joined(seqs)
  BY DEF AllChunks
<1> HIDE DEF seqs, s
<1>7. /\ Numbers(nth, Cardinality(P), P)
      /\ s \in Seq(X) /\ Len(s) = Cardinality(P)
      /\ \A k \in 1 .. Cardinality(P) : s[k] = seqs[nth[k][1]][nth[k][2]]
  BY <1>3, <1>6, JoinedFrom
<1>8. Len(s) \in Nat /\ DOMAIN s = 1 .. Len(s)
  BY <1>7
<1>9. \A p \in P : p[1] \in 1 .. Len(c) /\ p[2] \in DOMAIN seqs[p[1]]
  BY <1>5 DEF Places
<1> HIDE DEF nth, P
<1>10. ASSUME NEW k \in DOMAIN s
       PROVE  \E i \in 1 .. Len(c) : \E n \in DOMAIN Pieces(c[i]) :
                s[k].id = <<c[i].id, n>> /\ s[k].text = Pieces(c[i])[n]
  <2> DEFINE i == nth[k][1]
             n == nth[k][2]
  <2>1. nth[k] \in P
    BY <1>7, <1>8 DEF Numbers
  <2>2. i \in 1 .. Len(c) /\ n \in DOMAIN seqs[i] /\ s[k] = seqs[i][n]
    BY <1>7, <1>8, <1>9, <2>1
  <2> HIDE DEF i, n
  <2>3. DOMAIN seqs[i] = DOMAIN Pieces(c[i]) /\ s[k] = [id |-> <<c[i].id, n>>, text |-> Pieces(c[i])[n]]
    BY <1>4, <2>2 DEF ChunksIn
  <2>4. s[k].id = <<c[i].id, n>> /\ s[k].text = Pieces(c[i])[n]
    BY <2>3
  <2>5. i \in 1 .. Len(c) /\ n \in DOMAIN Pieces(c[i])
    BY <2>2, <2>3
  <2> QED  BY ONLY <2>4, <2>5
<1>11. ASSUME NEW j \in DOMAIN s, NEW k \in DOMAIN s, s[j].id = s[k].id  PROVE s[j].text = s[k].text
  <2>1. PICK i \in 1 .. Len(c) : \E n \in DOMAIN Pieces(c[i]) :
          s[j].id = <<c[i].id, n>> /\ s[j].text = Pieces(c[i])[n]
    BY <1>10
  <2>2. PICK n : s[j].id = <<c[i].id, n>> /\ s[j].text = Pieces(c[i])[n]
    BY <2>1
  <2>3. PICK l \in 1 .. Len(c) : \E o \in DOMAIN Pieces(c[l]) :
          s[k].id = <<c[l].id, o>> /\ s[k].text = Pieces(c[l])[o]
    BY <1>10
  <2>4. PICK o : s[k].id = <<c[l].id, o>> /\ s[k].text = Pieces(c[l])[o]
    BY <2>3
  <2>5. c[i].id = c[l].id /\ n = o
    <3> DEFINE a == c[i].id
               b == c[l].id
    <3>1. <<a, n>> = <<b, o>>
      BY <1>11, <2>2, <2>4
    <3> HIDE DEF a, b
    <3>2. a = b /\ n = o
      <4>1. \A x, y, z, u : <<x, y>> = <<z, u>> => x = z /\ y = u
        OBVIOUS
      <4> QED  BY ONLY <3>1, <4>1
    <3> QED  BY <3>2 DEF a, b
  <2>6. c[i].texts = c[l].texts
    BY <1>4, <2>5, IngestAssumption
  <2>7. Pieces(c[i]) = Pieces(c[l])
    BY <2>6 DEF Pieces
  <2> QED  BY <2>2, <2>4, <2>5, <2>7
<1>12. \A k \in DOMAIN s : s[k].id \in ChunkIds
  <2> SUFFICES ASSUME NEW k \in DOMAIN s  PROVE s[k].id \in ChunkIds
    OBVIOUS
  <2>1. s[k] \in ToSet(s)
    BY DEF ToSet
  <2> QED  BY <2>1 DEF ChunkIds, s
<1> QED  BY <1>8, <1>11, <1>12 DEF SeqOfChunks, s

-----------------------------------------------------------------------------
(* The chunks of the corpus, the first of each text, and those that are    *)
(* stored.                                                                 *)
All == AllChunks(corpus)
First(k) == \A j \in 1 .. k - 1 : All[j].text # All[k].text
Held(k) == stored[All[k].id] = All[k].text
Complete == \A k \in DOMAIN All : First(k) => Held(k)
Firsts == {All[k] : k \in {j \in DOMAIN All : First(j)}}

RunShape == run = [at |-> run.at, next |-> run.next, seen |-> run.seen, batch |-> run.batch, total |-> run.total]
BatchKept ==
  /\ run.batch \in Seq(Firsts)
  /\ \A k \in 1 .. run.next - 1 : First(k) => Held(k) \/ \E i \in DOMAIN run.batch : run.batch[i] = All[k]
TotalKept ==
  /\ IsFiniteSet(run.seen) /\ run.total \in Nat
  /\ run.total + Len(run.batch) = Cardinality(run.seen)
SeenKept ==
  /\ run.next \in 1 .. Len(All) + 1
  /\ run.seen = {All[j].text : j \in 1 .. run.next - 1}

(* What is known of a run, and of what the last one left.                  *)
RunInv == run.at = "running" => SeenKept /\ BatchKept /\ TotalKept
DoneInv ==
  run.at = "done" =>
    Complete /\ run.total = Cardinality({All[k].text : k \in DOMAIN All})
             /\ (settled.again => stored = settled.before)
SettledInv ==
  /\ "corpus" \in DOMAIN settled /\ settled.corpus \in {{}, {corpus}}
  /\ settled.corpus = {corpus} => stored = settled.stored /\ Complete
IngestInv ==
  /\ corpus \in Corpora
  /\ stored = [id \in ChunkIds |-> stored[id]]
  /\ RunShape /\ RunInv /\ DoneInv /\ SettledInv

(* Chunks written are found under their ids, and nothing that was there is *)
(* overwritten by another text.                                            *)
LEMMA WroteKeeps ==
  ASSUME IngestInv, NEW part_ \in SUBSET Firsts
  PROVE  /\ \A k \in DOMAIN All : Held(k) \/ All[k] \in part_ => Wrote(part_)[All[k].id] = All[k].text
         /\ Complete => Wrote(part_) = stored
         /\ DOMAIN Wrote(part_) = ChunkIds
<1> DEFINE w == Wrote(part_)
           has(id) == \E c \in part_ : c.id = id
           one(id) == CHOOSE c \in part_ : c.id = id
<1>1. \A id \in ChunkIds : w[id] = IF has(id) THEN one(id).text ELSE stored[id]
  BY DEF Wrote
<1>2. DOMAIN w = ChunkIds /\ w = [id \in ChunkIds |-> w[id]]
  BY DEF Wrote
<1>3. \A id : has(id) => one(id) \in part_ /\ one(id).id = id
  OBVIOUS
<1> HIDE DEF w, has, one
<1>4. SeqOfChunks(All)
  BY ChunksSound DEF IngestInv, All
<1>5. \A c \in part_ : \E j \in DOMAIN All : First(j) /\ c = All[j]
  BY DEF Firsts
<1>6. ASSUME NEW k \in DOMAIN All, Held(k) \/ All[k] \in part_  PROVE w[All[k].id] = All[k].text
  <2> DEFINE id == All[k].id
  <2>1. id \in ChunkIds
    BY <1>4 DEF SeqOfChunks
  <2> HIDE DEF id
  <2>2. CASE has(id)
    <3>1. PICK j \in DOMAIN All : one(id) = All[j]
      BY <1>3, <1>5, <2>2
    <3>2. All[j].id = All[k].id
      BY <1>3, <2>2, <3>1 DEF id
    <3>3. All[j].text = All[k].text
      BY <1>4, <3>2 DEF SeqOfChunks
    <3> QED  BY <1>1, <2>1, <2>2, <3>1, <3>3 DEF id
  <2>3. CASE ~has(id)
    <3>1. Held(k)
      BY <1>6, <2>3 DEF has, id
    <3> QED  BY <1>1, <2>1, <2>3, <3>1 DEF Held, id
  <2> QED  BY <2>2, <2>3
<1>7. ASSUME Complete  PROVE w = stored
  <2>1. ASSUME NEW id \in ChunkIds  PROVE w[id] = stored[id]
    <3>1. CASE ~has(id)
      BY <1>1, <3>1
    <3>2. CASE has(id)
      <4>1. PICK j \in DOMAIN All : First(j) /\ one(id) = All[j]
        BY <1>3, <1>5, <3>2
      <4>2. Held(j) /\ All[j].id = id
        BY <1>3, <1>7, <3>2, <4>1 DEF Complete
      <4> QED  BY <1>1, <3>2, <4>1, <4>2 DEF Held
    <3> QED  BY <3>1, <3>2
  <2> QED  BY <1>2, <2>1 DEF IngestInv
<1> QED  BY <1>2, <1>6, <1>7 DEF w

-----------------------------------------------------------------------------
(* A set of one more element.                                              *)
LEMMA OneMore ==
  ASSUME NEW S, IsFiniteSet(S), NEW x
  PROVE  /\ IsFiniteSet(S \cup {x})
         /\ Cardinality(S \cup {x}) = IF x \in S THEN Cardinality(S) ELSE Cardinality(S) + 1
BY FS_AddElement

LEMMA BeginKeeps ==
  ASSUME IngestInv, Begin  PROVE IngestInv'
<1>1. run' = [NotRun EXCEPT !.at = "running"] /\ UNCHANGED <<corpus, stored, settled>>
  BY DEF Begin
<1>2. run' = [at |-> "running", next |-> 1, seen |-> {}, batch |-> << >>, total |-> 0]
  BY <1>1 DEF NotRun
<1>3. RunShape' /\ run'.at = "running" /\ run'.next = 1 /\ run'.seen = {} /\ run'.batch = << >> /\ run'.total = 0
  BY <1>2 DEF RunShape
<1>4. SeqOfChunks(All)
  BY ChunksSound DEF IngestInv, All
<1>5. Len(All) \in Nat /\ 1 \in 1 .. Len(All) + 1 /\ 1 .. 0 = {} /\ 1 - 1 = 0
  BY <1>4 DEF SeqOfChunks
<1>6. All' = All /\ Firsts' = Firsts
  BY <1>1 DEF All, Firsts, First
<1>7. SeenKept'
  BY <1>3, <1>5, <1>6 DEF SeenKept
<1>8. BatchKept'
  <2>1. << >> \in Seq(Firsts)
    OBVIOUS
  <2>2. 1 .. run'.next - 1 = {}
    BY <1>3
  <2> QED  BY <1>3, <1>6, <2>1, <2>2 DEF BatchKept
<1>9. TotalKept'
  <2>1. IsFiniteSet({}) /\ Cardinality({}) = 0 /\ Len(<< >>) = 0 /\ 0 + 0 = 0 /\ 0 \in Nat
    BY FS_EmptySet
  <2> QED  BY <1>3, <2>1 DEF TotalKept
<1>10. DoneInv'
  BY <1>3 DEF DoneInv
<1>11. SettledInv'
  BY <1>1, <1>6 DEF IngestInv, SettledInv, Complete, First, Held
<1> QED  BY <1>1, <1>3, <1>7, <1>8, <1>9, <1>10, <1>11 DEF IngestInv, RunInv

(* A chunk is taken if it is the first of its text.                        *)
LEMMA TakeKeeps ==
  ASSUME IngestInv, Take  PROVE IngestInv'
<1> DEFINE k == run.next
           c == All[k]
           taken == IF c.text \in run.seen THEN run.batch ELSE Append(run.batch, c)
           seen == run.seen \cup {c.text}
<1>1. /\ run.at = "running" /\ k <= Len(All) /\ UNCHANGED <<corpus, stored, settled>>
      /\ run' = [run EXCEPT !.next = @ + 1, !.seen = @ \cup {c.text},
                            !.batch = IF c.text \in run.seen THEN @ ELSE Append(@, c)]
  BY DEF Take, All
<1>2. RunShape /\ SeenKept /\ BatchKept /\ TotalKept
  BY <1>1 DEF IngestInv, RunInv
<1>3. run' = [at |-> "running", next |-> k + 1, seen |-> seen, batch |-> taken, total |-> run.total]
  BY <1>1, <1>2 DEF RunShape
<1>4. SeqOfChunks(All)
  BY ChunksSound DEF IngestInv, All
<1>5. /\ k \in 1 .. Len(All) /\ k \in Nat /\ k \in DOMAIN All /\ k + 1 \in 1 .. Len(All) + 1 /\ k + 1 - 1 = k
      /\ run.seen = {All[j].text : j \in 1 .. k - 1}
  BY <1>1, <1>2, <1>4 DEF SeqOfChunks, SeenKept
<1>6. First(k) <=> c.text \notin run.seen
  BY <1>5 DEF First
<1> HIDE DEF taken, seen
<1>7. RunShape' /\ run'.at = "running" /\ run'.next = k + 1 /\ run'.seen = seen /\ run'.batch = taken
      /\ run'.total = run.total
  BY <1>3 DEF RunShape
<1>8. All' = All /\ Firsts' = Firsts
  BY <1>1 DEF All, Firsts, First
<1>9. 1 .. k = (1 .. k - 1) \cup {k}
  BY <1>5
<1>10. SeenKept'
  <2>1. seen = {All[j].text : j \in 1 .. k}
    BY <1>5, <1>9 DEF seen
  <2> QED  BY <1>5, <1>7, <1>8, <2>1 DEF SeenKept
<1>11. /\ taken \in Seq(Firsts)
       /\ \A i \in DOMAIN run.batch : i \in DOMAIN taken /\ taken[i] = run.batch[i]
       /\ First(k) => \E i \in DOMAIN taken : taken[i] = c
       /\ Len(taken) = IF First(k) THEN Len(run.batch) + 1 ELSE Len(run.batch)
       /\ Len(run.batch) \in Nat
  <2>1. run.batch \in Seq(Firsts)
    BY <1>2 DEF BatchKept
  <2>2. CASE ~First(k)
    BY <1>6, <2>1, <2>2 DEF taken
  <2>3. CASE First(k)
    <3>1. c \in Firsts
      BY <1>5, <2>3 DEF Firsts
    <3>2. taken = Append(run.batch, c)
      BY <1>6, <2>3 DEF taken
    <3> HIDE DEF c
    <3>3. /\ taken \in Seq(Firsts) /\ Len(taken) = Len(run.batch) + 1 /\ taken[Len(run.batch) + 1] = c
          /\ \A i \in 1 .. Len(run.batch) : taken[i] = run.batch[i]
      BY <2>1, <3>1, <3>2, AppendProperties
    <3>4. DOMAIN taken = 1 .. Len(run.batch) + 1 /\ DOMAIN run.batch = 1 .. Len(run.batch) /\ Len(run.batch) \in Nat
      BY <2>1, <3>3
    <3>5. Len(run.batch) + 1 \in DOMAIN taken
      BY <3>4
    <3>6. \A i \in DOMAIN run.batch : i \in DOMAIN taken
      BY <3>4
    <3> QED  BY <2>3, <3>3, <3>4, <3>5, <3>6
  <2> QED  BY <2>2, <2>3
<1>12. BatchKept'
  <2>1. \A j \in 1 .. k - 1 : First(j) => Held(j) \/ \E i \in DOMAIN run.batch : run.batch[i] = All[j]
    BY <1>2 DEF BatchKept
  <2>2. \A j \in 1 .. k : First(j) => Held(j) \/ \E i \in DOMAIN taken : taken[i] = All[j]
    BY <1>9, <1>11, <2>1
  <2>3. \A j : (First(j) <=> First(j)') /\ (Held(j) <=> Held(j)')
    BY <1>1, <1>8 DEF First, Held
  <2>4. 1 .. run'.next - 1 = 1 .. k
    BY <1>5, <1>7
  <2> QED  BY <1>7, <1>8, <1>11, <2>2, <2>3, <2>4 DEF BatchKept
<1>13. TotalKept'
  <2>1. IsFiniteSet(run.seen) /\ run.total \in Nat /\ run.total + Len(run.batch) = Cardinality(run.seen)
    BY <1>2 DEF TotalKept
  <2> DEFINE t == c.text
  <2>2. t \in run.seen <=> ~First(k)
    BY <1>6
  <2>3. seen = run.seen \cup {t}
    BY DEF seen
  <2> HIDE DEF t
  <2>4. IsFiniteSet(seen) /\ Cardinality(seen) = IF t \in run.seen THEN Cardinality(run.seen) ELSE Cardinality(run.seen) + 1
    BY <2>1, <2>3, OneMore
  <2>5. run.total + Len(taken) = Cardinality(seen)
    BY <1>11, <2>1, <2>2, <2>4
  <2> QED  BY <1>7, <2>1, <2>4, <2>5 DEF TotalKept
<1>14. DoneInv'
  BY <1>7 DEF DoneInv
<1>15. SettledInv'
  BY <1>1, <1>8 DEF IngestInv, SettledInv, Complete, First, Held
<1>16. corpus' \in Corpora /\ (stored = [id \in ChunkIds |-> stored[id]])'
  BY <1>1 DEF IngestInv
<1> QED  BY <1>7, <1>10, <1>12, <1>13, <1>14, <1>15, <1>16 DEF IngestInv, RunInv

(* What the store is after some of the chunks in hand were written.        *)
LEMMA WriteSettled ==
  ASSUME IngestInv, NEW part_ \in SUBSET Firsts, stored' = Wrote(part_), UNCHANGED <<corpus, settled>>
  PROVE  /\ (stored = [id \in ChunkIds |-> stored[id]])' /\ SettledInv'
         /\ \A k \in DOMAIN All : Held(k) \/ All[k] \in part_ => Held(k)'
         /\ All' = All /\ Firsts' = Firsts /\ \A k : First(k) <=> First(k)'
<1>1. All' = All /\ Firsts' = Firsts /\ \A k : First(k) <=> First(k)'
  BY DEF All, Firsts, First
<1>2. /\ \A k \in DOMAIN All : Held(k) \/ All[k] \in part_ => stored'[All[k].id] = All[k].text
      /\ Complete => stored' = stored
  BY WroteKeeps
<1>3. \A k \in DOMAIN All : Held(k) \/ All[k] \in part_ => Held(k)'
  BY <1>1, <1>2 DEF Held
<1>4. (stored = [id \in ChunkIds |-> stored[id]])'
  BY DEF Wrote
<1>5. Complete => Complete'
  BY <1>1, <1>3 DEF Complete
<1>6. SettledInv'
  BY <1>2, <1>5 DEF IngestInv, SettledInv
<1> QED  BY <1>1, <1>3, <1>4, <1>6

LEMMA UpsertKeeps ==
  ASSUME IngestInv, Upsert  PROVE IngestInv'
<1> DEFINE part_ == ToSet(run.batch)
<1>1. /\ run.at = "running" /\ stored' = Wrote(part_) /\ UNCHANGED <<corpus, settled>>
      /\ run' = [run EXCEPT !.batch = <<>>, !.total = @ + Len(run.batch)]
  BY DEF Upsert, BatchDue
<1>2. RunShape /\ SeenKept /\ BatchKept /\ TotalKept
  BY <1>1 DEF IngestInv, RunInv
<1>3. RunShape' /\ run'.at = "running" /\ run'.next = run.next /\ run'.seen = run.seen /\ run'.batch = << >>
      /\ run'.total = run.total + Len(run.batch)
  <2>1. run' = [at |-> "running", next |-> run.next, seen |-> run.seen, batch |-> << >>,
                total |-> run.total + Len(run.batch)]
    BY <1>1, <1>2 DEF RunShape
  <2> QED  BY <2>1 DEF RunShape
<1>4. run.batch \in Seq(Firsts)
  BY <1>2 DEF BatchKept
<1>5. part_ \in SUBSET Firsts
  BY <1>4 DEF ToSet
<1>6. /\ (stored = [id \in ChunkIds |-> stored[id]])' /\ SettledInv'
      /\ \A k \in DOMAIN All : Held(k) \/ All[k] \in part_ => Held(k)'
      /\ All' = All /\ Firsts' = Firsts /\ \A k : First(k) <=> First(k)'
  BY <1>1, <1>5, WriteSettled
<1>7. SeenKept'
  BY <1>2, <1>3, <1>6 DEF SeenKept
<1>8. SeqOfChunks(All)
  BY ChunksSound DEF IngestInv, All
<1>9. \A k \in 1 .. run.next - 1 : k \in DOMAIN All
  BY <1>2, <1>8 DEF SeenKept, SeqOfChunks
<1>10. BatchKept'
  <2>1. << >> \in Seq(Firsts)
    OBVIOUS
  <2>2. \A k \in 1 .. run.next - 1 : First(k) => Held(k) \/ All[k] \in part_
    BY <1>2 DEF BatchKept, ToSet
  <2>3. \A k \in 1 .. run.next - 1 : First(k) => Held(k)'
    BY <1>6, <1>9, <2>2
  <2> QED  BY <1>3, <1>6, <2>1, <2>3 DEF BatchKept
<1>11. TotalKept'
  <2>1. Len(<< >>) = 0 /\ Len(run.batch) \in Nat
    BY <1>4
  <2>2. IsFiniteSet(run.seen) /\ run.total \in Nat /\ run.total + Len(run.batch) = Cardinality(run.seen)
    BY <1>2 DEF TotalKept
  <2> QED  BY <1>3, <2>1, <2>2 DEF TotalKept
<1>12. DoneInv'
  BY <1>3 DEF DoneInv
<1>13. corpus' \in Corpora
  BY <1>1 DEF IngestInv
<1> QED  BY <1>3, <1>6, <1>7, <1>10, <1>11, <1>12, <1>13 DEF IngestInv, RunInv

LEMMA UpsertFailsKeeps ==
  ASSUME IngestInv, UpsertFails  PROVE IngestInv'
<1>1. PICK part_ \in SUBSET ToSet(run.batch) : stored' = Wrote(part_)
  BY DEF UpsertFails
<1>2. run.at = "running" /\ UNCHANGED <<corpus, settled>> /\ run' = [run EXCEPT !.at = "raised", !.batch = << >>]
  BY DEF UpsertFails, BatchDue
<1>3. RunShape /\ BatchKept
  BY <1>2 DEF IngestInv, RunInv
<1>4. RunShape' /\ run'.at = "raised"
  BY <1>2, <1>3 DEF RunShape
<1>5. part_ \in SUBSET Firsts
  BY <1>3 DEF BatchKept, ToSet
<1>6. (stored = [id \in ChunkIds |-> stored[id]])' /\ SettledInv'
  BY <1>1, <1>2, <1>5, WriteSettled
<1>7. RunInv' /\ DoneInv'
  BY <1>4 DEF RunInv, DoneInv
<1>8. corpus' \in Corpora
  BY <1>2 DEF IngestInv
<1> QED  BY <1>4, <1>6, <1>7, <1>8 DEF IngestInv

LEMMA SourceFailsKeeps ==
  ASSUME IngestInv, SourceFails  PROVE IngestInv'
<1>1. UNCHANGED <<corpus, settled, stored>> /\ run' = [run EXCEPT !.at = "raised", !.batch = << >>]
  BY DEF SourceFails
<1>2. RunShape
  BY DEF IngestInv
<1>3. RunShape' /\ run'.at = "raised"
  BY <1>1, <1>2 DEF RunShape
<1>4. RunInv' /\ DoneInv'
  BY <1>3 DEF RunInv, DoneInv
<1>5. SettledInv'
  BY <1>1 DEF IngestInv, SettledInv, Complete, First, Held, All
<1> QED  BY <1>1, <1>3, <1>4, <1>5 DEF IngestInv

(* A run that ends has been through all of the chunks.                     *)
LEMMA ReturnKeeps ==
  ASSUME IngestInv, Return  PROVE IngestInv'
<1>1. /\ run.at = "running" /\ run.batch = << >> /\ run.next > Len(All) /\ UNCHANGED <<corpus, stored>>
      /\ run' = [run EXCEPT !.at = "done"]
      /\ settled' = [corpus |-> {corpus}, stored |-> stored, before |-> settled.stored,
                     again |-> corpus \in settled.corpus]
  BY DEF Return, All
<1>2. RunShape /\ SeenKept /\ BatchKept /\ TotalKept /\ SettledInv
  BY <1>1 DEF IngestInv, RunInv
<1>3. RunShape' /\ run'.at = "done" /\ run'.total = run.total
  BY <1>1, <1>2 DEF RunShape
<1>4. SeqOfChunks(All)
  BY ChunksSound DEF IngestInv, All
<1>5. DOMAIN All = 1 .. run.next - 1
  BY <1>1, <1>2, <1>4 DEF SeqOfChunks, SeenKept
<1>6. All' = All /\ \A k : (First(k) <=> First(k)') /\ (Held(k) <=> Held(k)')
  BY <1>1 DEF All, First, Held
<1>7. Complete
  <2>1. DOMAIN run.batch = {}
    BY <1>1
  <2> QED  BY <1>2, <1>5, <2>1 DEF BatchKept, Complete
<1>8. Complete'
  BY <1>6, <1>7 DEF Complete
<1>9. run.total = Cardinality({All[k].text : k \in DOMAIN All})
  <2>1. run.seen = {All[k].text : k \in DOMAIN All}
    BY <1>2, <1>5 DEF SeenKept
  <2>2. run.total + 0 = Cardinality(run.seen) /\ run.total \in Nat
    <3>1. Len(<< >>) = 0
      OBVIOUS
    <3> QED  BY <1>1, <1>2, <3>1 DEF TotalKept
  <2>3. run.total = Cardinality(run.seen)
    BY <2>2
  <2> QED  BY <2>1, <2>3
<1>10. settled'.again => stored' = settled'.before
  <2>1. settled'.again <=> corpus \in settled.corpus
    BY <1>1, Zenon
  <2>2. settled'.before = settled.stored
    BY <1>1
  <2>3. corpus \in settled.corpus => settled.corpus = {corpus}
    BY <1>2 DEF SettledInv
  <2> QED  BY <1>1, <1>2, <2>1, <2>2, <2>3 DEF SettledInv
<1>11. DoneInv'
  BY <1>3, <1>6, <1>8, <1>9, <1>10 DEF DoneInv
<1>12. SettledInv'
  <2>1. settled'.corpus = {corpus} /\ settled'.stored = stored /\ "corpus" \in DOMAIN settled'
    BY <1>1
  <2> QED  BY <1>1, <1>8, <2>1 DEF SettledInv
<1>13. RunInv'
  BY <1>3 DEF RunInv
<1> QED  BY <1>1, <1>3, <1>11, <1>12, <1>13 DEF IngestInv

LEMMA EditKeeps ==
  ASSUME IngestInv, NEW c \in Corpora, Edit(c)  PROVE IngestInv'
<1>1. corpus' = c /\ run' = NotRun /\ stored' = stored /\ settled' = [settled EXCEPT !.corpus = {}]
  BY DEF Edit
<1>2. RunShape' /\ run'.at = "idle"
  BY <1>1 DEF NotRun, RunShape
<1>3. "corpus" \in DOMAIN settled' /\ settled'.corpus = {} /\ {} # {c}
  BY <1>1 DEF IngestInv, SettledInv
<1>4. SettledInv'
  BY <1>1, <1>3 DEF SettledInv
<1>5. RunInv' /\ DoneInv'
  BY <1>2 DEF RunInv, DoneInv
<1> QED  BY <1>1, <1>2, <1>4, <1>5 DEF IngestInv

LEMMA IngestInitInv == IngestInit => IngestInv
<1> SUFFICES ASSUME IngestInit  PROVE IngestInv
  OBVIOUS
<1>1. corpus \in Corpora /\ run = NotRun /\ stored = [id \in ChunkIds |-> NoChunk]
      /\ settled = [corpus |-> {}, stored |-> stored, before |-> stored, again |-> FALSE]
  BY DEF IngestInit
<1>2. RunShape /\ run.at = "idle"
  BY <1>1 DEF NotRun, RunShape
<1>3. "corpus" \in DOMAIN settled /\ settled.corpus = {} /\ {} # {corpus}
  BY <1>1
<1>4. stored = [id \in ChunkIds |-> stored[id]]
  BY <1>1
<1> QED  BY <1>1, <1>2, <1>3, <1>4 DEF IngestInv, RunInv, DoneInv, SettledInv

LEMMA IngestStep == IngestInv /\ [IngestNext]_invars => IngestInv'
<1> SUFFICES ASSUME IngestInv, [IngestNext]_invars  PROVE IngestInv'
  OBVIOUS
<1>1. CASE UNCHANGED invars
  <2>1. UNCHANGED <<corpus, run, stored, settled>>
    BY <1>1 DEF invars
  <2>2. All' = All /\ Firsts' = Firsts /\ \A k : (First(k) <=> First(k)') /\ (Held(k) <=> Held(k)')
    BY <2>1 DEF All, Firsts, First, Held
  <2>3. Complete <=> Complete'
    BY <2>2 DEF Complete
  <2>4. RunShape' /\ RunInv'
    BY <2>1, <2>2 DEF IngestInv, RunShape, RunInv, SeenKept, BatchKept, TotalKept
  <2>5. DoneInv' /\ SettledInv'
    BY <2>1, <2>2, <2>3 DEF IngestInv, DoneInv, SettledInv
  <2> QED  BY <2>1, <2>4, <2>5 DEF IngestInv
<1>2. CASE \E c \in Corpora : Edit(c)
  BY <1>2, EditKeeps
<1> QED  BY <1>1, <1>2, BeginKeeps, TakeKeeps, UpsertKeeps, UpsertFailsKeeps, SourceFailsKeeps, ReturnKeeps
         DEF IngestNext

(* Whatever runs failed part way, and whatever documents they ran over: a  *)
(* run that returns has stored and counted every text of its corpus, and   *)
(* changed nothing if nothing had changed (ingest.py, ingest).             *)
THEOREM RunsComplete == IngestSpec => []IngestComplete
<1>1. IngestInv => IngestComplete
  BY DEF IngestInv, DoneInv, IngestComplete, Complete, First, Held, All
<1>2. IngestInit => IngestInv
  BY IngestInitInv
<1>3. IngestInv /\ [IngestNext]_invars => IngestInv'
  BY IngestStep
<1> QED  BY <1>1, <1>2, <1>3, PTL DEF IngestSpec

-----------------------------------------------------------------------------
(***************************************************************************)
(* The lexical index.                                                      *)
(***************************************************************************)
(* What a text is split into: words, some of them parts of others.         *)
Word == Seq(WordParts)
TextsAsked == DocTexts \cup Questions

LEMMA PartsTyped ==
  ASSUME NEW w \in Seq(WordParts) \ {<<>>}
  PROVE  Parts(w) \in Seq(Word)
<1> DEFINE all == [i \in DOMAIN w |-> <<w[i]>>]
           I == {i \in DOMAIN w : w[i] \notin StopWords}
<1>1. w \in Word /\ DOMAIN w = 1 .. Len(w) /\ Len(w) \in Nat /\ \A i \in DOMAIN w : w[i] \in WordParts
  BY Positions DEF Word
<1>2. <<w>> \in Seq(Word)
  BY <1>1
<1>3. all \in Seq(Word)
  <2>1. \A i \in 1 .. Len(w) : <<w[i]>> \in Word
    BY <1>1 DEF Word
  <2> QED  BY <1>1, <2>1, IsASeq
<1>4. I \in SUBSET DOMAIN all
  OBVIOUS
<1> HIDE DEF all, I
<1>5. Picked(all, I) \in Seq(Word)
  BY <1>3, <1>4, PickedFrom
<1>6. <<w>> \o Picked(all, I) \in Seq(Word)
  BY <1>2, <1>5, ConcatProperties
<1> QED  BY <1>2, <1>6 DEF Parts, all, I

LEMMA TokensTyped ==
  ASSUME NEW text \in TextsAsked
  PROVE  Tokens(text) \in Seq(Word) /\ ToSet(Tokens(text)) \subseteq Terms
<1> DEFINE I == {i \in DOMAIN text : Len(text[i]) > 1 \/ text[i][1] \notin StopWords}
           words == Words(text)
           parts == [i \in DOMAIN words |-> Parts(words[i])]
<1>1. text \in Seq(Seq(WordParts) \ {<<>>})
  BY BM25Assumption DEF TextsAsked
<1>2. I \in SUBSET DOMAIN text
  OBVIOUS
<1> HIDE DEF I
<1>3. words \in Seq(Seq(WordParts) \ {<<>>})
  BY <1>1, <1>2, PickedFrom DEF Words, I
<1> HIDE DEF words
<1>4. parts \in Seq(Seq(Word))
  <2>1. DOMAIN words = 1 .. Len(words) /\ Len(words) \in Nat /\ \A i \in DOMAIN words : words[i] \in Seq(WordParts) \ {<<>>}
    BY <1>3, Positions
  <2>2. \A i \in 1 .. Len(words) : Parts(words[i]) \in Seq(Word)
    BY <2>1, PartsTyped
  <2> QED  BY <2>1, <2>2, IsASeq
<1>5. Tokens(text) = Joined(parts)
  BY DEF Tokens, words
<1> HIDE DEF parts
<1>6. Tokens(text) \in Seq(Word)
  BY <1>4, <1>5, JoinedFrom
<1>7. ToSet(Tokens(text)) \subseteq Terms
  BY DEF Terms, TextsAsked
<1> QED  BY <1>6, <1>7

(***************************************************************************)
(* The tables say of the documents what a count of them would.             *)
(***************************************************************************)
DocsOf == [DocIds -> {[tokens |-> ts, tag |-> g] : ts \in {s \in Seq(Word) : ToSet(s) \subseteq Terms}, g \in Tags} \cup {NoDoc}]
HeldIn(ds) == {d \in DocIds : ds[d] # NoDoc}
With(ds, u) == {d \in HeldIn(ds) : u \in ToSet(ds[d].tokens)}
Lengths(ds) == Cardinality(Places([d \in HeldIn(ds) |-> ds[d].tokens]))

TablesSound(t) ==
  /\ t.docs \in DocsOf
  /\ t.frequencies = [u \in Terms |-> Cardinality(With(t.docs, u))]
  /\ t.postings = [u \in Terms |-> With(t.docs, u)]
  /\ t.totalDocs = Cardinality(HeldIn(t.docs)) /\ t.totalLength = Lengths(t.docs)

Document(ts, g) == [tokens |-> ts, tag |-> g]

LEMMA HeldTyped ==
  ASSUME NEW ds \in DocsOf
  PROVE  /\ IsFiniteSet(HeldIn(ds)) /\ Cardinality(HeldIn(ds)) \in Nat
         /\ \A u : IsFiniteSet(With(ds, u)) /\ Cardinality(With(ds, u)) \in Nat
                   /\ Cardinality(With(ds, u)) <= Cardinality(HeldIn(ds))
         /\ \A d \in HeldIn(ds) : /\ ds[d] = Document(ds[d].tokens, ds[d].tag)
                                  /\ ds[d].tokens \in Seq(Word) /\ ds[d].tag \in Tags
                                  /\ ToSet(ds[d].tokens) \subseteq Terms
<1>1. IsFiniteSet(DocIds)
  BY BM25Assumption
<1>2. HeldIn(ds) \in SUBSET DocIds
  BY DEF HeldIn
<1>3. IsFiniteSet(HeldIn(ds)) /\ Cardinality(HeldIn(ds)) \in Nat
  BY <1>1, <1>2, FS_Subset, FS_CardinalityType
<1>4. ASSUME NEW u
      PROVE  /\ IsFiniteSet(With(ds, u)) /\ Cardinality(With(ds, u)) \in Nat
             /\ Cardinality(With(ds, u)) <= Cardinality(HeldIn(ds))
  <2>1. With(ds, u) \in SUBSET HeldIn(ds)
    BY DEF With
  <2> QED  BY <1>3, <2>1, FS_Subset, FS_CardinalityType
<1>5. ASSUME NEW d \in HeldIn(ds)
      PROVE  /\ ds[d] = Document(ds[d].tokens, ds[d].tag)
             /\ ds[d].tokens \in Seq(Word) /\ ds[d].tag \in Tags
             /\ ToSet(ds[d].tokens) \subseteq Terms
  <2>1. d \in DocIds /\ ds[d] # NoDoc
    BY DEF HeldIn
  <2>2. ds[d] \in {[tokens |-> ts, tag |-> g] : ts \in {s \in Seq(Word) : ToSet(s) \subseteq Terms}, g \in Tags}
    BY <2>1 DEF DocsOf
  <2>3. PICK ts \in {s \in Seq(Word) : ToSet(s) \subseteq Terms}, g \in Tags : ds[d] = [tokens |-> ts, tag |-> g]
    BY <2>2
  <2> QED  BY <2>3 DEF Document
<1> QED  BY <1>3, <1>4, <1>5

(* Places of one list in many.                                             *)
LEMMA PlacesOf ==
  ASSUME NEW ds \in DocsOf
  PROVE  /\ IsFiniteSet(Places([d \in HeldIn(ds) |-> ds[d].tokens])) /\ Lengths(ds) \in Nat
         /\ \A d \in HeldIn(ds) : {d} \X DOMAIN ds[d].tokens \subseteq Places([e \in HeldIn(ds) |-> ds[e].tokens])
<1> DEFINE H == HeldIn(ds)
           f == [d \in H |-> {d} \X DOMAIN ds[d].tokens]
           F == {f[d] : d \in H}
<1>1. Places([d \in H |-> ds[d].tokens]) = UNION F
  BY DEF Places
<1>2. \A d \in H : IsFiniteSet(f[d])
  <2> SUFFICES ASSUME NEW d \in H  PROVE IsFiniteSet({d} \X DOMAIN ds[d].tokens)
    OBVIOUS
  <2>1. IsFiniteSet({d}) /\ IsFiniteSet(DOMAIN ds[d].tokens)
    BY HeldTyped, FS_Singleton, Positions
  <2> QED  BY <2>1, FS_Product
<1>3. f = [d \in H |-> f[d]] /\ IsFiniteSet(H)
  BY HeldTyped
<1>4. \A d \in H : {d} \X DOMAIN ds[d].tokens = f[d]
  OBVIOUS
<1> HIDE DEF f, H
<1>5. IsFiniteSet(F)
  BY <1>3, ImageFinite
<1>6. IsFiniteSet(UNION F)
  BY <1>2, <1>5, FS_UNION
<1>7. \A d \in H : {d} \X DOMAIN ds[d].tokens \subseteq UNION F
  BY <1>4
<1> HIDE DEF F
<1> QED  BY <1>1, <1>6, <1>7, FS_CardinalityType DEF Lengths, H

(* What goes when one document goes, and comes when it comes.              *)
LEMMA OneDocument ==
  ASSUME NEW ds \in DocsOf, NEW d \in HeldIn(ds)
  PROVE  LET es == [ds EXCEPT ![d] = NoDoc]
         IN  /\ es \in DocsOf
             /\ HeldIn(es) = HeldIn(ds) \ {d} /\ Cardinality(HeldIn(es)) = Cardinality(HeldIn(ds)) - 1
             /\ \A u : /\ With(es, u) = With(ds, u) \ {d}
                       /\ d \in With(ds, u) <=> u \in ToSet(ds[d].tokens)
                       /\ Cardinality(With(ds, u)) =
                            Cardinality(With(es, u)) + (IF u \in ToSet(ds[d].tokens) THEN 1 ELSE 0)
             /\ Lengths(es) = Lengths(ds) - Len(ds[d].tokens)
<1> DEFINE es == [ds EXCEPT ![d] = NoDoc]
           ts == ds[d].tokens
<1>1. d \in DocIds /\ ds[d] # NoDoc /\ ts \in Seq(Word)
  BY HeldTyped DEF HeldIn
<1>2. es \in DocsOf /\ es[d] = NoDoc /\ \A e \in DocIds \ {d} : es[e] = ds[e]
  BY <1>1 DEF DocsOf
<1> HIDE DEF es
<1>3. HeldIn(es) = HeldIn(ds) \ {d}
  BY <1>2 DEF HeldIn
<1>4. IsFiniteSet(HeldIn(ds)) /\ Cardinality(HeldIn(es)) = Cardinality(HeldIn(ds)) - 1
  <2>1. IsFiniteSet(HeldIn(ds))
    BY HeldTyped
  <2>2. Cardinality(HeldIn(ds) \ {d}) = Cardinality(HeldIn(ds)) - 1
    BY <2>1, FS_RemoveElement
  <2> QED  BY <1>3, <2>1, <2>2
<1>5. ASSUME NEW u
      PROVE  /\ With(es, u) = With(ds, u) \ {d}
             /\ d \in With(ds, u) <=> u \in ToSet(ts)
             /\ Cardinality(With(ds, u)) = Cardinality(With(es, u)) + (IF u \in ToSet(ts) THEN 1 ELSE 0)
  <2>1. With(es, u) = With(ds, u) \ {d}
    BY <1>2, <1>3 DEF With, HeldIn
  <2>2. d \in With(ds, u) <=> u \in ToSet(ts)
    BY DEF With
  <2>3. IsFiniteSet(With(ds, u)) /\ Cardinality(With(ds, u)) \in Nat
    BY HeldTyped
  <2>4. Cardinality(With(ds, u) \ {d}) =
          IF d \in With(ds, u) THEN Cardinality(With(ds, u)) - 1 ELSE Cardinality(With(ds, u))
    BY <2>3, FS_RemoveElement
  <2> DEFINE W == With(ds, u)
  <2> HIDE DEF W
  <2>5. Cardinality(With(es, u)) = IF u \in ToSet(ts) THEN Cardinality(W) - 1 ELSE Cardinality(W)
    BY <2>1, <2>2, <2>4, Zenon DEF W
  <2>6. Cardinality(W) = Cardinality(With(es, u)) + (IF u \in ToSet(ts) THEN 1 ELSE 0)
    BY <2>3, <2>5 DEF W
  <2> QED  BY <2>1, <2>2, <2>6 DEF W
<1>6. Lengths(es) = Lengths(ds) - Len(ts)
  <2> DEFINE P == Places([e \in HeldIn(ds) |-> ds[e].tokens])
             Q == Places([e \in HeldIn(es) |-> es[e].tokens])
             R == {d} \X DOMAIN ts
  <2>1. P = Q \cup R /\ Q \cap R = {}
    <3>1. \A e, i : <<e, i>> \in P <=> e \in HeldIn(ds) /\ i \in DOMAIN ds[e].tokens
      BY DEF Places
    <3>2. \A e, i : <<e, i>> \in Q <=> e \in HeldIn(es) /\ i \in DOMAIN es[e].tokens
      BY DEF Places
    <3>3. (\A p \in P : p = <<p[1], p[2]>>) /\ \A p \in Q : p = <<p[1], p[2]>>
      BY DEF Places
    <3> HIDE DEF P, Q
    <3>4. \A e \in HeldIn(es) : es[e] = ds[e] /\ e # d /\ e \in HeldIn(ds)
      BY <1>2, <1>3 DEF HeldIn
    <3>5. ASSUME NEW e, NEW i  PROVE <<e, i>> \in P <=> <<e, i>> \in Q \cup R
      <4>1. CASE e = d
        BY <1>3, <3>1, <3>2, <4>1
      <4>2. CASE e # d
        BY <1>3, <3>1, <3>2, <3>4, <4>2
      <4> QED  BY <4>1, <4>2
    <3>6. \A p \in R : p = <<p[1], p[2]>>
      OBVIOUS
    <3>7. \A e, i : <<e, i>> \in Q => <<e, i>> \notin R
      BY <3>2, <3>4
    <3> HIDE DEF R
    <3>8. P = Q \cup R
      <4>1. ASSUME NEW p  PROVE p \in P <=> p \in Q \cup R
        BY <3>3, <3>5, <3>6
      <4> QED  BY <4>1
    <3>9. Q \cap R = {}
      BY <3>3, <3>7
    <3> QED  BY <3>8, <3>9
  <2>2. IsFiniteSet(P) /\ IsFiniteSet(Q)
    BY <1>2, PlacesOf
  <2>3. IsFiniteSet(R) /\ Cardinality(R) = Len(ts)
    <3> DEFINE n == Len(ts)
               O == {d}
               I == DOMAIN ts
    <3>1. n \in Nat /\ I = 1 .. n
      BY <1>1, Positions
    <3>2. IsFiniteSet(O) /\ Cardinality(O) = 1
      BY FS_Singleton
    <3> HIDE DEF n, I, O
    <3>3. IsFiniteSet(I) /\ Cardinality(I) = n
      BY <3>1, FS_Interval
    <3>4. IsFiniteSet(O \X I) /\ Cardinality(O \X I) = 1 * n
      BY <3>2, <3>3, FS_Product
    <3>5. Cardinality(O \X I) = n
      BY <3>1, <3>4
    <3> QED  BY <3>4, <3>5 DEF n, I, O
  <2>4. Lengths(ds) = Cardinality(P) /\ Lengths(es) = Cardinality(Q) /\ Len(ts) \in Nat
    BY <1>1 DEF Lengths
  <2> HIDE DEF P, Q, R
  <2>5. Cardinality(Q \cup R) = Cardinality(Q) + Cardinality(R) - Cardinality(Q \cap R)
    BY <2>2, <2>3, FS_Union
  <2>6. Cardinality(Q \cap R) = 0 /\ Cardinality(Q) \in Nat
    BY <2>1, <2>2, FS_EmptySet, FS_CardinalityType
  <2>7. Cardinality(P) = Cardinality(Q) + Len(ts)
    BY <2>1, <2>3, <2>4, <2>5, <2>6
  <2> QED  BY <2>4, <2>6, <2>7
<1> QED  BY <1>2, <1>3, <1>4, <1>5, <1>6 DEF es

LEMMA RemovedSound ==
  ASSUME NEW t, TablesSound(t), NEW d \in DocIds
  PROVE  TablesSound(Removed(t, d)) /\ Removed(t, d).docs = [t.docs EXCEPT ![d] = NoDoc]
<1> DEFINE ds == t.docs
           r == Removed(t, d)
<1>1. ds \in DocsOf
  BY DEF TablesSound
<1>2. CASE ds[d] = NoDoc
  <2>1. r = t
    BY <1>2 DEF Removed
  <2>2. [ds EXCEPT ![d] = NoDoc] = ds
    BY <1>1, <1>2 DEF DocsOf
  <2> QED  BY <2>1, <2>2
<1>3. CASE ds[d] # NoDoc
  <2> DEFINE es == [ds EXCEPT ![d] = NoDoc]
             had == ToSet(ds[d].tokens)
  <2>1. d \in HeldIn(ds)
    BY <1>3 DEF HeldIn
  <2>2. /\ es \in DocsOf /\ Cardinality(HeldIn(es)) = Cardinality(HeldIn(ds)) - 1
        /\ \A u : /\ With(es, u) = With(ds, u) \ {d}
                  /\ d \in With(ds, u) <=> u \in had
                  /\ Cardinality(With(ds, u)) = Cardinality(With(es, u)) + (IF u \in had THEN 1 ELSE 0)
        /\ Lengths(es) = Lengths(ds) - Len(ds[d].tokens)
    BY <1>1, <2>1, OneDocument
  <2>3. /\ r.docs = es
        /\ r.frequencies = [u \in Terms |-> t.frequencies[u] - (IF u \in had THEN 1 ELSE 0)]
        /\ r.postings = [u \in Terms |-> IF u \in had THEN t.postings[u] \ {d} ELSE t.postings[u]]
        /\ r.totalDocs = t.totalDocs - 1 /\ r.totalLength = t.totalLength - Len(ds[d].tokens)
    BY <1>3 DEF Removed
  <2> HIDE DEF es, had, r
  <2>4. /\ t.frequencies = [u \in Terms |-> Cardinality(With(ds, u))]
        /\ t.postings = [u \in Terms |-> With(ds, u)]
        /\ t.totalDocs = Cardinality(HeldIn(ds)) /\ t.totalLength = Lengths(ds)
    BY DEF TablesSound
  <2> HIDE DEF ds
  <2>5. ASSUME NEW u \in Terms
        PROVE  t.frequencies[u] - (IF u \in had THEN 1 ELSE 0) = Cardinality(With(es, u))
    <3>1. t.frequencies[u] = Cardinality(With(ds, u))
      BY <2>4
    <3>2. Cardinality(With(es, u)) \in Nat
      BY <2>2, HeldTyped
    <3> QED  BY <2>2, <3>1, <3>2
  <2>6. ASSUME NEW u \in Terms
        PROVE  (IF u \in had THEN t.postings[u] \ {d} ELSE t.postings[u]) = With(es, u)
    <3>1. t.postings[u] = With(ds, u)
      BY <2>4
    <3> QED  BY <2>2, <3>1
  <2>7. r.frequencies = [u \in Terms |-> Cardinality(With(es, u))]
    BY <2>3, <2>5
  <2>8. r.postings = [u \in Terms |-> With(es, u)]
    BY <2>3, <2>6
  <2>9. TablesSound(r)
    BY <2>2, <2>3, <2>4, <2>7, <2>8 DEF TablesSound
  <2> QED  BY <2>3, <2>9 DEF es, r, ds
<1> QED  BY <1>2, <1>3

LEMMA AddedSound ==
  ASSUME NEW t, TablesSound(t), NEW d \in DocIds, NEW tokens \in Seq(Word), ToSet(tokens) \subseteq Terms,
         NEW tag \in Tags
  PROVE  TablesSound(Added(t, d, tokens, tag))
<1> DEFINE r == Removed(t, d)
           es == r.docs
           a == Added(t, d, tokens, tag)
           new == Document(tokens, tag)
           ds == [es EXCEPT ![d] = new]
           had == ToSet(tokens)
<1>1. TablesSound(r) /\ es = [t.docs EXCEPT ![d] = NoDoc] /\ t.docs \in DocsOf
  <2>1. TablesSound(r) /\ es = [t.docs EXCEPT ![d] = NoDoc]
    BY RemovedSound
  <2>2. t.docs \in DocsOf
    BY DEF TablesSound
  <2> QED  BY <2>1, <2>2
<1>2. /\ a.docs = ds
      /\ a.frequencies = [u \in Terms |-> r.frequencies[u] + (IF u \in had THEN 1 ELSE 0)]
      /\ a.postings = [u \in Terms |-> IF u \in had THEN r.postings[u] \cup {d} ELSE r.postings[u]]
      /\ a.totalDocs = r.totalDocs + 1 /\ a.totalLength = r.totalLength + Len(tokens)
  BY DEF Added, Document
<1> HIDE DEF r, a
<1>3. es \in DocsOf /\ es[d] = NoDoc
  BY <1>1 DEF TablesSound, DocsOf
<1>4. new.tokens = tokens /\ new # NoDoc
  <2>1. NoDoc \notin [tokens : Seq(Word), tag : Tags]
    BY BM25Assumption, Zenon DEF Word
  <2>2. new.tokens = tokens /\ new \in [tokens : Seq(Word), tag : Tags]
    BY DEF Document
  <2> QED  BY <2>1, <2>2
<1>5. ds \in DocsOf /\ ds[d] = new
  <2>1. new \in {[tokens |-> ts, tag |-> g] : ts \in {s \in Seq(Word) : ToSet(s) \subseteq Terms}, g \in Tags}
    BY DEF Document
  <2> DEFINE X == {[tokens |-> ts, tag |-> g] : ts \in {s \in Seq(Word) : ToSet(s) \subseteq Terms}, g \in Tags}
                  \cup {NoDoc}
  <2>2. es \in [DocIds -> X] /\ new \in X
    BY <1>3, <2>1 DEF DocsOf
  <2> HIDE DEF new, X, es
  <2>3. ds \in [DocIds -> X] /\ ds[d] = new
    BY <2>2
  <2> QED  BY <2>3 DEF DocsOf, X
<1> HIDE DEF new
<1>6. d \in HeldIn(ds) /\ [ds EXCEPT ![d] = NoDoc] = es
  <2>1. d \in HeldIn(ds)
    BY <1>4, <1>5 DEF HeldIn
  <2>2. [ds EXCEPT ![d] = NoDoc] = es
    BY <1>3 DEF DocsOf
  <2> QED  BY <2>1, <2>2
<1> HIDE DEF ds
<1>7. /\ Cardinality(HeldIn(es)) = Cardinality(HeldIn(ds)) - 1
      /\ \A u : /\ With(es, u) = With(ds, u) \ {d}
                /\ d \in With(ds, u) <=> u \in had
                /\ Cardinality(With(ds, u)) = Cardinality(With(es, u)) + (IF u \in had THEN 1 ELSE 0)
      /\ Lengths(es) = Lengths(ds) - Len(tokens)
  BY <1>4, <1>5, <1>6, OneDocument
<1>8. /\ r.frequencies = [u \in Terms |-> Cardinality(With(es, u))]
      /\ r.postings = [u \in Terms |-> With(es, u)]
      /\ r.totalDocs = Cardinality(HeldIn(es)) /\ r.totalLength = Lengths(es)
  BY <1>1 DEF TablesSound
<1> HIDE DEF es, had
<1>9. /\ Cardinality(HeldIn(ds)) \in Nat /\ Lengths(ds) \in Nat /\ Len(tokens) \in Nat
  <2>1. Cardinality(HeldIn(ds)) \in Nat
    BY <1>5, HeldTyped
  <2>2. Lengths(ds) \in Nat
    BY <1>5, PlacesOf
  <2> QED  BY <2>1, <2>2
<1>10. a.totalDocs = Cardinality(HeldIn(ds)) /\ a.totalLength = Lengths(ds)
  BY <1>2, <1>7, <1>8, <1>9
<1>11. a.frequencies = [u \in Terms |-> Cardinality(With(ds, u))]
  <2>1. ASSUME NEW u \in Terms
        PROVE  r.frequencies[u] + (IF u \in had THEN 1 ELSE 0) = Cardinality(With(ds, u))
    BY <1>7, <1>8
  <2> QED  BY <1>2, <2>1
<1>12. a.postings = [u \in Terms |-> With(ds, u)]
  <2>1. ASSUME NEW u \in Terms
        PROVE  (IF u \in had THEN r.postings[u] \cup {d} ELSE r.postings[u]) = With(ds, u)
    <3>1. r.postings[u] = With(ds, u) \ {d}
      BY <1>7, <1>8
    <3> QED  BY <1>7, <3>1
  <2> QED  BY <1>2, <2>1
<1> QED  BY <1>2, <1>5, <1>10, <1>11, <1>12 DEF TablesSound, a

(***************************************************************************)
(* A sum of shares that are whole numbers is one, and no less than any.    *)
(***************************************************************************)
LEMMA SumOfShares ==
  ASSUME NEW n \in Nat, NEW share \in [1 .. n -> Nat], NEW sum,
         sum = CHOOSE f : f = [i \in 0 .. n |-> IF i = 0 THEN 0 ELSE f[i - 1] + share[i]]
  PROVE  sum[n] \in Nat /\ \A i \in 1 .. n : share[i] <= sum[n]
<1> DEFINE step == [i \in 1 .. n |-> [x \in Nat |-> x + share[i]]]
           IsSum(f) == f = [i \in 0 .. n |-> IF i = 0 THEN 0 ELSE f[i - 1] + share[i]]
<1>1. step \in [1 .. n -> [Nat -> Nat]]
  OBVIOUS
<1>2. \A i \in 1 .. n, x \in Nat : step[i][x] = x + share[i]
  OBVIOUS
<1> HIDE DEF step
<1>3. PICK g : RunOf(g, Nat, n, 0, step)
  BY <1>1, LoopRuns
<1>4. g \in [0 .. n -> Nat] /\ g[0] = 0 /\ \A i \in 1 .. n : g[i] = step[i][g[i - 1]]
  BY <1>3 DEF RunOf
<1>5. \A i \in 1 .. n : i - 1 \in 0 .. n /\ g[i] = g[i - 1] + share[i]
  <2> SUFFICES ASSUME NEW i \in 1 .. n  PROVE i - 1 \in 0 .. n /\ g[i] = g[i - 1] + share[i]
    OBVIOUS
  <2>1. i - 1 \in 0 .. n
    OBVIOUS
  <2>2. g[i - 1] \in Nat
    BY <1>4, <2>1
  <2>3. g[i] = step[i][g[i - 1]]
    BY <1>4
  <2> QED  BY <1>2, <2>1, <2>2, <2>3
<1>6. g = [i \in 0 .. n |-> IF i = 0 THEN 0 ELSE g[i - 1] + share[i]]
  <2>1. g = [i \in 0 .. n |-> g[i]]
    BY <1>4
  <2>2. \A i \in 0 .. n : g[i] = IF i = 0 THEN 0 ELSE g[i - 1] + share[i]
    <3> SUFFICES ASSUME NEW i \in 0 .. n  PROVE g[i] = IF i = 0 THEN 0 ELSE g[i - 1] + share[i]
      OBVIOUS
    <3>1. CASE i = 0
      BY <1>4, <3>1
    <3>2. CASE i # 0
      <4>1. i \in 1 .. n
        BY <3>2
      <4> QED  BY <1>5, <3>2, <4>1
    <3> QED  BY <3>1, <3>2
  <2> QED  BY <2>1, <2>2
<1>7. IsSum(sum)
  <2>1. \E f : IsSum(f)
    BY <1>6
  <2>2. sum = CHOOSE f : IsSum(f)
    OBVIOUS
  <2> HIDE DEF IsSum
  <2> QED  BY <2>1, <2>2
<1> DEFINE T == {k \in Nat : k <= n => sum[k] \in Nat /\ \A i \in 1 .. k : share[i] <= sum[k]}
<1>8. \A k \in 0 .. n : sum[k] = IF k = 0 THEN 0 ELSE sum[k - 1] + share[k]
  BY <1>7
<1> HIDE DEF IsSum
<1>9. 0 \in T
  BY <1>8
<1>10. ASSUME NEW k \in Nat, k \in T  PROVE k + 1 \in T
  <2> SUFFICES ASSUME k + 1 <= n
               PROVE  sum[k + 1] \in Nat /\ \A i \in 1 .. k + 1 : share[i] <= sum[k + 1]
    OBVIOUS
  <2>1. sum[k] \in Nat /\ \A i \in 1 .. k : share[i] <= sum[k]
    BY <1>10
  <2>2. k + 1 \in 0 .. n /\ k + 1 # 0 /\ k + 1 - 1 = k /\ k + 1 \in 1 .. n
    OBVIOUS
  <2>3. sum[k + 1] = sum[k] + share[k + 1] /\ share[k + 1] \in Nat
    <3> DEFINE m == k + 1
    <3>1. m \in 0 .. n /\ m # 0 /\ m - 1 = k /\ m \in 1 .. n
      BY <2>2
    <3> HIDE DEF m
    <3>2. sum[m] = sum[m - 1] + share[m] /\ share[m] \in Nat
      BY <1>8, <3>1
    <3>3. sum[m] = sum[k] + share[m] /\ share[m] \in Nat
      BY <3>1, <3>2, Zenon
    <3> QED  BY <3>3 DEF m
  <2>4. ASSUME NEW i \in 1 .. k + 1  PROVE share[i] <= sum[k + 1]
    <3>1. CASE i \in 1 .. k
      <4>1. share[i] \in Nat /\ share[i] <= sum[k]
        BY <2>1, <2>2, <3>1
      <4> QED  BY <2>1, <2>3, <4>1
    <3>2. CASE i = k + 1
      BY <2>1, <2>3, <3>2
    <3> QED  BY <3>1, <3>2
  <2> QED  BY <2>1, <2>3, <2>4
<1> HIDE DEF T
<1>11. n \in T
  <2>1. Nat \subseteq T
    BY <1>9, <1>10, InductionBySet
  <2> QED  BY <2>1
<1> QED  BY <1>11 DEF T

(* A term that a document has gives it a positive share.                   *)
LEMMA SharesPositive ==
  ASSUME NEW idf \in Nat \ {0}, NEW tf \in Nat, NEW length \in Nat, NEW documents \in Nat,
         NEW total \in Nat \ {0}
  PROVE  /\ TermScore(idf, tf, length, documents, total) \in Nat
         /\ tf > 0 => TermScore(idf, tf, length, documents, total) > 0
<1>1. CASE tf = 0
  BY <1>1 DEF TermScore
<1>2. CASE tf # 0
  <2> DEFINE d == 8 * tf * total + 3 * total + 9 * length * documents
             m == idf * (20 * tf * total)
  <2>1. \A x, y \in Nat : x * y \in Nat
    OBVIOUS
  <2>2. \A x, y \in Nat \ {0} : x * y \in Nat \ {0}
    OBVIOUS
  <2>3. m \in Nat \ {0}
    <3>1. 20 * tf \in Nat \ {0}
      BY <1>2
    <3>2. 20 * tf * total \in Nat \ {0}
      BY <2>2, <3>1
    <3> QED  BY <2>2, <3>2
  <2>4. d \in Nat \ {0}
    <3>1. 8 * tf \in Nat /\ 3 * total \in Nat \ {0} /\ 9 * length \in Nat
      OBVIOUS
    <3>2. 8 * tf * total \in Nat /\ 9 * length * documents \in Nat
      BY <2>1, <3>1
    <3> QED  BY <3>1, <3>2
  <2>5. TermScore(idf, tf, length, documents, total) = (m + d - 1) \div d
    BY <1>2 DEF TermScore
  <2> HIDE DEF m, d
  <2>6. (m + d - 1) \div d \in Nat \ {0}
    <3> DEFINE q == (m + d - 1) \div d
    <3>1. q \in Int /\ m + d - 1 < d * (q + 1)
      BY <2>3, <2>4
    <3> HIDE DEF q
    <3>2. ASSUME q <= 0  PROVE FALSE
      <4>1. d * (q + 1) <= d
        <5>1. d * (q + 1) = d * q + d
          BY <2>4, <3>1
        <5>2. d * q <= 0
          BY <2>4, <3>1, <3>2
        <5> DEFINE p == d * q
        <5>3. p \in Int
          BY <2>4, <3>1
        <5> HIDE DEF p
        <5> QED  BY <2>4, <5>1, <5>2, <5>3 DEF p
      <4>2. m + d - 1 >= d
        BY <2>3, <2>4
      <4> DEFINE r == d * (q + 1)
      <4>3. r \in Int /\ m + d - 1 < r /\ r <= d
        BY <2>4, <3>1, <4>1
      <4> HIDE DEF r
      <4> QED  BY <2>3, <2>4, <4>2, <4>3
    <3>3. q \in Nat \ {0}
      BY <3>1, <3>2
    <3> QED  BY <3>3 DEF q
  <2> QED  BY <2>5, <2>6
<1> QED  BY <1>1, <1>2

(* The score of a document that has a term of the question is positive.    *)
LEMMA ScorePositive ==
  ASSUME NEW tokens \in Seq(Word), NEW held \in Seq(Word), NEW idf, NEW documents \in Nat,
         NEW total \in Nat \ {0}, \A u \in ToSet(tokens) : u \in ToSet(held) => idf[u] \in Nat \ {0},
         ToSet(tokens) \cap ToSet(held) # {}
  PROVE  ScoreOf(tokens, held, idf, documents, total) > 0
<1> DEFINE n == Len(tokens)
           share == [i \in DOMAIN tokens |-> TermScore(idf[tokens[i]], Count(held, tokens[i]), Len(held), documents, total)]
           sum == CHOOSE f : f = [i \in 0 .. n |-> IF i = 0 THEN 0 ELSE f[i - 1] + share[i]]
<1>1. n \in Nat /\ DOMAIN tokens = 1 .. n /\ \A i \in 1 .. n : tokens[i] \in ToSet(tokens)
  BY Positions DEF ToSet
<1>2. Len(held) \in Nat /\ IsFiniteSet(DOMAIN held)
  BY Positions
<1>3. ASSUME NEW u  PROVE Count(held, u) \in Nat /\ (Count(held, u) > 0 <=> u \in ToSet(held))
  <2> DEFINE I == {i \in DOMAIN held : held[i] = u}
  <2>1. IsFiniteSet(I)
    BY <1>2, FS_Subset
  <2>2. u \in ToSet(held) <=> I # {}
    BY DEF ToSet
  <2> HIDE DEF I
  <2>3. Cardinality(I) \in Nat /\ (Cardinality(I) = 0 <=> I = {})
    BY <2>1, FS_EmptySet, FS_CardinalityType
  <2> QED  BY <2>2, <2>3 DEF Count, I
<1>4. ASSUME NEW u \in ToSet(tokens)
      PROVE  LET x == TermScore(idf[u], Count(held, u), Len(held), documents, total)
             IN x \in Nat /\ (u \in ToSet(held) => x > 0)
  <2>1. CASE u \in ToSet(held)
    <3>1. idf[u] \in Nat \ {0} /\ Count(held, u) \in Nat /\ Count(held, u) > 0
      BY <1>3, <2>1
    <3> QED  BY <1>2, <3>1, SharesPositive
  <2>2. CASE u \notin ToSet(held)
    <3>1. Count(held, u) = 0
      BY <1>3, <2>2
    <3> QED  BY <2>2, <3>1 DEF TermScore
  <2> QED  BY <2>1, <2>2
<1>5. share \in [1 .. n -> Nat]
  <2>1. ASSUME NEW i \in 1 .. n
        PROVE  TermScore(idf[tokens[i]], Count(held, tokens[i]), Len(held), documents, total) \in Nat
    BY <1>1, <1>4
  <2> QED  BY <1>1, <2>1
<1>6. \E i \in 1 .. n : share[i] > 0
  <2>1. PICK u \in ToSet(tokens) : u \in ToSet(held)
    OBVIOUS
  <2>2. PICK i \in 1 .. n : tokens[i] = u
    BY <1>1, <2>1 DEF ToSet
  <2>3. share[i] = TermScore(idf[u], Count(held, u), Len(held), documents, total)
    BY <1>1, <2>2
  <2>4. share[i] > 0
    BY <1>4, <2>1, <2>3
  <2> QED  BY <2>4
<1>7. ScoreOf(tokens, held, idf, documents, total) = sum[n]
  BY DEF ScoreOf
<1> HIDE DEF share
<1>8. sum[n] \in Nat /\ \A j \in 1 .. n : share[j] <= sum[n]
  BY <1>1, <1>5, SumOfShares
<1> HIDE DEF sum
<1>9. PICK i \in 1 .. n : share[i] > 0
  BY <1>6
<1>10. share[i] \in Nat
  BY <1>5
<1> QED  BY <1>7, <1>8, <1>9, <1>10

(* A cached frequency is the one that would be computed now.               *)
CachedSound == \A u \in Terms : idfCache[u] # NoIdf => idfCache[u] = Idf[totalDocs][frequencies[u]]

(* The tables count the documents, the cache and the last answer agree.    *)
LexicalInv == TablesSound(Tables) /\ CachedSound /\ LexicalAnswersExact

LEMMA TablesSet ==
  ASSUME NEW t, TablesSound(t), SetTables(t), idfCache' = NothingCached, ranked' = NoDoc
  PROVE  LexicalInv'
<1>1. TablesSound(Tables)'
  BY DEF TablesSound, Tables, SetTables
<1>2. CachedSound'
  BY DEF CachedSound, NothingCached
<1>3. LexicalAnswersExact'
  BY DEF LexicalAnswersExact
<1> QED  BY <1>1, <1>2, <1>3 DEF LexicalInv

LEMMA NothingSound ==
  TablesSound([docs |-> [d \in DocIds |-> NoDoc], frequencies |-> [u \in Terms |-> 0],
               postings |-> [u \in Terms |-> {}], totalDocs |-> 0, totalLength |-> 0])
<1> DEFINE ds == [d \in DocIds |-> NoDoc]
<1>1. ds \in DocsOf /\ HeldIn(ds) = {}
  BY DEF DocsOf, HeldIn
<1>2. \A u : With(ds, u) = {}
  BY <1>1 DEF With
<1> HIDE DEF ds
<1>3. Places([d \in HeldIn(ds) |-> ds[d].tokens]) = {}
  BY <1>1 DEF Places
<1>4. Cardinality({}) = 0
  BY FS_EmptySet
<1>5. Cardinality(HeldIn(ds)) = 0 /\ Lengths(ds) = 0 /\ \A u \in Terms : Cardinality(With(ds, u)) = 0
  BY <1>1, <1>2, <1>3, <1>4, Zenon DEF Lengths
<1>6. [u \in Terms |-> 0] = [u \in Terms |-> Cardinality(With(ds, u))]
  BY <1>5
<1>7. [u \in Terms |-> {}] = [u \in Terms |-> With(ds, u)]
  BY <1>2
<1> QED  BY <1>1, <1>5, <1>6, <1>7 DEF TablesSound, ds

(* The filter rejects what no condition of it asks for, and nothing else.  *)
LEMMA FilterSelects ==
  ASSUME NEW f \in Filters, NEW tag \in Tags
  PROVE  MatchesFilter(tag, f) <=> tag \in Selected(f)
<1> SUFFICES ASSUME NEW c \in f  PROVE ~Rejects(tag, c) <=> tag \in Wanted(c)
  BY DEF MatchesFilter, Selected
<1>1. /\ tag \in Nat \cup {NoTag} /\ c.val \in Nat \cup {NoTag} /\ NoTag \notin Nat
      /\ c.op \in {"$gt", "$gte", "$lt", "$lte"} => c.val \in Nat
  BY BM25Assumption
<1>2. CASE c.op \in {"is", "$eq", "$ne", "$gt", "$gte", "$lt", "$lte"}
  <2>1. tag \in Wanted(c) <=> Standing(tag, c.val) \in Takes[c.op]
    BY <1>2 DEF Wanted, Takes
  <2>2. CASE tag = c.val
    <3>1. Standing(tag, c.val) = "equal"
      BY <2>2 DEF Standing
    <3> QED  BY <1>1, <1>2, <2>1, <2>2, <3>1 DEF Takes, Rejects
  <2>3. CASE tag # c.val /\ NoTag \in {tag, c.val}
    <3>1. Standing(tag, c.val) = "unlike"
      BY <2>3 DEF Standing
    <3> QED  BY <1>1, <1>2, <2>1, <2>3, <3>1 DEF Takes, Rejects
  <2>4. CASE tag # c.val /\ NoTag \notin {tag, c.val}
    <3>1. Standing(tag, c.val) = IF tag < c.val THEN "below" ELSE "above"
      BY <2>4 DEF Standing
    <3> QED  BY <1>1, <1>2, <2>1, <2>4, <3>1 DEF Takes, Rejects
  <2> QED  BY <2>2, <2>3, <2>4
<1>3. CASE c.op \notin {"is", "$eq", "$ne", "$gt", "$gte", "$lt", "$lte"}
  BY <1>3 DEF Wanted, Takes, Rejects
<1> QED  BY <1>2, <1>3

LEMMA SearchExact ==
  ASSUME LexicalInv, NEW q \in Questions, NEW k, NEW f \in Filters, SearchIndex(q, k, f)
  PROVE  LexicalInv'
<1> DEFINE tokens == Tokens(q)
           held == HeldIn(docs)
           idf == [u \in ToSet(tokens) |->
                     IF idfCache[u] # NoIdf THEN idfCache[u] ELSE Idf[totalDocs][frequencies[u]]]
           found == UNION {postings[u] : u \in ToSet(tokens)}
           candidates == {d \in found : MatchesFilter(docs[d].tag, f)}
           score == [d \in candidates |-> ScoreOf(tokens, docs[d].tokens, idf, totalDocs, totalLength)]
           hits == ByScore({d \in candidates : score[d] > 0}, score, k)
           afresh == [u \in ToSet(tokens) |-> Idf[Cardinality(held)][Cardinality(With(docs, u))]]
           met == {d \in held : ToSet(docs[d].tokens) \cap ToSet(tokens) # {} /\ docs[d].tag \in Selected(f)}
           rescore == [d \in met |-> ScoreOf(tokens, docs[d].tokens, afresh, Cardinality(held), Lengths(docs))]
<1>1. /\ totalDocs > 0 /\ ranked' = [q |-> q, k |-> k, f |-> f, hits |-> hits]
      /\ UNCHANGED <<docs, frequencies, postings, totalDocs, totalLength>>
      /\ \E S : idfCache' = [u \in Terms |-> IF u \in S /\ u \in ToSet(tokens) THEN idf[u] ELSE idfCache[u]]
  <2>1. /\ totalDocs > 0 /\ ranked' = [q |-> q, k |-> k, f |-> f, hits |-> hits]
        /\ UNCHANGED <<docs, frequencies, postings, totalDocs, totalLength>>
    BY DEF SearchIndex
  <2> DEFINE S == {u \in ToSet(tokens) : \E d \in candidates : Count(docs[d].tokens, u) > 0}
  <2>2. idfCache' = [u \in Terms |-> IF u \in S THEN idf[u] ELSE idfCache[u]]
    BY DEF SearchIndex
  <2>3. \A u : u \in S <=> u \in S /\ u \in ToSet(tokens)
    OBVIOUS
  <2> HIDE DEF S, idf, tokens
  <2>4. idfCache' = [u \in Terms |-> IF u \in S /\ u \in ToSet(tokens) THEN idf[u] ELSE idfCache[u]]
    BY <2>2, <2>3
  <2> QED  BY <2>1, <2>4
<1>2. tokens \in Seq(Word) /\ ToSet(tokens) \subseteq Terms
  BY TokensTyped DEF TextsAsked
<1> HIDE DEF tokens
<1>3. /\ docs \in DocsOf
      /\ frequencies = [u \in Terms |-> Cardinality(With(docs, u))]
      /\ postings = [u \in Terms |-> With(docs, u)]
      /\ totalDocs = Cardinality(held) /\ totalLength = Lengths(docs)
  BY DEF LexicalInv, TablesSound, Tables
<1>4. \A u \in ToSet(tokens) : idf[u] = Idf[totalDocs][frequencies[u]]
  BY <1>2 DEF LexicalInv, CachedSound
<1>5. idf = afresh
  <2>1. \A u \in ToSet(tokens) : frequencies[u] = Cardinality(With(docs, u))
    BY <1>2, <1>3
  <2>2. \A u \in ToSet(tokens) : idf[u] = Idf[Cardinality(held)][Cardinality(With(docs, u))]
    BY <1>3, <1>4, <2>1
  <2>3. idf = [u \in ToSet(tokens) |-> idf[u]]
    OBVIOUS
  <2> HIDE DEF idf
  <2> QED  BY <2>2, <2>3
<1>6. CachedSound'
  <2>1. PICK S : idfCache' = [u \in Terms |-> IF u \in S /\ u \in ToSet(tokens) THEN idf[u] ELSE idfCache[u]]
    BY <1>1
  <2> HIDE DEF idf
  <2> SUFFICES ASSUME NEW u \in Terms, idfCache'[u] # NoIdf
               PROVE  idfCache'[u] = Idf[totalDocs][frequencies[u]]
    BY <1>1 DEF CachedSound
  <2>2. CASE u \in S /\ u \in ToSet(tokens)
    BY <1>4, <2>1, <2>2
  <2>3. CASE ~(u \in S /\ u \in ToSet(tokens))
    <3>1. idfCache'[u] = idfCache[u]
      BY <2>1, <2>3
    <3> QED  BY <3>1 DEF LexicalInv, CachedSound
  <2> QED  BY <2>2, <2>3
<1> HIDE DEF idf
<1>7. candidates = met
  <2>1. \A u \in ToSet(tokens) : postings[u] = With(docs, u)
    BY <1>2, <1>3
  <2>2. found = {d \in held : ToSet(docs[d].tokens) \cap ToSet(tokens) # {}}
    BY <2>1 DEF With
  <2>3. \A d \in held : MatchesFilter(docs[d].tag, f) <=> docs[d].tag \in Selected(f)
    BY <1>3, HeldTyped, FilterSelects
  <2> HIDE DEF found, held
  <2> QED  BY <2>2, <2>3
<1>8. score = rescore
  <2>1. score = [d \in met |-> ScoreOf(tokens, docs[d].tokens, afresh, Cardinality(held), Lengths(docs))]
    <3> HIDE DEF candidates, met, afresh, held
    <3> QED  BY <1>3, <1>5, <1>7 DEF held
  <2> QED  BY <2>1
<1>9. ASSUME NEW d \in met  PROVE rescore[d] > 0
  <2>1. d \in held /\ docs[d].tokens \in Seq(Word) /\ ToSet(docs[d].tokens) \cap ToSet(tokens) # {}
    BY <1>3, HeldTyped
  <2>2. IsFiniteSet(held) /\ Cardinality(held) \in Nat \ {0} /\ Cardinality(held) <= Cardinality(DocIds)
    <3>1. IsFiniteSet(held) /\ Cardinality(held) \in Nat
      BY <1>3, HeldTyped
    <3>2. held \in SUBSET DocIds /\ IsFiniteSet(DocIds)
      BY BM25Assumption DEF HeldIn
    <3>3. Cardinality(held) <= Cardinality(DocIds)
      BY <3>2, FS_Subset
    <3>4. Cardinality(held) # 0
      BY <2>1, <3>1, FS_EmptySet
    <3> QED  BY <3>1, <3>3, <3>4
  <2>3. Lengths(docs) \in Nat \ {0}
    <3> DEFINE P == Places([e \in held |-> docs[e].tokens])
    <3>1. IsFiniteSet(P) /\ Lengths(docs) \in Nat /\ {d} \X DOMAIN docs[d].tokens \subseteq P
      BY <1>3, <2>1, PlacesOf
    <3>2. DOMAIN docs[d].tokens # {}
      BY <2>1 DEF ToSet
    <3>3. P # {}
      <4>1. PICK i \in DOMAIN docs[d].tokens : TRUE
        BY <3>2
      <4>2. <<d, i>> \in {d} \X DOMAIN docs[d].tokens
        OBVIOUS
      <4> HIDE DEF P
      <4> QED  BY <3>1, <4>2
    <3>4. Lengths(docs) = Cardinality(P)
      BY DEF Lengths
    <3> HIDE DEF P
    <3> QED  BY <3>1, <3>3, <3>4, FS_EmptySet
  <2>4. ASSUME NEW u \in ToSet(tokens)  PROVE afresh[u] \in Nat \ {0}
    <3>1. Cardinality(With(docs, u)) \in 0 .. Cardinality(held)
      BY <1>3, <2>2, HeldTyped
    <3>2. Cardinality(held) \in 1 .. Cardinality(DocIds)
      <4>1. Cardinality(DocIds) \in Nat
        BY BM25Assumption, FS_CardinalityType
      <4> QED  BY <2>2, <4>1
    <3> QED  BY <3>1, <3>2, BM25Assumption
  <2>5. ScoreOf(tokens, docs[d].tokens, afresh, Cardinality(held), Lengths(docs)) > 0
    <3> HIDE DEF afresh, held
    <3> QED  BY <1>2, <2>1, <2>2, <2>3, <2>4, ScorePositive
  <2> QED  BY <2>5
<1>10. hits = ByScore(met, rescore, k)
  <2>1. {d \in candidates : score[d] > 0} = met
    <3> HIDE DEF candidates, met, score, rescore
    <3> QED  BY <1>7, <1>8, <1>9
  <2> HIDE DEF score, rescore, met
  <2> QED  BY <1>8, <2>1
<1>11. LexicalAnswersExact'
  <2>1. docs' = docs /\ ranked'.q = q /\ ranked'.k = k /\ ranked'.f = f /\ ranked'.hits = hits
    BY <1>1
  <2>2. \A u : {d \in {e \in DocIds : docs[e] # NoDoc} : u \in ToSet(docs[d].tokens)} = With(docs, u)
    BY DEF With, HeldIn
  <2> HIDE DEF hits
  <2> QED  BY <1>10, <2>1, <2>2 DEF LexicalAnswersExact, tokens, HeldIn, Lengths
<1>12. TablesSound(Tables)'
  BY <1>1 DEF LexicalInv, TablesSound, Tables
<1> QED  BY <1>6, <1>11, <1>12 DEF LexicalInv

(* Every change keeps the tables and empties the cache; a search answers  *)
(* from them.                                                              *)
LEMMA LexicalStep == LexicalInv /\ [BM25Next]_bmvars => LexicalInv'
<1> SUFFICES ASSUME LexicalInv, [BM25Next]_bmvars  PROVE LexicalInv'
  OBVIOUS
<1>1. TablesSound(Tables)
  BY DEF LexicalInv
<1>2. ASSUME NEW d \in DocIds, NEW text \in DocTexts, NEW tag \in Tags, AddDocument(d, text, tag)
      PROVE  LexicalInv'
  <2>1. Tokens(text) \in Seq(Word) /\ ToSet(Tokens(text)) \subseteq Terms
    BY TokensTyped DEF TextsAsked
  <2>2. TablesSound(Added(Tables, d, Tokens(text), tag))
    BY <1>1, <2>1, AddedSound
  <2> QED  BY <1>2, <2>2, TablesSet DEF AddDocument
<1>3. ASSUME NEW d \in DocIds, RemoveDocument(d)  PROVE LexicalInv'
  <2>1. TablesSound(Removed(Tables, d))
    BY <1>1, RemovedSound
  <2> QED  BY <1>3, <2>1, TablesSet DEF RemoveDocument
<1>4. CASE ClearIndex
  BY <1>4, NothingSound, TablesSet DEF ClearIndex
<1>5. ASSUME NEW q \in Questions, NEW k, NEW f \in Filters, SearchIndex(q, k, f)  PROVE LexicalInv'
  BY <1>5, SearchExact
<1>6. CASE UNCHANGED bmvars
  <2>1. TablesSound(Tables)' /\ CachedSound'
    BY <1>6 DEF bmvars, LexicalInv, TablesSound, Tables, CachedSound
  <2>2. LexicalAnswersExact'
    BY <1>6 DEF bmvars, LexicalInv, LexicalAnswersExact
  <2> QED  BY <2>1, <2>2 DEF LexicalInv
<1> QED  BY <1>2, <1>3, <1>4, <1>5, <1>6 DEF BM25Next

(* Whatever was added, overwritten, removed, cleared and searched before,  *)
(* a search of the lexical index answers with the ranking of its documents *)
(* as they are (bm25.py).                                                  *)
THEOREM LexicalRankingFresh == BM25Spec => []LexicalAnswersExact
<1>1. BM25Init => LexicalInv
  <2> SUFFICES ASSUME BM25Init  PROVE LexicalInv
    OBVIOUS
  <2>1. TablesSound(Tables)
    BY NothingSound DEF BM25Init, Tables
  <2> QED  BY <2>1 DEF BM25Init, LexicalInv, CachedSound, NothingCached, LexicalAnswersExact
<1>2. LexicalInv => LexicalAnswersExact
  BY DEF LexicalInv
<1> QED  BY <1>1, <1>2, LexicalStep, PTL DEF BM25Spec
=============================================================================
