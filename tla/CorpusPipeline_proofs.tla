----------------------- MODULE CorpusPipeline_proofs -----------------------
(***************************************************************************)
(* Proofs about the refresh of the corpus for any site, any pages and any  *)
(* chunking: what captures and normalizations leave on file, and that a    *)
(* refresh in which nothing fails brings every sheet to the table.         *)
(***************************************************************************)
EXTENDS CorpusPipeline, TLAPS

Ingestion == INSTANCE CorpusIngestion_proofs WITH
    Runs <- {Process},
    Models <- {Model},
    Files <- File!Files,
    Contents <- File!Json,
    Windows <- [json \in File!Json |-> TextWindows[json.text]]

-----------------------------------------------------------------------------
(* The files, whatever the scripts and the site do *)

LEMMA SheetsHaveFiles ==
    ASSUME NEW path \in File!Sheets
    PROVE  path \in Paths /\ FileOf[path] \in File!Files
BY DEF File!Sheets, File!Files

\* The content of a captured sheet is the content of a JSON file.
LEMMA JsonIsJson ==
    ASSUME File!TypeOK, NEW path \in File!Sheets, raw[path] # NoPage
    PROVE  /\ raw[path] \in Pages
           /\ File!JsonOf(path) \in File!Json
           /\ File!JsonOf(path).headings = raw[path].headings
           /\ File!JsonOf(path).text = raw[path].text
<1>1. raw[path] \in Pages
  BY SheetsHaveFiles DEF File!TypeOK
<1> QED
  BY <1>1 DEF File!JsonOf, File!Json

LEMMA FilesInit == File!Init => File!FilesInv
<1> SUFFICES ASSUME File!Init PROVE File!FilesInv
  OBVIOUS
<1>1. File!TypeOK
  BY PipelineAssumption
     DEF File!Init, File!TypeOK, File!Rest, File!NoPages
<1>2. script.phase = "rest"
  BY DEF File!Init, File!Rest
<1> QED
  BY <1>1, <1>2 DEF File!FilesInv, File!CaptureInv, File!NormalizeInv

\* While a script rests, nothing but the types is claimed of the files.
LEMMA RestingFiles ==
    ASSUME File!TypeOK', script' = File!Rest
    PROVE  File!FilesInv'
BY DEF File!FilesInv, File!CaptureInv, File!NormalizeInv, File!Rest

LEMMA PublishFiles ==
    ASSUME File!FilesInv, NEW url \in Urls, NEW page \in Pages \cup {NoPage},
           File!Publish(url, page)
    PROVE  File!FilesInv'
<1>1. /\ raw' = raw /\ corpus' = corpus /\ script' = script /\ issues' = issues
      /\ urls' = urls /\ fetched' = fetched /\ failed' = failed /\ missing' = missing
  BY DEF File!Publish, File!capture
<1>2. File!TypeOK'
  <2>1. site' \in [Urls -> Pages \cup {NoPage}] /\ sitemap' \subseteq Urls
    BY DEF File!Publish, File!FilesInv, File!TypeOK
  <2>2. published' \in 0..MaxPublishes
    BY PipelineAssumption DEF File!Publish, File!FilesInv, File!TypeOK
  <2> QED
    BY <1>1, <2>1, <2>2 DEF File!FilesInv, File!TypeOK
<1> QED
  BY <1>1, <1>2
     DEF File!FilesInv, File!CaptureInv, File!NormalizeInv, File!Captured, File!Leaf,
         File!Alone, File!JsonOf

LEMMA StartCaptureFiles ==
    ASSUME File!FilesInv, File!StartCapture
    PROVE  File!FilesInv'
<1>1. /\ script' = [phase |-> "fetch", todo |-> sitemap]
      /\ urls' = sitemap /\ fetched' = File!NoPages /\ failed' = {} /\ missing' = {}
      /\ UNCHANGED <<site, sitemap, published, raw, corpus, issues>>
  BY DEF File!StartCapture
<1>2. DOMAIN fetched' = {} /\ fetched' \in [{} -> Pages]
  BY <1>1 DEF File!NoPages
<1>3. File!TypeOK'
  BY <1>1, <1>2 DEF File!FilesInv, File!TypeOK
<1> QED
  BY <1>1, <1>2, <1>3 DEF File!FilesInv, File!CaptureInv, File!NormalizeInv

LEMMA FetchPageFiles ==
    ASSUME File!FilesInv, NEW url \in Urls, File!FetchPage(url)
    PROVE  File!FilesInv'
<1>1. /\ script.phase = "fetch" /\ url \in script.todo /\ site[url] # NoPage
      /\ raw' = [raw EXCEPT ![PathOf[url]] = site[url]]
      /\ fetched' = [other \in DOMAIN fetched \cup {url} |->
                        IF other = url THEN site[url] ELSE fetched[other]]
      /\ script' = [script EXCEPT !.todo = @ \ {url}]
      /\ UNCHANGED <<site, sitemap, published, corpus, urls, failed, missing, issues>>
  BY DEF File!FetchPage, File!Written, File!Treated
<1>2. /\ urls = script.todo \cup DOMAIN fetched \cup failed
      /\ script.todo \cap (DOMAIN fetched \cup failed) = {}
      /\ \A got \in DOMAIN fetched :
            \E other \in DOMAIN fetched :
                PathOf[other] = PathOf[got] /\ raw[PathOf[got]] = fetched[other]
  BY <1>1 DEF File!FilesInv, File!CaptureInv
<1>3. site[url] \in Pages /\ raw \in [Paths -> Pages \cup {NoPage}]
      /\ fetched \in [DOMAIN fetched -> Pages] /\ DOMAIN fetched \subseteq Urls
      /\ script \in [phase : {"rest", "fetch", "normalize"}, todo : SUBSET (Urls \cup Paths)]
  BY <1>1 DEF File!FilesInv, File!TypeOK
<1>4. /\ DOMAIN fetched' = DOMAIN fetched \cup {url} /\ fetched' \in [DOMAIN fetched' -> Pages]
      /\ raw' \in [Paths -> Pages \cup {NoPage}]
  BY <1>1, <1>3
<1>5. /\ script'.phase = "fetch" /\ script'.todo = script.todo \ {url}
      /\ script' \in [phase : {"rest", "fetch", "normalize"}, todo : SUBSET (Urls \cup Paths)]
  BY <1>1, <1>3
<1>6. File!TypeOK'
  BY <1>1, <1>2, <1>4, <1>5 DEF File!FilesInv, File!TypeOK
<1>7. ASSUME NEW got \in DOMAIN fetched'
      PROVE  \E other \in DOMAIN fetched' :
                 PathOf[other] = PathOf[got] /\ raw'[PathOf[got]] = fetched'[other]
  <2>1. got \in Urls /\ PathOf[got] \in Paths /\ PathOf[url] \in Paths
    BY <1>3, <1>4, <1>7, PathsAssumption
  <2>2. CASE PathOf[got] = PathOf[url]
    <3>1. raw'[PathOf[got]] = site[url] /\ fetched'[url] = site[url] /\ url \in DOMAIN fetched'
      BY <1>1, <1>3, <2>1, <2>2
    <3> QED
      BY <2>2, <3>1
  <2>3. CASE PathOf[got] # PathOf[url]
    <3>1. got \in DOMAIN fetched /\ raw'[PathOf[got]] = raw[PathOf[got]]
      BY <1>1, <1>3, <1>4, <1>7, <2>1, <2>3
    <3>2. PICK other \in DOMAIN fetched :
              PathOf[other] = PathOf[got] /\ raw[PathOf[got]] = fetched[other]
      BY <1>2, <3>1
    <3>3. fetched'[other] = fetched[other] /\ other \in DOMAIN fetched'
      BY <1>1, <2>3, <3>2
    <3> QED
      BY <3>1, <3>2, <3>3
  <2> QED
    BY <2>2, <2>3
<1>8. /\ urls' = script'.todo \cup DOMAIN fetched' \cup failed'
      /\ script'.todo \cap (DOMAIN fetched' \cup failed') = {}
  BY <1>1, <1>2, <1>4, <1>5
<1> QED
  BY <1>5, <1>6, <1>7, <1>8 DEF File!FilesInv, File!CaptureInv, File!NormalizeInv

LEMMA FetchFailsFiles ==
    ASSUME File!FilesInv, NEW url \in Urls, File!FetchFails(url)
    PROVE  File!FilesInv'
<1>1. /\ script.phase = "fetch" /\ url \in script.todo
      /\ failed' = failed \cup {url}
      /\ script' = [script EXCEPT !.todo = @ \ {url}]
      /\ UNCHANGED <<site, sitemap, published, raw, corpus, urls, fetched, missing, issues>>
  BY DEF File!FetchFails, File!Failed, File!Treated
<1>2. /\ urls = script.todo \cup DOMAIN fetched \cup failed
      /\ script.todo \cap (DOMAIN fetched \cup failed) = {}
      /\ \A got \in DOMAIN fetched :
            \E other \in DOMAIN fetched :
                PathOf[other] = PathOf[got] /\ raw[PathOf[got]] = fetched[other]
  BY <1>1 DEF File!FilesInv, File!CaptureInv
<1>3. /\ script'.phase = "fetch" /\ script'.todo = script.todo \ {url}
      /\ script' \in [phase : {"rest", "fetch", "normalize"}, todo : SUBSET (Urls \cup Paths)]
  BY <1>1 DEF File!FilesInv, File!TypeOK
<1>4. File!TypeOK'
  BY <1>1, <1>2, <1>3 DEF File!FilesInv, File!TypeOK
<1> QED
  BY <1>1, <1>2, <1>3, <1>4 DEF File!FilesInv, File!CaptureInv, File!NormalizeInv

LEMMA CrossCheckFiles ==
    ASSUME File!FilesInv, File!CrossCheck
    PROVE  File!FilesInv'
<1>1. /\ missing' = File!Discovered \ urls /\ script' = File!Rest /\ script.phase = "fetch"
      /\ UNCHANGED <<site, sitemap, published, raw, corpus, urls, fetched, failed, issues>>
  BY DEF File!CrossCheck
<1>2. /\ DOMAIN fetched \subseteq Urls /\ fetched \in [DOMAIN fetched -> Pages]
      /\ urls \subseteq Urls
  BY DEF File!FilesInv, File!TypeOK
<1>3. File!Discovered \subseteq Urls
  BY <1>2, PipelineAssumption DEF File!Discovered
<1>4. File!TypeOK'
  BY <1>1, <1>3 DEF File!FilesInv, File!TypeOK, File!Rest
<1> QED
  BY <1>1, <1>4, RestingFiles

LEMMA StartNormalizeFiles ==
    ASSUME File!FilesInv, File!StartNormalize
    PROVE  File!FilesInv'
<1>1. /\ script' = [phase |-> "normalize", todo |-> File!Captured]
      /\ UNCHANGED <<site, sitemap, published, raw, corpus, urls, fetched, failed, missing,
                     issues>>
  BY DEF File!StartNormalize, File!capture
<1>2. File!Captured \subseteq Paths /\ File!Captured' = File!Captured
  BY <1>1 DEF File!Captured
<1>3. File!TypeOK'
  BY <1>1, <1>2 DEF File!FilesInv, File!TypeOK
<1> QED
  BY <1>1, <1>2, <1>3 DEF File!FilesInv, File!CaptureInv, File!NormalizeInv, File!Leaf

\* A sheet that is written keeps the JSON of the sheets treated before, unless the
\* two have one file.
LEMMA WriteSheetFiles ==
    ASSUME File!FilesInv, NEW path \in Paths, File!WriteSheet(path)
    PROVE  File!FilesInv'
<1>1. /\ script.phase = "normalize" /\ path \in script.todo
      /\ File!Leaf(path) /\ path \in File!Sheets
      /\ corpus' = [corpus EXCEPT ![FileOf[path]] = File!JsonOf(path)]
      /\ script' = [script EXCEPT !.todo = @ \ {path}]
      /\ UNCHANGED <<site, sitemap, published, raw, urls, fetched, failed, missing, issues>>
  BY DEF File!WriteSheet, File!NextPath, File!Dumped, File!Treated, File!capture
<1>2. File!TypeOK
  BY DEF File!FilesInv
<1>3. /\ script.todo \subseteq File!Captured
      /\ \A other \in File!Sheets \ script.todo :
            File!Leaf(other) /\ File!Alone(other)
                => corpus[FileOf[other]] = File!JsonOf(other)
  BY <1>1 DEF File!FilesInv, File!NormalizeInv
<1>4. /\ script'.phase = "normalize" /\ script'.todo = script.todo \ {path}
      /\ script' \in [phase : {"rest", "fetch", "normalize"}, todo : SUBSET (Urls \cup Paths)]
  BY <1>1, <1>2 DEF File!TypeOK
<1>5. FileOf[path] \in File!Files /\ File!JsonOf(path) \in File!Json
  BY <1>1, <1>2, SheetsHaveFiles, JsonIsJson DEF File!Leaf, File!Captured
<1>6. corpus \in [File!Files -> File!Json \cup {NoFile}]
  BY <1>2 DEF File!TypeOK
<1>7. corpus' \in [File!Files -> File!Json \cup {NoFile}]
  BY <1>1, <1>5, <1>6
<1>8. File!TypeOK'
  BY <1>1, <1>2, <1>4, <1>7 DEF File!TypeOK
<1>9. File!Captured' = File!Captured
  BY <1>1 DEF File!Captured
<1>10. ASSUME NEW other \in File!Sheets \ script'.todo,
              File!Leaf(other), File!Alone(other)
       PROVE  corpus'[FileOf[other]] = File!JsonOf(other)
  <2>1. CASE other = path
    BY <1>1, <1>5, <1>6, <2>1
  <2>2. CASE other # path
    <3>1. FileOf[path] # FileOf[other]
      BY <1>1, <1>10, <2>2 DEF File!Alone, File!Leaf
    <3>2. corpus[FileOf[other]] = File!JsonOf(other)
      BY <1>3, <1>4, <1>10, <2>2
    <3>3. FileOf[other] \in File!Files
      BY <1>10, SheetsHaveFiles
    <3> QED
      BY <1>1, <1>6, <3>1, <3>2, <3>3
  <2> QED
    BY <2>1, <2>2
<1>11. \A other : (File!Leaf(other)' <=> File!Leaf(other))
                  /\ (File!Alone(other)' <=> File!Alone(other))
                  /\ File!JsonOf(other)' = File!JsonOf(other)
  BY <1>1, <1>9 DEF File!Leaf, File!Alone, File!JsonOf
<1>12. File!NormalizeInv'
  BY <1>3, <1>4, <1>9, <1>10, <1>11 DEF File!NormalizeInv
<1> QED
  BY <1>4, <1>8, <1>12 DEF File!FilesInv, File!CaptureInv

LEMMA SkipPageFiles ==
    ASSUME File!FilesInv, NEW path \in Paths, File!SkipPage(path)
    PROVE  File!FilesInv'
<1>1. /\ script.phase = "normalize" /\ path \in script.todo
      /\ ~(File!Leaf(path) /\ path \in File!Sheets)
      /\ script' = [script EXCEPT !.todo = @ \ {path}]
      /\ UNCHANGED <<site, sitemap, published, raw, corpus, urls, fetched, failed, missing,
                     issues>>
  BY DEF File!SkipPage, File!NextPath, File!Treated, File!capture
<1>2. File!TypeOK
  BY DEF File!FilesInv
<1>3. /\ script'.phase = "normalize" /\ script'.todo = script.todo \ {path}
      /\ script' \in [phase : {"rest", "fetch", "normalize"}, todo : SUBSET (Urls \cup Paths)]
  BY <1>1, <1>2 DEF File!TypeOK
<1>4. File!TypeOK'
  BY <1>1, <1>2, <1>3 DEF File!TypeOK
<1>5. File!Captured' = File!Captured
  BY <1>1 DEF File!Captured
<1>6. \A other : (File!Leaf(other)' <=> File!Leaf(other))
                 /\ (File!Alone(other)' <=> File!Alone(other))
                 /\ File!JsonOf(other)' = File!JsonOf(other)
  BY <1>1, <1>5 DEF File!Leaf, File!Alone, File!JsonOf
<1>7. File!NormalizeInv'
  BY <1>1, <1>3, <1>5, <1>6 DEF File!FilesInv, File!NormalizeInv
<1> QED
  BY <1>3, <1>4, <1>7 DEF File!FilesInv, File!CaptureInv

LEMMA VerifyFiles ==
    ASSUME File!FilesInv, File!Verify \/ File!StopScript
    PROVE  File!FilesInv'
<1>1. /\ script' = File!Rest /\ issues' \in {issues, File!Issues}
      /\ UNCHANGED <<site, sitemap, published, raw, corpus, urls, fetched, failed, missing>>
  BY DEF File!Verify, File!StopScript, File!capture
<1>2. File!Issues \subseteq Paths
  BY DEF File!Issues, File!Captured
<1>3. File!TypeOK'
  BY <1>1, <1>2 DEF File!FilesInv, File!TypeOK, File!Rest
<1> QED
  BY <1>1, <1>3, RestingFiles

\* No step of a script or of the site breaks what holds of the files.
LEMMA FilesStep ==
    ASSUME File!FilesInv, [File!Next]_(File!vars)
    PROVE  File!FilesInv'
<1>1. CASE UNCHANGED File!vars
  BY <1>1
     DEF File!vars, File!capture, File!FilesInv, File!TypeOK, File!CaptureInv,
         File!NormalizeInv, File!Captured, File!Leaf, File!Alone, File!JsonOf
<1>2. CASE File!Next
  BY <1>2, PublishFiles, StartCaptureFiles, FetchPageFiles, FetchFailsFiles,
     CrossCheckFiles, StartNormalizeFiles, WriteSheetFiles, SkipPageFiles, VerifyFiles
     DEF File!Next, File!Script
<1> QED
  BY <1>1, <1>2

-----------------------------------------------------------------------------
(* A step of the pipeline is one of the files and one of ingestion *)

LEMMA IngestionAssumptions == Ingestion!CorpusAssumption /\ Ingestion!BatchAssumption
<1>1. File!Files \subseteq Nat
  BY PipelineAssumption DEF File!Files
<1>2. \A json \in File!Json : json.text \in {page.text : page \in Pages}
  BY DEF File!Json
<1>3. [json \in File!Json |-> TextWindows[json.text]] \in [File!Json -> Seq(Texts)]
  BY <1>2, PipelineAssumption
<1> QED
  BY <1>1, <1>3, PipelineAssumption DEF Ingestion!CorpusAssumption, Ingestion!BatchAssumption

\* Both instances of ingestion count alike.
LEMMA OneCount == \A S : Chunk!Cardinality(S) = Ingestion!Cardinality(S)
BY DEF Chunk!Cardinality, Ingestion!Cardinality

LEMMA StepOfFiles ==
    ASSUME [Next]_vars
    PROVE  [File!Next]_(File!vars)
<1>1. CASE \/ UNCHANGED vars
           \/ Ingest
           \/ Chunk!Stop(Process) /\ UNCHANGED files
  <2>1. UNCHANGED files /\ UNCHANGED corpus
    BY <1>1
       DEF vars, Ingest, Chunk!Start, Chunk!ReadPage, Chunk!ReadExisting, Chunk!Upsert,
           Chunk!Prune, Chunk!Stop
  <2> QED
    BY <2>1 DEF files, File!vars, File!capture
<1>2. CASE \/ \E url \in Urls, page \in Pages \cup {NoPage} : Publish(url, page)
           \/ Capture
           \/ Normalize
           \/ File!StopScript
  BY <1>2 DEF Publish, Capture, Normalize, File!Next, File!Script
<1> QED
  BY <1>1, <1>2 DEF Next, Stop

\* Scripts change the corpus only while no run is active.
LEMMA StepOfIngestion ==
    ASSUME File!FilesInv, OneProgram, [Next]_vars
    PROVE  [Ingestion!StableNext]_(Ingestion!vars)
<1>1. ASSUME NEW path \in Paths, File!WriteSheet(path), UNCHANGED <<table, run>>
      PROVE  Ingestion!StableNext
  <2>1. /\ script.phase = "normalize" /\ path \in File!Sheets /\ raw[path] # NoPage
        /\ corpus' = [corpus EXCEPT ![FileOf[path]] = File!JsonOf(path)]
    BY <1>1 DEF File!WriteSheet, File!NextPath, File!Dumped, File!Leaf, File!Captured
  <2>2. FileOf[path] \in File!Files /\ File!JsonOf(path) \in File!Json \cup {NoFile}
    BY <2>1, SheetsHaveFiles, JsonIsJson DEF File!FilesInv
  <2>3. run[Process].phase = "idle"
    BY <2>1 DEF OneProgram, File!Resting, Chunk!Active
  <2>4. Ingestion!StableEdit(FileOf[path], File!JsonOf(path))
    BY <1>1, <2>1, <2>3 DEF Ingestion!StableEdit, Ingestion!Edit, Ingestion!Active
  <2> QED
    BY <2>2, <2>4 DEF Ingestion!StableNext
<1>2. CASE Ingest
  <2>1. CASE Chunk!Start(Process, Model)
    BY <2>1
       DEF Chunk!Start, Chunk!Active, Chunk!Listed, Chunk!NoRows, Ingestion!StableNext,
           Ingestion!StableStart, Ingestion!Start, Ingestion!Active, Ingestion!Listed,
           Ingestion!NoRows
  <2>2. CASE Chunk!ReadPage(Process)
    <3>1. Ingestion!ReadPage(Process)
      BY <2>2
         DEF Chunk!ReadPage, Chunk!Merged, Chunk!HashesOf, Chunk!First, Chunk!Positions,
             Ingestion!ReadPage, Ingestion!Merged, Ingestion!HashesOf, Ingestion!First,
             Ingestion!Positions
    <3> QED
      BY <3>1 DEF Ingestion!StableNext, Ingestion!Work
  <2>3. CASE Chunk!ReadExisting(Process)
    BY <2>3
       DEF Chunk!ReadExisting, Chunk!NewChunks, Ingestion!StableNext, Ingestion!Work,
           Ingestion!ReadExisting, Ingestion!NewChunks
  <2>4. CASE \E batch \in SUBSET run[Process].new_chunks : Chunk!Upsert(Process, batch)
    <3>1. PICK batch \in SUBSET run[Process].new_chunks : Chunk!Upsert(Process, batch)
      BY <2>4
    <3>2. Ingestion!Upsert(Process, batch)
      BY <3>1, OneCount
         DEF Chunk!Upsert, Chunk!Upserted, Chunk!Batches, Chunk!Left,
             Ingestion!Upsert, Ingestion!Upserted, Ingestion!Batches, Ingestion!Left
    <3> QED
      BY <3>2 DEF Ingestion!StableNext, Ingestion!Work
  <2>5. CASE Chunk!Prune(Process)
    BY <2>5
       DEF Chunk!Prune, Chunk!Embedded, Chunk!MayPrune, Chunk!Kept, Chunk!Idle,
           Chunk!NoRows, Ingestion!StableNext, Ingestion!Work, Ingestion!Prune,
           Ingestion!Embedded, Ingestion!MayPrune, Ingestion!Kept, Ingestion!Idle,
           Ingestion!NoRows
  <2> QED
    BY <1>2, <2>1, <2>2, <2>3, <2>4, <2>5 DEF Ingest
<1>3. CASE Chunk!Stop(Process)
  BY <1>3
     DEF Chunk!Stop, Chunk!Active, Chunk!Idle, Chunk!NoRows, Ingestion!StableNext,
         Ingestion!Stop, Ingestion!Active, Ingestion!Idle, Ingestion!NoRows
<1>4. CASE \/ \E url \in Urls, page \in Pages \cup {NoPage} : Publish(url, page)
           \/ Capture
           \/ Normalize /\ ~\E path \in Paths : File!WriteSheet(path)
           \/ File!StopScript /\ Keeps
           \/ UNCHANGED vars
  <2>1. UNCHANGED <<corpus, table, run>>
    BY <1>4
       DEF Publish, Capture, Normalize, Keeps, vars, File!Publish, File!StartCapture,
           File!FetchPage, File!FetchFails, File!CrossCheck, File!StartNormalize,
           File!SkipPage, File!Verify, File!StopScript
  <2> QED
    BY <2>1 DEF Ingestion!vars
<1> QED
  BY <1>1, <1>2, <1>3, <1>4 DEF Next, Stop, Normalize, Keeps

\* Of the one process, both instances of ingestion claim the same.
LEMMA OneIngestion ==
    /\ Chunk!IInv <=> Ingestion!IInv
    /\ Chunk!IInv' <=> Ingestion!IInv'
BY DEF Chunk!IInv, Chunk!TypeOK, Chunk!RunInv, Chunk!Rows, Chunk!Hashes, Chunk!Places,
       Chunk!Run, Chunk!Phases, Chunk!Active, Chunk!CorpusHashes, Chunk!HashesOf,
       Chunk!Listed, Ingestion!IInv, Ingestion!TypeOK, Ingestion!RunInv, Ingestion!Rows,
       Ingestion!Hashes, Ingestion!Places, Ingestion!Run, Ingestion!Phases,
       Ingestion!Active, Ingestion!CorpusHashes, Ingestion!HashesOf, Ingestion!Listed

-----------------------------------------------------------------------------
(* How far a refresh has come *)

\* Whether the process is active after a step of its run.
LEMMA RunMoves ==
    ASSUME Chunk!IInv
    PROVE  /\ run' = run => (Chunk!Active(Process)' <=> Chunk!Active(Process))
           /\ Chunk!Start(Process, Model) => Chunk!Active(Process)'
           /\ \/ Chunk!ReadPage(Process)
              \/ Chunk!ReadExisting(Process)
              \/ (\E batch \in SUBSET run[Process].new_chunks : Chunk!Upsert(Process, batch))
              => Chunk!Active(Process) /\ Chunk!Active(Process)'
           /\ Chunk!Prune(Process) \/ Chunk!Stop(Process)
                => Chunk!Active(Process) /\ ~Chunk!Active(Process)'
<1>1. run \in [{Process} -> Chunk!Run] /\ run[Process] \in Chunk!Run
  BY DEF Chunk!IInv, Chunk!TypeOK
<1>2. run' = run => (Chunk!Active(Process)' <=> Chunk!Active(Process))
  BY DEF Chunk!Active
<1>3. Chunk!Start(Process, Model) => Chunk!Active(Process)'
  BY <1>1 DEF Chunk!Start, Chunk!Active
<1>4. Chunk!ReadPage(Process) => Chunk!Active(Process) /\ Chunk!Active(Process)'
  BY <1>1 DEF Chunk!ReadPage, Chunk!Active, Chunk!Run
<1>5. Chunk!ReadExisting(Process) => Chunk!Active(Process) /\ Chunk!Active(Process)'
  BY <1>1 DEF Chunk!ReadExisting, Chunk!Active, Chunk!Run
<1>6. ASSUME NEW batch \in SUBSET run[Process].new_chunks, Chunk!Upsert(Process, batch)
      PROVE  Chunk!Active(Process) /\ Chunk!Active(Process)'
  BY <1>1, <1>6 DEF Chunk!Upsert, Chunk!Active, Chunk!Run
<1>7. Chunk!Prune(Process) \/ Chunk!Stop(Process)
        => Chunk!Active(Process) /\ ~Chunk!Active(Process)'
  BY <1>1 DEF Chunk!Prune, Chunk!Embedded, Chunk!Stop, Chunk!Active, Chunk!Idle
<1> QED
  BY <1>2, <1>3, <1>4, <1>5, <1>6, <1>7

LEMMA RefreshInit == Init => RefreshInv
BY DEF Init, RefreshInv, Stages, OneProgram, AtStage, GotSoFar, SiteIsCaptured,
       SiteIsNormalized, EverySheetIsIngested, File!Init, File!Rest, File!Resting

\* Of a stale refresh nothing is claimed.
LEMMA StaleRefresh ==
    ASSUME refresh' = "stale", OneProgram'
    PROVE  RefreshInv'
BY DEF RefreshInv, Stages, OneProgram, AtStage, GotSoFar, SiteIsCaptured,
       SiteIsNormalized, EverySheetIsIngested

\* A step that leaves the site and the raw pages alone leaves the sheets to serve.
LEMMA SameServed ==
    ASSUME UNCHANGED <<site, sitemap, raw>>
    PROVE  Served' = Served /\ Sharing' = Sharing /\ ServedRows' = ServedRows
<1>1. Served' = Served /\ Sharing' = Sharing
  BY DEF Served, Sharing, File!Captured, File!Leaf, File!Alone
<1> QED
  BY <1>1 DEF ServedRows

\* A step that leaves the stage alone and what it is about.
LEMMA SameStage ==
    ASSUME RefreshInv, refresh' = refresh,
           UNCHANGED <<site, sitemap, raw, table>>,
           OneProgram', AtStage', GotSoFar',
           refresh \in {"normalized", "ingesting"} => corpus' = corpus
    PROVE  RefreshInv'
<1>1. SiteIsCaptured'
  BY DEF RefreshInv, SiteIsCaptured, Stages
<1>2. SiteIsNormalized'
  BY SameServed DEF RefreshInv, SiteIsNormalized, File!JsonOf
<1>3. EverySheetIsIngested'
  BY SameServed DEF RefreshInv, EverySheetIsIngested
<1> QED
  BY <1>1, <1>2, <1>3 DEF RefreshInv

LEMMA PublishRefresh ==
    ASSUME PipelineInv, NEW url \in Urls, NEW page \in Pages \cup {NoPage},
           Publish(url, page)
    PROVE  RefreshInv'
<1>1. refresh' = "stale" /\ script' = script /\ run' = run
  BY DEF Publish, Keeps, File!Publish
<1>2. OneProgram'
  BY <1>1, RunMoves DEF PipelineInv, RefreshInv, OneProgram, File!Resting
<1> QED
  BY <1>1, <1>2, StaleRefresh

LEMMA CaptureRefresh ==
    ASSUME PipelineInv, Capture
    PROVE  RefreshInv'
<1>1. /\ UNCHANGED <<table, run>> /\ Chunk!IInv /\ RefreshInv
      /\ Chunk!Active(Process)' <=> Chunk!Active(Process)
  BY RunMoves DEF Capture, Keeps, PipelineInv
<1>2. CASE Idle /\ File!StartCapture /\ refresh' = "capturing"
  <2>1. /\ script'.phase = "fetch" /\ ~Chunk!Active(Process)'
        /\ urls' = sitemap' /\ failed' = {} /\ DOMAIN fetched' = {}
    BY <1>1, <1>2 DEF Idle, File!StartCapture, File!NoPages
  <2> QED
    BY <1>2, <2>1
       DEF RefreshInv, Stages, OneProgram, AtStage, GotSoFar, SiteIsCaptured,
           SiteIsNormalized, EverySheetIsIngested
<1>3. CASE (\E url \in Urls : File!FetchPage(url)) /\ UNCHANGED refresh
  <2>1. PICK url \in Urls : File!FetchPage(url)
    BY <1>3
  <2>2. /\ script.phase = "fetch" /\ script'.phase = "fetch"
        /\ fetched' = [other \in DOMAIN fetched \cup {url} |->
                          IF other = url THEN site[url] ELSE fetched[other]]
        /\ UNCHANGED <<site, sitemap, urls, failed>>
    BY <2>1 DEF File!FetchPage, File!Treated, PipelineInv, File!FilesInv, File!TypeOK
  <2>3. ~Chunk!Active(Process) /\ ~Chunk!Active(Process)'
    BY <1>1, <2>2 DEF RefreshInv, OneProgram, File!Resting
  <2>4. refresh \in {"stale", "capturing"}
    BY <1>1, <2>2, <2>3 DEF RefreshInv, Stages, AtStage, Idle, File!Resting
  <2>5. GotSoFar'
    BY <1>1, <1>3, <2>2 DEF RefreshInv, GotSoFar
  <2> QED
    BY <1>3, <2>2, <2>3, <2>4, <2>5
       DEF RefreshInv, Stages, OneProgram, AtStage, SiteIsCaptured, SiteIsNormalized,
           EverySheetIsIngested
<1>4. CASE (\E url \in Urls : File!FetchFails(url)) /\ refresh' = "stale"
  <2>1. script.phase = "fetch"
    BY <1>4 DEF File!FetchFails
  <2>2. OneProgram'
    BY <1>1, <2>1 DEF RefreshInv, OneProgram, File!Resting
  <2> QED
    BY <1>4, <2>2, StaleRefresh
<1>5. CASE File!CrossCheck /\ Advances("capturing", "captured")
  <2>1. /\ script.phase = "fetch" /\ script.todo = {} /\ script'.phase = "rest"
        /\ UNCHANGED <<site, sitemap, raw>>
    BY <1>5 DEF File!CrossCheck, File!Rest
  <2>2. ~Chunk!Active(Process)' /\ OneProgram'
    BY <1>1, <2>1 DEF RefreshInv, OneProgram, File!Resting
  <2>3. CASE refresh = "capturing"
    <3>1. /\ urls = DOMAIN fetched
          /\ \A url \in DOMAIN fetched :
                \E other \in DOMAIN fetched :
                    PathOf[other] = PathOf[url] /\ raw[PathOf[url]] = fetched[other]
      BY <1>1, <2>1, <2>3
         DEF RefreshInv, GotSoFar, PipelineInv, File!FilesInv, File!CaptureInv
    <3>2. \A url \in DOMAIN fetched : fetched[url] = site[url] /\ fetched[url] \in Pages
      BY <1>1, <2>3
         DEF RefreshInv, GotSoFar, PipelineInv, File!FilesInv, File!TypeOK
    <3>3. \A url \in sitemap :
              /\ site[url] # NoPage
              /\ \E other \in sitemap :
                    PathOf[other] = PathOf[url] /\ raw[PathOf[url]] = site[other]
      BY <1>1, <2>3, <3>1, <3>2, PathsAssumption DEF RefreshInv, GotSoFar
    <3>4. refresh' = "captured"
      BY <1>5, <2>3 DEF Advances
    <3> QED
      BY <2>1, <2>2, <3>3, <3>4
         DEF RefreshInv, Stages, AtStage, Idle, File!Resting, GotSoFar, SiteIsCaptured,
             SiteIsNormalized, EverySheetIsIngested
  <2>4. CASE refresh # "capturing"
    BY <1>5, <2>2, <2>4, StaleRefresh DEF Advances
  <2> QED
    BY <2>3, <2>4
<1> QED
  BY <1>2, <1>3, <1>4, <1>5 DEF Capture

\* The file of a URL that shares it with no other page holds what the URL serves.
LEMMA ServedPages ==
    ASSUME SiteIsCaptured, refresh \in Stages \ {"stale", "capturing"},
           NEW url \in Served \ Sharing
    PROVE  /\ raw[PathOf[url]] = site[url] /\ site[url] # NoPage /\ site[url].leaf
           /\ PathOf[url] \in File!Sheets /\ File!Leaf(PathOf[url]) /\ File!Alone(PathOf[url])
<1>1. /\ url \in sitemap /\ PathOf[url] \in File!Sheets
      /\ site[url] # NoPage /\ site[url].leaf
  BY DEF Served
<1>2. PICK other \in sitemap : PathOf[other] = PathOf[url] /\ raw[PathOf[url]] = site[other]
  BY <1>1 DEF SiteIsCaptured
<1>3. /\ ~\E second \in sitemap : PathOf[second] = PathOf[url] /\ site[second] # site[url]
      /\ File!Alone(PathOf[url])
  BY DEF Sharing
<1>4. raw[PathOf[url]] = site[url]
  BY <1>2, <1>3
<1> QED
  BY <1>1, <1>3, <1>4, SheetsHaveFiles DEF File!Leaf, File!Captured

\* What a normalization has treated when it verifies is what the site serves.
LEMMA NormalizedSheets ==
    ASSUME PipelineInv, script.phase = "normalize", script.todo = {},
           refresh = "normalizing", NEW url \in Served \ Sharing
    PROVE  corpus[FileOf[PathOf[url]]] = File!JsonOf(PathOf[url])
<1>1. PathOf[url] \in File!Sheets /\ File!Leaf(PathOf[url]) /\ File!Alone(PathOf[url])
  BY ServedPages DEF PipelineInv, RefreshInv, Stages
<1> QED
  BY <1>1 DEF PipelineInv, File!FilesInv, File!NormalizeInv

LEMMA NormalizeRefresh ==
    ASSUME PipelineInv, Normalize
    PROVE  RefreshInv'
<1>1. /\ UNCHANGED <<table, run>> /\ Chunk!IInv /\ RefreshInv
      /\ Chunk!Active(Process)' <=> Chunk!Active(Process)
  BY RunMoves DEF Normalize, Keeps, PipelineInv
<1>2. CASE Idle /\ File!StartNormalize /\ Advances("captured", "normalizing")
  <2>1. /\ script'.phase = "normalize" /\ ~Chunk!Active(Process)'
        /\ UNCHANGED <<site, sitemap, raw>>
    BY <1>1, <1>2 DEF Idle, File!StartNormalize
  <2>2. OneProgram'
    BY <2>1 DEF OneProgram
  <2>3. CASE refresh = "captured"
    <3>1. refresh' = "normalizing"
      BY <1>2, <2>3 DEF Advances
    <3>2. SiteIsCaptured'
      BY <1>1, <2>1, <2>3 DEF RefreshInv, Stages, SiteIsCaptured
    <3> QED
      BY <2>1, <2>2, <3>1, <3>2
         DEF RefreshInv, Stages, AtStage, GotSoFar, SiteIsNormalized, EverySheetIsIngested
  <2>4. CASE refresh # "captured"
    BY <1>2, <2>2, <2>4, StaleRefresh DEF Advances
  <2> QED
    BY <2>3, <2>4
<1>3. CASE /\ \E path \in Paths : File!WriteSheet(path) \/ File!SkipPage(path)
           /\ UNCHANGED refresh
  <2>1. /\ script.phase = "normalize" /\ script'.phase = "normalize"
        /\ UNCHANGED <<site, sitemap, raw>>
    BY <1>3
       DEF File!WriteSheet, File!SkipPage, File!NextPath, File!Treated, PipelineInv,
           File!FilesInv, File!TypeOK
  <2>2. ~Chunk!Active(Process) /\ ~Chunk!Active(Process)'
    BY <1>1, <2>1 DEF RefreshInv, OneProgram, File!Resting
  <2>3. refresh \in {"stale", "normalizing"}
    BY <1>1, <2>1, <2>2 DEF RefreshInv, Stages, AtStage, Idle, File!Resting
  <2>4. OneProgram' /\ AtStage' /\ GotSoFar'
    BY <1>3, <2>1, <2>2, <2>3 DEF OneProgram, AtStage, GotSoFar
  <2> QED
    BY <1>1, <1>3, <2>1, <2>3, <2>4, SameStage
<1>4. CASE /\ ~Chunk!Active(Process)
           /\ File!Verify
           /\ IF File!Resting THEN UNCHANGED refresh
              ELSE Advances("normalizing", "normalized")
  <2>1. /\ script'.phase = "rest" /\ ~Chunk!Active(Process)'
        /\ UNCHANGED <<site, sitemap, raw, corpus>>
    BY <1>1, <1>4 DEF File!Verify, File!Rest
  <2>2. OneProgram'
    BY <2>1 DEF OneProgram
  <2>3. CASE File!Resting
    <3>1. refresh' = refresh /\ refresh \notin {"capturing", "normalizing", "ingesting"}
      BY <1>1, <1>4, <2>3 DEF RefreshInv, AtStage, File!Resting
    <3>2. AtStage' /\ GotSoFar'
      BY <2>1, <3>1 DEF AtStage, GotSoFar, Idle, File!Resting
    <3> QED
      BY <1>1, <2>1, <2>2, <3>1, <3>2, SameStage
  <2>4. CASE ~File!Resting /\ refresh = "normalizing"
    <3>1. refresh' = "normalized"
      BY <1>4, <2>4 DEF Advances
    <3>2. script.phase = "normalize" /\ script.todo = {}
      BY <1>4, <2>4 DEF File!Verify
    <3>3. \A url \in Served \ Sharing :
              corpus[FileOf[PathOf[url]]] = File!JsonOf(PathOf[url])
      BY <2>4, <3>2, NormalizedSheets
    <3>4. SiteIsNormalized'
      BY <2>1, <3>3, SameServed DEF SiteIsNormalized, File!JsonOf
    <3>5. SiteIsCaptured'
      BY <1>1, <2>1, <2>4, <3>1 DEF RefreshInv, Stages, SiteIsCaptured
    <3> QED
      BY <2>1, <2>2, <3>1, <3>4, <3>5
         DEF RefreshInv, Stages, AtStage, Idle, File!Resting, GotSoFar,
             EverySheetIsIngested
  <2>5. CASE ~File!Resting /\ refresh # "normalizing"
    BY <1>4, <2>2, <2>5, StaleRefresh DEF Advances
  <2> QED
    BY <2>3, <2>4, <2>5
<1> QED
  BY <1>2, <1>3, <1>4 DEF Normalize

\* The chunks of the sheets the site serves are among those of the corpus.
LEMMA ServedIsInCorpus ==
    ASSUME PipelineInv, SiteIsNormalized, refresh = "ingesting"
    PROVE  ServedRows \subseteq Ingestion!CorpusHashes(Model)
<1> SUFFICES ASSUME NEW url \in Served \ Sharing, NEW row \in Rows(site[url].text)
             PROVE  row \in Ingestion!CorpusHashes(Model)
  BY DEF ServedRows
<1> DEFINE path == PathOf[url]
           json == File!JsonOf(path)
<1>1. raw[path] = site[url] /\ site[url] # NoPage /\ path \in File!Sheets
  BY ServedPages DEF PipelineInv, RefreshInv, Stages
<1>2. /\ corpus[FileOf[path]] = json /\ json \in File!Json /\ json.text = site[url].text
      /\ FileOf[path] \in File!Files
  BY <1>1, SheetsHaveFiles, JsonIsJson DEF SiteIsNormalized, PipelineInv, File!FilesInv
<1>3. json # NoFile
  BY <1>2, PipelineAssumption
<1>4. FileOf[path] \in Ingestion!Listed
  BY <1>2, <1>3 DEF Ingestion!Listed
<1>5. row \in Ingestion!HashesOf(json, Model)
  BY <1>2 DEF Rows, Ingestion!HashesOf
<1> HIDE DEF json
<1> QED
  BY <1>2, <1>4, <1>5 DEF Ingestion!CorpusHashes

LEMMA IngestRefresh ==
    ASSUME PipelineInv, Ingest
    PROVE  RefreshInv'
<1>1. UNCHANGED files /\ Chunk!IInv /\ RefreshInv
  BY DEF Ingest, PipelineInv
<1>2. UNCHANGED <<site, sitemap, raw, script>>
  BY <1>1 DEF files
<1>3. CASE Idle /\ Chunk!Start(Process, Model) /\ Advances("normalized", "ingesting")
  <2>1. Chunk!Active(Process)' /\ OneProgram' /\ UNCHANGED <<corpus, table>>
    BY <1>1, <1>2, <1>3, RunMoves DEF Idle, OneProgram, File!Resting, Chunk!Start
  <2>2. CASE refresh = "normalized"
    <3>1. refresh' = "ingesting"
      BY <1>3, <2>2 DEF Advances
    <3>2. SiteIsCaptured'
      BY <1>1, <1>2, <2>2, <3>1 DEF RefreshInv, Stages, SiteIsCaptured
    <3>3. SiteIsNormalized'
      BY <1>1, <1>2, <2>1, <2>2, <3>1, SameServed
         DEF RefreshInv, SiteIsNormalized, File!JsonOf
    <3> QED
      BY <2>1, <3>1, <3>2, <3>3
         DEF RefreshInv, Stages, AtStage, GotSoFar, EverySheetIsIngested
  <2>3. CASE refresh # "normalized"
    BY <1>3, <2>1, <2>3, StaleRefresh DEF Advances
  <2> QED
    BY <2>2, <2>3
<1>4. CASE /\ \/ Chunk!ReadPage(Process)
              \/ Chunk!ReadExisting(Process)
              \/ \E batch \in SUBSET run[Process].new_chunks : Chunk!Upsert(Process, batch)
           /\ UNCHANGED refresh
  <2>1. Chunk!Active(Process) /\ Chunk!Active(Process)'
    BY <1>1, <1>4, RunMoves
  <2>2. File!Resting /\ OneProgram'
    BY <1>1, <1>2, <2>1 DEF RefreshInv, OneProgram, File!Resting
  <2>3. refresh \in {"stale", "ingesting"} /\ corpus' = corpus
    BY <1>1, <1>4, <2>1, <2>2
       DEF RefreshInv, Stages, AtStage, Idle, File!Resting, Chunk!ReadPage,
           Chunk!ReadExisting, Chunk!Upsert
  <2>4. AtStage' /\ GotSoFar'
    BY <1>4, <2>1, <2>3 DEF AtStage, GotSoFar
  <2>5. SiteIsCaptured'
    BY <1>1, <1>2, <1>4 DEF RefreshInv, SiteIsCaptured, Stages
  <2>6. SiteIsNormalized'
    BY <1>1, <1>2, <1>4, <2>3, SameServed DEF RefreshInv, SiteIsNormalized, File!JsonOf
  <2> QED
    BY <1>4, <2>2, <2>3, <2>4, <2>5, <2>6 DEF RefreshInv, Stages, EverySheetIsIngested
<1>5. CASE Chunk!Prune(Process) /\ Advances("ingesting", "ingested")
  <2>1. Chunk!Active(Process) /\ ~Chunk!Active(Process)' /\ OneProgram'
    BY <1>1, <1>5, RunMoves DEF OneProgram
  <2>2. File!Resting /\ File!Resting'
    BY <1>1, <1>2, <2>1 DEF RefreshInv, OneProgram, File!Resting
  <2>3. CASE refresh = "ingesting"
    <3>1. refresh' = "ingested"
      BY <1>5, <2>3 DEF Advances
    <3>2. Ingestion!IInv /\ Ingestion!Prune(Process)
      BY <1>1, <1>5, OneIngestion
         DEF Chunk!Prune, Chunk!Embedded, Chunk!MayPrune, Chunk!Kept, Chunk!Idle,
             Chunk!NoRows, Ingestion!Prune, Ingestion!Embedded, Ingestion!MayPrune,
             Ingestion!Kept, Ingestion!Idle, Ingestion!NoRows
    <3>3. DOMAIN table' = IF Ingestion!CorpusHashes(run[Process].model) # {}
                          THEN Ingestion!CorpusHashes(run[Process].model)
                          ELSE DOMAIN table
      <4>1. Process \in {Process}
        OBVIOUS
      <4> QED
        BY <3>2, <4>1, IngestionAssumptions, Ingestion!PruneLeaves, Zenon
    <3>4. run[Process].model = Model
      BY <2>1, <3>2 DEF Ingestion!IInv, Ingestion!RunInv, Ingestion!Active, Chunk!Active
    <3>5. ServedRows \subseteq Ingestion!CorpusHashes(Model)
      BY <1>1, <2>3, ServedIsInCorpus DEF RefreshInv
    <3>6. ServedRows \subseteq DOMAIN table'
      BY <3>3, <3>4, <3>5
    <3>7. EverySheetIsIngested'
      BY <1>2, <3>6, SameServed DEF EverySheetIsIngested
    <3>8. SiteIsCaptured'
      BY <1>1, <1>2, <2>3 DEF RefreshInv, Stages, SiteIsCaptured
    <3> QED
      BY <2>1, <2>2, <3>1, <3>7, <3>8
         DEF RefreshInv, Stages, AtStage, Idle, GotSoFar, SiteIsNormalized
  <2>4. CASE refresh # "ingesting"
    BY <1>5, <2>1, <2>4, StaleRefresh DEF Advances
  <2> QED
    BY <2>3, <2>4
<1> QED
  BY <1>3, <1>4, <1>5 DEF Ingest

LEMMA StopRefresh ==
    ASSUME PipelineInv, Stop
    PROVE  RefreshInv'
<1>1. refresh' = "stale"
  BY DEF Stop
<1>2. OneProgram'
  <2>1. CASE File!StopScript /\ Keeps
    BY <2>1 DEF File!StopScript, File!Rest, OneProgram, File!Resting
  <2>2. CASE Chunk!Stop(Process)
    BY <2>2, RunMoves DEF PipelineInv, OneProgram
  <2> QED
    BY <2>1, <2>2 DEF Stop
<1> QED
  BY <1>1, <1>2, StaleRefresh

LEMMA RefreshStep ==
    ASSUME PipelineInv, [Next]_vars
    PROVE  RefreshInv'
<1>1. CASE UNCHANGED vars
  <2>1. UNCHANGED <<site, sitemap, raw, corpus, script, urls, fetched, failed, table, run,
                    refresh>>
    BY <1>1 DEF vars, files
  <2>2. OneProgram' /\ AtStage' /\ GotSoFar'
    BY <2>1, RunMoves
       DEF PipelineInv, RefreshInv, OneProgram, AtStage, GotSoFar, Idle, File!Resting
  <2> QED
    BY <2>1, <2>2, SameStage DEF PipelineInv
<1>2. CASE Next
  BY <1>2, PublishRefresh, CaptureRefresh, NormalizeRefresh, IngestRefresh, StopRefresh
     DEF Next
<1> QED
  BY <1>1, <1>2

-----------------------------------------------------------------------------
(* The theorems *)

\* The strengthening: at each step the files hold what the last capture and the last
\* normalization have treated, the run is as in CorpusIngestion, and the refresh has
\* got as far as its stage says.
THEOREM Inductive == Spec => []PipelineInv
<1>1. Init => File!FilesInv /\ RefreshInv /\ Ingestion!Init
  BY FilesInit, RefreshInit
     DEF Init, Chunk!Init, Chunk!Idle, Chunk!NoRows, Ingestion!Init, Ingestion!Idle,
         Ingestion!NoRows
<1>2. Init => Ingestion!IInv
  BY <1>1, IngestionAssumptions, Ingestion!InitInv, Zenon
<1>3. PipelineInv /\ [Next]_vars => PipelineInv'
  <2> SUFFICES ASSUME PipelineInv, [Next]_vars PROVE PipelineInv'
    OBVIOUS
  <2>1. File!FilesInv'
    BY StepOfFiles, FilesStep DEF PipelineInv
  <2>2. RefreshInv'
    BY RefreshStep
  <2>3. Ingestion!IInv /\ [Ingestion!StableNext]_(Ingestion!vars)
    BY OneIngestion, StepOfIngestion DEF PipelineInv, RefreshInv
  <2>4. Ingestion!IInv'
    BY <2>3, IngestionAssumptions, Ingestion!StableStep, Zenon
  <2>5. Chunk!IInv'
    BY <2>4, OneIngestion
  <2> QED
    BY <2>1, <2>2, <2>5 DEF PipelineInv
<1>4. Init => PipelineInv
  BY <1>1, <1>2, OneIngestion DEF PipelineInv
<1> QED
  BY <1>3, <1>4, PTL DEF Spec

\* Whatever earlier captures, normalizations and runs left half done, and however
\* the site changed before, a refresh in which no stage fails or stops leaves a row
\* for each chunk of each sheet the site serves and that has a file of its own.
THEOREM Complete == Spec => []EverySheetIsIngested
<1>1. PipelineInv => EverySheetIsIngested
  BY DEF PipelineInv, RefreshInv
<1> QED
  BY <1>1, Inductive, PTL

\* A capture that ends accounts for each page that a page it got links to, also when
\* the site and its sitemap changed meanwhile.
THEOREM Accounted == Spec => LinkedPagesAreAccountedFor
<1>1. ASSUME PipelineInv, File!CrossCheck
      PROVE  File!Discovered \subseteq DOMAIN fetched \cup failed \cup missing'
  BY <1>1 DEF PipelineInv, File!FilesInv, File!CaptureInv, File!CrossCheck
<1>2. PipelineInv
        => [File!CrossCheck =>
               File!Discovered \subseteq DOMAIN fetched \cup failed \cup missing']_(File!vars)
  BY <1>1
<1> QED
  BY <1>2, Inductive, PTL DEF LinkedPagesAreAccountedFor, File!LinkedPagesAreAccountedFor

\* A normalization that reaches its end passes its own verification, whatever earlier
\* captures and interrupted normalizations left, but for content outside the sheets,
\* sheets that share a JSON file and headings in captions.
THEOREM Verifies == Spec => NormalizedCorpusVerifies
<1> DEFINE Excused(path) == \/ path \notin File!Sheets
                            \/ ~File!Alone(path)
                            \/ ~(raw[path].seen \subseteq raw[path].headings)
<1>1. ASSUME PipelineInv, File!Verify, ~File!Resting, NEW path \in issues', ~Excused(path)
      PROVE  FALSE
  <2>1. script.phase = "normalize" /\ script.todo = {} /\ issues' = File!Issues
    BY <1>1 DEF File!Verify
  <2>2. /\ path \in File!Captured /\ File!Leaf(path) /\ path \in File!Sheets
        /\ ~File!Covered(path) /\ File!Alone(path)
        /\ raw[path].seen \subseteq raw[path].headings
    BY <1>1, <2>1 DEF File!Issues
  <2>3. corpus[FileOf[path]] = File!JsonOf(path)
    BY <1>1, <2>1, <2>2 DEF PipelineInv, File!FilesInv, File!NormalizeInv
  <2>4. /\ File!JsonOf(path) \in File!Json /\ raw[path] \in Pages
        /\ File!JsonOf(path).headings = raw[path].headings
        /\ File!JsonOf(path).text = raw[path].text
    BY <1>1, <2>2, JsonIsJson DEF PipelineInv, File!FilesInv, File!Captured
  <2>5. File!JsonOf(path) # NoFile
    BY <2>4, PipelineAssumption
  <2>6. 100 * Chars[raw[path].text] >= 85 * Chars[raw[path].text]
    <3>1. Chars[raw[path].text] \in Nat
      BY <2>4, PipelineAssumption
    <3> QED
      BY <3>1
  <2> QED
    BY <2>2, <2>3, <2>4, <2>5, <2>6 DEF File!Covered
<1>2. PipelineInv
        => [File!Verify /\ ~File!Resting => \A path \in issues' : Excused(path)]_(File!vars)
  BY <1>1
<1> QED
  BY <1>2, Inductive, PTL DEF NormalizedCorpusVerifies, File!NormalizedCorpusVerifies
=============================================================================
