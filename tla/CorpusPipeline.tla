-------------------------- MODULE CorpusPipeline --------------------------
(***************************************************************************)
(* The refresh of the corpus from end to end: the scripts of CorpusFiles   *)
(* bring the ministry's pages to JSON, a run of CorpusIngestion brings the *)
(* JSON to content_chunks.  A developer starts them in any order, one at a *)
(* time (README of the repository, Setup).                                 *)
(***************************************************************************)
EXTENDS Naturals, Sequences, FiniteSets

CONSTANTS Urls, Paths, PathOf, Kind, FileOf, Pages, Chars, NoPage, NoFile, InitialSites, MaxPublishes,
          Process, Model, NoModel, Texts, TextWindows, EMBED_BATCH_SIZE

ASSUME PathsAssumption ==
    /\ Paths \subseteq Nat
    /\ PathOf \in [Urls -> Paths]
    /\ Kind \in [Paths -> {"index", "root", "sheet", "unknown"}]
    /\ NoPage \notin Pages

VARIABLES site, sitemap, published, raw, corpus, script, urls, fetched, failed, missing,
          issues, table, run,
          refresh  \* how far a refresh has come since the site last changed

File == INSTANCE CorpusFiles

\* Sheets have a JSON file each, links are in scope, a text has its chunks and its length.
ASSUME PipelineAssumption ==
    /\ FileOf \in [File!Sheets -> Nat]
    /\ \A page \in Pages : page.links \subseteq Urls
    /\ TextWindows \in [{page.text : page \in Pages} -> Seq(Texts)]
    /\ Chars \in [{page.text : page \in Pages} -> Nat]
    /\ NoFile \notin File!Json
    /\ InitialSites \subseteq [Urls -> Pages \cup {NoPage}]
    /\ MaxPublishes \in Nat
    /\ EMBED_BATCH_SIZE \in Nat \ {0}

Chunk == INSTANCE CorpusIngestion WITH
    Runs <- {Process},
    Models <- {Model},
    Files <- File!Files,
    Contents <- File!Json,
    Windows <- [json \in File!Json |-> TextWindows[json.text]]

files == <<site, sitemap, published, raw, script, urls, fetched, failed, missing, issues>>
vars == <<files, corpus, table, run, refresh>>

Idle == File!Resting /\ ~Chunk!Active(Process)

Init ==
    /\ File!Init
    /\ Chunk!Init
    /\ refresh = "stale"

\* How far the refresh has come, if this step finishes its next stage.
Advances(stage, next) == refresh' = IF refresh = stage THEN next ELSE "stale"

Keeps == UNCHANGED <<table, run>>

Publish(url, page) ==
    /\ File!Publish(url, page)
    /\ Keeps
    /\ refresh' = "stale"

Capture ==
    /\ Keeps
    /\ \/ Idle /\ File!StartCapture /\ refresh' = "capturing"
       \/ /\ \E url \in Urls : File!FetchPage(url)
          /\ UNCHANGED refresh
       \/ (\E url \in Urls : File!FetchFails(url)) /\ refresh' = "stale"
       \/ File!CrossCheck /\ Advances("capturing", "captured")

Normalize ==
    /\ Keeps
    /\ \/ Idle /\ File!StartNormalize /\ Advances("captured", "normalizing")
       \/ (\E path \in Paths : File!WriteSheet(path)) /\ UNCHANGED refresh
       \/ (\E path \in Paths : File!SkipPage(path)) /\ UNCHANGED refresh
       \/ /\ ~Chunk!Active(Process)
          /\ File!Verify
          /\ IF File!Resting THEN UNCHANGED refresh
             ELSE Advances("normalizing", "normalized")

Ingest ==
    /\ UNCHANGED files
    /\ \/ Idle /\ Chunk!Start(Process, Model) /\ Advances("normalized", "ingesting")
       \/ Chunk!ReadPage(Process) /\ UNCHANGED refresh
       \/ Chunk!ReadExisting(Process) /\ UNCHANGED refresh
       \/ /\ \E batch \in SUBSET run[Process].new_chunks : Chunk!Upsert(Process, batch)
          /\ UNCHANGED refresh
       \/ Chunk!Prune(Process) /\ Advances("ingesting", "ingested")

Stop ==
    /\ \/ File!StopScript /\ Keeps
       \/ Chunk!Stop(Process) /\ UNCHANGED files
    /\ refresh' = "stale"

Next ==
    \/ \E url \in Urls, page \in Pages \cup {NoPage} : Publish(url, page)
    \/ Capture
    \/ Normalize
    \/ Ingest
    \/ Stop

Spec == Init /\ [][Next]_vars

-----------------------------------------------------------------------------

Rows(text) == {<<Model, TextWindows[text][i]>> : i \in DOMAIN TextWindows[text]}

\* The URLs of the sheets that the site serves with content.
Served == {url \in sitemap :
              PathOf[url] \in File!Sheets /\ site[url] # NoPage /\ site[url].leaf}

\* Those whose raw file also takes another page, or whose JSON file another sheet.
Sharing == {url \in Served :
               \/ \E other \in sitemap : PathOf[other] = PathOf[url] /\ site[other] # site[url]
               \/ ~File!Alone(PathOf[url])}

ServedRows == UNION {Rows(site[url].text) : url \in Served \ Sharing}

\* No page that a captured page links to goes unreported.
LinkedPagesAreAccountedFor == File!LinkedPagesAreAccountedFor

\* A normalization passes its own verification.
NormalizedCorpusVerifies == File!NormalizedCorpusVerifies

\* After a refresh in which no stage failed or stopped, every chunk of every sheet the
\* sitemap lists can be retrieved, whatever earlier refreshes left half done; two pages
\* that fall on one file are beyond it.
EverySheetIsIngested == refresh = "ingested" => ServedRows \subseteq DOMAIN table

-----------------------------------------------------------------------------
\* What the proofs need: how far the files and the run are at each stage.

Stages == {"stale", "capturing", "captured", "normalizing", "normalized", "ingesting",
           "ingested"}

\* A developer starts one program at a time.
OneProgram == File!Resting \/ ~Chunk!Active(Process)

\* The programs that may run at each stage.
AtStage ==
    /\ refresh \in {"captured", "normalized", "ingested"} => Idle
    /\ refresh = "capturing" => script.phase = "fetch"
    /\ refresh = "normalizing" => script.phase = "normalize"
    /\ refresh = "ingesting" => Chunk!Active(Process)

\* So far the capture got what the site serves, and everything it tried.
GotSoFar ==
    refresh = "capturing" =>
        /\ urls = sitemap /\ failed = {}
        /\ \A url \in DOMAIN fetched : fetched[url] = site[url]

\* Each page the sitemap lists is on file, or another with the same file.
SiteIsCaptured ==
    refresh \in Stages \ {"stale", "capturing"} =>
        \A url \in sitemap :
            /\ site[url] # NoPage
            /\ \E other \in sitemap :
                  PathOf[other] = PathOf[url] /\ raw[PathOf[url]] = site[other]

\* So is the JSON of each sheet that has a file of its own.
SiteIsNormalized ==
    refresh \in {"normalized", "ingesting"} =>
        \A url \in Served \ Sharing :
            corpus[FileOf[PathOf[url]]] = File!JsonOf(PathOf[url])

RefreshInv ==
    /\ refresh \in Stages
    /\ OneProgram
    /\ AtStage
    /\ GotSoFar
    /\ SiteIsCaptured
    /\ SiteIsNormalized
    /\ EverySheetIsIngested

PipelineInv == File!FilesInv /\ Chunk!IInv /\ RefreshInv
=============================================================================
