-------------------------- MODULE CorpusIngestion --------------------------
(***************************************************************************)
(* ingest (scripts/ingest_corpus.py): runs that bring the content_chunks   *)
(* table in line with the JSON files of the corpus.  Runs may be           *)
(* interrupted anywhere and may overlap; each upsert and each delete is a  *)
(* transaction of its own (autocommit pool, or psycopg's executemany).     *)
(*                                                                         *)
(* A text is a chunk's contextualized text, up to Unicode normalization.   *)
(* The hash of a chunk is the pair of embedding model and text, and its    *)
(* place is the file and the position in it, which stand for its theme,    *)
(* page_slug, section_id and chunk_index.                                  *)
(***************************************************************************)
EXTENDS Naturals, Sequences, FiniteSets

CONSTANTS
    Runs,              \* processes that may execute ingest
    Models,            \* embedding models the code is configured with
    Files,             \* JSON paths, numbered in their sorted order
    Contents,          \* what a JSON file may hold
    Texts,
    Windows,           \* the texts of the chunks of a content, in order
    NoFile,
    NoModel,
    EMBED_BATCH_SIZE

ASSUME CorpusAssumption ==
    /\ Files \subseteq Nat
    /\ Windows \in [Contents -> Seq(Texts)]
    /\ NoFile \notin Contents

ASSUME BatchAssumption == EMBED_BATCH_SIZE \in Nat \ {0}

VARIABLES
    corpus,  \* what each file holds
    table,   \* content_chunks: the place of each hash that has a row
    run      \* the progress of each process

vars == <<corpus, table, run>>

Hashes == Models \X Texts
Places == Files \X UNION {DOMAIN Windows[content] : content \in Contents}
Rows == UNION {[hashes -> Places] : hashes \in SUBSET Hashes}

Phases == {"idle", "collect", "embed"}

Run ==
    [phase : Phases,
     model : Models \cup {NoModel},
     unread : SUBSET Files,      \* files still to read
     pending : Rows,             \* by_hash, then the keyed list pending
     new_chunks : SUBSET Hashes] \* still to embed

Active(r) == run[r].phase # "idle"

NoRows == [hash \in {} |-> <<>>]

Idle == [phase |-> "idle", model |-> NoModel, unread |-> {},
         pending |-> NoRows, new_chunks |-> {}]

Init ==
    /\ corpus \in [Files -> Contents \cup {NoFile}]
    /\ table = NoRows
    /\ run = [r \in Runs |-> Idle]

\* The files an rglob lists.
Listed == {file \in Files : corpus[file] # NoFile}

Start(r, model) ==
    /\ ~Active(r)
    /\ run' = [run EXCEPT ![r] =
                [phase |-> "collect", model |-> model, unread |-> Listed,
                 pending |-> NoRows, new_chunks |-> {}]]
    /\ UNCHANGED <<corpus, table>>

Positions(content, text) == {i \in DOMAIN Windows[content] : Windows[content][i] = text}

First(positions) == CHOOSE i \in positions : \A j \in positions : i <= j

HashesOf(content, model) ==
    {<<model, Windows[content][i]>> : i \in DOMAIN Windows[content]}

\* Mutant: a later file takes a chunk over.
Overwritten(pending, file, content, model) ==
    [hash \in DOMAIN pending \cup HashesOf(content, model) |->
        IF hash \in HashesOf(content, model)
        THEN <<file, First(Positions(content, hash[2]))>>
        ELSE pending[hash]]

\* Mutant: the hash forgets the embedding model of the run.
AnyModel(pending, file, content, model) ==
    LET fixed == CHOOSE any \in Models : TRUE
    IN  [hash \in DOMAIN pending \cup HashesOf(content, fixed) |->
            IF hash \in DOMAIN pending THEN pending[hash]
            ELSE <<file, First(Positions(content, hash[2]))>>]

\* setdefault for each chunk of a page: the first place of a text stays.
Merged(pending, file, content, model) ==
    [hash \in DOMAIN pending \cup HashesOf(content, model) |->
        IF hash \in DOMAIN pending THEN pending[hash]
        ELSE <<file, First(Positions(content, hash[2]))>>]

\* The next file in sorted order; one deleted since it was listed raises (see Stop).
ReadPage(r) ==
    \E file \in run[r].unread :
        /\ run[r].phase = "collect"
        /\ \A other \in run[r].unread : file <= other
        /\ corpus[file] # NoFile
        /\ run' = [run EXCEPT ![r].unread = @ \ {file},
                              ![r].pending = Merged(@, file, corpus[file], run[r].model)]
        /\ UNCHANGED <<corpus, table>>

NewChunks(r) == DOMAIN run[r].pending \ DOMAIN table

ReadExisting(r) ==
    /\ run[r].phase = "collect"
    /\ run[r].unread = {}
    /\ run' = [run EXCEPT ![r].phase = "embed", ![r].new_chunks = NewChunks(r)]
    /\ UNCHANGED <<corpus, table>>

Upserted(rows, batch) ==
    [hash \in DOMAIN table \cup batch |->
        IF hash \in batch THEN rows[hash] ELSE table[hash]]

\* What the next batch may hold, the order of the dictionary being left open.
Batches(hashes) ==
    {batch \in SUBSET hashes :
        Cardinality(batch) = IF Cardinality(hashes) < EMBED_BATCH_SIZE
                             THEN Cardinality(hashes) ELSE EMBED_BATCH_SIZE}

Left(hashes, batch) == hashes \ batch

Upsert(r, batch) ==
    /\ run[r].phase = "embed"
    /\ run[r].new_chunks # {}
    /\ batch \in Batches(run[r].new_chunks)
    /\ table' = Upserted(run[r].pending, batch)
    /\ run' = [run EXCEPT ![r].new_chunks = Left(@, batch)]
    /\ UNCHANGED corpus

Kept(pending) == [hash \in DOMAIN table \cap DOMAIN pending |-> table[hash]]

\* Mutant: the prune before the last batches.
PruneEarly(r) == run[r].phase = "embed"

Embedded(r) == run[r].phase = "embed" /\ run[r].new_chunks = {}

\* Mutant: the prune of a run that collected nothing.
PruneAlways(pending) == TRUE

\* "if pending", and the check of delete_chunks_not_in.
MayPrune(pending) == DOMAIN pending # {}

Prune(r) ==
    /\ Embedded(r)
    /\ table' = IF MayPrune(run[r].pending) THEN Kept(run[r].pending) ELSE table
    /\ run' = [run EXCEPT ![r] = Idle]
    /\ UNCHANGED corpus

\* Bad JSON or theme, a failed embedding or statement, or the process dies.
Stop(r) ==
    /\ Active(r)
    /\ run' = [run EXCEPT ![r] = Idle]
    /\ UNCHANGED <<corpus, table>>

Work(r) ==
    \/ ReadPage(r)
    \/ ReadExisting(r)
    \/ \E batch \in SUBSET run[r].new_chunks : Upsert(r, batch)
    \/ Prune(r)

Ingest(r) == (\E model \in Models : Start(r, model)) \/ Work(r) \/ Stop(r)

\* A normalization, or a developer, changes a file.
Edit(file, content) ==
    /\ corpus' = [corpus EXCEPT ![file] = content]
    /\ UNCHANGED <<table, run>>

Next ==
    \/ \E r \in Runs : Ingest(r)
    \/ \E file \in Files, content \in Contents \cup {NoFile} : Edit(file, content)

\* Runs may overlap, but only with one model, and while the corpus stays.
StableStart(r, model) ==
    /\ \A other \in Runs : Active(other) => run[other].model = model
    /\ Start(r, model)

StableEdit(file, content) ==
    /\ \A r \in Runs : ~Active(r)
    /\ Edit(file, content)

StableNext ==
    \/ \E r \in Runs : (\E model \in Models : StableStart(r, model)) \/ Work(r) \/ Stop(r)
    \/ \E file \in Files, content \in Contents \cup {NoFile} : StableEdit(file, content)

Spec == Init /\ [][Next]_vars
StableSpec == Init /\ [][StableNext]_vars

-----------------------------------------------------------------------------

TypeOK ==
    /\ corpus \in [Files -> Contents \cup {NoFile}]
    /\ table \in Rows
    /\ run \in [Runs -> Run]

\* The hashes of all chunks of the corpus, and where each stands first.
CorpusHashes(model) == UNION {HashesOf(corpus[file], model) : file \in Listed}

FirstIn(files, hash, place) ==
    LET Holds(file) == files[file] # NoFile /\ Positions(files[file], hash[2]) # {}
    IN  /\ Holds(place[1])
        /\ place[2] = First(Positions(files[place[1]], hash[2]))
        /\ \A other \in Files : Holds(other) => place[1] <= other

FirstPlace(hash, place) == FirstIn(corpus, hash, place)

\* Each run that reaches its end, also one after interrupted runs or next to runs of
\* the same corpus and model, leaves the table with the chunks of the corpus and no
\* other, unless the corpus has none (ingest's docstring: new chunks in, stale out).
MirrorsTheCorpus ==
    [][\A r \in Runs :
          Prune(r) /\ CorpusHashes(run[r].model) # {}
              => DOMAIN table' = CorpusHashes(run[r].model)]_vars

\* No step empties the table (delete_chunks_not_in: "a full wipe never happens
\* implicitly"), although prunes run next to upserts of other processes.
NeverWiped == [][table # NoRows => table' # NoRows]_vars

\* Of a text that stands in several places the row names the first, in the sorted
\* order of files, so that a fresh ingestion cites the same page every time.
NewRowsArePlaced ==
    [][\A r \in Runs : \A batch \in SUBSET run[r].new_chunks :
          Upsert(r, batch) => \A hash \in batch : FirstPlace(hash, table'[hash])]_vars

\* The plan of the repository: after pruning, the table is an exact mirror of the
\* corpus, the place of each chunk included.
MirrorsPlaces ==
    [][\A r \in Runs :
          Prune(r) => \A hash \in DOMAIN table' : FirstPlace(hash, table'[hash])]_vars

\* What runs have in common while the corpus and the model stay, for the proofs.
RunInv(r) ==
    /\ run[r].model \in Models
    /\ DOMAIN run[r].pending \subseteq CorpusHashes(run[r].model)
    /\ \A file \in Listed \ run[r].unread :
          HashesOf(corpus[file], run[r].model) \subseteq DOMAIN run[r].pending
    /\ run[r].phase = "embed" =>
          /\ run[r].unread = {}
          /\ run[r].new_chunks \subseteq DOMAIN run[r].pending
          /\ DOMAIN run[r].pending \ run[r].new_chunks \subseteq DOMAIN table

IInv ==
    /\ TypeOK
    /\ \A r \in Runs : Active(r) => RunInv(r)
    /\ \A r, other \in Runs :
          Active(r) /\ Active(other) => run[r].model = run[other].model

\* What is pending has its first place, and a row that another run put before this one
\* got to it is the one this run would put.
PlacesInv(r) ==
    /\ \A hash \in DOMAIN run[r].pending : FirstPlace(hash, run[r].pending[hash])
    /\ run[r].phase = "embed" =>
          \A hash \in run[r].new_chunks \cap DOMAIN table : table[hash] = run[r].pending[hash]

PInv == \A r \in Runs : Active(r) => PlacesInv(r)
=============================================================================
