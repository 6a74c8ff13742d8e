----------------------- MODULE CorpusIngestion_proofs -----------------------
(***************************************************************************)
(* Proofs about ingestion for any corpus, any batches and any number of    *)
(* overlapping runs with one model: a run that ends leaves the table with  *)
(* the chunks of the corpus, and no step empties the table.                *)
(***************************************************************************)
EXTENDS CorpusIngestion, WellFoundedInduction, TLAPS

-----------------------------------------------------------------------------
\* Facts about rows.

LEMMA RowsDef ==
    ASSUME NEW rows
    PROVE  rows \in Rows <=> DOMAIN rows \subseteq Hashes /\ rows \in [DOMAIN rows -> Places]
<1>1. ASSUME rows \in Rows
      PROVE  DOMAIN rows \subseteq Hashes /\ rows \in [DOMAIN rows -> Places]
  <2>1. PICK hashes \in SUBSET Hashes : rows \in [hashes -> Places]
    BY <1>1 DEF Rows
  <2>2. DOMAIN rows = hashes
    BY <2>1
  <2> QED
    BY <2>1, <2>2
<1>2. ASSUME DOMAIN rows \subseteq Hashes, rows \in [DOMAIN rows -> Places]
      PROVE  rows \in Rows
  BY <1>2 DEF Rows
<1> QED
  BY <1>1, <1>2

LEMMA NoRowsIsRows == NoRows \in Rows /\ DOMAIN NoRows = {}
<1>1. DOMAIN NoRows = {}
  BY DEF NoRows
<1>2. NoRows \in [DOMAIN NoRows -> Places]
  BY DEF NoRows
<1> QED
  BY <1>1, <1>2, RowsDef

LEMMA FirstIsMember ==
    ASSUME NEW positions \in SUBSET Nat, positions # {}
    PROVE  First(positions) \in positions
<1> DEFINE smaller == {pair \in Nat \X Nat : pair[1] < pair[2]}
<1>1. OpToRel(<, Nat) = smaller
  BY DEF OpToRel
<1>2. IsWellFoundedOn(smaller, Nat)
  BY <1>1, NatLessThanWellFounded
<1>3. PICK i \in positions : \A j \in positions : ~(<<j, i>> \in smaller)
  <2> HIDE DEF smaller
  <2> QED
    BY <1>2, WFMin
<1>4. ASSUME NEW j \in positions PROVE i <= j
  <2>1. ~(<<j, i>> \in smaller)
    BY <1>3
  <2>2. i \in Nat /\ j \in Nat
    OBVIOUS
  <2>3. ~(j < i)
    BY <2>1, <2>2
  <2> QED
    BY <2>2, <2>3
<1> QED
  BY <1>4 DEF First

LEMMA HashesAreHashes ==
    ASSUME NEW content \in Contents, NEW model \in Models
    PROVE  HashesOf(content, model) \subseteq Hashes
<1>1. Windows[content] \in Seq(Texts)
  BY CorpusAssumption
<1>2. \A i \in DOMAIN Windows[content] : Windows[content][i] \in Texts
  BY <1>1
<1> QED
  BY <1>2 DEF HashesOf, Hashes

\* Merging a page adds its hashes, and makes rows of rows.
LEMMA MergedRows ==
    ASSUME NEW pending \in Rows, NEW file \in Files,
           NEW content \in Contents, NEW model \in Models
    PROVE  /\ Merged(pending, file, content, model) \in Rows
           /\ DOMAIN Merged(pending, file, content, model)
                = DOMAIN pending \cup HashesOf(content, model)
<1> DEFINE merged == Merged(pending, file, content, model)
<1>1. DOMAIN merged = DOMAIN pending \cup HashesOf(content, model)
  BY DEF Merged
<1>2. DOMAIN pending \subseteq Hashes /\ pending \in [DOMAIN pending -> Places]
  BY RowsDef
<1>3. DOMAIN merged \subseteq Hashes
  BY <1>1, <1>2, HashesAreHashes
<1>4. ASSUME NEW hash \in HashesOf(content, model)
      PROVE  <<file, First(Positions(content, hash[2]))>> \in Places
  <2>1. PICK i \in DOMAIN Windows[content] : hash = <<model, Windows[content][i]>>
    BY <1>4 DEF HashesOf
  <2>2. i \in Positions(content, hash[2])
    BY <2>1 DEF Positions
  <2>3. Windows[content] \in Seq(Texts)
    BY CorpusAssumption
  <2>4. DOMAIN Windows[content] \subseteq Nat
    BY <2>3
  <2>5. Positions(content, hash[2]) \subseteq DOMAIN Windows[content]
    BY DEF Positions
  <2>6. First(Positions(content, hash[2])) \in DOMAIN Windows[content]
    BY <2>2, <2>4, <2>5, FirstIsMember
  <2> QED
    BY <2>6 DEF Places
<1>5. merged \in [DOMAIN merged -> Places]
  <2>1. ASSUME NEW hash \in DOMAIN merged PROVE merged[hash] \in Places
    <3>1. CASE hash \in DOMAIN pending
      BY <3>1, <2>1, <1>1, <1>2 DEF Merged
    <3>2. CASE hash \notin DOMAIN pending
      BY <3>2, <2>1, <1>1, <1>4 DEF Merged
    <3> QED
      BY <3>1, <3>2
  <2> QED
    BY <2>1 DEF Merged
<1> QED
  BY <1>1, <1>3, <1>5, RowsDef

LEMMA UpsertedRows ==
    ASSUME table \in Rows, NEW rows \in Rows, NEW batch \in SUBSET DOMAIN rows
    PROVE  /\ Upserted(rows, batch) \in Rows
           /\ DOMAIN Upserted(rows, batch) = DOMAIN table \cup batch
<1> DEFINE upserted == Upserted(rows, batch)
<1>1. DOMAIN upserted = DOMAIN table \cup batch
  BY DEF Upserted
<1>2. /\ DOMAIN table \subseteq Hashes /\ table \in [DOMAIN table -> Places]
      /\ DOMAIN rows \subseteq Hashes /\ rows \in [DOMAIN rows -> Places]
  BY RowsDef
<1>3. ASSUME NEW hash \in DOMAIN upserted PROVE upserted[hash] \in Places
  BY <1>1, <1>2, <1>3 DEF Upserted
<1>4. upserted \in [DOMAIN upserted -> Places]
  BY <1>3 DEF Upserted
<1> QED
  BY <1>1, <1>2, <1>4, RowsDef

LEMMA KeptRows ==
    ASSUME table \in Rows, NEW pending
    PROVE  /\ Kept(pending) \in Rows
           /\ DOMAIN Kept(pending) = DOMAIN table \cap DOMAIN pending
<1>1. DOMAIN Kept(pending) = DOMAIN table \cap DOMAIN pending
  BY DEF Kept
<1>2. DOMAIN table \subseteq Hashes /\ table \in [DOMAIN table -> Places]
  BY RowsDef
<1>3. Kept(pending) \in [DOMAIN Kept(pending) -> Places]
  BY <1>1, <1>2 DEF Kept
<1> QED
  BY <1>1, <1>2, <1>3, RowsDef

-----------------------------------------------------------------------------
\* The invariant.

LEMMA IdleIsRun == Idle \in Run
BY NoRowsIsRows DEF Idle, Run, Phases

LEMMA InitInv == Init => IInv
<1> SUFFICES ASSUME Init PROVE IInv
  OBVIOUS
<1>1. TypeOK
  BY NoRowsIsRows, IdleIsRun DEF Init, TypeOK
<1>2. \A r \in Runs : ~Active(r)
  BY DEF Init, Active, Idle
<1> QED
  BY <1>1, <1>2 DEF IInv

LEMMA RunFacts ==
    ASSUME TypeOK, NEW r \in Runs
    PROVE  /\ run[r] \in Run
           /\ run[r].model \in Models \cup {NoModel}
           /\ run[r].unread \subseteq Files
           /\ run[r].pending \in Rows
           /\ run[r].new_chunks \subseteq Hashes
BY DEF TypeOK, Run

\* A run that did not move keeps its part, if the table keeps what it has upserted.
LEMMA OtherRuns ==
    ASSUME NEW r \in Runs, RunInv(r), run'[r] = run[r], corpus' = corpus,
           run[r].phase = "embed" =>
               DOMAIN run[r].pending \ run[r].new_chunks \subseteq DOMAIN table'
    PROVE  RunInv(r)'
BY DEF RunInv, CorpusHashes, Listed

\* A run that embeds has collected the chunks of the corpus.
LEMMA PendingIsCorpus ==
    ASSUME NEW r \in Runs, RunInv(r), run[r].phase = "embed"
    PROVE  DOMAIN run[r].pending = CorpusHashes(run[r].model)
<1>1. \A file \in Listed : HashesOf(corpus[file], run[r].model) \subseteq DOMAIN run[r].pending
  BY DEF RunInv
<1> QED
  BY <1>1 DEF RunInv, CorpusHashes

LEMMA StartInv ==
    ASSUME IInv, NEW r \in Runs, NEW model \in Models, StableStart(r, model)
    PROVE  IInv'
<1>1. /\ run' = [run EXCEPT ![r] =
                   [phase |-> "collect", model |-> model, unread |-> Listed,
                    pending |-> NoRows, new_chunks |-> {}]]
      /\ corpus' = corpus /\ table' = table
      /\ \A other \in Runs : Active(other) => run[other].model = model
  BY DEF StableStart, Start
<1>2. run \in [Runs -> Run] /\ corpus \in [Files -> Contents \cup {NoFile}]
  BY DEF IInv, TypeOK
<1>3. /\ run'[r] = [phase |-> "collect", model |-> model, unread |-> Listed,
                    pending |-> NoRows, new_chunks |-> {}]
      /\ \A other \in Runs \ {r} : run'[other] = run[other]
  BY <1>1, <1>2
<1>4. run'[r] \in Run
  BY <1>3, NoRowsIsRows DEF Run, Phases, Listed
<1>5. TypeOK'
  BY <1>1, <1>2, <1>4 DEF IInv, TypeOK
<1>6. RunInv(r)'
  BY <1>1, <1>3, NoRowsIsRows DEF RunInv, CorpusHashes, Listed
<1>7. ASSUME NEW other \in Runs \ {r}, Active(other)' PROVE RunInv(other)' /\ Active(other)
  <2>1. run'[other] = run[other] /\ Active(other)
    BY <1>3, <1>7 DEF Active
  <2>2. RunInv(other)
    BY <2>1 DEF IInv
  <2>3. run[other].phase = "embed" =>
            DOMAIN run[other].pending \ run[other].new_chunks \subseteq DOMAIN table'
    BY <1>1, <2>2 DEF RunInv
  <2> QED
    BY <1>1, <2>1, <2>2, <2>3, OtherRuns
<1>8. ASSUME NEW other \in Runs, Active(other)' PROVE run'[other].model = model
  <2>1. CASE other = r
    BY <2>1, <1>3
  <2>2. CASE other # r
    BY <2>2, <1>1, <1>3, <1>7, <1>8
  <2> QED
    BY <2>1, <2>2
<1> QED
  BY <1>5, <1>6, <1>7, <1>8 DEF IInv

\* A step of r that leaves the corpus and the models keeps the invariant, if it
\* keeps r's part and the rows the other runs rely on.
LEMMA StepInv ==
    ASSUME IInv, NEW r \in Runs, corpus' = corpus, table' \in Rows,
           NEW next \in Run, run' = [run EXCEPT ![r] = next],
           \/ next = Idle
           \/ next.model = run[r].model /\ Active(r) /\ RunInv(r)',
           \A other \in Runs \ {r} : Active(other) =>
               (run[other].phase = "embed" =>
                    DOMAIN run[other].pending \ run[other].new_chunks \subseteq DOMAIN table')
    PROVE  IInv'
<1>1. run \in [Runs -> Run] /\ corpus \in [Files -> Contents \cup {NoFile}]
  BY DEF IInv, TypeOK
<1>2. run'[r] = next /\ \A other \in Runs \ {r} : run'[other] = run[other]
  BY <1>1
<1>3. TypeOK'
  BY <1>1 DEF TypeOK
<1>4. ASSUME NEW other \in Runs, Active(other)' PROVE RunInv(other)'
  <2>1. CASE other = r
    BY <2>1, <1>2, <1>4 DEF Active, Idle
  <2>2. CASE other # r
    <3>1. run'[other] = run[other] /\ Active(other)
      BY <2>2, <1>2, <1>4 DEF Active
    <3>2. RunInv(other)
      BY <3>1 DEF IInv
    <3> QED
      BY <2>2, <3>1, <3>2, OtherRuns
  <2> QED
    BY <2>1, <2>2
<1>5. ASSUME NEW other \in Runs, Active(other)'
      PROVE  Active(other) /\ run'[other].model = run[other].model
  BY <1>2, <1>5 DEF Active, Idle
<1>6. \A q, other \in Runs :
          Active(q)' /\ Active(other)' => run'[q].model = run'[other].model
  BY <1>5 DEF IInv
<1> QED
  BY <1>3, <1>4, <1>6 DEF IInv

\* The rows others rely on stay when the table does.
LEMMA SameTable ==
    ASSUME IInv, NEW other \in Runs, Active(other), table' = table
    PROVE  run[other].phase = "embed" =>
               DOMAIN run[other].pending \ run[other].new_chunks \subseteq DOMAIN table'
BY DEF IInv, RunInv

LEMMA ReadPageInv ==
    ASSUME IInv, NEW r \in Runs, ReadPage(r)
    PROVE  IInv'
<1>1. PICK file \in run[r].unread :
        /\ run[r].phase = "collect"
        /\ corpus[file] # NoFile
        /\ run' = [run EXCEPT ![r].unread = @ \ {file},
                              ![r].pending = Merged(@, file, corpus[file], run[r].model)]
        /\ corpus' = corpus /\ table' = table
  BY DEF ReadPage
<1> DEFINE model == run[r].model
           merged == Merged(run[r].pending, file, corpus[file], model)
           next == [run[r] EXCEPT !.unread = @ \ {file}, !.pending = merged]
<1>2. run \in [Runs -> Run] /\ corpus \in [Files -> Contents \cup {NoFile}] /\ table \in Rows
  BY DEF IInv, TypeOK
<1>3. run[r] \in Run /\ run[r].pending \in Rows /\ file \in Files
  BY <1>2, RunFacts DEF IInv
<1>4. Active(r) /\ RunInv(r) /\ model \in Models
  BY <1>1 DEF Active, IInv, RunInv
<1>5. corpus[file] \in Contents /\ file \in Listed
  BY <1>1, <1>2, <1>3 DEF Listed
<1>6. merged \in Rows /\ DOMAIN merged = DOMAIN run[r].pending \cup HashesOf(corpus[file], model)
  <2>1. model \in Models /\ run[r].pending \in Rows /\ file \in Files /\ corpus[file] \in Contents
    BY <1>3, <1>4, <1>5
  <2>2. merged \in Rows
    BY <2>1, MergedRows
  <2>3. DOMAIN merged = DOMAIN run[r].pending \cup HashesOf(corpus[file], model)
    BY DEF Merged
  <2> QED
    BY <2>2, <2>3
<1>7. next \in Run
  BY <1>3, <1>6 DEF Run
<1>8. run' = [run EXCEPT ![r] = next]
  BY <1>1, <1>2, <1>3 DEF Run
<1>9. /\ run'[r].model = model /\ run'[r].phase = "collect"
      /\ run'[r].unread = run[r].unread \ {file} /\ run'[r].pending = merged
  BY <1>1, <1>2, <1>3, <1>8 DEF Run
<1>10. RunInv(r)'
  <2>1. DOMAIN merged \subseteq CorpusHashes(model)
    BY <1>4, <1>5, <1>6 DEF RunInv, CorpusHashes
  <2>2. ASSUME NEW other \in Listed \ (run[r].unread \ {file})
        PROVE  HashesOf(corpus[other], model) \subseteq DOMAIN merged
    <3>1. CASE other = file
      BY <3>1, <1>6
    <3>2. CASE other # file
      BY <3>2, <2>2, <1>4, <1>6 DEF RunInv
    <3> QED
      BY <3>1, <3>2
  <2> QED
    BY <2>1, <2>2, <1>1, <1>4, <1>9 DEF RunInv, CorpusHashes, Listed
<1>11. next.model = run[r].model
  BY <1>3 DEF Run
<1> HIDE DEF next
<1> QED
  BY <1>1, <1>2, <1>4, <1>7, <1>8, <1>10, <1>11, SameTable, StepInv

LEMMA ReadExistingInv ==
    ASSUME IInv, NEW r \in Runs, ReadExisting(r)
    PROVE  IInv'
<1> DEFINE new == DOMAIN run[r].pending \ DOMAIN table
           next == [run[r] EXCEPT !.phase = "embed", !.new_chunks = new]
<1>1. /\ run[r].phase = "collect" /\ run[r].unread = {}
      /\ run' = [run EXCEPT ![r].phase = "embed", ![r].new_chunks = new]
      /\ corpus' = corpus /\ table' = table
  BY DEF ReadExisting, NewChunks
<1>2. run \in [Runs -> Run] /\ table \in Rows
  BY DEF IInv, TypeOK
<1>3. run[r] \in Run /\ run[r].pending \in Rows
  BY <1>2, RunFacts DEF IInv
<1>4. Active(r) /\ RunInv(r)
  BY <1>1 DEF Active, IInv
<1>5. next \in Run
  BY <1>3, RowsDef DEF Run, Phases
<1>6. run' = [run EXCEPT ![r] = next]
  BY <1>1, <1>2, <1>3 DEF Run
<1>7. /\ run'[r].model = run[r].model /\ run'[r].unread = {}
      /\ run'[r].pending = run[r].pending /\ run'[r].new_chunks = new
  BY <1>1, <1>2, <1>3, <1>6 DEF Run
<1>8. RunInv(r)'
  BY <1>1, <1>4, <1>7 DEF RunInv, CorpusHashes, Listed
<1>9. next.model = run[r].model
  BY <1>3 DEF Run
<1> HIDE DEF next
<1> QED
  BY <1>1, <1>2, <1>4, <1>5, <1>6, <1>8, <1>9, SameTable, StepInv

LEMMA UpsertInv ==
    ASSUME IInv, NEW r \in Runs, NEW batch \in SUBSET run[r].new_chunks, Upsert(r, batch)
    PROVE  IInv'
<1> DEFINE next == [run[r] EXCEPT !.new_chunks = @ \ batch]
<1>1. /\ run[r].phase = "embed"
      /\ run' = [run EXCEPT ![r].new_chunks = @ \ batch]
      /\ corpus' = corpus /\ table' = Upserted(run[r].pending, batch)
  BY DEF Upsert, Left
<1>2. run \in [Runs -> Run] /\ table \in Rows
  BY DEF IInv, TypeOK
<1>3. run[r] \in Run /\ run[r].pending \in Rows
  BY <1>2, RunFacts DEF IInv
<1>4. Active(r) /\ RunInv(r)
  BY <1>1 DEF Active, IInv
<1>5. batch \subseteq DOMAIN run[r].pending
  BY <1>1, <1>4 DEF RunInv
<1>6. table' \in Rows /\ DOMAIN table' = DOMAIN table \cup batch
  BY <1>1, <1>2, <1>3, <1>5, UpsertedRows
<1>7. next \in Run
  BY <1>3 DEF Run
<1>8. run' = [run EXCEPT ![r] = next]
  BY <1>1, <1>2, <1>3 DEF Run
<1>9. /\ run'[r].model = run[r].model /\ run'[r].unread = run[r].unread
      /\ run'[r].pending = run[r].pending
      /\ run'[r].new_chunks = run[r].new_chunks \ batch
  BY <1>2, <1>3, <1>8 DEF Run
<1>10. RunInv(r)'
  BY <1>1, <1>4, <1>6, <1>9 DEF RunInv, CorpusHashes, Listed
<1>11. \A other \in Runs \ {r} : Active(other) =>
           (run[other].phase = "embed" =>
                DOMAIN run[other].pending \ run[other].new_chunks \subseteq DOMAIN table')
  BY <1>6 DEF IInv, RunInv
<1>12. next.model = run[r].model
  BY <1>3 DEF Run
<1> HIDE DEF next
<1> QED
  BY <1>1, <1>4, <1>6, <1>7, <1>8, <1>10, <1>11, <1>12, StepInv

\* What a prune leaves: the chunks of the corpus, if it has any.
LEMMA PruneLeaves ==
    ASSUME IInv, NEW r \in Runs, Prune(r)
    PROVE  /\ table' \in Rows
           /\ DOMAIN run[r].pending = CorpusHashes(run[r].model)
           /\ DOMAIN table' = IF CorpusHashes(run[r].model) # {}
                              THEN CorpusHashes(run[r].model) ELSE DOMAIN table
<1>1. /\ run[r].phase = "embed" /\ run[r].new_chunks = {}
      /\ table' = IF DOMAIN run[r].pending # {} THEN Kept(run[r].pending) ELSE table
  BY DEF Prune, Embedded, MayPrune
<1>2. table \in Rows
  BY DEF IInv, TypeOK
<1>3. RunInv(r)
  BY <1>1 DEF Active, IInv
<1>4. DOMAIN run[r].pending = CorpusHashes(run[r].model)
  BY <1>1, <1>3, PendingIsCorpus
<1>5. DOMAIN run[r].pending \subseteq DOMAIN table
  BY <1>1, <1>3 DEF RunInv
<1>6. /\ Kept(run[r].pending) \in Rows
      /\ DOMAIN Kept(run[r].pending) = DOMAIN table \cap DOMAIN run[r].pending
  BY <1>2, KeptRows
<1> QED
  BY <1>1, <1>2, <1>4, <1>5, <1>6

LEMMA PruneInv ==
    ASSUME IInv, NEW r \in Runs, Prune(r)
    PROVE  IInv'
<1>1. /\ run[r].phase = "embed" /\ corpus' = corpus
      /\ run' = [run EXCEPT ![r] = Idle]
  BY DEF Prune, Embedded
<1>2. ASSUME NEW other \in Runs \ {r}, Active(other), run[other].phase = "embed"
      PROVE  DOMAIN run[other].pending \ run[other].new_chunks \subseteq DOMAIN table'
  <2>1. RunInv(other) /\ Active(r)
    BY <1>1, <1>2 DEF IInv, Active
  <2>2. run[other].model = run[r].model
    BY <1>2, <2>1 DEF IInv
  <2>3. DOMAIN run[other].pending \ run[other].new_chunks \subseteq DOMAIN table
    BY <1>2, <2>1 DEF RunInv
  <2>4. DOMAIN run[other].pending \subseteq CorpusHashes(run[r].model)
    BY <2>1, <2>2 DEF RunInv
  <2> QED
    BY <2>3, <2>4, PruneLeaves
<1> QED
  BY <1>1, <1>2, PruneLeaves, IdleIsRun, StepInv

LEMMA StopInv ==
    ASSUME IInv, NEW r \in Runs, Stop(r)
    PROVE  IInv'
<1>1. /\ corpus' = corpus /\ table' = table /\ run' = [run EXCEPT ![r] = Idle]
  BY DEF Stop
<1>2. table' \in Rows
  BY <1>1 DEF IInv, TypeOK
<1> QED
  BY <1>1, <1>2, IdleIsRun, SameTable, StepInv

LEMMA EditInv ==
    ASSUME IInv, NEW file \in Files, NEW content \in Contents \cup {NoFile},
           StableEdit(file, content)
    PROVE  IInv'
<1>1. /\ \A r \in Runs : ~Active(r)
      /\ corpus' = [corpus EXCEPT ![file] = content] /\ table' = table /\ run' = run
  BY DEF StableEdit, Edit
<1>2. TypeOK'
  BY <1>1 DEF IInv, TypeOK
<1>3. \A r \in Runs : ~Active(r)'
  BY <1>1 DEF Active
<1> QED
  BY <1>2, <1>3 DEF IInv

LEMMA StableStep ==
    ASSUME IInv, [StableNext]_vars
    PROVE  IInv'
<1>1. CASE \E r \in Runs, model \in Models : StableStart(r, model)
  BY <1>1, StartInv
<1>2. ASSUME NEW r \in Runs, Work(r) PROVE IInv'
  BY <1>2, ReadPageInv, ReadExistingInv, UpsertInv, PruneInv DEF Work
<1>3. CASE \E r \in Runs : Stop(r)
  BY <1>3, StopInv
<1>4. CASE \E file \in Files, content \in Contents \cup {NoFile} : StableEdit(file, content)
  BY <1>4, EditInv
<1>5. CASE UNCHANGED vars
  BY <1>5 DEF IInv, TypeOK, RunInv, Active, CorpusHashes, Listed, vars
<1> QED
  BY <1>1, <1>2, <1>3, <1>4, <1>5 DEF StableNext

-----------------------------------------------------------------------------
\* The theorems.

\* Runs of one model that overlap have collected chunks of the corpus only, and what
\* they no longer have to embed has a row.
THEOREM Inductive == StableSpec => []IInv
<1>1. IInv /\ [StableNext]_vars => IInv'
  BY StableStep
<1> QED
  BY InitInv, <1>1, PTL DEF StableSpec

\* A run that ends leaves the table with the chunks of the corpus and no other,
\* however many runs of the same model overlap and whatever was interrupted before.
THEOREM Mirror == StableSpec => MirrorsTheCorpus
<1> DEFINE Mirrors ==
        \A r \in Runs :
            Prune(r) /\ CorpusHashes(run[r].model) # {}
                => DOMAIN table' = CorpusHashes(run[r].model)
<1>1. IInv /\ [StableNext]_vars => [Mirrors]_vars
  BY PruneLeaves
<1> QED
  BY <1>1, Inductive, PTL DEF StableSpec, MirrorsTheCorpus

\* Runs of one model over one corpus never empty the table.
THEOREM NoWipe == StableSpec => NeverWiped
<1>1. ASSUME IInv, [StableNext]_vars, table # NoRows PROVE table' # NoRows
  <2>1. DOMAIN table # {}
    <3>1. ASSUME DOMAIN table = {} PROVE table = NoRows
      BY <3>1, RowsDef DEF NoRows, IInv, TypeOK
    <3> QED
      BY <3>1, <1>1
  <2>2. CASE \E r \in Runs : Prune(r)
    BY <1>1, <2>1, <2>2, PruneLeaves, NoRowsIsRows
  <2>3. CASE \E r \in Runs : \E batch \in SUBSET run[r].new_chunks : Upsert(r, batch)
    <3>1. PICK r \in Runs : \E batch \in SUBSET run[r].new_chunks : Upsert(r, batch)
      BY <2>3
    <3>2. PICK batch \in SUBSET run[r].new_chunks : Upsert(r, batch)
      BY <3>1
    <3>3. DOMAIN table' = DOMAIN table \cup batch
      BY <3>2 DEF Upsert, Upserted
    <3> QED
      BY <2>1, <3>3, NoRowsIsRows
  <2>4. CASE table' = table
    BY <1>1, <2>4
  <2> QED
    BY <1>1, <2>2, <2>3, <2>4
       DEF StableNext, StableStart, Start, Work, ReadPage, ReadExisting, Stop,
           StableEdit, Edit, vars
<1> QED
  BY <1>1, Inductive, PTL DEF StableSpec, NeverWiped
-----------------------------------------------------------------------------
\* Places: what runs of one model put of a text they put alike.

LEMMA OneFirstPlace ==
    ASSUME NEW hash, NEW p \in Places, NEW q \in Places,
           FirstPlace(hash, p), FirstPlace(hash, q)
    PROVE  p = q
<1>1. /\ p[1] \in Files /\ q[1] \in Files /\ p = <<p[1], p[2]>> /\ q = <<q[1], q[2]>>
  BY DEF Places
<1>2. p[1] <= q[1] /\ q[1] <= p[1]
  BY <1>1 DEF FirstPlace, FirstIn
<1>3. p[1] = q[1]
  BY <1>1, <1>2, CorpusAssumption
<1>4. p[2] = q[2]
  BY <1>3 DEF FirstPlace, FirstIn
<1> QED
  BY <1>1, <1>3, <1>4

\* Files are read in their order, so that a text not yet pending is in no earlier one.
LEMMA ReadPlaces ==
    ASSUME IInv, PInv, NEW r \in Runs, NEW file \in run[r].unread,
           run[r].phase = "collect", corpus[file] # NoFile,
           \A other \in run[r].unread : file <= other,
           NEW hash \in DOMAIN Merged(run[r].pending, file, corpus[file], run[r].model)
    PROVE  FirstPlace(hash, Merged(run[r].pending, file, corpus[file], run[r].model)[hash])
<1> DEFINE model == run[r].model
           merged == Merged(run[r].pending, file, corpus[file], model)
<1>1. Active(r) /\ RunInv(r) /\ PlacesInv(r)
  BY DEF Active, IInv, PInv
<1>2. hash \in DOMAIN run[r].pending \cup HashesOf(corpus[file], model)
  BY DEF Merged
<1>3. CASE hash \in DOMAIN run[r].pending
  BY <1>1, <1>2, <1>3 DEF Merged, PlacesInv
<1>4. CASE hash \notin DOMAIN run[r].pending
  <2>1. merged[hash] = <<file, First(Positions(corpus[file], hash[2]))>>
    BY <1>2, <1>4 DEF Merged
  <2>2. PICK i \in DOMAIN Windows[corpus[file]] : hash = <<model, Windows[corpus[file]][i]>>
    BY <1>2, <1>4 DEF HashesOf
  <2>3. Positions(corpus[file], hash[2]) # {}
    BY <2>2 DEF Positions
  <2>4. file \in Files /\ run[r].unread \subseteq Files
    BY RunFacts DEF IInv
  <2>5. ASSUME NEW other \in Files, corpus[other] # NoFile,
               Positions(corpus[other], hash[2]) # {}
        PROVE  file <= other
    <3>1. PICK j \in DOMAIN Windows[corpus[other]] : Windows[corpus[other]][j] = hash[2]
      BY <2>5 DEF Positions
    <3>2. hash \in HashesOf(corpus[other], model)
      BY <2>2, <3>1 DEF HashesOf
    <3>3. other \in Listed
      BY <2>5 DEF Listed
    <3>4. other \in run[r].unread
      BY <1>1, <1>4, <3>2, <3>3 DEF RunInv
    <3> QED
      BY <3>4
  <2> QED
    BY <2>1, <2>3, <2>4, <2>5 DEF FirstPlace, FirstIn
<1> QED
  BY <1>3, <1>4

LEMMA ReadPagePlaces ==
    ASSUME IInv, PInv, NEW r \in Runs, ReadPage(r)
    PROVE  PInv'
<1>1. PICK file \in run[r].unread :
        /\ run[r].phase = "collect"
        /\ \A other \in run[r].unread : file <= other
        /\ corpus[file] # NoFile
        /\ run' = [run EXCEPT ![r].unread = @ \ {file},
                              ![r].pending = Merged(@, file, corpus[file], run[r].model)]
        /\ corpus' = corpus /\ table' = table
  BY DEF ReadPage
<1>2. run \in [Runs -> Run] /\ run[r] \in Run
  BY DEF IInv, TypeOK
<1>3. /\ run'[r].phase = "collect"
      /\ run'[r].pending = Merged(run[r].pending, file, corpus[file], run[r].model)
      /\ \A q \in Runs \ {r} : run'[q] = run[q]
  BY <1>1, <1>2 DEF Run
<1>4. PlacesInv(r)'
  <2>1. ASSUME NEW hash \in DOMAIN run'[r].pending
        PROVE  FirstPlace(hash, run'[r].pending[hash])
    BY <1>1, <1>3, <2>1, ReadPlaces
  <2>2. \A hash \in DOMAIN run'[r].pending : FirstPlace(hash, run[r].pending[hash])'
    BY <1>1, <2>1 DEF FirstPlace
  <2> QED
    BY <1>3, <2>2 DEF PlacesInv
<1>5. ASSUME NEW q \in Runs \ {r}, Active(q)' PROVE PlacesInv(q)'
  BY <1>1, <1>3, <1>5 DEF PInv, PlacesInv, Active, FirstPlace
<1> QED
  BY <1>4, <1>5 DEF PInv

LEMMA UpsertPlaces ==
    ASSUME IInv, PInv, NEW r \in Runs, NEW batch \in SUBSET run[r].new_chunks, Upsert(r, batch)
    PROVE  PInv'
<1>1. /\ run[r].phase = "embed"
      /\ run' = [run EXCEPT ![r].new_chunks = @ \ batch]
      /\ corpus' = corpus /\ table' = Upserted(run[r].pending, batch)
  BY DEF Upsert, Left
<1>2. run \in [Runs -> Run] /\ run[r] \in Run
  BY DEF IInv, TypeOK
<1>3. /\ run'[r].phase = "embed" /\ run'[r].pending = run[r].pending
      /\ run'[r].new_chunks = run[r].new_chunks \ batch
      /\ \A q \in Runs \ {r} : run'[q] = run[q]
  BY <1>1, <1>2 DEF Run
<1>4. /\ \A hash \in batch : hash \in DOMAIN table' /\ table'[hash] = run[r].pending[hash]
      /\ \A hash \in DOMAIN table' \ batch :
            hash \in DOMAIN table /\ table'[hash] = table[hash]
  BY <1>1 DEF Upserted
<1>5. Active(r) /\ RunInv(r) /\ PlacesInv(r)
  BY <1>1 DEF Active, IInv, PInv
<1>6. ASSUME NEW q \in Runs, Active(q)' PROVE PlacesInv(q)'
  <2>1. /\ Active(q) /\ run'[q].phase = run[q].phase /\ run'[q].pending = run[q].pending
        /\ run'[q].new_chunks \subseteq run[q].new_chunks
    BY <1>1, <1>3, <1>5, <1>6 DEF Active
  <2>2. PlacesInv(q) /\ RunInv(q)
    BY <2>1 DEF PInv, IInv
  <2>3. \A hash \in DOMAIN run'[q].pending : FirstPlace(hash, run[q].pending[hash])'
    BY <1>1, <2>1, <2>2 DEF PlacesInv, FirstPlace
  <2>4. ASSUME run'[q].phase = "embed",
               NEW hash \in run'[q].new_chunks, hash \in DOMAIN table'
        PROVE  table'[hash] = run'[q].pending[hash]
    <3>1. CASE hash \notin batch
      BY <1>4, <2>1, <2>2, <2>4, <3>1 DEF PlacesInv
    <3>2. CASE hash \in batch
      <4>1. hash \in DOMAIN run[r].pending /\ hash \in DOMAIN run[q].pending
        BY <1>1, <1>5, <2>1, <2>2, <2>4, <3>2 DEF RunInv
      <4>2. run[r].pending[hash] \in Places /\ run[q].pending[hash] \in Places
        BY <4>1, RunFacts, RowsDef DEF IInv
      <4>3. FirstPlace(hash, run[r].pending[hash]) /\ FirstPlace(hash, run[q].pending[hash])
        BY <1>5, <2>2, <4>1 DEF PlacesInv
      <4> QED
        BY <1>4, <2>1, <3>2, <4>2, <4>3, OneFirstPlace
    <3> QED
      BY <3>1, <3>2
  <2> QED
    BY <2>3, <2>4 DEF PlacesInv
<1> QED
  BY <1>6 DEF PInv

LEMMA PlacesStep ==
    ASSUME IInv, PInv, [StableNext]_vars
    PROVE  PInv'
<1>1. CASE \E r \in Runs, model \in Models : StableStart(r, model)
  <2>1. PICK r \in Runs, model \in Models : StableStart(r, model)
    BY <1>1
  <2>2. /\ run'[r].phase = "collect" /\ run'[r].pending = NoRows
        /\ \A q \in Runs \ {r} : run'[q] = run[q]
        /\ corpus' = corpus /\ table' = table
    BY <2>1 DEF StableStart, Start, IInv, TypeOK
  <2>3. PlacesInv(r)'
    BY <2>2, NoRowsIsRows DEF PlacesInv
  <2>4. ASSUME NEW q \in Runs \ {r}, Active(q)' PROVE PlacesInv(q)'
    BY <2>2, <2>4 DEF PInv, PlacesInv, Active, FirstPlace
  <2> QED
    BY <2>3, <2>4 DEF PInv
<1>2. CASE \E r \in Runs : ReadExisting(r)
  <2>1. PICK r \in Runs : ReadExisting(r)
    BY <1>2
  <2>2. run \in [Runs -> Run] /\ run[r] \in Run
    BY DEF IInv, TypeOK
  <2>3. /\ run[r].phase = "collect" /\ run'[r].pending = run[r].pending
        /\ run'[r].new_chunks = DOMAIN run[r].pending \ DOMAIN table
        /\ \A q \in Runs \ {r} : run'[q] = run[q]
        /\ corpus' = corpus /\ table' = table
    BY <2>1, <2>2 DEF ReadExisting, NewChunks, Run
  <2>4. PlacesInv(r)'
    BY <2>3 DEF PInv, PlacesInv, Active, FirstPlace
  <2>5. ASSUME NEW q \in Runs \ {r}, Active(q)' PROVE PlacesInv(q)'
    BY <2>3, <2>5 DEF PInv, PlacesInv, Active, FirstPlace
  <2> QED
    BY <2>4, <2>5 DEF PInv
<1>3. CASE \E r \in Runs : Prune(r) \/ Stop(r)
  <2>1. PICK r \in Runs : Prune(r) \/ Stop(r)
    BY <1>3
  <2>2. /\ run' = [run EXCEPT ![r] = Idle] /\ corpus' = corpus
        /\ table' \in {table, Kept(run[r].pending)}
    BY <2>1 DEF Prune, Stop
  <2>3. run'[r].phase = "idle" /\ \A q \in Runs \ {r} : run'[q] = run[q]
    BY <2>2 DEF IInv, TypeOK, Idle
  <2>4. \A hash \in DOMAIN table' : hash \in DOMAIN table /\ table'[hash] = table[hash]
    BY <2>2 DEF Kept
  <2>5. ASSUME NEW q \in Runs, Active(q)' PROVE PlacesInv(q)'
    <3>1. q # r /\ Active(q) /\ run'[q] = run[q]
      BY <2>3, <2>5 DEF Active
    <3> QED
      BY <2>2, <2>4, <3>1 DEF PInv, PlacesInv, FirstPlace
  <2> QED
    BY <2>5 DEF PInv
<1>4. CASE \E file \in Files, content \in Contents \cup {NoFile} : StableEdit(file, content)
  BY <1>4 DEF StableEdit, Edit, PInv, Active
<1>5. CASE UNCHANGED vars
  BY <1>5 DEF PInv, PlacesInv, Active, FirstPlace, vars
<1> QED
  BY <1>1, <1>2, <1>3, <1>4, <1>5, ReadPagePlaces, UpsertPlaces DEF StableNext, Work

LEMMA InitPlaces == Init => PInv
BY DEF Init, PInv, Active, Idle

\* A new row names the first place of its text in the order of files, whichever of the
\* overlapping runs puts it, and after whatever interruption.
THEOREM Placement == StableSpec => NewRowsArePlaced
<1> DEFINE Placed ==
        \A r \in Runs : \A batch \in SUBSET run[r].new_chunks :
            Upsert(r, batch) => \A hash \in batch : FirstPlace(hash, table'[hash])
<1>1. ASSUME IInv, PInv PROVE Placed
  <2> SUFFICES ASSUME NEW r \in Runs, NEW batch \in SUBSET run[r].new_chunks,
                      Upsert(r, batch), NEW hash \in batch
               PROVE  FirstPlace(hash, table'[hash])
    OBVIOUS
  <2>1. run[r].phase = "embed" /\ table'[hash] = run[r].pending[hash]
    BY DEF Upsert, Upserted
  <2>2. RunInv(r) /\ PlacesInv(r)
    BY <1>1, <2>1 DEF Active, IInv, PInv
  <2> QED
    BY <2>1, <2>2 DEF RunInv, PlacesInv
<1>2. IInv /\ PInv /\ [StableNext]_vars => PInv'
  BY PlacesStep
<1>3. IInv /\ PInv /\ [StableNext]_vars => [Placed]_vars
  BY <1>1
<1> QED
  BY <1>2, <1>3, InitPlaces, Inductive, PTL DEF StableSpec, NewRowsArePlaced
=============================================================================
