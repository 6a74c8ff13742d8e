# Verification of Civica

TLA+ models of the Civica coach (`src/src/civica`), the TLC runs that check them
and the TLAPS proofs about them.  Paths below are relative to `src/src/civica`
unless they say otherwise.

## 1. Inventory

| part | code | state it keeps | operations | what makes it correct |
|---|---|---|---|---|
| Learner graph | `graph/graph.py`, `graph/nodes.py`, `graph/planner.py`, `graph/trace.py` | per conversation: planner state, checkpoint; per database: `planner_trace`, `retrieval_gaps` | one turn: `start_turn`, `planner_model`, `planner_tools`, `fallback_lesson`, `memory_writer` | the audit log numbers and covers each turn, no write without its row, a bounded loop, the halt reason tells what happened, the lesson shown is of this turn |
| Long-term memory | `memory/writer.py`, `memory/records.py`, `memory/store.py` | records by (kind, learner) and key | `put`, `put_planner`, `get`, `list_records` | the planner writes only the kinds it may, only for its learner; a listing misses nothing |
| Checkpointer | `memory/checkpointer.py` | checkpoints by thread | written after each node | a resume repeats no answered call |
| Review router | `graph/router.py` | none | `suggest_review_theme` | the weakest theme |
| Assessment | `assessment/engine.py`, `critic.py`, `replies.py` | none of its own | quiz and mock exam: retrieval, generation, retry, critique, refinement | each question belongs to its group and kind; an exam reaches the bank full or not at all; bounded model calls |
| Question bank, rejections | `assessment/store.py`, `domain/question.py` | `generated_questions`, `rejected_questions` | upsert, append | the bank row of a question is the question that was shown |
| Scoring, quiz log | `assessment/scoring.py`, `progress/quiz_log.py` | `quiz_answers` | score, `recent_mistakes` | tallies agree with the log |
| Explanation | `explanation/engine.py` | none | retrieve, explain | a lesson cites only what was retrieved |
| Retrieval, embeddings | `retrieval/content.py`, `embeddings/embedder.py` | reads `content_chunks` | similarity search by theme | material of the theme is found while ingestions go on |
| Ingestion | `ingestion/*`, `scripts/ingest_corpus.py` | `content_chunks` | chunk, embed, upsert, prune | after a run the table is the corpus; re-running is idempotent, also after an interruption |
| Corpus capture | `scripts/capture_*`, `normalize_*`, `verify_*` | files | fetch, normalize, compare | a page is never lost silently |
| Singletons | `db/pool.py`, `memory/store.py`, `memory/checkpointer.py`, `llm/client.py`, `embeddings/embedder.py` | module globals | get, make once | nobody uses a store before its tables exist; one object per process once made |
| Database access | `db/*` | tables | check out, run, return | every call returns or raises |
| Accounts | `users/*` | `users` | register, verify | one account per normalized name, entered with its secret |
| Web sessions | `ui/*` | per-browser storage | sign in, sign out, page build | a session names only who typed the account's secret in it |
| Models, style, domain types | `llm/*`, `domain/*` | none | | |

How they interact: the web app will call the learner graph (`home.py` holds a
placeholder for the coach).  The graph calls the explanation and assessment
engines from its tools, these call retrieval and the chat models.  Graph, stores
and logs share one PostgreSQL database through one pool of autocommit
connections, so each write is durable by itself and no two writes of a turn are
one transaction.  LangGraph's checkpointer writes the state of a conversation
after each node.

What is hard here: the calls of one model reply run concurrently in threads;
writes to four tables and the checkpoint are separate; a turn may be interrupted
anywhere and resumed; model replies are arbitrary within their schema;
generation retries renumber groups; ingestion runs may be interrupted or overlap,
and questions are answered meanwhile; listings read pages while records move; tabs
of a browser outlive its session.
`PROJECT.json` lists these hazards, each at its line.

## 2. Modules

Each module is written so that it can be proved about: constants with named
assumptions, one action per operation, no RECURSIVE operator.  `MC_*` modules hold
the values of the constants for TLC.

| module | models | extends or instantiates | runs | proofs |
|---|---|---|---|---|
| `LearnerGraph` | the graph, long-term memory as the graph writes it, checkpoints | | `turn`, `crash`, `threads`, `terminal` | `LearnerGraph_proofs` |
| `QuestionRequests`, `AssessmentEngine` | the contract of a request; requests from retrieval to the bank | `AssessmentEngine` instantiates `QuestionRequests` | `engine`, `engine_banked` | `AssessmentEngine_proofs` |
| `Chunker` | the loop of `chunk_section` | | through `SheetSections` | `SheetSections_proofs` |
| `SheetSections` | sections of a sheet, their ids, and their chunks | `Chunker` | `sheet` | `SheetSections_proofs` |
| `CorpusIngestion` | `ingest` | | `ingest_moved` | `CorpusIngestion_proofs` |
| `CorpusSearch` | questions next to ingestions | `CorpusIngestion` | `corpus_search` | `CorpusSearch_proofs` |
| `CorpusFiles`, `CorpusPipeline` | capture, normalization, verification; these and ingestion | `CorpusPipeline` instantiates `CorpusIngestion` | `pipeline_refresh` | `CorpusPipeline_proofs` |
| `Singletons` | the getters of the process's shared objects | | `data` | `LearnerData_proofs` |
| `MemoryStore` | puts and paged listings of the long-term store | | `data` | `LearnerData_proofs` |
| `ReviewRouter` | `suggest_review_theme` | `MemoryStore` | `data` | `LearnerData_proofs` |
| `QuizScoring` | scoring and the log of answers | | `data` | `LearnerData_proofs` |
| `LearnerData` | threads that use the last four | `Singletons`, `ReviewRouter`, `QuizScoring` | `data` | `LearnerData_proofs` |
| `Sessions` | accounts, browser sessions, pages | | `web` | `Sessions_proofs` |

Every safety property that a passing run checks, invariant, action property or
refinement, is also a theorem.  The liveness properties (`TurnEnds`, `RequestsEnd`,
`EveryCallEnds`) are only model-checked: fairness and ENABLED are out of the prover's
reach.

What is left to do, in order: an abstract specification of a turn (asked, then
answered once and recapped, or failed) that the graph implements under
`ReliableSpec`; the same for the data layer, whose getters promise one object; the
order of recent mistakes across quizzes; ingestions of two models under questions.

## 3. LearnerGraph

### State and code

| variable | code |
|---|---|
| `work[t]` | LangGraph's channels of thread `t` after the last node that returned: `PlannerState` (`nodes.py:62`) and the node that runs next |
| `saved[t]` | the checkpoint an `invoke(None)` starts from |
| `running[t]`, `invocations[t]` | whether an `invoke` of the thread executes; how many there were |
| `inflight[t]` | progress of the node that executes: a stage for each call of `planner_tools`, the lesson of `fallback_lesson`; volatile |
| `trace[t]` | the rows of `planner_trace` of the thread, in insertion order |
| `gaps[t]` | the number of rows the thread appended to `retrieval_gaps`, which name a theme and a query and neither turn nor step |
| `memory[u]` | the store's records of learner `u` by kind and key, with the step that wrote them (their order and paging are in `MemoryStore`) |

| action | code |
|---|---|
| `Submit` | an `invoke` with a message, through `route_input` |
| `StartTurn` | `start_turn`; the random turn id is the number of the invocation, which is fresh |
| `FinalMessage`, `StepLimit`, `AskTools` | the three branches of `planner_model` with the edge `_after_model` takes |
| `TraceCall`, `RunCall` | `trace_and_guard` for one call: its row, then the tool and its effects |
| `ToolsReturn` | the updates of the calls applied in the order the reply lists them, and `_after_tools` |
| `FallbackTeach`, `FallbackReply` | `fallback_lesson`: lesson (with its gap), then terminal row and reply |
| `MemoryWriter` | `memory_writer` |
| `Persist`, `Leave` | a checkpoint reaches the database in the background, at the latest when the invocation ends or raises (LangGraph's default durability) |
| `CallRaises`, `Fail` | an exception that leaves a tool, or a node; the other calls of the reply end first, updates of the node are lost, what it wrote stays |
| `Crash`, `Resume` | the process dies; `invoke(None)` goes on at the checkpoint (the README of the repository, line 93, promises it; no caller does it yet) |

The planner is a subgraph with the checkpointer of its parent; the model
flattens the two.  Runtime behaviour is LangGraph's, not this repository's, and
is marked external in `map`.  A thread has one invocation at a time.  A learner's
message after a turn that failed abandons that turn.

Abstracted: texts, prompts, message contents, lesson and quiz contents (known by
the step that made them), arguments of calls except the kind and key of
`record_outcome`.  A call's arguments may fail to validate, which is the
`error` outcome of any call.

`fallback_lesson` logs its gap before its terminal row; a fallback that is
interrupted between the two leaves a gap and no row, which no property forbids.

### Runs

All runs set `CHECK_DEADLOCK FALSE`: a conversation at rest waits for its
learner, and the model bounds the number of invocations.

| run | specification, bounds | shows |
|---|---|---|
| `turn` | `ReliableSpec`; one thread, one turn, 3 model calls, replies of up to two calls, with two lessons in one reply or in two | rows, halt reason, lesson and memory agree with what the turn did |
| `crash` | `FairSpec`; one thread, 2 invocations, 2 model calls, a reply of two calls | the inductive invariant, the log covers the turn, every write has its audit row, nothing leaks from one turn to the next, answered calls stay done, every invocation ends |
| `threads` | `ReliableSpec`; two threads of one learner, 2 turns each, symmetric | the summary that stays recaps a turn |
| `terminal` | `Spec` | **violated**: two terminal rows for one turn |

Why the bounds are enough: three model calls (the code has 6) give a first, a
middle and a last one, and the last differs; two calls in a reply give every
order of concurrent calls and a first and a last update; two invocations give a
turn before and a turn after, or a crash and a resume.  `TurnReplies` holds every tool, alone and mixed.  What does not
depend on these bounds is proved.

`QuietSummaryRecapsATurn`, `TraceNumbersTurn` and `WritesAreAnswered` are checked under
`ReliableSpec`: a crash may lose the checkpoints of a finished turn whose summary stays,
repeats rows of calls whose answers were lost, and leaves what those calls wrote.

`WritesAreAnswered` is about a reply of which one call fails or is refused after others
wrote: the answers the turn keeps must tell which of them did.  `LessonIsTheLastTaught`
is checked twice: in `turn` two lessons race, in `crash` a turn follows another or is
resumed.  That a lesson without passages logs a gap is one step of the code and no
property of its own.

### Fairness

`Fairness` is weak fairness of the steps of a turn, or of its failure, for each
thread: a node that executes returns or raises, because model calls, retrievals
and statements do (the clients have timeouts).  Nothing is assumed of learners,
of background checkpoints, of crashes, or of resumes.

### Finding

* `terminal`: `planner_model` (`nodes.py:145`) and `fallback_lesson`
  (`nodes.py:201`) insert the terminal row before their update is checkpointed.
  A crash between the two and a resume give the turn a second terminal row;
  `db/schema.sql:72` says each turn ends in one.

One more disagreement has no run: `put_planner` lets the planner choose the key, so
a learner may have several session summaries, while `memory/writer.py:4` and
`graph/planner.py:53` say one per user.

### Proofs

`LearnerGraph_proofs` proves, for every set of threads, learners, keys and
replies and every step limit, under the assumptions of `LearnerGraph` (each
thread has an owner, `SUMMARY_KEY` is a key, replies are sequences of calls,
the step limit is positive):

* `Inductive`: `Spec => []IInv`, and from it
* `TypeCorrect`, `TraceCoverage`, `WriteAudit`, `HaltSoundness`, `StepBudget`,
* `NoRework` (action property `CheckpointedCallsStayDone`).

Why the strengthening is needed: that an answered turn is covered by the log
depends on the calls that are still running having their rows (`FlightInv`), on
the step index of a call being the number of answers before it (`StateInv`
relates `tool_calls`, `results` and `last_ai` at each node), and on all of this
holding of the checkpoint too, since a crash goes back to it.  That a resume
repeats no answered call needs the checkpoint never to be ahead of the work of
the same turn, and turn ids to be fresh (`TurnInv`).  The proof has one lemma per
action; `NodeStep` gathers what the actions of one thread share, and rows are
only ever appended (`StateInvGrows`, `FlightInvGrows`, `WritesGrow`).

Under the same assumptions, crashes and resumes included, is proved `LastTaught`
(`LessonIsTheLastTaught`).  It is about answered turns, so it is not inductive: `LInv`
says of every node boundary, in memory and in the checkpoint, that the lesson is that of
the last answered call that taught, or the fallback's (`LessonInv`).  The
main lemma is `TaughtOfReply`: the teaching calls of a turn, once a reply is answered,
are the earlier ones and the reply's own, shifted, so the last of the reply is the
last of the turn.  The proof is inductive relative to `IInv`, which gives the
positions of a reply's calls.

`TurnIsNumbered` (`TraceNumbersTurn`), `SummaryRecaps` (`QuietSummaryRecapsATurn`) and
`AnsweredWrites` (`WritesAreAnswered`) are theorems of `ReliableSpec`, where every node
returns: with crashes none holds,
for the reasons given under Runs.  They follow from `ReliableInductive`, which adds
`RInv` to `IInv`.  `NumberInv` names the steps that have a row in the middle of a turn
(`Numbered`: those answered, and of the reply in flight those whose call has left
"waiting"), says that each has one row, and that no row is of a later turn; without
the last a fresh turn might find rows under its id.  `SummaryInv` is about moments when
no thread of the learner is in a turn: the last `memory_writer` of the learner's threads
wrote the summary after every planner's `record_outcome`, since a planner writes only
during a turn.  `ThreadAnswers` follows each slot of the memory through the turn: it
counts a call in flight that has written with those answered (`WrittenSoFar`), as its
answer enters the state only when the node returns, and lets a write of another
conversation replace a record at any time.

Only model-checked: the liveness property `TurnEnds`.

## 4. AssessmentEngine

`AssessmentEngine` models `assessment/engine.py`, `critic.py` and `store.py`;
`QuestionRequests` is the contract a caller relies on: a request returns
questions that fit it, all of them in the bank, or fails; a request that fails leaves
nothing in the bank, or everything it made, when its save committed and then raised.

### State and code

| variable | code |
|---|---|
| `gen[r]` | the locals of one call of `generate_quiz` or `generate_mock_exam` and of what it calls |
| `gen[r].phase`, `.entry` | what the call does next; the theme of its plan it is at |
| `gen[r].slots` | `groups` and `kinds` of the theme: what each position is to be made from |
| `gen[r].pending` | `pending` of `_refine`: the positions of the questions being made |
| `gen[r].batch` | `matched` of `_generate_batch`, by group of the call |
| `gen[r].accepted`, `.attempt` | `accepted` and `attempt` of `_refine` |
| `gen[r].collected` | `questions` of `generate_mock_exam`; of a quiz, its one theme |
| `rejected` | `rejected_questions`, as the number of rows by theme and attempt |
| `bank` | `generated_questions`, by question text |

| action | code |
|---|---|
| `Start` | the call; a quiz is a plan of one theme without scenarios |
| `Retrieve`, `NoMaterial` | `_generate_for_theme` up to its groups, or `InsufficientMaterialError` |
| `Generate` | the first call of `_generate_batch` and `_items_by_group` |
| `Retry` | its second call, for the groups the first skipped, numbered from 1 again; it fails if one is still missing |
| `Critique` | a round of `_refine`: verdicts, rejection rows, and what comes next |
| `Save` | `store.save` and the return of the quiz or exam |
| `Fail` | an exception: retrieval, model, a reply that does not parse, a wrong number of verdicts, the database, or the process dies; a save that fails may have committed |

`Item.shown` is what the code does not keep: the slot the model was shown under
the number its item names.  `Question.slot` is the slot the code gives the
question.  `QuestionsCiteWhatWasShown` says they agree.

Abstracted: `Ranked` holds the section sequences that search, interleaving and
the objective filter may yield for a theme; a draft stands for text, options and
correct index, with its text as the bank's key; prompt versions and reasons are
left out.  A save is one step: `executemany` runs in one implicit transaction.
A critic is optional in the code, so `Critics` is a constant.

### Runs

All set `CHECK_DEADLOCK FALSE`: a request that returned or failed stops.

| run | bounds | shows |
|---|---|---|
| `engine` | `MCSpec`: the steps and the fairness of `FairSpec`; a mock exam of two themes (2 questions with 1 scenario, and 1) or two quizzes of 2 and 1 questions on a third theme that share the bank, all with the critic, 2 refinements, 7 replies; for the exam's themes retrieval finds two sections, one for several groups, or none | citations, nothing saved of a request that did not make all its questions, short only after all attempts, the inductive invariant, the rejection log, the contract, and that a request returns or fails |
| `engine_banked` | one quiz, replies with one text twice | **violated**: a returned question is not in the bank |

`MCSpec` leaves out the states in which the exam and a quiz have both begun (`Apart`):
requests share the log and the bank and nothing else, and two requests meet there in
the quizzes.

Why the bounds are enough: two themes give a theme before and one after, where a
stale attempt or an early save would show; two questions in a batch let a retry or a
refinement pick the second alone, whose number in the call, place in the batch and
position in the theme then differ; two refinements give a first, a middle and a last
judgment.  The replies skip a group, repeat one, name one
that does not exist and come out of order.

Fairness is weak fairness of the steps of each request that started: search,
model and database calls return or raise.  No fairness is needed of `Start`.

### Finding

* `engine_banked`: `question_id` (`domain/question.py:35`) hashes the text alone,
  and the bank's upsert overwrites the row of an id.  Two questions of one quiz
  with the same text share a row, so the first one's options, answer and sources
  are lost; `docs/project-plan-2026-07-11-A.md:730` of the repository has each
  returned question written exactly once under its content hash.

### Proofs

`AssessmentEngine_proofs` proves, for all requests, plans, corpora, replies and
numbers of refinements, under the assumptions of `AssessmentEngine` (a plan is
not empty, a quiz has one theme without scenarios, counts are positive, `None`
is neither an item nor a question, the themes of a plan are distinct and none has more
scenarios than questions, as in `EXAM_QUESTION_COUNTS`): `Inductive`, and from it
`TypeCorrect`, `Citation`, `AllOrNothing`, `NoEarlyDrop`, `Funnel` and `Refinement`.

The invariant has three parts.

`HandInv`: `PositionsInv` keeps slots, accepted questions, pending positions
and batch in step; `ShownInv` says that each item answers the slot of its pending
position, that each accepted question answers that of its own, and that a
position without a question is pending, which is what makes an early drop
impossible.  No property is inductive without these.  A retry takes its
groups from `Missing` and puts the answers back by the same list (`MergedShown`);
a refinement does so over positions (`AcceptedShown`).  Both lists come from
sets by `Ascending`, of which `AscendingLists` shows that it lists every element
and no other, by counting: the rank of an element is an injection into the
numbers up to the cardinality, hence onto them.

`FunnelInv`, for `RejectionsAreAFunnel`: the log has rows of all requests mixed, so the
property says nothing of any one of them.  Inductive is that the rejections of an
attempt a + 1 and the questions any request has in hand for that attempt (`Judging`)
are together no more than the rejections of attempt a.  A critique moves questions from
the second to the first, and those it rejects are what the next round has in hand
(`FewerFailed`, `FunnelCritique`); a retry or a failure only takes questions away.

`BankHoldsOnlyWholeRequests` says of a bank row that some request made all of its
questions and that the row is one of them; whether the request returned them is another
matter, since its save may have raised (`Whole`).

`FitInv`, for the contract: each slot has the theme of the plan's entry and the kind of
its position (scenarios last), an exam's themes before the current one are there in
full and nothing of those to come, a quiz is saved with questions on its theme.
`Refinement` (`Spec => ContractSpec`) then maps each step to one of
`QuestionRequests` or to a stutter: `Start` opens a request, `Save` returns questions
that fit the plan and puts all of them in the bank, a failure saves none or, at the
save, all (`SaveMakes`, `ContractSaved`), everything between is invisible.  That the themes of a plan differ is needed when
the questions of a finished theme are appended: they must not count for another.

Only model-checked: the liveness property `RequestsEnd`.

## 5. Chunker

`Chunker` is the loop of `chunk_section` (`ingestion/chunker.py`) over the length
of a text: one `Cut` is one pass, `chunks` the slices so far.  Characters
are left out, as the loop never looks at them; whether the text is only
whitespace is an input (`blank`).

The run `sheet` (section 11) cuts every length from 0 to 40 in windows of 8 that
overlap by 3, so lengths fall on, before and after every multiple of the stride, up
to eight windows.  `SheetSections_proofs` proves the same for every length, window size
and smaller overlap (800 and 100 in the code): `Inductive`, `Coverage` (the
windows cover the text, each beginning exactly the overlap before the end of its
predecessor) and `NoDuplicateWindow` (none lies within its predecessor).  The
invariant adds what holds at the head of the loop: a window that did not end the
text is full, and `start` is the overlap before its end.  That the loop ends
follows from the second property, since the ends of the windows grow up to the
length of the text.  `SheetsAreCovered` has both properties of every section of a
sheet, where the loop runs once after another.

Size and overlap are constants of the code's module; `SizesAssumption` says what
the loop needs of them: with an overlap as large as the window it would not end.

## 6. CorpusIngestion

`CorpusIngestion` models `ingest` and `main` of `scripts/ingest_corpus.py` with
`ingestion/repository.py`, for any number of processes.

| variable | code |
|---|---|
| `corpus` | the JSON files; a content is known by the texts of its chunks |
| `table` | `content_chunks`: hash to place (theme, page, section and index stand as file and position) |
| `run[r]` | the locals of a run: files `unread`, `pending` by hash, `new_chunks` still to embed |

| action | code |
|---|---|
| `Start` | `rglob` of the corpus directory |
| `ReadPage` | one page, its chunks merged with `setdefault` |
| `ReadExisting` | `_existing_hashes` and the filter of the pending chunks |
| `Upsert` | one batch: embedding and `upsert_chunks`, one implicit transaction |
| `Prune` | `delete_chunks_not_in`, unless nothing was collected |
| `Stop` | anything raises (a file that vanished, bad JSON, the embedding call), or the process dies; what was upserted stays |
| `Edit` | a file is written or removed by something other than the run |

`Spec` lets everything happen at any time.  `StableSpec` is how the README of
the repository has it used: files change between runs, not under one, and runs
that overlap have the same embedding model.  All properties of the table need
it.  Without it two runs that overlap with different models delete each other's
rows: each upserts, the prune of the first deletes the rows of the second and
the prune of the second, whose list is not empty, deletes the rest, so the table
is empty although the check in `delete_chunks_not_in` is there "so a full wipe
never happens implicitly" (`ingestion/repository.py:87`).

Abstracted: embeddings and similarity, hashing (the hash is the pair of model and
text, so no collisions), Unicode folding of texts, `dict` order in a batch
(any batch of the right size).

| run | bounds | shows |
|---|---|---|
| `corpus_search` | `SearchSpec`, whose ingestions are those of `StableSpec`; two runs (symmetric), two models, two files of two themes, contents that share a text, hold one twice or hold none, batches of 1, and one caller that asks (section 10) | the inductive invariant; a run that ends leaves the table with the corpus; no step empties it; a new row names the first place of its text; questions find what stays |
| `ingest_moved` | `StableSpec`; one run at a time, batches of 2 | **violated**: a row keeps the place its text had |

Why the bounds are enough: two files give a text in one, in both, or moved; two
runs give every order of upserts and prunes of two writers, and one run next to
what an interrupted one left; three chunks in batches of one give a first, a
middle and a last batch to stop at.  A run at rest may not start again, hence
`CHECK_DEADLOCK FALSE`.

Finding `ingest_moved`: a chunk whose text has a row is skipped
(`ingest_corpus.py:138`), so a text that moved to another page or section keeps
its old theme, page and section;
`docs/project-plan-2026-07-11-A.md:243` of the repository calls the pruned table
an exact mirror of the corpus.

`CorpusIngestion_proofs` proves, for every number of runs, files, contents,
models and batch size: `Inductive` (`StableSpec => []IInv`), `Mirror`, `NoWipe` and
`Placement`.  `MirrorsTheCorpus` is about one step of a run, but needs the whole
history of it: `RunInv` says that a run's pending chunks are chunks of the
corpus, that they hold those of every file it has read, and, once it embeds,
that what is pending and no longer new has a row.  The last conjunct is the one
other runs could disturb: their prunes keep exactly the pending chunks of their
own, which are the same corpus' of the same model (`PendingIsCorpus`, the last
conjunct of `IInv`).

`NewRowsArePlaced` needs more (`PInv`): files are read in their order, so a text that
is not pending yet stands in no earlier file (`ReadPlaces`); and when two runs both
have a text to embed, the second overwrites the row of the first, with the same
place, because there is only one first place (`OneFirstPlace`).

## 7. CorpusFiles and CorpusPipeline

`CorpusFiles` models the three scripts before ingestion, over files:
`capture_thematic_sheets` (`StartCapture`, `FetchPage`, `FetchFails`,
`CrossCheck`), `normalize_thematic_sheets` (`StartNormalize`, `WriteSheet`,
`SkipPage`) and `verify_corpus_coverage` (`Verify`, by itself or at the end of a
normalization), with `StopScript` for a script that dies anywhere and `Publish`
for the ministry's site, which changes at any time, with its sitemap or without.

| variable | code |
|---|---|
| `site`, `sitemap`, `published` | what each URL serves, what the sitemap lists, the number of changes (at most `MaxPublishes`) |
| `raw` | `index.html` of each path; `PathOf` is `_relative_path_for`, so several URLs may have one path |
| `corpus` | the JSON files, by theme and slug |
| `script` | the script that runs and the URLs or paths it has still to treat |
| `urls`, `fetched`, `failed`, `missing` | the locals of `capture`, and what it reports |
| `issues` | what `verify_all` returns |

A URL is kept without its query and trailing slash and with its percent-encoding
resolved (`capture_thematic_sheets.py:89`), so two URLs of the sitemap may fall on one
file, and the page fetched later wins.  `FileOf` need not be injective either: slugs fold
accents and ligatures.

A page is whether it has content blocks, its text and its links, and its headings
twice: `headings` are those normalization writes, the first of each block once captions
and credits are stripped (`normalize_thematic_sheets.py:163`); `seen` are those
verification looks for, the first of each block as captured
(`verify_corpus_coverage.py:98`).  A heading inside a caption is only in the second, and
a page that has one fails its verification for ever.  The docstring of
`verify_corpus_coverage.py` speaks of every h3 and h4; the code compares the first
heading of a block, and so does the model.  The text is what both scripts count, without
captions; the 85% is computed over its number of characters.  Otherwise the parsing of
HTML, URLs and slugs is abstracted to that and to `Kind`, `PathOf` and `FileOf`.
One script runs at a time, as the setup instructions have it, and the write of
one file is a step.

`CorpusPipeline` is `CorpusFiles` and one process of `CorpusIngestion`
(`INSTANCE`), over the same files.  `refresh` is no variable of the code: it
records how far capture, normalization and ingestion have come in this order
without a failure or a stop since the site last changed.

The run `pipeline_refresh` (`Spec`) has a theme's root, two sheets with one JSON file,
a second URL with the raw file of one of them, and a page of an unknown theme, three page
contents, one with a heading in a caption, one change of the site, and
the listing and one sheet up at first; the scripts run in any order, as often as
they like.  One change is enough for every stage to meet what an older one left:
raw HTML, JSON and rows of the page before.  It shows that

* a linked page that a capture did not get is reported, failed or missing;
* a normalization passes its own verification, page by page, except for content at a
  theme's root, sheets that share a JSON file, and headings in captions;
* after a complete refresh every chunk of every sheet that the site serves is in
  the table, whatever interrupted refreshes left, except for URLs that share a raw
  file with another page, or a JSON file with another sheet.

What it does not show, because it is not so: no script notices that two pages fall on
one file.  Nothing deletes raw HTML or JSON.  A
sheet that the ministry takes down is normalized and ingested again at every
refresh, and its rows stay; the prune of an ingestion compares with the JSON
files, not with the site.  The index URL is discovered too when a page links to
it, although `_discover_in_scope_links` (`capture_thematic_sheets.py:108`) says
it is not in scope; when the sitemap does not list the index it counts as missing.
The reverse warning, of sitemap URLs that no page links to, is left out.

### Proofs

`CorpusPipeline_proofs` proves all three for any URLs, paths, pages, themes, files,
texts, batch size and number of changes of the site: `Accounted`, `Verifies` and
`Complete`, from `Inductive` (`Spec => []PipelineInv`).
`PipelineAssumption` types the constants (each URL has a path and each sheet a file, links lead to URLs,
a text has a list of windows and a number of characters, batches are positive) and
adds nothing about the site.

`PipelineInv` is `FilesInv`, the invariant `IInv` of the ingestion, and `RefreshInv`.
`FilesInv` speaks of scripts under way: a capture has every URL of its sitemap either
still to do, got or failed, and the file of each it got is as it got it for that URL or
for another with the same file (`CaptureInv`); a normalization leaves the JSON of every sheet it has passed as the raw
page has it, provided no other captured sheet has its JSON file (`NormalizeInv`).  What an
interrupted script leaves is any mixture of versions, and `FilesInv` claims nothing of it.
`RefreshInv` carries the result of each stage to the next: while `refresh` is in a stage,
only the program of that stage runs (`AtStage`, `OneProgram`), what was captured is the
site as it is (`GotSoFar`, `SiteIsCaptured`), what was normalized is its JSON
(`SiteIsNormalized`).  That the ingestion ends with a row for each of its chunks is not
proved again: its steps are steps of `CorpusIngestion` with one process
(`StepOfIngestion`), whose corpus stands still as `OneProgram` says, and `MirrorsTheCorpus`
and its lemmas apply.

## 8. LearnerData: singletons, memory, review, scoring

`LearnerData` is one process whose threads score quizzes, put records and ask for a
theme to review.  As in the code, a call first gets the pool or the store and only
then works on it.

### State and code

| variable | code |
|---|---|
| `single` | the globals of the getters: `_pool`, `_store`, `_saver`, the cached chat clients, the embedding client |
| `tables` | whether a store's or saver's `setup()` has been complete at some time |
| `getter[c]` | where thread `c` is in a getter, and in `get_pool` below it |
| `records` | the store's rows of a namespace, each with its place in the order of updates |
| `listing[c]` | the locals of `list_records`: the offset, the records found |
| `suggestion[c]` | the locals of `suggest_review_theme` |
| `quiz_answers`, `now` | the table, and the database's clock |
| `scoring[c]` | the locals of `_score_and_log` |
| `task[c]` | which call the thread executes |

`held`, `moved`, `sure`, `there`, `call` and `nth` are the model's own: they remember
what was there when a call began, for the properties, and no guard reads them.

| module | action | code |
|---|---|---|
| `Singletons` | `Get`, `Look`, `Make`, `Setup`, `Return` | `if _x is None`, the constructor and the assignment, `setup()` on the caller's own object before the assignment, `return _x` |
| | `GetRaises` | no database, or two `setup()` at once; the global stays as it is |
| `MemoryStore` | `PutRecord` | `put_raw`: the record becomes the latest updated |
| | `StartListing`, `ReadPage` | `list_records`: a page by offset, until one is short |
| `ReviewRouter` | `Suggest`, `ReadMistakes`, `Answer` | two listings, then `max` over the exam's themes |
| `QuizScoring` | `Score`, `BeginInsert`, `Insert`, `LogRaises`, `ReturnResult` | the check of the number of answers, one insert per answer (the transaction's time is fixed before the row is committed), the tally, an exception before or after the commit |
| `LearnerData` | `Begin`, `End`, `PutAndEnd` | a call, and its return or exception |

The key of the review router is a float product of the theme's share of the exam and
what is not mastered.  Equal products of unlike themes may differ in the last bit
(8/40 * 0.75 is larger than 6/40 * 1.0), so the model lets any such group be rounded up
(`up` in `Answer`).  The docstring's "then mistakes" therefore only holds among themes
with equal count and mastery, which is what `SuggestionIsWeakest` says.

The order of `records` takes the times of updates to be distinct and monotone.
Abstracted: what a record holds beyond what the router reads; what `get_pool` and the
model clients are configured with.

### Run `data`

Two threads; two calls in a fresh process, or three in one whose pool and store are
made; pages of 2, no, two or three mistakes, up to two masteries; exam themes of which
two weigh alike and a half-known one is worth as much as a third; a quiz of two
questions on one theme whose learner is registered or not; a clock of two instants.
`MCSpec` keeps scorings apart from the calls on records, with which they share only
the pool, and lets the clock go on only between the answers of a scoring; within each
half both threads interleave freely.  That gives a short last page and one that is
empty, a put before, between and after pages, two makers of one object, and ties of
every kind.

It shows that

* nobody gets a pool, or a store without its tables (`GotIsReady`), and what a thread
  got stays once the races of the first calls are over (`SettledSingletonsStay`): two
  threads of a first reply may each make a pool, one of which is dropped (nothing in
  the code excludes it, although `memory/store.py:9` has `setup()` run once);
* a listing holds every record that nobody put meanwhile (`ListingMissesOnlyWhatMoved`).
  A record that is put while it runs may be listed twice or, new, not at all;
* a theme that is suggested is a weakest one, whatever is put while its mistakes are
  listed (`SuggestionIsWeakest`);
* the rows that a scoring leaves are a prefix of its answers, and a result that is
  returned follows from the log (`TalliesMatchTheLog`).  A scoring that failed midway
  and is tried again repeats the rows of that prefix: rows carry no quiz;
* recent mistakes of one scoring come last answer first, none missing before an older
  one (`RecentMistakesAreNewest`), although answers may share a time;
* every call ends (`EveryCallEnds`).  A listing ends because its offset grows by a page
  and the number of calls, hence of records, is bounded.

Fairness is weak fairness of each thread's steps in its call: statements and getters
return or raise.  Threads need not begin calls.  `CHECK_DEADLOCK FALSE`: when the calls
of the bound are over, nothing happens.

### Proofs

`LearnerData_proofs` proves, for every set of threads, singles, records, exam, quizzes
and every page size: `Inductive`, and from it `NobodyGetsUnready`,
`ListingsAreComplete`, `OneSingle`, `Weakness`, `ResultIsTheLog` and
`MistakesAreRecent`.

The assumptions beyond types are those pydantic and the constants of the code give: a
record of mistakes holds a theme and one of masteries a number of percent (`Recorded`,
`PutsAssumption`; `MistakeEpisode.theme`, `TopicMastery.mastery`), exam themes are
distinct and each has a question, limits are natural numbers, a learner's answers
are a sequence of right and wrong ones, of any length.

The invariant has four parts.  `SIInv` says where a call can be in a getter: whoever
assigns a store has seen its `setup()` complete and holds a pool, and a global never
becomes `None` again.  `MInv` says of each listing that a record nobody touched is in
the table with its value, and was read if its place is below the offset.  It is
inductive because a put moves untouched records only down, away from the offset
(`UpdatedKeeps`): a record can cross a page only towards the pages still to come.

`RInv` follows a suggestion through its two listings: a mistake that was there all along
is among those found, and a listing during which nobody put found nothing that was not
there.  `Weakness` then is about one step, but `Best` is chosen by an order of which it
has to be shown that it has a largest element (`BestExists`): `Larger` is total and
transitive on the themes of the exam for every rounding that treats equals alike
(`LargerOrder`), and the exam is finite.

`QInv` ties each scoring to its rows: they are numbered from 1 without a gap, each has
the answer of its number, later ones are no older (`RowsAreOrdered`, which needs the
transaction's time to be fixed before the commit and the clock never to go back), and
the tally counts them as long as nothing was raised.  A call logs into a table that
others append to, so most of the work is that a row of another call leaves all this
alone (`OthersRow`).  The total of a result is a fold over the tally's themes; that
it grows by one with each right answer (`SumOfOneMore`) holds of every subset of the
themes, because a smallest one for which it failed would not be empty and taking a theme
away would leave a smaller one (`AllSubsets`): the library's induction theorems cannot
be used here.  `RecentMistakes` places each wrong answer by the number of those newer
than it; that these ranks are the numbers up to the cardinality, so that the list has
no gap, is `Ranks`.

Only model-checked: `EveryCallEnds`.

## 9. Sessions

`Sessions` models `users/` and `ui/`: accounts, the cookie of a browser, NiceGUI's
storage of a session, the pages open in tabs, and the submit handler.

| variable | code |
|---|---|
| `users` | the table: id and secret (for its hash) of each normalized name |
| `cookie`, `storage` | the session id a browser sends; `app.storage.user` of each session |
| `disk` | the file NiceGUI keeps of each session's storage |
| `tab` | the page of each tab, the session it was requested with, the user a home page was built for, and where `ui.navigate.to` sends it |
| `handler` | the `submit()` on the event loop |
| `earned`, `kept` | the model's own: who typed whose secret in a session since its log-out; the same, as of when the file was written |

| action | code |
|---|---|
| `Visit`, `FollowGoto` | a request: `AuthMiddleware.dispatch`, then the page |
| `Submit`, `CheckCredentials`, `CreateAccount`, `CompleteSignIn`, `SubmitRaises` | the two forms: `_require_input`, `verify` or `register`, then `sign_in` and the navigation |
| `LogOut` | `log_out` |
| `Expire` | the cookie's age is over, the browser gets a fresh session; open pages keep theirs |
| `Backup` | NiceGUI's background task writes a session's storage to its file, some time after the handler that changed it |
| `Restart` | the server dies and comes back with what the files hold |
| `OtherRegisters` | another process registers a name, between this one's validation and insert too |

Handlers are synchronous, so no other handler or request of the process runs while
one does; only the database's other clients and a crash come in between.
Abstracted: the text of names and secrets to whether the rules pass them, hashing to
whether it succeeds and matches, user ids to fresh numbers.

The file of a session is taken to be written whole.

The run `web` (`Spec`) has a browser with two tabs and two sessions, two accounts,
two spellings of one name, a name that breaks the rules, secrets that are too long for
bcrypt (which raises, and which sign-in counts as wrong), missing or refused with one
of the names.  Two tabs are enough for one to be stale while the other signs in as
somebody else, and two sessions for a stale page's and a fresh one.
Tabs and sessions are symmetric; the properties do not name one.

It shows that a session names only an account that exists and whose secret was typed
in that session (`SessionsNameTheirAccount`), and the invariant of the proofs.  A log-out
ends that, unless the server dies before the file is written: then the browser
comes back signed in, as who it was, which is what the code does and all that the
property allows.
An open page keeps the user it was built for until it is requested again.  Signing in
on a page older than the cookie signs the old session in, so the browser ends at the
login page again.  There is no liveness property: users need not do anything.

`Sessions_proofs` proves both for every set of browsers, tabs, sessions, names and
secrets: `Inductive`, `SignedIn`.  Besides the property the invariant
needs the same of the files, from which a server may start again
(`FilesNameTheirAccount`), and that an accepted form holds the id and the secret of the
account it names (`Accepted`), which must survive registrations of other processes: these only add
names (`WithAccountOk`).

## 10. CorpusSearch

`CorpusSearch` adds callers of `search` (`retrieval/content.py`) and `explain`
(`explanation/engine.py`) to ingestions that overlap: `Ask` (the question goes to the
embedding service), `Search` (one statement: theme, similarity floor, the nearest K),
`Leave` (the explanation, or a failure of a remote call or of the database).
`Meanwhile` is a step of an ingestion.

Similarity is a relation: a question has its relevant texts, those above the floor in
its own model; a row of another model may seem similar to anything, since vectors of
two models do not compare.  Among what passes theme and floor any K may be the
nearest.  The recall of the approximate index is left out.  `there`, the model's own,
holds the relevant texts that had their row in the theme as the question was asked,
that the corpus holds since, and that no prune of another model has removed.

In the run `corpus_search` (bounds in section 6) a text stands in files of two themes,
so its row may belong to either, and K is 1, so that another row may take its place.
It shows `AskedMaterialIsFound`: nobody is told that there is no material when there
was and the corpus still holds it, at any step of upserts, prunes, interruptions and
restarts.  It does not say that relevant rows win over rows of another model, and they
need not.  A text that two themes share is only found under the theme of its first
file, since the table has one row per text.

`CorpusSearch_proofs` proves it for every corpus, K and number of callers
(`SearchInductive`, `MaterialIsFound`).  Questions change nothing, so every theorem
about ingestion holds next to them (`SearchIsIngestion`).  That a row keeps its theme
while runs overwrite each other's rows is `PInv` of ingestion, that a prune keeps it is
`PruneLeaves`; both meet in `RowsStay`.  `SearchAssumption` adds that texts and models
are finitely many, as rows of a table are: otherwise the nearest of infinitely many
would have no number.

## 11. SheetSections

`SheetSections` follows one sheet from its blocks to its chunks: `_objective_section`
and `_content_sections` of `normalize_thematic_sheets.py` (`ReadBlock`, with the id of
a section from its heading and the number of times that heading was seen), then
`_pending_chunks_for_page` (`BeginSection`, `CutSection`, `EndSection`), whose loop is
`Chunker`.  A block is the slug of its heading, whether it has one, and the length of
its text; parsing of HTML stays out.

The run `sheet` (`SheetSpec`) takes a single block of every length from 0 to 40, and
up to four short blocks with a heading that repeats, one spelled like a numbered id, no
heading, a heading without letters, and nothing at all, with and without an objective
card of the same heading.  It shows the two properties of `Chunker`, and
`EveryBlockHasItsPlace`: each block with something in it has its section, in order, its
windows are numbered from 0 and leave nothing out, and two chunks of content blocks have
the same section id and index only under different headings.

The exception is real: headings "x", "x", "x 2" give two sections `x-2`.  And the
property leaves the objective out, because there the code does not keep it: the
objective's id is its heading's too (`normalize_thematic_sheets.py:138`) but is not
counted among those seen (line 174), so a block with the objective's heading has its id.  Citations of such chunks name one
place; their rows are different, as the hash does not hold the place.  When the sheet
is done nothing happens, hence `CHECK_DEADLOCK FALSE`.

`SheetSections_proofs` proves `Placed` (`EveryBlockHasItsPlace`) for every sheet, window
size and smaller overlap, from `SheetInductive` (`SheetSpec => []SheetInv`).
`SectionsInv` says that the sections so far are the parts with something in them, in
order, and that of the content sections of one heading no two have one number: `seen_ids` counts
up, and each id was made with a count it has passed.  `PendingInv` says that the chunks
pending are those of the sections cut, numbered by how many of their section stand
before them, and that every section cut, but for the one in the chunker, is whole.
That the windows of a section leave out no character is drawn from the chunker's
invariant by the first window that reaches it (`EveryCharacterIsCut`).
The prover knows nothing of what strings concatenate to, so `SpellingAssumption` states
the only facts about ids that are needed, that a numbered id differs from its heading's
and from those with smaller numbers; TLC evaluates it on the strings themselves.

## 12. Not modelled

* `apply_schema` and the migration script: one statement that may be repeated.
* Prompts, language, style, profiles and the parameters of model clients: configuration
  and text.  What a model writes is any reply within its schema.
* The parsing of HTML, JSON and model replies, hashing and Unicode folding: the models
  keep the outcomes.
* The similarity of vectors and the recall of the index: numeric, in the database and in
  remote services.
* Page layout and messages.  The home page's coach is a placeholder in the code.
* Deletion of raw HTML and JSON: there is none (section 7), so no property.
