---------------------------- MODULE CorpusSearch ----------------------------
(***************************************************************************)
(* Questions answered from content_chunks (retrieval/content.py,           *)
(* explanation/engine.py) while ingestions change the table: a question is *)
(* embedded by a remote call, searched in one statement, and explained by  *)
(* another remote call, unless nothing similar enough was found.           *)
(***************************************************************************)
EXTENDS CorpusIngestion

CONSTANTS
    Searchers,     \* callers that ask
    Questions,     \* each its theme and the texts above MINIMUM_SIMILARITY
    ThemeOf,       \* the theme of a file
    K,
    SEARCH_MODEL   \* the model of DEFAULT_EMBEDDER in the asking process

ASSUME SearchAssumption ==
    /\ K \in Nat \ {0}
    /\ SEARCH_MODEL \in Models
    /\ IsFiniteSet(Hashes)
    /\ \A q \in Questions : q.theme \in {ThemeOf[file] : file \in Files} /\ q.relevant \subseteq Texts

VARIABLE ask  \* each caller's question

search_vars == <<corpus, table, run, ask>>

\* there, the model's own: relevant texts of the theme that had their row when the
\* question was asked, that the corpus has held since, and that no run of another
\* model has pruned.
Asking ==
    [phase : {"idle", "embedding", "generating", "insufficient"},
     question : Questions, passages : SUBSET Hashes, there : SUBSET Texts]

-----------------------------------------------------------------------------

SearchInit ==
    /\ Init
    /\ ask \in [Searchers -> {[phase |-> "idle", question |-> q, passages |-> {}, there |-> {}] :
                              q \in Questions}]

InTheme(theme) == {hash \in DOMAIN table : ThemeOf[table[hash][1]] = theme}

Ask(s, q) ==
    /\ ask[s].phase \in {"idle", "insufficient"}
    /\ ask' = [ask EXCEPT ![s] =
         [phase |-> "embedding", question |-> q, passages |-> {},
          there |-> {t \in q.relevant : <<SEARCH_MODEL, t>> \in InTheme(q.theme)}]]
    /\ UNCHANGED <<corpus, table, run>>

\* Vectors of two models do not compare: any row of another may seem similar.
Similar(q, strays) ==
    {hash \in DOMAIN table :
        IF hash[1] = SEARCH_MODEL THEN hash[2] \in q.relevant ELSE hash \in strays}

Nearest(hashes) ==
    {some \in SUBSET hashes :
        Cardinality(some) = IF Cardinality(hashes) < K THEN Cardinality(hashes) ELSE K}

\* Mutant: the theme filters the K nearest.
PassagesFiltered(q, strays) ==
    {some \cap InTheme(q.theme) : some \in Nearest(Similar(q, strays))}

\* WHERE the theme and the floor, then LIMIT K.
Passages(q, strays) == Nearest(Similar(q, strays) \cap InTheme(q.theme))

\* The vector arrived and the statement runs; without passages no model is asked.
Search(s) ==
    /\ ask[s].phase = "embedding"
    /\ \E strays \in SUBSET DOMAIN table : \E passages \in Passages(ask[s].question, strays) :
         ask' = [ask EXCEPT ![s] =
           IF passages = {} THEN [@ EXCEPT !.phase = "insufficient"]
           ELSE [@ EXCEPT !.phase = "generating", !.passages = passages, !.there = {}]]
    /\ UNCHANGED <<corpus, table, run>>

\* The model explains from the passages; or it, the embedding service or the database
\* fails.
Leave(s) ==
    /\ ask[s].phase \in {"embedding", "generating"}
    /\ ask' = [ask EXCEPT ![s] = [@ EXCEPT !.phase = "idle", !.passages = {}, !.there = {}]]
    /\ UNCHANGED <<corpus, table, run>>

\* What stays there when the corpus changes or a run prunes.
Stays(t) ==
    /\ \E file \in Files : corpus'[file] # NoFile /\ Positions(corpus'[file], t) # {}
    /\ \A r \in Runs : Prune(r) => run[r].model = SEARCH_MODEL

Meanwhile ==
    /\ StableNext
    /\ ask' = [s \in Searchers |->
         IF ask[s].phase = "embedding"
         THEN [ask[s] EXCEPT !.there = {t \in @ : Stays(t)}] ELSE ask[s]]

SearchNext ==
    \/ Meanwhile
    \/ \E s \in Searchers :
         (\E q \in Questions : Ask(s, q)) \/ Search(s) \/ Leave(s)

SearchSpec == SearchInit /\ [][SearchNext]_search_vars

-----------------------------------------------------------------------------

SearchTypeOK == TypeOK /\ ask \in [Searchers -> Asking]

\* Ingestions refresh the table batch by batch under the questions, stop and overlap:
\* no question is told that there is no material when material of its theme was in the
\* table as it was asked and the corpus still holds it.
AskedMaterialIsFound ==
    \A s \in Searchers : ask[s].phase = "insufficient" => ask[s].there = {}

\* The inductive invariant of the proofs: what stays there has its row in the theme.
ThereInv(s) ==
    ask[s].phase = "embedding" =>
        \A t \in ask[s].there :
            t \in ask[s].question.relevant /\ <<SEARCH_MODEL, t>> \in InTheme(ask[s].question.theme)

SearchInv ==
    /\ SearchTypeOK
    /\ AskedMaterialIsFound
    /\ \A s \in Searchers : ThereInv(s)
=============================================================================
