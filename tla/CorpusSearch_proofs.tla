------------------------- MODULE CorpusSearch_proofs -------------------------
(***************************************************************************)
(* Proofs about questions asked while ingestions of one model overlap, for *)
(* any corpus, themes, limits and number of callers: no question misses    *)
(* material that was there as it was asked and stayed in the corpus.       *)
(***************************************************************************)
EXTENDS CorpusSearch, CorpusIngestion_proofs, FiniteSetTheorems

-----------------------------------------------------------------------------
\* Questions only read: what is proved of ingestion holds next to them.

LEMMA SearchSteps == [SearchNext]_search_vars => [StableNext]_vars
BY DEF SearchNext, Meanwhile, Ask, Search, Leave, search_vars, vars

LEMMA SearchIsIngestion == SearchSpec => StableSpec
BY SearchSteps, PTL DEF SearchSpec, StableSpec, SearchInit

LEMMA Meanwhiles == SearchSpec => [](IInv /\ PInv)
<1>1. IInv /\ PInv /\ [StableNext]_vars => PInv'
  BY PlacesStep
<1> QED
  BY <1>1, InitPlaces, SearchIsIngestion, Inductive, PTL DEF StableSpec

\* A row stays as it is while the corpus holds its text and no other model prunes.
LEMMA RowsStay ==
    ASSUME IInv, PInv, StableNext, NEW t \in Texts, Stays(t),
           <<SEARCH_MODEL, t>> \in DOMAIN table
    PROVE  /\ <<SEARCH_MODEL, t>> \in DOMAIN table'
           /\ table'[<<SEARCH_MODEL, t>>] = table[<<SEARCH_MODEL, t>>]
<1> DEFINE hash == <<SEARCH_MODEL, t>>
<1>1. CASE \E r \in Runs : \E batch \in SUBSET run[r].new_chunks : Upsert(r, batch)
  <2>1. PICK r \in Runs : \E batch \in SUBSET run[r].new_chunks : Upsert(r, batch)
    BY <1>1
  <2>2. PICK batch \in SUBSET run[r].new_chunks : Upsert(r, batch)
    BY <2>1
  <2>3. run[r].phase = "embed" /\ table' = Upserted(run[r].pending, batch)
    BY <2>2 DEF Upsert
  <2>4. PlacesInv(r)
    BY <2>3 DEF Active, PInv
  <2> QED
    BY <2>3, <2>4 DEF PlacesInv, Upserted
<1>2. CASE \E r \in Runs : Prune(r)
  <2>1. PICK r \in Runs : Prune(r)
    BY <1>2
  <2>2. /\ run[r].model = SEARCH_MODEL /\ corpus' = corpus
        /\ table' = IF DOMAIN run[r].pending # {} THEN Kept(run[r].pending) ELSE table
    BY <2>1 DEF Prune, MayPrune, Stays
  <2>3. PICK file \in Files : corpus[file] # NoFile /\ Positions(corpus[file], t) # {}
    BY <2>2 DEF Stays
  <2>4. PICK i \in DOMAIN Windows[corpus[file]] : Windows[corpus[file]][i] = t
    BY <2>3 DEF Positions
  <2>5. hash \in CorpusHashes(SEARCH_MODEL)
    BY <2>3, <2>4 DEF CorpusHashes, Listed, HashesOf
  <2>6. hash \in DOMAIN run[r].pending
    BY <2>1, <2>2, <2>5, PruneLeaves
  <2> QED
    BY <2>2, <2>6 DEF Kept
<1>3. CASE table' = table
  BY <1>3
<1> QED
  BY <1>1, <1>2, <1>3
     DEF StableNext, StableStart, Start, Work, ReadPage, ReadExisting, Stop, StableEdit, Edit

-----------------------------------------------------------------------------
\* Where there is something, the nearest are not nothing.

LEMMA SomeNearest ==
    ASSUME NEW hashes, IsFiniteSet(hashes), hashes # {}
    PROVE  {} \notin Nearest(hashes)
<1>1. Cardinality(hashes) \in Nat /\ Cardinality(hashes) # 0
  BY FS_CardinalityType, FS_EmptySet
<1>2. Cardinality({}) = 0
  BY FS_EmptySet
<1> QED
  BY <1>1, <1>2, SearchAssumption DEF Nearest

LEMMA PassagesThere ==
    ASSUME IInv, NEW q \in Questions, NEW strays, NEW t \in q.relevant,
           <<SEARCH_MODEL, t>> \in InTheme(q.theme)
    PROVE  {} \notin Passages(q, strays)
<1> DEFINE found == Similar(q, strays) \cap InTheme(q.theme)
<1>1. <<SEARCH_MODEL, t>> \in found
  BY DEF Similar, InTheme
<1>2. found \subseteq Hashes
  BY RowsDef DEF IInv, TypeOK, InTheme
<1>3. IsFiniteSet(found)
  BY <1>2, FS_Subset, SearchAssumption
<1> QED
  BY <1>1, <1>3, SomeNearest DEF Passages

-----------------------------------------------------------------------------
\* The invariant.

LEMMA AskedFacts ==
    ASSUME SearchTypeOK, NEW s \in Searchers
    PROVE  /\ ask[s] \in Asking /\ ask[s].question \in Questions
           /\ ask[s].question.relevant \subseteq Texts
           /\ ask[s].there \subseteq Texts
<1>1. ask[s] \in Asking
  BY DEF SearchTypeOK
<1>2. ask[s].question \in Questions /\ ask[s].there \subseteq Texts
  BY <1>1 DEF Asking
<1> QED
  BY <1>1, <1>2, SearchAssumption

LEMMA SearchInitInv == SearchInit => SearchInv
<1> SUFFICES ASSUME SearchInit PROVE SearchInv
  OBVIOUS
<1>1. ask \in [Searchers -> Asking] /\ \A s \in Searchers : ask[s].phase = "idle"
  BY DEF SearchInit, Asking
<1>2. TypeOK
  BY InitInv DEF SearchInit, IInv
<1> QED
  BY <1>1, <1>2 DEF SearchInv, SearchTypeOK, AskedMaterialIsFound, ThereInv

\* A step of one caller needs to keep only that caller's part.
LEMMA AskStep ==
    ASSUME SearchInv, NEW s \in Searchers, NEW next \in Asking,
           ask' = [ask EXCEPT ![s] = next], UNCHANGED <<corpus, table, run>>,
           next.phase = "insufficient" => next.there = {},
           next.phase = "embedding" =>
               \A t \in next.there :
                   t \in next.question.relevant
                   /\ <<SEARCH_MODEL, t>> \in InTheme(next.question.theme)
    PROVE  SearchInv'
<1>1. ask \in [Searchers -> Asking] /\ TypeOK
  BY DEF SearchInv, SearchTypeOK
<1>2. ask'[s] = next /\ \A other \in Searchers \ {s} : ask'[other] = ask[other]
  BY <1>1
<1>3. SearchTypeOK'
  BY <1>1 DEF SearchTypeOK, TypeOK
<1>4. AskedMaterialIsFound'
  BY <1>2 DEF SearchInv, AskedMaterialIsFound
<1>5. ASSUME NEW other \in Searchers PROVE ThereInv(other)'
  <2>1. CASE other = s
    BY <1>2, <2>1 DEF ThereInv, InTheme
  <2>2. CASE other # s
    BY <1>2, <2>2 DEF SearchInv, ThereInv, InTheme
  <2> QED
    BY <2>1, <2>2
<1> QED
  BY <1>3, <1>4, <1>5 DEF SearchInv

LEMMA AskInv ==
    ASSUME SearchInv, NEW s \in Searchers, NEW q \in Questions, Ask(s, q)
    PROVE  SearchInv'
<1> DEFINE there == {t \in q.relevant : <<SEARCH_MODEL, t>> \in InTheme(q.theme)}
           next == [phase |-> "embedding", question |-> q, passages |-> {}, there |-> there]
<1>1. ask' = [ask EXCEPT ![s] = next] /\ UNCHANGED <<corpus, table, run>>
  BY DEF Ask
<1>2. q.relevant \subseteq Texts
  BY SearchAssumption
<1>3. next \in Asking
  BY <1>2 DEF Asking
<1>4. /\ next.phase = "embedding"
      /\ \A t \in next.there :
             t \in next.question.relevant
             /\ <<SEARCH_MODEL, t>> \in InTheme(next.question.theme)
  OBVIOUS
<1> HIDE DEF next
<1> QED
  BY <1>1, <1>3, <1>4, AskStep

LEMMA SearchStepInv ==
    ASSUME SearchInv, IInv, NEW s \in Searchers, Search(s)
    PROVE  SearchInv'
<1>1. PICK strays \in SUBSET DOMAIN table : \E passages \in Passages(ask[s].question, strays) :
         ask' = [ask EXCEPT ![s] =
           IF passages = {} THEN [@ EXCEPT !.phase = "insufficient"]
           ELSE [@ EXCEPT !.phase = "generating", !.passages = passages, !.there = {}]]
  BY DEF Search
<1>2. PICK passages \in Passages(ask[s].question, strays) :
         ask' = [ask EXCEPT ![s] =
           IF passages = {} THEN [@ EXCEPT !.phase = "insufficient"]
           ELSE [@ EXCEPT !.phase = "generating", !.passages = passages, !.there = {}]]
  BY <1>1
<1>3. ask[s].phase = "embedding" /\ UNCHANGED <<corpus, table, run>> /\ ThereInv(s)
  BY DEF Search, SearchInv
<1>4. ask \in [Searchers -> Asking] /\ ask[s] \in Asking /\ ask[s].question \in Questions
  BY AskedFacts DEF SearchInv, SearchTypeOK
<1> DEFINE none == [ask[s] EXCEPT !.phase = "insufficient"]
           some == [ask[s] EXCEPT !.phase = "generating", !.passages = passages, !.there = {}]
<1>5. CASE passages = {}
  <2>1. ask' = [ask EXCEPT ![s] = none]
    BY <1>2, <1>4, <1>5
  <2>2. none \in Asking /\ none.phase = "insufficient" /\ none.there = ask[s].there
    BY <1>4 DEF Asking
  <2>3. ask[s].there = {}
    BY <1>2, <1>3, <1>4, <1>5, PassagesThere DEF ThereInv
  <2> HIDE DEF none
  <2> QED
    BY <1>3, <2>1, <2>2, <2>3, AskStep
<1>6. CASE passages # {}
  <2>1. ask' = [ask EXCEPT ![s] = some]
    BY <1>2, <1>4, <1>6
  <2>2. passages \subseteq Hashes
    <3>1. passages \subseteq DOMAIN table
      BY <1>2 DEF Passages, Nearest, InTheme
    <3> QED
      BY <3>1, RowsDef DEF IInv, TypeOK
  <2>3. some \in Asking /\ some.phase = "generating"
    BY <1>4, <2>2 DEF Asking
  <2> HIDE DEF some
  <2> QED
    BY <1>3, <2>1, <2>3, AskStep
<1> QED
  BY <1>5, <1>6

LEMMA LeaveInv ==
    ASSUME SearchInv, NEW s \in Searchers, Leave(s)
    PROVE  SearchInv'
<1> DEFINE next == [ask[s] EXCEPT !.phase = "idle", !.passages = {}, !.there = {}]
<1>1. ask \in [Searchers -> Asking] /\ ask[s] \in Asking
  BY AskedFacts DEF SearchInv, SearchTypeOK
<1>2. ask' = [ask EXCEPT ![s] = next] /\ UNCHANGED <<corpus, table, run>>
  BY <1>1 DEF Leave
<1>3. next \in Asking /\ next.phase = "idle"
  BY <1>1 DEF Asking
<1> HIDE DEF next
<1> QED
  BY <1>2, <1>3, AskStep

LEMMA MeanwhileInv ==
    ASSUME SearchInv, IInv, PInv, IInv', Meanwhile
    PROVE  SearchInv'
<1> DEFINE left(s) == [ask[s] EXCEPT !.there = {t \in @ : Stays(t)}]
<1>1. /\ StableNext
      /\ ask' = [s \in Searchers |-> IF ask[s].phase = "embedding" THEN left(s) ELSE ask[s]]
  BY DEF Meanwhile
<1>2. ASSUME NEW s \in Searchers
      PROVE  /\ ask'[s] \in Asking /\ ask'[s].phase = ask[s].phase
             /\ ask'[s].question = ask[s].question
             /\ ask[s].phase # "embedding" => ask'[s] = ask[s]
             /\ ask[s].phase = "embedding" =>
                    ask'[s].there = {t \in ask[s].there : Stays(t)}
  <2>1. ask[s] \in Asking
    BY AskedFacts DEF SearchInv
  <2>2. CASE ask[s].phase = "embedding"
    <3>1. ask'[s] = left(s)
      BY <1>1, <2>2
    <3> QED
      BY <2>1, <2>2, <3>1 DEF Asking
  <2>3. CASE ask[s].phase # "embedding"
    BY <1>1, <2>1, <2>3
  <2> QED
    BY <2>2, <2>3
<1>3. SearchTypeOK'
  <2>1. ask' \in [Searchers -> Asking]
    BY <1>1, <1>2
  <2> QED
    BY <2>1 DEF SearchTypeOK, IInv
<1>4. AskedMaterialIsFound'
  BY <1>2 DEF SearchInv, AskedMaterialIsFound
<1>5. ASSUME NEW s \in Searchers, ask'[s].phase = "embedding", NEW t \in ask'[s].there
      PROVE  /\ t \in ask'[s].question.relevant
             /\ (<<SEARCH_MODEL, t>> \in InTheme(ask[s].question.theme))'
  <2>1. /\ ask[s].phase = "embedding" /\ ask'[s].question = ask[s].question
        /\ t \in ask[s].there /\ Stays(t)
    BY <1>2, <1>5
  <2>2. /\ t \in ask[s].question.relevant
        /\ <<SEARCH_MODEL, t>> \in InTheme(ask[s].question.theme) /\ t \in Texts
    BY <2>1, AskedFacts DEF SearchInv, ThereInv
  <2>3. /\ <<SEARCH_MODEL, t>> \in DOMAIN table'
        /\ table'[<<SEARCH_MODEL, t>>] = table[<<SEARCH_MODEL, t>>]
    BY <1>1, <2>1, <2>2, RowsStay DEF InTheme
  <2> QED
    BY <2>1, <2>2, <2>3 DEF InTheme
<1> QED
  BY <1>3, <1>4, <1>5 DEF SearchInv, ThereInv

-----------------------------------------------------------------------------
\* The theorems.

THEOREM SearchInductive == SearchSpec => []SearchInv
<1>1. ASSUME SearchInv, IInv, PInv, IInv', SearchNext PROVE SearchInv'
  BY <1>1, AskInv, SearchStepInv, LeaveInv, MeanwhileInv DEF SearchNext
<1>2. ASSUME SearchInv, UNCHANGED search_vars PROVE SearchInv'
  BY <1>2 DEF SearchInv, SearchTypeOK, TypeOK, AskedMaterialIsFound, ThereInv, InTheme,
              search_vars
<1>3. SearchInv /\ IInv /\ PInv /\ IInv' /\ [SearchNext]_search_vars => SearchInv'
  BY <1>1, <1>2
<1> QED
  BY <1>3, SearchInitInv, Meanwhiles, PTL DEF SearchSpec

\* No question is told that there is no material when its theme had some as it was
\* asked and the corpus still holds it, whatever ingestions upsert and prune meanwhile.
THEOREM MaterialIsFound == SearchSpec => []AskedMaterialIsFound
<1>1. SearchInv => AskedMaterialIsFound
  BY DEF SearchInv
<1> QED
  BY <1>1, SearchInductive, PTL
=============================================================================
