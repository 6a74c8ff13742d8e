------------------------ MODULE AssessmentEngine_proofs ------------------------
(***************************************************************************)
(* What holds of the assessment engine for every set of requests, every    *)
(* plan, corpus and model, and every number of refinements.                *)
(***************************************************************************)
EXTENDS AssessmentEngine, FiniteSetTheorems, SequenceTheorems, TLAPS

-----------------------------------------------------------------------------
(* Finite sets of numbers in order *)

\* The place of i in the ascending order of S.
Rank(S, i) == Cardinality({j \in S : j <= i})

\* The numbers of a finite set up to one of its elements are finitely many.
LEMMA RankType ==
    ASSUME NEW S \in SUBSET Nat, IsFiniteSet(S), NEW i \in S
    PROVE  /\ IsFiniteSet({j \in S : j <= i})
           /\ Rank(S, i) \in 1 .. Cardinality(S)
<1> DEFINE upto == {j \in S : j <= i}
<1>1. upto \in SUBSET S /\ i \in upto
  OBVIOUS
<1>2. IsFiniteSet(upto) /\ Cardinality(upto) <= Cardinality(S)
  BY <1>1, FS_Subset
<1>3. Cardinality(upto) \in Nat /\ Cardinality(S) \in Nat
  BY <1>2, FS_CardinalityType
<1>4. Cardinality(upto) # 0
  BY <1>1, <1>2, FS_EmptySet
<1> QED
  BY <1>2, <1>3, <1>4 DEF Rank

\* Distinct numbers have distinct places.
LEMMA RankDistinct ==
    ASSUME NEW S \in SUBSET Nat, IsFiniteSet(S), NEW a \in S, NEW b \in S, a < b
    PROVE  Rank(S, a) # Rank(S, b)
<1> DEFINE A == {j \in S : j <= a}
           B == {j \in S : j <= b}
<1>0. \A j \in S : (j <= a => j <= b) /\ b <= b /\ ~(b <= a)
  OBVIOUS
<1>1. A \in SUBSET B /\ b \in B /\ b \notin A
  <2>1. A \in SUBSET B
    BY <1>0
  <2> QED
    BY <1>0, <2>1
<1>2. IsFiniteSet(B)
  BY RankType
<1>3. Cardinality(B) = Cardinality(A) => B = A
  BY <1>1, <1>2, FS_Subset
<1> QED
  BY <1>1, <1>3 DEF Rank

\* Every place is some element's.
LEMMA RankOnto ==
    ASSUME NEW S \in SUBSET Nat, IsFiniteSet(S), NEW k \in 1 .. Cardinality(S)
    PROVE  \E i \in S : Rank(S, i) = k
<1> DEFINE n == Cardinality(S)
           f == [i \in S |-> Rank(S, i)]
<1>1. n \in Nat
  BY FS_CardinalityType
<1>2. f \in [S -> 1 .. n]
  BY RankType
<1>3. ASSUME NEW a \in S, NEW b \in S, a # b
      PROVE  f[a] # f[b]
  <2>1. CASE a < b
    BY <2>1, RankDistinct
  <2>2. CASE b < a
    BY <2>2, RankDistinct
  <2> QED
    BY <1>3, <2>1, <2>2
<1>4. f \in Injection(S, 1 .. n)
  BY <1>2, <1>3 DEF Injection, IsInjective
<1>5. IsFiniteSet(1 .. n) /\ Cardinality(1 .. n) = n
  BY <1>1, FS_Interval
<1>6. f \in Surjection(S, 1 .. n)
  BY <1>4, <1>5, FS_Injection
<1> QED
  BY <1>6 DEF Surjection

\* Ascending lists the elements of a finite set, each of them.
LEMMA AscendingLists ==
    ASSUME NEW S \in SUBSET Nat, IsFiniteSet(S)
    PROVE  /\ Cardinality(S) \in Nat
           /\ Ascending(S) \in [1 .. Cardinality(S) -> S]
           /\ \A i \in S : \E k \in 1 .. Cardinality(S) : Ascending(S)[k] = i
<1> DEFINE At(k) == CHOOSE i \in S : Rank(S, i) = k
<1>1. Cardinality(S) \in Nat
  BY FS_CardinalityType
<1>2. Ascending(S) = [k \in 1 .. Cardinality(S) |-> At(k)]
  BY DEF Ascending, Rank
<1>3. \A k \in 1 .. Cardinality(S) : At(k) \in S /\ Rank(S, At(k)) = k
  BY RankOnto
<1>4. ASSUME NEW i \in S
      PROVE  \E k \in 1 .. Cardinality(S) : Ascending(S)[k] = i
  <2>1. Rank(S, i) \in 1 .. Cardinality(S)
    BY RankType
  <2>2. At(Rank(S, i)) \in S /\ Rank(S, At(Rank(S, i))) = Rank(S, i)
    BY <1>3, <2>1
  <2>3. At(Rank(S, i)) = i
    BY <2>2, RankDistinct
  <2> QED
    BY <1>2, <2>1, <2>3
<1> QED
  BY <1>1, <1>2, <1>3, <1>4

\* A finite set of numbers that is not empty has a least and a greatest element.
LEMMA Extremes ==
    ASSUME NEW S \in SUBSET Nat, IsFiniteSet(S), S # {}
    PROVE  /\ \E i \in S : \A j \in S : i <= j
           /\ \E i \in S : \A j \in S : j <= i
<1>1. Cardinality(S) \in Nat /\ Cardinality(S) # 0
  BY FS_CardinalityType, FS_EmptySet
<1>2. PICK low \in S : Rank(S, low) = 1
  BY <1>1, RankOnto
<1>3. PICK high \in S : Rank(S, high) = Cardinality(S)
  BY <1>1, RankOnto
<1>4. ASSUME NEW j \in S
      PROVE  low <= j
  <2>1. PICK x : {i \in S : i <= low} = {x}
    BY <1>2, RankType, FS_Singleton DEF Rank
  <2>2. low \in {i \in S : i <= low}
    OBVIOUS
  <2>3. j < low => j \in {i \in S : i <= low}
    OBVIOUS
  <2> QED
    BY <2>1, <2>2, <2>3
<1>5. {i \in S : i <= high} = S
  BY <1>3, FS_Subset DEF Rank
<1> QED
  BY <1>4, <1>5

-----------------------------------------------------------------------------
(* Sequences *)

\* A function on the numbers up to n is a sequence of n elements.
LEMMA SequenceOf ==
    ASSUME NEW S, NEW n \in Nat, NEW f \in [1 .. n -> S]
    PROVE  f \in Seq(S) /\ Len(f) = n /\ DOMAIN f = 1 .. n
OBVIOUS

\* What a sequence has at its places are its elements.
LEMMA Element ==
    ASSUME NEW S, NEW seq \in Seq(S), NEW i \in DOMAIN seq
    PROVE  seq[i] \in S
BY LenProperties, ElementOfSeq

\* The numbers of the places of a sequence are finitely many.
LEMMA PlacesFinite ==
    ASSUME NEW S, NEW seq \in Seq(S), NEW T \in SUBSET DOMAIN seq
    PROVE  T \in SUBSET Nat /\ IsFiniteSet(T)
<1>1. DOMAIN seq = 1 .. Len(seq) /\ Len(seq) \in Nat
  OBVIOUS
<1>2. IsFiniteSet(1 .. Len(seq))
  BY <1>1, FS_Interval
<1> QED
  BY <1>1, <1>2, FS_Subset

\* A set of the numbers up to n is finite.
LEMMA PositionsFinite ==
    ASSUME NEW n \in Nat, NEW T \in SUBSET (1 .. n)
    PROVE  T \in SUBSET Nat /\ IsFiniteSet(T)
<1>1. IsFiniteSet(1 .. n)
  BY FS_Interval
<1>2. IsFiniteSet(T)
  BY <1>1, FS_Subset
<1>3. \A i \in 1 .. n : i \in Nat
  OBVIOUS
<1> QED
  BY <1>2, <1>3

-----------------------------------------------------------------------------
(* Steps on data *)

\* A progress whose parts keep in step is made of functions on its positions.
LEMMA PositionsFunctions ==
    ASSUME NEW s \in Progress, NEW n \in Nat, PositionsInv(s, n)
    PROVE  /\ Len(s.pending) \in Nat
           /\ DOMAIN s.slots = 1 .. n
           /\ DOMAIN s.accepted = 1 .. n
           /\ DOMAIN s.batch = 1 .. Len(s.pending)
           /\ DOMAIN s.pending = 1 .. Len(s.pending)
           /\ s.slots \in [1 .. n -> Slot]
           /\ s.accepted \in [1 .. n -> Question \cup {None}]
           /\ s.batch \in [1 .. Len(s.pending) -> Item \cup {None}]
           /\ s.pending \in [1 .. Len(s.pending) -> 1 .. n]
<1>1. /\ s.slots \in Seq(Slot)
      /\ s.accepted \in Seq(Question \cup {None})
      /\ s.batch \in Seq(Item \cup {None})
      /\ s.pending \in Seq(Nat)
  BY DEF Progress
<1>2. /\ s.slots \in [1 .. Len(s.slots) -> Slot]
      /\ s.accepted \in [1 .. Len(s.accepted) -> Question \cup {None}]
      /\ s.batch \in [1 .. Len(s.batch) -> Item \cup {None}]
      /\ s.pending \in [1 .. Len(s.pending) -> Nat]
      /\ Len(s.pending) \in Nat
  BY <1>1, LenProperties
<1> QED
  BY <1>2 DEF PositionsInv

\* The slots of a theme are made of the sections that were ranked for it.
LEMMA SlotsOfType ==
    ASSUME NEW entry \in Entry, NEW ranked \in Seq(Sections), ranked # <<>>
    PROVE  SlotsOf(entry, ranked) \in [1 .. entry.count -> Slot]
<1>1. entry.theme \in Themes /\ entry.count \in Nat /\ entry.scenarios \in Nat
  BY DEF Entry
<1>2. Len(ranked) \in Nat /\ Len(ranked) > 0
  BY EmptySeq
<1>3. ASSUME NEW p \in 1 .. entry.count
      PROVE  ranked[((p - 1) % Len(ranked)) + 1] \in Sections
  <2>1. (p - 1) % Len(ranked) \in 0 .. Len(ranked) - 1
    BY <1>2
  <2>2. ((p - 1) % Len(ranked)) + 1 \in 1 .. Len(ranked)
    BY <1>2, <2>1
  <2> QED
    BY <2>2, ElementOfSeq
<1> QED
  BY <1>1, <1>3 DEF SlotsOf, Slot, QuestionKind

\* Every answer is an item that was shown the slot of its group.
LEMMA AnswersShown ==
    ASSUME NEW n \in Nat, NEW prompt \in [1 .. n -> Slot], NEW reply \in Replies
    PROVE  /\ Answers(prompt, reply) \in [1 .. n -> Item \cup {None}]
           /\ \A k \in 1 .. n : Answers(prompt, reply)[k] # None =>
                 Answers(prompt, reply)[k].shown = prompt[k]
<1> DEFINE Hits(k) == {j \in DOMAIN reply : reply[j].group = k}
           First(k) == CHOOSE j \in Hits(k) : \A h \in Hits(k) : j <= h
<1>1. reply \in Seq([group : Nat \ {0}, draft : Drafts])
  BY ReplyAssumption
<1>2. ASSUME NEW k \in 1 .. n, Hits(k) # {}
      PROVE  reply[First(k)].draft \in Drafts
  <2>1. Hits(k) \in SUBSET Nat /\ IsFiniteSet(Hits(k))
    BY <1>1, PlacesFinite
  <2>2. \E j \in Hits(k) : \A h \in Hits(k) : j <= h
    BY <1>2, <2>1, Extremes
  <2>3. First(k) \in DOMAIN reply
    BY <2>2
  <2> HIDE DEF First
  <2>4. reply[First(k)] \in [group : Nat \ {0}, draft : Drafts]
    BY <1>1, <2>3, Element
  <2> QED
    BY <2>4
<1>3. Answers(prompt, reply) =
        [k \in 1 .. n |-> IF Hits(k) = {} THEN None
                          ELSE [draft |-> reply[First(k)].draft, shown |-> prompt[k]]]
  BY DEF Answers
<1> QED
  BY <1>2, <1>3 DEF Item

\* The prompt of some groups of a batch shows the slots of their positions.
LEMMA PromptShows ==
    ASSUME NEW s \in Progress, NEW n \in Nat, PositionsInv(s, n),
           NEW m \in Nat, NEW numbers \in [1 .. m -> 1 .. Len(s.pending)]
    PROVE  /\ PromptFor(s, numbers) \in [1 .. m -> Slot]
           /\ \A i \in 1 .. m : PromptFor(s, numbers)[i] = s.slots[s.pending[numbers[i]]]
<1>1. PromptFor(s, numbers) = [i \in 1 .. m |-> s.slots[s.pending[numbers[i]]]]
  BY DEF PromptFor
<1> QED
  BY <1>1, PositionsFunctions

\* The first call answers the slots of its pending positions.
LEMMA BatchShown ==
    ASSUME NEW s \in Progress, NEW n \in Nat, PositionsInv(s, n), NEW reply \in Replies
    PROVE  LET batch == Answers(PromptFor(s, [k \in DOMAIN s.pending |-> k]), reply)
           IN  /\ batch \in [1 .. Len(s.pending) -> Item \cup {None}]
               /\ \A k \in 1 .. Len(s.pending) :
                     batch[k] # None => batch[k].shown = s.slots[s.pending[k]]
<1> DEFINE m == Len(s.pending)
           all == [k \in DOMAIN s.pending |-> k]
<1>1. m \in Nat /\ all = [k \in 1 .. m |-> k]
  BY PositionsFunctions
<1>2. all \in [1 .. m -> 1 .. m]
  BY <1>1
<1>3. /\ PromptFor(s, all) \in [1 .. m -> Slot]
      /\ \A i \in 1 .. m : PromptFor(s, all)[i] = s.slots[s.pending[all[i]]]
  BY <1>1, <1>2, PromptShows
<1>4. \A i \in 1 .. m : PromptFor(s, all)[i] = s.slots[s.pending[i]]
  BY <1>1, <1>3
<1> HIDE DEF all
<1>5. /\ Answers(PromptFor(s, all), reply) \in [1 .. m -> Item \cup {None}]
      /\ \A k \in 1 .. m : Answers(PromptFor(s, all), reply)[k] # None =>
            Answers(PromptFor(s, all), reply)[k].shown = PromptFor(s, all)[k]
  BY <1>1, <1>3, AnswersShown
<1> QED
  BY <1>4, <1>5 DEF all

\* The retry puts each answer back to the group it was asked for.
LEMMA MergedShown ==
    ASSUME NEW s \in Progress, NEW n \in Nat, PositionsInv(s, n), ShownInv(s),
           NEW reply \in Replies
    PROVE  LET missing == Missing(s.batch)
               batch == Merge(s.batch, missing, Answers(PromptFor(s, missing), reply))
           IN  /\ batch \in [1 .. Len(s.pending) -> Item \cup {None}]
               /\ \A k \in 1 .. Len(s.pending) :
                     batch[k] # None => batch[k].shown = s.slots[s.pending[k]]
<1> DEFINE m == Len(s.pending)
           holes == {k \in DOMAIN s.batch : s.batch[k] = None}
           missing == Missing(s.batch)
           retried == Answers(PromptFor(s, missing), reply)
           batch == Merge(s.batch, missing, retried)
<1>1. /\ m \in Nat
      /\ DOMAIN s.batch = 1 .. m
      /\ s.batch \in [1 .. m -> Item \cup {None}]
      /\ s.batch \in Seq(Item \cup {None})
  BY PositionsFunctions DEF Progress
<1>2. holes \in SUBSET Nat /\ IsFiniteSet(holes) /\ holes \subseteq 1 .. m
  BY <1>1, PlacesFinite
<1>3. PICK c \in Nat : missing \in [1 .. c -> holes]
  BY <1>2, AscendingLists DEF Missing
<1>4. missing \in [1 .. c -> 1 .. m]
  BY <1>2, <1>3
<1> HIDE DEF missing, holes
<1>5. /\ PromptFor(s, missing) \in [1 .. c -> Slot]
      /\ \A i \in 1 .. c : PromptFor(s, missing)[i] = s.slots[s.pending[missing[i]]]
  BY <1>4, PromptShows
<1>6. /\ retried \in [1 .. c -> Item \cup {None}]
      /\ \A i \in 1 .. c : retried[i] # None => retried[i].shown = PromptFor(s, missing)[i]
  BY <1>5, AnswersShown
<1> HIDE DEF retried
<1>7. ASSUME NEW k \in 1 .. m
      PROVE  /\ batch[k] \in Item \cup {None}
             /\ batch[k] # None => batch[k].shown = s.slots[s.pending[k]]
  <2> DEFINE i == CHOOSE i \in DOMAIN missing : missing[i] = k
  <2>1. CASE \E j \in DOMAIN missing : missing[j] = k
    <3>1. i \in 1 .. c /\ missing[i] = k
      BY <1>3, <2>1
    <3>2. batch[k] = retried[i]
      BY <1>1, <2>1 DEF Merge
    <3> HIDE DEF i
    <3> QED
      BY <1>5, <1>6, <3>1, <3>2
  <2>2. CASE ~ \E j \in DOMAIN missing : missing[j] = k
    <3>1. batch[k] = s.batch[k]
      BY <1>1, <2>2 DEF Merge
    <3> QED
      BY <1>1, <3>1 DEF ShownInv
  <2> QED
    BY <2>1, <2>2
<1>8. batch = [k \in 1 .. m |-> batch[k]]
  BY <1>1 DEF Merge
<1> HIDE DEF batch
<1>9. batch \in [1 .. m -> Item \cup {None}]
  BY <1>7, <1>8
<1> QED
  BY <1>7, <1>9 DEF batch, retried, missing

\* The questions of a complete batch have the slots that were shown for them.
LEMMA QuestionsShown ==
    ASSUME NEW s \in Progress, NEW n \in Nat, PositionsInv(s, n), ShownInv(s),
           Complete(s.batch)
    PROVE  /\ Questions(s) \in [1 .. Len(s.pending) -> Question]
           /\ \A k \in 1 .. Len(s.pending) :
                 /\ Questions(s)[k].slot = s.slots[s.pending[k]]
                 /\ Questions(s)[k].shown = s.slots[s.pending[k]]
<1> DEFINE Made(k) == [slot |-> s.slots[s.pending[k]], draft |-> s.batch[k].draft,
                       shown |-> s.batch[k].shown]
<1>1. Questions(s) = [k \in 1 .. Len(s.pending) |-> Made(k)]
  BY PositionsFunctions DEF Questions
<1>2. ASSUME NEW k \in 1 .. Len(s.pending)
      PROVE  /\ s.batch[k] \in Item
             /\ s.batch[k].shown = s.slots[s.pending[k]]
             /\ s.slots[s.pending[k]] \in Slot
  BY PositionsFunctions DEF Complete, ShownInv
<1>3. ASSUME NEW k \in 1 .. Len(s.pending)
      PROVE  Made(k) \in Question
  BY <1>2 DEF Item, Question
<1> QED
  BY <1>1, <1>2, <1>3

\* What the critic accepts keeps its position and its slot; what it does not
\* accept, and was not accepted before, failed.
LEMMA AcceptedShown ==
    ASSUME NEW s \in Progress, NEW n \in Nat, PositionsInv(s, n), ShownInv(s),
           Complete(s.batch), NEW verdicts \in [DOMAIN s.pending -> BOOLEAN]
    PROVE  /\ Accept(s, verdicts) \in [1 .. n -> Question \cup {None}]
           /\ \A p \in 1 .. n : Accept(s, verdicts)[p] # None =>
                 /\ Accept(s, verdicts)[p].slot = s.slots[p]
                 /\ Accept(s, verdicts)[p].shown = s.slots[p]
           /\ \A p \in 1 .. n : Accept(s, verdicts)[p] = None =>
                 \E k \in DOMAIN verdicts : s.pending[k] = p /\ ~verdicts[k]
<1> DEFINE accepted == Accept(s, verdicts)
           Passed(p) == \E k \in DOMAIN verdicts : s.pending[k] = p /\ verdicts[k]
           At(p) == CHOOSE k \in DOMAIN verdicts : s.pending[k] = p
<1>1. /\ DOMAIN verdicts = 1 .. Len(s.pending)
      /\ DOMAIN s.accepted = 1 .. n
  BY PositionsFunctions
<1>2. accepted = [p \in 1 .. n |-> IF Passed(p) THEN Questions(s)[At(p)] ELSE s.accepted[p]]
  BY <1>1 DEF Accept
<1>3. ASSUME NEW p \in 1 .. n, Passed(p)
      PROVE  /\ accepted[p] \in Question
             /\ accepted[p].slot = s.slots[p] /\ accepted[p].shown = s.slots[p]
  <2>1. At(p) \in 1 .. Len(s.pending) /\ s.pending[At(p)] = p
    BY <1>1, <1>3
  <2>2. accepted[p] = Questions(s)[At(p)]
    BY <1>2, <1>3
  <2> HIDE DEF At
  <2> QED
    BY <2>1, <2>2, QuestionsShown
<1>4. ASSUME NEW p \in 1 .. n, ~Passed(p)
      PROVE  /\ accepted[p] \in Question \cup {None}
             /\ accepted[p] # None =>
                   accepted[p].slot = s.slots[p] /\ accepted[p].shown = s.slots[p]
             /\ accepted[p] = None =>
                   \E k \in DOMAIN verdicts : s.pending[k] = p /\ ~verdicts[k]
  <2>1. accepted[p] = s.accepted[p]
    BY <1>2, <1>4
  <2>2. s.accepted[p] \in Question \cup {None} /\ DOMAIN s.pending = DOMAIN verdicts
    BY PositionsFunctions
  <2> QED
    BY <1>1, <1>4, <2>1, <2>2 DEF ShownInv
<1> HIDE DEF accepted
<1>5. accepted = [p \in 1 .. n |-> accepted[p]]
  BY <1>2
<1>6. accepted \in [1 .. n -> Question \cup {None}]
  BY <1>3, <1>4, <1>5
<1>7. \A p \in 1 .. n : accepted[p] = None => ~Passed(p)
  BY <1>3, NoneAssumption
<1> QED
  BY <1>3, <1>4, <1>6, <1>7 DEF accepted

\* The list of accepted questions has them all, and them only.
LEMMA KeptShown ==
    ASSUME NEW n \in Nat, NEW accepted \in [1 .. n -> Question \cup {None}],
           \A p \in 1 .. n : accepted[p] # None => accepted[p].slot = accepted[p].shown
    PROVE  /\ Kept(accepted) \in Seq(Question)
           /\ \A k \in DOMAIN Kept(accepted) : Kept(accepted)[k].slot = Kept(accepted)[k].shown
           /\ (\A p \in 1 .. n : accepted[p] # None) => Len(Kept(accepted)) = n
<1> DEFINE there == {p \in DOMAIN accepted : accepted[p] # None}
           positions == Ascending(there)
<1>1. IsFiniteSet(1 .. n) /\ Cardinality(1 .. n) = n
  BY FS_Interval
<1>2. there \in SUBSET Nat /\ IsFiniteSet(there)
  BY <1>1, FS_Subset
<1>3. Cardinality(there) \in Nat /\ positions \in [1 .. Cardinality(there) -> there]
  BY <1>2, AscendingLists
<1>4. \A p \in there : accepted[p] \in Question /\ accepted[p].slot = accepted[p].shown
  OBVIOUS
<1>5. Kept(accepted) = [k \in DOMAIN positions |-> accepted[positions[k]]]
  BY DEF Kept
<1>6. (\A p \in 1 .. n : accepted[p] # None) => Cardinality(there) = n
  <2>1. (\A p \in 1 .. n : accepted[p] # None) => there = 1 .. n
    OBVIOUS
  <2> QED
    BY <1>1, <2>1
<1> HIDE DEF there, positions
<1>7. Kept(accepted) \in [1 .. Cardinality(there) -> Question]
  BY <1>3, <1>4, <1>5
<1>8. \A k \in 1 .. Cardinality(there) : Kept(accepted)[k].slot = Kept(accepted)[k].shown
  BY <1>3, <1>4, <1>5
<1> QED
  BY <1>3, <1>6, <1>7, <1>8, SequenceOf

-----------------------------------------------------------------------------
(* Steps of a request *)

\* The facts of a request that stay as it works on a theme.
LEMMA PlanEntry ==
    ASSUME NEW r \in Requests, NEW e \in 1 .. Len(Plan[r])
    PROVE  /\ Plan[r][e] \in Entry
           /\ Plan[r][e].count \in Nat
           /\ Plan[r][e].count > 0
           /\ Len(Plan[r]) \in Nat
           /\ Len(Plan[r]) > 0
           /\ r \notin Exams => Len(Plan[r]) = 1 /\ e = 1
<1>1. Plan[r] \in Seq(Entry) /\ Plan[r] # <<>>
  BY PlanAssumption
<1>2. Plan[r][e] \in Entry /\ Len(Plan[r]) \in Nat /\ Len(Plan[r]) > 0
  BY <1>1, ElementOfSeq, EmptySeq
<1> QED
  BY <1>2, QuizAssumption DEF Entry

\* A request that fails keeps its invariant.
LEMMA RefusedInv ==
    ASSUME NEW r \in Requests, NEW s \in Progress, s.entry \in 1 .. Len(Plan[r]),
           s.attempt \in 1 .. MAX_REFINE_ATTEMPTS + 1,
           \A i \in DOMAIN s.collected : s.collected[i].slot = s.collected[i].shown
    PROVE  /\ [s EXCEPT !.phase = "failed"] \in Progress
           /\ RequestInv(r, [s EXCEPT !.phase = "failed"])
<1>1. [s EXCEPT !.phase = "failed"] \in Progress
  BY DEF Progress, Phases
<1> QED
  BY <1>1 DEF Progress, RequestInv, QuizInv, InTheme

\* A theme that is done keeps the invariant of its request.
LEMMA FinishInv ==
    ASSUME NEW r \in Requests, NEW s \in Progress, s.entry \in 1 .. Len(Plan[r]),
           s.attempt \in 1 .. MAX_REFINE_ATTEMPTS + 1,
           \A i \in DOMAIN s.collected : s.collected[i].slot = s.collected[i].shown,
           r \notin Exams => s.collected = <<>>,
           NEW themed \in Seq(Question),
           \A i \in DOMAIN themed : themed[i].slot = themed[i].shown,
           Len(themed) < Plan[r][s.entry].count => s.attempt = MAX_REFINE_ATTEMPTS + 1
    PROVE  Finish(r, s, themed) \in Progress /\ RequestInv(r, Finish(r, s, themed))
<1> DEFINE phase == IF s.entry < Len(Plan[r]) THEN "retrieve" ELSE "save"
           entry == IF s.entry < Len(Plan[r]) THEN s.entry + 1 ELSE s.entry
           all == s.collected \o themed
           t == [s EXCEPT !.collected = all, !.phase = phase, !.entry = entry]
<1>1. s.collected \in Seq(Question) /\ s.entry \in Nat /\ Len(Plan[r]) \in Nat
  BY PlanEntry DEF Progress
<1>2. s.collected \o themed \in Seq(Question)
  BY <1>1, ConcatProperties
<1>3. \A i \in DOMAIN (s.collected \o themed) :
          (s.collected \o themed)[i].slot = (s.collected \o themed)[i].shown
  BY <1>1
<1>4. t \in Progress
  <2>1. phase \in Phases /\ entry \in Nat /\ all \in Seq(Question)
    BY <1>1, <1>2 DEF Phases
  <2> HIDE DEF phase, entry, all
  <2> QED
    BY <2>1 DEF Progress
<1>5. /\ t.collected = s.collected \o themed
      /\ t.attempt = s.attempt
      /\ t.phase = IF s.entry < Len(Plan[r]) THEN "retrieve" ELSE "save"
      /\ t.entry = IF s.entry < Len(Plan[r]) THEN s.entry + 1 ELSE s.entry
  BY DEF Progress
<1> HIDE DEF t
<1>6. t.entry \in 1 .. Len(Plan[r])
  BY <1>1, <1>5
<1>7. ASSUME r \notin Exams
      PROVE  QuizInv(r, t)
  <2>1. s.entry = 1 /\ Len(Plan[r]) = 1
    BY <1>7, PlanEntry
  <2>2. t.phase = "save" /\ t.collected = themed
    BY <1>5, <1>7, <2>1, ConcatEmptySeq
  <2> QED
    BY <1>5, <2>1, <2>2 DEF QuizInv, InTheme
<1>8. RequestInv(r, t)
  BY <1>3, <1>5, <1>6, <1>7 DEF RequestInv, InTheme
<1> QED
  BY <1>4, <1>8, RefusedInv DEF Finish, t

\* What a request knows while it works on a theme.
LEMMA Working ==
    ASSUME NEW r \in Requests, NEW s \in Progress, RequestInv(r, s), s.phase \in InTheme
    PROVE  /\ Plan[r][s.entry].count \in Nat
           /\ PositionsInv(s, Plan[r][s.entry].count)
           /\ ShownInv(s)
           /\ r \notin Exams => s.collected = <<>>
BY PlanEntry DEF RequestInv, QuizInv

\* A batch whose items answer the pending slots may replace the one in hand.
LEMMA BatchInv ==
    ASSUME NEW r \in Requests, NEW s \in Progress, RequestInv(r, s),
           s.phase \in {"generate", "retry"},
           NEW batch \in [1 .. Len(s.pending) -> Item \cup {None}],
           \A k \in 1 .. Len(s.pending) :
               batch[k] # None => batch[k].shown = s.slots[s.pending[k]],
           NEW phase \in {"generate", "retry"}
    PROVE  /\ [s EXCEPT !.batch = batch, !.phase = phase] \in Progress
           /\ RequestInv(r, [s EXCEPT !.batch = batch, !.phase = phase])
<1> DEFINE t == [s EXCEPT !.batch = batch, !.phase = phase]
           n == Plan[r][s.entry].count
<1>1. n \in Nat /\ PositionsInv(s, n) /\ ShownInv(s) /\ Len(s.pending) \in Nat
  BY Working, PositionsFunctions DEF InTheme
<1>2. batch \in Seq(Item \cup {None}) /\ Len(batch) = Len(s.pending)
      /\ DOMAIN batch = 1 .. Len(s.pending)
  BY <1>1, SequenceOf
<1>3. t \in Progress
  BY <1>2 DEF Progress, Phases
<1>4. /\ t.batch = batch /\ t.phase = phase /\ t.slots = s.slots /\ t.pending = s.pending
      /\ t.accepted = s.accepted /\ t.collected = s.collected /\ t.attempt = s.attempt
      /\ t.entry = s.entry
  BY DEF Progress
<1> HIDE DEF t
<1>5. PositionsInv(t, n)
  BY <1>1, <1>2, <1>4 DEF PositionsInv
<1>6. ShownInv(t)
  BY <1>1, <1>2, <1>4 DEF ShownInv
<1>7. RequestInv(r, t)
  BY <1>4, <1>5, <1>6 DEF RequestInv, QuizInv, InTheme
<1> QED
  BY <1>3, <1>7 DEF t

\* A complete batch goes to the critic or ends the theme.
LEMMA GeneratedInv ==
    ASSUME NEW r \in Requests, NEW s \in Progress, RequestInv(r, s),
           s.phase \in {"generate", "retry"}, Complete(s.batch)
    PROVE  Generated(r, s) \in Progress /\ RequestInv(r, Generated(r, s))
<1> DEFINE n == Plan[r][s.entry].count
<1>1. n \in Nat /\ PositionsInv(s, n) /\ ShownInv(s) /\ (r \notin Exams => s.collected = <<>>)
  BY Working DEF InTheme
<1>2. CASE r \in Critics
  <2> DEFINE t == [s EXCEPT !.phase = "critique"]
  <2>1. t \in Progress
    BY DEF Progress, Phases
  <2>2. /\ t.phase = "critique" /\ t.batch = s.batch /\ t.slots = s.slots
        /\ t.pending = s.pending /\ t.accepted = s.accepted /\ t.collected = s.collected
        /\ t.attempt = s.attempt /\ t.entry = s.entry
    BY DEF Progress
  <2> HIDE DEF t
  <2>3. PositionsInv(t, n) /\ ShownInv(t)
    BY <1>1, <2>2 DEF PositionsInv, ShownInv, Complete
  <2>4. RequestInv(r, t)
    BY <1>1, <1>2, <2>2, <2>3 DEF RequestInv, QuizInv, InTheme
  <2> QED
    BY <1>2, <2>1, <2>4 DEF Generated, t
<1>3. CASE r \notin Critics
  <2>1. Len(s.pending) = n
    BY <1>3 DEF RequestInv, InTheme
  <2>2. /\ Questions(s) \in [1 .. n -> Question]
        /\ \A k \in 1 .. n : Questions(s)[k].slot = Questions(s)[k].shown
    BY <1>1, <2>1, QuestionsShown
  <2>3. /\ Questions(s) \in Seq(Question)
        /\ Len(Questions(s)) = n
        /\ \A k \in DOMAIN Questions(s) : Questions(s)[k].slot = Questions(s)[k].shown
    BY <1>1, <2>2, SequenceOf
  <2>4. ~(Len(Questions(s)) < Plan[r][s.entry].count)
    BY <1>1, <2>3
  <2>5. /\ s.entry \in 1 .. Len(Plan[r])
        /\ s.attempt \in 1 .. MAX_REFINE_ATTEMPTS + 1
        /\ \A i \in DOMAIN s.collected : s.collected[i].slot = s.collected[i].shown
    BY DEF RequestInv
  <2>6. Finish(r, s, Questions(s)) \in Progress /\ RequestInv(r, Finish(r, s, Questions(s)))
    BY <1>1, <2>3, <2>4, <2>5, FinishInv
  <2> QED
    BY <1>3, <2>6 DEF Generated
<1> QED
  BY <1>2, <1>3

\* The first call of a batch keeps the invariant of its request.
LEMMA GenerateInv ==
    ASSUME NEW r \in Requests, NEW s \in Progress, RequestInv(r, s), s.phase = "generate",
           NEW reply \in Replies
    PROVE  LET answered == [s EXCEPT !.batch =
                              Answers(PromptFor(s, [k \in DOMAIN s.pending |-> k]), reply)]
               next == IF Complete(answered.batch) THEN Generated(r, answered)
                       ELSE [answered EXCEPT !.phase = "retry"]
           IN  next \in Progress /\ RequestInv(r, next)
<1> DEFINE batch == Answers(PromptFor(s, [k \in DOMAIN s.pending |-> k]), reply)
           answered == [s EXCEPT !.batch = batch]
<1>1. /\ batch \in [1 .. Len(s.pending) -> Item \cup {None}]
      /\ \A k \in 1 .. Len(s.pending) :
            batch[k] # None => batch[k].shown = s.slots[s.pending[k]]
  BY Working, BatchShown DEF InTheme
<1> HIDE DEF batch
<1>2. /\ answered = [s EXCEPT !.batch = batch, !.phase = "generate"]
      /\ [answered EXCEPT !.phase = "retry"] = [s EXCEPT !.batch = batch, !.phase = "retry"]
      /\ answered.phase = "generate"
  BY DEF Progress
<1>3. answered \in Progress /\ RequestInv(r, answered)
  <2>1. /\ [s EXCEPT !.batch = batch, !.phase = "generate"] \in Progress
        /\ RequestInv(r, [s EXCEPT !.batch = batch, !.phase = "generate"])
    BY <1>1, BatchInv
  <2> QED
    BY <1>2, <2>1
<1>4. /\ [answered EXCEPT !.phase = "retry"] \in Progress
      /\ RequestInv(r, [answered EXCEPT !.phase = "retry"])
  BY <1>1, <1>2, BatchInv
<1>5. Complete(answered.batch) =>
        Generated(r, answered) \in Progress /\ RequestInv(r, Generated(r, answered))
  BY <1>2, <1>3, GeneratedInv
<1> QED
  BY <1>4, <1>5 DEF batch

\* The retry of the skipped groups keeps the invariant of its request.
LEMMA RetryInv ==
    ASSUME NEW r \in Requests, NEW s \in Progress, RequestInv(r, s), s.phase = "retry",
           NEW reply \in Replies
    PROVE  LET missing == Missing(s.batch)
               next == Retried(r, [s EXCEPT !.batch =
                                     Merge(@, missing, Answers(PromptFor(s, missing), reply))])
           IN  next \in Progress /\ RequestInv(r, next)
<1> DEFINE missing == Missing(s.batch)
           batch == Merge(s.batch, missing, Answers(PromptFor(s, missing), reply))
           merged == [s EXCEPT !.batch = batch]
<1>1. /\ batch \in [1 .. Len(s.pending) -> Item \cup {None}]
      /\ \A k \in 1 .. Len(s.pending) :
            batch[k] # None => batch[k].shown = s.slots[s.pending[k]]
  BY Working, MergedShown DEF InTheme
<1> HIDE DEF batch
<1>2. merged = [s EXCEPT !.batch = batch, !.phase = "retry"] /\ merged.phase = "retry"
  BY DEF Progress
<1>3. merged \in Progress /\ RequestInv(r, merged)
  BY <1>1, <1>2, BatchInv
<1>4. Complete(merged.batch) =>
        Generated(r, merged) \in Progress /\ RequestInv(r, Generated(r, merged))
  BY <1>2, <1>3, GeneratedInv
<1>5. /\ [merged EXCEPT !.phase = "failed"] \in Progress
      /\ RequestInv(r, [merged EXCEPT !.phase = "failed"])
  BY <1>3, RefusedInv DEF RequestInv
<1> QED
  BY <1>4, <1>5 DEF Retried, batch

\* A round of the critic keeps the invariant of its request: the theme is done,
\* or what failed is pending again.
LEMMA CritiqueInv ==
    ASSUME NEW r \in Requests, NEW s \in Progress, RequestInv(r, s), s.phase = "critique",
           NEW verdicts \in [DOMAIN s.pending -> BOOLEAN]
    PROVE  LET failed == Failed(s, verdicts)
               judged == [s EXCEPT !.accepted = Accept(s, verdicts)]
               next == IF failed = <<>> \/ s.attempt > MAX_REFINE_ATTEMPTS
                       THEN Finish(r, judged, Kept(judged.accepted))
                       ELSE [judged EXCEPT !.phase = "generate", !.pending = failed,
                                           !.batch = Nones(Len(failed)), !.attempt = @ + 1]
           IN  next \in Progress /\ RequestInv(r, next) /\ Len(failed) \in Nat
<1> DEFINE n == Plan[r][s.entry].count
           accepted == Accept(s, verdicts)
           positions == {s.pending[k] : k \in {j \in DOMAIN verdicts : ~verdicts[j]}}
           failed == Failed(s, verdicts)
           judged == [s EXCEPT !.accepted = accepted]
           again == [judged EXCEPT !.phase = "generate", !.pending = failed,
                                   !.batch = Nones(Len(failed)), !.attempt = @ + 1]
<1>1. /\ n \in Nat /\ PositionsInv(s, n) /\ ShownInv(s) /\ Complete(s.batch)
      /\ r \notin Exams => s.collected = <<>>
      /\ r \in Critics
      /\ s.entry \in 1 .. Len(Plan[r])
      /\ s.attempt \in 1 .. MAX_REFINE_ATTEMPTS + 1
      /\ \A i \in DOMAIN s.collected : s.collected[i].slot = s.collected[i].shown
  BY Working DEF InTheme, RequestInv, ShownInv
<1>2. /\ accepted \in [1 .. n -> Question \cup {None}]
      /\ \A p \in 1 .. n : accepted[p] # None =>
            accepted[p].slot = s.slots[p] /\ accepted[p].shown = s.slots[p]
      /\ \A p \in 1 .. n : accepted[p] = None =>
            \E k \in DOMAIN verdicts : s.pending[k] = p /\ ~verdicts[k]
  BY <1>1, AcceptedShown
<1> HIDE DEF accepted
<1>3. accepted \in Seq(Question \cup {None}) /\ Len(accepted) = n /\ DOMAIN accepted = 1 .. n
  BY <1>1, <1>2, SequenceOf
<1>4. judged \in Progress
  BY <1>3 DEF Progress
<1>5. /\ judged.accepted = accepted /\ judged.collected = s.collected
      /\ judged.entry = s.entry /\ judged.attempt = s.attempt /\ judged.slots = s.slots
  BY DEF Progress
<1>6. positions \in SUBSET (1 .. n)
  <2>1. \A k \in DOMAIN verdicts : s.pending[k] \in 1 .. n
    BY <1>1, PositionsFunctions
  <2> QED
    BY <2>1
<1>7. positions \in SUBSET Nat /\ IsFiniteSet(positions)
  <2> HIDE DEF positions, n
  <2> QED
    BY <1>1, <1>6, PositionsFinite
<1>8. /\ Cardinality(positions) \in Nat
      /\ failed \in [1 .. Cardinality(positions) -> positions]
      /\ \A p \in positions : \E k \in 1 .. Cardinality(positions) : failed[k] = p
  BY <1>7, AscendingLists DEF Failed
<1>9. \A p \in 1 .. n : accepted[p] = None => p \in positions
  BY <1>2
<1> HIDE DEF positions, failed
<1>10. /\ failed \in Seq(Nat) /\ Len(failed) = Cardinality(positions) /\ Len(failed) \in Nat
       /\ DOMAIN failed = 1 .. Len(failed)
       /\ \A k \in DOMAIN failed : failed[k] \in 1 .. n
       /\ \A p \in positions : \E k \in DOMAIN failed : failed[k] = p
  <2>1. failed \in [1 .. Cardinality(positions) -> Nat]
    BY <1>6, <1>7, <1>8
  <2>2. /\ failed \in Seq(Nat) /\ Len(failed) = Cardinality(positions)
        /\ DOMAIN failed = 1 .. Cardinality(positions)
    BY <1>8, <2>1, SequenceOf
  <2> QED
    BY <1>6, <1>8, <2>2
<1>11. CASE failed = <<>> \/ s.attempt > MAX_REFINE_ATTEMPTS
  <2>1. \A p \in 1 .. n : accepted[p] # None => accepted[p].slot = accepted[p].shown
    BY <1>2
  <2>2. /\ Kept(accepted) \in Seq(Question)
        /\ \A k \in DOMAIN Kept(accepted) :
              Kept(accepted)[k].slot = Kept(accepted)[k].shown
        /\ (\A p \in 1 .. n : accepted[p] # None) => Len(Kept(accepted)) = n
    BY <1>1, <1>2, <2>1, KeptShown
  <2>3. Len(Kept(accepted)) < n => s.attempt = MAX_REFINE_ATTEMPTS + 1
    <3>1. CASE failed = <<>>
      <4>1. \A p \in 1 .. n : accepted[p] # None
        BY <1>9, <1>10, <3>1
      <4>2. ~(Len(Kept(accepted)) < n)
        BY <1>1, <2>2, <4>1
      <4> QED
        BY <4>2
    <3>2. CASE s.attempt > MAX_REFINE_ATTEMPTS
      BY <1>1, <3>2, RefineAssumption
    <3> QED
      BY <1>11, <3>1, <3>2
  <2>4. /\ Finish(r, judged, Kept(accepted)) \in Progress
        /\ RequestInv(r, Finish(r, judged, Kept(accepted)))
    BY <1>1, <1>4, <1>5, <2>2, <2>3, FinishInv
  <2> QED
    BY <1>5, <1>10, <1>11, <2>4 DEF failed, accepted
<1>12. CASE ~(failed = <<>> \/ s.attempt > MAX_REFINE_ATTEMPTS)
  <2> DEFINE batch == Nones(Len(failed))
  <2>1. /\ batch \in Seq(Item \cup {None}) /\ Len(batch) = Len(failed)
        /\ DOMAIN batch = 1 .. Len(failed)
        /\ \A k \in DOMAIN batch : batch[k] = None
    <3>1. batch \in [1 .. Len(failed) -> Item \cup {None}]
      BY DEF Nones
    <3>2. \A k \in 1 .. Len(failed) : batch[k] = None
      BY DEF Nones
    <3> QED
      BY <1>10, <3>1, <3>2, SequenceOf
  <2>2. s.attempt + 1 \in Nat /\ s.attempt + 1 \in 1 .. MAX_REFINE_ATTEMPTS + 1
    BY <1>1, <1>12, RefineAssumption
  <2> HIDE DEF batch
  <2>3. again = [s EXCEPT !.accepted = accepted, !.phase = "generate", !.pending = failed,
                          !.batch = batch, !.attempt = s.attempt + 1]
    BY DEF Progress, batch
  <2>4. again \in Progress
    BY <1>3, <1>10, <2>1, <2>2, <2>3 DEF Progress, Phases
  <2>5. /\ again.phase = "generate" /\ again.pending = failed /\ again.batch = batch
        /\ again.accepted = accepted /\ again.attempt = s.attempt + 1 /\ again.slots = s.slots
        /\ again.collected = s.collected /\ again.entry = s.entry
    BY <2>3 DEF Progress
  <2> HIDE DEF again
  <2>6. PositionsInv(again, n)
    BY <1>1, <1>3, <1>10, <2>1, <2>5 DEF PositionsInv
  <2>7. ShownInv(again)
    BY <1>2, <1>3, <1>9, <1>10, <2>1, <2>5 DEF ShownInv
  <2>8. RequestInv(r, again)
    BY <1>1, <2>2, <2>5, <2>6, <2>7 DEF RequestInv, QuizInv, InTheme
  <2> QED
    BY <1>10, <1>12, <2>4, <2>8 DEF again, failed, accepted
<1> QED
  BY <1>11, <1>12

\* A theme starts with nothing accepted and every position pending.
LEMMA RetrieveInv ==
    ASSUME NEW r \in Requests, NEW s \in Progress, RequestInv(r, s), s.phase = "retrieve",
           NEW ranked \in Ranked[Plan[r][s.entry].theme] \ {<<>>}
    PROVE  LET n == Plan[r][s.entry].count
               next == [s EXCEPT !.phase = "generate",
                                 !.slots = SlotsOf(Plan[r][s.entry], ranked),
                                 !.pending = [k \in 1 .. n |-> k], !.batch = Nones(n),
                                 !.accepted = Nones(n), !.attempt = 1]
           IN  next \in Progress /\ RequestInv(r, next)
<1> DEFINE entry == Plan[r][s.entry]
           n == entry.count
           slots == SlotsOf(entry, ranked)
           pending == [k \in 1 .. n |-> k]
           nones == Nones(n)
           t == [s EXCEPT !.phase = "generate", !.slots = slots, !.pending = pending,
                          !.batch = nones, !.accepted = nones, !.attempt = 1]
<1>1. /\ s.entry \in 1 .. Len(Plan[r]) /\ entry \in Entry /\ n \in Nat
      /\ \A i \in DOMAIN s.collected : s.collected[i].slot = s.collected[i].shown
  BY PlanEntry DEF RequestInv
<1>2. ranked \in Seq(Sections) /\ ranked # <<>>
  BY <1>1, RankedAssumption DEF Entry
<1>3. slots \in Seq(Slot) /\ Len(slots) = n /\ DOMAIN slots = 1 .. n
  BY <1>1, <1>2, SlotsOfType, SequenceOf
<1>4. /\ pending \in Seq(Nat) /\ Len(pending) = n /\ DOMAIN pending = 1 .. n
      /\ \A k \in 1 .. n : pending[k] = k
  <2>1. pending \in [1 .. n -> Nat] /\ \A k \in 1 .. n : pending[k] = k
    BY <1>1
  <2> QED
    BY <1>1, <2>1, SequenceOf
<1>5. /\ nones \in Seq(Item \cup {None}) /\ nones \in Seq(Question \cup {None})
      /\ Len(nones) = n /\ DOMAIN nones = 1 .. n
      /\ \A k \in 1 .. n : nones[k] = None
  <2>1. /\ nones \in [1 .. n -> Item \cup {None}]
        /\ nones \in [1 .. n -> Question \cup {None}]
        /\ \A k \in 1 .. n : nones[k] = None
    BY DEF Nones
  <2> QED
    BY <1>1, <2>1, SequenceOf
<1> HIDE DEF slots, pending, nones
<1>6. t \in Progress
  BY <1>3, <1>4, <1>5 DEF Progress, Phases
<1>7. /\ t.phase = "generate" /\ t.slots = slots /\ t.pending = pending /\ t.batch = nones
      /\ t.accepted = nones /\ t.attempt = 1 /\ t.entry = s.entry /\ t.collected = s.collected
  BY DEF Progress
<1> HIDE DEF t
<1>8. PositionsInv(t, n)
  BY <1>3, <1>4, <1>5, <1>7 DEF PositionsInv
<1>9. ShownInv(t)
  BY <1>4, <1>5, <1>7 DEF ShownInv
<1>10. r \notin Exams => QuizInv(r, t)
  BY <1>7 DEF RequestInv, QuizInv, InTheme
<1>11. RequestInv(r, t)
  BY <1>1, <1>4, <1>7, <1>8, <1>9, <1>10, RefineAssumption DEF RequestInv, InTheme
<1> QED
  BY <1>6, <1>11 DEF t, slots, pending, nones

\* A request that starts keeps its invariant.
LEMMA StartInv ==
    ASSUME NEW r \in Requests, NEW s \in Progress, RequestInv(r, s), s.phase = "idle"
    PROVE  /\ [s EXCEPT !.phase = "retrieve"] \in Progress
           /\ RequestInv(r, [s EXCEPT !.phase = "retrieve"])
<1>1. [s EXCEPT !.phase = "retrieve"] \in Progress
  BY DEF Progress, Phases
<1> QED
  BY <1>1 DEF Progress, RequestInv, QuizInv, InTheme

\* A request that has saved keeps its invariant.
LEMMA ReadyInv ==
    ASSUME NEW r \in Requests, NEW s \in Progress, RequestInv(r, s), s.phase = "save"
    PROVE  /\ [s EXCEPT !.phase = "ready"] \in Progress
           /\ RequestInv(r, [s EXCEPT !.phase = "ready"])
<1>1. [s EXCEPT !.phase = "ready"] \in Progress
  BY DEF Progress, Phases
<1> QED
  BY <1>1 DEF Progress, RequestInv, QuizInv, InTheme

-----------------------------------------------------------------------------
(* What requests have in hand *)

\* The initial state satisfies the invariant.
LEMMA InitHand == Init => HandInv
<1> SUFFICES ASSUME Init
             PROVE  HandInv
  OBVIOUS
<1>1. Fresh \in Progress
  BY DEF Fresh, Progress, Phases
<1>2. rejected \in [Themes -> [1 .. MAX_REFINE_ATTEMPTS + 1 -> Nat]]
  BY DEF Init
<1>3. TypeOK
  BY <1>1, <1>2 DEF Init, TypeOK
<1>4. ASSUME NEW r \in Requests
      PROVE  RequestInv(r, gen[r])
  <2>1. Plan[r] \in Seq(Entry) /\ Plan[r] # <<>>
    BY PlanAssumption
  <2>2. 1 \in 1 .. Len(Plan[r])
    BY <2>1, EmptySeq
  <2> QED
    BY <2>2, RefineAssumption DEF Init, Fresh, RequestInv, QuizInv, InTheme
<1> QED
  BY <1>3, <1>4 DEF HandInv

\* A step of a request keeps the invariant when it keeps that of the request.
LEMMA StepInv ==
    ASSUME HandInv, NEW r \in Requests, NEW s \in Progress, RequestInv(r, s), Step(r, s),
           bank' \in [Texts -> Question \cup {None}],
           rejected' \in [Themes -> [1 .. MAX_REFINE_ATTEMPTS + 1 -> Nat]]
    PROVE  HandInv'
<1>1. /\ gen \in [Requests -> Progress]
      /\ gen' = [gen EXCEPT ![r] = s]
  BY DEF HandInv, TypeOK, Step
<1>2. TypeOK'
  BY <1>1 DEF HandInv, TypeOK
<1>3. \A q \in Requests : RequestInv(q, gen'[q])
  BY <1>1 DEF HandInv
<1> QED
  BY <1>2, <1>3 DEF HandInv

\* A row of the bank after an upsert is one that was there or one of the questions.
LEMMA UpsertRows ==
    ASSUME NEW rows \in [Texts -> Question \cup {None}], NEW questions \in Seq(Question)
    PROVE  /\ Upsert(rows, questions) \in [Texts -> Question \cup {None}]
           /\ \A text \in Texts :
                 \/ Upsert(rows, questions)[text] = rows[text]
                 \/ \E i \in DOMAIN questions : Upsert(rows, questions)[text] = questions[i]
<1> DEFINE Same(text) == {i \in DOMAIN questions : TextOf[questions[i].draft] = text}
           Last(text) == CHOOSE i \in Same(text) : \A j \in Same(text) : j <= i
<1>1. Upsert(rows, questions) =
        [text \in Texts |-> IF Same(text) = {} THEN rows[text] ELSE questions[Last(text)]]
  BY DEF Upsert
<1>2. ASSUME NEW text \in Texts, Same(text) # {}
      PROVE  Last(text) \in DOMAIN questions
  <2>1. Same(text) \in SUBSET Nat /\ IsFiniteSet(Same(text))
    BY PlacesFinite
  <2>2. \E i \in Same(text) : \A j \in Same(text) : j <= i
    BY <1>2, <2>1, Extremes
  <2> QED
    BY <2>2
<1> HIDE DEF Last, Same
<1>3. ASSUME NEW text \in Texts, Same(text) # {}
      PROVE  questions[Last(text)] \in Question
  BY <1>2, <1>3, Element
<1> QED
  BY <1>1, <1>2, <1>3

\* Every step keeps the invariant.
LEMMA NextHand == HandInv /\ [Next]_vars => HandInv'
<1> SUFFICES ASSUME HandInv, [Next]_vars
             PROVE  HandInv'
  OBVIOUS
<1>1. CASE UNCHANGED vars
  BY <1>1 DEF vars, HandInv, TypeOK
<1>2. ASSUME NEW r \in Requests, Start(r) \/ Work(r)
      PROVE  HandInv'
  <2>1. /\ gen[r] \in Progress /\ RequestInv(r, gen[r])
        /\ rejected \in [Themes -> [1 .. MAX_REFINE_ATTEMPTS + 1 -> Nat]]
        /\ bank \in [Texts -> Question \cup {None}]
        /\ gen[r].collected \in Seq(Question)
    BY DEF HandInv, TypeOK, Progress
  <2>2. /\ gen[r].entry \in 1 .. Len(Plan[r])
        /\ gen[r].attempt \in 1 .. MAX_REFINE_ATTEMPTS + 1
        /\ \A i \in DOMAIN gen[r].collected :
              gen[r].collected[i].slot = gen[r].collected[i].shown
    BY <2>1 DEF RequestInv
  <2>3. CASE Start(r)
    BY <2>1, <2>3, StartInv, StepInv DEF Start
  <2>4. CASE Retrieve(r)
    <3>1. PICK ranked \in Ranked[Current(r).theme] \ {<<>>} :
             LET n == Current(r).count IN
             Step(r, [gen[r] EXCEPT !.phase = "generate", !.slots = SlotsOf(Current(r), ranked),
                                    !.pending = [k \in 1 .. n |-> k], !.batch = Nones(n),
                                    !.accepted = Nones(n), !.attempt = 1])
      BY <2>4 DEF Retrieve
    <3>2. gen[r].phase = "retrieve" /\ UNCHANGED <<rejected, bank>>
      BY <2>4 DEF Retrieve
    <3> QED
      BY <2>1, <3>1, <3>2, RetrieveInv, StepInv DEF Current
  <2>5. CASE NoMaterial(r)
    BY <2>1, <2>2, <2>5, RefusedInv, StepInv DEF NoMaterial
  <2>6. CASE Generate(r)
    <3>1. gen[r].phase = "generate" /\ UNCHANGED <<rejected, bank>>
      BY <2>6 DEF Generate
    <3>2. PICK reply \in Replies :
             LET answered == [gen[r] EXCEPT !.batch =
                        Answers(PromptFor(gen[r], [k \in DOMAIN gen[r].pending |-> k]), reply)]
             IN  Step(r, IF Complete(answered.batch) THEN Generated(r, answered)
                         ELSE [answered EXCEPT !.phase = "retry"])
      BY <2>6 DEF Generate
    <3> QED
      BY <2>1, <3>1, <3>2, GenerateInv, StepInv
  <2>7. CASE Retry(r)
    <3> DEFINE missing == Missing(gen[r].batch)
    <3>1. gen[r].phase = "retry" /\ UNCHANGED <<rejected, bank>>
      BY <2>7 DEF Retry
    <3>2. PICK reply \in Replies :
             Step(r, Retried(r, [gen[r] EXCEPT !.batch =
                     Merge(@, missing, Answers(PromptFor(gen[r], missing), reply))]))
      BY <2>7 DEF Retry
    <3> QED
      BY <2>1, <3>1, <3>2, RetryInv, StepInv
  <2>8. CASE Critique(r)
    <3>1. gen[r].phase = "critique" /\ UNCHANGED bank
      BY <2>8 DEF Critique
    <3>2. PICK verdicts \in [DOMAIN gen[r].pending -> BOOLEAN] :
             LET failed == Failed(gen[r], verdicts)
                 judged == [gen[r] EXCEPT !.accepted = Accept(gen[r], verdicts)]
             IN  /\ rejected' = [rejected EXCEPT
                                   ![Current(r).theme][gen[r].attempt] = @ + Len(failed)]
                 /\ Step(r, IF failed = <<>> \/ gen[r].attempt > MAX_REFINE_ATTEMPTS
                            THEN Finish(r, judged, Kept(judged.accepted))
                            ELSE [judged EXCEPT !.phase = "generate", !.pending = failed,
                                     !.batch = Nones(Len(failed)), !.attempt = @ + 1])
      BY <2>8 DEF Critique
    <3> DEFINE failed == Failed(gen[r], verdicts)
               judged == [gen[r] EXCEPT !.accepted = Accept(gen[r], verdicts)]
               next == IF failed = <<>> \/ gen[r].attempt > MAX_REFINE_ATTEMPTS
                       THEN Finish(r, judged, Kept(judged.accepted))
                       ELSE [judged EXCEPT !.phase = "generate", !.pending = failed,
                                !.batch = Nones(Len(failed)), !.attempt = @ + 1]
    <3>3. next \in Progress /\ RequestInv(r, next) /\ Len(failed) \in Nat
      BY <2>1, <3>1, CritiqueInv
    <3>4. Step(r, next)
      BY <3>2
    <3>5. rejected' = [rejected EXCEPT ![Current(r).theme][gen[r].attempt] = @ + Len(failed)]
      BY <3>2
    <3> HIDE DEF failed, next
    <3>6. rejected' \in [Themes -> [1 .. MAX_REFINE_ATTEMPTS + 1 -> Nat]]
      <4>1. Current(r).theme \in Themes
        BY <2>2, PlanEntry DEF Current, Entry
      <4> DEFINE theme == Current(r).theme
                 a == gen[r].attempt
                 count == rejected[theme][a] + Len(failed)
      <4>2. count \in Nat
        <5>1. rejected[theme] \in [1 .. MAX_REFINE_ATTEMPTS + 1 -> Nat]
          BY <2>1, <4>1
        <5>2. rejected[theme][a] \in Nat
          BY <2>2, <5>1
        <5>3. Len(failed) \in Nat
          BY <3>3
        <5> HIDE DEF theme, a
        <5> QED
          BY <5>2, <5>3
      <4>3. rejected' = [rejected EXCEPT ![theme] = [rejected[theme] EXCEPT ![a] = count]]
        BY <2>1, <3>5, <4>1
      <4> HIDE DEF theme, a, count
      <4> QED
        BY <2>1, <4>2, <4>3
    <3> QED
      BY <2>1, <3>1, <3>3, <3>4, <3>6, StepInv
  <2>9. CASE Save(r)
    <3>1. bank' \in [Texts -> Question \cup {None}]
      BY <2>1, <2>9, UpsertRows DEF Save
    <3> QED
      BY <2>1, <2>9, <3>1, ReadyInv, StepInv DEF Save
  <2>10. CASE Fail(r)
    <3>1. bank' \in [Texts -> Question \cup {None}]
      BY <2>1, <2>10, UpsertRows DEF Fail
    <3> QED
      BY <2>1, <2>2, <2>10, <3>1, RefusedInv, StepInv DEF Fail
  <2> QED
    BY <1>2, <2>3, <2>4, <2>5, <2>6, <2>7, <2>8, <2>9, <2>10 DEF Work
<1> QED
  BY <1>1, <1>2 DEF Next

-----------------------------------------------------------------------------
(* The rejection log *)

\* What a request with progress s has in hand for attempt a on a theme, and how much.
Judges(r, s, theme, a) ==
    s.phase \in InTheme /\ Plan[r][s.entry].theme = theme /\ s.attempt = a

Share(r, s, theme, a) == IF Judges(r, s, theme, a) THEN {r} \X DOMAIN s.pending ELSE {}

Weight(r, s, theme, a) == IF Judges(r, s, theme, a) THEN Len(s.pending) ELSE 0

\* A request has as many questions in hand as it has pending positions.
LEMMA ShareSize ==
    ASSUME NEW r, NEW s \in Progress, NEW theme, NEW a
    PROVE  /\ IsFiniteSet(Share(r, s, theme, a))
           /\ Cardinality(Share(r, s, theme, a)) = Weight(r, s, theme, a)
           /\ Weight(r, s, theme, a) \in Nat
<1>1. Len(s.pending) \in Nat /\ DOMAIN s.pending = 1 .. Len(s.pending)
  BY DEF Progress
<1>2. /\ IsFiniteSet(1 .. Len(s.pending))
      /\ Cardinality(1 .. Len(s.pending)) = Len(s.pending)
  BY <1>1, FS_Interval
<1>3. IsFiniteSet({r}) /\ Cardinality({r}) = 1
  BY FS_Singleton
<1>4. /\ IsFiniteSet({r} \X DOMAIN s.pending)
      /\ Cardinality({r} \X DOMAIN s.pending) = Len(s.pending)
  <2>1. /\ IsFiniteSet({r} \X (1 .. Len(s.pending)))
        /\ Cardinality({r} \X (1 .. Len(s.pending)))
             = Cardinality({r}) * Cardinality(1 .. Len(s.pending))
    BY <1>2, <1>3, FS_Product
  <2>2. \A m \in Nat : 1 * m = m
    OBVIOUS
  <2>3. Cardinality({r}) * Cardinality(1 .. Len(s.pending)) = Len(s.pending)
    BY <1>1, <1>2, <1>3, <2>2
  <2> QED
    BY <1>1, <2>1, <2>3
<1>5. IsFiniteSet({}) /\ Cardinality({}) = 0
  BY FS_EmptySet
<1> QED
  BY <1>1, <1>4, <1>5 DEF Share, Weight

\* A step of a request changes what is judged on a theme by its own share only.
LEMMA JudgingStep ==
    ASSUME TypeOK, NEW r \in Requests, NEW s \in Progress, Step(r, s), NEW theme, NEW a,
           IsFiniteSet(Judging(theme, a))
    PROVE  /\ IsFiniteSet(Judging(theme, a)')
           /\ Cardinality(Judging(theme, a)) \in Nat
           /\ Cardinality(Judging(theme, a)') \in Nat
           /\ Cardinality(Judging(theme, a)') + Weight(r, gen[r], theme, a)
                = Cardinality(Judging(theme, a)) + Weight(r, s, theme, a)
<1> DEFINE Others == UNION {Share(q, gen[q], theme, a) : q \in Requests \ {r}}
           Old == Share(r, gen[r], theme, a)
           New == Share(r, s, theme, a)
<1>1. /\ gen \in [Requests -> Progress]
      /\ gen' = [gen EXCEPT ![r] = s]
  BY DEF TypeOK, Step
<1>2. Judging(theme, a) = Others \cup Old
  BY DEF Judging, Share, Judges, Current
<1>3. Judging(theme, a)' = Others \cup New
  <2>1. Judging(theme, a)' = UNION {Share(q, gen'[q], theme, a) : q \in Requests}
    BY DEF Judging, Share, Judges, Current
  <2>2. gen'[r] = s /\ \A q \in Requests \ {r} : gen'[q] = gen[q]
    BY <1>1
  <2> QED
    BY <2>1, <2>2
<1>4. Others \cap Old = {} /\ Others \cap New = {}
  BY DEF Share
<1>5. /\ IsFiniteSet(Old) /\ Cardinality(Old) = Weight(r, gen[r], theme, a)
      /\ IsFiniteSet(New) /\ Cardinality(New) = Weight(r, s, theme, a)
      /\ Weight(r, gen[r], theme, a) \in Nat
      /\ Weight(r, s, theme, a) \in Nat
  BY <1>1, ShareSize
<1> HIDE DEF Others, Old, New
<1>6. IsFiniteSet(Others)
  BY <1>2, FS_Subset
<1>7. Cardinality(Others) \in Nat /\ Cardinality({}) = 0
  BY <1>6, FS_CardinalityType, FS_EmptySet
<1>8. /\ Cardinality(Judging(theme, a)) = Cardinality(Others) + Cardinality(Old)
      /\ IsFiniteSet(Judging(theme, a)')
      /\ Cardinality(Judging(theme, a)') = Cardinality(Others) + Cardinality(New)
  <2>1. Cardinality(Others \cup Old)
          = Cardinality(Others) + Cardinality(Old) - Cardinality(Others \cap Old)
    BY <1>5, <1>6, FS_Union
  <2>2. /\ IsFiniteSet(Others \cup New)
        /\ Cardinality(Others \cup New)
             = Cardinality(Others) + Cardinality(New) - Cardinality(Others \cap New)
    BY <1>5, <1>6, FS_Union
  <2>3. Cardinality(Others \cap Old) = 0 /\ Cardinality(Others \cap New) = 0
    BY <1>4, <1>7
  <2> QED
    BY <1>2, <1>3, <1>5, <1>7, <2>1, <2>2, <2>3
<1> QED
  BY <1>5, <1>7, <1>8

\* A step that logs nothing and does not add to what is judged keeps the funnel.
LEMMA FunnelStep ==
    ASSUME TypeOK, FunnelInv, NEW r \in Requests, NEW s \in Progress, Step(r, s),
           UNCHANGED rejected,
           \/ s.phase \notin InTheme
           \/ s.attempt = 1
           \/ /\ gen[r].phase \in InTheme
              /\ s.entry = gen[r].entry
              /\ s.attempt = gen[r].attempt
              /\ s.pending = gen[r].pending
    PROVE  FunnelInv'
<1> SUFFICES ASSUME NEW theme \in Themes, NEW a \in 1 .. MAX_REFINE_ATTEMPTS
             PROVE  /\ IsFiniteSet(Judging(theme, a + 1)')
                    /\ rejected'[theme][a + 1] + Cardinality(Judging(theme, a + 1)')
                         <= rejected'[theme][a]
  BY DEF FunnelInv
<1>1. /\ IsFiniteSet(Judging(theme, a + 1))
      /\ rejected[theme][a + 1] + Cardinality(Judging(theme, a + 1)) <= rejected[theme][a]
  BY DEF FunnelInv
<1>2. /\ IsFiniteSet(Judging(theme, a + 1)')
      /\ Cardinality(Judging(theme, a + 1)) \in Nat
      /\ Cardinality(Judging(theme, a + 1)') \in Nat
      /\ Cardinality(Judging(theme, a + 1)') + Weight(r, gen[r], theme, a + 1)
           = Cardinality(Judging(theme, a + 1)) + Weight(r, s, theme, a + 1)
  BY <1>1, JudgingStep
<1>3. gen[r] \in Progress
  BY DEF TypeOK
<1>4. /\ Weight(r, gen[r], theme, a + 1) \in Nat
      /\ Weight(r, s, theme, a + 1) \in Nat
  BY <1>3, ShareSize
<1>5. Weight(r, s, theme, a + 1) <= Weight(r, gen[r], theme, a + 1)
  <2>1. a + 1 # 1
    BY RefineAssumption
  <2>2. \/ Weight(r, s, theme, a + 1) = 0
        \/ Weight(r, s, theme, a + 1) = Weight(r, gen[r], theme, a + 1)
    BY <2>1 DEF Weight, Judges
  <2> QED
    BY <1>4, <2>2
<1>6. rejected[theme][a] \in Nat /\ rejected[theme][a + 1] \in Nat
  <2>1. a \in 1 .. MAX_REFINE_ATTEMPTS + 1 /\ a + 1 \in 1 .. MAX_REFINE_ATTEMPTS + 1
    BY RefineAssumption
  <2> QED
    BY <2>1 DEF TypeOK
<1> QED
  BY <1>1, <1>2, <1>4, <1>5, <1>6

\* A theme that is done is no longer judged.
LEMMA FinishPhase ==
    ASSUME NEW r, NEW s \in Progress, NEW themed
    PROVE  Finish(r, s, themed).phase \notin InTheme
BY DEF Finish, Progress, InTheme

\* A complete batch is judged as it is, or not at all.
LEMMA GeneratedKeeps ==
    ASSUME NEW r, NEW s \in Progress
    PROVE  \/ Generated(r, s).phase \notin InTheme
           \/ /\ Generated(r, s).entry = s.entry
              /\ Generated(r, s).attempt = s.attempt
              /\ Generated(r, s).pending = s.pending
<1>1. CASE r \in Critics
  BY <1>1 DEF Generated, Progress
<1>2. CASE r \notin Critics
  BY <1>2, FinishPhase DEF Generated
<1> QED
  BY <1>1, <1>2

\* No more positions fail than were pending.
LEMMA FewerFailed ==
    ASSUME NEW s \in Progress, NEW n \in Nat, PositionsInv(s, n),
           NEW verdicts \in [DOMAIN s.pending -> BOOLEAN]
    PROVE  Len(Failed(s, verdicts)) \in Nat /\ Len(Failed(s, verdicts)) <= Len(s.pending)
<1> DEFINE m == Len(s.pending)
           refused == {j \in DOMAIN verdicts : ~verdicts[j]}
           positions == {s.pending[k] : k \in refused}
           at == [k \in refused |-> s.pending[k]]
<1>1. m \in Nat /\ DOMAIN verdicts = 1 .. m /\ \A k \in 1 .. m : s.pending[k] \in 1 .. n
  BY PositionsFunctions
<1>2. IsFiniteSet(1 .. m) /\ Cardinality(1 .. m) = m
  BY <1>1, FS_Interval
<1>3. IsFiniteSet(refused) /\ Cardinality(refused) <= m
  BY <1>1, <1>2, FS_Subset
<1>4. at \in Surjection(refused, positions)
  BY DEF Surjection
<1>5. IsFiniteSet(positions) /\ Cardinality(positions) <= Cardinality(refused)
  BY <1>3, <1>4, FS_Surjection
<1>6. positions \in SUBSET Nat
  BY <1>1
<1>7. Failed(s, verdicts) = Ascending(positions)
  BY DEF Failed
<1>8. Cardinality(positions) \in Nat /\ Cardinality(refused) \in Nat
  BY <1>3, <1>5, FS_CardinalityType
<1> HIDE DEF positions, refused, m, at
<1>9. /\ Ascending(positions) \in [1 .. Cardinality(positions) -> positions]
      /\ Cardinality(positions) \in Nat
  BY <1>5, <1>6, AscendingLists
<1>10. Len(Failed(s, verdicts)) = Cardinality(positions)
  BY <1>7, <1>9, SequenceOf
<1> QED
  BY <1>1, <1>3, <1>5, <1>8, <1>10 DEF m

\* A judgment logs as many rejections as it sends to the next attempt.
LEMMA FunnelCritique ==
    ASSUME TypeOK, FunnelInv, NEW r \in Requests, gen[r].phase = "critique",
           NEW s \in Progress, Step(r, s), NEW failed \in Nat, failed <= Len(gen[r].pending),
           gen[r].attempt \in 1 .. MAX_REFINE_ATTEMPTS + 1, Current(r).theme \in Themes,
           rejected' = [rejected EXCEPT ![Current(r).theme][gen[r].attempt] = @ + failed],
           \/ s.phase \notin InTheme
           \/ /\ s.entry = gen[r].entry
              /\ s.attempt = gen[r].attempt + 1
              /\ Len(s.pending) = failed
    PROVE  FunnelInv'
<1> DEFINE b == gen[r].attempt
           mine == Current(r).theme
<1> SUFFICES ASSUME NEW theme \in Themes, NEW a \in 1 .. MAX_REFINE_ATTEMPTS
             PROVE  /\ IsFiniteSet(Judging(theme, a + 1)')
                    /\ rejected'[theme][a + 1] + Cardinality(Judging(theme, a + 1)')
                         <= rejected'[theme][a]
  BY DEF FunnelInv
<1>1. /\ IsFiniteSet(Judging(theme, a + 1))
      /\ rejected[theme][a + 1] + Cardinality(Judging(theme, a + 1)) <= rejected[theme][a]
  BY DEF FunnelInv
<1>2. /\ IsFiniteSet(Judging(theme, a + 1)')
      /\ Cardinality(Judging(theme, a + 1)) \in Nat
      /\ Cardinality(Judging(theme, a + 1)') \in Nat
      /\ Cardinality(Judging(theme, a + 1)') + Weight(r, gen[r], theme, a + 1)
           = Cardinality(Judging(theme, a + 1)) + Weight(r, s, theme, a + 1)
  BY <1>1, JudgingStep
<1>3. gen[r] \in Progress /\ Len(gen[r].pending) \in Nat
  <2>1. gen[r] \in Progress
    BY DEF TypeOK
  <2>2. gen[r].pending \in Seq(Nat)
    BY <2>1 DEF Progress
  <2> QED
    BY <2>1, <2>2
<1>4. /\ a \in 1 .. MAX_REFINE_ATTEMPTS + 1 /\ a + 1 \in 1 .. MAX_REFINE_ATTEMPTS + 1
      /\ a \in Nat /\ a + 1 # a
  BY RefineAssumption
<1>5. /\ rejected \in [Themes -> [1 .. MAX_REFINE_ATTEMPTS + 1 -> Nat]]
      /\ rejected[theme][a] \in Nat /\ rejected[theme][a + 1] \in Nat
  BY <1>4 DEF TypeOK
<1>6. \A i \in 1 .. MAX_REFINE_ATTEMPTS + 1 : rejected'[theme][i] =
          IF theme = mine /\ i = b THEN rejected[theme][i] + failed ELSE rejected[theme][i]
  BY <1>5
<1>7. Weight(r, gen[r], theme, a + 1) =
          IF theme = mine /\ a + 1 = b THEN Len(gen[r].pending) ELSE 0
  BY DEF Weight, Judges, InTheme, Current
<1>8. /\ Weight(r, s, theme, a + 1) \in Nat
      /\ Weight(r, s, theme, a + 1) # 0 =>
            theme = mine /\ a + 1 = b + 1 /\ Weight(r, s, theme, a + 1) = failed
  <2>1. Weight(r, s, theme, a + 1) \in Nat
    BY ShareSize
  <2> QED
    BY <2>1 DEF Weight, Judges, Current
<1> HIDE DEF b, mine
<1>9. b \in Nat
  BY DEF b
<1>10. CASE theme = mine /\ a = b
  <2>1. /\ rejected'[theme][a + 1] = rejected[theme][a + 1]
        /\ rejected'[theme][a] = rejected[theme][a] + failed
    BY <1>4, <1>6, <1>10
  <2>2. Weight(r, gen[r], theme, a + 1) = 0
    BY <1>4, <1>7, <1>10
  <2>3. Weight(r, s, theme, a + 1) <= failed
    BY <1>8
  <2> QED
    BY <1>1, <1>2, <1>5, <1>8, <2>1, <2>2, <2>3
<1>11. CASE theme = mine /\ a + 1 = b
  <2>1. /\ rejected'[theme][a + 1] = rejected[theme][a + 1] + failed
        /\ rejected'[theme][a] = rejected[theme][a]
    BY <1>4, <1>6, <1>11
  <2>2. Weight(r, gen[r], theme, a + 1) = Len(gen[r].pending)
    BY <1>7, <1>11
  <2>3. Weight(r, s, theme, a + 1) = 0
    BY <1>4, <1>8, <1>9, <1>11
  <2>4. Cardinality(Judging(theme, a + 1)') + Len(gen[r].pending)
          = Cardinality(Judging(theme, a + 1))
    BY <1>2, <2>2, <2>3
  <2>5. \A x, y, l, j, k \in Nat :
            x + j <= y /\ k + l = j /\ failed <= l => (x + failed) + k <= y
    OBVIOUS
  <2>6. (rejected[theme][a + 1] + failed) + Cardinality(Judging(theme, a + 1)')
          <= rejected[theme][a]
    BY <1>1, <1>2, <1>3, <1>5, <2>4, <2>5
  <2> QED
    BY <1>2, <2>1, <2>6
<1>12. CASE ~(theme = mine /\ a = b) /\ ~(theme = mine /\ a + 1 = b)
  <2>1. /\ rejected'[theme][a + 1] = rejected[theme][a + 1]
        /\ rejected'[theme][a] = rejected[theme][a]
    BY <1>4, <1>6, <1>12
  <2>2. Weight(r, gen[r], theme, a + 1) = 0
    BY <1>7, <1>12
  <2>3. Weight(r, s, theme, a + 1) = 0
    BY <1>4, <1>8, <1>9, <1>12
  <2> QED
    BY <1>1, <1>2, <1>5, <2>1, <2>2, <2>3
<1> QED
  BY <1>10, <1>11, <1>12

\* Every step keeps the funnel.
LEMMA NextFunnel ==
    ASSUME HandInv, FunnelInv, [Next]_vars
    PROVE  FunnelInv'
<1>1. CASE UNCHANGED vars
  BY <1>1 DEF vars, FunnelInv, Judging, Current
<1>2. ASSUME NEW r \in Requests, Start(r) \/ Work(r)
      PROVE  FunnelInv'
  <2>1. /\ TypeOK /\ HandInv'
        /\ gen \in [Requests -> Progress]
        /\ gen' \in [Requests -> Progress]
        /\ gen[r] \in Progress /\ RequestInv(r, gen[r])
    BY NextHand DEF HandInv, TypeOK
  <2>2. ASSUME NEW s, Step(r, s)
        PROVE  s \in Progress
    BY <2>1, <2>2 DEF Step
  <2>3. CASE Start(r)
    <3> DEFINE s == [gen[r] EXCEPT !.phase = "retrieve"]
    <3>1. Step(r, s) /\ UNCHANGED rejected /\ s.phase = "retrieve"
      BY <2>1, <2>3 DEF Start, Progress
    <3> HIDE DEF s
    <3> QED
      BY <2>1, <2>2, <3>1, FunnelStep DEF InTheme
  <2>4. CASE Retrieve(r)
    <3>1. UNCHANGED rejected
      BY <2>4 DEF Retrieve
    <3>2. PICK ranked \in Ranked[Current(r).theme] \ {<<>>} :
             LET n == Current(r).count IN
             Step(r, [gen[r] EXCEPT !.phase = "generate", !.slots = SlotsOf(Current(r), ranked),
                                    !.pending = [k \in 1 .. n |-> k], !.batch = Nones(n),
                                    !.accepted = Nones(n), !.attempt = 1])
      BY <2>4 DEF Retrieve
    <3> DEFINE n == Current(r).count
               s == [gen[r] EXCEPT !.phase = "generate", !.slots = SlotsOf(Current(r), ranked),
                                   !.pending = [k \in 1 .. n |-> k], !.batch = Nones(n),
                                   !.accepted = Nones(n), !.attempt = 1]
    <3>3. Step(r, s)
      BY <3>2
    <3>4. s.attempt = 1
      BY <2>1 DEF Progress
    <3> HIDE DEF s
    <3> QED
      BY <2>1, <2>2, <3>1, <3>3, <3>4, FunnelStep
  <2>5. CASE NoMaterial(r) \/ Fail(r)
    <3> DEFINE s == [gen[r] EXCEPT !.phase = "failed"]
    <3>1. Step(r, s) /\ UNCHANGED rejected /\ s.phase = "failed"
      BY <2>1, <2>5 DEF NoMaterial, Fail, Progress
    <3> HIDE DEF s
    <3> QED
      BY <2>1, <2>2, <3>1, FunnelStep DEF InTheme
  <2>6. CASE Generate(r)
    <3>1. gen[r].phase = "generate" /\ UNCHANGED rejected
      BY <2>6 DEF Generate
    <3>2. PICK reply \in Replies :
             LET answered == [gen[r] EXCEPT !.batch =
                        Answers(PromptFor(gen[r], [k \in DOMAIN gen[r].pending |-> k]), reply)]
             IN  Step(r, IF Complete(answered.batch) THEN Generated(r, answered)
                         ELSE [answered EXCEPT !.phase = "retry"])
      BY <2>6 DEF Generate
    <3> DEFINE batch == Answers(PromptFor(gen[r], [k \in DOMAIN gen[r].pending |-> k]), reply)
    <3>3. batch \in Seq(Item \cup {None})
      <4>1. /\ PositionsInv(gen[r], Plan[r][gen[r].entry].count)
            /\ Plan[r][gen[r].entry].count \in Nat
        BY <2>1, <3>1, Working DEF InTheme
      <4> QED
        BY <2>1, <4>1, BatchShown, PositionsFunctions, SequenceOf
    <3> HIDE DEF batch
    <3> DEFINE answered == [gen[r] EXCEPT !.batch = batch]
    <3>4. /\ answered \in Progress
          /\ answered.entry = gen[r].entry
          /\ answered.attempt = gen[r].attempt
          /\ answered.pending = gen[r].pending
      BY <2>1, <3>3 DEF Progress
    <3> DEFINE s == IF Complete(answered.batch) THEN Generated(r, answered)
                    ELSE [answered EXCEPT !.phase = "retry"]
    <3>5. \/ s.phase \notin InTheme
          \/ /\ s.entry = gen[r].entry
             /\ s.attempt = gen[r].attempt
             /\ s.pending = gen[r].pending
      <4> HIDE DEF answered
      <4> QED
        BY <3>4, GeneratedKeeps DEF Progress
    <3>6. Step(r, s)
      BY <3>2 DEF batch
    <3> HIDE DEF s
    <3> QED
      BY <2>1, <2>2, <3>1, <3>5, <3>6, FunnelStep DEF InTheme
  <2>7. CASE Retry(r)
    <3> DEFINE missing == Missing(gen[r].batch)
    <3>1. gen[r].phase = "retry" /\ UNCHANGED rejected
      BY <2>7 DEF Retry
    <3>2. PICK reply \in Replies :
             Step(r, Retried(r, [gen[r] EXCEPT !.batch =
                     Merge(@, missing, Answers(PromptFor(gen[r], missing), reply))]))
      BY <2>7 DEF Retry
    <3> DEFINE batch == Merge(gen[r].batch, missing, Answers(PromptFor(gen[r], missing), reply))
    <3>3. batch \in Seq(Item \cup {None})
      <4>1. /\ PositionsInv(gen[r], Plan[r][gen[r].entry].count) /\ ShownInv(gen[r])
            /\ Plan[r][gen[r].entry].count \in Nat
        BY <2>1, <3>1, Working DEF InTheme
      <4> QED
        BY <2>1, <4>1, MergedShown, PositionsFunctions, SequenceOf
    <3> DEFINE answered == [gen[r] EXCEPT !.batch = batch]
    <3>4. /\ answered \in Progress
          /\ answered.entry = gen[r].entry
          /\ answered.attempt = gen[r].attempt
          /\ answered.pending = gen[r].pending
      <4> HIDE DEF batch
      <4> QED
        BY <2>1, <3>3 DEF Progress
    <3>5. Step(r, Retried(r, answered))
      BY <2>1, <3>2 DEF Progress
    <3> HIDE DEF answered
    <3>6. \/ Retried(r, answered).phase \notin InTheme
          \/ /\ Retried(r, answered).entry = gen[r].entry
             /\ Retried(r, answered).attempt = gen[r].attempt
             /\ Retried(r, answered).pending = gen[r].pending
      <4>1. CASE Complete(answered.batch)
        BY <3>4, <4>1, GeneratedKeeps DEF Retried
      <4>2. CASE ~Complete(answered.batch)
        <5>1. Retried(r, answered).phase = "failed"
          BY <3>4, <4>2 DEF Retried, Progress
        <5> QED
          BY <5>1 DEF InTheme
      <4> QED
        BY <4>1, <4>2
    <3> QED
      BY <2>1, <2>2, <3>1, <3>5, <3>6, FunnelStep DEF InTheme
  <2>8. CASE Critique(r)
    <3>1. gen[r].phase = "critique"
      BY <2>8 DEF Critique
    <3>2. PICK verdicts \in [DOMAIN gen[r].pending -> BOOLEAN] :
             LET failed == Failed(gen[r], verdicts)
                 judged == [gen[r] EXCEPT !.accepted = Accept(gen[r], verdicts)]
             IN  /\ rejected' = [rejected EXCEPT
                                   ![Current(r).theme][gen[r].attempt] = @ + Len(failed)]
                 /\ Step(r, IF failed = <<>> \/ gen[r].attempt > MAX_REFINE_ATTEMPTS
                            THEN Finish(r, judged, Kept(judged.accepted))
                            ELSE [judged EXCEPT !.phase = "generate", !.pending = failed,
                                     !.batch = Nones(Len(failed)), !.attempt = @ + 1])
      BY <2>8 DEF Critique
    <3> DEFINE n == Plan[r][gen[r].entry].count
               failed == Failed(gen[r], verdicts)
               accepted == Accept(gen[r], verdicts)
               judged == [gen[r] EXCEPT !.accepted = accepted]
               done == failed = <<>> \/ gen[r].attempt > MAX_REFINE_ATTEMPTS
               s == IF done THEN Finish(r, judged, Kept(judged.accepted))
                    ELSE [judged EXCEPT !.phase = "generate", !.pending = failed,
                             !.batch = Nones(Len(failed)), !.attempt = @ + 1]
    <3>3. /\ n \in Nat /\ PositionsInv(gen[r], n) /\ ShownInv(gen[r])
          /\ Complete(gen[r].batch)
          /\ gen[r].entry \in 1 .. Len(Plan[r])
          /\ gen[r].attempt \in 1 .. MAX_REFINE_ATTEMPTS + 1
      BY <2>1, <3>1, Working DEF InTheme, RequestInv, ShownInv
    <3>4. Len(failed) \in Nat /\ Len(failed) <= Len(gen[r].pending)
      BY <2>1, <3>3, FewerFailed
    <3>5. accepted \in Seq(Question \cup {None})
      BY <2>1, <3>3, AcceptedShown, SequenceOf
    <3>6. Current(r).theme \in Themes
      BY <3>3, PlanEntry DEF Current, Entry
    <3>7. /\ rejected' = [rejected EXCEPT
                           ![Current(r).theme][gen[r].attempt] = @ + Len(failed)]
          /\ Step(r, s)
      BY <3>2
    <3> HIDE DEF accepted, failed, n
    <3>8. \/ s.phase \notin InTheme
          \/ /\ s.entry = gen[r].entry
             /\ s.attempt = gen[r].attempt + 1
             /\ Len(s.pending) = Len(failed)
      <4>1. judged \in Progress
        BY <2>1, <3>5 DEF Progress
      <4>2. CASE done
        <5> HIDE DEF judged
        <5> QED
          BY <4>1, <4>2, FinishPhase
      <4>3. CASE ~done
        BY <2>1, <4>3 DEF Progress
      <4> QED
        BY <4>2, <4>3
    <3> HIDE DEF s
    <3> QED
      BY <2>1, <2>2, <3>1, <3>3, <3>4, <3>6, <3>7, <3>8, FunnelCritique
  <2>9. CASE Save(r)
    <3> DEFINE s == [gen[r] EXCEPT !.phase = "ready"]
    <3>1. Step(r, s) /\ UNCHANGED rejected /\ s.phase = "ready"
      BY <2>1, <2>9 DEF Save, Progress
    <3> HIDE DEF s
    <3> QED
      BY <2>1, <2>2, <3>1, FunnelStep DEF InTheme
  <2> QED
    BY <1>2, <2>3, <2>4, <2>5, <2>6, <2>7, <2>8, <2>9 DEF Work
<1> QED
  BY <1>1, <1>2 DEF Next

\* At first nothing is judged and nothing rejected.
LEMMA InitFunnel == Init => FunnelInv
<1> SUFFICES ASSUME Init, NEW theme \in Themes, NEW a \in 1 .. MAX_REFINE_ATTEMPTS
             PROVE  /\ IsFiniteSet(Judging(theme, a + 1))
                    /\ rejected[theme][a + 1] + Cardinality(Judging(theme, a + 1))
                         <= rejected[theme][a]
  BY DEF FunnelInv
<1>1. Judging(theme, a + 1) = {}
  BY DEF Init, Fresh, Judging, InTheme
<1>2. IsFiniteSet(Judging(theme, a + 1)) /\ Cardinality(Judging(theme, a + 1)) = 0
  BY <1>1, FS_EmptySet
<1>3. a \in 1 .. MAX_REFINE_ATTEMPTS + 1 /\ a + 1 \in 1 .. MAX_REFINE_ATTEMPTS + 1
  BY RefineAssumption
<1> QED
  BY <1>2, <1>3 DEF Init

-----------------------------------------------------------------------------
(* What a request may return *)

\* The questions of a whole theme, scenarios last.
WholeTheme(entry, themed) ==
    /\ Len(themed) = entry.count
    /\ \A k \in DOMAIN themed :
          /\ themed[k].slot.theme = entry.theme
          /\ themed[k].slot.kind =
                IF k > entry.count - entry.scenarios THEN "scenario" ELSE "knowledge"

\* The numbers up to n in ascending order are themselves.
LEMMA AscendingAll ==
    ASSUME NEW n \in Nat
    PROVE  Ascending(1 .. n) = [k \in 1 .. n |-> k]
<1> DEFINE At(k) == CHOOSE i \in 1 .. n : Rank(1 .. n, i) = k
<1>1. Cardinality(1 .. n) = n
  BY FS_Interval
<1>2. ASSUME NEW i \in 1 .. n
      PROVE  Rank(1 .. n, i) = i
  <2>1. {j \in 1 .. n : j <= i} = 1 .. i /\ i \in Nat
    OBVIOUS
  <2>2. Cardinality(1 .. i) = i
    BY <2>1, FS_Interval
  <2> QED
    BY <2>1, <2>2 DEF Rank
<1>3. \A k \in 1 .. n : At(k) = k
  BY <1>2
<1>4. Ascending(1 .. n) = [k \in 1 .. n |-> At(k)]
  BY <1>1 DEF Ascending, Rank
<1> QED
  BY <1>3, <1>4

\* The kept questions are accepted ones, no more than there are positions, and all
\* in their positions when they are as many.
LEMMA KeptParts ==
    ASSUME NEW n \in Nat, NEW accepted \in [1 .. n -> Question \cup {None}]
    PROVE  /\ Len(Kept(accepted)) \in Nat /\ Len(Kept(accepted)) <= n
           /\ \A k \in DOMAIN Kept(accepted) :
                 \E p \in 1 .. n : accepted[p] # None /\ Kept(accepted)[k] = accepted[p]
           /\ Len(Kept(accepted)) = n =>
                 /\ DOMAIN Kept(accepted) = 1 .. n
                 /\ \A p \in 1 .. n : accepted[p] # None /\ Kept(accepted)[p] = accepted[p]
<1> DEFINE there == {p \in DOMAIN accepted : accepted[p] # None}
           positions == Ascending(there)
<1>1. IsFiniteSet(1 .. n) /\ Cardinality(1 .. n) = n
  BY FS_Interval
<1>2. /\ there \in SUBSET Nat /\ IsFiniteSet(there)
      /\ Cardinality(there) <= n
      /\ Cardinality(there) = n => there = 1 .. n
  <2>1. there \in SUBSET (1 .. n) /\ there \in SUBSET Nat
    OBVIOUS
  <2> HIDE DEF there
  <2>2. IsFiniteSet(there) /\ Cardinality(there) <= Cardinality(1 .. n)
        /\ (Cardinality(there) = Cardinality(1 .. n) => 1 .. n = there)
    BY <1>1, <2>1, FS_Subset
  <2> QED
    BY <1>1, <2>1, <2>2
<1>3. Cardinality(there) \in Nat /\ positions \in [1 .. Cardinality(there) -> there]
  BY <1>2, AscendingLists
<1>4. \A p \in there : p \in 1 .. n /\ accepted[p] # None /\ accepted[p] \in Question
  OBVIOUS
<1>5. Kept(accepted) = [k \in DOMAIN positions |-> accepted[positions[k]]]
  BY DEF Kept
<1>6. there = 1 .. n => positions = [k \in 1 .. n |-> k]
  BY AscendingAll
<1> HIDE DEF there, positions
<1>7. Kept(accepted) \in [1 .. Cardinality(there) -> Question]
  BY <1>3, <1>4, <1>5
<1>8. Len(Kept(accepted)) = Cardinality(there) /\ DOMAIN Kept(accepted) = 1 .. Cardinality(there)
  BY <1>3, <1>7, SequenceOf
<1>9. \A k \in DOMAIN Kept(accepted) : positions[k] \in there
                                      /\ Kept(accepted)[k] = accepted[positions[k]]
  BY <1>3, <1>5, <1>8
<1>10. Len(Kept(accepted)) = n =>
          \A p \in 1 .. n : accepted[p] # None /\ Kept(accepted)[p] = accepted[p]
  <2>1. Len(Kept(accepted)) = n => there = 1 .. n /\ DOMAIN Kept(accepted) = 1 .. n
    BY <1>2, <1>8
  <2> QED
    BY <1>4, <1>6, <1>9, <2>1
<1> QED
  BY <1>2, <1>3, <1>4, <1>8, <1>9, <1>10

\* Questions on other themes change nothing about a theme.
LEMMA OtherTheme ==
    ASSUME NEW first \in Seq(Question), NEW themed \in Seq(Question), NEW theme,
           \A k \in DOMAIN themed : themed[k].slot.theme # theme
    PROVE  /\ OnTheme(first \o themed, theme) = OnTheme(first, theme)
           /\ Scenarios(first \o themed, theme) = Scenarios(first, theme)
<1> DEFINE all == first \o themed
<1>1. /\ Len(first) \in Nat /\ Len(themed) \in Nat
      /\ DOMAIN first = 1 .. Len(first) /\ DOMAIN themed = 1 .. Len(themed)
      /\ DOMAIN all = 1 .. Len(first) + Len(themed)
      /\ \A i \in DOMAIN all :
            all[i] = IF i <= Len(first) THEN first[i] ELSE themed[i - Len(first)]
  OBVIOUS
<1> HIDE DEF all
<1>2. \A i \in DOMAIN all : i > Len(first) => all[i].slot.theme # theme
  BY <1>1
<1>3. \A i \in DOMAIN first : i \in DOMAIN all /\ all[i] = first[i]
  BY <1>1
<1>4. \A i \in DOMAIN all : ~(i > Len(first)) => i \in DOMAIN first
  BY <1>1
<1>5. OnTheme(all, theme) = OnTheme(first, theme)
  BY <1>2, <1>3, <1>4 DEF OnTheme
<1>6. Scenarios(all, theme) = Scenarios(first, theme)
  BY <1>3, <1>5 DEF Scenarios, OnTheme
<1> QED
  BY <1>5, <1>6 DEF all

\* A theme that is full stays so when another theme follows.
LEMMA StaysFull ==
    ASSUME NEW first \in Seq(Question), NEW themed \in Seq(Question), NEW entry \in Entry,
           \A k \in DOMAIN themed : themed[k].slot.theme # entry.theme
    PROVE  FullTheme(entry, first) => FullTheme(entry, first \o themed)
BY OtherTheme DEF FullTheme

\* A whole theme after questions on other themes is full.
LEMMA BecomesFull ==
    ASSUME NEW first \in Seq(Question), NEW themed \in Seq(Question), NEW entry \in Entry,
           entry.scenarios <= entry.count, OnTheme(first, entry.theme) = {},
           WholeTheme(entry, themed)
    PROVE  FullTheme(entry, first \o themed)
<1> DEFINE all == first \o themed
           low == Len(first)
           n == entry.count
           m == entry.scenarios
<1>1. /\ low \in Nat /\ n \in Nat /\ m \in Nat /\ m <= n
      /\ Len(themed) = n
      /\ DOMAIN first = 1 .. low
      /\ DOMAIN all = 1 .. low + n
      /\ \A i \in DOMAIN all : all[i] = IF i <= low THEN first[i] ELSE themed[i - low]
  BY DEF Entry, WholeTheme
<1> HIDE DEF all, low, n, m
<1>2. \A i \in 1 .. low : i \in DOMAIN all /\ all[i].slot.theme # entry.theme
  <2>1. \A i \in 1 .. low : first[i].slot.theme # entry.theme
    BY <1>1 DEF OnTheme
  <2> QED
    BY <1>1, <2>1
<1>3. \A i \in low + 1 .. low + n :
          /\ i \in DOMAIN all
          /\ all[i].slot.theme = entry.theme
          /\ all[i].slot.kind = IF i - low > n - m THEN "scenario" ELSE "knowledge"
  <2>1. ASSUME NEW i \in low + 1 .. low + n
        PROVE  i - low \in 1 .. n /\ i \in DOMAIN all /\ ~(i <= low)
    BY <1>1
  <2>2. \A k \in 1 .. n :
            /\ themed[k].slot.theme = entry.theme
            /\ themed[k].slot.kind = IF k > n - m THEN "scenario" ELSE "knowledge"
    BY <1>1 DEF WholeTheme, n, m
  <2> QED
    BY <1>1, <2>1, <2>2
<1>4. OnTheme(all, entry.theme) = low + 1 .. low + n
  <2>1. \A i \in DOMAIN all : i \in 1 .. low \/ i \in low + 1 .. low + n
    BY <1>1
  <2> QED
    BY <1>2, <1>3, <2>1 DEF OnTheme
<1>5. Scenarios(all, entry.theme) = low + (n - m) + 1 .. low + n
  <2>1. \A i \in low + 1 .. low + n :
            all[i].slot.kind = "scenario" <=> i \in low + (n - m) + 1 .. low + n
    BY <1>1, <1>3
  <2>2. \A i \in low + (n - m) + 1 .. low + n : i \in low + 1 .. low + n
    BY <1>1
  <2> QED
    BY <1>4, <2>1, <2>2 DEF Scenarios
<1>6. Cardinality(OnTheme(all, entry.theme)) = n
  BY <1>1, <1>4, FS_Interval
<1>7. Cardinality(Scenarios(all, entry.theme)) = m
  BY <1>1, <1>5, FS_Interval
<1>8. \A i \in Scenarios(all, entry.theme) : \A j \in OnTheme(all, entry.theme) :
          j > i => j \in Scenarios(all, entry.theme)
  BY <1>1, <1>4, <1>5
<1> QED
  BY <1>6, <1>7, <1>8 DEF FullTheme, all, n, m

\* Questions of a quiz: on its theme, none of them a scenario.
QuizList(entry, themed) ==
    /\ Len(themed) <= entry.count
    /\ \A k \in DOMAIN themed :
          themed[k].slot.theme = entry.theme /\ themed[k].slot.kind = "knowledge"

\* A theme that is done fits the plan of its request.
LEMMA FinishFit ==
    ASSUME NEW r \in Requests, NEW s \in Progress, RequestInv(r, s), FitInv(r, s),
           s.phase \in InTheme, NEW themed \in Seq(Question),
           r \in Exams /\ ~(Len(themed) < Plan[r][s.entry].count) =>
               WholeTheme(Plan[r][s.entry], themed),
           r \notin Exams => QuizList(Plan[r][s.entry], themed)
    PROVE  FitInv(r, Finish(r, s, themed))
<1> DEFINE phase == IF s.entry < Len(Plan[r]) THEN "retrieve" ELSE "save"
           entry == IF s.entry < Len(Plan[r]) THEN s.entry + 1 ELSE s.entry
           all == s.collected \o themed
           t == [s EXCEPT !.collected = all, !.phase = phase, !.entry = entry]
           Given == Plan[r][s.entry]
<1>1. /\ s.collected \in Seq(Question) /\ s.entry \in 1 .. Len(Plan[r])
      /\ Len(Plan[r]) \in Nat /\ DOMAIN Plan[r] = 1 .. Len(Plan[r])
      /\ Given \in Entry
      /\ \A e \in DOMAIN Plan[r] : Plan[r][e] \in Entry
  <2>1. s.entry \in 1 .. Len(Plan[r]) /\ s.collected \in Seq(Question)
    BY DEF RequestInv, Progress
  <2>2. Plan[r] \in Seq(Entry)
    BY PlanAssumption
  <2> QED
    BY <2>1, <2>2, PlanEntry
<1>2. CASE themed = <<>> \/ (r \in Exams /\ Len(themed) < Plan[r][s.entry].count)
  <2>1. Finish(r, s, themed).phase = "failed"
    BY <1>2 DEF Finish, Progress
  <2> QED
    BY <2>1 DEF FitInv, InTheme
<1>3. CASE ~(themed = <<>> \/ (r \in Exams /\ Len(themed) < Plan[r][s.entry].count))
  <2>1. Finish(r, s, themed) = t
    BY <1>3 DEF Finish
  <2>2. t.collected = all /\ t.phase = phase /\ t.entry = entry
    BY DEF Progress
  <2>3. /\ s.entry < Len(Plan[r]) => t.phase = "retrieve" /\ t.entry = s.entry + 1
        /\ ~(s.entry < Len(Plan[r])) =>
              t.phase = "save" /\ t.entry = s.entry /\ s.entry = Len(Plan[r])
        /\ t.phase \in {"retrieve", "save"}
    BY <1>1, <2>2
  <2> HIDE DEF t, all, phase, entry
  <2>4. ASSUME r \in Exams, NEW e \in DOMAIN Plan[r]
        PROVE  IF e < t.entry \/ t.phase \in {"save", "ready"}
                 THEN FullTheme(Plan[r][e], t.collected)
                 ELSE OnTheme(t.collected, Plan[r][e].theme) = {}
    <3>1. WholeTheme(Given, themed)
      BY <1>3, <2>4
    <3>2. IF e < s.entry THEN FullTheme(Plan[r][e], s.collected)
          ELSE OnTheme(s.collected, Plan[r][e].theme) = {}
      BY <2>4 DEF FitInv, InTheme
    <3>3. CASE e = s.entry
      <4>1. Given.scenarios <= Given.count
        BY <1>1, ThemesAssumption
      <4>2. OnTheme(s.collected, Given.theme) = {}
        BY <1>1, <3>2, <3>3
      <4>3. FullTheme(Given, all)
        BY <1>1, <3>1, <4>1, <4>2, BecomesFull DEF all
      <4>4. e < t.entry \/ t.phase \in {"save", "ready"}
        BY <1>1, <2>3, <3>3
      <4> QED
        BY <2>2, <3>3, <4>3, <4>4
    <3>4. CASE e # s.entry
      <4>1. \A k \in DOMAIN themed : themed[k].slot.theme # Plan[r][e].theme
        <5>1. Plan[r][e].theme # Given.theme
          BY <1>1, <3>4, ThemesAssumption
        <5> QED
          BY <3>1, <5>1 DEF WholeTheme
      <4>2. /\ FullTheme(Plan[r][e], s.collected) => FullTheme(Plan[r][e], all)
            /\ OnTheme(all, Plan[r][e].theme) = OnTheme(s.collected, Plan[r][e].theme)
        BY <1>1, <4>1, StaysFull, OtherTheme DEF all
      <4>3. (e < t.entry \/ t.phase \in {"save", "ready"}) <=> e < s.entry
        BY <1>1, <2>3, <3>4
      <4> QED
        BY <2>2, <3>2, <4>2, <4>3
    <3> QED
      BY <3>3, <3>4
  <2>5. ASSUME r \notin Exams
        PROVE  t.collected # <<>> /\ QuizTheme(Plan[r][1], t.collected)
    <3>1. s.entry = 1 /\ s.collected = <<>>
      BY <1>1, <2>5, PlanEntry DEF RequestInv, QuizInv
    <3>2. t.collected = themed
      BY <2>2, <3>1, ConcatEmptySeq DEF all
    <3> QED
      BY <1>3, <2>5, <3>1, <3>2 DEF QuizList, QuizTheme, OnTheme, Scenarios
  <2>6. FitInv(r, t)
    BY <2>3, <2>4, <2>5 DEF FitInv, InTheme
  <2> QED
    BY <2>1, <2>6
<1> QED
  BY <1>2, <1>3

\* Work within a theme keeps the fit; without a critic, as its positions stay.
LEMMA KeepsFit ==
    ASSUME NEW r \in Requests, NEW s, NEW t, FitInv(r, s),
           s.phase \in InTheme, t.phase \in InTheme,
           t.entry = s.entry, t.slots = s.slots, t.collected = s.collected,
           r \in Critics \/ t.pending = s.pending
    PROVE  FitInv(r, t)
BY DEF FitInv, InTheme

\* The slots and the kinds of a theme's questions.
LEMMA SlotsFit ==
    ASSUME NEW r \in Requests, NEW s \in Progress, RequestInv(r, s), FitInv(r, s),
           s.phase \in InTheme
    PROVE  /\ Plan[r][s.entry].count \in Nat
           /\ \A p \in 1 .. Plan[r][s.entry].count :
                 /\ s.slots[p].theme = Plan[r][s.entry].theme
                 /\ s.slots[p].kind =
                       IF p > Plan[r][s.entry].count - Plan[r][s.entry].scenarios
                         THEN "scenario" ELSE "knowledge"
                 /\ r \notin Exams => s.slots[p].kind = "knowledge"
<1>1. /\ Plan[r][s.entry].count \in Nat
      /\ PositionsInv(s, Plan[r][s.entry].count)
  BY Working
<1>2. DOMAIN s.slots = 1 .. Plan[r][s.entry].count
  BY <1>1, PositionsFunctions
<1>3. r \notin Exams => Plan[r][s.entry].scenarios = 0
  BY PlanEntry, QuizAssumption DEF RequestInv
<1> QED
  BY <1>1, <1>2, <1>3 DEF FitInv

\* A complete batch fits: the critic's, or the theme's questions.
LEMMA GeneratedFit ==
    ASSUME NEW r \in Requests, NEW s \in Progress, RequestInv(r, s), FitInv(r, s),
           s.phase \in {"generate", "retry"}, Complete(s.batch)
    PROVE  FitInv(r, Generated(r, s))
<1> DEFINE n == Plan[r][s.entry].count
<1>1. n \in Nat /\ PositionsInv(s, n) /\ ShownInv(s) /\ s.phase \in InTheme
  BY Working DEF InTheme
<1>2. CASE r \in Critics
  <2> DEFINE t == [s EXCEPT !.phase = "critique"]
  <2>1. /\ t.phase \in InTheme /\ t.entry = s.entry /\ t.slots = s.slots
        /\ t.collected = s.collected /\ t.pending = s.pending
    BY DEF Progress, InTheme
  <2> HIDE DEF t
  <2>2. FitInv(r, t)
    BY <1>1, <2>1, KeepsFit
  <2> QED
    BY <1>2, <2>2 DEF Generated, t
<1>3. CASE r \notin Critics
  <2>1. Len(s.pending) = n /\ \A k \in 1 .. n : s.pending[k] = k
    <3>1. Len(s.pending) = n
      BY <1>1, <1>3 DEF RequestInv
    <3> QED
      BY <1>1, <1>3, <3>1, PositionsFunctions DEF FitInv
  <2>2. /\ Questions(s) \in [1 .. n -> Question]
        /\ \A k \in 1 .. n : Questions(s)[k].slot = s.slots[k]
    BY <1>1, <2>1, QuestionsShown
  <2>3. /\ Questions(s) \in Seq(Question) /\ Len(Questions(s)) = n
        /\ DOMAIN Questions(s) = 1 .. n
    BY <1>1, <2>2, SequenceOf
  <2>4. WholeTheme(Plan[r][s.entry], Questions(s))
    BY <1>1, <2>2, <2>3, SlotsFit DEF WholeTheme
  <2>5. r \notin Exams => QuizList(Plan[r][s.entry], Questions(s))
    BY <1>1, <2>2, <2>3, SlotsFit DEF QuizList
  <2>6. FitInv(r, Finish(r, s, Questions(s)))
    BY <1>1, <2>3, <2>4, <2>5, FinishFit
  <2> QED
    BY <1>3, <2>6 DEF Generated
<1> QED
  BY <1>2, <1>3

\* The first call of a batch keeps the fit.
LEMMA GenerateFit ==
    ASSUME NEW r \in Requests, NEW s \in Progress, RequestInv(r, s), FitInv(r, s),
           s.phase = "generate", NEW reply \in Replies
    PROVE  LET answered == [s EXCEPT !.batch =
                              Answers(PromptFor(s, [k \in DOMAIN s.pending |-> k]), reply)]
           IN  FitInv(r, IF Complete(answered.batch) THEN Generated(r, answered)
                         ELSE [answered EXCEPT !.phase = "retry"])
<1> DEFINE batch == Answers(PromptFor(s, [k \in DOMAIN s.pending |-> k]), reply)
           answered == [s EXCEPT !.batch = batch]
           again == [answered EXCEPT !.phase = "retry"]
<1>1. /\ batch \in [1 .. Len(s.pending) -> Item \cup {None}]
      /\ \A k \in 1 .. Len(s.pending) :
            batch[k] # None => batch[k].shown = s.slots[s.pending[k]]
  BY Working, BatchShown DEF InTheme
<1> HIDE DEF batch
<1>2. answered = [s EXCEPT !.batch = batch, !.phase = "generate"]
  BY DEF Progress
<1>3. answered \in Progress /\ RequestInv(r, answered)
  <2>1. /\ [s EXCEPT !.batch = batch, !.phase = "generate"] \in Progress
        /\ RequestInv(r, [s EXCEPT !.batch = batch, !.phase = "generate"])
    BY <1>1, BatchInv
  <2> QED
    BY <1>2, <2>1
<1>4. /\ answered.phase = "generate" /\ answered.entry = s.entry /\ answered.slots = s.slots
      /\ answered.collected = s.collected /\ answered.pending = s.pending
      /\ again.phase = "retry" /\ again.entry = s.entry /\ again.slots = s.slots
      /\ again.collected = s.collected /\ again.pending = s.pending
  BY DEF Progress
<1> HIDE DEF answered, again
<1>5. FitInv(r, answered) /\ FitInv(r, again)
  BY <1>4, KeepsFit DEF InTheme
<1>6. Complete(answered.batch) => FitInv(r, Generated(r, answered))
  BY <1>3, <1>4, <1>5, GeneratedFit
<1> QED
  BY <1>5, <1>6 DEF again, answered, batch

\* The retry of the skipped groups keeps the fit.
LEMMA RetryFit ==
    ASSUME NEW r \in Requests, NEW s \in Progress, RequestInv(r, s), FitInv(r, s),
           s.phase = "retry", NEW reply \in Replies
    PROVE  LET missing == Missing(s.batch)
           IN  FitInv(r, Retried(r, [s EXCEPT !.batch =
                                Merge(@, missing, Answers(PromptFor(s, missing), reply))]))
<1> DEFINE missing == Missing(s.batch)
           batch == Merge(s.batch, missing, Answers(PromptFor(s, missing), reply))
           merged == [s EXCEPT !.batch = batch]
<1>1. /\ batch \in [1 .. Len(s.pending) -> Item \cup {None}]
      /\ \A k \in 1 .. Len(s.pending) :
            batch[k] # None => batch[k].shown = s.slots[s.pending[k]]
  BY Working, MergedShown DEF InTheme
<1> HIDE DEF batch
<1>2. merged = [s EXCEPT !.batch = batch, !.phase = "retry"]
  BY DEF Progress
<1>3. merged \in Progress /\ RequestInv(r, merged)
  BY <1>1, <1>2, BatchInv
<1>4. /\ merged.phase = "retry" /\ merged.entry = s.entry /\ merged.slots = s.slots
      /\ merged.collected = s.collected /\ merged.pending = s.pending
  BY DEF Progress
<1> HIDE DEF merged
<1>5. FitInv(r, merged)
  BY <1>4, KeepsFit DEF InTheme
<1>6. Complete(merged.batch) => FitInv(r, Generated(r, merged))
  BY <1>3, <1>4, <1>5, GeneratedFit
<1>7. FitInv(r, [merged EXCEPT !.phase = "failed"])
  BY <1>3 DEF Progress, FitInv, InTheme
<1>8. FitInv(r, Retried(r, merged))
  BY <1>6, <1>7 DEF Retried
<1> QED
  BY <1>8 DEF merged, batch

\* A round of the critic keeps the fit.
LEMMA CritiqueFit ==
    ASSUME NEW r \in Requests, NEW s \in Progress, RequestInv(r, s), FitInv(r, s),
           s.phase = "critique", NEW verdicts \in [DOMAIN s.pending -> BOOLEAN]
    PROVE  LET failed == Failed(s, verdicts)
               judged == [s EXCEPT !.accepted = Accept(s, verdicts)]
           IN  FitInv(r, IF failed = <<>> \/ s.attempt > MAX_REFINE_ATTEMPTS
                         THEN Finish(r, judged, Kept(judged.accepted))
                         ELSE [judged EXCEPT !.phase = "generate", !.pending = failed,
                                             !.batch = Nones(Len(failed)), !.attempt = @ + 1])
<1> DEFINE n == Plan[r][s.entry].count
           accepted == Accept(s, verdicts)
           failed == Failed(s, verdicts)
           judged == [s EXCEPT !.accepted = accepted]
           again == [judged EXCEPT !.phase = "generate", !.pending = failed,
                                   !.batch = Nones(Len(failed)), !.attempt = @ + 1]
<1>1. /\ n \in Nat /\ PositionsInv(s, n) /\ ShownInv(s) /\ Complete(s.batch)
      /\ r \in Critics /\ s.phase \in InTheme
  BY Working DEF InTheme, RequestInv, ShownInv
<1>2. /\ accepted \in [1 .. n -> Question \cup {None}]
      /\ \A p \in 1 .. n : accepted[p] # None =>
            accepted[p].slot = s.slots[p] /\ accepted[p].shown = s.slots[p]
      /\ \A p \in 1 .. n : accepted[p] = None =>
            \E k \in DOMAIN verdicts : s.pending[k] = p /\ ~verdicts[k]
  BY <1>1, AcceptedShown
<1> HIDE DEF accepted, failed
<1>3. accepted \in Seq(Question \cup {None}) /\ Len(accepted) = n /\ DOMAIN accepted = 1 .. n
  BY <1>1, <1>2, SequenceOf
<1>4. judged \in Progress
  BY <1>3 DEF Progress
<1>5. /\ judged.accepted = accepted /\ judged.collected = s.collected
      /\ judged.entry = s.entry /\ judged.attempt = s.attempt /\ judged.slots = s.slots
      /\ judged.pending = s.pending /\ judged.batch = s.batch /\ judged.phase = "critique"
      /\ again.phase = "generate" /\ again.collected = s.collected
      /\ again.entry = s.entry /\ again.slots = s.slots
  BY DEF Progress
<1> HIDE DEF judged, again
<1>6. FitInv(r, again)
  BY <1>1, <1>5, KeepsFit DEF InTheme
<1>7. FitInv(r, Finish(r, judged, Kept(accepted)))
  <2> DEFINE kept == Kept(accepted)
             entry == Plan[r][s.entry]
  <2>1. kept \in Seq(Question)
    <3>1. \A p \in 1 .. n : accepted[p] # None => accepted[p].slot = accepted[p].shown
      BY <1>2
    <3> QED
      BY <1>1, <1>2, <3>1, KeptShown
  <2>2. /\ Len(kept) \in Nat /\ Len(kept) <= n
        /\ \A k \in DOMAIN kept : \E p \in 1 .. n : accepted[p] # None /\ kept[k] = accepted[p]
        /\ Len(kept) = n =>
              /\ DOMAIN kept = 1 .. n
              /\ \A p \in 1 .. n : accepted[p] # None /\ kept[p] = accepted[p]
    BY <1>1, <1>2, KeptParts
  <2> HIDE DEF kept
  <2>3. ASSUME ~(Len(kept) < n)
        PROVE  WholeTheme(entry, kept)
    <3>1. Len(kept) = n
      BY <1>1, <2>2, <2>3
    <3> QED
      BY <1>1, <1>2, <2>2, <3>1, SlotsFit DEF WholeTheme
  <2>4. ASSUME r \notin Exams
        PROVE  QuizList(entry, kept)
    <3>1. ASSUME NEW k \in DOMAIN kept
          PROVE  kept[k].slot.theme = entry.theme /\ kept[k].slot.kind = "knowledge"
      <4>1. PICK p \in 1 .. n : accepted[p] # None /\ kept[k] = accepted[p]
        BY <2>2
      <4>2. kept[k].slot = s.slots[p]
        BY <1>2, <4>1
      <4> QED
        BY <1>1, <2>4, <4>2, SlotsFit
    <3> QED
      BY <2>2, <3>1 DEF QuizList
  <2>5. FitInv(r, judged)
    BY <1>1, <1>5, KeepsFit DEF InTheme
  <2>6. RequestInv(r, judged)
    <3>1. PositionsInv(judged, n)
      BY <1>1, <1>3, <1>5 DEF PositionsInv
    <3>2. DOMAIN verdicts = DOMAIN s.pending
      OBVIOUS
    <3>3. ShownInv(judged)
      BY <1>1, <1>2, <1>3, <1>5, <3>2 DEF ShownInv
    <3> QED
      BY <1>1, <1>5, <3>1, <3>3 DEF RequestInv, QuizInv, InTheme
  <2>7. /\ judged.phase \in InTheme
        /\ r \in Exams /\ ~(Len(kept) < Plan[r][judged.entry].count) =>
              WholeTheme(Plan[r][judged.entry], kept)
        /\ r \notin Exams => QuizList(Plan[r][judged.entry], kept)
    BY <1>5, <2>3, <2>4 DEF InTheme
  <2>8. FitInv(r, Finish(r, judged, kept))
    BY <1>4, <2>1, <2>5, <2>6, <2>7, FinishFit
  <2> QED
    BY <2>8 DEF kept
<1> QED
  BY <1>5, <1>6, <1>7 DEF again, judged, accepted, failed

\* A theme starts with slots of its own, in an exam that has nothing on it yet.
LEMMA RetrieveFit ==
    ASSUME NEW r \in Requests, NEW s \in Progress, RequestInv(r, s), FitInv(r, s),
           s.phase = "retrieve", NEW ranked \in Ranked[Plan[r][s.entry].theme] \ {<<>>}
    PROVE  LET n == Plan[r][s.entry].count
           IN  FitInv(r, [s EXCEPT !.phase = "generate",
                                   !.slots = SlotsOf(Plan[r][s.entry], ranked),
                                   !.pending = [k \in 1 .. n |-> k], !.batch = Nones(n),
                                   !.accepted = Nones(n), !.attempt = 1])
<1> DEFINE n == Plan[r][s.entry].count
           slots == SlotsOf(Plan[r][s.entry], ranked)
           pending == [k \in 1 .. n |-> k]
           t == [s EXCEPT !.phase = "generate", !.slots = slots, !.pending = pending,
                          !.batch = Nones(n), !.accepted = Nones(n), !.attempt = 1]
<1>1. /\ t.phase = "generate" /\ t.slots = slots /\ t.pending = pending
      /\ t.entry = s.entry /\ t.collected = s.collected
  BY DEF Progress
<1>2. \A k \in DOMAIN pending : pending[k] = k
  OBVIOUS
<1>3. \A p \in DOMAIN slots :
          /\ slots[p].theme = Plan[r][s.entry].theme
          /\ slots[p].kind = IF p > Plan[r][s.entry].count - Plan[r][s.entry].scenarios
                             THEN "scenario" ELSE "knowledge"
  BY DEF SlotsOf
<1> HIDE DEF t, slots, pending
<1>4. FitInv(r, t)
  BY <1>1, <1>2, <1>3 DEF FitInv, InTheme
<1> QED
  BY <1>4 DEF t, slots, pending

\* Every step keeps the fit of every request.
LEMMA NextFit ==
    ASSUME HandInv, \A r \in Requests : FitInv(r, gen[r]), [Next]_vars
    PROVE  \A r \in Requests : FitInv(r, gen'[r])
<1>1. CASE UNCHANGED vars
  BY <1>1 DEF vars
<1>2. ASSUME NEW r \in Requests, Start(r) \/ Work(r)
      PROVE  \A q \in Requests : FitInv(q, gen'[q])
  <2>1. /\ gen \in [Requests -> Progress] /\ gen[r] \in Progress
        /\ RequestInv(r, gen[r]) /\ FitInv(r, gen[r])
    BY DEF HandInv, TypeOK
  <2>2. ASSUME NEW s, Step(r, s), FitInv(r, s)
        PROVE  \A q \in Requests : FitInv(q, gen'[q])
    BY <2>1, <2>2 DEF Step
  <2>3. FitInv(r, [gen[r] EXCEPT !.phase = "failed"])
    BY <2>1 DEF Progress, FitInv, InTheme
  <2>4. CASE Start(r)
    <3>1. FitInv(r, [gen[r] EXCEPT !.phase = "retrieve"])
      BY <2>1, <2>4 DEF Start, Progress, FitInv, InTheme
    <3> QED
      BY <2>2, <2>4, <3>1 DEF Start
  <2>5. CASE Retrieve(r)
    <3>1. gen[r].phase = "retrieve"
      BY <2>5 DEF Retrieve
    <3>2. PICK ranked \in Ranked[Current(r).theme] \ {<<>>} :
             LET n == Current(r).count IN
             Step(r, [gen[r] EXCEPT !.phase = "generate", !.slots = SlotsOf(Current(r), ranked),
                                    !.pending = [k \in 1 .. n |-> k], !.batch = Nones(n),
                                    !.accepted = Nones(n), !.attempt = 1])
      BY <2>5 DEF Retrieve
    <3> QED
      BY <2>1, <2>2, <3>1, <3>2, RetrieveFit DEF Current
  <2>6. CASE NoMaterial(r) \/ Fail(r)
    BY <2>2, <2>3, <2>6 DEF NoMaterial, Fail
  <2>7. CASE Generate(r)
    <3>1. gen[r].phase = "generate"
      BY <2>7 DEF Generate
    <3>2. PICK reply \in Replies :
             LET answered == [gen[r] EXCEPT !.batch =
                        Answers(PromptFor(gen[r], [k \in DOMAIN gen[r].pending |-> k]), reply)]
             IN  Step(r, IF Complete(answered.batch) THEN Generated(r, answered)
                         ELSE [answered EXCEPT !.phase = "retry"])
      BY <2>7 DEF Generate
    <3> QED
      BY <2>1, <2>2, <3>1, <3>2, GenerateFit
  <2>8. CASE Retry(r)
    <3>1. gen[r].phase = "retry"
      BY <2>8 DEF Retry
    <3>2. PICK reply \in Replies :
             LET missing == Missing(gen[r].batch)
             IN  Step(r, Retried(r, [gen[r] EXCEPT !.batch =
                           Merge(@, missing, Answers(PromptFor(gen[r], missing), reply))]))
      BY <2>8 DEF Retry
    <3> QED
      BY <2>1, <2>2, <3>1, <3>2, RetryFit
  <2>9. CASE Critique(r)
    <3>1. gen[r].phase = "critique"
      BY <2>9 DEF Critique
    <3>2. PICK verdicts \in [DOMAIN gen[r].pending -> BOOLEAN] :
             LET failed == Failed(gen[r], verdicts)
                 judged == [gen[r] EXCEPT !.accepted = Accept(gen[r], verdicts)]
             IN  Step(r, IF failed = <<>> \/ gen[r].attempt > MAX_REFINE_ATTEMPTS
                         THEN Finish(r, judged, Kept(judged.accepted))
                         ELSE [judged EXCEPT !.phase = "generate", !.pending = failed,
                                  !.batch = Nones(Len(failed)), !.attempt = @ + 1])
      BY <2>9 DEF Critique
    <3> QED
      BY <2>1, <2>2, <3>1, <3>2, CritiqueFit
  <2>10. CASE Save(r)
    <3>1. FitInv(r, [gen[r] EXCEPT !.phase = "ready"])
      BY <2>1, <2>10 DEF Save, Progress, FitInv, InTheme
    <3> QED
      BY <2>2, <2>10, <3>1 DEF Save
  <2> QED
    BY <1>2, <2>4, <2>5, <2>6, <2>7, <2>8, <2>9, <2>10 DEF Work
<1> QED
  BY <1>1, <1>2 DEF Next

\* A request that has not started has nothing on any theme.
LEMMA InitFit == Init => \A r \in Requests : FitInv(r, gen[r])
<1> SUFFICES ASSUME Init, NEW r \in Requests
             PROVE  FitInv(r, Fresh)
  BY DEF Init
<1>1. /\ Plan[r] \in Seq(Entry)
      /\ DOMAIN Plan[r] = 1 .. Len(Plan[r])
  BY PlanAssumption
<1>2. \A e \in DOMAIN Plan[r] : ~(e < 1)
  BY <1>1
<1>3. \A theme : OnTheme(<<>>, theme) = {}
  BY DEF OnTheme
<1> QED
  BY <1>2, <1>3 DEF Fresh, FitInv, InTheme

-----------------------------------------------------------------------------
(* The question bank *)

\* What a request saves and returns fits it.
LEMMA ReturnedFits ==
    ASSUME NEW r \in Requests, NEW s \in Progress, RequestInv(r, s), FitInv(r, s),
           s.phase = "save"
    PROVE  Fits(r, s.collected)
<1>1. /\ Plan[r] \in Seq(Entry) /\ DOMAIN Plan[r] = 1 .. Len(Plan[r])
      /\ 1 \in DOMAIN Plan[r]
      /\ r \notin Exams => DOMAIN Plan[r] = {1}
  <2>1. Plan[r] \in Seq(Entry) /\ s.entry \in 1 .. Len(Plan[r])
    BY PlanAssumption DEF RequestInv
  <2>2. Len(Plan[r]) \in Nat /\ Len(Plan[r]) > 0 /\ (r \notin Exams => Len(Plan[r]) = 1)
    BY <2>1, PlanEntry
  <2> QED
    BY <2>1, <2>2
<1>2. CASE r \in Exams
  <2>1. \A e \in DOMAIN Plan[r] : FullTheme(Plan[r][e], s.collected)
    BY <1>2 DEF FitInv
  <2>2. s.collected # <<>>
    <3>1. Cardinality(OnTheme(s.collected, Plan[r][1].theme)) = Plan[r][1].count
      BY <1>1, <2>1 DEF FullTheme
    <3>2. Plan[r][1].count > 0
      BY <1>1, PlanEntry
    <3>3. OnTheme(s.collected, Plan[r][1].theme) # {}
      BY <3>1, <3>2, FS_EmptySet
    <3> QED
      BY <3>3 DEF OnTheme
  <2> QED
    BY <1>2, <2>1, <2>2 DEF Fits, RequestInv
<1>3. CASE r \notin Exams
  BY <1>1, <1>3 DEF Fits, FitInv, RequestInv
<1> QED
  BY <1>2, <1>3

\* The phases between the start of a request and its end.
Busy == {"retrieve", "generate", "retry", "critique", "save"}

\* A step of work that does not return goes on or fails, and the bank stays as it is
\* unless the step is a save that raises.
LEMMA WorkPhase ==
    ASSUME HandInv, NEW r \in Requests, Work(r), ~Save(r)
    PROVE  /\ gen[r].phase \in Busy
           /\ gen'[r].phase \in Busy \cup {"failed"}
           /\ gen' = [gen EXCEPT ![r] = gen'[r]]
           /\ \/ UNCHANGED bank
              \/ /\ gen[r].phase = "save"
                 /\ gen'[r] = [gen[r] EXCEPT !.phase = "failed"]
                 /\ bank' = Upsert(bank, gen[r].collected)
<1>1. gen \in [Requests -> Progress] /\ gen[r] \in Progress /\ RequestInv(r, gen[r])
  BY DEF HandInv, TypeOK
<1>2. \A s : Step(r, s) => gen' = [gen EXCEPT ![r] = gen'[r]] /\ gen'[r] = s
  BY <1>1 DEF Step
<1>3. ASSUME NEW s \in Progress, NEW themed
      PROVE  Finish(r, s, themed).phase \in Busy \cup {"failed"}
  BY DEF Finish, Progress, Busy
<1>4. ASSUME NEW s \in Progress
      PROVE  Generated(r, s).phase \in Busy \cup {"failed"}
  <2>1. CASE r \in Critics
    BY <2>1 DEF Generated, Progress, Busy
  <2>2. CASE r \notin Critics
    BY <1>3, <2>2 DEF Generated
  <2> QED
    BY <2>1, <2>2
<1>5. ASSUME gen[r].phase \in InTheme
      PROVE  /\ PositionsInv(gen[r], Plan[r][gen[r].entry].count)
             /\ ShownInv(gen[r])
             /\ Plan[r][gen[r].entry].count \in Nat
  BY <1>1, <1>5, Working
<1>6. CASE Retrieve(r)
  <2>1. PICK ranked \in Ranked[Current(r).theme] \ {<<>>} :
           LET n == Current(r).count IN
           Step(r, [gen[r] EXCEPT !.phase = "generate", !.slots = SlotsOf(Current(r), ranked),
                                  !.pending = [k \in 1 .. n |-> k], !.batch = Nones(n),
                                  !.accepted = Nones(n), !.attempt = 1])
    BY <1>6 DEF Retrieve
  <2>2. gen[r].phase = "retrieve" /\ UNCHANGED bank
    BY <1>6 DEF Retrieve
  <2> DEFINE n == Current(r).count
             s == [gen[r] EXCEPT !.phase = "generate", !.slots = SlotsOf(Current(r), ranked),
                                 !.pending = [k \in 1 .. n |-> k], !.batch = Nones(n),
                                 !.accepted = Nones(n), !.attempt = 1]
  <2>3. Step(r, s)
    BY <2>1
  <2>4. s.phase = "generate"
    BY <1>1 DEF Progress
  <2> HIDE DEF s
  <2> QED
    BY <1>2, <2>2, <2>3, <2>4 DEF Busy
<1>7. CASE NoMaterial(r) \/ Fail(r)
  <2>1. [gen[r] EXCEPT !.phase = "failed"].phase = "failed"
    BY <1>1 DEF Progress
  <2>2. /\ Step(r, [gen[r] EXCEPT !.phase = "failed"])
        /\ gen[r].phase \in Busy
        /\ \/ UNCHANGED bank
           \/ gen[r].phase = "save" /\ bank' = Upsert(bank, gen[r].collected)
    BY <1>7 DEF NoMaterial, Fail, Busy
  <2> QED
    BY <1>2, <2>1, <2>2
<1>8. CASE Generate(r)
  <2>1. gen[r].phase = "generate" /\ UNCHANGED bank
    BY <1>8 DEF Generate
  <2>2. PICK reply \in Replies :
           LET answered == [gen[r] EXCEPT !.batch =
                      Answers(PromptFor(gen[r], [k \in DOMAIN gen[r].pending |-> k]), reply)]
           IN  Step(r, IF Complete(answered.batch) THEN Generated(r, answered)
                       ELSE [answered EXCEPT !.phase = "retry"])
    BY <1>8 DEF Generate
  <2> DEFINE batch == Answers(PromptFor(gen[r], [k \in DOMAIN gen[r].pending |-> k]), reply)
             answered == [gen[r] EXCEPT !.batch = batch]
             s == IF Complete(answered.batch) THEN Generated(r, answered)
                  ELSE [answered EXCEPT !.phase = "retry"]
  <2>3. batch \in Seq(Item \cup {None})
    BY <1>1, <1>5, <2>1, BatchShown, PositionsFunctions, SequenceOf DEF InTheme
  <2>4. Step(r, s)
    BY <2>2
  <2> HIDE DEF batch
  <2>5. answered \in Progress
    BY <1>1, <2>3 DEF Progress
  <2> HIDE DEF answered
  <2>6. s.phase \in Busy \cup {"failed"}
    BY <1>4, <2>5 DEF Progress, Busy
  <2> HIDE DEF s
  <2> QED
    BY <1>2, <2>1, <2>4, <2>6 DEF Busy
<1>9. CASE Retry(r)
  <2> DEFINE missing == Missing(gen[r].batch)
  <2>1. gen[r].phase = "retry" /\ UNCHANGED bank
    BY <1>9 DEF Retry
  <2>2. PICK reply \in Replies :
           Step(r, Retried(r, [gen[r] EXCEPT !.batch =
                   Merge(@, missing, Answers(PromptFor(gen[r], missing), reply))]))
    BY <1>9 DEF Retry
  <2> DEFINE batch == Merge(gen[r].batch, missing, Answers(PromptFor(gen[r], missing), reply))
             merged == [gen[r] EXCEPT !.batch = batch]
  <2>3. batch \in Seq(Item \cup {None})
    BY <1>1, <1>5, <2>1, MergedShown, PositionsFunctions, SequenceOf DEF InTheme
  <2>4. Step(r, Retried(r, merged))
    BY <1>1, <2>2 DEF Progress
  <2> HIDE DEF batch
  <2>5. merged \in Progress
    BY <1>1, <2>3 DEF Progress
  <2> HIDE DEF merged
  <2>6. Retried(r, merged).phase \in Busy \cup {"failed"}
    BY <1>4, <2>5 DEF Retried, Progress
  <2> QED
    BY <1>2, <2>1, <2>4, <2>6 DEF Busy
<1>10. CASE Critique(r)
  <2>1. gen[r].phase = "critique" /\ UNCHANGED bank
    BY <1>10 DEF Critique
  <2>2. PICK verdicts \in [DOMAIN gen[r].pending -> BOOLEAN] :
           LET failed == Failed(gen[r], verdicts)
               judged == [gen[r] EXCEPT !.accepted = Accept(gen[r], verdicts)]
           IN  Step(r, IF failed = <<>> \/ gen[r].attempt > MAX_REFINE_ATTEMPTS
                       THEN Finish(r, judged, Kept(judged.accepted))
                       ELSE [judged EXCEPT !.phase = "generate", !.pending = failed,
                                !.batch = Nones(Len(failed)), !.attempt = @ + 1])
    BY <1>10 DEF Critique
  <2> DEFINE failed == Failed(gen[r], verdicts)
             accepted == Accept(gen[r], verdicts)
             judged == [gen[r] EXCEPT !.accepted = accepted]
             done == failed = <<>> \/ gen[r].attempt > MAX_REFINE_ATTEMPTS
             again == [judged EXCEPT !.phase = "generate", !.pending = failed,
                              !.batch = Nones(Len(failed)), !.attempt = @ + 1]
             s == IF done THEN Finish(r, judged, Kept(judged.accepted)) ELSE again
  <2>3. accepted \in Seq(Question \cup {None})
    BY <1>1, <1>5, <2>1, AcceptedShown, SequenceOf DEF InTheme, ShownInv
  <2>4. Step(r, s)
    BY <2>2
  <2> HIDE DEF accepted, failed
  <2>5. judged \in Progress
    BY <1>1, <2>3 DEF Progress
  <2>6. again.phase = "generate"
    BY <1>1 DEF Progress
  <2> HIDE DEF judged, again
  <2>7. s.phase \in Busy \cup {"failed"}
    BY <1>3, <2>5, <2>6 DEF Busy
  <2> HIDE DEF s
  <2> QED
    BY <1>2, <2>1, <2>4, <2>7 DEF Busy
<1> QED
  BY <1>6, <1>7, <1>8, <1>9, <1>10 DEF Work

\* A step of one request leaves what the others made.
LEMMA WholeOfOthers ==
    ASSUME NEW r \in Requests, NEW q \in Requests, q # r, gen \in [Requests -> Progress],
           gen' = [gen EXCEPT ![r] = gen'[r]]
    PROVE  Whole(q)' = Whole(q)
<1>1. gen'[q] = gen[q]
  OBVIOUS
<1> QED
  BY <1>1 DEF Whole

\* A request that saves has made its questions, whether it returns them or not.
LEMMA SaveMakes ==
    ASSUME HandInv, NEW r \in Requests, FitInv(r, gen[r]), gen[r].phase = "save",
           NEW phase \in {"ready", "failed"}, Step(r, [gen[r] EXCEPT !.phase = phase])
    PROVE  /\ gen' = [gen EXCEPT ![r] = gen'[r]]
           /\ gen'[r].phase = phase
           /\ Whole(r)' = gen[r].collected
           /\ Fits(r, gen[r].collected)
<1>1. /\ gen \in [Requests -> Progress] /\ gen[r] \in Progress /\ RequestInv(r, gen[r])
      /\ gen' = [gen EXCEPT ![r] = [gen[r] EXCEPT !.phase = phase]]
  BY DEF HandInv, TypeOK, Step
<1>2. gen'[r] = [gen[r] EXCEPT !.phase = phase]
  BY <1>1
<1>3. gen'[r].phase = phase /\ gen'[r].collected = gen[r].collected
  BY <1>1, <1>2 DEF Progress
<1>4. Fits(r, gen[r].collected)
  BY <1>1, ReturnedFits
<1> QED
  BY <1>1, <1>2, <1>3, <1>4 DEF Whole

\* Every step keeps the bank to requests that made all their questions.
LEMMA NextBank ==
    ASSUME HandInv, \A r \in Requests : FitInv(r, gen[r]), BankHoldsOnlyWholeRequests, [Next]_vars
    PROVE  BankHoldsOnlyWholeRequests'
<1>1. gen \in [Requests -> Progress] /\ bank \in [Texts -> Question \cup {None}]
  BY DEF HandInv, TypeOK
<1>2. ASSUME NEW r \in Requests, gen[r].phase \notin {"ready", "failed"}, UNCHANGED bank,
             gen' = [gen EXCEPT ![r] = gen'[r]]
      PROVE  BankHoldsOnlyWholeRequests'
  <2> SUFFICES ASSUME NEW text \in Texts, bank[text] # None
               PROVE  \E q \in Requests : \E i \in DOMAIN Whole(q)' : Whole(q)'[i] = bank[text]
    BY <1>2 DEF BankHoldsOnlyWholeRequests
  <2>1. PICK q \in Requests : \E i \in DOMAIN Whole(q) : Whole(q)[i] = bank[text]
    BY DEF BankHoldsOnlyWholeRequests
  <2>2. Whole(r) = <<>>
    BY <1>2 DEF Whole
  <2>3. q # r
    BY <2>1, <2>2
  <2>4. Whole(q)' = Whole(q)
    BY <1>1, <1>2, <2>3, WholeOfOthers
  <2> QED
    BY <2>1, <2>4
<1>3. ASSUME NEW r \in Requests, gen[r].phase = "save", NEW phase \in {"ready", "failed"},
             Step(r, [gen[r] EXCEPT !.phase = phase]), bank' = Upsert(bank, gen[r].collected)
      PROVE  BankHoldsOnlyWholeRequests'
  <2>1. gen' = [gen EXCEPT ![r] = gen'[r]] /\ Whole(r)' = gen[r].collected
    BY <1>3, SaveMakes
  <2>2. gen[r].collected \in Seq(Question)
    BY <1>1 DEF Progress
  <2> SUFFICES ASSUME NEW text \in Texts, bank'[text] # None
               PROVE  \E q \in Requests : \E i \in DOMAIN Whole(q)' : Whole(q)'[i] = bank'[text]
    BY DEF BankHoldsOnlyWholeRequests
  <2>3. \/ bank'[text] = bank[text]
        \/ \E i \in DOMAIN gen[r].collected : bank'[text] = gen[r].collected[i]
    BY <1>1, <1>3, <2>2, UpsertRows
  <2>4. CASE bank'[text] = bank[text]
    <3>1. PICK q \in Requests : \E i \in DOMAIN Whole(q) : Whole(q)[i] = bank[text]
      BY <2>4 DEF BankHoldsOnlyWholeRequests
    <3>2. Whole(r) = <<>>
      BY <1>3 DEF Whole
    <3>3. q # r
      BY <3>1, <3>2
    <3>4. Whole(q)' = Whole(q)
      BY <1>1, <2>1, <3>3, WholeOfOthers
    <3> QED
      BY <2>4, <3>1, <3>4
  <2>5. CASE \E i \in DOMAIN gen[r].collected : bank'[text] = gen[r].collected[i]
    BY <2>1, <2>5
  <2> QED
    BY <2>3, <2>4, <2>5
<1>4. CASE UNCHANGED vars
  BY <1>4 DEF vars, BankHoldsOnlyWholeRequests, Whole
<1>5. ASSUME NEW r \in Requests, Start(r)
      PROVE  BankHoldsOnlyWholeRequests'
  <2>1. gen[r].phase = "idle" /\ UNCHANGED bank /\ gen' = [gen EXCEPT ![r] = gen'[r]]
    BY <1>1, <1>5 DEF Start, Step
  <2> QED
    BY <1>2, <2>1
<1>6. ASSUME NEW r \in Requests, Save(r)
      PROVE  BankHoldsOnlyWholeRequests'
  BY <1>3, <1>6 DEF Save
<1>7. ASSUME NEW r \in Requests, Work(r), ~Save(r)
      PROVE  BankHoldsOnlyWholeRequests'
  <2>1. /\ gen[r].phase \in Busy
        /\ gen' = [gen EXCEPT ![r] = gen'[r]]
        /\ \/ UNCHANGED bank
           \/ /\ gen[r].phase = "save"
              /\ gen'[r] = [gen[r] EXCEPT !.phase = "failed"]
              /\ bank' = Upsert(bank, gen[r].collected)
    BY <1>7, WorkPhase
  <2>2. CASE UNCHANGED bank
    BY <1>2, <2>1, <2>2 DEF Busy
  <2>3. CASE /\ gen[r].phase = "save"
             /\ gen'[r] = [gen[r] EXCEPT !.phase = "failed"]
             /\ bank' = Upsert(bank, gen[r].collected)
    <3>1. Step(r, [gen[r] EXCEPT !.phase = "failed"])
      BY <2>1, <2>3 DEF Step
    <3> QED
      BY <1>3, <2>3, <3>1
  <2> QED
    BY <2>1, <2>2, <2>3
<1> QED
  BY <1>4, <1>5, <1>6, <1>7 DEF Next

-----------------------------------------------------------------------------
(* The invariant *)

\* The initial state satisfies the invariant.
LEMMA InitInv == Init => IInv
<1>1. Init => BankHoldsOnlyWholeRequests
  BY DEF Init, BankHoldsOnlyWholeRequests
<1> QED
  BY <1>1, InitHand, InitFit, InitFunnel DEF IInv

\* Every step keeps the invariant.
LEMMA NextInv == IInv /\ [Next]_vars => IInv'
<1> SUFFICES ASSUME IInv, [Next]_vars
             PROVE  IInv'
  OBVIOUS
<1>1. HandInv'
  BY NextHand DEF IInv
<1>2. \A r \in Requests : FitInv(r, gen'[r])
  BY NextFit DEF IInv
<1>3. FunnelInv'
  BY NextFunnel DEF IInv
<1>4. (\A r \in Requests : FitInv(r, gen[r]))' <=> \A r \in Requests : FitInv(r, gen'[r])
  BY DEF FitInv
<1>5. BankHoldsOnlyWholeRequests'
  BY NextBank DEF IInv
<1> QED
  BY <1>1, <1>2, <1>3, <1>4, <1>5 DEF IInv

\* Of every execution of the engine: what each request has in hand stays consistent
\* and fits its plan, and the bank and the rejection log agree with the requests.
THEOREM Inductive == Spec => []IInv
BY InitInv, NextInv, PTL DEF Spec

\* The state of the requests, of the rejection log and of the bank is well typed:
\* no request judges a question more than MAX_REFINE_ATTEMPTS + 1 times.
THEOREM TypeCorrect == Spec => []TypeOK
<1>1. IInv => TypeOK
  BY DEF IInv, HandInv
<1> QED
  BY <1>1, Inductive, PTL

\* Every question cites the section, and has the theme and the kind, that the
\* model was shown for it, whatever the model skips and the critic rejects.
THEOREM Citation == Spec => []QuestionsCiteWhatWasShown
<1>1. IInv => QuestionsCiteWhatWasShown
  BY DEF IInv, HandInv, RequestInv, QuestionsCiteWhatWasShown
<1> QED
  BY <1>1, Inductive, PTL

\* The bank holds only questions of requests that made all of theirs, though a save
\* may commit and raise: no part of an exam is saved.
THEOREM AllOrNothing == Spec => []BankHoldsOnlyWholeRequests
<1>1. IInv => BankHoldsOnlyWholeRequests
  BY DEF IInv
<1> QED
  BY <1>1, Inductive, PTL

\* A quiz is short only of questions that failed every regeneration.
THEOREM NoEarlyDrop == Spec => []DroppedAfterAllAttempts
<1>1. IInv => DroppedAfterAllAttempts
  BY DEF IInv, HandInv, RequestInv, QuizInv, DroppedAfterAllAttempts
<1> QED
  BY <1>1, Inductive, PTL

\* No attempt on a theme has more rejections than the attempt before, for any number
\* of requests that work on the theme at once.
THEOREM Funnel == Spec => []RejectionsAreAFunnel
<1>1. IInv => RejectionsAreAFunnel
  <2> SUFFICES ASSUME IInv, NEW theme \in Themes, NEW a \in 1 .. MAX_REFINE_ATTEMPTS
               PROVE  rejected[theme][a + 1] <= rejected[theme][a]
    BY DEF RejectionsAreAFunnel
  <2>1. /\ IsFiniteSet(Judging(theme, a + 1))
        /\ rejected[theme][a + 1] + Cardinality(Judging(theme, a + 1)) <= rejected[theme][a]
    BY DEF IInv, FunnelInv
  <2>2. Cardinality(Judging(theme, a + 1)) \in Nat
    BY <2>1, FS_CardinalityType
  <2>3. rejected[theme][a] \in Nat /\ rejected[theme][a + 1] \in Nat
    <3>1. a \in 1 .. MAX_REFINE_ATTEMPTS + 1 /\ a + 1 \in 1 .. MAX_REFINE_ATTEMPTS + 1
      BY RefineAssumption
    <3> QED
      BY <3>1 DEF IInv, HandInv, TypeOK
  <2> QED
    BY <2>1, <2>2, <2>3
<1> QED
  BY <1>1, Inductive, PTL

-----------------------------------------------------------------------------
(* The contract *)

\* A text of the questions gets the row of one of them, other rows stay.
LEMMA UpsertSaves ==
    ASSUME NEW rows, NEW questions \in Seq(Question), NEW text \in Texts
    PROVE  LET same == {i \in DOMAIN questions : TextOf[questions[i].draft] = text}
           IN  IF same = {} THEN Upsert(rows, questions)[text] = rows[text]
               ELSE \E i \in same : Upsert(rows, questions)[text] = questions[i]
<1> DEFINE same == {i \in DOMAIN questions : TextOf[questions[i].draft] = text}
           last == CHOOSE i \in same : \A j \in same : j <= i
<1>1. same \in SUBSET Nat /\ IsFiniteSet(same)
  BY PlacesFinite
<1>2. same # {} => last \in same
  <2> HIDE DEF same
  <2> QED
    BY <1>1, Extremes
<1>3. Upsert(rows, questions)[text] = IF same = {} THEN rows[text] ELSE questions[last]
  BY DEF Upsert
<1> HIDE DEF last
<1> QED
  BY <1>2, <1>3

\* The status of a request in the contract.
StatusOf(r) ==
    IF gen[r].phase \in {"idle", "ready", "failed"} THEN gen[r].phase ELSE "open"

\* The engine starts where the contract does.
LEMMA InitContract == Init => Contract!Init
<1> SUFFICES ASSUME Init
             PROVE  Contract!Init
  OBVIOUS
<1>1. \A r \in Requests : gen[r].phase = "idle" /\ Whole(r) = <<>>
  BY DEF Init, Fresh, Whole
<1> QED
  BY <1>1 DEF Init, Texts, Contract!Init

\* A save of the engine is one of the contract.
LEMMA ContractSaved ==
    ASSUME NEW questions \in Seq(Question), DOMAIN bank = Texts, bank' = Upsert(bank, questions)
    PROVE  Contract!Saved(questions)
<1>1. DOMAIN bank' = DOMAIN bank
  BY DEF Upsert
<1>2. ASSUME NEW text \in DOMAIN bank
      PROVE  LET same == {i \in DOMAIN questions : TextOf[questions[i].draft] = text}
             IN  IF same = {} THEN bank'[text] = bank[text]
                 ELSE \E i \in same : bank'[text] = questions[i]
  BY <1>2, UpsertSaves
<1> QED
  BY <1>1, <1>2 DEF Contract!Saved

\* Every step of the engine is one of the contract, or changes nothing it speaks of:
\* saving delivers, failing refuses, all other work is out of the caller's sight.
LEMMA NextContract == IInv /\ [Next]_vars => [Contract!Next]_(Contract!vars)
<1> SUFFICES ASSUME IInv, [Next]_vars
             PROVE  [Contract!Next]_(Contract!vars)
  OBVIOUS
<1> DEFINE status == [q \in Requests |-> StatusOf(q)]
           made == [q \in Requests |-> Whole(q)]
<1>0. gen \in [Requests -> Progress] /\ HandInv
  BY DEF IInv, HandInv, TypeOK
<1>1. CASE UNCHANGED vars
  BY <1>1 DEF vars, Contract!vars, Whole
<1>2. ASSUME NEW r \in Requests, gen' = [gen EXCEPT ![r] = gen'[r]]
      PROVE  /\ status' = [status EXCEPT ![r] = StatusOf(r)']
             /\ made' = [made EXCEPT ![r] = Whole(r)']
             /\ made'[r] = Whole(r)'
             /\ StatusOf(r)' = StatusOf(r) => status' = status
             /\ Whole(r)' = Whole(r) => made' = made
  <2>1. \A q \in Requests : q # r => StatusOf(q)' = StatusOf(q)
    BY <1>0, <1>2 DEF StatusOf
  <2>2. \A q \in Requests : q # r => Whole(q)' = Whole(q)
    BY <1>0, <1>2, WholeOfOthers
  <2> QED
    BY <2>1, <2>2
<1>3. ASSUME NEW r \in Requests, Start(r)
      PROVE  Contract!Open(r)
  <2>1. /\ gen[r].phase = "idle" /\ gen[r] \in Progress /\ UNCHANGED bank
        /\ gen'[r] = [gen[r] EXCEPT !.phase = "retrieve"]
        /\ gen' = [gen EXCEPT ![r] = gen'[r]]
    BY <1>0, <1>3 DEF Start, Step
  <2>2. gen'[r].phase = "retrieve"
    BY <2>1 DEF Progress
  <2>3. /\ StatusOf(r) = "idle" /\ StatusOf(r)' = "open"
        /\ Whole(r) = <<>> /\ Whole(r)' = <<>>
    BY <2>1, <2>2 DEF StatusOf, Whole
  <2>4. status' = [status EXCEPT ![r] = "open"] /\ made' = made
    BY <1>2, <2>1, <2>3
  <2> QED
    BY <2>1, <2>3, <2>4 DEF Contract!Open, StatusOf
<1>4. ASSUME NEW r \in Requests, gen[r].phase = "save", NEW phase \in {"ready", "failed"},
             Step(r, [gen[r] EXCEPT !.phase = phase]), bank' = Upsert(bank, gen[r].collected)
      PROVE  /\ StatusOf(r) = "open"
             /\ status' = [status EXCEPT ![r] = phase]
             /\ Contract!Makes(r)
             /\ Contract!Saved(made'[r])
  <2>1. /\ gen' = [gen EXCEPT ![r] = gen'[r]]
        /\ gen'[r].phase = phase
        /\ Whole(r)' = gen[r].collected
        /\ Fits(r, gen[r].collected)
    BY <1>4, SaveMakes DEF IInv
  <2>2. made' = [made EXCEPT ![r] = made'[r]] /\ made'[r] = gen[r].collected
    BY <1>2, <2>1
  <2>3. status' = [status EXCEPT ![r] = phase]
    <3>1. StatusOf(r)' = phase
      BY <2>1 DEF StatusOf
    <3> QED
      BY <1>2, <2>1, <3>1
  <2>4. gen[r].collected \in Seq(Question) /\ DOMAIN bank = Texts
    BY <1>0 DEF Progress, HandInv, TypeOK
  <2>5. Contract!Saved(gen[r].collected)
    BY <1>4, <2>4, ContractSaved
  <2>6. Contract!Makes(r)
    BY <2>1, <2>2 DEF Contract!Makes
  <2>7. Contract!Saved(made'[r])
    BY <2>2, <2>5
  <2>8. StatusOf(r) = "open"
    BY <1>4 DEF StatusOf
  <2> QED
    BY <2>3, <2>6, <2>7, <2>8
<1>5. ASSUME NEW r \in Requests, Save(r)
      PROVE  Contract!Deliver(r)
  <2>1. /\ gen[r].phase = "save" /\ Step(r, [gen[r] EXCEPT !.phase = "ready"])
        /\ bank' = Upsert(bank, gen[r].collected)
    BY <1>5 DEF Save
  <2>2. /\ StatusOf(r) = "open" /\ status' = [status EXCEPT ![r] = "ready"]
        /\ Contract!Makes(r) /\ Contract!Saved(made'[r])
    BY <1>4, <2>1
  <2> QED
    BY <2>2 DEF Contract!Deliver, StatusOf
<1>6. ASSUME NEW r \in Requests, Work(r), ~Save(r)
      PROVE  Contract!Refuse(r) \/ UNCHANGED Contract!vars
  <2>1. /\ gen[r].phase \in Busy
        /\ gen'[r].phase \in Busy \cup {"failed"}
        /\ gen' = [gen EXCEPT ![r] = gen'[r]]
        /\ \/ UNCHANGED bank
           \/ /\ gen[r].phase = "save"
              /\ gen'[r] = [gen[r] EXCEPT !.phase = "failed"]
              /\ bank' = Upsert(bank, gen[r].collected)
    BY <1>0, <1>6, WorkPhase
  <2>2. StatusOf(r) = "open" /\ Whole(r) = <<>>
    BY <2>1 DEF StatusOf, Whole, Busy
  <2>3. CASE UNCHANGED bank /\ gen'[r].phase = "failed"
    <3>1. status' = [status EXCEPT ![r] = "failed"]
      <4>1. StatusOf(r)' = "failed"
        BY <2>3 DEF StatusOf
      <4> QED
        BY <1>2, <2>1, <4>1
    <3>2. CASE Whole(r)' = <<>>
      <4>1. made' = made
        BY <1>2, <2>1, <2>2, <3>2
      <4> QED
        BY <2>2, <2>3, <3>1, <4>1 DEF Contract!Refuse, StatusOf
    <3>3. CASE Whole(r)' # <<>>
      <4>1. Fits(r, Whole(r)')
        BY <3>3 DEF Whole
      <4>2. Contract!Makes(r)
        BY <1>2, <2>1, <4>1 DEF Contract!Makes
      <4> QED
        BY <2>2, <2>3, <3>1, <4>2 DEF Contract!Refuse, StatusOf
    <3> QED
      BY <3>2, <3>3
  <2>4. CASE UNCHANGED bank /\ gen'[r].phase # "failed"
    <3>1. StatusOf(r)' = "open" /\ Whole(r)' = <<>>
      BY <2>1, <2>4 DEF StatusOf, Whole, Busy
    <3>2. status' = status /\ made' = made
      BY <1>2, <2>1, <2>2, <3>1
    <3> QED
      BY <2>4, <3>2 DEF Contract!vars, StatusOf
  <2>5. CASE /\ gen[r].phase = "save"
             /\ gen'[r] = [gen[r] EXCEPT !.phase = "failed"]
             /\ bank' = Upsert(bank, gen[r].collected)
    <3>1. Step(r, [gen[r] EXCEPT !.phase = "failed"])
      BY <2>1, <2>5 DEF Step
    <3>2. /\ StatusOf(r) = "open" /\ status' = [status EXCEPT ![r] = "failed"]
          /\ Contract!Makes(r) /\ Contract!Saved(made'[r])
      BY <1>4, <2>5, <3>1
    <3> QED
      BY <3>2 DEF Contract!Refuse, StatusOf
  <2> QED
    BY <2>1, <2>3, <2>4, <2>5
<1> QED
  BY <1>1, <1>3, <1>5, <1>6 DEF Next, Contract!Next

\* The engine implements its contract: a request returns questions that fit its plan
\* and are in the bank from that same step, or fails and has saved all of its questions
\* or none.
THEOREM Refinement == Spec => ContractSpec
<1>1. Init => Contract!Init
  BY InitContract
<1>2. IInv /\ [Next]_vars => [Contract!Next]_(Contract!vars)
  BY NextContract
<1> QED
  BY <1>1, <1>2, Inductive, PTL DEF Spec, ContractSpec, Contract!Spec
=============================================================================
