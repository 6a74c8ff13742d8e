-------------------------- MODULE AssessmentEngine --------------------------
(***************************************************************************)
(* The assessment engine of civica: quizzes and mock exams, from retrieved *)
(* sections to the question bank (assessment/engine.py, critic.py and      *)
(* store.py).                                                              *)
(*                                                                         *)
(* A request works through the themes of its plan: retrieve, generate,     *)
(* retry the groups the model skipped, let the critic judge, regenerate    *)
(* what it rejected.  Requests run concurrently and share the question     *)
(* bank and the rejection log.                                             *)
(***************************************************************************)
EXTENDS Integers, Sequences, FiniteSets

CONSTANTS
    Requests,            \* calls of generate_quiz and generate_mock_exam
    Exams,               \* the mock exams among them
    Critics,             \* the requests that enable the critic
    Themes,
    Plan,                \* the themes of each request with their counts
    Sections,            \* sections of the corpus
    Ranked,              \* section sequences retrieval may rank for a theme
    Drafts,              \* what the model may write for a group
    TextOf,              \* the question text of a draft, the bank's key
    Replies,             \* item lists a model call may return
    MAX_REFINE_ATTEMPTS,
    None                 \* Python's None

QuestionKind == {"knowledge", "scenario"}

Entry == [theme : Themes, count : Nat \ {0}, scenarios : Nat]

ASSUME ExamAssumption == Exams \subseteq Requests /\ Critics \subseteq Requests
ASSUME PlanAssumption == Plan \in [Requests -> Seq(Entry) \ {<<>>}]
ASSUME QuizAssumption ==
    \A r \in Requests \ Exams : Len(Plan[r]) = 1 /\ Plan[r][1].scenarios = 0
\* EXAM_QUESTION_COUNTS has each theme once, EXAM_SCENARIO_COUNTS fewer scenarios.
ASSUME ThemesAssumption ==
    \A r \in Requests : \A e \in DOMAIN Plan[r] :
        /\ Plan[r][e].scenarios <= Plan[r][e].count
        /\ \A f \in DOMAIN Plan[r] : Plan[r][f].theme = Plan[r][e].theme => f = e
ASSUME RankedAssumption == Ranked \in [Themes -> SUBSET Seq(Sections)]
ASSUME TextAssumption == DOMAIN TextOf = Drafts
ASSUME ReplyAssumption == Replies \subseteq Seq([group : Nat \ {0}, draft : Drafts])
ASSUME RefineAssumption == MAX_REFINE_ATTEMPTS \in Nat

Texts == {TextOf[draft] : draft \in Drafts}

\* What a question is asked to be: its theme, its kind, the section it cites.
Slot == [theme : Themes, kind : QuestionKind, section : Sections]

\* An item the model wrote, with the slot it was shown under the item's number.
Item == [draft : Drafts, shown : Slot]

\* A question carries the slot the code gives it.
Question == [slot : Slot, draft : Drafts, shown : Slot]

ASSUME NoneAssumption == None \notin Item /\ None \notin Question

VARIABLES
    gen,      \* the progress of each request
    rejected, \* rejected_questions: rows by theme and attempt
    bank      \* generated_questions, by question text

vars == <<gen, rejected, bank>>

Phases == {"idle", "retrieve", "generate", "retry", "critique", "save", "ready", "failed"}

\* pending holds the positions of the questions being made, batch the items that
\* answer them so far, accepted what the critic passed, collected the questions
\* of the themes before.
Progress ==
    [phase     : Phases,
     entry     : Nat,
     slots     : Seq(Slot),
     pending   : Seq(Nat),
     batch     : Seq(Item \cup {None}),
     accepted  : Seq(Question \cup {None}),
     attempt   : Nat,
     collected : Seq(Question)]

Fresh ==
    [phase |-> "idle", entry |-> 1, slots |-> <<>>, pending |-> <<>>, batch |-> <<>>,
     accepted |-> <<>>, attempt |-> 1, collected |-> <<>>]

Current(r) == Plan[r][gen[r].entry]

-----------------------------------------------------------------------------
(* Pure steps *)

\* The elements of a finite set of numbers in ascending order.
Ascending(S) ==
    [k \in 1 .. Cardinality(S) |-> CHOOSE i \in S : Cardinality({j \in S : j <= i}) = k]

Nones(n) == [k \in 1 .. n |-> None]

\* _group_chunks and _kinds: one section for each question, reused if too few;
\* the last questions of the theme are scenarios.
SlotsOf(entry, ranked) ==
    [p \in 1 .. entry.count |->
        [theme   |-> entry.theme,
         kind    |-> IF p > entry.count - entry.scenarios THEN "scenario" ELSE "knowledge",
         section |-> ranked[((p - 1) % Len(ranked)) + 1]]]

\* Mutant: items taken in the order they come.
AnswersInOrder(prompt, reply) ==
    [k \in DOMAIN prompt |->
        IF k \in DOMAIN reply /\ reply[k].group \in DOMAIN prompt
          THEN [draft |-> reply[k].draft, shown |-> prompt[reply[k].group]]
          ELSE None]

\* _items_by_group: the first item that names each group of the prompt.
Answers(prompt, reply) ==
    [k \in DOMAIN prompt |->
        LET hits == {j \in DOMAIN reply : reply[j].group = k}
            first == CHOOSE j \in hits : \A h \in hits : j <= h
        IN  IF hits = {} THEN None
            ELSE [draft |-> reply[first].draft, shown |-> prompt[k]]]

\* Mutant: the batch's numbers taken for positions of the theme.
PromptByNumber(s, numbers) == [n \in DOMAIN numbers |-> s.slots[numbers[n]]]

\* The groups shown in one call: some of the batch, numbered from 1.
PromptFor(s, numbers) == [n \in DOMAIN numbers |-> s.slots[s.pending[numbers[n]]]]

Missing(batch) == Ascending({k \in DOMAIN batch : batch[k] = None})

\* The retry numbers the missing groups from 1; its items go back to their own.
Merge(batch, missing, retried) ==
    [k \in DOMAIN batch |->
        IF \E n \in DOMAIN missing : missing[n] = k
          THEN retried[CHOOSE n \in DOMAIN missing : missing[n] = k]
          ELSE batch[k]]

Complete(batch) == \A k \in DOMAIN batch : batch[k] # None

Questions(s) ==
    [k \in DOMAIN s.batch |->
        [slot |-> s.slots[s.pending[k]], draft |-> s.batch[k].draft, shown |-> s.batch[k].shown]]

\* Mutant: the exam goes on with a theme that is short.
FinishShort(r, s, themed) ==
    IF themed = <<>> THEN [s EXCEPT !.phase = "failed"]
    ELSE [s EXCEPT !.collected = @ \o themed,
                   !.phase = IF s.entry < Len(Plan[r]) THEN "retrieve" ELSE "save",
                   !.entry = IF s.entry < Len(Plan[r]) THEN @ + 1 ELSE @]

\* A theme is done: an exam needs it full, a quiz needs a question.
Finish(r, s, themed) ==
    IF themed = <<>> \/ (r \in Exams /\ Len(themed) < Plan[r][s.entry].count)
    THEN [s EXCEPT !.phase = "failed"]
    ELSE [s EXCEPT !.collected = @ \o themed,
                   !.phase = IF s.entry < Len(Plan[r]) THEN "retrieve" ELSE "save",
                   !.entry = IF s.entry < Len(Plan[r]) THEN @ + 1 ELSE @]

Generated(r, s) ==
    IF r \in Critics THEN [s EXCEPT !.phase = "critique"] ELSE Finish(r, s, Questions(s))

\* Mutant: a batch that stays incomplete is generated anew.
RetriedAgain(r, s) ==
    IF Complete(s.batch) THEN Generated(r, s) ELSE [s EXCEPT !.phase = "generate"]

\* A retry answers every group it was asked for, or the request fails.
Retried(r, s) ==
    IF Complete(s.batch) THEN Generated(r, s) ELSE [s EXCEPT !.phase = "failed"]

\* Mutant: the critic's verdicts taken for positions of the theme.
AcceptByNumber(s, verdicts) ==
    [p \in DOMAIN s.accepted |->
        IF p \in DOMAIN verdicts /\ verdicts[p] THEN Questions(s)[p] ELSE s.accepted[p]]

\* _refine: a question that passed keeps its position.
Accept(s, verdicts) ==
    [p \in DOMAIN s.accepted |->
        IF \E k \in DOMAIN verdicts : s.pending[k] = p /\ verdicts[k]
          THEN Questions(s)[CHOOSE k \in DOMAIN verdicts : s.pending[k] = p]
          ELSE s.accepted[p]]

Failed(s, verdicts) == Ascending({s.pending[k] : k \in {j \in DOMAIN verdicts : ~verdicts[j]}})

\* The accepted questions in the order of their positions.
Kept(accepted) ==
    LET positions == Ascending({p \in DOMAIN accepted : accepted[p] # None})
    IN  [k \in DOMAIN positions |-> accepted[positions[k]]]

-----------------------------------------------------------------------------
(* Actions *)

Init ==
    /\ gen = [r \in Requests |-> Fresh]
    /\ rejected = [theme \in Themes |-> [a \in 1 .. MAX_REFINE_ATTEMPTS + 1 |-> 0]]
    /\ bank = [text \in Texts |-> None]

Step(r, s) == gen' = [gen EXCEPT ![r] = s]

Start(r) ==
    /\ gen[r].phase = "idle"
    /\ Step(r, [gen[r] EXCEPT !.phase = "retrieve"])
    /\ UNCHANGED <<rejected, bank>>

\* The sections of the theme in rank order, without the objective sections.
Retrieve(r) ==
    /\ gen[r].phase = "retrieve"
    /\ \E ranked \in Ranked[Current(r).theme] \ {<<>>} :
          LET n == Current(r).count IN
          Step(r, [gen[r] EXCEPT !.phase = "generate", !.slots = SlotsOf(Current(r), ranked),
                                 !.pending = [k \in 1 .. n |-> k], !.batch = Nones(n),
                                 !.accepted = Nones(n), !.attempt = 1])
    /\ UNCHANGED <<rejected, bank>>

\* InsufficientMaterialError
NoMaterial(r) ==
    /\ gen[r].phase = "retrieve"
    /\ <<>> \in Ranked[Current(r).theme]
    /\ Step(r, [gen[r] EXCEPT !.phase = "failed"])
    /\ UNCHANGED <<rejected, bank>>

\* _generate_batch: one question for each pending position.
Generate(r) ==
    LET s == gen[r]
    IN  /\ s.phase = "generate"
        /\ \E reply \in Replies :
              LET answered == [s EXCEPT !.batch =
                                 Answers(PromptFor(s, [k \in DOMAIN s.pending |-> k]), reply)]
              IN  Step(r, IF Complete(answered.batch) THEN Generated(r, answered)
                          ELSE [answered EXCEPT !.phase = "retry"])
        /\ UNCHANGED <<rejected, bank>>

\* Groups the model skipped get one more call, which must answer them all.
Retry(r) ==
    LET s == gen[r]
        missing == Missing(s.batch)
    IN  /\ s.phase = "retry"
        /\ \E reply \in Replies :
              Step(r, Retried(r, [s EXCEPT !.batch =
                                    Merge(@, missing, Answers(PromptFor(s, missing), reply))]))
        /\ UNCHANGED <<rejected, bank>>

\* Mutant: what passed is regenerated with what failed.
CritiqueWhole(r) ==
    LET s == gen[r]
    IN  /\ s.phase = "critique"
        /\ \E verdicts \in [DOMAIN s.pending -> BOOLEAN] :
              LET failed == Failed(s, verdicts)
                  judged == [s EXCEPT !.accepted = Accept(s, verdicts)]
              IN  /\ rejected' = [rejected EXCEPT ![Current(r).theme][s.attempt] = @ + Len(failed)]
                  /\ Step(r, IF failed = <<>> \/ s.attempt > MAX_REFINE_ATTEMPTS
                             THEN Finish(r, judged, Kept(judged.accepted))
                             ELSE [judged EXCEPT !.phase = "generate",
                                                 !.batch = Nones(Len(s.pending)), !.attempt = @ + 1])
        /\ UNCHANGED bank

\* _refine: one judgment, its rejections logged, what failed regenerated.
Critique(r) ==
    LET s == gen[r]
    IN  /\ s.phase = "critique"
        /\ \E verdicts \in [DOMAIN s.pending -> BOOLEAN] :
              LET failed == Failed(s, verdicts)
                  judged == [s EXCEPT !.accepted = Accept(s, verdicts)]
              IN  /\ rejected' = [rejected EXCEPT ![Current(r).theme][s.attempt] = @ + Len(failed)]
                  /\ Step(r, IF failed = <<>> \/ s.attempt > MAX_REFINE_ATTEMPTS
                             THEN Finish(r, judged, Kept(judged.accepted))
                             ELSE [judged EXCEPT !.phase = "generate", !.pending = failed,
                                                 !.batch = Nones(Len(failed)), !.attempt = @ + 1])
        /\ UNCHANGED bank

\* The bank's key is the text: the last question with a text takes its row.
Upsert(rows, questions) ==
    [text \in Texts |->
        LET same == {i \in DOMAIN questions : TextOf[questions[i].draft] = text}
        IN  IF same = {} THEN rows[text]
            ELSE questions[CHOOSE i \in same : \A j \in same : j <= i]]

\* Mutant: an exam saved theme by theme.
SaveThemes(r) ==
    /\ \/ /\ gen[r].phase = "save"
          /\ Step(r, [gen[r] EXCEPT !.phase = "ready"])
       \/ gen[r].phase = "retrieve" /\ UNCHANGED gen
    /\ bank' = Upsert(bank, gen[r].collected)
    /\ UNCHANGED rejected

Save(r) ==
    /\ gen[r].phase = "save"
    /\ bank' = Upsert(bank, gen[r].collected)
    /\ Step(r, [gen[r] EXCEPT !.phase = "ready"])
    /\ UNCHANGED rejected

\* A retrieval, a model call or a statement raises, a reply does not parse, or the
\* process dies.  A save that raises may have committed: one transaction, so all its
\* rows or none.  (A judgment whose rejections are logged before the request fails is
\* Critique, then Fail.)
Fail(r) ==
    /\ gen[r].phase \in {"retrieve", "generate", "retry", "critique", "save"}
    /\ Step(r, [gen[r] EXCEPT !.phase = "failed"])
    /\ \/ UNCHANGED bank
       \/ gen[r].phase = "save" /\ bank' = Upsert(bank, gen[r].collected)
    /\ UNCHANGED rejected

Work(r) ==
    \/ Retrieve(r)
    \/ NoMaterial(r)
    \/ Generate(r)
    \/ Retry(r)
    \/ Critique(r)
    \/ Save(r)
    \/ Fail(r)

Next == \E r \in Requests : Start(r) \/ Work(r)

Spec == Init /\ [][Next]_vars

\* Retrievals, model calls and statements of a request return or raise.
Fairness == \A r \in Requests : WF_vars(Work(r))

FairSpec == Spec /\ Fairness

-----------------------------------------------------------------------------
(* Properties *)

TypeOK ==
    /\ gen \in [Requests -> Progress]
    /\ rejected \in [Themes -> [1 .. MAX_REFINE_ATTEMPTS + 1 -> Nat]]
    /\ bank \in [Texts -> Question \cup {None}]

\* A question cites the section, and has the theme and the kind, that the model
\* was shown when it wrote it, through retries that renumber the groups and
\* refinements that regenerate some of them (_generate_batch, _refine).
QuestionsCiteWhatWasShown ==
    \A r \in Requests : \A i \in DOMAIN gen[r].collected :
        gen[r].collected[i].slot = gen[r].collected[i].shown

\* The questions on a theme and the scenarios among them, by their place.
OnTheme(questions, theme) == {i \in DOMAIN questions : questions[i].slot.theme = theme}

Scenarios(questions, theme) ==
    {i \in OnTheme(questions, theme) : questions[i].slot.kind = "scenario"}

\* A theme of an exam is full: its count, its scenarios, the scenarios last.
FullTheme(entry, questions) ==
    LET mine == OnTheme(questions, entry.theme)
        scenarios == Scenarios(questions, entry.theme)
    IN  /\ Cardinality(mine) = entry.count
        /\ Cardinality(scenarios) = entry.scenarios
        /\ \A i \in scenarios : \A j \in mine : j > i => j \in scenarios

\* A quiz keeps to its theme and has no more questions than were asked for.
QuizTheme(entry, questions) ==
    /\ Len(questions) <= entry.count
    /\ OnTheme(questions, entry.theme) = DOMAIN questions
    /\ Scenarios(questions, entry.theme) = {}

\* What a request may return: a mock exam has the counts and the scenarios of its
\* plan, scenarios last in each theme; a quiz has at most its count, and one at
\* least, of knowledge questions on its theme (generate_quiz, generate_mock_exam).
Fits(r, questions) ==
    /\ questions # <<>>
    /\ \A i \in DOMAIN questions : questions[i].slot = questions[i].shown
    /\ \A e \in DOMAIN Plan[r] :
          IF r \in Exams THEN FullTheme(Plan[r][e], questions)
          ELSE QuizTheme(Plan[r][e], questions)

Delivered(r) == IF gen[r].phase = "ready" THEN gen[r].collected ELSE <<>>

\* The questions a request made in full: those it returned, or would have, had its
\* save not raised.
Whole(r) ==
    IF gen[r].phase \in {"ready", "failed"} /\ Fits(r, gen[r].collected)
      THEN gen[r].collected ELSE <<>>

\* The bank holds only questions of requests that made all of theirs: one that fails
\* earlier, at the last theme of an exam even, leaves nothing there; only one whose
\* save raised may have filled the bank without returning (generate_mock_exam,
\* "saving only if all themes are full").
BankHoldsOnlyWholeRequests ==
    \A text \in Texts : bank[text] # None =>
        \E r \in Requests : \E i \in DOMAIN Whole(r) : Whole(r)[i] = bank[text]

\* The rejection log is a funnel, whatever requests interleave in it: a question
\* judged at attempt a + 1 replaces one rejected at attempt a (_refine).
RejectionsAreAFunnel ==
    \A theme \in Themes : \A a \in 1 .. MAX_REFINE_ATTEMPTS :
        rejected[theme][a + 1] <= rejected[theme][a]

\* A quiz drops a question only after all its regenerations (_refine, "drop any
\* still failing").
DroppedAfterAllAttempts ==
    \A r \in Requests \ Exams :
        gen[r].phase = "ready" /\ Len(gen[r].collected) < Plan[r][1].count =>
            gen[r].attempt = MAX_REFINE_ATTEMPTS + 1

\* The phases in which a theme's questions are being made.
InTheme == {"generate", "retry", "critique"}

\* Slots, accepted questions, pending positions and batch keep in step.
PositionsInv(s, n) ==
    /\ Len(s.slots) = n
    /\ Len(s.accepted) = n
    /\ Len(s.batch) = Len(s.pending)
    /\ \A k \in DOMAIN s.pending : s.pending[k] \in 1 .. n

\* Every item answers the slot of its pending position, every accepted question
\* that of its own, and a position without one is pending.
ShownInv(s) ==
    /\ \A k \in DOMAIN s.batch :
          s.batch[k] # None => s.batch[k].shown = s.slots[s.pending[k]]
    /\ \A p \in DOMAIN s.accepted : s.accepted[p] # None =>
          s.accepted[p].slot = s.slots[p] /\ s.accepted[p].shown = s.slots[p]
    /\ \A p \in DOMAIN s.accepted : s.accepted[p] = None =>
          \E k \in DOMAIN s.pending : s.pending[k] = p
    /\ s.phase = "critique" => Complete(s.batch)

\* A quiz has one theme; it is saved full, or short after all its attempts.
QuizInv(r, s) ==
    /\ s.phase \in InTheme \cup {"idle", "retrieve"} => s.collected = <<>>
    /\ s.phase \in {"save", "ready"} /\ Len(s.collected) < Plan[r][1].count =>
          s.attempt = MAX_REFINE_ATTEMPTS + 1

RequestInv(r, s) ==
    /\ s.entry \in 1 .. Len(Plan[r])
    /\ s.attempt \in 1 .. MAX_REFINE_ATTEMPTS + 1
    /\ \A i \in DOMAIN s.collected : s.collected[i].slot = s.collected[i].shown
    /\ s.phase \in InTheme => PositionsInv(s, Plan[r][s.entry].count) /\ ShownInv(s)
    /\ s.phase = "critique" => r \in Critics
    /\ s.phase \in InTheme /\ r \notin Critics => Len(s.pending) = Plan[r][s.entry].count
    /\ r \notin Exams => QuizInv(r, s)

\* What each request has in hand is consistent.
HandInv ==
    /\ TypeOK
    /\ \A r \in Requests : RequestInv(r, gen[r])

\* Slots have the theme and the kinds of the entry; without a critic every position
\* stays pending; an exam has the themes before in full and nothing of those to come,
\* a quiz is saved with questions on its theme.
FitInv(r, s) ==
    LET entry == Plan[r][s.entry]
    IN  /\ s.phase \in InTheme => \A p \in DOMAIN s.slots :
              /\ s.slots[p].theme = entry.theme
              /\ s.slots[p].kind =
                    IF p > entry.count - entry.scenarios THEN "scenario" ELSE "knowledge"
        /\ s.phase \in InTheme /\ r \notin Critics =>
              \A k \in DOMAIN s.pending : s.pending[k] = k
        /\ r \in Exams /\ s.phase # "failed" => \A e \in DOMAIN Plan[r] :
              IF e < s.entry \/ s.phase \in {"save", "ready"}
                THEN FullTheme(Plan[r][e], s.collected)
                ELSE OnTheme(s.collected, Plan[r][e].theme) = {}
        /\ r \notin Exams /\ s.phase \in {"save", "ready"} =>
              s.collected # <<>> /\ QuizTheme(Plan[r][1], s.collected)

\* The questions on a theme that requests have in hand for their attempt a.
Judging(theme, a) ==
    UNION {{r} \X DOMAIN gen[r].pending :
              r \in {q \in Requests : /\ gen[q].phase \in InTheme
                                     /\ Current(q).theme = theme
                                     /\ gen[q].attempt = a}}

\* Every question in hand for attempt a + 1 replaces a rejection of attempt a that no
\* question judged at a + 1 replaced yet.
FunnelInv ==
    \A theme \in Themes : \A a \in 1 .. MAX_REFINE_ATTEMPTS :
        /\ IsFiniteSet(Judging(theme, a + 1))
        /\ rejected[theme][a + 1] + Cardinality(Judging(theme, a + 1)) <= rejected[theme][a]

\* The inductive invariant: what each request has in hand is consistent and fits its
\* plan, and the bank and the rejection log agree with the requests in progress
\* (_refine, generate_mock_exam).
IInv ==
    /\ HandInv
    /\ \A r \in Requests : FitInv(r, gen[r])
    /\ FunnelInv
    /\ BankHoldsOnlyWholeRequests

\* Every returned question is in the bank under its key (project plan, "each
\* returned Question is written exactly once, keyed by its content hash").
ReturnedQuestionsAreBanked ==
    \A r \in Requests : \A i \in DOMAIN Delivered(r) :
        bank[TextOf[Delivered(r)[i].draft]] = Delivered(r)[i]

\* A request that started returns or fails.
RequestsEnd ==
    \A r \in Requests : gen[r].phase = "retrieve" ~> gen[r].phase \in {"ready", "failed"}

\* The engine implements the contract of QuestionRequests.
Contract == INSTANCE QuestionRequests WITH
    status <- [r \in Requests |-> IF gen[r].phase \in {"idle", "ready", "failed"}
                                  THEN gen[r].phase ELSE "open"],
    made   <- [r \in Requests |-> Whole(r)]

ContractSpec == Contract!Spec
=============================================================================
