---------------------------- MODULE ReviewRouter ----------------------------
(***************************************************************************)
(* The planner's suggest_review_theme (graph/router.py): it lists a        *)
(* learner's mistakes, then the masteries, and takes the theme with the    *)
(* most questions to lose, among equals one with mistakes, then the first  *)
(* of the exam.  Puts of the same reply may run between the two listings.  *)
(***************************************************************************)
EXTENDS MemoryStore, Sequences

CONSTANTS
    Exam,       \* the keys of EXAM_QUESTION_COUNTS in their order
    ExamCount,  \* EXAM_QUESTION_COUNTS
    Mistakes,   \* the two namespaces of a learner; a mistake's value is its theme,
    Masteries   \* a mastery's key its theme and its value a percentage

Themes == {Exam[i] : i \in DOMAIN Exam}

ASSUME ExamAssumption ==
    /\ \A i, j \in DOMAIN Exam : Exam[i] = Exam[j] => i = j
    /\ Exam \in Seq(Themes) /\ Exam # <<>>
    /\ ExamCount \in [Themes -> Nat \ {0}]
    /\ {Mistakes, Masteries} \subseteq Namespaces /\ Mistakes # Masteries

\* MistakeEpisode.theme and TopicMastery.mastery, which pydantic validates.
ValuesOf(n) ==
    CASE n = Mistakes -> Themes [] n = Masteries -> 0 .. 100 [] OTHER -> Values

Recorded(r) == \A n \in Namespaces : \A k \in DOMAIN r[n] : r[n][k].value \in ValuesOf(n)

ASSUME RecordedAssumption == \A r \in InitialRecords : Recorded(r)

VARIABLE suggestion  \* each reader's call of suggest_review_theme

router_vars == <<memory_vars, suggestion>>

\* slugs is mistake_slugs.  sure, the model's own, are the themes of the mistakes that
\* were there when the call began and that nobody put during their listing.
Suggestion ==
    [phase : {"idle", "mistakes", "masteries", "suggested"},
     slugs : SUBSET Themes, sure : SUBSET Themes, theme : Themes]

-----------------------------------------------------------------------------

NoSuggestion == [phase |-> "idle", slugs |-> {}, sure |-> {}, theme |-> Exam[1]]

RouterInit ==
    /\ MemoryInit
    /\ suggestion = [c \in Readers |-> NoSuggestion]

Suggest(c) ==
    /\ suggestion[c].phase \in {"idle", "suggested"}
    /\ StartListing(c, Mistakes)
    /\ suggestion' = [suggestion EXCEPT ![c] =
         [NoSuggestion EXCEPT !.phase = "mistakes"]]

ThemesOf(found, K) == {found[k] : k \in K}

ReadMistakes(c) ==
    LET l == listing[c] IN
    /\ suggestion[c].phase = "mistakes"
    /\ l.phase = "read"
    /\ StartListing(c, Masteries)
    /\ suggestion' = [suggestion EXCEPT
         ![c].phase = "masteries",
         ![c].slugs = ThemesOf(l.found, DOMAIN l.found),
         ![c].sure = ThemesOf(l.held, DOMAIN l.held \ l.moved)]

\* Mutant: a theme never studied counts as mastered.
MasteryAssumed(found, t) == IF t \in DOMAIN found THEN found[t] ELSE 100

Mastery(found, t) == IF t \in DOMAIN found THEN found[t] ELSE 0
Priority(found, t) == ExamCount[t] * (100 - Mastery(found, t))
Alike(found, t, u) == ExamCount[t] = ExamCount[u] /\ Mastery(found, t) = Mastery(found, u)
Place(t) == CHOOSE i \in DOMAIN Exam : Exam[i] = t

\* The key of t is larger than that of u.  The floats of equal priorities of unlike
\* themes may differ either way: 8/40 * 0.75 is larger than 6/40 * 1.0.
Larger(found, slugs, up, t, u) ==
    \/ Priority(found, t) > Priority(found, u)
    \/ /\ Priority(found, t) = Priority(found, u)
       /\ t \in up /\ u \notin up
    \/ /\ Priority(found, t) = Priority(found, u)
       /\ (t \in up) <=> (u \in up)
       /\ t \in slugs /\ u \notin slugs

\* max(EXAM_QUESTION_COUNTS, key=key): the first of the largest.
Best(found, slugs, up) ==
    CHOOSE t \in Themes : \A u \in Themes :
        /\ ~Larger(found, slugs, up, u, t)
        /\ u # t /\ Place(u) < Place(t) => Larger(found, slugs, up, t, u)

Answer(c) ==
    LET found == listing[c].found IN
    /\ suggestion[c].phase = "masteries"
    /\ listing[c].phase = "read"
    /\ \E up \in SUBSET Themes :
         /\ \A t, u \in Themes : Alike(found, t, u) => ((t \in up) <=> (u \in up))
         /\ suggestion' = [suggestion EXCEPT
              ![c].phase = "suggested",
              ![c].theme = Best(found, suggestion[c].slugs, up)]
    /\ listing' = [listing EXCEPT ![c] = NoListing]
    /\ UNCHANGED records

Suggesting(c) == ReadMistakes(c) \/ Answer(c) \/ (ReadPage(c) /\ UNCHANGED suggestion)
Putting == \E n \in Namespaces, k \in Keys, v \in Values : PutRecord(n, k, v) /\ UNCHANGED suggestion

-----------------------------------------------------------------------------

\* Whatever is put meanwhile, if the masteries did not change during their listing no
\* theme had more to lose than the one suggested; a theme with mistakes that were there
\* all along only loses to one alike that has mistakes and comes first in the exam, and
\* a theme without mistakes is suggested only before alike ones that come later.
Weakest(s, l, t) ==
    LET held(u) == IF u \in DOMAIN l.held THEN l.held[u] ELSE 0
        lost(u) == ExamCount[u] * (100 - held(u))
        alike(u) == u # t /\ ExamCount[u] = ExamCount[t] /\ held(u) = held(t)
    IN  \A u \in Themes :
          /\ lost(u) <= lost(t)
          /\ alike(u) /\ u \in s.sure => t \in s.slugs /\ Place(t) < Place(u)
          /\ alike(u) /\ t \notin s.slugs => Place(t) < Place(u)

SuggestionIsWeakest ==
    [][\A c \in Readers :
         suggestion[c].phase = "masteries" /\ suggestion'[c].phase = "suggested"
           /\ listing[c].moved = {} =>
             Weakest(suggestion[c], listing[c], suggestion'[c].theme)]_router_vars

\* The inductive invariant: what a listing found is of its kind, and while nobody puts
\* it finds nothing that was not there; a mistake that was there all along is known.
RouterOk(s, l, r) ==
    /\ s.phase = "mistakes" => l.namespace = Mistakes /\ l.phase # "idle"
    /\ s.phase = "masteries" =>
          l.namespace = Masteries /\ l.phase # "idle" /\ s.sure \subseteq s.slugs
    /\ \A k \in DOMAIN l.found : l.found[k] \in ValuesOf(l.namespace)
    /\ l.moved = {} =>
          /\ l.phase = "reading" => DOMAIN r \subseteq DOMAIN l.held
          /\ l.phase # "idle" => DOMAIN l.found \subseteq DOMAIN l.held

RInv ==
    /\ suggestion \in [Readers -> Suggestion]
    /\ Recorded(records)
    /\ \A c \in Readers :
          RouterOk(suggestion[c], listing[c], records[listing[c].namespace])
=============================================================================
