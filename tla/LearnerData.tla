---------------------------- MODULE LearnerData ----------------------------
(***************************************************************************)
(* What a learner leaves and what is read of it, in one process: threads   *)
(* that score quizzes, put records and ask for a theme to review.  Each    *)
(* call first gets the pool or the store (db/session.py, memory/writer.py) *)
(* and works on it only then.                                              *)
(***************************************************************************)
EXTENDS Singletons, ReviewRouter, QuizScoring

CONSTANTS
    ChosenAnswers,  \* what a learner may answer: sequences of right and wrong
    Puts,           \* the records that may be put: namespace, key and value
    MaxCalls        \* bound of the model

ASSUME ChosenAssumption == ChosenAnswers \subseteq Seq(BOOLEAN)
ASSUME CallersAssumption == Callers = Readers /\ Callers = Scorers
ASSUME GettersAssumption == {"pool", "store"} \subseteq Singles
ASSUME PutsAssumption == \A p \in Puts :
    /\ p.namespace \in Namespaces /\ p.key \in Keys /\ p.value \in Values
    /\ p.value \in ValuesOf(p.namespace)

VARIABLES
    task,  \* what each caller is about
    calls

vars == <<single_vars, router_vars, scoring_vars, task, calls>>

memory == <<records, listing, suggestion>>

Init ==
    /\ SingleInit
    /\ RouterInit
    /\ ScoringInit
    /\ task = [c \in Callers |-> "none"]
    /\ calls = 0

\* What a call works on: run_on_connection checks out of the pool, put and list_records
\* take the store.
Needs == [score |-> "pool", put |-> "store", suggest |-> "store"]

Begin(c) ==
    /\ task[c] = "none"
    /\ calls < MaxCalls
    /\ calls' = calls + 1
    /\ \E t \in DOMAIN Needs :
         /\ Get(c, Needs[t])
         /\ task' = [task EXCEPT ![c] = t]
    /\ UNCHANGED <<memory, scoring_vars>>

GettingSingle(c) ==
    /\ Getting(c)
    /\ task' = IF getter'[c].phase = "idle" THEN [task EXCEPT ![c] = "none"] ELSE task
    /\ UNCHANGED <<memory, scoring_vars, calls>>

Works(c, t) == task[c] = t /\ getter[c].phase = "got"

StartScoring(c) ==
    /\ Works(c, "score")
    /\ scoring[c].phase = "idle"
    /\ \E q \in Quizzes, a \in ChosenAnswers : Score(c, q, a)
    /\ UNCHANGED <<memory, single_vars, task, calls>>

KeepScoring(c) ==
    /\ Scoring(c)
    /\ UNCHANGED <<memory, single_vars, task, calls>>

StartSuggestion(c) ==
    /\ Works(c, "suggest")
    /\ suggestion[c].phase = "idle"
    /\ Suggest(c)
    /\ UNCHANGED <<scoring_vars, single_vars, task, calls>>

KeepSuggesting(c) ==
    /\ Suggesting(c)
    /\ UNCHANGED <<scoring_vars, single_vars, task, calls>>

PutAndEnd(c) ==
    /\ Works(c, "put")
    /\ \E p \in Puts : PutRecord(p.namespace, p.key, p.value)
    /\ task' = [task EXCEPT ![c] = "none"]
    /\ Release(c)
    /\ UNCHANGED <<suggestion, scoring_vars, calls>>

\* A scoring or a suggestion returns or raises.
End(c) ==
    /\ \/ task[c] = "score" /\ scoring[c].phase \in Ended \ {"idle"}
       \/ task[c] = "suggest" /\ suggestion[c].phase = "suggested"
    /\ task' = [task EXCEPT ![c] = "none"]
    /\ scoring' = [scoring EXCEPT ![c] = NoScoring]
    /\ suggestion' = [suggestion EXCEPT ![c] = NoSuggestion]
    /\ Release(c)
    /\ UNCHANGED <<records, listing, quiz_answers, now, scorings, calls>>

\* Nothing else waits, so the database's clock is free to stand still or go on.
TimePasses == Tick /\ UNCHANGED <<memory, single_vars, task, calls>>

Step(c) ==
    \/ GettingSingle(c)
    \/ StartScoring(c)
    \/ KeepScoring(c)
    \/ StartSuggestion(c)
    \/ KeepSuggesting(c)
    \/ PutAndEnd(c)
    \/ End(c)

Next == TimePasses \/ \E c \in Callers : Begin(c) \/ Step(c)

\* A thread goes on with its call; nothing makes it begin another.
Fairness == \A c \in Callers : WF_vars(Step(c))

Spec == Init /\ [][Next]_vars /\ Fairness

\* The inductive invariant of the proofs.
IInv == SIInv /\ MInv /\ RInv /\ QInv

\* However singletons race and pages shift, every call returns or raises.
EveryCallEnds == \A c \in Callers : task[c] # "none" ~> task[c] = "none"
=============================================================================
