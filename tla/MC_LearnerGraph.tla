--------------------------- MODULE MC_LearnerGraph ---------------------------
(***************************************************************************)
(* Instances of LearnerGraph for TLC: what the model may ask for.          *)
(***************************************************************************)
EXTENDS LearnerGraph, TLC

CONSTANTS t1, t2, learner

MCUserOf == [t \in Threads |-> learner]

Ask(tool) == [tool |-> tool, kind |-> None, key |-> None]
Record(kind, key) == [tool |-> "record_outcome", kind |-> kind, key |-> key]

MCKeys == {SUMMARY_KEY, "episode"}

Teach == Ask("teach")
Quiz == Ask("generate_quiz")
Retrieve == Ask("retrieve_corpus")
Mistake == Record("mistake_episode", "episode")
Profile == Record("learner_profile", SUMMARY_KEY)

\* Tools alone and next to others, two lessons, refused and allowed writes mixed.
TurnReplies ==
    {<<>>, <<Teach>>, <<Teach, Teach>>, <<Quiz, Ask("read_learner_state")>>,
     <<Retrieve, Mistake>>, <<Profile, Teach>>, <<Mistake, Record("unknown", "episode")>>}

\* A reply of a write that is allowed and one that is not; either may raise or be lost.
CrashReplies == {<<>>, <<Mistake, Profile>>}

\* Two conversations of one learner, writing the same slots.
ThreadReplies == {<<>>, <<Record("session_summary", SUMMARY_KEY)>>}

Symmetry == Permutations({t1, t2})
=============================================================================
