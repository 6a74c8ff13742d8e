-------------------------- MODULE QuestionRequests --------------------------
(***************************************************************************)
(* What the assessment engine promises its callers: a request for a quiz   *)
(* or a mock exam returns questions that fit it, all of them saved in the  *)
(* question bank before, or fails.  A request that fails leaves nothing in *)
(* the bank, or all of the questions it made: its save committed and its   *)
(* caller was not told (assessment/engine.py, generate_quiz and            *)
(* generate_mock_exam).                                                    *)
(***************************************************************************)
EXTENDS Integers, Sequences

CONSTANTS
    Requests,    \* calls of generate_quiz and generate_mock_exam
    Drafts,      \* what a question says
    TextOf,      \* its text, the key of the bank
    Fits(_, _),  \* whether a request may return these questions
    None

VARIABLES
    status, \* of each request: idle, open, ready or failed
    made,   \* the questions each request made in full
    bank    \* generated_questions, by question text

vars == <<status, made, bank>>

Init ==
    /\ status = [r \in Requests |-> "idle"]
    /\ made = [r \in Requests |-> <<>>]
    /\ bank = [text \in {TextOf[draft] : draft \in Drafts} |-> None]

Open(r) ==
    /\ status[r] = "idle"
    /\ status' = [status EXCEPT ![r] = "open"]
    /\ UNCHANGED <<made, bank>>

\* Each text of the questions is in the bank as one of them, other rows stay.
Saved(questions) ==
    /\ DOMAIN bank' = DOMAIN bank
    /\ \A text \in DOMAIN bank :
          LET same == {i \in DOMAIN questions : TextOf[questions[i].draft] = text}
          IN  IF same = {} THEN bank'[text] = bank[text]
              ELSE \E i \in same : bank'[text] = questions[i]

Makes(r) ==
    /\ made' = [made EXCEPT ![r] = made'[r]]
    /\ Fits(r, made'[r])

Deliver(r) ==
    /\ status[r] = "open"
    /\ status' = [status EXCEPT ![r] = "ready"]
    /\ Makes(r)
    /\ Saved(made'[r])

\* Short of its questions a request saves nothing, with them all or none.
Refuse(r) ==
    /\ status[r] = "open"
    /\ status' = [status EXCEPT ![r] = "failed"]
    /\ \/ UNCHANGED <<made, bank>>
       \/ Makes(r) /\ (UNCHANGED bank \/ Saved(made'[r]))

Next == \E r \in Requests : Open(r) \/ Deliver(r) \/ Refuse(r)

Spec == Init /\ [][Next]_vars
=============================================================================
