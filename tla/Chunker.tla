------------------------------ MODULE Chunker ------------------------------
(***************************************************************************)
(* chunk_section (ingestion/chunker.py): the text of a section cut into    *)
(* windows of CHUNK_SIZE characters that overlap by OVERLAP.  A text is    *)
(* its length and whether it is only whitespace; a window is the slice     *)
(* text[from:to].                                                          *)
(***************************************************************************)
EXTENDS Integers, Sequences

CONSTANTS
    CHUNK_SIZE,
    OVERLAP,
    Lengths  \* of the texts

ASSUME SizesAssumption ==
    /\ CHUNK_SIZE \in Nat
    /\ OVERLAP \in Nat
    /\ OVERLAP < CHUNK_SIZE

ASSUME LengthsAssumption == Lengths \subseteq Nat

VARIABLES
    total_length,
    blank,   \* not text.strip()
    start,
    chunks,
    running  \* the loop goes on

vars == <<total_length, blank, start, chunks, running>>

Window == [from : Nat, to : Nat]

Init ==
    /\ total_length \in Lengths
    /\ blank \in BOOLEAN
    /\ total_length = 0 => blank
    /\ start = 0
    /\ chunks = <<>>
    /\ running = ~blank

End == IF start + CHUNK_SIZE < total_length THEN start + CHUNK_SIZE ELSE total_length

\* Mutant: the early exit forgotten, so that the loop ends only by its condition.
NeverBreaks == FALSE

Breaks == End = total_length

\* Mutant: windows side by side.
SideBySide == start + CHUNK_SIZE

NextStart == start + (CHUNK_SIZE - OVERLAP)

\* One pass of the loop, with the test of the next one.
Cut ==
    /\ running
    /\ chunks' = Append(chunks, [from |-> start, to |-> End])
    /\ start' = IF Breaks THEN start ELSE NextStart
    /\ running' = (~Breaks /\ start' < total_length)
    /\ UNCHANGED <<total_length, blank>>

Next == Cut

Spec == Init /\ [][Next]_vars

-----------------------------------------------------------------------------

TypeOK ==
    /\ total_length \in Nat
    /\ blank \in BOOLEAN
    /\ start \in Nat
    /\ chunks \in Seq(Window)
    /\ running \in BOOLEAN

Last == chunks[Len(chunks)]

\* When the loop ends the windows lose no character: the first begins the text,
\* each begins exactly OVERLAP before the end of the one before, the last ends
\* the text; and a text of whitespace has none.
WindowsCoverTheText ==
    ~running =>
        IF blank THEN chunks = <<>>
        ELSE /\ chunks # <<>>
             /\ chunks[1].from = 0
             /\ \A i \in 1..Len(chunks) - 1 : chunks[i + 1].from = chunks[i].to - OVERLAP
             /\ Last.to = total_length

\* Every window holds text that the one before does not, none is longer than
\* CHUNK_SIZE and only the last may be shorter: no window lies within the overlap
\* with its predecessor, where it would be embedded as a duplicate, and the loop ends,
\* since the ends of its windows grow up to the length of the text.
EveryWindowAddsText ==
    \A i \in 1..Len(chunks) :
        /\ chunks[i].to - chunks[i].from \in 1..CHUNK_SIZE
        /\ i < Len(chunks) =>
              /\ chunks[i].to - chunks[i].from = CHUNK_SIZE
              /\ chunks[i + 1].to > chunks[i].to

\* What holds at the head of the loop, for the proofs.
LoopInv ==
    /\ running =>
          /\ ~blank
          /\ start < total_length
          /\ chunks = <<>> => start = 0
          /\ chunks # <<>> =>
                /\ Last.to < total_length
                /\ Last.to - Last.from = CHUNK_SIZE
                /\ start = Last.to - OVERLAP
    /\ chunks # <<>> => chunks[1].from = 0
    /\ \A i \in 1..Len(chunks) - 1 : chunks[i + 1].from = chunks[i].to - OVERLAP

IInv == TypeOK /\ LoopInv /\ EveryWindowAddsText /\ WindowsCoverTheText

=============================================================================
