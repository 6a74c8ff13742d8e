--------------------------- MODULE SheetSections ---------------------------
(***************************************************************************)
(* From a captured sheet to its chunks: normalize_page names a section for *)
(* the objective card and for each content block (scripts/                 *)
(* normalize_thematic_sheets.py), and _pending_chunks_for_page cuts every  *)
(* section's text (scripts/ingest_corpus.py), with Chunker for the loop.   *)
(* The parsing of HTML stays out: a block is the slug of its heading,      *)
(* empty when there is none or nothing to spell, whether it has a heading, *)
(* and the length of its text without the heading, whitespace collapsed.   *)
(***************************************************************************)
EXTENDS Chunker, FiniteSets, Functions, TLC

\* Sheets: each an objective and the content blocks; a card that is missing is one
\* with nothing in it.
CONSTANT Sheets

ASSUME SheetsAssumption == \A s \in Sheets :
    /\ s.blocks \in Seq(Range(s.blocks))
    /\ \A b \in Range(s.blocks) \cup {s.objective} :
          b.length \in Lengths /\ (b.slug # "" => b.headed)

\* How ids are spelled.  That these strings differ is all the proofs take of it.
Numbered(n) == "section-" \o (IF n < 10 THEN "0" ELSE "") \o ToString(n)
Suffixed(base, n) == base \o "-" \o ToString(n)

\* The ids that the blocks of a sheet may have before they are told apart.
Bases(s) ==
    ({b.slug : b \in Range(s.blocks)} \ {""}) \cup {Numbered(n) : n \in 1 .. Len(s.blocks)}

ASSUME SpellingAssumption == \A s \in Sheets :
    /\ "" \notin Bases(s)
    /\ \A base \in Bases(s) : \A n \in 1 .. Len(s.blocks) :
          /\ Suffixed(base, n) # base
          /\ \A m \in 1 .. n - 1 : Suffixed(base, m) # Suffixed(base, n)

VARIABLES
    sheet,
    block,     \* how many content blocks were read
    sections,  \* objective first
    seen_ids,
    cut,       \* how many sections were cut
    pending    \* the chunks, by section and index

sheet_vars == <<sheet, block, sections, seen_ids, cut, pending>>
all_vars == <<vars, sheet_vars>>

-----------------------------------------------------------------------------

IsSection(b) == b.headed \/ b.length > 0
Section(id, base, of, b) == [id |-> id, base |-> base, of |-> of, length |-> b.length]

\* _objective_section: its id is its heading's, and not counted in seen_ids.
ObjectiveId(b) == IF b.slug # "" THEN b.slug ELSE "objectif"

ObjectiveSections(b) ==
    IF IsSection(b) THEN <<Section(ObjectiveId(b), ObjectiveId(b), "objective", b)>> ELSE <<>>

ChunkerRests ==
    total_length = 0 /\ blank = TRUE /\ start = 0 /\ chunks = <<>> /\ running = FALSE

SheetInit ==
    /\ ChunkerRests
    /\ sheet \in Sheets
    /\ block = 0
    /\ sections = ObjectiveSections(sheet.objective)
    /\ seen_ids = [base \in {} |-> 0]
    /\ cut = 0
    /\ pending = <<>>

\* Content sections so far; a block without a heading is numbered after them.
Named == Len(sections) - Len(ObjectiveSections(sheet.objective))

BaseId(b) == IF b.slug # "" THEN b.slug ELSE Numbered(Named + 1)

Seen(base) == IF base \in DOMAIN seen_ids THEN seen_ids[base] + 1 ELSE 1

\* Mutant: whatever was seen before is the second.
SecondId(base, n) == IF n = 1 THEN base ELSE base \o "-2"

SectionId(base, n) == IF n = 1 THEN base ELSE Suffixed(base, n)

\* One content block: nothing of an empty one, else the next section.
ReadBlock ==
    LET b == sheet.blocks[block + 1]
        base == BaseId(b)
    IN
    /\ block < Len(sheet.blocks)
    /\ block' = block + 1
    /\ IF IsSection(b)
       THEN /\ seen_ids' = [id \in DOMAIN seen_ids \cup {base} |->
                            IF id = base THEN Seen(base) ELSE seen_ids[id]]
            /\ sections' = Append(sections, Section(SectionId(base, Seen(base)), base, "content", b))
       ELSE UNCHANGED <<seen_ids, sections>>
    /\ UNCHANGED <<vars, sheet, cut, pending>>

\* The page is whole; chunk_section begins on the text of the next section.  Collapsed
\* whitespace is stripped: only an empty text is blank.
BeginSection ==
    /\ block = Len(sheet.blocks)
    /\ cut < Len(sections)
    /\ ~running
    /\ cut = 0 \/ chunks = <<>>
    /\ cut' = cut + 1
    /\ total_length' = sections[cut'].length
    /\ blank' = (total_length' = 0)
    /\ start' = 0
    /\ chunks' = <<>>
    /\ running' = ~blank'
    /\ UNCHANGED <<sheet, block, sections, seen_ids, pending>>

CutSection ==
    /\ Cut
    /\ UNCHANGED sheet_vars

\* enumerate over the windows of a section.
Enumerated(i, windows) ==
    [k \in DOMAIN windows |-> [section |-> i, chunk_index |-> k - 1, window |-> windows[k]]]

EndSection ==
    /\ ~running
    /\ chunks # <<>>
    /\ pending' = pending \o Enumerated(cut, chunks)
    /\ chunks' = <<>>
    /\ blank' = TRUE
    /\ UNCHANGED <<total_length, start, running, sheet, block, sections, seen_ids, cut>>

SheetNext == ReadBlock \/ BeginSection \/ CutSection \/ EndSection

SheetSpec == SheetInit /\ [][SheetNext]_all_vars /\ WF_all_vars(SheetNext)

-----------------------------------------------------------------------------

Done == block = Len(sheet.blocks) /\ cut = Len(sections) /\ ~running /\ chunks = <<>>

\* The objective and the blocks; those of the first n that make a section.
Part(s, i) == IF i = 1 THEN s.objective ELSE s.blocks[i - 1]
Full(s, n) == {i \in 1 .. n : IsSection(Part(s, i))}

Id(chunk) == sections[chunk.section].id
Base(chunk) == sections[chunk.section].base
OfObjective(chunk) == sections[chunk.section].of = "objective"
ChunksOf(list, i) == {k \in DOMAIN list : list[k].section = i}

\* The n-th part with something in it is the n-th section.
SectionsInOrder ==
    /\ Len(sections) = Cardinality(Full(sheet, block + 1))
    /\ \A p \in Full(sheet, block + 1) :
          sections[Cardinality(Full(sheet, p))].length = Part(sheet, p).length

ChunksNumbered(list) ==
    \A k \in DOMAIN list :
        list[k].chunk_index = Cardinality({j \in ChunksOf(list, list[k].section) : j < k})

Whole(list, i, length) ==
    \A c \in 1 .. length : \E k \in ChunksOf(list, i) :
        list[k].window.from < c /\ c <= list[k].window.to

\* When a sheet is done, every block with something in it has its section, in order;
\* the text of each is in windows numbered from 0 that leave nothing out; and two chunks
\* of content blocks are at one place (section id and index) only under different
\* headings: the citation of a chunk under a heading that a sheet repeats is that of its
\* own section.  A chunk of the objective may be at the place of a block that has its
\* heading: _objective_section does not count its id.
EveryBlockHasItsPlace ==
    Done =>
        /\ SectionsInOrder
        /\ ChunksNumbered(pending)
        /\ \A i \in DOMAIN sections : Whole(pending, i, sections[i].length)
        /\ \A j, k \in DOMAIN pending :
             /\ j < k
             /\ ~OfObjective(pending[j]) /\ ~OfObjective(pending[k])
             /\ Id(pending[j]) = Id(pending[k])
             /\ pending[j].chunk_index = pending[k].chunk_index
             => Base(pending[j]) # Base(pending[k])

\* The inductive invariant: content sections of one base have ids of different numbers, and the
\* chunks pending are those of the sections that were cut.
IdsOf(s, base) == {SectionId(base, n) : n \in 1 .. Len(s.blocks)}
Ids(s) == {s.objective.slug, "objectif"} \cup UNION {IdsOf(s, base) : base \in Bases(s)}

SectionOf(s) ==
    [id : Ids(s), base : Bases(s) \cup {ObjectiveId(s.objective)},
     of : {"objective", "content"}, length : Lengths]

SectionsInv ==
    /\ sheet \in Sheets
    /\ block \in 0 .. Len(sheet.blocks)
    /\ sections \in Seq(SectionOf(sheet))
    /\ Named \in 0 .. block
    /\ SectionsInOrder
    /\ \A base \in DOMAIN seen_ids : seen_ids[base] \in 1 .. block
    /\ \A i \in DOMAIN sections :
          LET base == sections[i].base IN
          IF sections[i].of = "objective" THEN i = 1
          ELSE /\ base \in DOMAIN seen_ids
               /\ \E n \in 1 .. seen_ids[base] : sections[i].id = SectionId(base, n)
    /\ \A i, j \in DOMAIN sections :
          /\ i # j /\ sections[i].base = sections[j].base
          /\ sections[i].of # "objective" /\ sections[j].of # "objective"
          => sections[i].id # sections[j].id

Chunk == [section : Nat, chunk_index : Nat, window : Window]
Cutting == running \/ chunks # <<>>

PendingInv ==
    /\ cut \in 0 .. Len(sections)
    /\ block < Len(sheet.blocks) => cut = 0
    /\ Cutting => cut # 0 /\ total_length = sections[cut].length /\ ChunksOf(pending, cut) = {}
    /\ pending \in Seq(Chunk)
    /\ \A k \in DOMAIN pending : pending[k].section \in 1 .. cut
    /\ ChunksNumbered(pending)
    /\ \A i \in 1 .. cut :
          (i = cut /\ Cutting) \/ Whole(pending, i, sections[i].length)

SheetInv == IInv /\ SectionsInv /\ PendingInv
=============================================================================
