------------------------- MODULE SheetSections_proofs -------------------------
(***************************************************************************)
(* Proofs that chunk_section loses no character and repeats no window, for *)
(* every text, window size and smaller overlap; and that every block of a  *)
(* sheet has its place among the chunks, for every sheet.                  *)
(***************************************************************************)
EXTENDS SheetSections, FiniteSetTheorems, SequenceTheorems, WellFoundedInduction, TLAPS

\* What holds when the loop is entered, and of a text that has no window.
LEMMA InitInv == Init => IInv
<1> USE SizesAssumption, LengthsAssumption
<1> SUFFICES ASSUME Init PROVE IInv
  OBVIOUS
<1>1. chunks = <<>> /\ Len(chunks) = 0 /\ chunks \in Seq(Window)
  BY DEF Init
<1>2. TypeOK
  BY <1>1 DEF Init, TypeOK
<1>3. /\ 1..Len(chunks) = {} /\ 1..Len(chunks) - 1 = {}
      /\ total_length # 0 => 0 < total_length
  BY <1>1, <1>2 DEF TypeOK
<1>4. running => ~blank /\ total_length # 0 /\ start = 0
  BY DEF Init
<1>5. LoopInv
  BY <1>1, <1>3, <1>4 DEF LoopInv
<1>6. EveryWindowAddsText
  BY <1>3 DEF EveryWindowAddsText
<1>7. ~running => blank
  BY DEF Init
<1>8. WindowsCoverTheText
  BY <1>1, <1>7 DEF WindowsCoverTheText
<1> QED
  BY <1>2, <1>5, <1>6, <1>8 DEF IInv

\* One pass of the loop keeps the invariant: the window it appends begins within
\* the one before and ends after it.
LEMMA CutInv == IInv /\ Cut => IInv'
<1> USE SizesAssumption
<1> SUFFICES ASSUME IInv, Cut PROVE IInv'
  OBVIOUS
<1> DEFINE window == [from |-> start, to |-> End]
<1>1. /\ total_length \in Nat /\ start \in Nat /\ chunks \in Seq(Window)
      /\ ~blank /\ start < total_length
  BY DEF IInv, TypeOK, LoopInv, Cut
<1>2. /\ End \in Nat /\ End <= total_length /\ End > start
      /\ End - start <= CHUNK_SIZE
      /\ ~Breaks => End < total_length /\ End = start + CHUNK_SIZE
      /\ Breaks => End = total_length
  BY <1>1 DEF End, Breaks
<1>3. window \in Window /\ window.from = start /\ window.to = End
  BY <1>1, <1>2 DEF Window
<1>4. /\ chunks' = Append(chunks, window)
      /\ chunks' \in Seq(Window)
      /\ Len(chunks) \in Nat
      /\ Len(chunks') = Len(chunks) + 1
      /\ chunks'[Len(chunks) + 1] = window
      /\ \A i \in 1..Len(chunks) : chunks'[i] = chunks[i]
  BY <1>1, <1>3 DEF Cut
<1>5. /\ total_length' = total_length /\ blank' = blank
      /\ running' = (~Breaks /\ start' < total_length)
      /\ start' = IF Breaks THEN start ELSE start + (CHUNK_SIZE - OVERLAP)
  BY DEF Cut, NextStart
<1>6. ASSUME Len(chunks) # 0
      PROVE  /\ Last \in Window
             /\ start = Last.to - OVERLAP
             /\ Last.to - Last.from = CHUNK_SIZE
             /\ Last.to < total_length
             /\ End > Last.to
  <2>1. chunks # <<>>
    BY <1>1, <1>6
  <2>2. Last \in Window
    BY <1>1, <1>4, <1>6 DEF Last
  <2>3. start = Last.to - OVERLAP /\ Last.to - Last.from = CHUNK_SIZE /\ Last.to < total_length
    BY <2>1 DEF IInv, LoopInv, Cut
  <2>4. Last.to \in Nat
    BY <2>2 DEF Window
  <2>5. End > Last.to
    BY <2>3, <2>4, <1>1 DEF End
  <2> QED
    BY <2>2, <2>3, <2>5
<1>7. ASSUME NEW i \in 1..Len(chunks)
      PROVE  chunks[i].from \in Nat /\ chunks[i].to \in Nat
  <2>1. chunks[i] \in Window
    BY <1>1, <1>7
  <2> QED
    BY <2>1 DEF Window
<1>8. Last' = window
  BY <1>4 DEF Last
<1>9. /\ start' \in Nat
      /\ ~Breaks => start' = End - OVERLAP /\ start' < total_length
  BY <1>1, <1>2, <1>5
<1>10. TypeOK'
  BY <1>1, <1>4, <1>5 DEF TypeOK, IInv
<1>11. \A i \in 1..Len(chunks') - 1 : chunks'[i + 1].from = chunks'[i].to - OVERLAP
  <2> SUFFICES ASSUME NEW i \in 1..Len(chunks)
               PROVE  chunks'[i + 1].from = chunks'[i].to - OVERLAP
    BY <1>4
  <2>1. CASE i = Len(chunks)
    BY <2>1, <1>3, <1>4, <1>6 DEF Last
  <2>2. CASE i # Len(chunks)
    <3>1. i \in 1..Len(chunks) - 1 /\ i + 1 \in 1..Len(chunks)
      BY <2>2, <1>4
    <3>2. chunks[i + 1].from = chunks[i].to - OVERLAP
      BY <3>1 DEF IInv, LoopInv
    <3> QED
      BY <3>1, <3>2, <1>4
  <2> QED
    BY <2>1, <2>2
<1>12. chunks'[1].from = 0
  <2>1. CASE Len(chunks) = 0
    <3>1. chunks = <<>>
      BY <2>1, <1>1
    <3>2. start = 0
      BY <3>1 DEF IInv, LoopInv, Cut
    <3> QED
      BY <2>1, <3>2, <1>3, <1>4
  <2>2. CASE Len(chunks) # 0
    <3>1. chunks # <<>> /\ 1 \in 1..Len(chunks)
      BY <2>2, <1>1, <1>4
    <3>2. chunks[1].from = 0
      BY <3>1 DEF IInv, LoopInv
    <3> QED
      BY <3>1, <3>2, <1>4
  <2> QED
    BY <2>1, <2>2
<1>13. chunks' # <<>>
  BY <1>4
<1>14. LoopInv'
  <2>1. running' => /\ ~blank' /\ start' < total_length'
                    /\ Last'.to < total_length'
                    /\ Last'.to - Last'.from = CHUNK_SIZE
                    /\ start' = Last'.to - OVERLAP
    <3>1. running' => ~Breaks
      BY <1>5
    <3> QED
      BY <3>1, <1>1, <1>2, <1>3, <1>5, <1>8, <1>9
  <2> QED
    BY <2>1, <1>11, <1>12, <1>13 DEF LoopInv
<1>15. EveryWindowAddsText'
  <2> SUFFICES ASSUME NEW i \in 1..Len(chunks) + 1
               PROVE  /\ chunks'[i].to - chunks'[i].from \in 1..CHUNK_SIZE
                      /\ i < Len(chunks) + 1 =>
                            /\ chunks'[i].to - chunks'[i].from = CHUNK_SIZE
                            /\ chunks'[i + 1].to > chunks'[i].to
    BY <1>4 DEF EveryWindowAddsText
  <2>1. CASE i = Len(chunks) + 1
    BY <2>1, <1>1, <1>2, <1>3, <1>4
  <2>2. CASE i = Len(chunks)
    <3>1. Len(chunks) # 0 /\ chunks'[i] = Last
      BY <2>2, <1>4 DEF Last
    <3>2. chunks'[i + 1].to = End
      BY <2>2, <1>3, <1>4
    <3> QED
      BY <3>1, <3>2, <1>6
  <2>3. CASE i < Len(chunks)
    <3>1. i \in 1..Len(chunks) /\ i + 1 \in 1..Len(chunks)
      BY <2>3, <1>4
    <3> QED
      BY <2>3, <3>1, <1>4 DEF IInv, EveryWindowAddsText
  <2> QED
    BY <2>1, <2>2, <2>3, <1>4
<1>16. WindowsCoverTheText'
  <2>1. ~running' => Last'.to = total_length'
    <3>1. ~running' => Breaks
      BY <1>5, <1>9
    <3> QED
      BY <3>1, <1>2, <1>3, <1>5, <1>8
  <2> QED
    BY <2>1, <1>1, <1>5, <1>11, <1>12, <1>13 DEF WindowsCoverTheText
<1> QED
  BY <1>10, <1>14, <1>15, <1>16 DEF IInv

THEOREM Inductive == Spec => []IInv
<1>1. IInv /\ UNCHANGED vars => IInv'
  BY DEF IInv, TypeOK, LoopInv, EveryWindowAddsText, WindowsCoverTheText, Last, vars
<1>2. IInv /\ [Next]_vars => IInv'
  BY <1>1, CutInv DEF Next
<1> QED
  BY InitInv, <1>2, PTL DEF Spec

\* The windows of a text cover it, each but the first beginning OVERLAP before the
\* end of its predecessor, whatever the sizes and the length.
THEOREM Coverage == Spec => []WindowsCoverTheText
<1> QED
  BY Inductive, PTL DEF IInv

\* No window lies within its predecessor.
THEOREM NoDuplicateWindow == Spec => []EveryWindowAddsText
<1> QED
  BY Inductive, PTL DEF IInv

-----------------------------------------------------------------------------
(* The windows of a section hold every character of it. *)

\* The least number with a property.
LEMMA LeastNumber ==
    ASSUME NEW S \in SUBSET Nat, S # {}
    PROVE  \E n \in S : \A m \in S : ~(m < n)
<1>1. PICK n \in S : \A m \in S : ~(<<m, n>> \in OpToRel(<, Nat))
  BY NatLessThanWellFounded, WFMin
<1> QED
  BY <1>1 DEF OpToRel

LEMMA WindowTypes ==
    ASSUME TypeOK
    PROVE  /\ Len(chunks) \in Nat /\ DOMAIN chunks = 1 .. Len(chunks)
           /\ \A i \in 1 .. Len(chunks) :
                /\ chunks[i] \in Window
                /\ chunks[i].from \in Nat /\ chunks[i].to \in Nat
<1>1. chunks \in Seq(Window)
  BY DEF TypeOK
<1>2. Len(chunks) \in Nat /\ DOMAIN chunks = 1 .. Len(chunks)
  BY <1>1, LenProperties
<1>3. \A i \in 1 .. Len(chunks) : chunks[i] \in Window
  BY <1>1, ElementOfSeq
<1> QED
  BY <1>2, <1>3 DEF Window

LEMMA EveryCharacterIsCut ==
    ASSUME IInv, ~running, chunks # <<>>, NEW c \in 1 .. total_length
    PROVE  \E m \in 1 .. Len(chunks) : chunks[m].from < c /\ c <= chunks[m].to
<1> USE SizesAssumption
<1>1. TypeOK /\ total_length \in Nat
  BY DEF IInv, TypeOK
<1>2. /\ chunks[1].from = 0 /\ chunks[Len(chunks)].to = total_length
      /\ \A i \in 1 .. Len(chunks) - 1 : chunks[i + 1].from = chunks[i].to - OVERLAP
  BY DEF IInv, WindowsCoverTheText, Last
<1>3. Len(chunks) \in Nat \ {0}
  BY <1>1, EmptySeq DEF TypeOK
<1> DEFINE S == {m \in 1 .. Len(chunks) : c <= chunks[m].to}
<1>4. Len(chunks) \in S /\ S \subseteq Nat
  BY <1>1, <1>2, <1>3
<1>5. PICK m \in S : \A i \in S : ~(i < m)
  BY <1>4, LeastNumber
<1>6. chunks[m].from < c
  <2>1. CASE m = 1
    BY <1>2, <2>1
  <2>2. CASE m # 1
    <3>1. m - 1 \in 1 .. Len(chunks) /\ m - 1 \in 1 .. Len(chunks) - 1 /\ m - 1 < m /\ (m - 1) + 1 = m
      BY <1>3, <2>2
    <3>2. ~(c <= chunks[m - 1].to) /\ chunks[m - 1].to \in Nat
      BY <1>1, <1>5, <3>1, WindowTypes
    <3>3. chunks[m].from = chunks[m - 1].to - OVERLAP
      BY <1>2, <3>1
    <3> QED
      BY <3>2, <3>3
  <2> QED
    BY <2>1, <2>2
<1> QED
  BY <1>6

\* A chunker with nothing cut keeps its invariant, whatever the text.
Ready ==
    /\ total_length \in Nat /\ blank \in BOOLEAN /\ start \in Nat
    /\ chunks = <<>>
    /\ running = ~blank
    /\ running => start = 0 /\ total_length # 0

LEMMA ReadyToCut == Ready => IInv
<1> SUFFICES ASSUME Ready PROVE IInv
  OBVIOUS
<1>0. total_length \in Nat /\ blank \in BOOLEAN /\ start \in Nat /\ chunks = <<>>
      /\ (running <=> ~blank) /\ running \in BOOLEAN
  BY DEF Ready
<1>1. Len(chunks) = 0 /\ chunks \in Seq(Window) /\ 1 .. Len(chunks) = {} /\ 1 .. Len(chunks) - 1 = {}
  BY <1>0
<1>2. TypeOK
  BY <1>0, <1>1 DEF TypeOK
<1>3. running => start = 0 /\ start < total_length
  BY <1>0 DEF Ready
<1>4. LoopInv
  BY <1>0, <1>1, <1>3 DEF LoopInv
<1> QED
  BY <1>0, <1>1, <1>2, <1>4 DEF IInv, EveryWindowAddsText, WindowsCoverTheText

LEMMA ReadyNext == Ready' => IInv'
  BY ReadyToCut, PTL

-----------------------------------------------------------------------------
(* The sections of a sheet *)

\* What a sheet is.
LEMMA SheetFacts ==
    ASSUME NEW s \in Sheets
    PROVE  /\ Len(s.blocks) \in Nat
           /\ \A i \in 1 .. Len(s.blocks) :
                s.blocks[i] \in Range(s.blocks) /\ s.blocks[i].length \in Lengths
           /\ s.objective.length \in Lengths
           /\ "" \notin Bases(s)
<1>1. s.blocks \in Seq(Range(s.blocks))
  BY SheetsAssumption
<1>2. Len(s.blocks) \in Nat /\ \A i \in 1 .. Len(s.blocks) : s.blocks[i] \in Range(s.blocks)
  BY <1>1, LenProperties, ElementOfSeq
<1> QED
  BY <1>2, SheetsAssumption, SpellingAssumption

\* Ids of one base and different numbers differ.
LEMMA IdsDiffer ==
    ASSUME NEW s \in Sheets, NEW base \in Bases(s),
           NEW m \in 1 .. Len(s.blocks), NEW n \in 1 .. Len(s.blocks), m < n
    PROVE  SectionId(base, m) # SectionId(base, n)
<1>1. Len(s.blocks) \in Nat
  BY SheetFacts
<1>2. Suffixed(base, n) # base /\ \A k \in 1 .. n - 1 : Suffixed(base, k) # Suffixed(base, n)
  BY SpellingAssumption
<1>3. n # 1 /\ m \in 1 .. n - 1
  BY <1>1
<1> QED
  BY <1>2, <1>3 DEF SectionId

LEMMA FullFacts ==
    ASSUME NEW s, NEW n \in Nat
    PROVE  /\ IsFiniteSet(Full(s, n)) /\ Cardinality(Full(s, n)) \in 0 .. n
           /\ Full(s, n) \subseteq 1 .. n
           /\ IF IsSection(Part(s, n + 1))
              THEN /\ Full(s, n + 1) = Full(s, n) \cup {n + 1}
                   /\ Cardinality(Full(s, n + 1)) = Cardinality(Full(s, n)) + 1
              ELSE Full(s, n + 1) = Full(s, n)
<1>1. IsFiniteSet(1 .. n) /\ Cardinality(1 .. n) = n
  BY FS_Interval
<1>2. Full(s, n) \subseteq 1 .. n
  BY DEF Full
<1>3. IsFiniteSet(Full(s, n)) /\ Cardinality(Full(s, n)) \in 0 .. n
  BY <1>1, <1>2, FS_Subset, FS_CardinalityType
<1>4. 1 .. n + 1 = (1 .. n) \cup {n + 1} /\ n + 1 \notin 1 .. n
  OBVIOUS
<1>5. IsSection(Part(s, n + 1)) =>
        Full(s, n + 1) = Full(s, n) \cup {n + 1} /\ n + 1 \notin Full(s, n)
  BY <1>4 DEF Full
<1>6. ~IsSection(Part(s, n + 1)) => Full(s, n + 1) = Full(s, n)
  BY <1>4 DEF Full
<1> HIDE DEF Full
<1>7. n + 1 \notin Full(s, n) =>
        Cardinality(Full(s, n) \cup {n + 1}) = Cardinality(Full(s, n)) + 1
  BY <1>3, FS_AddElement
<1> QED
  BY <1>2, <1>3, <1>5, <1>6, <1>7

\* A section appended.
LEMMA SectionAppended ==
    ASSUME NEW S, NEW list \in Seq(S), NEW r \in S, NEW list2, list2 = Append(list, r)
    PROVE  /\ Len(list) \in Nat /\ Len(list2) = Len(list) + 1
           /\ DOMAIN list = 1 .. Len(list) /\ DOMAIN list2 = 1 .. Len(list) + 1
           /\ \A i \in 1 .. Len(list) : list2[i] = list[i]
           /\ list2[Len(list) + 1] = r
  BY AppendProperties, LenProperties

\* The objective.
LEMMA IdsOfObjective ==
    ASSUME NEW s
    PROVE  s.objective.slug \in Ids(s) /\ "objectif" \in Ids(s)
  BY DEF Ids

LEMMA ObjectiveFacts ==
    ASSUME NEW s \in Sheets, NEW first, first = ObjectiveSections(s.objective)
    PROVE  /\ first \in Seq(SectionOf(s))
           /\ IsSection(s.objective) =>
                Len(first) = 1 /\ first[1].of = "objective" /\ first[1].length = s.objective.length
           /\ ~IsSection(s.objective) => Len(first) = 0
<1> DEFINE o == s.objective
           id == ObjectiveId(o)
           r == Section(id, id, "objective", o)
<1>0. id \in Ids(s)
  BY IdsOfObjective DEF ObjectiveId
<1>1. r \in SectionOf(s) /\ r.of = "objective" /\ r.length = o.length
  BY <1>0, SheetFacts DEF Section, SectionOf
<1>2. first = IF IsSection(o) THEN <<r>> ELSE <<>>
  BY DEF ObjectiveSections
<1> HIDE DEF r, o
<1>3. CASE IsSection(o)
  <2>1. first = <<r>>
    BY <1>2, <1>3
  <2>5. r \in SectionOf(s)
    BY ONLY <1>1
  <2>2. first \in Seq(SectionOf(s))
    BY ONLY <2>1, <2>5
  <2>3. Len(first) = 1 /\ first[1] = r
    BY ONLY <2>1
  <2>4. first[1].of = "objective" /\ first[1].length = o.length
    BY ONLY <1>1, <2>3
  <2> QED
    BY ONLY <1>3, <2>2, <2>3, <2>4 DEF o
<1>4. CASE ~IsSection(o)
  <2>1. first = <<>>
    BY <1>2, <1>4
  <2>2. first \in Seq(SectionOf(s))
    BY <2>1
  <2>3. Len(first) = 0
    BY ONLY <2>1
  <2> QED
    BY ONLY <1>4, <2>2, <2>3 DEF o
<1> QED
  BY <1>3, <1>4

LEMMA SectionsInit == SheetInit => SectionsInv
<1> SUFFICES ASSUME SheetInit PROVE SectionsInv
  OBVIOUS
<1> DEFINE o == sheet.objective
<1>1. /\ sheet \in Sheets /\ block = 0 /\ sections = ObjectiveSections(o)
      /\ DOMAIN seen_ids = {}
  BY DEF SheetInit
<1>2. /\ IsSection(o) =>
           Len(sections) = 1 /\ sections[1].of = "objective" /\ sections[1].length = o.length
      /\ ~IsSection(o) => Len(sections) = 0
  BY <1>1, ObjectiveFacts
<1>9. sections \in Seq(SectionOf(sheet))
  BY <1>1, ObjectiveFacts
<1>10. DOMAIN sections = 1 .. Len(sections) /\ Len(sections) \in Nat
  BY <1>9, LenProperties
<1>3. Named = 0
  BY ONLY <1>1, <1>10 DEF Named
<1>4. /\ Full(sheet, 0) = {} /\ Part(sheet, 1) = o
      /\ IF IsSection(o) THEN Full(sheet, 1) = {1} ELSE Full(sheet, 1) = {}
  BY DEF Full, Part
<1>5. Cardinality({}) = 0 /\ Cardinality({1}) = 1
  BY FS_EmptySet, FS_Singleton
<1>6. SectionsInOrder
  <2>1. CASE IsSection(o)
    <3>1. Full(sheet, 1) = {1} /\ Len(sections) = 1 /\ sections[1].length = o.length
      BY <1>2, <1>4, <2>1
    <3>2. block + 1 = 1
      BY ONLY <1>1
    <3>3. \A p \in {1} : sections[Cardinality(Full(sheet, p))].length = Part(sheet, p).length
      BY ONLY <1>4, <1>5, <3>1
    <3> QED
      BY ONLY <1>5, <3>1, <3>2, <3>3 DEF SectionsInOrder
  <2>2. CASE ~IsSection(o)
    <3>1. Full(sheet, 1) = {} /\ Len(sections) = 0
      BY <1>2, <1>4, <2>2
    <3>2. block + 1 = 1
      BY ONLY <1>1
    <3> QED
      BY ONLY <1>5, <3>1, <3>2 DEF SectionsInOrder
  <2> QED
    BY ONLY <2>1, <2>2
<1>7. \A i \in DOMAIN sections : i = 1 /\ sections[i].of = "objective"
  <2>1. ASSUME NEW i \in 1 .. Len(sections) PROVE i = 1 /\ IsSection(o)
    <3>1. CASE IsSection(o)
      <4>1. Len(sections) = 1
        BY ONLY <1>2, <3>1
      <4> QED
        BY ONLY <2>1, <3>1, <4>1
    <3>2. CASE ~IsSection(o)
      <4>1. Len(sections) = 0
        BY ONLY <1>2, <3>2
      <4> QED
        BY ONLY <2>1, <4>1
    <3> QED
      BY ONLY <3>1, <3>2
  <2> QED
    BY ONLY <1>2, <1>10, <2>1
<1>11. Len(sheet.blocks) \in Nat
  BY <1>1, SheetFacts
<1>8. block \in 0 .. Len(sheet.blocks) /\ Named \in 0 .. block
  BY ONLY <1>1, <1>3, <1>11
<1>12. \A base \in DOMAIN seen_ids : seen_ids[base] \in 1 .. block
  BY ONLY <1>1
<1> HIDE DEF o
<1> QED
  BY ONLY <1>1, <1>6, <1>7, <1>8, <1>9, <1>12 DEF SectionsInv

\* A block is read: nothing of an empty one, else a section with a new id.
LEMMA ReadBlockSections ==
    ASSUME SectionsInv, ReadBlock
    PROVE  SectionsInv' /\ Len(sections) <= Len(sections')
           /\ \A i \in DOMAIN sections : i \in DOMAIN sections' /\ sections'[i] = sections[i]
<1> DEFINE b == sheet.blocks[block + 1]
           base == BaseId(b)
           n == Seen(base)
           r == Section(SectionId(base, n), base, "content", b)
           first == Len(ObjectiveSections(sheet.objective))
           count == Len(sections)
<1>1. /\ sheet \in Sheets /\ block \in Nat /\ block < Len(sheet.blocks)
      /\ Len(sheet.blocks) \in Nat
      /\ sections \in Seq(SectionOf(sheet)) /\ count \in Nat /\ DOMAIN sections = 1 .. count
      /\ Named \in 0 .. block /\ Named = count - first /\ first \in Nat
      /\ SectionsInOrder
      /\ block + 1 \in 1 .. Len(sheet.blocks)
  <2>1. sheet \in Sheets /\ block \in 0 .. Len(sheet.blocks) /\ block < Len(sheet.blocks)
        /\ sections \in Seq(SectionOf(sheet)) /\ Named \in 0 .. block /\ SectionsInOrder
    BY DEF SectionsInv, ReadBlock
  <2>2. Len(sheet.blocks) \in Nat /\ count \in Nat /\ DOMAIN sections = 1 .. count
    BY <2>1, SheetFacts, LenProperties
  <2>3. first \in Nat
    <3>1. first = 1 \/ first = 0
      BY <2>1, ObjectiveFacts
    <3> QED
      BY <3>1
  <2> QED
    BY <2>1, <2>2, <2>3 DEF Named
<1>2. /\ sheet' = sheet /\ block' = block + 1
      /\ IF IsSection(b)
         THEN /\ seen_ids' = [x \in DOMAIN seen_ids \cup {base} |-> IF x = base THEN n ELSE seen_ids[x]]
              /\ sections' = Append(sections, r)
         ELSE UNCHANGED <<seen_ids, sections>>
  BY DEF ReadBlock
<1>3. Part(sheet, block + 2) = b
  BY <1>1 DEF Part
<1>4. \A x \in DOMAIN seen_ids : seen_ids[x] \in 1 .. block
  BY DEF SectionsInv
<1>5. /\ \A i \in DOMAIN sections :
            IF sections[i].of = "objective" THEN i = 1
            ELSE /\ sections[i].base \in DOMAIN seen_ids
                 /\ \E k \in 1 .. seen_ids[sections[i].base] :
                       sections[i].id = SectionId(sections[i].base, k)
      /\ \A i, j \in DOMAIN sections :
            /\ i # j /\ sections[i].base = sections[j].base
            /\ sections[i].of # "objective" /\ sections[j].of # "objective"
            => sections[i].id # sections[j].id
  BY DEF SectionsInv
<1>6. /\ count = Cardinality(Full(sheet, block + 1))
      /\ \A p \in Full(sheet, block + 1) :
            sections[Cardinality(Full(sheet, p))].length = Part(sheet, p).length
  BY <1>1 DEF SectionsInOrder
<1>7. block + 1 \in Nat /\ (block + 1) + 1 = block + 2 /\ block + 2 \in Nat
  BY <1>1
<1>8. \A p \in Full(sheet, block + 1) : Cardinality(Full(sheet, p)) \in 1 .. count
  <2> SUFFICES ASSUME NEW p \in Full(sheet, block + 1)
               PROVE  Cardinality(Full(sheet, p)) \in 1 .. count
    OBVIOUS
  <2>1. p \in 1 .. block + 1 /\ p \in Nat /\ Full(sheet, p) \subseteq Full(sheet, block + 1)
        /\ p \in Full(sheet, p)
    BY <1>7 DEF Full
  <2>2. /\ IsFiniteSet(Full(sheet, p)) /\ Cardinality(Full(sheet, p)) \in Nat
        /\ IsFiniteSet(Full(sheet, block + 1))
    BY <1>7, <2>1, FullFacts
  <2>3. Cardinality(Full(sheet, p)) <= count
    BY <1>6, <2>1, <2>2, FS_Subset
  <2>4. Cardinality(Full(sheet, p)) # 0
    BY <2>1, <2>2, FS_EmptySet
  <2> QED
    BY <1>1, <2>2, <2>3, <2>4
<1>9. CASE ~IsSection(b)
  <2>1. UNCHANGED <<seen_ids, sections, sheet>> /\ block' = block + 1
    BY <1>2, <1>9
  <2>2. Full(sheet, block + 2) = Full(sheet, block + 1)
    BY <1>3, <1>7, <1>9, FullFacts
  <2>3. SectionsInOrder'
    BY <1>6, <1>7, <2>1, <2>2 DEF SectionsInOrder
  <2>4. Named' = Named
    BY <2>1 DEF Named
  <2>5. block + 1 \in 0 .. Len(sheet.blocks) /\ Named \in 0 .. block + 1
        /\ \A x \in DOMAIN seen_ids : seen_ids[x] \in 1 .. block + 1
    BY <1>1, <1>4
  <2>6. SectionsInv'
    BY <1>1, <1>5, <2>1, <2>3, <2>4, <2>5 DEF SectionsInv
  <2> QED
    BY <1>1, <2>1, <2>6
<1>10. CASE IsSection(b)
  <2>1. b \in Range(sheet.blocks) /\ b.length \in Lengths
    BY <1>1, SheetFacts
  <2>2. base \in Bases(sheet) /\ base # ""
    <3>1. Named + 1 \in 1 .. Len(sheet.blocks)
      <4>1. Named \in 0 .. block /\ block \in Nat /\ block < Len(sheet.blocks)
            /\ Len(sheet.blocks) \in Nat
        BY ONLY <1>1
      <4> QED
        BY ONLY <4>1
    <3>2. base \in Bases(sheet)
      <4>1. CASE b.slug # ""
        BY <2>1, <4>1 DEF BaseId, Bases
      <4>2. CASE b.slug = ""
        <5>1. base = Numbered(Named + 1)
          BY ONLY <4>2 DEF BaseId
        <5> QED
          BY ONLY <3>1, <5>1 DEF Bases
      <4> QED
        BY ONLY <4>1, <4>2
    <3> QED
      BY <1>1, <3>2, SheetFacts
  <2>3. n \in 1 .. block + 1 /\ (base \in DOMAIN seen_ids => n = seen_ids[base] + 1)
    BY <1>1, <1>4 DEF Seen
  <2> HIDE DEF base, n, b
  <2>4. r \in SectionOf(sheet) /\ r.base = base /\ r.of = "content"
        /\ r.id = SectionId(base, n) /\ r.length = b.length
    <3>1. SectionId(base, n) \in Ids(sheet)
      <4>1. n \in 1 .. Len(sheet.blocks)
        BY ONLY <1>1, <2>3
      <4>2. SectionId(base, n) \in IdsOf(sheet, base)
        BY ONLY <4>1 DEF IdsOf
      <4> QED
        BY ONLY <2>2, <4>2 DEF Ids
    <3> QED
      BY <2>1, <2>2, <3>1 DEF Section, SectionOf
  <2> HIDE DEF r, count, first
  <2>16. sections' = Append(sections, r)
    BY ONLY <1>2, <1>10
  <2>17. sections \in Seq(SectionOf(sheet)) /\ r \in SectionOf(sheet)
    BY ONLY <1>1, <2>4
  <2>18. sections' \in Seq(SectionOf(sheet))
    BY ONLY <2>16, <2>17, AppendProperties
  <2>5. /\ Len(sections') = count + 1 /\ DOMAIN sections' = 1 .. count + 1
        /\ \A i \in 1 .. count : sections'[i] = sections[i]
        /\ sections'[count + 1] = r
    BY ONLY <2>16, <2>17, SectionAppended DEF count
  <2>19. seen_ids' = [x \in DOMAIN seen_ids \cup {base} |-> IF x = base THEN n ELSE seen_ids[x]]
    BY ONLY <1>2, <1>10
  <2>6. /\ DOMAIN seen_ids' = DOMAIN seen_ids \cup {base}
        /\ seen_ids'[base] = n
        /\ \A x \in DOMAIN seen_ids \ {base} : seen_ids'[x] = seen_ids[x]
    BY ONLY <2>19
  <2>7. /\ Full(sheet, block + 2) = Full(sheet, block + 1) \cup {block + 2}
        /\ Cardinality(Full(sheet, block + 2)) = count + 1
    BY <1>3, <1>6, <1>7, <1>10, FullFacts
  <2>8. SectionsInOrder'
    <3>1. ASSUME NEW p \in Full(sheet, block + 2)
          PROVE  sections'[Cardinality(Full(sheet, p))].length = Part(sheet, p).length
      <4>1. CASE p = block + 2
        BY <1>3, <2>4, <2>5, <2>7, <4>1
      <4>2. CASE p \in Full(sheet, block + 1)
        BY <1>6, <1>8, <2>5, <4>2
      <4> QED
        BY <2>7, <4>1, <4>2
    <3> QED
      BY <1>2, <1>7, <2>5, <2>7, <3>1 DEF SectionsInOrder
  <2>9. Named' = Named + 1
    BY <1>1, <1>2, <2>5 DEF Named, first, count
  <2>10. \A x \in DOMAIN seen_ids' : seen_ids'[x] \in 1 .. block + 1
    BY <1>1, <1>4, <2>3, <2>6
  <2>11. ASSUME NEW i \in 1 .. count, sections[i].of # "objective"
         PROVE  /\ sections[i].base \in DOMAIN seen_ids'
                /\ \E k \in 1 .. seen_ids'[sections[i].base] :
                      sections[i].id = SectionId(sections[i].base, k)
                /\ sections[i].base = base => sections[i].id # r.id
    <3>1. PICK k \in 1 .. seen_ids[sections[i].base] :
              sections[i].id = SectionId(sections[i].base, k)
      BY <1>1, <1>5, <2>11
    <3>2. sections[i].base \in DOMAIN seen_ids /\ seen_ids[sections[i].base] \in 1 .. block
      BY <1>1, <1>4, <1>5, <2>11
    <3>3. CASE sections[i].base = base
      <4>1. n = seen_ids[base] + 1 /\ k \in 1 .. n /\ k < n
        BY <1>1, <2>3, <3>2, <3>3
      <4>2. k \in 1 .. Len(sheet.blocks) /\ n \in 1 .. Len(sheet.blocks)
        BY <1>1, <2>3, <4>1
      <4>3. SectionId(base, k) # SectionId(base, n)
        BY <1>1, <2>2, <4>1, <4>2, IdsDiffer
      <4> QED
        BY <2>4, <2>6, <3>1, <3>2, <3>3, <4>1, <4>3
    <3>4. CASE sections[i].base # base
      BY <2>6, <3>1, <3>2, <3>4
    <3> QED
      BY <3>3, <3>4
  <2>12. ASSUME NEW i \in 1 .. count + 1
         PROVE  IF sections'[i].of = "objective" THEN i = 1
                ELSE /\ sections'[i].base \in DOMAIN seen_ids'
                     /\ \E k \in 1 .. seen_ids'[sections'[i].base] :
                           sections'[i].id = SectionId(sections'[i].base, k)
    <3>1. CASE i = count + 1
      <4>1. sections'[i] = r /\ r.base = base /\ r.of = "content" /\ r.id = SectionId(base, n)
        BY ONLY <2>4, <2>5, <3>1
      <4>2. base # "" /\ base \in DOMAIN seen_ids' /\ n \in 1 .. seen_ids'[base]
        <5>1. n \in Nat \ {0}
          BY ONLY <1>1, <2>3
        <5>2. seen_ids'[base] = n /\ base \in DOMAIN seen_ids'
          BY ONLY <2>6
        <5>3. n \in 1 .. n
          BY ONLY <5>1
        <5> QED
          BY ONLY <2>2, <5>2, <5>3
      <4> QED
        BY ONLY <4>1, <4>2
    <3>2. CASE i \in 1 .. count
      <4>1. sections'[i] = sections[i] /\ (sections[i].of = "objective" => i = 1)
        BY ONLY <1>1, <1>5, <2>5, <3>2
      <4> QED
        BY ONLY <2>11, <3>2, <4>1
    <3>3. i = count + 1 \/ i \in 1 .. count
      BY ONLY <1>1
    <3> QED
      BY ONLY <3>1, <3>2, <3>3
  <2>13. ASSUME NEW i \in 1 .. count + 1, NEW j \in 1 .. count + 1, i # j,
                sections'[i].base = sections'[j].base,
                sections'[i].of # "objective", sections'[j].of # "objective"
         PROVE  sections'[i].id # sections'[j].id
    <3>1. \A k \in 1 .. count :
              sections[k].of # "objective" /\ sections[k].base = base => sections[k].id # r.id
      <4>1. ASSUME NEW k \in 1 .. count, sections[k].of # "objective", sections[k].base = base
            PROVE  sections[k].id # r.id
        BY ONLY <2>2, <2>11, <4>1
      <4> QED
        BY ONLY <4>1
    <3>2. CASE i \in 1 .. count /\ j \in 1 .. count
      <4>1. sections'[i] = sections[i] /\ sections'[j] = sections[j]
            /\ i \in DOMAIN sections /\ j \in DOMAIN sections
        BY ONLY <1>1, <2>5, <3>2
      <4> QED
        BY ONLY <1>5, <2>13, <4>1
    <3>3. CASE i = count + 1
      <4>1. j \in 1 .. count /\ sections'[j] = sections[j] /\ sections'[i] = r
        BY ONLY <1>1, <2>5, <2>13, <3>3
      <4> QED
        BY ONLY <2>4, <2>13, <3>1, <4>1
    <3>4. CASE j = count + 1
      <4>1. i \in 1 .. count /\ sections'[i] = sections[i] /\ sections'[j] = r
        BY ONLY <1>1, <2>5, <2>13, <3>4
      <4> QED
        BY ONLY <2>4, <2>13, <3>1, <4>1
    <3>5. \A k \in 1 .. count + 1 : k = count + 1 \/ k \in 1 .. count
      BY ONLY <1>1
    <3> QED
      BY ONLY <3>2, <3>3, <3>4, <3>5
  <2>14. block + 1 \in 0 .. Len(sheet.blocks) /\ Named + 1 \in 0 .. block + 1
    BY <1>1
  <2>15. SectionsInv'
    BY ONLY <1>1, <1>2, <2>5, <2>8, <2>9, <2>10, <2>12, <2>13, <2>14, <2>18 DEF SectionsInv
  <2> QED
    BY <1>1, <2>5, <2>15 DEF count
<1> QED
  BY <1>9, <1>10

-----------------------------------------------------------------------------
(* The chunks of a sheet *)

\* The n-th row of section i.
RowIs(row, i, n, window) == row.section = i /\ row.chunk_index = n /\ row.window = window

LEMMA EnumeratedFacts ==
    ASSUME NEW i \in Nat, NEW windows \in Seq(Window)
    PROVE  /\ Len(windows) \in Nat
           /\ Enumerated(i, windows) \in Seq(Chunk)
           /\ Len(Enumerated(i, windows)) = Len(windows)
           /\ \A k \in 1 .. Len(windows) :
                RowIs(Enumerated(i, windows)[k], i, k - 1, windows[k])
<1> DEFINE row(k) == [section |-> i, chunk_index |-> k - 1, window |-> windows[k]]
<1>1. Len(windows) \in Nat /\ DOMAIN windows = 1 .. Len(windows)
  BY LenProperties
<1>2. \A k \in 1 .. Len(windows) : windows[k] \in Window
  BY ElementOfSeq
<1>3. \A k \in 1 .. Len(windows) : row(k) \in Chunk
  BY <1>1, <1>2 DEF Chunk
<1>4. Enumerated(i, windows) = [k \in 1 .. Len(windows) |-> row(k)]
  BY ONLY <1>1 DEF Enumerated
<1> HIDE DEF row
<1> DEFINE list == [k \in 1 .. Len(windows) |-> row(k)]
<1>5. list \in Seq(Chunk)
  BY ONLY <1>1, <1>3
<1>6. Len(list) = Len(windows)
  BY ONLY <1>1
<1>7. \A k \in 1 .. Len(windows) : list[k] = row(k)
  OBVIOUS
<1>8. \A k \in 1 .. Len(windows) : RowIs(row(k), i, k - 1, windows[k])
  BY DEF RowIs, row
<1>9. \A k \in 1 .. Len(windows) : RowIs(list[k], i, k - 1, windows[k])
  BY ONLY <1>7, <1>8
<1> HIDE DEF list
<1>10. Enumerated(i, windows) = list
  BY ONLY <1>4 DEF list
<1> QED
  BY ONLY <1>1, <1>5, <1>6, <1>9, <1>10

\* The list with the windows of section i enumerated at its end.
LEMMA Appended ==
    ASSUME NEW i \in Nat, NEW windows \in Seq(Window), NEW list \in Seq(Chunk),
           NEW list2, list2 = list \o Enumerated(i, windows)
    PROVE  /\ list2 \in Seq(Chunk)
           /\ Len(list) \in Nat /\ Len(windows) \in Nat
           /\ DOMAIN list = 1 .. Len(list) /\ Len(list2) = Len(list) + Len(windows)
           /\ \A k \in 1 .. Len(list) : list2[k] = list[k]
           /\ \A k \in 1 .. Len(windows) :
                RowIs(list2[Len(list) + k], i, k - 1, windows[k])
<1> DEFINE rows == Enumerated(i, windows)
<1>1. rows \in Seq(Chunk) /\ Len(rows) = Len(windows) /\ Len(windows) \in Nat
  BY EnumeratedFacts
<1>2. \A k \in 1 .. Len(windows) : RowIs(rows[k], i, k - 1, windows[k])
  BY EnumeratedFacts
<1> HIDE DEF rows
<1>3. list2 = list \o rows
  BY DEF rows
<1>4. list2 \in Seq(Chunk)
  BY ONLY <1>1, <1>3, list \in Seq(Chunk), ConcatProperties
<1>10. Len(rows) = Len(windows) /\ rows \in Seq(Chunk)
  BY ONLY <1>1
<1>11. Len(list2) = Len(list) + Len(rows)
  BY ONLY <1>3, <1>10, list \in Seq(Chunk), ConcatProperties
<1>12. Len(list) \in Nat
  BY ONLY list \in Seq(Chunk), LenProperties
<1>5. Len(list2) = Len(list) + Len(windows) /\ Len(list) \in Nat
  BY ONLY <1>10, <1>11, <1>12
<1>6. DOMAIN list = 1 .. Len(list) /\ DOMAIN list2 = 1 .. Len(list) + Len(windows)
  BY ONLY <1>4, <1>5, list \in Seq(Chunk), LenProperties
<1>7. \A k \in 1 .. Len(list) + Len(windows) :
         list2[k] = IF k <= Len(list) THEN list[k] ELSE rows[k - Len(list)]
  BY ONLY <1>1, <1>3, list \in Seq(Chunk), ConcatProperties
<1>8. \A k \in 1 .. Len(list) : list2[k] = list[k]
  BY ONLY <1>1, <1>5, <1>7
<1>9. ASSUME NEW k \in 1 .. Len(windows)
      PROVE  list2[Len(list) + k] = rows[k]
  <2>1. Len(list) + k \in 1 .. Len(list) + Len(windows) /\ ~(Len(list) + k <= Len(list))
        /\ (Len(list) + k) - Len(list) = k
    BY ONLY <1>1, <1>5, <1>9
  <2> QED
    BY ONLY <1>7, <2>1
<1> QED
  BY ONLY <1>1, <1>2, <1>4, <1>5, <1>6, <1>8, <1>9

\* Numbers that leave off nothing of a section that was not there.
LEMMA AppendedNumbered ==
    ASSUME NEW i \in Nat, NEW windows \in Seq(Window), NEW list \in Seq(Chunk),
           NEW list2, list2 = list \o Enumerated(i, windows),
           ChunksNumbered(list), ChunksOf(list, i) = {}
    PROVE  ChunksNumbered(list2)
<1> DEFINE l == Len(list)
           w == Len(windows)
<1>8. Len(list) \in Nat /\ Len(windows) \in Nat /\ DOMAIN list = 1 .. Len(list)
  BY Appended
<1>9. DOMAIN list2 = 1 .. Len(list) + Len(windows)
  <2>1. list2 \in Seq(Chunk)
    BY Appended
  <2>2. Len(list2) = Len(list) + Len(windows)
    BY Appended
  <2> QED
    BY ONLY <2>1, <2>2, LenProperties
<1>1. l \in Nat /\ w \in Nat /\ DOMAIN list = 1 .. l /\ DOMAIN list2 = 1 .. l + w
  BY ONLY <1>8, <1>9
<1>2. \A k \in 1 .. l : list2[k] = list[k]
  BY Appended
<1>3. \A k \in 1 .. w : RowIs(list2[l + k], i, k - 1, windows[k])
  BY Appended
<1>4. /\ \A k \in 1 .. l : list[k].section # i
      /\ \A k \in 1 .. l : list[k].chunk_index =
            Cardinality({j \in ChunksOf(list, list[k].section) : j < k})
  BY <1>1 DEF ChunksOf, ChunksNumbered
<1> HIDE DEF l, w
<1> SUFFICES ASSUME NEW k \in 1 .. l + w
             PROVE  list2[k].chunk_index =
                      Cardinality({j \in ChunksOf(list2, list2[k].section) : j < k})
  BY <1>1 DEF ChunksNumbered
<1>5. CASE k \in 1 .. l
  <2>1. {j \in ChunksOf(list2, list[k].section) : j < k}
          = {j \in ChunksOf(list, list[k].section) : j < k}
    <3>1. ASSUME NEW j \in 1 .. l + w, j < k PROVE j \in 1 .. l /\ list2[j] = list[j]
      BY ONLY <1>1, <1>2, <1>5, <3>1
    <3>2. \A j \in 1 .. l : j \in 1 .. l + w /\ list2[j] = list[j]
      BY ONLY <1>1, <1>2
    <3> QED
      BY ONLY <1>1, <3>1, <3>2 DEF ChunksOf
  <2>2. list2[k] = list[k]
    BY ONLY <1>2, <1>5
  <2> QED
    BY ONLY <1>4, <1>5, <2>1, <2>2
<1>6. CASE k \notin 1 .. l
  <2>1. /\ k - l \in 1 .. w /\ l + (k - l) = k /\ l + 1 \in Nat /\ k - 1 \in Nat
        /\ (k - l) - 1 = IF l + 1 <= k - 1 THEN (k - 1) - (l + 1) + 1 ELSE 0
    BY ONLY <1>1, <1>6
  <2>2. list2[k].section = i /\ list2[k].chunk_index = (k - l) - 1
    BY ONLY <1>3, <2>1 DEF RowIs
  <2>3. {j \in ChunksOf(list2, i) : j < k} = (l + 1) .. (k - 1)
    <3>1. ASSUME NEW j \in 1 .. l + w, j < k, list2[j].section = i PROVE j \in (l + 1) .. (k - 1)
      <4>1. j \notin 1 .. l
        BY ONLY <1>2, <1>4, <3>1
      <4> QED
        BY ONLY <1>1, <3>1, <4>1
    <3>2. ASSUME NEW j \in (l + 1) .. (k - 1)
          PROVE  j \in 1 .. l + w /\ j < k /\ list2[j].section = i
      <4>1. j - l \in 1 .. w /\ l + (j - l) = j /\ j \in 1 .. l + w /\ j < k
        BY ONLY <1>1, <3>2
      <4>2. RowIs(list2[l + (j - l)], i, (j - l) - 1, windows[j - l])
        BY ONLY <1>3, <4>1
      <4> QED
        BY ONLY <4>1, <4>2 DEF RowIs
    <3> QED
      BY ONLY <1>1, <3>1, <3>2 DEF ChunksOf
  <2>4. Cardinality((l + 1) .. (k - 1)) = IF l + 1 <= k - 1 THEN (k - 1) - (l + 1) + 1 ELSE 0
    <3>1. l + 1 \in Int /\ k - 1 \in Int
      BY ONLY <2>1
    <3>2. Cardinality((l + 1) .. (k - 1)) = IF l + 1 > k - 1 THEN 0 ELSE (k - 1) - (l + 1) + 1
      BY ONLY <3>1, FS_Interval
    <3> QED
      BY ONLY <3>1, <3>2
  <2> QED
    BY ONLY <2>1, <2>2, <2>3, <2>4
<1> QED
  BY ONLY <1>5, <1>6

\* What was whole stays so; and the windows that cover a text make its section whole.
LEMMA AppendedWhole ==
    ASSUME NEW i \in Nat, NEW windows \in Seq(Window), NEW list \in Seq(Chunk),
           NEW list2, list2 = list \o Enumerated(i, windows)
    PROVE  /\ \A j, length : Whole(list, j, length) => Whole(list2, j, length)
           /\ \A length :
                (\A c \in 1 .. length : \E m \in 1 .. Len(windows) :
                    windows[m].from < c /\ c <= windows[m].to)
                => Whole(list2, i, length)
<1> DEFINE l == Len(list)
           w == Len(windows)
<1>8. Len(list) \in Nat /\ Len(windows) \in Nat /\ DOMAIN list = 1 .. Len(list)
  BY Appended
<1>9. DOMAIN list2 = 1 .. Len(list) + Len(windows)
  <2>1. list2 \in Seq(Chunk)
    BY Appended
  <2>2. Len(list2) = Len(list) + Len(windows)
    BY Appended
  <2> QED
    BY ONLY <2>1, <2>2, LenProperties
<1>1. l \in Nat /\ w \in Nat /\ DOMAIN list = 1 .. l /\ DOMAIN list2 = 1 .. l + w
  BY ONLY <1>8, <1>9
<1>2. \A k \in 1 .. l : list2[k] = list[k]
  BY Appended
<1>3. \A k \in 1 .. w : RowIs(list2[l + k], i, k - 1, windows[k])
  BY Appended
<1>4. ASSUME NEW j, NEW k \in ChunksOf(list, j)
      PROVE  k \in ChunksOf(list2, j) /\ list2[k] = list[k]
  <2>1. k \in 1 .. l /\ list[k].section = j
    BY ONLY <1>1, <1>4 DEF ChunksOf
  <2>2. k \in 1 .. l + w
    BY ONLY <1>1, <2>1
  <2> QED
    BY ONLY <1>1, <1>2, <2>1, <2>2 DEF ChunksOf
<1>5. ASSUME NEW m \in 1 .. w
      PROVE  l + m \in ChunksOf(list2, i) /\ list2[l + m].window = windows[m]
  <2>1. l + m \in 1 .. l + w
    BY ONLY <1>1, <1>5
  <2>2. list2[l + m].section = i /\ list2[l + m].window = windows[m]
    BY ONLY <1>3, <1>5 DEF RowIs
  <2> QED
    BY ONLY <1>1, <2>1, <2>2 DEF ChunksOf
<1>6. ASSUME NEW j, NEW length, Whole(list, j, length)
      PROVE  Whole(list2, j, length)
  BY ONLY <1>4, <1>6 DEF Whole
<1>7. ASSUME NEW length,
             \A c \in 1 .. length : \E m \in 1 .. w : windows[m].from < c /\ c <= windows[m].to
      PROVE  Whole(list2, i, length)
  BY ONLY <1>5, <1>7 DEF Whole
<1> QED
  BY ONLY <1>6, <1>7 DEF w

-----------------------------------------------------------------------------
(* The inductive invariant *)

\* Chunks stay where they are when sections are only added.
LEMMA WholeOfMore ==
    ASSUME PendingInv, pending' = pending, cut' = cut, UNCHANGED vars,
           Len(sections) \in Nat, Len(sections') \in Nat, Len(sections) <= Len(sections'),
           \A i \in 1 .. Len(sections) : sections'[i] = sections[i],
           block' < Len(sheet'.blocks) => cut = 0
    PROVE  PendingInv'
<1>1. /\ cut \in 0 .. Len(sections)
      /\ Cutting => cut # 0 /\ total_length = sections[cut].length /\ ChunksOf(pending, cut) = {}
      /\ \A k \in DOMAIN pending : pending[k].section \in 1 .. cut
      /\ ChunksNumbered(pending)
      /\ \A i \in 1 .. cut :
            (i = cut /\ Cutting) \/ Whole(pending, i, sections[i].length)
  BY DEF PendingInv
<1>2. pending \in Seq(Chunk)
  BY DEF PendingInv
<1>3. cut \in 0 .. Len(sections') /\ \A i \in 1 .. cut : sections'[i] = sections[i]
  BY <1>1
<1>4. (Cutting' <=> Cutting) /\ total_length' = total_length
  BY DEF Cutting, vars
<1>5. Cutting' => cut # 0 /\ total_length' = sections'[cut].length /\ ChunksOf(pending, cut) = {}
  <2>1. cut # 0 /\ cut \in 0 .. Len(sections') => cut \in 1 .. cut
    BY ONLY Len(sections') \in Nat
  <2> QED
    BY ONLY <1>1, <1>3, <1>4, <2>1
<1>6. \A i \in 1 .. cut : (i = cut /\ Cutting') \/ Whole(pending, i, sections'[i].length)
  BY ONLY <1>1, <1>3, <1>4
<1>7. pending' = pending /\ cut' = cut /\ (block' < Len(sheet'.blocks) => cut = 0)
  OBVIOUS
<1> QED
  BY ONLY <1>1, <1>2, <1>3, <1>5, <1>6, <1>7 DEF PendingInv

\* Rows only of the sections begun.
LEMMA AppendedSections ==
    ASSUME NEW i \in Nat, NEW windows \in Seq(Window), NEW list \in Seq(Chunk),
           NEW list2, list2 = list \o Enumerated(i, windows), i \in 1 .. i,
           \A k \in DOMAIN list : list[k].section \in 1 .. i
    PROVE  \A k \in DOMAIN list2 : list2[k].section \in 1 .. i
<1>1. Len(list) \in Nat /\ Len(windows) \in Nat /\ DOMAIN list = 1 .. Len(list)
  BY Appended
<1>2. DOMAIN list2 = 1 .. Len(list) + Len(windows)
  <2>1. list2 \in Seq(Chunk)
    BY Appended
  <2>2. Len(list2) = Len(list) + Len(windows)
    BY Appended
  <2> QED
    BY ONLY <2>1, <2>2, LenProperties
<1>3. \A k \in 1 .. Len(list) : list2[k] = list[k]
  BY Appended
<1>4. \A k \in 1 .. Len(windows) : RowIs(list2[Len(list) + k], i, k - 1, windows[k])
  BY Appended
<1>5. ASSUME NEW k \in 1 .. Len(list) + Len(windows)
      PROVE  list2[k].section \in 1 .. i
  <2>1. CASE k \in 1 .. Len(list)
    BY ONLY <1>1, <1>3, <2>1, \A m \in DOMAIN list : list[m].section \in 1 .. i
  <2>2. CASE k \notin 1 .. Len(list)
    <3>1. k - Len(list) \in 1 .. Len(windows) /\ Len(list) + (k - Len(list)) = k
      BY ONLY <1>1, <1>5, <2>2
    <3>2. list2[k].section = i
      BY ONLY <1>4, <3>1 DEF RowIs
    <3> QED
      BY ONLY <3>2, i \in 1 .. i
  <2> QED
    BY ONLY <2>1, <2>2
<1> QED
  BY ONLY <1>2, <1>5

LEMMA SectionsFacts ==
    ASSUME SectionsInv
    PROVE  /\ Len(sections) \in Nat /\ DOMAIN sections = 1 .. Len(sections)
           /\ \A i \in 1 .. Len(sections) : sections[i].length \in Nat
<1>1. sections \in Seq(SectionOf(sheet))
  BY DEF SectionsInv
<1>2. \A i \in 1 .. Len(sections) : sections[i] \in SectionOf(sheet)
  BY ONLY <1>1, ElementOfSeq
<1>3. Len(sections) \in Nat /\ DOMAIN sections = 1 .. Len(sections)
  BY ONLY <1>1, LenProperties
<1>4. \A i \in 1 .. Len(sections) : sections[i].length \in Lengths
  BY ONLY <1>2 DEF SectionOf
<1> QED
  BY <1>3, <1>4, LengthsAssumption

LEMMA SectionsUnchanged ==
    SectionsInv /\ UNCHANGED <<sheet, block, sections, seen_ids>> => SectionsInv'
  BY DEF SectionsInv, SectionsInOrder, Named

\* A page with its objective, and nothing cut.
LEMMA SheetInitInv == SheetInit => SheetInv
<1> SUFFICES ASSUME SheetInit PROVE SheetInv
  OBVIOUS
<1>1. Ready
  BY DEF SheetInit, ChunkerRests, Ready
<1>2. SectionsInv
  BY SectionsInit
<1>3. Len(sections) \in Nat
  BY <1>2, SectionsFacts
<1>4. pending = <<>> /\ cut = 0 /\ chunks = <<>> /\ running = FALSE
  BY DEF SheetInit, ChunkerRests
<1>5. pending \in Seq(Chunk)
  BY ONLY <1>4
<1>6. DOMAIN pending = {}
  BY ONLY <1>4
<1>7. PendingInv
  BY ONLY <1>3, <1>4, <1>5, <1>6 DEF PendingInv, Cutting, ChunksNumbered
<1> QED
  BY <1>1, <1>2, <1>7, ReadyToCut DEF SheetInv

\* Nothing is cut before the page is whole.
LEMMA ReadBlockInv ==
    ASSUME SheetInv, ReadBlock
    PROVE  SheetInv'
<1>1. IInv /\ SectionsInv /\ PendingInv
  BY DEF SheetInv
<1>2. UNCHANGED vars /\ sheet' = sheet /\ cut' = cut /\ pending' = pending
      /\ block < Len(sheet.blocks)
  BY DEF ReadBlock
<1>3. SectionsInv'
  BY <1>1, ReadBlockSections
<1>4. Len(sections) <= Len(sections')
      /\ \A i \in DOMAIN sections : i \in DOMAIN sections' /\ sections'[i] = sections[i]
  BY <1>1, ReadBlockSections
<1>5. Len(sections) \in Nat /\ DOMAIN sections = 1 .. Len(sections)
  BY <1>1, SectionsFacts
<1>6. sections' \in Seq(SectionOf(sheet)')
  BY ONLY <1>3 DEF SectionsInv
<1>7. Len(sections') \in Nat
  BY ONLY <1>6, LenProperties
<1>8. cut = 0
  BY ONLY <1>1, <1>2 DEF PendingInv
<1>9. PendingInv'
  BY <1>1, <1>2, <1>4, <1>5, <1>7, <1>8, WholeOfMore
<1>10. IInv'
  BY <1>1, <1>2 DEF IInv, TypeOK, LoopInv, EveryWindowAddsText, WindowsCoverTheText, Last, vars
<1> QED
  BY ONLY <1>3, <1>9, <1>10 DEF SheetInv

\* The next section is ready to be cut; an empty one is whole at once.
LEMMA BeginSectionInv ==
    ASSUME SheetInv, BeginSection
    PROVE  SheetInv'
<1>1. IInv /\ SectionsInv /\ PendingInv
  BY DEF SheetInv
<1>2. /\ block = Len(sheet.blocks) /\ cut < Len(sections) /\ ~running
      /\ (cut = 0 \/ chunks = <<>>)
      /\ cut' = cut + 1
      /\ total_length' = sections[cut'].length
      /\ blank' = (total_length' = 0)
      /\ start' = 0 /\ chunks' = <<>> /\ running' = ~blank'
      /\ UNCHANGED <<sheet, block, sections, seen_ids, pending>>
  BY DEF BeginSection
<1>3. Len(sections) \in Nat /\ \A i \in 1 .. Len(sections) : sections[i].length \in Nat
  BY <1>1, SectionsFacts
<1>4. /\ cut \in 0 .. Len(sections)
      /\ Cutting => cut # 0
      /\ \A k \in DOMAIN pending : pending[k].section \in 1 .. cut
      /\ ChunksNumbered(pending)
      /\ \A i \in 1 .. cut :
            (i = cut /\ Cutting) \/ Whole(pending, i, sections[i].length)
  BY <1>1 DEF PendingInv
<1>5. pending \in Seq(Chunk)
  BY <1>1 DEF PendingInv
<1>6. ~Cutting
  BY ONLY <1>2, <1>4 DEF Cutting
<1>7. cut + 1 \in 1 .. Len(sections) /\ cut + 1 \notin 1 .. cut /\ cut + 1 # 0
      /\ (\A i \in 1 .. cut + 1 : i = cut + 1 \/ i \in 1 .. cut)
      /\ 1 .. cut \subseteq 1 .. cut + 1
      /\ cut + 1 \in 0 .. Len(sections)
  BY ONLY <1>2, <1>3, <1>4
<1>8. total_length' = sections[cut + 1].length /\ total_length' \in Nat
  BY ONLY <1>2, <1>3, <1>7
<1>9. Ready'
  <2>1. blank' \in BOOLEAN /\ (running' => total_length' # 0) /\ start' \in Nat
    BY ONLY <1>2
  <2> QED
    BY ONLY <1>2, <1>8, <2>1 DEF Ready
<1>10. IInv'
  BY ONLY <1>9, ReadyToCut, PTL
<1>11. SectionsInv'
  BY <1>1, <1>2, SectionsUnchanged
<1>12. ChunksOf(pending, cut + 1) = {}
  BY ONLY <1>4, <1>7 DEF ChunksOf
<1>13. ASSUME NEW i \in 1 .. cut + 1
       PROVE  (i = cut + 1 /\ Cutting') \/ Whole(pending, i, sections[i].length)
  <2>1. CASE i \in 1 .. cut
    BY ONLY <1>4, <1>6, <2>1
  <2>2. CASE i = cut + 1 /\ blank'
    <3>1. sections[i].length = 0
      BY ONLY <1>2, <1>8, <2>2
    <3>2. 1 .. sections[i].length = {}
      BY ONLY <3>1
    <3> QED
      BY ONLY <3>2 DEF Whole
  <2>3. CASE i = cut + 1 /\ ~blank'
    BY ONLY <1>2, <2>3 DEF Cutting
  <2> QED
    BY ONLY <1>7, <1>13, <2>1, <2>2, <2>3
<1>14. \A k \in DOMAIN pending : pending[k].section \in 1 .. cut + 1
  BY ONLY <1>4, <1>7
<1>15. PendingInv'
  <2>2. Len(sheet.blocks) \in Nat
    BY <1>1, SheetFacts DEF SectionsInv
  <2>1. ~(block < Len(sheet.blocks))
    BY ONLY <1>2, <2>2
  <2> QED
    BY ONLY <1>2, <1>4, <1>5, <1>7, <1>8, <1>12, <1>13, <1>14, <2>1 DEF PendingInv
<1> QED
  BY ONLY <1>10, <1>11, <1>15 DEF SheetInv

\* The loop of the chunker.
LEMMA CutSectionInv ==
    ASSUME SheetInv, CutSection
    PROVE  SheetInv'
<1>1. IInv /\ SectionsInv /\ PendingInv
  BY DEF SheetInv
<1>2. Cut /\ UNCHANGED sheet_vars
  BY DEF CutSection
<1>3. IInv'
  BY <1>1, <1>2, CutInv
<1>4. SectionsInv'
  BY <1>1, <1>2, SectionsUnchanged DEF sheet_vars
<1>5. Cutting /\ Cutting' /\ total_length' = total_length
  <2>1. chunks \in Seq(Window)
    BY <1>1 DEF IInv, TypeOK
  <2>2. chunks' = Append(chunks, [from |-> start, to |-> End]) /\ running
        /\ total_length' = total_length
    BY <1>2 DEF Cut
  <2>3. Len(chunks') = Len(chunks) + 1 /\ Len(chunks) \in Nat
    BY ONLY <2>1, <2>2
  <2>4. chunks' # <<>>
    BY ONLY <2>3
  <2> QED
    BY ONLY <2>2, <2>4 DEF Cutting
<1>6. UNCHANGED <<sheet, block, sections, cut, pending>>
  BY <1>2 DEF sheet_vars
<1>7. PendingInv'
  BY ONLY <1>1, <1>5, <1>6 DEF PendingInv
<1> QED
  BY ONLY <1>3, <1>4, <1>7 DEF SheetInv

\* The windows of a section are pending: it is whole, and the chunker is at rest.
LEMMA EndSectionInv ==
    ASSUME SheetInv, EndSection
    PROVE  SheetInv'
<1>1. IInv /\ SectionsInv /\ PendingInv
  BY DEF SheetInv
<1>2. /\ ~running /\ chunks # <<>>
      /\ pending' = pending \o Enumerated(cut, chunks)
      /\ chunks' = <<>> /\ blank' = TRUE
      /\ UNCHANGED <<total_length, start, running, sheet, block, sections, seen_ids, cut>>
  BY DEF EndSection
<1>3. chunks \in Seq(Window)
  BY <1>1 DEF IInv, TypeOK
<1>4. total_length \in Nat /\ start \in Nat /\ running \in BOOLEAN
  BY <1>1 DEF IInv, TypeOK
<1>5. pending \in Seq(Chunk)
  BY <1>1 DEF PendingInv
<1>6. Len(sections) \in Nat
  BY <1>1, SectionsFacts
<1>7. /\ cut \in 0 .. Len(sections)
      /\ block < Len(sheet.blocks) => cut = 0
      /\ cut # 0 /\ total_length = sections[cut].length /\ ChunksOf(pending, cut) = {}
      /\ \A k \in DOMAIN pending : pending[k].section \in 1 .. cut
      /\ ChunksNumbered(pending)
      /\ \A i \in 1 .. cut : i = cut \/ Whole(pending, i, sections[i].length)
  BY <1>1, <1>2 DEF PendingInv, Cutting
<1>8. cut \in Nat /\ cut \in 1 .. cut
  BY ONLY <1>6, <1>7
<1> DEFINE list2 == pending \o Enumerated(cut, chunks)
<1>9. list2 \in Seq(Chunk)
  BY <1>3, <1>5, <1>8, Appended
<1>10. ChunksNumbered(list2)
  BY <1>3, <1>5, <1>7, <1>8, AppendedNumbered
<1>11. \A j, length : Whole(pending, j, length) => Whole(list2, j, length)
  BY <1>3, <1>5, <1>8, AppendedWhole
<1>12. \A length :
          (\A c \in 1 .. length : \E m \in 1 .. Len(chunks) :
              chunks[m].from < c /\ c <= chunks[m].to)
          => Whole(list2, cut, length)
  BY <1>3, <1>5, <1>8, AppendedWhole
<1>13. \A c \in 1 .. total_length : \E m \in 1 .. Len(chunks) :
          chunks[m].from < c /\ c <= chunks[m].to
  BY <1>1, <1>2, EveryCharacterIsCut
<1>14. \A k \in DOMAIN list2 : list2[k].section \in 1 .. cut
  BY <1>3, <1>5, <1>7, <1>8, AppendedSections
<1> HIDE DEF list2
<1>15. Whole(list2, cut, sections[cut].length)
  BY ONLY <1>7, <1>12, <1>13
<1>16. \A i \in 1 .. cut : Whole(list2, i, sections[i].length)
  BY ONLY <1>7, <1>11, <1>15
<1>17. ~Cutting'
  BY ONLY <1>2 DEF Cutting
<1>18. Ready'
  BY ONLY <1>2, <1>4 DEF Ready
<1>19. IInv'
  BY ONLY <1>18, ReadyToCut, PTL
<1>20. SectionsInv'
  BY <1>1, <1>2, SectionsUnchanged
<1>21. pending' = list2
  BY ONLY <1>2 DEF list2
<1>22. PendingInv'
  BY ONLY <1>2, <1>7, <1>9, <1>10, <1>14, <1>16, <1>17, <1>21 DEF PendingInv
<1> QED
  BY ONLY <1>19, <1>20, <1>22 DEF SheetInv

LEMMA SheetNextInv == SheetInv /\ [SheetNext]_all_vars => SheetInv'
<1> SUFFICES ASSUME SheetInv, [SheetNext]_all_vars PROVE SheetInv'
  OBVIOUS
<1>1. CASE ReadBlock
  BY <1>1, ReadBlockInv
<1>2. CASE BeginSection
  BY <1>2, BeginSectionInv
<1>3. CASE CutSection
  BY <1>3, CutSectionInv
<1>4. CASE EndSection
  BY <1>4, EndSectionInv
<1>5. CASE UNCHANGED all_vars
  <2>1. IInv /\ SectionsInv /\ PendingInv
    BY DEF SheetInv
  <2>2. UNCHANGED vars /\ UNCHANGED <<sheet, block, sections, seen_ids, cut, pending>>
    BY <1>5 DEF all_vars, sheet_vars
  <2>3. IInv'
    BY <2>1, <2>2 DEF IInv, TypeOK, LoopInv, EveryWindowAddsText, WindowsCoverTheText, Last, vars
  <2>4. SectionsInv'
    BY <2>1, <2>2, SectionsUnchanged
  <2>5. PendingInv'
    BY ONLY <2>1, <2>2 DEF PendingInv, Cutting, vars
  <2> QED
    BY ONLY <2>3, <2>4, <2>5 DEF SheetInv
<1> QED
  BY <1>1, <1>2, <1>3, <1>4, <1>5 DEF SheetNext

\* When every section was cut, each block has its place.
LEMMA SheetInvPlaces == SheetInv => EveryBlockHasItsPlace
<1> SUFFICES ASSUME SheetInv, Done PROVE EveryBlockHasItsPlace
  BY DEF EveryBlockHasItsPlace
<1>1. SectionsInv /\ PendingInv
  BY DEF SheetInv
<1>2. cut = Len(sections) /\ ~Cutting
  BY DEF Done, Cutting
<1>3. Len(sections) \in Nat /\ DOMAIN sections = 1 .. Len(sections)
  BY <1>1, SectionsFacts
<1>4. /\ \A k \in DOMAIN pending : pending[k].section \in 1 .. cut
      /\ ChunksNumbered(pending)
      /\ \A i \in 1 .. cut : Whole(pending, i, sections[i].length)
  BY <1>1, <1>2 DEF PendingInv
<1>5. /\ SectionsInOrder
      /\ \A i, j \in DOMAIN sections :
            /\ i # j /\ sections[i].base = sections[j].base
            /\ sections[i].of # "objective" /\ sections[j].of # "objective"
            => sections[i].id # sections[j].id
  BY <1>1 DEF SectionsInv
<1>6. pending \in Seq(Chunk)
  BY <1>1 DEF PendingInv
<1>7. DOMAIN pending = 1 .. Len(pending) /\ Len(pending) \in Nat
  BY ONLY <1>6, LenProperties
<1>8. ASSUME NEW j \in DOMAIN pending, NEW k \in DOMAIN pending, j < k,
             Id(pending[j]) = Id(pending[k]),
             pending[j].chunk_index = pending[k].chunk_index,
             ~OfObjective(pending[j]), ~OfObjective(pending[k]),
             Base(pending[j]) = Base(pending[k])
      PROVE  FALSE
  <2> DEFINE m == pending[j].section
             n == pending[k].section
  <2>1. m \in DOMAIN sections /\ n \in DOMAIN sections
    BY ONLY <1>2, <1>3, <1>4, <1>8
  <2>2. CASE m # n
    BY ONLY <1>5, <1>8, <2>1, <2>2 DEF Id, Base, OfObjective
  <2>3. CASE m = n
    <3> DEFINE S == {i \in ChunksOf(pending, m) : i < j}
               T == {i \in ChunksOf(pending, m) : i < k}
    <3>1. Cardinality(S) = Cardinality(T)
      <4>1. pending[j].chunk_index = Cardinality({i \in ChunksOf(pending, m) : i < j})
        BY ONLY <1>4, <1>8 DEF ChunksNumbered
      <4>2. pending[k].chunk_index = Cardinality({i \in ChunksOf(pending, n) : i < k})
        BY ONLY <1>4, <1>8 DEF ChunksNumbered
      <4> QED
        BY ONLY <1>8, <2>3, <4>1, <4>2
    <3>2. j \in Nat /\ k \in Nat /\ \A i \in ChunksOf(pending, m) : i \in 1 .. Len(pending)
      BY ONLY <1>7, <1>8 DEF ChunksOf
    <3>3. j \in ChunksOf(pending, m)
      BY ONLY <1>8 DEF ChunksOf
    <3>4. j \in T /\ j \notin S /\ S \subseteq T
      BY ONLY <1>7, <1>8, <3>2, <3>3
    <3>5. T \subseteq 1 .. Len(pending)
      BY ONLY <3>2
    <3> HIDE DEF S, T
    <3>6. IsFiniteSet(1 .. Len(pending))
      BY ONLY <1>7, FS_Interval
    <3>7. IsFiniteSet(T)
      BY ONLY <3>5, <3>6, FS_Subset
    <3>8. S = T
      BY ONLY <3>1, <3>4, <3>7, FS_Subset
    <3> QED
      BY ONLY <3>4, <3>8
  <2> QED
    BY ONLY <2>2, <2>3
<1>9. \A i \in DOMAIN sections : Whole(pending, i, sections[i].length)
  BY ONLY <1>2, <1>3, <1>4
<1> QED
  BY ONLY <1>4, <1>5, <1>8, <1>9 DEF EveryBlockHasItsPlace

\* The chunker's own invariant through the cutting of every section, sections with
\* distinct ids for each base, and chunks pending only of the sections that were cut.
THEOREM SheetInductive == SheetSpec => []SheetInv
<1> QED
  BY SheetInitInv, SheetNextInv, PTL DEF SheetSpec

\* When a sheet is done, every block with something in it has its section, in order; the
\* windows of each section, numbered from 0, leave no character out; and two chunks of
\* content blocks at one place have different headings: for every sheet and window size.
THEOREM Placed == SheetSpec => []EveryBlockHasItsPlace
<1> QED
  BY SheetInductive, SheetInvPlaces, PTL

\* No text of a sheet is lost between windows or repeated in one.
THEOREM SheetsAreCovered == SheetSpec => [](WindowsCoverTheText /\ EveryWindowAddsText)
<1>1. SheetInv => WindowsCoverTheText /\ EveryWindowAddsText
  BY DEF SheetInv, IInv
<1> QED
  BY <1>1, SheetInductive, PTL
=============================================================================
