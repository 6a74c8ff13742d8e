------------------------- MODULE MC_CorpusPipeline -------------------------
(***************************************************************************)
(* Instances of CorpusPipeline for TLC.                                    *)
(***************************************************************************)
EXTENDS CorpusPipeline, TLC

CONSTANTS h1, h2, short, long, t1, t2

\* URL 5 differs from URL 2 by its query.
MCPathOf == (1 :> 1) @@ (2 :> 2) @@ (3 :> 3) @@ (4 :> 4) @@ (5 :> 2)

\* The root of a theme, two sheets whose slugs fold to one file, and a page of an
\* unknown theme.
MCKind == (1 :> "root") @@ (2 :> "sheet") @@ (3 :> "sheet") @@ (4 :> "unknown")
MCFile == (2 :> 1) @@ (3 :> 1)

\* A short text holds 80 characters, less than 85% of a long one, and a chunk of it.
MCChars == (short :> 80) @@ (long :> 100)
MCWindows == (short :> <<t1>>) @@ (long :> <<t2, t1>>)

Page(leaf, headings, captions, text, links) ==
    [leaf |-> leaf, headings |-> headings, seen |-> headings \cup captions,
     text |-> text, links |-> links]

\* The edited sheet has a heading in a caption.
Listing == Page(FALSE, {}, {}, short, {2, 3})
Plain == Page(TRUE, {h1}, {}, long, {4})
Edited == Page(TRUE, {h2}, {h1}, short, {})

MCPages == {Listing, Plain, Edited}

\* The listing and one sheet are up.
MCSites == {(1 :> Listing) @@ (2 :> Edited) @@ (3 :> NoPage) @@ (4 :> NoPage) @@ (5 :> NoPage)}
=============================================================================
