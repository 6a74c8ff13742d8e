-------------------------- MODULE MC_SheetSections --------------------------
(***************************************************************************)
(* Sheets for TLC: one block of any length, and up to four short ones that *)
(* repeat headings, lack them, or are spelled like the id of another.      *)
(***************************************************************************)
EXTENDS SheetSections

MCLengths == 0 .. 40

Block(slug, headed, length) == [slug |-> slug, headed |-> headed, length |-> length]
Short == {Block("x", TRUE, 9), Block("x-2", TRUE, 3), Block("", FALSE, 4), Block("", TRUE, 0),
          Block("section-02", TRUE, 3), Block("", FALSE, 0)}
Lists == UNION {[1 .. n -> Short] : n \in 0 .. 3} \cup [1 .. 4 -> {Block("x", TRUE, 4), Block("", FALSE, 4)}]

NoCard == Block("", FALSE, 0)

MCSheets ==
    [objective : {NoCard}, blocks : {<<Block("x", TRUE, n)>> : n \in MCLengths}]
    \cup [objective : {NoCard, Block("x", TRUE, 3)}, blocks : Lists]
=============================================================================
