-------------------------- MODULE MC_CorpusSearch --------------------------
(***************************************************************************)
(* Questions next to two overlapping runs, for TLC.                        *)
(***************************************************************************)
EXTENDS CorpusSearch, TLC

CONSTANTS r1, r2, m1, m2, t1, t2, s1

\* Pages that share a text, hold one twice, or hold none.
MCWindows == ("one" :> <<t1>>) @@ ("more" :> <<t2, t1, t2>>) @@ ("empty" :> <<>>)
MCContents == DOMAIN MCWindows

\* The two files are of two themes; the text they share is relevant.
MCThemeOf == <<"history", "rights">>
MCQuestions == {[theme |-> "rights", relevant |-> {t1}]}

RunSymmetry == Permutations(Runs)
=============================================================================
