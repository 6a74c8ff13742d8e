------------------------- MODULE MC_CorpusIngestion -------------------------
(***************************************************************************)
(* Instances of CorpusIngestion for TLC.                                   *)
(***************************************************************************)
EXTENDS CorpusIngestion, TLC

CONSTANTS r1, r2, m1, m2, t1, t2, t3

\* Pages that share a text, hold one twice, or hold none.
MCWindows == ("one" :> <<t1>>) @@ ("more" :> <<t2, t1, t2>>) @@ ("empty" :> <<>>)

\* Enough chunks of one page for several batches.
LongWindows == ("one" :> <<t1>>) @@ ("long" :> <<t2, t3, t2, t1>>)

MCContents == DOMAIN MCWindows
LongContents == DOMAIN LongWindows

\* Runs are alike, and so are models.
RunSymmetry == Permutations(Runs) \cup Permutations(Models)
=============================================================================
