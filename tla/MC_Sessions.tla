---------------------------- MODULE MC_Sessions ----------------------------
EXTENDS Sessions, TLC

CONSTANTS s1, s2, b1, t1, t2, typedA, typedB, typedC, typedBad, typedNone,
    p1, p2, long, empty

MCBrowserOf == t1 :> b1 @@ t2 :> b1

\* Two spellings of one username, another, and one that breaks the rules.
MCNormalOf ==
    typedA :> "ann" @@ typedB :> "ann" @@ typedC :> "bob" @@ typedBad :> "x" @@ typedNone :> ""
MCRefused == "ann" :> {long, empty} @@ "bob" :> {p1, long, empty}

Symmetry == Permutations({s1, s2}) \cup Permutations({t1, t2})
=============================================================================
