SPECIFICATION Spec
CONSTANTS
    b1 = b1
    t1 = t1
    t2 = t2
    typedA = typedA
    typedB = typedB
    typedC = typedC
    typedBad = typedBad
    typedNone = typedNone
    p1 = p1
    p2 = p2
    long = long
    empty = empty
    s1 = s1
    s2 = s2
    Browsers = {b1}
    Tabs = {t1, t2}
    BrowserOf <- MCBrowserOf
    Sessions = {s1, s2}
    Typed = {typedA, typedB, typedC, typedBad, typedNone}
    NoName = typedNone
    NormalOf <- MCNormalOf
    ValidNames = {"ann", "bob"}
    Secrets = {p1, p2, long, empty}
    NoSecret = empty
    Refused <- MCRefused
    Unhashable = {long}
    Nobody = Nobody
SYMMETRY Symmetry
INVARIANTS
    SessionsNameTheirAccount
    IInv
