\* Two runs that may overlap while corpus and model stay, under a searcher.
SPECIFICATION SearchSpec
CONSTANTS
    NoFile = NoFile
    NoModel = NoModel
    r1 = r1
    r2 = r2
    m1 = m1
    m2 = m2
    t1 = t1
    t2 = t2
    s1 = s1
    Runs = {r1, r2}
    Models = {m1, m2}
    Files = {1, 2}
    Contents <- MCContents
    Texts = {t1, t2}
    Windows <- MCWindows
    EMBED_BATCH_SIZE = 1
    Searchers = {s1}
    Questions <- MCQuestions
    ThemeOf <- MCThemeOf
    K = 1
    SEARCH_MODEL = m1
SYMMETRY RunSymmetry
INVARIANTS
    IInv
    AskedMaterialIsFound
PROPERTIES
    MirrorsTheCorpus
    NeverWiped
    NewRowsArePlaced
CHECK_DEADLOCK FALSE
