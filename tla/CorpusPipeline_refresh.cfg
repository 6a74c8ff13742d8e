\* Refreshes that stop anywhere, over a site that changes once.
SPECIFICATION Spec
CONSTANTS
    NoPage = NoPage
    NoFile = NoFile
    NoModel = NoModel
    h1 = h1
    h2 = h2
    short = short
    long = long
    t1 = t1
    t2 = t2
    Process = ingest
    Model = model
    Urls = {1, 2, 3, 4, 5}
    Paths = {1, 2, 3, 4}
    PathOf <- MCPathOf
    Kind <- MCKind
    FileOf <- MCFile
    Pages <- MCPages
    Chars <- MCChars
    Texts = {t1, t2}
    TextWindows <- MCWindows
    InitialSites <- MCSites
    MaxPublishes = 1
    EMBED_BATCH_SIZE = 1
INVARIANT
    EverySheetIsIngested
PROPERTIES
    LinkedPagesAreAccountedFor
    NormalizedCorpusVerifies
CHECK_DEADLOCK FALSE
