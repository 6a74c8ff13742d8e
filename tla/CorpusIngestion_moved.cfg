\* A chunk that moves keeps its old place.
SPECIFICATION StableSpec
CONSTANTS
    NoFile = NoFile
    NoModel = NoModel
    r1 = r1
    r2 = r2
    m1 = m1
    m2 = m2
    t1 = t1
    t2 = t2
    t3 = t3
    Runs = {r1}
    Models = {m1, m2}
    Files = {1, 2}
    Contents <- LongContents
    Texts = {t1, t2, t3}
    Windows <- LongWindows
    EMBED_BATCH_SIZE = 2
PROPERTY MirrorsPlaces
CHECK_DEADLOCK FALSE
