SPECIFICATION FairSpec
CONSTANTS
    b1 = b1
    b2 = b2
    r1 = r1
    r2 = r2
    r3 = r3
    r4 = r4
    p1 = p1
    p2 = p2
    None = None
    Dataset = {"stores", "products", "register"}
    Bundle = {b1}
    Run = {r1, r2, r3}
    Importer = {p1, p2}
    SourcesMutable = FALSE
    AcksLost = FALSE
INVARIANTS
    PrerequisitesLive
PROPERTIES
    EveryImportEnds
