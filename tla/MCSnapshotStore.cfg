CONSTANTS
    Writers = {w1, w2}
    Readers = {r1, r2}
    Handles = {h1, h2, h3}
    Nobody = Nobody
    Docs <- MCDocs
    MaxVersion = 3
SPECIFICATION SafeSpec
INVARIANTS TypeOK RefcountExact ReaderSeesPublished ReportIsDiff
SYMMETRY Symmetry
CHECK_DEADLOCK FALSE
