\* Requests that may overlap, with crashes and blobs that cannot be deleted.
SPECIFICATION FairSpec
CONSTANTS
    Workers = {w1, w2}
    Contents = {c1}
    Invalid = Invalid
    Files = {f1, f2}
    NoFile = NoFile
    MaxBatch = 2
    MaxRuns = 1
    Faults = {"crash", "unlink"}
INVARIANTS
    TypeOK
    FilesHaveBlobs
    NoOrphanBlobs
    NoDanglingRows
    TimelineAccountsForFiles
    DeletedOnce
    AnalysedFilesAreKept
    DuplicatesShareABatch
PROPERTY
    DeletionsEnd
