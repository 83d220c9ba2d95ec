SPECIFICATION FairSpec
CONSTANTS
    Sizes <- MCSizes
    ChunkSize = 2
    NumJobs <- ChunkCount
    Workers = {w1, w2}
    MaxTries = 2
INVARIANTS TypeOK Quiescent FilesWhole
PROPERTIES Terminates KeepsPromise
CHECK_DEADLOCK FALSE
