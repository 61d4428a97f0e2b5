SPECIFICATION FairSpec
CONSTANTS
    Ids = {d1, d2}
    None = None
    Contents <- MCContents
    Tasks = {"extract", "classify"}
    MinRows = 2
    MaxRows = 2
    NumChunks = 5
    TooShort = 1
    MaxChunks = {3}
    Outputs <- MCOutputs
    Norm <- MCNorm
    Near <- MCNear
    Events = {"commit_error", "db_error", "embedding_error", "session_lost", "db_down", "crash", "sweep_error", "files_deleted"}
    MaxEvents = 2
INVARIANTS ValidIsUsable SynthesisKeepsOne
PROPERTIES DatasetsFinish
CHECK_DEADLOCK FALSE
