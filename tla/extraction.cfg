SPECIFICATION FairSpec
CONSTANTS
    Chunks <- MCChunks
    Flagged = {1, 2}
    Outcomes <- MCOutcomes
    MaxPages = 2
    MaxJobs = 2
    Events = {"schema_cleared", "hang", "store_error", "delete", "shutdown", "stop_in_swap", "kill", "overlap"}
    MaxEvents = 1
INVARIANTS WholePages RowsMatchVectors
PROPERTIES JobsFinish
CHECK_DEADLOCK FALSE
