SPECIFICATION FairSpec
CONSTANTS
    f1 = f1
    f2 = f2
    Files = {f1, f2}
    Workers = {w1}
    App = App
    NoFile = NoFile
    Bad <- SecondBad
    Events <- AllEvents
    MaxEvents = 2
INVARIANTS TypeOK RowsMatchStatus JobHeldOnce QueuedJobExists CleansUp IndexedIsSearchable OneTaskPerWorker
PROPERTIES SweepSparesRunning Lifecycle FilesFinish
CHECK_DEADLOCK FALSE
