SPECIFICATION FairSpec
CONSTANTS
    d1 = d1
    d2 = d2
    Files = {f1}
    Sets = {d1, d2}
    N <- MCN
    Hits = {4, 6}
    Workers = {w1, w2}
    Client = Client
    None = None
    Events = {"redis_down", "retrieval_error", "shutdown", "shutdown_in_push", "kill", "new_set", "backlog",
              "db", "redis_and_db", "raises", "raises_at_start"}
    MaxEvents = 1
    MaxRuns = 3
INVARIANTS QueuedHasJob IndexedIsGated JudgedFairly
PROPERTIES RequestServed
CHECK_DEADLOCK FALSE
