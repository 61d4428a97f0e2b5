SPECIFICATION Spec
CONSTANTS
    d1 = d1
    d2 = d2
    Files = {f1}
    Sets = {d1, d2}
    N <- MCN
    Hits = {5, 6}
    Workers = {w1}
    Client = Client
    None = None
    Events = {}
    MaxEvents = 0
    MaxRuns = 2
INVARIANTS FlipIsNoise
CHECK_DEADLOCK FALSE
