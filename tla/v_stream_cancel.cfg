SPECIFICATION Spec
CONSTANTS
    old = old
    new = new
    small = small
    big = big
    absent = absent
    Reqs = {r1, r2}
    Keys = {old, new, small, big}
    Bases = {"base1", "base2"}
    BaseOf <- MCBaseOf
    Cost <- MCCost
    Missing = {}
    Cap = 2
    Budget = 3
    NoBudget = NoBudget
    OldKey = old
    NewKey = new
    None = None
    Boot = Boot
    Promoter = Promoter
    Events = {"cancel"}
INVARIANTS OneCallPerInstance
CHECK_DEADLOCK FALSE
