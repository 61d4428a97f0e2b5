SPECIFICATION FairSpec
CONSTANTS
    old = old
    new = new
    small = small
    big = big
    absent = absent
    Reqs = {r1, r2}
    Keys = {old, new, small, big, absent}
    Bases = {"base1", "base2"}
    BaseOf <- MCBaseOf
    Cost <- MCCost
    Missing = {absent}
    Cap = 2
    Budget = 5
    NoBudget = NoBudget
    OldKey = old
    NewKey = new
    None = None
    Boot = Boot
    Promoter = Promoter
    Events = {"timeout", "cancel", "load_error", "promote"}
INVARIANTS CacheFits LoadedIsCached OneAttendedCall InstanceHasOneLock
PROPERTIES NotReplaced RequestsFinish
CHECK_DEADLOCK FALSE
