SPECIFICATION FairSpec
CONSTANTS
    o1 = o1
    o2 = o2
    e1 = e1
    e2 = e2
    p1 = p1
    Orgs = {o1, o2}
    Emails = {e1, e2}
    Invites = {i1, i2}
    Roles = {"member"}
    Founder <- MCFounder
    IP = IP
    Reqs = {r1, r2}
    MaxReqs = 3
    Limit = 1
    None = None
    Events = {"redis", "expire_lost", "crash"}
    MaxEvents = 1
INVARIANTS AnswersHold
PROPERTIES LimiterRecovers
CHECK_DEADLOCK FALSE
