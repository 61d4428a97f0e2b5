SPECIFICATION FairSpec
CONSTANTS
    Adapters = {a1, a2}
    Contents = {"peft", "misfit"}
    Peft = {"peft"}
    Flaw <- MCFlaw
    Score <- MCScore
    Base <- MCBase
    Delta <- MCDelta
    MinImprovement = 5
    Floor = 85
    Eps = 1
    BaseModel = "0.5b"
    OllamaMap = {"0.5b", "1.5b"}
    Reqs = {r1, r2}
    None = None
    Events <- AllEvents
    MaxEvents = 2
    MaxRequests = 2
PROPERTIES AdaptersFinish
CHECK_DEADLOCK FALSE
