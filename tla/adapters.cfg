SPECIFICATION Spec
CONSTANTS
    Adapters = {a1, a2}
    Contents = {"peft", "worse"}
    Peft = {"peft"}
    Flaw <- MCFlaw
    Score <- MCScore
    Base <- MCBase
    Delta <- MCDelta
    MinImprovement = 5
    Floor = 85
    Eps = 1
    BaseModel = "0.5b"
    OllamaMap = {"0.5b", "1.5b"}
    Reqs = {r1, r2}
    None = None
    Events <- SafetyEvents
    MaxEvents = 1
    MaxRequests = 5
SYMMETRY Symmetric
INVARIANTS TypeOK ServesSound ServesPassed SoundPasses AuditLabels NoStrayFiles
PROPERTIES FinalIsFinal
CHECK_DEADLOCK FALSE
