SPECIFICATION Spec
CONSTANTS
    c1 = c1
    Clients = {c1, c2}
    Agents = {c1, c2}
    AgentOf <- OwnAgents
    Memories = {m1, m2}
    Hole = Hole
    TopK = 1
    InjectMode = "sticky"
    Capacity = 2
    Opening <- SystemOpening
    Contents = {"text", "call", "null"}
    AskContents = {"text"}
    AnswerContents = {"text"}
    CallContents = {"call", "null"}
    Size <- Tokens
    HistoryBudget = 5
    HistoryTarget = 3
    MessagesOfOne = 6
    MessagesOfOthers = 2
    MaxPurges = 1
    MaxMessages <- MessageBounds
SYMMETRY MemorySymmetry
INVARIANTS
    CacheIsOne
    WindowIsWhole
PROPERTIES
    NoMemoryTwice
    FollowUpExtends
    DroppedStaysDropped
