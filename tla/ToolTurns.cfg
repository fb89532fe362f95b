SPECIFICATION Spec
CONSTANTS
    c1 = c1
    Clients = {c1}
    Agents = {c1}
    AgentOf <- OwnAgents
    Memories = {m1}
    Hole = Hole
    TopK = 1
    InjectMode = "sticky"
    Capacity = 2
    Opening <- NoOpening
    Contents = {"text", "long", "call", "null"}
    AskContents = {"text"}
    AnswerContents = {"text"}
    CallContents = {"call", "null"}
    Size <- Tokens
    HistoryBudget = 0
    HistoryTarget = 0
    MessagesOfOne = 5
    MessagesOfOthers = 0
    MaxPurges = 0
    MaxMessages <- MessageBounds
SYMMETRY MemorySymmetry
INVARIANT
    ToolTurnsServed
