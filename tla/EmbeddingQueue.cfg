\* Searches and saves without end, time-outs, and the worker's shutdown.
CONSTANTS
    HighCallers = {h1}
    NormalCallers = {n1, n2}
    none = none
    short = short
    full = full
    huge = huge
    Texts = {none, short, full, huge}
    Tokens <- TokensOfTexts
    NBatch = 2
    MaxBatchTexts = 2
    NoVector = NoVector
    None = None
    MaxQueued = 3
    MaxAbandoned = 1
SPECIFICATION FairSpec
INVARIANTS JobsMatchCalls NoLostWakeUp
PROPERTIES IsService CallsAnswered ShutdownDrains
CHECK_DEADLOCK FALSE
