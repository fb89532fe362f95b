\* Two request threads, three turns, two signals: a stop at every moment.
CONSTANTS
    Pool = {p1, p2}
    SaveCap = 2
    FactCap = 1
    MaxTurns = 3
    MaxSignals = 2
SPECIFICATION FairSpec
CHECK_DEADLOCK FALSE
INVARIANTS AcceptedTurnsTaken UsersGoneFirst SilentFactsAreLate
PROPERTY ShutdownEnds
