\* What readers find after purge_expired.
CONSTANTS
    Global = global
    Agents = {global, agent}
    Texts = {dated}
    Mentions <- TwoDays
    Keys = {k1}
    Values = {v1}
    MaxPerAgent = 1
    MaxGlobal = 1
    Ttl = 1
    MaxMemory = 3
    MaxFact = 0
    MaxCount = 2
    MaxNow = 2
    MaxCrashes = 0
SPECIFICATION Spec
INVARIANT PurgedNotServed
