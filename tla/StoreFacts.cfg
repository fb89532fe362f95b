\* Facts and their cache: supersession, derived facts under the three
\* deletions, a restart between any two statements.
CONSTANTS
    Global = global
    Agents = {global}
    Texts = {plain}
    Mentions <- NoDays
    Keys = {k1, k2}
    Values = {v1, v2}
    MaxPerAgent = 1
    MaxGlobal = 1
    Ttl = 1
    MaxMemory = 2
    MaxFact = 3
    MaxCount = 0
    MaxNow = 2
    MaxCrashes = 1
SPECIFICATION Spec
INVARIANTS FactsCoherent SupersessionForward ActiveFactsPerCrash
PROPERTIES DeletionTakesFacts
SYMMETRY KeysAndValues
