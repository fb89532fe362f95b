\* Memories, dates, sentences and the cache through every deletion and a crash.
CONSTANTS
    Global = global
    Agents = {global, agent}
    Texts = {dated}
    Mentions <- TwoDays
    Keys = {k1}
    Values = {v1}
    MaxPerAgent = 1
    MaxGlobal = 1
    Ttl = 1
    MaxMemory = 3
    MaxFact = 0
    MaxCount = 2
    MaxNow = 2
    MaxCrashes = 1
SPECIFICATION Spec
INVARIANTS CacheCoherent NoDanglingRows CacheNeverAhead
PROPERTIES DeletedForGood EvictReachesCap
