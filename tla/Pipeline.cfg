\* Saver, fact worker, admin deletions and the hourly purge at every
\* interleaving, under fair scheduling.
CONSTANTS
    Global = global
    Agents = {global}
    t1 = t1
    t2 = t2
    t3 = t3
    Texts = {t1, t2, t3}
    Mentions <- NoDays
    Closeness <- Chain
    Threshold = 2
    Keys = {k1}
    Values = {t1, t2, t3}
    MaxPerAgent = 2
    MaxGlobal = 2
    Ttl = 1
    MaxMemory = 3
    MaxFact = 1
    MaxCount = 5
    MaxNow = 2
    MaxCrashes = 0
    SaveCap = 1
    FactCap = 1
    MaxTurns = 3
    MaxDeletes = 1
SPECIFICATION FairPipelineSpec
INVARIANTS NoDuplicateMemories FactsKeepTheirSource TurnsAccounted
PROPERTY TurnsSettle
