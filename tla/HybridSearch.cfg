\* Searches between the steps of insertions and deletions.
CONSTANTS
    Global = global
    Agents = {global, agent}
    Texts = {text}
    Mentions <- NoDays
    Keys = {}
    Values = {}
    MaxPerAgent = 1
    MaxGlobal = 1
    Ttl = 1
    MaxMemory = 3
    MaxFact = 0
    MaxCount = 1
    MaxNow = 2
    MaxCrashes = 1
    TopK = 2
    Candidates = 3
    Weight <- DefaultWeight
SPECIFICATION SearchSpec
INVARIANTS LexicalHitsFound ResultsWereThere ResultIsOwn AgreementKept
