\* A stream of four lines in any chunks; 130 years of days either way, twice;
\* requests with up to twenty memories and a fact.
CONSTANTS
    N = 4
    Eras <- MCEras
    Span = 47700
    MonthCounts = {1, 2, 12, 13}
    Targets = {0, 80}
    LineChars = {50, 400}
    ExplicitBudgets <- MCBudgets
    TopKs = {0, 5}
    Rooms <- MCRooms
    MaxFacts = 1
    FactBytes = {60, 2000}
    AgeBytes = {10}
    TextBytes <- MCTextBytes
    Texts <- MCTexts
    MaxSentence = 7
    MinFragment = 3
    SideChars = {8, 13}
SPECIFICATION AlgorithmsSpec
CHECK_DEADLOCK FALSE
INVARIANTS MessagesSavedWhole ChatLosesCutLines
INVARIANTS SidesKeepTheText
INVARIANTS DatesAgree BlockWithinBudget CalibratedFit
PROPERTY WindowsRollOver
