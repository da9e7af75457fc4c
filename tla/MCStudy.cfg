SPECIFICATION StudySpec
CONSTANTS
    None = None
    MinQuestions = 2
    MaxQuestions = 3
    PlacementSize = 3
    PerGeneration = 2
    Topics <- MCTopics
    Paces <- MCPaces
    Frontier = 0
    MaxDays = 3
INVARIANT AnchoredAtBirth StreakIsTheRule
PROPERTY BankFollowsHim NoRewordingFirst
