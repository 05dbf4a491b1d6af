SPECIFICATION Spec
CONSTANTS
    Source = {1, 2, 3}
    Rel <- Triangle
    Rank <- TriangleRank
    MaxRoots = 1
    MaxVisited = 3
    MaxExamined = 2
    MaxHops = 2
    MaxChanges = 4
INVARIANTS
    DerivationAcyclic
    HistoryReplays
    ReversalRestores
    RetryRecognised
    ProjectionHonest
