SPECIFICATION Spec
CONSTANTS
    Source = {1, 2, 3}
    Rel <- Triangle
    Rank <- TriangleRank
    MaxRoots = 2
    MaxVisited = 3
    MaxExamined = 2
    MaxHops = 1
    MaxChanges = 3
INVARIANTS
    ReplyAnswersRequest
