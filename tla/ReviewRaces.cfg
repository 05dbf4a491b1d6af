SPECIFICATION Spec
CONSTANTS
    Source = {1, 2, 3, 4}
    Saved = {1, 2, 3}
    Claim = {1}
    Cites <- FirstCited
    Relation <- Chain
    Question <- OneQuestion
    Observation = {4}
    Agent <- SecondObserved
    Contradict = {}
    MaxCompared = 2
    MaxObjectives = 2
    References <- ClaimOrSource
    Outcomes <- SomeOutcomes
    StatusChanges = {"active"}
    MaxCycles = 2
    MaxReviews = 1
    MaxChanges = 2
CHECK_DEADLOCK FALSE
INVARIANTS
    
    NoAttemptBehindDecision
    GapsCovered
    
PROPERTIES
    DecisionGoesStale
    ReviewsTrackEvidence
