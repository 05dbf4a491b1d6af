SPECIFICATION FairSpec
CONSTANTS
    source1 = source1
    agent1 = agent1
    Runners = {source1, agent1}
    SourceRunners = {source1}
    Operators = {op1}
    MaxCycles = 1
    Objectives = {0, 1}
    Sources = {page1, page2}
    MaxArtifacts = 1
    Work <- LongWork
    TaskChanges = {"paused", "active", "concluded"}
    StateChanges = {"degraded", "normal"}
    Faults = {"error", "crash", "restart", "recovery"}
INVARIANTS
    ArtifactsTraceable
    CompletionIsEarned
PROPERTIES
    ProgressRetained
    EvidenceNeedsAuthority
    AttemptSettles
