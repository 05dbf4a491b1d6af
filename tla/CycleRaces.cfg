SPECIFICATION Spec
CONSTANTS
    source1 = source1
    agent1 = agent1
    Runners = {source1, agent1}
    SourceRunners = {source1}
    Operators = {op1}
    MaxCycles = 2
    Objectives = {0}
    Sources = {page}
    MaxArtifacts = 1
    Work <- ShortWork
    TaskChanges = {"active"}
    StateChanges = {"degraded", "normal"}
    Faults = {}
INVARIANTS
    SingleActiveCycle
    RunningAttemptOwnsCycle
    InterruptionAudited
PROPERTIES
    TerminalFrozen
    ClosedAttemptIsPowerless
