SPECIFICATION Spec
CONSTANTS
    source1 = source1
    agent1 = agent1
    Runners = {source1}
    SourceRunners = {source1}
    Operators = {op1}
    MaxCycles = 1
    Objectives = {0}
    Sources = {page}
    MaxArtifacts = 1
    Work <- ShortWork
    TaskChanges = {}
    StateChanges = {"degraded", "normal"}
    Faults = {}
PROPERTIES
    StartNeedsAuthority
