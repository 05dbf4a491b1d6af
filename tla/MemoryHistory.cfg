SPECIFICATION Spec
CONSTANTS
    Claims = {c1, c2}
    Assessments = {a1}
    Hypotheses = {h1}
    Sources = {s1, s2}
    Statements = {x}
    Statuses = {unverified, supported}
    Unverified = unverified
    Operators = {o1}
    Legacy = {c1}
    None = None
    Window = 1
    MaxTime = 1
    MaxChanges = 3
    StateChanges = {"degraded", "normal"}
SYMMETRY SourceSymmetry
INVARIANTS
    HistoryReconstructs
    ReversalsAreImmediate
    CitedClaimsActive
PROPERTIES
    CitedClaimsStand
CHECK_DEADLOCK FALSE
