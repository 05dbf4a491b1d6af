SPECIFICATION Spec
CONSTANTS
    Operators = {o1}
    Epochs = {e1, e2}
    FirstEpoch = e1
    ContextIds = {c1, c2}
    GrantIds = {g1}
    ExecutionIds = {x1}
    Operations = {op1}
    Events = {ev1}
    EvidenceLimit = 3
    None = None
    FreshEpochs = TRUE
    StateChanges = {"normal", "lockdown", "recovery_required"}
    MaxVersion = 5
SYMMETRY Interchangeable
INVARIANTS
    AuthorizationUsedOnce
    VersionIdentifiesAuthority
    AuditExplainsAuthority
PROPERTIES
    FenceClearsEarned
CHECK_DEADLOCK FALSE
