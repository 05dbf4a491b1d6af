SPECIFICATION FairSpec
CONSTANTS
    r1 = r1
    r2 = r2
    r3 = r3
    key1 = key1
    key2 = key2
    task1 = task1
    task2 = task2
    Requests = {r1, r2, r3}
    Operations = {key1, key2}
    OperationOf <- RetriedKey
    Limit = 1
    StateChanges = {"degraded", "normal"}
    Tasks = {task1, task2}
    TaskOf <- TwoTasks
    Faults = {"abort", "restart", "recovery"}
PROPERTIES
    OutcomeFinal
    RefundIsWitnessed
    ImplementsQuota
    DispatchSettles
CHECK_DEADLOCK FALSE
