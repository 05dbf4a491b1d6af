SPECIFICATION Spec
CONSTANTS
    b1 = b1
    p1 = p1
    p2 = p2
    fresh = fresh
    locked = locked
    e1 = e1
    e2 = e2
    Commands = {p1, p2}
    Backups = {b1}
    Archives = {fresh, locked}
    Manifest <- TwoBackups
    Epochs = {own, e1, e2}
    FirstEpoch = own
    None = None
    StateChanges = {"degraded", "normal"}
    MaxVersion = 6
INVARIANTS
    OneArchive
    WholeImportFirst
CHECK_DEADLOCK FALSE
