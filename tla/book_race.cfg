SPECIFICATION Spec
CONSTANTS
    p1 = p1
    p2 = p2
    NoProc = NoProc
    Proc = {p1, p2}
    Order = {1, 2, 3, 4}
    Form <- RaceForms
    Nullifier <- AllDistinct
    Key = {1, 2, 3}
    BlobKey = 1
    StartKey <- OwnKeys
    Modes = {"persistent"}
    MaxStops = 1
INVARIANTS
    TypeOK
    BackstopIdle
PROPERTIES
    ImplementsFullFill
    PairingStable
