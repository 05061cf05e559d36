SPECIFICATION FairSpec
CONSTANTS
    p1 = p1
    p2 = p2
    NoProc = NoProc
    Proc = {p1, p2}
    Order = {1, 2, 3}
    Form <- TradeForms
    Nullifier <- AllDistinct
    Key = {1, 2, 3}
    BlobKey = 1
    StartKey <- OwnKeys
    Modes = {"persistent", "ephemeral"}
    MaxStops = 1
PROPERTIES
    CrossesMeet
