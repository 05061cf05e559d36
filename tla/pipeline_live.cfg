SPECIFICATION FairSpec
CONSTANTS
    p1 = p1
    p2 = p2
    Proc = {p1}
    Worker = {1}
    Owner <- OwnerSolo
    Match = {1, 2}
    Provable = {1}
    HasProver = {p1}
    OnchainOn = {p1}
    MaxProofAttempts = 2
    BatchSize = 2
    JobsCap = 1
    MaxStops = 1
PROPERTIES
    ShutdownAdvances
    StopEnds
    FinishedOrExhausted
