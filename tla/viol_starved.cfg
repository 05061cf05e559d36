SPECIFICATION FairSpec
CONSTANTS
    p1 = p1
    p2 = p2
    Proc = {p1}
    Worker = {1}
    Owner <- OwnerSolo
    Match = {1, 2}
    Provable = {2}
    HasProver = {p1}
    OnchainOn = {p1}
    MaxProofAttempts = 1
    BatchSize = 1
    JobsCap = 1
    MaxStops = 0
PROPERTIES
    FinishedOrExhausted
