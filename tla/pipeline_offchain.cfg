SPECIFICATION FairSpec
CONSTANTS
    p1 = p1
    p2 = p2
    Proc = {p1}
    Worker = {1}
    Owner <- OwnerSolo
    Match = {1, 2, 3}
    Provable = {1, 2, 3}
    HasProver = {p1}
    OnchainOn = {}
    MaxProofAttempts = 1
    BatchSize = 3
    JobsCap = 1
    MaxStops = 1
INVARIANTS
    ClaimedOnce
PROPERTIES
    StopEnds
    FinishedOrExhausted
