SPECIFICATION Spec
CONSTANTS
    p1 = p1
    p2 = p2
    Proc = {p1, p2}
    Worker = {1, 2}
    Owner <- OwnerDuo
    Match = {1}
    Provable = {1}
    HasProver = {p1, p2}
    OnchainOn = {p1, p2}
    MaxProofAttempts = 2
    BatchSize = 1
    JobsCap = 1
    MaxStops = 1
INVARIANTS
    TypeOK
    ConfirmedIsOnChain
    NothingUnprovenLeaves
    TablesAgree
    ClaimedOnce
    AttemptsBounded
PROPERTIES
    ConfirmedIsFinal
    ImplementsLifecycle
    ImplementsRows
