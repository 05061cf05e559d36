SPECIFICATION Spec
CONSTANTS
    o1 = o1
    o2 = o2
    o3 = o3
    o4 = o4
    e1 = e1
    e2 = e2
    nyx = nyx
    someone = someone
    None = None
    P = 11
    Bound = 4
    Order = {o1, o2, o3, o4}
    Offer <- Offers
    Engine = {e1, e2}
    Party = {nyx, someone}
    Witness <- Witnesses
    MaxLap = 1
    MaxOthers = 1
    MaxTransfers = 1
SYMMETRY Symmetry
CHECK_DEADLOCK FALSE
INVARIANTS
    TypeOK
    AcceptedCanSettle
    SettledMatches
    SettledOnItsTerms
PROPERTIES
    ImplementsLedger
