SPECIFICATION FairSpec
CONSTANTS
    d1 = d1
    d2 = d2
    t1 = t1
    t2 = t2
    script = script
    bond = bond
    None = None
    Tab = {t1, t2}
    Desk = {d1}
    Pair = {bond}
    Scripts = {script}
    Client = {t1, t2, script}
    PriceText <- Prices
    SizeText <- Sizes
    Default <- FirstShown
    Composers = {t1}
    Raw <- RawOrders
    FieldMax = 300
    RequireOrderSig = TRUE
    MaxCalls = 2
    MaxDraws = 2
INVARIANTS
    TypeOK
    BookIsSound
    BroadcastIsSealed
    ActiveIsAccepted
    OneInFlight
    StaleOnlyWhileSealing
    CollisionIsMine
PROPERTIES
    BroadcastEnds
