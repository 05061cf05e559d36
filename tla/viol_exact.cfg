SPECIFICATION Spec
CONSTANTS
    d1 = d1
    d2 = d2
    t1 = t1
    t2 = t2
    script = script
    bond = bond
    None = None
    Tab = {t1}
    Desk = {d1}
    Pair = {bond}
    Scripts = {}
    Client = {t1}
    PriceText <- Prices
    SizeText <- Sizes
    Default <- FirstShown
    Composers = {t1}
    Raw = {}
    FieldMax = 300
    RequireOrderSig = TRUE
    MaxCalls = 2
    MaxDraws = 1
INVARIANTS
    CollisionIsExact
