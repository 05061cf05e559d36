SPECIFICATION Spec
CONSTANTS
    me = me
    other = other
    crossing = crossing
    apart = apart
    None = None
    Owner = {me, other}
    Desk = {me}
    Lot = {crossing, apart}
    Incoming <- Arrivals
    MaxOthers = 2
    MaxMounts = 1
    MaxOpen = 1
    PageSize = 2
    DeskSize = 3
    MaxPolls = 2
    MaxDeferrals = 1
INVARIANTS
    ReceiptIsOneOrder
