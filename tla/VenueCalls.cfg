SPECIFICATION Spec
CONSTANTS
    LotStep = 2
    Coarse = 3
    Faults <- FaultsNone
    Marks = {0, 2}
    Listings = {"perp", "swap"}
    Fallback = "perp"
    MaxQty = 3
    MaxHeld = 3
INVARIANT CallsTypeOK
INVARIANT ReadsAsVenuesSay
INVARIANT OrdersWithinAsked
PROPERTY ArmedSendsNothing
