SPECIFICATION Spec
CONSTANTS
    site = site
    wiring = wiring
    cleaning = cleaning
    Ids = {1, 2, 3}
    Agreements = {a1, a2}
    Works <- EveryWork
    Deals <- EveryDeal
    Charges <- EveryCharge
INVARIANTS PeersAreEnough PoolIsDrawn DrawnInOrder ChargeIsSharedOut ClosestAgreement
SYMMETRY Symmetric
CHECK_DEADLOCK FALSE
