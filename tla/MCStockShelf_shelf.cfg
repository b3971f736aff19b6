SPECIFICATION Spec
CONSTANTS
    Lines = {l1, l2}
    Drafts = {d1, d2}
    Connections = {c1, c2}
    Costings <- Both
    Days = {1, 2}
    Costs = {1, 3}
    MaxQty = 3
    MaxLots = 2
    MaxSaves = 3
INVARIANTS StockAddsUp WorthLeavesWithTheLast LotNeverRefuses
SYMMETRY Symmetry
CHECK_DEADLOCK FALSE
