SPECIFICATION Spec
CONSTANTS
    Drafts = {d1}
    Lines = {l1, l2}
    Pages = {p1}
    Connections = {c1, c2}
    MaxWritten = 1
    MaxInvoice = 3
INVARIANTS TypeOK NothingLost StartedOnce OneSuccessor
PROPERTIES SentIsFixed NoneStartedEmpty RefusedOverNumber
SYMMETRY Symmetry
CHECK_DEADLOCK FALSE
