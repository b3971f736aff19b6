SPECIFICATION FairSpec
CONSTANTS
    Drafts = {d1}
    Lines = {l1}
    Pages = {p1}
    Connections = {c1}
    MaxWritten = 2
    MaxInvoice = 3
INVARIANTS NoneOutlivesItsDraft
PROPERTIES CustodyKept WaitingLeaves
CHECK_DEADLOCK FALSE
