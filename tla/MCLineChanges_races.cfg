SPECIFICATION Spec
CONSTANTS
    Phones = {p1, p2}
    Connections = {c1, c2}
    Fields = {f1}
    Values = {v1, v2, v3}
    Acts <- ChangingRemoving
    Retries = 1
    MaxStamp = 2
    MaxVersion = 3
    MaxInvoice = 1
INVARIANTS TypeOK VersionNamesFields
PROPERTIES SentStaysAsSent LeavesOnceLanded OnlyKnownIsOverwritten
SYMMETRY Symmetry
CHECK_DEADLOCK FALSE
