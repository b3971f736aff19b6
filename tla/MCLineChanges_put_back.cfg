SPECIFICATION Spec
CONSTANTS
    Phones = {p1}
    Connections = {c1, c2}
    Fields = {f1}
    Values = {v1, v2, v3}
    Acts <- All
    Retries = 1
    MaxStamp = 3
    MaxVersion = 3
    MaxInvoice = 2
PROPERTIES SentStaysAsSent
SYMMETRY Symmetry
CHECK_DEADLOCK FALSE
