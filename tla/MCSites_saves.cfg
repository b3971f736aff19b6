SPECIFICATION Spec
CONSTANTS
    Places = {x1, x2}
    Labels = {n1, n2}
    Pages = {p1, p2}
    Saves = {r1, r2}
    MaxAsked = 1
    MaxVersion = 2
    MaxChoices = 2
INVARIANTS TypedIsOfThePlace
PROPERTIES ErasesOnlyWhatWasShown LeftBehindOnlyByALateAnswer
SYMMETRY Symmetry
CHECK_DEADLOCK FALSE
