SPECIFICATION Spec
CONSTANTS
    a = a
    b = b
    Clients = {a, b}
    Base = "base"
    There <- Stops
    Typed = {5}
    Known <- LastDriven
    RoundTrip <- HalfKnown
    Road <- RoadMiles
    MaxStops = 1
    MaxTaps = 0
INVARIANT OpensAsSaved
CHECK_DEADLOCK FALSE
