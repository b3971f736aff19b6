SPECIFICATION Spec
CONSTANTS
    a = a
    b = b
    Clients = {a, b}
    Base = "base"
    There <- Stops
    Typed = {5}
    Known <- LastDriven
    RoundTrip <- HalfKnown
    Road <- RoadMiles
    MaxStops = 2
    MaxTaps = 2
INVARIANTS
    DrivesAddUp OnlyCausersPay ReopensTheSame
CHECK_DEADLOCK FALSE
