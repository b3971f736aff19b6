SPECIFICATION Spec
CONSTANTS
    Uuids = {u1}
    Pages = {p1, p2}
    Bodies <- Said
    People = {"a"}
    CrewOf <- CrewOfBodies
    MaxStamp = 2
INVARIANTS TypeOK NothingLost OneRowPerEntry
PROPERTIES NewerWordStays CustodyKept
SYMMETRY PageSymmetry
CHECK_DEADLOCK FALSE
