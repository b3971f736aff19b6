SPECIFICATION PaySpec
CONSTANTS
    p1 = p1
    v1 = v1
    v2 = v2
    People = {p1, p2}
    Entries = {e1}
    Trips = {t1}
    Vehicles = {v1, v2}
    Owner <- OneIsTheirs
    Uuids = {u1, u2}
    Requests = {r1, r2}
    Removals = {c1}
    MaxParts = 1
    Figures = {1}
INVARIANTS PaidOnce ItemsAreOfPayments
PROPERTIES PaidStays
SYMMETRY Symmetry
CHECK_DEADLOCK FALSE
