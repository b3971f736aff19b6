SPECIFICATION FairSpec
CONSTANTS
    Uuids = {u1, u2}
    Pages = {p1}
    Bodies <- Said
    People = {"a"}
    CrewOf <- CrewOfBodies
    MaxStamp = 2
PROPERTIES WaitingSettles PostsOnlyWaiting
CHECK_DEADLOCK FALSE
