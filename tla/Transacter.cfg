SPECIFICATION FairSpec
CONSTANTS
    Conns = {c1, c2}
INVARIANTS WaitGroupsMatch WaitsForLoops CleanStop
PROPERTIES StopsInTheEnd
