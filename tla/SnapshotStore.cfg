SPECIFICATION FairSpec
CONSTANTS
    Path = {p1}
    Content = {x, y}
    Old = {c1}
    Blank = Blank
    Absent = Absent
    Creator = {c1, c2, c3}
    Collector = {g1, g2}
    Restorer = {r1}
    Keep = 1
    MaxFailures = 1
INVARIANTS
    CommitsAreWhole
    RestoreBlanksNothing
    NewestAreKept
PROPERTIES
    GarbageIsCollected
CHECK_DEADLOCK FALSE
