SPECIFICATION Spec
CONSTANTS
    Path = {p1}
    Content = {x, y}
    Blank = Blank
    Absent = Absent
    Creator = {c1, c2, c3}
    Old = {c1}
    Collector = {g1}
    Restorer = {}
    Keep = 1
    MaxFailures = 0
INVARIANTS
    ActiveBlobsArePreserved
CHECK_DEADLOCK FALSE
