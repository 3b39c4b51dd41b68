SPECIFICATION MCSpec
CONSTANTS
    MaxBatch = 4
    MaxBuffered = 2
    MaxChunk = 3
    MaxPrinted = 12
    Terminals = {s, t}
    Paths = {a, b}
    Hidden = {}
    MaxIno = 3
    MaxIds = 12
    MaxOps = 4
    OpsBeside = 3
    MaxRequests = 2
    MaxSent = 3
INVARIANTS
    TypesOK
    HeldOutputIsScheduled
    StreamsAreFaithful
PROPERTIES
    ImplementsOutput
    OutputIsShown
    RowsGoOnlyWhenRemoved
    NamesConverge
CHECK_DEADLOCK FALSE
