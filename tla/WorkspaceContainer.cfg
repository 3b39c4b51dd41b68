SPECIFICATION FairSpec
CONSTANTS
    Terminal = {t1, t2}
    Lsp = {l1}
    Editor = {e1}
    NoRef = NoRef
    Faults = TRUE
    TimePasses = TRUE
    MayDelete = TRUE
INVARIANTS
    ContainersAreTracked
    UsedContainerRuns
PROPERTIES
    AbandonedIsReclaimed
CHECK_DEADLOCK FALSE
