SPECIFICATION FairSpec
CONSTANTS
    Terminal = {t1}
    Lsp = {}
    Editor = {e1}
    NoRef = NoRef
    Faults = FALSE
    TimePasses = FALSE
    MayDelete = TRUE
PROPERTIES
    GraceSparesUsers
CHECK_DEADLOCK FALSE
