CONSTANTS
    c1 = c1
    c2 = c2
    NArch = 2
    RFSize = 6
    MaxContexts = 2
    ROBSize = 2
    LSQSize = 2
    Contexts <- Ids2
    Insts <- InstsSMT
    include_spec = TRUE
    MaxStale = 1
SPECIFICATION Spec
INVARIANTS
    Ownership
    RegBudget
PROPERTIES
    CommittedState
    LostOnlyAfterExit
