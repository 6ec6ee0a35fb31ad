CONSTANTS
    c1 = c1
    c2 = c2
    NArch = 2
    RFSize = 6
    MaxContexts = 1
    ROBSize = 3
    LSQSize = 2
    Contexts <- Ids1
    Insts <- InstsDeep
    include_spec = TRUE
    MaxStale = 0
SPECIFICATION FairSpec
INVARIANTS
    TypeOK
    SingleOwner
    MappingsInOrder
    SpecBracket
    CommitSafe
PROPERTIES
    CommitProgress
