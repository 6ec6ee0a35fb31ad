SPECIFICATION Spec
CONSTANTS
    Cores <- CoresMixed
    issue_width = 2
    commit_width = 2
    write_buf_size = 1
    ISSUE_EXEC_DELAY = 1
    MemLats = {1, 4}
    cache_dl1_lat = 1
INVARIANTS TypeOK ListsOK WritebackOnTime ReadyMeansWritten NothingReplayed
PROPERTIES CommitReady
