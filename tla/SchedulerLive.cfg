SPECIFICATION FairSpec
CONSTANTS
    Cores <- CoresBusy
    issue_width = 2
    commit_width = 2
    write_buf_size = 1
    ISSUE_EXEC_DELAY = 1
    MemLats = {1, 3}
    cache_dl1_lat = 1
PROPERTIES EveryEntryLeaves
