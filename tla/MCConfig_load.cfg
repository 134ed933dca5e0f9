SPECIFICATION Spec
CONSTANTS
    None = None
    Alias <- MCAlias
    Path <- MCPath
    Fold <- MCFold
    Word <- MCWord
    KeyWord = {"key"}
    File <- MCFile
    Listed <- MCListed
INVARIANTS TypeOK  GlobsReachWatcher AllReported FirstEntryWins NoCaseDuplicate
CHECK_DEADLOCK FALSE
