SPECIFICATION FairSpec
CONSTANTS
    None = None
    Alias <- TwinAlias
    Path <- TwinPath
    Fold <- TwinFold
    Entries <- TwinEntries
    NGlobs = 2
    MatchGlob <- TwinMatchGlob
    Matched <- TwinPath
    AliasOf <- TwinAliasOf
    Notified = {"a.mdb"}
    BasePoll = 1
    MaxBackoff = 1
PROPERTIES BatchFlushed ThreadsStop Discovered
