SPECIFICATION Spec
CONSTANTS
    None = None
    Alias <- BothAlias
    Path <- BothPath
    Fold <- BothFold
    Entries <- BothEntries
    NGlobs = 2
    MatchGlob <- BothMatchGlob
    Matched <- BothPath
    AliasOf <- BothAliasOf
    Notified = {"a.mdb"}
    BasePoll = 1
    MaxBackoff = 3
INVARIANTS TypeOK OneHandle MapsAgree NoCaseClash ClaimHolds BatchHasDeadline
PROPERTY RegistrySpec
