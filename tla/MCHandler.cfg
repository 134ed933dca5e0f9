SPECIFICATION FairSpec
CONSTANTS
    Client = {c1, c2}
    Allowed = {c1}
    Request = {r1, r2}
    Route = {"health", "table"}
    Rate = 1
    Cost = 1
    Burst = 2
    IdleLimit = 2
    SweepPeriod = 1
    MaxPause = 1
INVARIANTS EntryKept AnsweredOnce Guarded
PROPERTIES BucketSpec Forgotten Served
