SPECIFICATION FairSpec
CONSTANTS
    Nobody = Nobody
    Stopper = Stopper
    Proc <- MCProc
    Alias = {a}
    Initial = {}
    Request = {r1, r2}
    Registrar = {w1}
    MaxOpenConns = 1
INVARIANTS CacheFresh ListingCurrent CleanStop WaitsOrdered
PROPERTIES Answered WritersEnter
CHECK_DEADLOCK FALSE
