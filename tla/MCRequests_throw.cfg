SPECIFICATION Spec
CONSTANTS
    Nobody = Nobody
    Stopper = Stopper
    Proc <- MCProc
    Alias = {a, b}
    Initial = {a}
    Request = {r1, r2}
    Registrar = {w1}
    MaxOpenConns = 1
INVARIANT NoThrow
CHECK_DEADLOCK FALSE
