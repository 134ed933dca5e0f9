SPECIFICATION FairSpec
CONSTANTS
    Latest = 3
    Absent = Absent
    Broken = Broken
    Token = TRUE
INVARIANTS NoDoubleClose FailedUpdateUndone SomethingLeft
PROPERTIES UpdateTakesEffect DeploymentSpec
CHECK_DEADLOCK FALSE
