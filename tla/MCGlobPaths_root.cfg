SPECIFICATION Spec
CONSTANTS
    Name <- MCName
    Ext <- MCExt
    LowerWord <- MCLowerWord
    LowerExt <- MCLowerExt
    File <- Sample
    Pattern <- RootPattern
INVARIANT PolledIsRecognised
CHECK_DEADLOCK FALSE
