SPECIFICATION Spec
CONSTANTS
    Name <- MCName
    Ext <- MCExt
    LowerWord <- MCLowerWord
    LowerExt <- MCLowerExt
    File <- Sample
    Pattern <- MCPattern
INVARIANTS WalkExact NotifiedAlike
CHECK_DEADLOCK FALSE
