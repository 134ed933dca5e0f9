SPECIFICATION Spec
CONSTANTS
    MaxRows = 2
    IntMax = 7
    Asked <- MCAsked
    Value = {1, 2}
    MaxTable = 4
    Statement <- MCStatement
    Name = {"customers", "orders", "parts"}
    Catalogues <- MCCatalogues
INVARIANTS PageRight VerdictRight PlainIsCapped AllReleased ListingWhole
CHECK_DEADLOCK FALSE
