SPECIFICATION Spec
CONSTANTS
    MaxRows = 2
    IntMax = 7
    Asked <- MCAsked
    Value = {1, 2}
    MaxTable = 1
    Statement <- MCStatement
    Name = {"customers", "orders", "parts"}
    Catalogues <- MCCatalogues
INVARIANT AllTables
CHECK_DEADLOCK FALSE
