SPECIFICATION Spec
CONSTANTS
    Letters = {"a", "b"}
    MaxText = 5
    READ_BLOCK_SIZE = 4
    MaxRows = 3
    MaxCols = 2
INVARIANTS
    TypeOK
    RowsSoFar
    
    
PROPERTIES
    LoadedAsReference
CHECK_DEADLOCK FALSE
