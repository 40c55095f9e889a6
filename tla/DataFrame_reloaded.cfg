SPECIFICATION Spec
CONSTANTS
    one = one
    third = third
    near = near
    text = text
    Null = Null
    Unset = Unset
    ChunkSize = 2
    ValuesOf <- Typed
    AsFloat <- Floats
    Schemas <- Mixed
    MaxRows = 3
    MaxAdded = 1
    AddedTypes <- More
    Texts <- Strange
    PointerBytes = 2
PROPERTY
    MapShowsTheRows
CHECK_DEADLOCK FALSE
