\* elements are allocated, freed and allocated again, with and without dealloc
CONSTANTS
    Cells = {c1, c2, c3}
    Items = {x1, x2, x3}
    Deallocated = {x1, x2}
    NULL = NULL
SPECIFICATION Spec
INVARIANTS WellFormed CursorIsLive
PROPERTIES ImplementsDataList
