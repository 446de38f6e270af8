CONSTANTS
    Keys = {1, 2, 3}
    Cells = {c1, c2, c3, c4, c5}
    NULL = NULL
SPECIFICATION Spec
SYMMETRY Symmetry
INVARIANTS
    Sorted
    CellsInUse
PROPERTIES
    ImplementsNameBag
