SPECIFICATION Spec
CONSTANTS
    a = a
    b = b
    c = c
    d = d
    Rows <- MCRows
    Sizes = {1, 2, 3}
SYMMETRY RowSymmetry
INVARIANTS
    TypeOK
    PagesExact
    QuietWalkExact
    NothingMissed
