SPECIFICATION Spec
CONSTANTS
    a = a
    b = b
    r1 = r1
    r2 = r2
    r3 = r3
    Columns = {a, b}
    Rows = {r1, r2}
    Texts = {1, 2, 3}
SYMMETRY Symmetry
INVARIANTS
    ColumnOrderAgrees
PROPERTY AddOrderKeepsTexts
