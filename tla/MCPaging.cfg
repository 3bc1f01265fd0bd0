SPECIFICATION Spec
CONSTANTS
    i1 = i1  i2 = i2  i3 = i3  i4 = i4  i5 = i5
    Items = {i1, i2, i3, i4, i5}
    PageSize = 2
SYMMETRY Symmetry
INVARIANTS TypeOK OnlyFullPagesGoOn PagesFit
