SPECIFICATION Spec
CONSTANTS
    a = a  b = b  p1 = p1  p2 = p2  s0 = s0  s1 = s1
    f1 = f1  f2 = f2  f3 = f3  w1 = w1  w2 = w2  n1 = n1  n2 = n2
    Rows = {a, b}
    Places = {p1, p2}
    First = p1
    Searches = {s0, s1}
    NoSearch = s0
    Fetches = {f1, f2, f3}
    Saves = {w1}
    Blank = Blank
    None = None
    Names = {n1, n2}
    Newcomer = Newcomer
    Star = Star
    NoList = NoList
    MaxList = 3
SYMMETRY Symmetry
INVARIANTS TypeOK TableRests OwnRowOnly RowsTell
