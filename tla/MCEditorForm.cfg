SPECIFICATION Spec
CONSTANTS
    a = a  b = b  c = c  d = d  m = m  n = n  k = k  l = l  w1 = w1  w2 = w2
    Services = {a, b, c, d}
    Namespaces = {m, n}
    NameOf <- MCNameOf
    LabelsOf <- MCLabelsOf
    Editable = {a, b, c, m, n}
    Keys = {k, l}
    NoKey = NoKey
    MaxPairs = 2
    Saves = {w1, w2}
    Typed = Typed
    Nothing = Nothing
SYMMETRY Symmetry
INVARIANTS TypeOK SentBelongs ShownBelongs
