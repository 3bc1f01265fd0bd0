SPECIFICATION MeansSpec
CONSTANTS
    k1 = k1  k2 = k2
    Keys = {k1, k2}
    Results <- MCResults
    Windows <- MCWindows
    NaN = NaN
    None = None
    MaxSeries = 4
SYMMETRY Symmetry
INVARIANTS MeansTypeOK MeansAreTrue
