SPECIFICATION TotalsSpec
CONSTANTS
    k1 = k1  k2 = k2
    Keys = {k1, k2}
    All = All
    Results <- MCResults
    Unlabelled = Unlabelled
    Windows <- MCWindows
    NaN = NaN
    None = None
    MaxSeries = 3
SYMMETRY Symmetry
INVARIANTS TotalsTypeOK CountersFit RatesFit
