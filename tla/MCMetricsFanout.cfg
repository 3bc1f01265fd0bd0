SPECIFICATION FanoutFairSpec
CONSTANTS
    h1 = h1  h2 = h2  k1 = k1  k2 = k2
    Handlers = {h1}
    Keys = {k1, k2}
    None = None
    MaxChanges = 2
INVARIANTS FanoutTypeOK JoinWaitsForAll RowsWereTrue QuietIsComplete
PROPERTIES EveryViewAnswers
