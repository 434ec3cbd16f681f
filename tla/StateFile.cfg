SPECIFICATION FairSpec
CONSTANTS
    Savers = {s1, s2}
    States = {v1, v2}
    Nothing = Nothing
    Torn = Torn
INVARIANTS
    NeverTorn
    RenamesOwnState
PROPERTIES
    ImplementsAtomicState
    EverySaveReturns
