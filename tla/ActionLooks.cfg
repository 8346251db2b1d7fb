SPECIFICATION LooksSpec
CONSTANTS
    Action = {o1, o2}
    PkAction = {a1, a2}
    NoPk = NoPk
    MaxUses = 3
    MaxChanges = 2
SYMMETRY Interchangeable
INVARIANTS
    LooksTypeOK
    ShowsWhatItKnows
    AgreesWhenQuiet
    FilterHasContext
CHECK_DEADLOCK FALSE
