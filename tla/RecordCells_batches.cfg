SPECIFICATION FairSpec
CONSTANTS
    Updates = {u1}
    Tools = {t1}
    Creates = {c1}
    Machines = {m1}
    Attr = {a1, a2, a3}
    Editable = {a1, a2}
    Value = {v1}
    Forced = Forced
    Nobody = Nobody
    Batches <- WithMarket
    Plans <- TwoPlans
    EarlierRecord = FALSE
    EarlierCells <- Empty
    a1 = a1
    a2 = a2
    a3 = a3
    v1 = v1
INVARIANTS
    TypeOK
    NoLockLeft
    SkippedIsManual
PROPERTIES
    ManualEditWins
    PinnedToSnapshot
    ImplementsAtomicEdits
    EditsEnd
CHECK_DEADLOCK FALSE
