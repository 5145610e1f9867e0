SPECIFICATION Spec
CONSTANTS
    Observed <- TwoPeople
    Registered <- TwoRosters
    Firms = {f, g}
    Filed = {f}
    Loaders = {l1, l2}
    MaxRebuilds = 1
    ann = ann
    bob = bob
    f = f
    g = g
    None = None
INVARIANTS
    SnapshotsWhole
    AbsencesAreTrue
    DiffedInOrder
SYMMETRY Symmetry
CHECK_DEADLOCK FALSE
