SPECIFICATION Spec
CONSTANTS
    Observed <- People
    Registered <- Rosters
    Firms = {f, g}
    Filed = {f}
    Loaders = {l1, l2}
    MaxRebuilds = 1
    ann = ann
    bob = bob
    f = f
    g = g
    None = None
INVARIANT OneLoader
SYMMETRY Symmetry
CHECK_DEADLOCK FALSE
