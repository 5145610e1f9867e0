SPECIFICATION Spec
CONSTANTS
    filings <- Filings
    Versions = 2
    Years = {1, 2}
    Publishers = {p1, p2, p3}
    Builders = {b1}
    Exporters = {e1, e2}
    None = None
INVARIANTS
    PublishedIsComplete
    ProgressIsCommitted
    SnapshotsFollowRows
SYMMETRY Symmetry
CHECK_DEADLOCK FALSE
