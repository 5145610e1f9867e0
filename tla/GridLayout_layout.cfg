CONSTANTS
    Runs = {r1, r2}
    Moves = {m1}
    Changes = {c1}
    name = name
    firm = firm
    city = city
    Attr = {name, firm, city}
    Releases <- Both
    None = None
    CanCrash = TRUE
    CanOverlap = TRUE
SPECIFICATION Spec
INVARIANTS TypeOK EveryAttributeHasColumn OneOfEach
PROPERTIES FoundGridKept MoveLands
CHECK_DEADLOCK FALSE
