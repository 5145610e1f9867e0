CONSTANTS
    Runs = {r1}
    Moves = {m1}
    Changes = {c1}
    name = name
    firm = firm
    city = city
    Attr = {name, firm, city}
    Releases <- OnlyPlain
    None = None
    CanCrash = FALSE
    CanOverlap = FALSE
SPECIFICATION Spec
PROPERTY DropLands
CHECK_DEADLOCK FALSE
