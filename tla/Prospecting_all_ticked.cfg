SPECIFICATION Spec
CONSTANTS
    Facet <- Facets
    Kind <- Kinds
    IsArray <- Arrays
    Row = {1, 2, 3, 4}
    Cell <- Cells
    Like <- Likes
    Now = 10
    Links = {}
    Choice <- Offered
    PageSize = 3
    MaxActs = 4
INVARIANT
    AllTickedMeansAllLoaded
CHECK_DEADLOCK FALSE
