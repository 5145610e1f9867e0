SPECIFICATION FairSpec
CONSTANTS
    Facet <- Facets
    Kind <- Kinds
    IsArray <- Arrays
    Row = {1, 2, 3, 4}
    Cell <- Cells
    Like <- Likes
    Now = 10
    Links <- Reported
    Choice <- Offered
    PageSize = 3
    MaxActs = 2
INVARIANTS
    SearchMeansFilter
    LinkIsHonest
PROPERTIES
    RailStaysShared
CHECK_DEADLOCK FALSE
