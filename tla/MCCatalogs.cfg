SPECIFICATION Spec
CONSTANTS
    MaxName = 3
    PageSize = 2
    MaxChange = 1
    sales = sales
    eu = eu
    orders = orders
    Paths <- MCPaths
    FirstVersion = 8
    MaxVersion = 10
    Naming <- MCNaming
    LocationKeys <- MCLocationKeys
    OtherKey = "owner"
    Locations <- MCLocations
    HiveTables <- MCHiveTables
INVARIANTS
    TypeOK
    ListingIsExact
    NotFoundMeansDropped
    ReplyUnderstood
PROPERTIES
    HighestNumbered
CHECK_DEADLOCK FALSE
