SPECIFICATION Surface
CONSTANTS
    Characters = {"a", "b", "v", "w", "x", "-", "_", " ", "cloud"}
    Brand <- MCBrand
    IdSeparators = {"-", "_"}
    Underscore = "_"
    Space = " "
    Catalogs <- MCCatalogs
    Queries <- MCQueries
    Limits = {0, 2}
    DefaultLimit = 3
    Strays <- MCStrays
    Absent = Absent
    AnyService = AnyService
INVARIANTS
    BestHitsInOrder
    ServiceIsFoundByItsName
    NamedToolOutranks
    CallReachesItsTool
    BrokenToolIsContained
    EmptyMeansNoMatch
CHECK_DEADLOCK FALSE
