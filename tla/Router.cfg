CONSTANTS
    a = a
    b = b
    c = c
    NoRoute = NoRoute
    Configs <- MCConfigs
    Paths <- MCPaths
SPECIFICATION Spec
INVARIANTS
    TypeOK
    BestRouteServes
    OrderIsIrrelevant
SYMMETRY Names
