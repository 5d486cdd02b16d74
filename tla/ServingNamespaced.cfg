SPECIFICATION Spec
CONSTANTS
    c1 = c1
    c2 = c2
    Clients = {c1, c2}
    MaxRequests = 2
    NoRoute = NoRoute
    NoOne = NoOne
    SharedError = SharedError
    Factories <- MCFactories
    HookErrors <- MCHookErrors
    Configs <- NamespacedConfigs
    Paths <- NamespacedPaths
INVARIANT RoutesReached
