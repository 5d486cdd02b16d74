CONSTANTS
    MaxHooks = 2
    BackendStatuses <- MCBackendStatuses
    HookStatuses <- MCHookStatuses
SPECIFICATION FairSpec
INVARIANTS
    TypeOK
    BodyReleased
    ErrorHooksHear
    BackendErrorReachesClient
PROPERTIES
    Promised
    HandlerReturns
