CONSTANTS
    MaxItems = 3
    MaxCalls = 2
    MaxBlocks = 3
    QuirksFor <- HandledQuirks
    Clients <- Both
SPECIFICATION FairSpec
INVARIANTS
    TypeOK
    Transparent
    CompleteAtEnd
    UnfinishedIsNotEnded
    NeverSilent
    ErrorHooksOnce
PROPERTIES
    KeepsClientStream
    HandlerReturns
