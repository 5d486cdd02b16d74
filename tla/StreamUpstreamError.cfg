CONSTANTS
    MaxItems = 3
    MaxCalls = 2
    MaxBlocks = 3
    QuirksFor <- UpstreamErrorQuirk
    Clients <- Both
SPECIFICATION Spec
INVARIANT
    UnfinishedIsNotEnded
