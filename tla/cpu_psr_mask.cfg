\* A refused USLOSS_PsrSet leaves the signals blocked: globals.c:38.
CONSTANTS
    Contexts <- TwoContexts
    Boot = "startup"
    PsrArgs <- UpperBits
    Installed <- Everything
    IllegalReturns = FALSE
    VirtualTime = FALSE
    MaxDepth <- OneEach
SPECIFICATION Spec
INVARIANTS PsrMatchesMask
