\* Two contexts, any sequence of calls, timer signals between any two of them.
CONSTANTS
    Contexts <- TwoContexts
    Boot = "startup"
    PsrArgs <- EveryArg
    Installed <- NoIllegal
    IllegalReturns = FALSE
    VirtualTime = FALSE
    MaxDepth <- OneAndTwo
SPECIFICATION FairSpec
INVARIANTS TypeOK TrapReachesCaller UserIsPreemptible UserStaysUser FinishIsClean
PROPERTIES WaitEnds
