\* Every system call of the library, two processes that block in handlers.
CONSTANTS
    Contexts <- TwoContexts
    Boot = "startup"
    PsrArgs <- UserAndOn
    Installed <- Everything
    IllegalReturns = TRUE
    VirtualTime = TRUE
    MaxDepth <- OneEach
    StubsOf <- StubsOfEach
SPECIFICATION SysSpec
INVARIANTS SysTypeOK EachCallHasItsHandler
PROPERTIES ImplementsAbstractSyscalls
