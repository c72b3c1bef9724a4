\* A page without access, whose frame is marked referenced by the operating system.
CONSTANTS
    NumPages = 2
    NumFrames = 1
    NumTags = 1
    PageSize = 2
    Addrs <- Within
    MapLimits <- JustTwo
    Modes <- TlbOnly
    Prots <- ThreeProts
    AccessArgs <- AnyBits
    Tables <- NoTables
    PTE <- NamedPTE
SPECIFICATION Spec
INVARIANT ProtectionEnforced
