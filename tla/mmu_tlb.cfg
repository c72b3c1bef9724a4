\* A disciplined operating system in either mode, with two mappings: the refinement.
CONSTANTS
    NumPages = 2
    NumFrames = 2
    NumTags = 2
    PageSize = 2
    Addrs <- Within
    MapLimits <- JustTwo
    Modes <- BothModes
    Prots <- Accessible
    AccessArgs <- ClearOrRef
    Tables <- AccessibleTables
    PTE <- NamedPTE
SPECIFICATION Spec
INVARIANTS ProtectionEnforced NeverAborts
PROPERTIES DirtyOnlyByStore ImplementsAbstractMmu
