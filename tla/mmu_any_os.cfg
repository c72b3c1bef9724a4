\* Any operating system, in either mode: all protections, all access bits.
CONSTANTS
    NumPages = 2
    NumFrames = 1
    NumTags = 2
    PageSize = 2
    Addrs <- AroundRegion
    MapLimits <- JustTwo
    Modes <- BothModes
    Prots <- AnyProt
    AccessArgs <- AnyBits
    Tables <- AllTables
    PTE <- NamedPTE
SPECIFICATION FairSpec
INVARIANTS TypeOK MapCount HostFollowsTables OtherTagsClosed UsesAreRecorded PageTableInForce
PROPERTIES CausesAreTrue AccessResolved
