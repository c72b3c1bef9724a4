\* One disk with every kind of request, two terminals with every interrupt.
CONSTANTS
    QSize = 4
    Disks <- OneDisk
    Tracks <- FourTracks
    TrackSize = 2
    DiskRequests <- EveryKind
    NumTerms = 2
    Enables <- SomeEnables
    AlarmTimes <- JustOne
    Polite = TRUE
    Handlers <- NoAlarmHandler
SPECIFICATION FairSpec
INVARIANTS TypeOK HeadOnDisk
PROPERTIES Announcements CharactersSent
