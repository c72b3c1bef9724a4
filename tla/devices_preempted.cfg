\* Disk requests made with interrupts enabled.
CONSTANTS
    QSize = 5
    Disks <- TwoDisks
    Tracks <- OneTrack
    TrackSize = 2
    DiskRequests <- JustReads
    NumTerms = 1
    Enables <- NoInterrupts
    AlarmTimes <- JustOne
    Polite = TRUE
    Masked = FALSE
    Handlers <- AllHandlers
SPECIFICATION StepSpec
INVARIANTS ScheduledStays
