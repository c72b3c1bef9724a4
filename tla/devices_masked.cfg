\* Requests step by step with the signals blocked, alarms on top of alarms.
CONSTANTS
    QSize = 4
    Disks <- TwoDisks
    Tracks <- FourTracks
    TrackSize = 2
    DiskRequests <- JustErrors
    NumTerms = 1
    Enables <- NoInterrupts
    AlarmTimes <- NowOrLater
    Polite = FALSE
    Masked = TRUE
    Handlers <- AllHandlers
SPECIFICATION StepSpec
INVARIANTS ScheduledStays
PROPERTIES ImplementsDevices RequestsEnd
