\* A sector below the track's first: dev_disk.c:114.
CONSTANTS
    QSize = 4
    Disks <- OneDisk
    Tracks <- FourTracks
    TrackSize = 2
    DiskRequests <- Negative
    NumTerms = 1
    Enables <- NoInterrupts
    AlarmTimes <- JustThree
    Polite = TRUE
    Handlers <- AllHandlers
SPECIFICATION Spec
PROPERTIES ImpossibleIsError
