\* Two disks, one buffer, and restarts at any moment.
CONSTANTS
    QSize = 4
    Disks <- TwoDisks
    Tracks <- BigSmall
    TrackSize = 2
    DiskRequests <- SomeWork
    NumTerms = 1
    Enables <- NoEnables
    AlarmTimes <- TwoOrMore
    Polite = TRUE
    Handlers <- AllHandlers
    Buffers = {b1}
    Contents = {zero, one}
    Zero = zero
SPECIFICATION StorageSpec
PROPERTIES ImplementsAbstractStorage
