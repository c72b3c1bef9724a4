\* One alarm at a time and two disks: what the ring does with their requests.
CONSTANTS
    QSize = 6
    Disks <- TwoDisks
    Tracks <- FourTracks
    TrackSize = 2
    DiskRequests <- BackAndForth
    NumTerms = 1
    Enables <- NoInterrupts
    AlarmTimes <- TwoOrMore
    Polite = TRUE
    Handlers <- AllHandlers
SPECIFICATION FairSpec
INVARIANTS OneEventPerRequest AlarmStatusTrue DisksStayNear
PROPERTIES AlarmsKeepTheirSlot OnlyPutOff DisksFinish
