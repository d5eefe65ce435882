\* Reports are fresh, still online, or old.
SPECIFICATION FairSpec
CONSTANTS
    Devices <- MCDevices
    Places <- MCPlaces
    ProjectOf <- MCProjectOf
    Streams <- MCStreams
    AsRead <- MCAsRead
    Threshold = 1
    ListLimit = 1
    None = None
INVARIANTS
    TypeOK
PROPERTIES
    NeverBackInTime
    ScreenSettles
