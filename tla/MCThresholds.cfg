\* Two devices with a threshold each, two requests at a time.
SPECIFICATION FairSpec
CONSTANTS
    t1 = t1
    t2 = t2
    d1 = d1
    d2 = d2
    Rows = {t1, t2}
    Devices = {d1, d2}
    DeviceOf <- OneEach
    Requests = {c1, c2}
    None = None
INVARIANTS
    TypeOK
    ChangesAnnounced
PROPERTIES
    DeletedForGood
    AnnouncedInTheEnd
