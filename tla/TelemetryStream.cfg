\* Two viewers and a watcher on two devices, channels of one sample.
SPECIFICATION FairSpec
CONSTANTS
    Devices = {d1, d2}
    Viewers = {v1, v2}
    Watchers = {w1}
    Capacity = 1
    MaxWrites = 1
    NoOne = NoOne
INVARIANTS
    TypeOK
    NeverSendOnClosed
    SilencedOnlyByAnother
PROPERTIES
    RoundsEnd
    StreamsEnd
