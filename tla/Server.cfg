\* Two clients, one connection to share, two alarms of which one is shown.
SPECIFICATION FairSpec
CONSTANTS
    Operators = {o}
    Dashboards = {d}
    PoolSize = 1
    AlarmIds = {1, 2}
    Shown = 1
INVARIANTS
    TypeOK
    NothingLeaks
PROPERTIES
    EverythingEnds
    ScreensSettle
