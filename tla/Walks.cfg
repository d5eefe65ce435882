\* Up to five rows or samples, the latter under two combinations of tags; pages
\* of one and two and, without a limit, of three.
SPECIFICATION Spec
CONSTANTS
    Times = {1, 2, 3, 4, 5}
    Tags = {here, there}
    Asked = {0, 1, 2}
    MaxLimit = 3
    DefaultLimit = 3
    MaxOthers = 1
    MaxChanges = 2
    None = None
INVARIANTS
    TypeOK
    MissesAtMostOnePerLeaving
    DescendingMissesOnlyNewest
    RepeatsAtMostOnePerEntering
