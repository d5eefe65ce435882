\* One request at a time: a second DELETE of a device is answered like the first.
SPECIFICATION Spec
CONSTANTS
    r1 = r1
    r2 = r2
    Rows = {r1, r2}
    Names = {k1}
    Notes = {n1}
    Requests = {c1}
    Mixes <- TwoDevices
    None = None
INVARIANTS
    MissingIsNotFound
