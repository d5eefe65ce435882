\* Two rows in the tables of TwoRows, two keys, two requests at a time.
SPECIFICATION Spec
CONSTANTS
    r1 = r1
    r2 = r2
    Rows = {r1, r2}
    Names = {k1, k2}
    Notes = {n1, n2}
    Requests = {c1, c2}
    Mixes <- TwoRows
    None = None
SYMMETRY CatalogueSymmetry
INVARIANTS
    TypeOK
    KeysStayUnique
    UndoneOnlyByRaces
PROPERTIES
    DeletedStaysAsItWas
