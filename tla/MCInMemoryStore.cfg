SPECIFICATION Spec
CONSTANTS
    Tenants = {t1, t2}
    Keys = {k1, k2}
    NoKey = NoKey
    Ids = {i1, i2, i3, i4}
SYMMETRY Symmetry
INVARIANTS
    RecordsAreLive
PROPERTIES
    ImplementsSandboxStore
