SPECIFICATION Spec
CONSTANTS
    Calls = {c1, c2}
    Tenants = {t1, t2}
    Keys = {k1}
    NoKey = NoKey
    Uuids = {u1}
    Reports = {"True", "ClaimExpired"}
    MaxUid = 2
SYMMETRY Symmetry
INVARIANTS
    DeletesAreOwn
    DeletionIsSeen
PROPERTY
    ImplementsSandboxStore
