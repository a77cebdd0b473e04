SPECIFICATION Spec
CONSTANTS
    Calls = {c1, c2}
    Tenants = {t1}
    Keys = {k1}
    NoKey = NoKey
    Uuids = {u1}
    Reports = {"True"}
    MaxUid = 2
INVARIANT
    RetryReturnsId
