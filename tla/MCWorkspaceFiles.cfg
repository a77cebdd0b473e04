SPECIFICATION Spec
CONSTANTS
    Uploads = {u1, u2}
    Readers = {r1}
    Paths = {p1}
    MaxUpload = 3
    MaxSize = 4
    Chunk = 2
SYMMETRY Symmetry
INVARIANTS
    UploadsAreAtomic
    NoLeftovers
    LimitIsExact
