CONSTANTS
    Kbs = {k1, k2}
    Created = {k1}
    NoKb = NoKb
    Docs = {d1, d2}
    c0 = c0
    c2 = c2
    Contents = {c0, c2}
    NoContent = NoContent
    Size <- MCSize
    Requests = {r1, r2}
    MaxFaults = 1
    ReadLimit = 2
SPECIFICATION Spec
INVARIANTS CompletedIsSearchable NoOrphanedVectors UploadsAreSettled
PROPERTIES SnapshotIsComplete RollbackKeepsOwn
CHECK_DEADLOCK FALSE
SYMMETRY Symmetry
