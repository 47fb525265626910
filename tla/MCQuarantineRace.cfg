SPECIFICATION Spec
CONSTANTS
    r1 = r1
    r2 = r2
    c1 = c1
    c2 = c2
    Procs = {p1, p2}
    Recs = {r1}
    Contents = {c1, c2}
    Empty = Empty
    Digest <- OneDigest
    Modes = {m600, m755}
    Private = m600
    Irregular = Irregular
    Inodes = {i1, i2, i3, i4}
    None = None
    ConcurrentUser = TRUE
    MaxUserSteps = 3
    MaxFaults = 1
CHECK_DEADLOCK FALSE
SYMMETRY Symmetric
INVARIANTS QuarantinedCopyIntact OneWinner OrphanNeedsFault RecordsApproved
PROPERTIES ImplementsCustody
