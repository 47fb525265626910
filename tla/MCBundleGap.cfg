SPECIFICATION BundleSpec
CONSTANTS
    b1 = b1
    b2 = b2
    b2x = b2x
    Parts = {"update"}
    Procs = {p1, p2}
    Bundles = {b1}
    SequenceOf <- OneSeqOf
    ValidFrom <- OneFrom
    ValidUntil <- OneUntil
    MaxSeq = 1
    MaxTime = 1
    Grace = 0
    None = None
    MaxFaults = 1
INVARIANTS LastKnownGoodKept
