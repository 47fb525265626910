SPECIFICATION BundleSpec
CONSTANTS
    b1 = b1
    b2 = b2
    b2x = b2x
    Parts = {"store", "update"}
    Procs = {p1, p2}
    Bundles = {b1, b2, b2x}
    SequenceOf <- MCSeqOf
    ValidFrom <- MCFrom
    ValidUntil <- MCUntil
    MaxSeq = 2
    MaxTime = 1
    Grace = 0
    None = None
    MaxFaults = 2
SYMMETRY Symmetric
INVARIANTS PointersAccepted NoEquivocation ActiveAgrees GapExplained RollbackTargetKept ReportsSound RejectionExplained
PROPERTIES ImplementsLedger
