SPECIFICATION HostSpec
CONSTANTS
    p1 = p1
    p2 = p2
    Procs = {p1, p2}
    None = None
    Parts = {"store"}
    Runs = {1, 2}
    Readings = {0, 1}
    SizeOf <- MCSizeOf
    RetentionAge = 0
    RetentionBytes = 2
    MaxListed = 3
    MaxAuditFaults = 1
    MaxTouches = 1
    CoreVersions = {v1, v2}
    MaxScheduleFaults = 2
    MaxUpgrades = 2
    MaxDeviceFaults = 2
    Known <- MCKnown
    MaxStoreFaults = 1
    Collectors = {1, 2, 3}
    Specs <- MCSpecs
    Reports <- MCReports
    MaxConcurrent = 2
    Candidates = {1, 2, 3, 4}
    How <- MCHow
    Workers = {1, 2}
    Slots = 1
CHECK_DEADLOCK FALSE
INVARIANTS NewestSnapshotKept
