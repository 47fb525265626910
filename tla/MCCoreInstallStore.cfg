SPECIFICATION Spec
CONSTANTS
    v1 = v1
    v2 = v2
    v3 = v3
    c1 = c1
    c2 = c2
    c3 = c3
    Procs = {p1, p2}
    Versions = {v1, v2, v3}
    Cores = {c1, c2, c3}
    Builds <- ThreeBuilds
    None = None
    Partial = Partial
    MaxFaults = 1
CONSTRAINT FaultsAmongTwo
SYMMETRY Symmetric3
INVARIANTS PointersChecked PruneSparesPointers RollbackTargetKept
PROPERTIES OnlyRestageDisturbs
