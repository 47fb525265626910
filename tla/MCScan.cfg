SPECIFICATION ScanSpec
CONSTANTS
    Procs = {p1, p2}
    Assets = {a1}
    Contents = {c1, c2}
    Absent = Absent
    Unread = Unread
    None = None
    Window = 1
    HistoryWindow = 1
    MaxTime = 2
    PolicyAssets = {"asset"}
    HostOf <- MCHostOf
    ProjectOf <- MCProjectOf
    Rules <- MCRules
    Exceptions <- MCExceptions
    MaxLocalExpiry = 1
    Machines <- MCMachines
    Intels <- MCIntels
    Orgs <- MCOrgs
    MaxChanges = 1
    MaxPolicyFaults = 1
    MaxBegun = 2
SYMMETRY Symmetric
INVARIANTS WholeBaseline NothingUnreported HistorySound PolicySound
PROPERTIES BaselineAdvances
