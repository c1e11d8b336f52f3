SPECIFICATION Spec
CONSTANTS
    Plugins <- MCPlugins
    Versions <- MCVersions
    p1 = p1
    p2 = p2
    v1 = v1
    v2 = v2
    Apps = {a1}
    Absent = Absent
    NoCache = NoCache
    NoPolicy = NoPolicy
    Default = Default
    MaxOps = 3
    MaxGrants = 1
    MaxFaults = 1
INVARIANTS
    InstallIsTransactional
CHECK_DEADLOCK FALSE
