SPECIFICATION CoreSpec
CONSTANTS
    Apps = {a1, a2}
    Plugins = {p1}
    Manifests <- MCManifests
    Requested <- MCRequested
    Keys = {"k"}
    Domains <- MCDomains
    Absent = Absent
    NoApp = NoApp
    NoPolicy = NoPolicy
    NoSnapshot = NoSnapshot
    Hosts <- MCHosts
    Ports = {80, 443}
    AnyPort = AnyPort
    Origins <- MCOrigins
    Methods = {"GET", "HEAD", "POST"}
    MaxRedirects = 2
    MaxChanges = 3
    MaxRequests = 1
    Commands = {c1, c2}
    Cores = {k1, k2}
    MaxFaults = 1
INVARIANTS
    CoreTypeOK
    StartKeepsData
    StoredPoliciesAcceptable
    HopsAreSafe
PROPERTIES
    NothingGrantedUnasked
    RequestsEnd
    CommandsEnd
CHECK_DEADLOCK FALSE
