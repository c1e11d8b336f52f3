SPECIFICATION PackageSpec
CONSTANTS
    Missing = Missing
    Null = Null
    Css = Css
    Js = Js
    Other = Other
    Bin = Bin
    BadHost = BadHost
    CommandLines <- MCCommandLines
    Lower <- MCLower
    AsciiLower <- MCAsciiLower
    Bodies <- MCBodies
    Sources <- MCSources
    Archives <- MCArchives
    Hosts = {"0.1.1", "0.2.0"}
    CoreHost = "0.1.1"
    Colon = {"c:"}
    Trimmed = {".", "..", "a."}
    Reserved = {"nul"}
    NumericLabels = {"10", "300"}
    Octets = {"10"}
    BadLabels = {"-x", ""}
    MaxConfigFields = 1
    MaxNetworkDomains = 2
    MaxLabel = 1
    MaxEntries = 4
    MaxSingle = 8
    MaxTotal = 12
    MaxRatio = 3
    MaxManifestSize = 2
    MaxEdits = 2
    MaxPacks = 2
INVARIANT
    KeyMirrorsWindows
CHECK_DEADLOCK FALSE
