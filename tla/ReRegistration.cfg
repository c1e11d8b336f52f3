SPECIFICATION Spec
CONSTANTS
    A = A
    B = B
    R1 = R1
    R2 = R2
    R3 = R3
    Apps = {A, B}
    Packaged = B
    ExeName <- MCExeName
    Debugger0 <- MCDebugger0
    Requests = {R1, R2, R3}
    Overlapping = FALSE
    Launchers = {l1}
    Sources = {"good", "bad", "odd"}
    Ships <- MCShips
    Spellings = {"verbatim_slashes"}
    MaxUpdates = 0
    None = None
    Torn = Torn
    Entry = Entry
    Garbage = Garbage
    LibData = LibData
    NativeData = NativeData
    Name = Name
INVARIANTS UnregisterRestores
CHECK_DEADLOCK FALSE
