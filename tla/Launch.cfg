SPECIFICATION Spec
CONSTANTS
    A = A
    B = B
    R1 = R1
    R2 = R2
    R3 = R3
    Apps = {A, B}
    Packaged = B
    ExeName <- MCExeName
    Debugger0 <- MCDebugger0
    Requests = {R1, R2}
    Overlapping = TRUE
    Launchers = {l1, l2}
    Sources = {"good", "bad", "odd"}
    Ships <- MCShips
    Spellings = {"verbatim_slashes"}
    MaxUpdates = 1
    None = None
    Torn = Torn
    Entry = Entry
    Garbage = Garbage
    LibData = LibData
    NativeData = NativeData
    Name = Name
INVARIANTS TypeOK ForeignKept SlotIsItsApps RunsAsItself
CHECK_DEADLOCK FALSE
