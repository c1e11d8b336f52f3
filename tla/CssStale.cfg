CONSTANTS
  Plugins = {p}
  Css = {x, y}
  NoCss = NoCss
  NoSheet = NoSheet
  MaxAttempts = 3
  MaxGen = 5
SPECIFICATION Spec
SYMMETRY MCSymmetry
CHECK_DEADLOCK FALSE
INVARIANT
  StaleSheetKeepsItsEntry
