SPECIFICATION Spec
CONSTANTS
  Jobs = {j1}
  Anchors = {a1}
  References = {r1}
  None = None
  NoJob = NoJob
  Ageing = FALSE
  MaxTerminal = 1
  MaxCrashes = 0
  MaxFaults = 0
  MaxListings = 0
  MaxSync = 0
PROPERTY CancelIsHonoured
CHECK_DEADLOCK FALSE
