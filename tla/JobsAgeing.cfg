SPECIFICATION FairSpec
CONSTANTS
  Jobs = {j1}
  Anchors = {a1}
  References = {r1}
  None = None
  NoJob = NoJob
  Ageing = TRUE
  MaxTerminal = 1
  MaxCrashes = 1
  MaxFaults = 2
  MaxListings = 1
  MaxSync = 1
INVARIANT TypeOK
PROPERTIES BuildsComeToAnEnd CancelSettles FinishedClipsErased
CHECK_DEADLOCK FALSE
