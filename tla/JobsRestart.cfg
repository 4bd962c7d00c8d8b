SPECIFICATION Spec
CONSTANTS
  Jobs = {j1, j2}
  Anchors = {a1}
  References = {r1}
  None = None
  NoJob = NoJob
  Ageing = FALSE
  MaxTerminal = 1
  MaxCrashes = 2
  MaxFaults = 1
  MaxListings = 0
  MaxSync = 0
INVARIANTS OneRunPerJob UnfinishedHasRunner LiveJobsKeepClips SucceededMatchesAnswers QuestionIsOpen
PROPERTIES TerminalIsFinal ImplementsLifecycle
CHECK_DEADLOCK FALSE
