SPECIFICATION Spec
CONSTANTS
  Revisions = {r1, r2}
  acceptance = acceptance
  Names = {acceptance, other}
  Name = acceptance
  None = None
  MaxBuilds = 2
  MaxHands = 2
  MaxEdits = 1
  MaxFaults = 1
SYMMETRY Symmetry
INVARIANTS TypeOK OutageEnds
PROPERTIES VerdictIsOfThisCode EvidenceIsOneRun ReportedFailureBlocks
