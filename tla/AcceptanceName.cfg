SPECIFICATION Spec
CONSTANTS
  Revisions = {r1}
  acceptance = acceptance
  Names = {acceptance}
  Name = acceptance
  None = None
  MaxBuilds = 2
  MaxHands = 1
  MaxEdits = 0
  MaxFaults = 0
PROPERTY FallbackOfThisPackage
