SPECIFICATION Spec
CONSTANTS
  anders = anders
  bo = bo
  one = one
  two = two
  c1 = c1
  c2 = c2
  Names = {anders, bo}
  Contents = {one, two}
  Jobs = {1, 2}
  InputsOf <- MCInputs
  VoiceOf <- MCVoices
  OldDisks <- MCOld
  NewDisks <- MCNew
  Absent = Absent
  MaxWork = 2
  MaxFaults = 1
INVARIANTS TypeOK SealedJobsCanResume ExportIsComplete ImportIsComplete MarkerLeadsToPackage
PROPERTIES ImportedJobsResume NothingClobbered
