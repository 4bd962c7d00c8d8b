SPECIFICATION Spec
CONSTANTS
  t1 = t1
  t2 = t2
  promoted = promoted
  again = again
  built = built
  old = old
  foreign = foreign
  Threads = {t1, t2}
  Names = {n1}
  Versions = {old, promoted, again, foreign}
  VoiceOf <- MCVoiceOf
  BuiltFor <- MCBuiltFor
  MaxSwapped = 1
  Absent = Absent
  Clip = Clip
  Nobody = Nobody
SYMMETRY Symmetry
INVARIANTS TypeOK SteadySpeechIsExact AuditionIsExact OmniVoiceAlone CacheInv
