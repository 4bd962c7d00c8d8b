SPECIFICATION Spec
CONSTANTS
  t1 = t1
  t2 = t2
  t3 = t3
  anders = anders
  bo = bo
  va = va
  vb = vb
  a1 = a1
  a2 = a2
  b1 = b1
  Threads = {t1, t2}
  Names = {anders, bo}
  Voices = {va, vb}
  RefsOf <- MCRefs
  AltName <- MCAlt
  Does <- Shared
  Recorded = {va}
  Asked = {2}
  None = None
  Nobody = Nobody
INVARIANTS TypeOK LibraryIsSound ReferencesKept PromotionsAgree DefaultIsInstalled
