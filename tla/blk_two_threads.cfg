SPECIFICATION Spec
CONSTANTS
  Threads = {t1, t2}
  NoThread = NoThread
  Requests <- MCStore
  Num = 4
  MaxSgBuf = 1
  IdxMod = 4
  DWordMod = 16
  DiskSectors = 4
  HeaderLen = 1
  SectorLen = 4
  ReadOnly = FALSE
  EventIdx = TRUE
  PagesFail = FALSE
  Lossy = TRUE
INVARIANTS CounterMatches BatchFits
PROPERTIES OwnedUntouched ServiceSpec
SYMMETRY MCSymmetry
