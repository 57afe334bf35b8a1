SPECIFICATION TimeoutSpec
CONSTANTS
  Threads = {t1}
  NoThread = NoThread
  Requests <- MCAll
  Num = 8
  MaxSgBuf = 1
  IdxMod = 8
  DWordMod = 16
  DiskSectors = 4
  HeaderLen = 1
  SectorLen = 4
  ReadOnly = TRUE
  EventIdx = FALSE
  PagesFail = TRUE
  Lossy = TRUE
INVARIANTS TypeOK PagesSafe
PROPERTIES CallsReturn
