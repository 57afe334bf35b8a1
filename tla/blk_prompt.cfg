\* Without time-outs a wake-up that is missed stops the system for good.
\* CallsReturn says that none is; TLC is to judge by it, not by deadlock.
SPECIFICATION PromptSpec
CONSTANTS
  Threads = {t1}
  NoThread = NoThread
  Requests <- MCTwo
  Num = 8
  MaxSgBuf = 1
  IdxMod = 8
  DWordMod = 16
  DiskSectors = 4
  HeaderLen = 1
  SectorLen = 4
  ReadOnly = FALSE
  EventIdx = TRUE
  PagesFail = FALSE
  Lossy = FALSE
PROPERTIES CallsReturn
CHECK_DEADLOCK FALSE
