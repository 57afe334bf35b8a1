\* The frames come to an end.
SPECIFICATION PartsSpec
CONSTANTS
  Num = 4
  IdxMod = 8
  MaxEvents = 5
  MaxRx = 2
  FifoSize = 4
  Level = 1
  Many = 0
  Batches <- MCBatches
  Loads <- MCLoads
INVARIANTS AllOffered DataSound
PROPERTIES ServiceSpec BuffersUntouched AllHandled
CHECK_DEADLOCK FALSE
