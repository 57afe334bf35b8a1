\* Packets are sent, and bindings made, so many times and no more.
SPECIFICATION PartsSpec
CONSTANTS
  Users = {u1}
  Managers = {m1}
  NoThread = NoThread
  Disks = {d1, d2}
  NULL = NULL
  Batches = 2
  InitFails = FALSE
  ManagerWaits = TRUE
  SleepLong = FALSE
  Packets <- MCPackets
  Kind <- MCKind
  SendBatches = {4}
  MaxTx = 2
  UintMod = 32
  UseSG = TRUE
  UseIndirect = TRUE
  Checker = FALSE
  MaxResets = 1
  Removes = TRUE
  Buffers = {b1, b2}
  Limit = 1
  Batch = FALSE
  MaxFrames = 3
  MaxStops = 1
  MaxOthers = 0
  MaxChecks = 0
  MaxBinds = 2
  MaxStatus = 1
  MaxPower = 3
  MaxOut = 1
  MayFail = TRUE
INVARIANTS DisksSound BuffersSound ProtocolSound
PROPERTIES ActiveAccepted Returns NeverRingFull AllEnd
CHECK_DEADLOCK FALSE
