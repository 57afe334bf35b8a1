\* Audio, frames and IPIs come to an end.
SPECIFICATION PartsSpec
CONSTANTS
  Lines = {i1, i2}
  NoLine = NoLine
  MP = FALSE
  Silent = TRUE
  Closes = TRUE
  Others = {c1, c2}
  Half = 3
  Period = 6
  MaxIpis = 2
  ByteMod = 4
  SerialPacket = 2
  MTU = 6
  RoomFor = {5, 6}
  Payloads <- MCPayloads
  MaxFrames = 2
  MaxFaults = 1
  Threads = {t1, t2}
  MaxBytes = 2
  MaxOpens = 2
  Counts = {1, 2}
  FifoSizes = {4}
  Rates = {1, 2}
  Lengths = {1, 4}
  MaxSamples = 5
  MaxInits = 2
  Links = {"none", "10full", "100half"}
  MaxSets = 2
  MaxLinks = 1
  MaxErrors = 1
INVARIANTS NoneStuck ArmedIsInactive NoUnexpectedTrigger CpusCounted SerialSound PlaySound MacSound
PROPERTIES RaisedIsServed AllServed
CHECK_DEADLOCK FALSE
