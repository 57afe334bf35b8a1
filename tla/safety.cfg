\* The real-time clock and the queues make so many steps and stop.
SPECIFICATION MCSpec
CONSTANTS
  MSec = 3
  Period = 8
  TickMod = 10
  UsMod = 16
  Ahead = 3
  Latency = 2
  Idle = FALSE
  MaxNow = 28
  FlowUsers = {"u1"}
  FlowKinds = {"data"}
  FlowOps = {"restart", "pause", "suspend", "resume", "reset", "remove", "shutdown", "halt"}
  Num = 2
  IdxMod = 4
  Bufs = {b1, b2}
  Need <- MCNeed
  MaxAdds = 4
  MaxResets = 1
  b1 = b1
  b2 = b2
  NoBuf = NoBuf
INVARIANTS ClockSafe RingSound DatesRight PackedSound PacketsSound FlowsSound TxSound AdaptersSound PortsSound
PROPERTIES ServiceSpec PackedServes
CHECK_DEADLOCK FALSE
