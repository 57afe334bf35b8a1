SPECIFICATION Spec
CONSTANTS
  MSec = 3
  Period = 8
  TickMod = 10
  UsMod = 16
  Ahead = 3
  Latency = 2
  Idle = TRUE
  MaxNow = 28
INVARIANT TickCountIsUptime
