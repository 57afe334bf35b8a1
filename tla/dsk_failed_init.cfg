SPECIFICATION Spec
CONSTANTS
  Users = {u1, u2}
  Managers = {m1}
  NoThread = NoThread
  Disks = {d1, d2, d3}
  NULL = NULL
  Batches = 2
  InitFails = TRUE
  ManagerWaits = TRUE
  SleepLong = FALSE
SYMMETRY MCSymmetry
INVARIANT ListedIsValid
