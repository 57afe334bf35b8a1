SPECIFICATION Spec
CONSTANTS
  Num = 4
  IdxMod = 8
  MaxEvents = 9
INVARIANT HandledOnce
