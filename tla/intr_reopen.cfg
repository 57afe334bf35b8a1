SPECIFICATION Spec
CONSTANTS
  Lines = {i1, i2}
  NoLine = NoLine
  MP = TRUE
  Silent = TRUE
  Closes = TRUE
INVARIANT EnableEnables
