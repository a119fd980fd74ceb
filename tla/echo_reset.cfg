CONSTANTS
  Stream = {s1, s2}
  Letter = {x}
  NL = NL
  BufSize = 2
  MaxInput = 3
  ShortWriteOptions = {FALSE}
  ResetsAllowed = TRUE
SPECIFICATION Spec
CHECK_DEADLOCK FALSE
SYMMETRY Symmetry
INVARIANTS
  EchoedWasReceived
