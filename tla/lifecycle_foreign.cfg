CONSTANTS
  Proc = {p1, p2}
  ProgId = {i1, i2, i3}
  NoProg = NoProg
  Handler = {h1}
  SignalsEarly = TRUE
  AdminOptions = {FALSE}
SPECIFICATION Spec
CHECK_DEADLOCK FALSE
SYMMETRY Symmetry
INVARIANTS
  OthersProgramStays
