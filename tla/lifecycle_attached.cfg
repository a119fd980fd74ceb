CONSTANTS
  Proc = {p1, p2, p3}
  ProgId = {i1, i2, i3, i4}
  NoProg = NoProg
  Handler = {h1}
  SignalsEarly = FALSE
  AdminOptions = {TRUE, FALSE}
SPECIFICATION Spec
CHECK_DEADLOCK FALSE
INVARIANTS
  TypeOK
  ProgramStays
  SignalUnloads
PROPERTIES
  ImplementsInterface
