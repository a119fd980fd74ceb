CONSTANTS
  Stream = {s1, s2}
  Letter = {x}
  NL = NL
  BufSize = 2
  MaxInput = 3
  ShortWriteOptions = {TRUE, FALSE}
  ResetsAllowed = TRUE
SPECIFICATION FairSpec
CHECK_DEADLOCK FALSE
INVARIANTS
  TypeOK
  EchoFaithful
  EchoInOrder
  EchoesWholeLines
PROPERTIES
  OnlyOverlongShuts
  ImplementsEcho
  LineComesBack
