CONSTANTS
  a1 = a1
  a2 = a2
  a3 = a3
  Addr <- MCAddr
  LastOctet <- MCLastOctet
  Conn = {c1, c2, c3, c4}
  NoAddr = NoAddr
  RxCap = 2
  QUIC_QUOTA_LIMIT = 1
  MAX_ENTRIES = 3
  UpdateMayFail = FALSE
  QUOTA_LIMIT = 2
  COUNTER_INTERVAL = 2
  EbpfOptions = {FALSE}
  MaxConnOptions = {0}
  MigrationOptions = {FALSE}
  RequestCap = 1
SPECIFICATION Spec
CHECK_DEADLOCK FALSE
SYMMETRY Symmetry
INVARIANTS
  QuotaIsUpperBound
