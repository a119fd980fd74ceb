CONSTANTS
  a1 = a1
  a2 = a2
  a3 = a3
  Addr <- MCAddr
  LastOctet <- MCLastOctet
  Conn = {c1, c2, c3}
  NoAddr = NoAddr
  RxCap = 2
  QUIC_QUOTA_LIMIT = 1
  MAX_ENTRIES = 3
  UpdateMayFail = FALSE
  QUOTA_LIMIT = 2
  COUNTER_INTERVAL = 2
  EbpfOptions = {TRUE, FALSE}
  MaxConnOptions = {0, 2}
  MigrationOptions = {TRUE, FALSE}
  RequestCap = 2
SPECIFICATION FairSpec
CHECK_DEADLOCK FALSE
INVARIANTS
  TypeOK
  CurrentConnsExact
  QuotaNeverOvercharges
  QuotaCapped
  EbpfCountersExact
  StopsOnce
  ServesMaxConn
PROPERTIES
  RefusedOnlyAtLimit
  OnlyRefusalsLoosen
  ResetsWhatWasPrinted
  CooldownEnds
