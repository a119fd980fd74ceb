CONSTANTS
  Addr = {a1, a2}
  Conn = {c1, c2, c3}
  NoAddr = NoAddr
  QUIC_QUOTA_LIMIT = 2
  MAX_ENTRIES = 2
  UpdateMayFail = FALSE
  RxCap = 2
  NConnOptions = {0}
  MigrationAllowed = TRUE
  CrashAllowed = FALSE
SPECIFICATION Spec
CHECK_DEADLOCK FALSE
INVARIANTS
  BlockedOnlyAtQuota
