\* Boot, record operations and hostile copies of record pages within a table.
CONSTANTS
  MAX_TABLES = 2
  SYS_TABLES = 1
  BOOT_RECORDS = 1
  MaxRowId = 3
  d1 = d1
  d2 = d2
  big = big
  k0 = k0
  k1 = k1
  Data <- MCData
  Oversized <- MCOversized
  BootData <- d1
  MasterKeys <- MCMasterKeys
  ZERO_KEY = k0
  NONE = NONE
  NULL = NULL
  CLEAN = CLEAN
SPECIFICATION EngineSpec
INVARIANT
  RowMatchesKey
