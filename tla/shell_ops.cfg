\* Friendly lines through translate and query_execute, beside the engine's
\* own statements, boot, new tables and tampering.
CONSTANTS
  MAX_TABLES = 2
  SYS_TABLES = 1
  BOOT_RECORDS = 1
  MaxRowId = 3
  MAX_WHERE_CONDS = 4
  MAX_INSERT_VALS = 16
  big = big
  k0 = k0
  k1 = k1
  Data <- MCData
  Oversized <- MCOversized
  BootData <- A
  MasterKeys <- MCMasterKeys
  Conds <- MCConds
  TableName <- MCTableName
  ContentCol <- MCContentCol
  Columns <- MCColumns
  Lines <- MCLines
  ZERO_KEY = k0
  NONE = NONE
  NULL = NULL
  CLEAN = CLEAN
  NOQUERY = NOQUERY
  NOTSQL = NOTSQL
  NOLINE = NOLINE
  UNSET = UNSET
SPECIFICATION ShellSpec
PROPERTIES
  DeleteRemovesMatches
  UpdateRewritesMatches
  ShellVerbEffect
  AddStoresTyped
  FindShowsWhatDelRemoves
