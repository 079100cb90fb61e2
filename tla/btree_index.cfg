\* The index as database.rs drives it: fresh inserts, guarded deletes.
CONSTANTS
  ORDER = 4
  Keys <- MCKeys6
  v1 = v1
  v2 = v2
  Vals <- MCVals
  RecordOf <- MCRecordOf
  NULL = NULL
SPECIFICATION IndexSpec
INVARIANTS
  TypeOK
  KeysStrictlyAscending
  SearchAgreesWithScan
PROPERTY
  RefinesKVMap
