\* Sequential row ids, as GLOBAL_ROW_ID hands them out to one table.
CONSTANTS
  ORDER = 4
  Keys <- MCKeys8
  v1 = v1
  v2 = v2
  Vals <- MCVals
  RecordOf <- MCRecordOf
  NULL = NULL
SPECIFICATION AppendSpec
SYMMETRY MCSymmetry
CHECK_DEADLOCK FALSE
INVARIANT
  NoPanic
