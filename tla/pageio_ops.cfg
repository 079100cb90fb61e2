\* Record and node writes with failing disk writes and a device small enough to fill.
CONSTANTS
  NBLOCKS = 3
  ra = ra
  rb = rb
  n1 = n1
  Records <- MCRecords
  Nodes <- MCNodes
  PagesOf <- MCPagesOf
  NOBODY = NOBODY
SPECIFICATION Spec
PROPERTY WriteReadBack
