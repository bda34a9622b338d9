CONSTANTS
  Threads = {"t1"}
  NoThread = NoThread
  ASSOCIATIVITY = 3
  NumBuckets = 2
  NumBucketsExt = 2
  NumLocks = 2
  NumEntries = 4
  Keys <- MCKeys
  Hash <- MCHash
  LastExtInit = {0, 1}
  Programs <- MCProgramsLookup

SPECIFICATION Spec

INVARIANT LookupFindsInserted
