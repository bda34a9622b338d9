CONSTANTS
  Threads = {"t1", "t2"}
  NoThread = NoThread
  ASSOCIATIVITY = 3
  NumBuckets = 2
  NumBucketsExt = 2
  NumLocks = 2
  NumEntries = 5
  Keys <- MCKeys
  Hash <- MCHash
  LastExtInit = {0, 1}
  Programs <- MCProgramsAll

SPECIFICATION Spec

INVARIANT TypeOK
INVARIANT ExtGrantsDistinct
INVARIANT EntryGrantsDisjoint
INVARIANT LoadedAsInput
