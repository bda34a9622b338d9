CONSTANTS
  Servers <- MCServers
  Self = 1
  HashMod <- MCHashMod
  Readers = {t1, t2}
  Keys <- MCKeys
  Hash <- MCHash
  ASSOCIATIVITY = 3
  NumBuckets = 2
  NumBucketsExt = 1
  Tables <- MCTables
  Edges <- MCEdges
  MaxCalls = 2
  NUM_ITEMS = 2
  global_enable_caching = TRUE
SPECIFICATION Spec
INVARIANT TypeOK CacheCoherent
PROPERTY RemoteImplementsLocal
