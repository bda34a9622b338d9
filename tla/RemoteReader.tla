---------------------------- MODULE RemoteReader ----------------------------
(***************************************************************************)
(* get_edges_global and get_index_edges_local (src/unnamed/part_001,      *)
(* 569-579): reader threads of server Self look keys up.  A key Self owns *)
(* and an index key are read from Self's own table by get_edges_local    *)
(* (252-264) in one step.  Any other key goes to get_edges_remote         *)
(* (232-250) with get_vertex_remote (172-205) and the shared RDMA_Cache   *)
(* (43-81), on the owner's immutable table.  A remote call first          *)
(* asks the cache; on a miss it fetches the key's bucket with one RDMA    *)
(* read into its own buffer, scans the data slots, follows the chain slot *)
(* with another read, caches the record it found, and finally reads the   *)
(* ptr.size entries with a second RDMA read.  Every cache operation runs  *)
(* under the item's spinlock, so it is one step; an RDMA read of the      *)
(* immutable table is one step.                                           *)
(*                                                                         *)
(* The module implements EdgeLookup: RemoteSpec => Abs!Spec.              *)
(***************************************************************************)
EXTENDS Integers, Sequences

CONSTANTS
  Servers, Self, HashMod, Readers, Keys, Hash, ASSOCIATIVITY, NumBuckets, NumBucketsExt, Tables,
  Edges, MaxCalls,
  NUM_ITEMS,              \* RDMA_Cache::NUM_ITEMS
  global_enable_caching

NumSlots == (NumBuckets + NumBucketsExt) * ASSOCIATIVITY
EmptyKey == [vid |-> 0, dir |-> 0, pid |-> 0]
EmptyVertex == [key |-> EmptyKey, ptr |-> [off |-> 0, size |-> 0]]

VARIABLES
  table,    \* table[s]: the vertices[] of server s
  pc,       \* pc[t]: where reader t is
  kind,     \* kind[t]: "global" or "index", the function it called
  key,      \* key[t]: the ikey_t of its call
  bucket,   \* bucket[t]: bucket_id
  buf,      \* buf[t]: the bucket its last RDMA read fetched
  v,        \* v[t]: the vertex_t found (or vertex_t())
  res,      \* res[t]: the entries its last call returned
  calls,    \* calls[t]: calls made so far
  cache     \* rdma_cache.items[].v

vars == <<table, pc, kind, key, bucket, buf, v, res, calls, cache>>

Abs == INSTANCE EdgeLookup
         WITH busy <- [t \in Readers |-> pc[t] # "idle"], asked <- key,
              result <- res,
              at <- [t \in Readers |->
                       IF kind[t] = "index" THEN Self ELSE HashMod[key[t].vid]]

Slot(t) == cache[Hash[key[t]] % NUM_ITEMS]
Dst(t) == HashMod[key[t].vid]      \* dst_sid of get_vertex_remote
Set(f, t, x) == [f EXCEPT ![t] = x]

-----------------------------------------------------------------------------

\* get_edges_global with (vid, d, pid) = k: get_edges_local when Self owns
\* vid, else get_edges_remote.
Call(t, k) ==
  /\ pc[t] = "idle" /\ calls[t] < MaxCalls
  /\ key' = Set(key, t, k) /\ calls' = Set(calls, t, calls[t] + 1)
  /\ kind' = Set(kind, t, "global")
  /\ pc' = Set(pc, t, IF HashMod[k.vid] = Self THEN "local" ELSE "cache")
  /\ UNCHANGED <<table, bucket, buf, v, res, cache>>

\* Mutant of IndexCall: the index key is looked up by get_edges_global.
IndexCallGlobal(t, k) ==
  /\ pc[t] = "idle" /\ calls[t] < MaxCalls /\ k.vid = 0
  /\ key' = Set(key, t, k) /\ calls' = Set(calls, t, calls[t] + 1)
  /\ kind' = Set(kind, t, "index")
  /\ pc' = Set(pc, t, IF HashMod[k.vid] = Self THEN "local" ELSE "cache")
  /\ UNCHANGED <<table, bucket, buf, v, res, cache>>

\* get_index_edges_local(pid, d): get_edges_local of (0, d, pid) here.
IndexCall(t, k) ==
  /\ pc[t] = "idle" /\ calls[t] < MaxCalls /\ k.vid = 0
  /\ key' = Set(key, t, k) /\ calls' = Set(calls, t, calls[t] + 1)
  /\ kind' = Set(kind, t, "index")
  /\ pc' = Set(pc, t, "local")
  /\ UNCHANGED <<table, bucket, buf, v, res, cache>>

\* get_edges_local on Self's table: get_vertex_local's walk and the
\* ptr.size entries at ptr.off, in one step (nothing it reads changes).
LocalRead(t) ==
  /\ pc[t] = "local"
  /\ res' = Set(res, t, Abs!EdgesLocal(table, Self, key[t]))
  /\ pc' = Set(pc, t, "idle")
  /\ UNCHANGED <<table, kind, key, bucket, buf, v, calls, cache>>

\* Mutant of CacheHit: the item is taken without comparing its key.
CacheHitNoKeyCheck(t) ==
  /\ pc[t] = "cache" /\ global_enable_caching
  /\ Slot(t).key # EmptyKey
  /\ v' = Set(v, t, Slot(t)) /\ pc' = Set(pc, t, "edges")
  /\ UNCHANGED <<table, kind, key, bucket, buf, res, calls, cache>>

\* rdma_cache.lookup hits (lines 57-70, 177-178).
CacheHit(t) ==
  /\ pc[t] = "cache" /\ global_enable_caching
  /\ Slot(t).key = key[t]
  /\ v' = Set(v, t, Slot(t)) /\ pc' = Set(pc, t, "edges")
  /\ UNCHANGED <<table, kind, key, bucket, buf, res, calls, cache>>

\* It misses, or caching is off: the walk starts at the key's bucket.
CacheMiss(t) ==
  /\ pc[t] = "cache"
  /\ ~global_enable_caching \/ Slot(t).key # key[t]
  /\ bucket' = Set(bucket, t, Hash[key[t]] % NumBuckets)
  /\ pc' = Set(pc, t, "read")
  /\ UNCHANGED <<table, kind, key, buf, v, res, calls, cache>>

\* RdmaRead of the ASSOCIATIVITY slots at bucket_id (lines 182-185).
ReadBucket(t) ==
  /\ pc[t] = "read"
  /\ buf' = Set(buf, t, [i \in 0..(ASSOCIATIVITY - 1) |->
                           table[Dst(t)][bucket[t] * ASSOCIATIVITY + i]])
  /\ pc' = Set(pc, t, "scan")
  /\ UNCHANGED <<table, kind, key, bucket, v, res, calls, cache>>

Hits(t) == {i \in 0..(ASSOCIATIVITY - 2) : buf[t][i].key = key[t]}
Link(t) == buf[t][ASSOCIATIVITY - 1].key

\* A data slot holds the key (lines 187-192): the first one is the answer.
ScanFound(t) ==
  /\ pc[t] = "scan" /\ Hits(t) # {}
  /\ v' = Set(v, t, buf[t][CHOOSE i \in Hits(t) : \A j \in Hits(t) : i <= j])
  /\ pc' = Set(pc, t, "insert")
  /\ UNCHANGED <<table, kind, key, bucket, buf, res, calls, cache>>

\* Mutant of ScanNext: the link is taken as an indirect-header index.
ScanNextExtIndex(t) ==
  /\ pc[t] = "scan" /\ Hits(t) = {} /\ Link(t) # EmptyKey
  /\ bucket' = Set(bucket, t, NumBuckets + Link(t).vid)
  /\ pc' = Set(pc, t, "read")
  /\ UNCHANGED <<table, kind, key, buf, v, res, calls, cache>>

\* The chain slot is set: its vid is the next bucket (lines 194-198).
ScanNext(t) ==
  /\ pc[t] = "scan" /\ Hits(t) = {} /\ Link(t) # EmptyKey
  /\ bucket' = Set(bucket, t, Link(t).vid)
  /\ pc' = Set(pc, t, "read")
  /\ UNCHANGED <<table, kind, key, buf, v, res, calls, cache>>

\* Mutant of ScanEnd: the miss is cached as a record with a null ptr.
ScanEndCached(t) ==
  /\ pc[t] = "scan" /\ Hits(t) = {} /\ Link(t) = EmptyKey
  /\ v' = Set(v, t, [EmptyVertex EXCEPT !.key = key[t]])
  /\ pc' = Set(pc, t, "insert")
  /\ UNCHANGED <<table, kind, key, bucket, buf, res, calls, cache>>

\* The chain ends: vertex_t() is returned, and not cached (lines 199-200).
ScanEnd(t) ==
  /\ pc[t] = "scan" /\ Hits(t) = {} /\ Link(t) = EmptyKey
  /\ v' = Set(v, t, EmptyVertex)
  /\ pc' = Set(pc, t, "edges")
  /\ UNCHANGED <<table, kind, key, bucket, buf, res, calls, cache>>

\* rdma_cache.insert overwrites the item of the record's key (72-80, 190).
CacheInsert(t) ==
  /\ pc[t] = "insert"
  /\ cache' = IF global_enable_caching
                THEN [cache EXCEPT ![Hash[v[t].key] % NUM_ITEMS] = v[t]]
                ELSE cache
  /\ pc' = Set(pc, t, "edges")
  /\ UNCHANGED <<table, kind, key, bucket, buf, v, res, calls>>

\* Mutant of ReadEdges: the read length is one entry short.
ReadEdgesOneShort(t) ==
  /\ pc[t] = "edges"
  /\ res' = Set(res, t, IF v[t].key = EmptyKey THEN <<>>
                        ELSE SubSeq(Edges[Dst(t)], v[t].ptr.off + 1,
                                    v[t].ptr.off + v[t].ptr.size - 1))
  /\ pc' = Set(pc, t, "idle")
  /\ UNCHANGED <<table, kind, key, bucket, buf, v, calls, cache>>

\* Not found: size 0 (lines 237-240); else the RdmaRead of the ptr.size
\* entries at ptr.off of the entry region (lines 242-249).
ReadEdges(t) ==
  /\ pc[t] = "edges"
  /\ res' = Set(res, t, IF v[t].key = EmptyKey THEN <<>>
                        ELSE SubSeq(Edges[Dst(t)], v[t].ptr.off + 1,
                                    v[t].ptr.off + v[t].ptr.size))
  /\ pc' = Set(pc, t, "idle")
  /\ UNCHANGED <<table, kind, key, bucket, buf, v, calls, cache>>

Step(t) ==
  \/ CacheHit(t) \/ CacheMiss(t) \/ ReadBucket(t) \/ ScanFound(t)
  \/ ScanNext(t) \/ ScanEnd(t) \/ CacheInsert(t) \/ ReadEdges(t)
  \/ LocalRead(t)

-----------------------------------------------------------------------------

\* Every item starts as a default vertex_t.
Init ==
  /\ table \in Tables
  /\ pc = [t \in Readers |-> "idle"]
  /\ kind = [t \in Readers |-> "global"]
  /\ key = [t \in Readers |-> EmptyKey]
  /\ bucket = [t \in Readers |-> 0]
  /\ buf = [t \in Readers |-> [i \in 0..(ASSOCIATIVITY - 1) |-> EmptyVertex]]
  /\ v = [t \in Readers |-> EmptyVertex]
  /\ res = [t \in Readers |-> <<>>]
  /\ calls = [t \in Readers |-> 0]
  /\ cache = [i \in 0..(NUM_ITEMS - 1) |-> EmptyVertex]

\* Every reader has made its last call.
Done ==
  /\ \A t \in Readers : pc[t] = "idle" /\ calls[t] = MaxCalls
  /\ UNCHANGED vars

Next ==
  \/ \E t \in Readers :
       Step(t) \/ \E k \in Keys : Call(t, k) \/ IndexCall(t, k)
  \/ Done

\* Reader threads are OS threads; one inside a call keeps stepping.
Spec == Init /\ [][Next]_vars /\ \A t \in Readers : WF_vars(Step(t))

-----------------------------------------------------------------------------
(* Properties                                                              *)

Records == [key : Keys \cup {EmptyKey}, ptr : [off : Nat, size : Nat]]

TypeOK ==
  /\ pc \in [Readers -> {"idle", "local", "cache", "read", "scan",
                          "insert", "edges"}]
  /\ kind \in [Readers -> {"global", "index"}]
  /\ bucket \in [Readers -> 0..(NumBuckets + NumBucketsExt - 1)]
  /\ calls \in [Readers -> 0..MaxCalls]
  /\ key \in [Readers -> Keys \cup {EmptyKey}]

\* A record in RDMA_Cache is the owner's current record of its key: what
\* a later hit returns is what a walk of the remote table would find, even
\* though items are shared by colliding keys and overwritten by readers in
\* any order.
CacheCoherent ==
  \A i \in DOMAIN cache :
    cache[i].key # EmptyKey => cache[i] = Abs!VertexLocal(table[HashMod[cache[i].key.vid]], cache[i].key)

\* get_edges_remote implements the lookup contract: every call, served
\* from the cache or by walking the remote chain over RDMA reads, returns
\* exactly what get_edges_local returns on the owner, and returns.
RemoteImplementsLocal == Abs!Spec

=============================================================================
