----------------------------- MODULE EdgeLookup -----------------------------
(***************************************************************************)
(* What an edge lookup promises (spec 4.6 and 7): get_edges_global, on    *)
(* whichever server it runs, returns the adjacency list that              *)
(* get_edges_local returns on the key's owner, as one atomic step;        *)
(* get_index_edges_local returns what get_edges_local returns on the     *)
(* calling server.  get_vertex_local and get_edges_local                 *)
(* (src/unnamed/part_001, 207-230, 252-264) are operators over a         *)
(* server's slot array and entry region.  The tables are immutable once  *)
(* built, so they are a variable chosen in Init and never changed.       *)
(***************************************************************************)
EXTENDS Integers, Sequences

CONSTANTS
  Servers,        \* the servers of the cluster
  Self,           \* the server the readers run on (sid)
  HashMod,        \* HashMod[vid]: mymath::hash_mod(vid, global_num_servers)
  Readers,        \* reader threads (tid)
  Keys,           \* the keys readers ask for
  Hash,           \* Hash[k]: ikey_t::hash()
  ASSOCIATIVITY,
  NumBuckets,     \* main buckets
  NumBucketsExt,  \* indirect buckets
  Tables,         \* the slot arrays the servers can have built: functions
                  \* from Servers to slot arrays
  Edges,          \* Edges[s]: the entry region of server s
  MaxCalls        \* bound on the calls of each reader

NumSlots == (NumBuckets + NumBucketsExt) * ASSOCIATIVITY
EmptyKey == [vid |-> 0, dir |-> 0, pid |-> 0]
\* vertex_t(): the empty key and a null ptr.
EmptyVertex == [key |-> EmptyKey, ptr |-> [off |-> 0, size |-> 0]]

VARIABLES
  table,    \* table[s]: the vertices[] of server s
  busy,     \* busy[t]: reader t is inside a call
  asked,    \* asked[t]: the key of its current or last call
  at,       \* at[t]: the server whose table answers that call
  result,   \* result[t]: what its last call returned
  calls     \* calls[t]: calls made so far

vars == <<table, busy, asked, at, result, calls>>

\* get_vertex_local from bucket b: the first data slot holding k, else the
\* bucket named by the chain slot, else the empty vertex.  hops only
\* bounds the walk: a walk longer than the number of buckets has a cycle.
RECURSIVE VertexFrom(_, _, _, _)
VertexFrom(tbl, k, b, hops) ==
  LET base  == b * ASSOCIATIVITY
      hits  == {i \in 0..(ASSOCIATIVITY - 2) : tbl[base + i].key = k}
      chain == tbl[base + ASSOCIATIVITY - 1].key
  IN  CASE hits # {}                  -> tbl[base + CHOOSE i \in hits : \A j \in hits : i <= j]
        [] chain = EmptyKey           -> EmptyVertex
        [] hops >= NumBuckets + NumBucketsExt -> EmptyVertex
        [] OTHER                      -> VertexFrom(tbl, k, chain.vid, hops + 1)

VertexLocal(tbl, k) == VertexFrom(tbl, k, Hash[k] % NumBuckets, 0)

\* get_edges_local on server s: the ptr.size entries at ptr.off, or nothing.
EdgesLocal(tbl, s, k) ==
  LET v == VertexLocal(tbl[s], k)
  IN  IF v.key = EmptyKey THEN <<>>
      ELSE SubSeq(Edges[s], v.ptr.off + 1, v.ptr.off + v.ptr.size)

Init ==
  /\ table \in Tables
  /\ busy = [t \in Readers |-> FALSE]
  /\ asked = [t \in Readers |-> EmptyKey]
  /\ at \in [Readers -> Servers]     \* read only once a call sets it
  /\ result = [t \in Readers |-> <<>>]
  /\ calls = [t \in Readers |-> 0]

\* A call on key k answered from server s.
Ask(t, k, s) ==
  /\ ~busy[t] /\ calls[t] < MaxCalls
  /\ busy' = [busy EXCEPT ![t] = TRUE]
  /\ asked' = [asked EXCEPT ![t] = k]
  /\ at' = [at EXCEPT ![t] = s]
  /\ calls' = [calls EXCEPT ![t] = @ + 1]
  /\ UNCHANGED <<table, result>>

\* get_edges_global: the key's owner answers.
Call(t, k) == Ask(t, k, HashMod[k.vid])

\* get_index_edges_local: an index key (vid 0), answered here.
CallIndex(t, k) == k.vid = 0 /\ Ask(t, k, Self)

Return(t) ==
  /\ busy[t]
  /\ result' = [result EXCEPT ![t] = EdgesLocal(table, at[t], asked[t])]
  /\ busy' = [busy EXCEPT ![t] = FALSE]
  /\ UNCHANGED <<table, asked, at, calls>>

Next ==
  \E t \in Readers :
    \/ Return(t)
    \/ \E k \in Keys : Call(t, k) \/ CallIndex(t, k)

\* Every call returns.
Spec == Init /\ [][Next]_vars /\ \A t \in Readers : WF_vars(Return(t))

=============================================================================
