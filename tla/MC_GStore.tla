------------------------------ MODULE MC_GStore ------------------------------
(***************************************************************************)
(* Instances of GStore for TLC.  Three slots per bucket (two data slots   *)
(* and the chain slot), two main and two indirect buckets: NumSlots = 12, *)
(* so a vid v >= 4 sends a chain walk past the slot array (v * 3 >= 12),  *)
(* as production vids (>= 2^17) do when num_slots is small, while vid 1   *)
(* sends it back into bucket 1, as happens when num_slots is large.       *)
(***************************************************************************)
EXTENDS GStore, TLC, SequencesExt

\* Keys: [vid, dir (IN = 0, OUT = 1), pid].
K1 == [vid |-> 5, dir |-> 1, pid |-> 2]
K2 == [vid |-> 6, dir |-> 1, pid |-> 2]
K3 == [vid |-> 7, dir |-> 1, pid |-> 2]
K4 == [vid |-> 5, dir |-> 0, pid |-> 2]
K5 == [vid |-> 1, dir |-> 1, pid |-> 3]
K6 == [vid |-> 6, dir |-> 0, pid |-> 2]

\* Index keys (0, d, pid), as insert_index_map inserts them: all have vid 0.
I1 == [vid |-> 0, dir |-> 0, pid |-> 2]
I2 == [vid |-> 0, dir |-> 0, pid |-> 3]
I3 == [vid |-> 0, dir |-> 1, pid |-> 2]
I4 == [vid |-> 0, dir |-> 1, pid |-> 3]

\* insert_normal over each loader's input (without VERSATILE): the calls
\* it makes into the store.
LD == INSTANCE Loader WITH TPID_MAX <- 5, VERSATILE <- FALSE, Triples <- {},
                           MaxTriples <- 0, spo <- <<>>, ops <- <<>>

T(s, p, o) == [s |-> s, p |-> p, o |-> o]

\* Loader t1 has the run (5, 3, {6, 7}) in spo and (6, 3, 8) in ops; t2
\* has (7, 3, 5) in spo.  Their three keys all hash to bucket 0, so the
\* third insert overflows it while the other loader is copying.
LoadInputs ==
  [t \in {"t1", "t2"} |->
     IF t = "t1" THEN [spo |-> <<T(5, 3, 6), T(5, 3, 7)>>, ops |-> <<T(8, 3, 6)>>]
                 ELSE [spo |-> <<T(7, 3, 5)>>, ops |-> <<>>]]

\* Loader t1 has three keys of bucket 0 and overflows it by itself; t2's
\* one key (9, OUT, 2) is in bucket 1, whose first slot is where t1 links.
RaceInputs ==
  [t \in {"t1", "t2"} |->
     IF t = "t1" THEN [spo |-> <<T(5, 2, 6), T(5, 3, 6)>>, ops |-> <<T(8, 3, 6)>>]
                 ELSE [spo |-> <<T(9, 2, 5)>>, ops |-> <<>>]]

KeysOf(in) == {g.key : g \in ToSet(LD!InsertNormal(in.spo, in.ops).normal)}

LoadKeys == UNION {KeysOf(LoadInputs[t]) \cup KeysOf(RaceInputs[t]) : t \in {"t1", "t2"}}

MCKeys == {K1, K2, K3, K4, K5, K6, I1, I2, I3, I4} \cup LoadKeys

\* key.hash() of each key: K1..K3 collide in bucket 0; K4..K6 collide in
\* bucket 1, the bucket whose first slot insert_key reads as the chain
\* pointer of bucket 0.  The loaders' keys hash to bucket 0, except t2's
\* key of RaceInputs; of the index keys only I3 hashes to bucket 1.
MCHash == [k \in MCKeys |-> IF k \in {K4, K5, K6, I3} \cup KeysOf(RaceInputs["t2"])
                              THEN 3 ELSE 4]

Ins(k) == [op |-> "insert", key |-> k]
Alloc(n) == [op |-> "alloc", n |-> n]

Link(vals) == [op |-> "link", vals |-> vals]

\* The calls of insert_normal: the allocation, then per group the insert
\* of its key and the link of its values.
LoadProgram(in) ==
  LET r == LD!InsertNormal(in.spo, in.ops)
  IN  <<Alloc(r.allocs[1])>> \o
      FlattenSeq([i \in 1..Len(r.normal) |->
                    <<Ins(r.normal[i].key), Link(r.normal[i].vals)>>])

\* The insert calls for the keys of S, in every order.
InsertOrders(S) ==
  {[i \in 1..Len(p) |-> Ins(p[i])] :
     p \in {q \in SetToAllKPermutations(S) : Len(q) = Cardinality(S)}}

\* As insert_normal runs a loader: one entry allocation (of either size
\* for the second thread, so that the region fills up exactly), then the
\* keys of the thread in any order.  Each thread can overflow its bucket
\* on its own, so both can race for an indirect header.
MCProgramsConc ==
  [t \in {"t1", "t2"} |->
     IF t = "t1"
       THEN {<<Alloc(2)>> \o p : p \in InsertOrders({K1, K2, K3})}
       ELSE {<<Alloc(n)>> \o p : n \in {2, 3}, p \in InsertOrders({K4, K5, K6})}]

\* Two loaders running insert_normal on their inputs.
MCProgramsLoad == [t \in {"t1", "t2"} |-> {LoadProgram(LoadInputs[t])}]

\* Two loaders running insert_normal with keys in neighbouring buckets.
MCProgramsRace == [t \in {"t1", "t2"} |-> {LoadProgram(RaceInputs[t])}]

\* The same, except that the second loader may instead insert K4 and K3
\* (no allocation): the two inputs then share the key K3.
MCProgramsConcDup ==
  [t \in {"t1", "t2"} |->
     MCProgramsConc[t] \cup (IF t = "t2" THEN InsertOrders({K4, K3}) ELSE {})]

\* All three families: a thread may run any of its programs of each.
MCProgramsAll == [t \in {"t1", "t2"} |-> MCProgramsConcDup[t] \cup MCProgramsLoad[t]]

\* The first loader fills bucket 0 and overflows it with K3; the second
\* inserts K5, whose vid 1 names bucket 1, and then K3 again.
MCProgramsDupInTable ==
  [t \in {"t1", "t2"} |->
     IF t = "t1" THEN {<<Ins(K1), Ins(K2), Ins(K3)>>} ELSE {<<Ins(K5), Ins(K3)>>}]

\* insert_index_map(pidx_in_map, IN) then (pidx_out_map, OUT): I1 and I2
\* fill bucket 0, I3 takes the first slot of bucket 1, and I4 overflows
\* bucket 0.
MCProgramsIndexKeys == [t \in {"t1"} |-> {<<Ins(I1), Ins(I2), Ins(I3), Ins(I4)>>}]

\* One loader whose third key overflows bucket 0.
MCProgramsLookup == [t \in {"t1"} |-> {<<Ins(K1), Ins(K2), Ins(K3)>>}]
=============================================================================
