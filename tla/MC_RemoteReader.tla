-------------------------- MODULE MC_RemoteReader --------------------------
(* Two reader threads of server 1 of two, with hash_mod(vid, 2) = vid % 2. *)
(* They look up five keys in server 0's table of three buckets of three  *)
(* slots (two data slots and the chain slot), with a cache of two items, *)
(* so the keys of bucket 0 share one item; a key of their own server;    *)
(* and an index key, whose vid 0 server 0 owns.                          *)
EXTENDS RemoteReader, TLC

K1 == [vid |-> 6, dir |-> 1, pid |-> 2]
K2 == [vid |-> 8, dir |-> 1, pid |-> 2]
K3 == [vid |-> 10, dir |-> 1, pid |-> 2]
K4 == [vid |-> 6, dir |-> 0, pid |-> 2]
K5 == [vid |-> 12, dir |-> 1, pid |-> 2]  \* never inserted
K6 == [vid |-> 5, dir |-> 1, pid |-> 2]   \* owned by server 1
KI == [vid |-> 0, dir |-> 0, pid |-> 2]   \* the index key (0, IN, 2)

MCKeys == {K1, K2, K3, K4, K5, K6, KI}
\* K1, K2, K3, K5 and KI hash to bucket 0 and cache item 0; K4, K6 to
\* bucket 1.
MCHash == K1 :> 4 @@ K2 :> 4 @@ K3 :> 4 @@ K4 :> 3 @@ K5 :> 2 @@ K6 :> 3
          @@ KI :> 2
MCServers == {0, 1}
MCHashMod == [vid \in 0..12 |-> vid % 2]

R(k, off, size) == [key |-> k, ptr |-> [off |-> off, size |-> size]]
E == EmptyVertex
\* The link insert_key writes for overflow bucket 2: only the vid is set.
L == R([vid |-> 2, dir |-> 0, pid |-> 0], 0, 0)

\* Inserting K1, K2, K3, K4 in this order.  As insert_key builds it, the
\* link lands in slot 3 (finding 1) and K4 moves to slot 4; with the link
\* written at the chain slot 2, K3 is reachable from bucket 0.
MCTableBuilt == <<R(K1, 0, 1), R(K2, 1, 2), E, L, R(K4, 4, 1), E, R(K3, 3, 1), E, E>>
MCTableLinked == <<R(K1, 0, 1), R(K2, 1, 2), L, R(K4, 4, 1), E, E, R(K3, 3, 1), E, E>>
\* The sequences above are 1-based; vertices[] is indexed from 0.
Zero(s) == [i \in 0..(Len(s) - 1) |-> s[i + 1]]
\* Server 1's own table: its part of the index of predicate 2 and K6.
MCTableLocal == <<R(KI, 0, 2), E, E, R(K6, 2, 1), E, E, E, E, E>>
MCTables == {[s \in MCServers |-> IF s = 0 THEN Zero(t) ELSE Zero(MCTableLocal)]
               : t \in {MCTableBuilt, MCTableLinked}}
MCEdges == [s \in MCServers |-> IF s = 0 THEN <<10, 11, 12, 13, 14>>
                                         ELSE <<20, 21, 22>>]
=============================================================================
