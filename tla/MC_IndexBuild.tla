--------------------------- MODULE MC_IndexBuild ---------------------------
(* Subjects 5 and 6, objects 5 and 6, predicates 2 and 3, type 4 (ids    *)
(* below TPID_MAX = 5 are predicate/type ids), as in MC_Loader.          *)
EXTENDS IndexBuild, TLC

MCTriples ==
  {[s |-> s, p |-> po[1], o |-> po[2]] :
     s \in {5, 6}, po \in {<<2, 5>>, <<2, 6>>, <<3, 5>>, <<1, 4>>}}


\* Adds a subject typed with class 2, which is also a predicate.
MCTriplesShared == MCTriples \cup {[s |-> 5, p |-> 1, o |-> 2]}
=============================================================================
