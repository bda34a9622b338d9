----------------------------- MODULE IndexBuild -----------------------------
(***************************************************************************)
(* GStore::insert_index (src/unnamed/part_001, 490-567) run on the store  *)
(* that insert_normal (module Loader) has filled.  The parallel scan over *)
(* every data slot of every bucket feeds three concurrent maps and, under *)
(* VERSATILE, two concurrent sets; each map entry and set then becomes an *)
(* index key (0, d, id) through insert_index_map / insert_index_set.      *)
(*                                                                         *)
(* The scan threads only append to TBB containers under an accessor, and  *)
(* the lists they build are unordered by specification (4.5), so the     *)
(* scan is the union of what each slot contributes: the order in which    *)
(* OpenMP threads visit the slots changes only the order within a list.   *)
(* A list is therefore the set of its elements.                           *)
(*                                                                         *)
(* The slots the scan meets are the key/value pairs insert_normal wrote   *)
(* and the links insert_key wrote for overflow buckets: because of the    *)
(* pre-increment at line 139 a link lands in a data slot, as a key with   *)
(* vid = header and every other field still 0 (dir IN, PREDICATE_ID).     *)
(***************************************************************************)
EXTENDS Integers, Sequences, FiniteSets, SequencesExt

CONSTANTS TPID_MAX, VERSATILE, Triples, MaxTriples,
          Headers,        \* the indirect-header ids a link can carry
          ASSOCIATIVITY   \* slots per bucket

VARIABLES spo, ops,  \* the loader's input (see Loader)
          links      \* headers of the links insert_key left in data slots

L == INSTANCE Loader

vars == <<spo, ops, links>>

IndexKey(d, id) == [vid |-> 0, dir |-> d, pid |-> id]

\* A link's ptr is never written; init clears keys only, so over zeroed
\* memory the ptr is (0, 0): an empty list.
Link(h) == [key |-> [vid |-> h, dir |-> L!DIR_IN, pid |-> L!PREDICATE_ID],
            vals |-> <<>>]

\* Every non-empty data slot after insert_normal.
Slots ==
  LET r == L!InsertNormal(spo, ops)
  IN  {[key |-> g.key, vals |-> g.vals] : g \in ToSet(r.normal \o r.predicates)}
      \cup {Link(h) : h \in links}

None == [pin |-> {}, pout |-> {}, tidx |-> {}, vset |-> {}, pset |-> {}, abort |-> FALSE]

\* Mutant of Contribution: the predicate index is filed the way spec 8.6
\* states it (subjects under OUT).
ContributionSpecDirections(s) ==
  LET k == s.key IN
  CASE k.pid = L!PREDICATE_ID ->
         IF VERSATILE THEN [None EXCEPT !.vset = {k.vid}, !.pset = ToSet(s.vals)] ELSE None
    [] k.dir = L!DIR_IN /\ k.pid = L!TYPE_ID -> [None EXCEPT !.abort = TRUE]
    [] k.dir = L!DIR_IN -> [None EXCEPT !.pin = {<<k.pid, k.vid>>}]
    [] k.pid = L!TYPE_ID -> [None EXCEPT !.tidx = {<<t, k.vid>> : t \in ToSet(s.vals)}]
    [] OTHER -> [None EXCEPT !.pout = {<<k.pid, k.vid>>}]

\* What one slot adds (lines 499-541): a (vid, *, PREDICATE_ID) list adds
\* the vid to v_set and its predicates to p_set (VERSATILE only); an
\* (IN, TYPE_ID) key fails the assert; (v, IN, p) appends v to
\* pidx_out_map[p]; (v, OUT, TYPE_ID) appends v to tidx_map[t] for each of
\* its types t; (v, OUT, p) appends v to pidx_in_map[p].
Contribution(s) ==
  LET k == s.key IN
  CASE k.pid = L!PREDICATE_ID ->
         IF VERSATILE THEN [None EXCEPT !.vset = {k.vid}, !.pset = ToSet(s.vals)] ELSE None
    [] k.dir = L!DIR_IN /\ k.pid = L!TYPE_ID -> [None EXCEPT !.abort = TRUE]
    [] k.dir = L!DIR_IN -> [None EXCEPT !.pout = {<<k.pid, k.vid>>}]
    [] k.pid = L!TYPE_ID -> [None EXCEPT !.tidx = {<<t, k.vid>> : t \in ToSet(s.vals)}]
    [] OTHER -> [None EXCEPT !.pin = {<<k.pid, k.vid>>}]

\* The parallel scan (lines 494-543): the maps and sets it leaves.
Scan ==
  [f \in {"pin", "pout", "tidx", "vset", "pset"} |->
     UNION {Contribution(s)[f] : s \in Slots}]

Aborts == \E s \in Slots : Contribution(s).abort

\* insert_index_map (274-288): one key (0, d, id) per map entry, holding
\* the vids appended to it.
IndexMap(m, d) ==
  {[key |-> IndexKey(d, id), vals |-> {p[2] : p \in {q \in m : q[1] = id}}] :
     id \in {q[1] : q \in m}}

\* insert_index_set (294-306): one key (0, d, TYPE_ID) holding the whole
\* set, inserted even when the set is empty.
IndexSet(set, d) == {[key |-> IndexKey(d, L!TYPE_ID), vals |-> set]}

\* Mutant of IndexBatches: p_set is inserted under IN, like v_set.
IndexBatchesSetsOneDir ==
  LET ix == Scan IN
  <<IndexMap(ix.tidx, L!DIR_IN), IndexMap(ix.pin, L!DIR_IN),
    IndexMap(ix.pout, L!DIR_OUT)>>
    \o (IF VERSATILE THEN <<IndexSet(ix.vset, L!DIR_IN), IndexSet(ix.pset, L!DIR_IN)>>
                     ELSE <<>>)

\* Lines 549-563: what each call of insert_index_map and insert_index_set
\* adds, in the order of the calls.
IndexBatches ==
  LET ix == Scan IN
  <<IndexMap(ix.tidx, L!DIR_IN), IndexMap(ix.pin, L!DIR_IN),
    IndexMap(ix.pout, L!DIR_OUT)>>
    \o (IF VERSATILE THEN <<IndexSet(ix.vset, L!DIR_IN), IndexSet(ix.pset, L!DIR_OUT)>>
                     ELSE <<>>)

\* The keys insert_index adds, with their lists.
IndexPairs == UNION ToSet(IndexBatches)

\* Two calls hand insert_key the same index key (keys within one map are
\* distinct).  The second insert_key walks the chain past the first one's
\* slot, and its duplicate check (lines 123-129) fails the assert.
DuplicateIndexKey ==
  LET B == IndexBatches
      Keys(i) == {ip.key : ip \in B[i]}
  IN  \E i, j \in 1..Len(B) : i < j /\ Keys(i) \cap Keys(j) # {}

\* A link is only written when a bucket overflows, which takes
\* ASSOCIATIVITY keys per link (its data slots and the one that overflows).
Init ==
  /\ spo \in L!Inputs(L!LessSPO)
  /\ ops \in L!Inputs(L!LessOPS)
  /\ links \in {H \in SUBSET Headers :
                 LET r == L!InsertNormal(spo, ops)
                 IN  Len(r.normal) + Len(r.predicates) >= ASSOCIATIVITY * Cardinality(H)}

Next == UNCHANGED vars

Spec == Init /\ [][Next]_vars

-----------------------------------------------------------------------------
(* Reference: the index built directly from the triples.                   *)

RefIndexPairs ==
  LET objs  == {t \in ToSet(ops) : ~L!is_tpid(t.o)}
      plain == {t \in ToSet(spo) : t.p # L!TYPE_ID}
  IN  IndexMap({<<t.o, t.s>> : t \in ToSet(spo) \ plain}, L!DIR_IN)
      \cup IndexMap({<<t.p, t.s>> : t \in plain}, L!DIR_IN)
      \cup IndexMap({<<t.p, t.o>> : t \in objs}, L!DIR_OUT)
      \cup (IF VERSATILE
              THEN {[key |-> IndexKey(L!DIR_IN, L!TYPE_ID),
                     vals |-> {t.s : t \in ToSet(spo)} \cup {t.o : t \in objs}],
                    [key |-> IndexKey(L!DIR_OUT, L!TYPE_ID),
                     vals |-> {t.p : t \in ToSet(spo) \cup objs}]}
              ELSE {})

\* The ids filed twice under (0, IN, id): a class of an rdf:type triple
\* that is also the predicate of another triple, and under VERSATILE the
\* class TYPE_ID itself, whose key v_set's key also is.
SharedIds ==
  LET classes == {t.o : t \in {u \in ToSet(spo) : u.p = L!TYPE_ID}}
      preds   == {t.p : t \in {u \in ToSet(spo) : u.p # L!TYPE_ID}}
  IN  (classes \cap preds) \cup (IF VERSATILE THEN classes \cap {L!TYPE_ID} ELSE {})

-----------------------------------------------------------------------------
(* Properties                                                              *)

\* Loader and index phase together: the index keys insert_index adds are
\* exactly the type index of the rdf:type triples, the predicate index of
\* the other triples on both sides (subjects under (0, IN, p), objects
\* under (0, OUT, p), the orientation of lines 517-540) and, under
\* VERSATILE, the set of all vertices and of all predicates; and the scan
\* does not abort.
IndexMatchesTriples ==
  ~Aborts /\ (~DuplicateIndexKey => IndexPairs = RefIndexPairs)

\* Spec 8.6: after insert_index, every normal key (v, OUT, p) has an index
\* key (0, OUT, p) whose list holds v, symmetrically for IN, and every
\* type t of (v, OUT, TYPE_ID) an index key (0, IN, t) holding v.
SpecIndexInvariant ==
  \A s \in Slots :
    LET k == s.key
        Holds(ik, x) == \E ip \in IndexPairs : ip.key = ik /\ x \in ip.vals
    IN  /\ k.pid \notin {L!PREDICATE_ID, L!TYPE_ID} => Holds(IndexKey(k.dir, k.pid), k.vid)
        /\ k.dir = L!DIR_OUT /\ k.pid = L!TYPE_ID =>
             \A t \in ToSet(s.vals) : Holds(IndexKey(L!DIR_IN, t), k.vid)

\* The build's first phase, over the same inputs: insert_normal's keys are
\* exactly the (s,p) and (o,p) runs with their neighbours, no key twice
\* (Loader's GroupsMatchInput); its copies tile the ranges it allocated
\* (EntriesTileAllocation); under VERSATILE each vertex gets one list of
\* its distinct predicates per direction (PredicateListsCorrect).
GroupsMatchInput == L!GroupsMatchInput
EntriesTileAllocation == L!EntriesTileAllocation
PredicateListsCorrect == L!PredicateListsCorrect

\* insert_index hands insert_key the same index key twice, which fails its
\* duplicate assert and ends the load, exactly when the input uses one id
\* both as a class and as a predicate (SharedIds): type ids and predicate
\* ids come from one id space, and both index kinds are (0, IN, id).
IndexAbortsOnSharedIds == ~Aborts => (DuplicateIndexKey <=> SharedIds # {})

=============================================================================
