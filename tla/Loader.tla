------------------------------- MODULE Loader -------------------------------
(***************************************************************************)
(* GStore::insert_normal (src/unnamed/part_001, 365-488): what one loader *)
(* thread allocates in the entry region and which key/value pairs it      *)
(* writes, computed from its sorted inputs spo and ops.  The loops of the *)
(* code are recursive operators over sequences (positions are 1-based     *)
(* here, 0-based in the code).  A key/value pair is a record              *)
(* [key, size, off, vals]: the key handed to insert_key, the iptr_t       *)
(* (size, off) stored in its slot, relative to the allocation it belongs  *)
(* to, and the values copied to edges[off .. off+size-1].                 *)
(*                                                                         *)
(* The module's state is just the input of one call, chosen in Init; the *)
(* properties compare the result with a reference built from the input   *)
(* triples directly.                                                      *)
(***************************************************************************)
EXTENDS Integers, Sequences, FiniteSets, SequencesExt

CONSTANTS
  TPID_MAX,    \* ids below it are predicate/type ids, ids above are vids
  VERSATILE,   \* whether the VERSATILE build flag is on
  Triples      \* the triples a loader may receive: [s, p, o] records

DIR_IN == 0    \* IN of dir_t
DIR_OUT == 1   \* OUT of dir_t
PREDICATE_ID == 0
TYPE_ID == 1

ASSUME
  /\ TPID_MAX \in Nat /\ VERSATILE \in BOOLEAN
  /\ Triples \subseteq [s : Nat, p : Nat, o : Nat]

is_tpid(x) == x < TPID_MAX

\* The orders the triple loader sorts the two vectors by.
LessSPO(a, b) ==
  \/ a.s < b.s
  \/ a.s = b.s /\ a.p < b.p
  \/ a.s = b.s /\ a.p = b.p /\ a.o < b.o

LessOPS(a, b) ==
  \/ a.o < b.o
  \/ a.o = b.o /\ a.p < b.p
  \/ a.o = b.o /\ a.p = b.p /\ a.s < b.s

\* The vertex a triple is keyed on in direction d, and the neighbour
\* stored in its adjacency list.
Vertex(t, d) == IF d = DIR_OUT THEN t.s ELSE t.o
Neighbour(t, d) == IF d = DIR_OUT THEN t.o ELSE t.s

-----------------------------------------------------------------------------

\* The number of leading triples of ops whose object is a type id (lines
\* 367-369); i is the next position to test.
RECURSIVE TypePrefix(_, _)
TypePrefix(ops, i) ==
  IF i <= Len(ops) /\ is_tpid(ops[i].o) THEN TypePrefix(ops, i + 1) ELSE i - 1

\* Mutant of RunEnd: a run only compares the vertex, not the predicate.
RECURSIVE RunEndVertexOnly(_, _, _, _)
RunEndVertexOnly(seq, d, s, e) ==
  IF e <= Len(seq) /\ Vertex(seq[e], d) = Vertex(seq[s], d)
    THEN RunEndVertexOnly(seq, d, s, e + 1)
    ELSE e

\* The end (exclusive) of the run of seq that starts at s and has the same
\* vertex and predicate as seq[s] (lines 381-384, 404-407).
RECURSIVE RunEnd(_, _, _, _)
RunEnd(seq, d, s, e) ==
  IF /\ e <= Len(seq)
     /\ Vertex(seq[e], d) = Vertex(seq[s], d)
     /\ seq[e].p = seq[s].p
    THEN RunEnd(seq, d, s, e + 1)
    ELSE e

\* The key/value pairs of lines 378-399 (d = OUT) and 401-422 (d = IN):
\* one per run, its values copied at the running cursor off.
RECURSIVE Groups(_, _, _, _)
Groups(seq, d, s, off) ==
  IF s > Len(seq) THEN <<>>
  ELSE LET e == RunEnd(seq, d, s, s + 1)
       IN  << [key  |-> [vid |-> Vertex(seq[s], d), dir |-> d, pid |-> seq[s].p],
               size |-> e - s,
               off  |-> off,
               vals |-> [i \in 1..(e - s) |-> Neighbour(seq[s + i - 1], d)]] >>
           \o Groups(seq, d, e, off + (e - s))

\* Mutant of SkipSame: the skip compares with the predicate of the first
\* triple of the vertex (seq[s]) instead of the current one (seq[m]).
RECURSIVE SkipSameFirstPred(_, _, _, _, _)
SkipSameFirstPred(seq, d, s, m, e) ==
  IF /\ e <= Len(seq)
     /\ Vertex(seq[e], d) = Vertex(seq[s], d)
     /\ seq[e].p = seq[s].p
    THEN SkipSameFirstPred(seq, d, s, m, e + 1)
    ELSE e

\* The inner skip of lines 450-452 / 476-478: past the triples with the
\* vertex of seq[s] and the predicate of seq[m].
RECURSIVE SkipSame(_, _, _, _, _)
SkipSame(seq, d, s, m, e) ==
  IF /\ e <= Len(seq)
     /\ Vertex(seq[e], d) = Vertex(seq[s], d)
     /\ seq[e].p = seq[m].p
    THEN SkipSame(seq, d, s, m, e + 1)
    ELSE e

\* The do-while of lines 444-453 / 470-479: the predicates written for the
\* vertex of seq[s], from position e on, and where the loop stops.
RECURSIVE PredList(_, _, _, _)
PredList(seq, d, s, e) ==
  LET next == SkipSame(seq, d, s, e, e + 1)
  IN  IF next <= Len(seq) /\ Vertex(seq[next], d) = Vertex(seq[s], d)
        THEN LET rest == PredList(seq, d, s, next)
             IN  [preds |-> <<seq[e].p>> \o rest.preds, end |-> rest.end]
        ELSE [preds |-> <<seq[e].p>>, end |-> next]

\* The VERSATILE key/value pairs (vid, d, PREDICATE_ID) of lines 436-486.
RECURSIVE PredGroups(_, _, _, _)
PredGroups(seq, d, s, off) ==
  IF s > Len(seq) THEN <<>>
  ELSE LET r == PredList(seq, d, s, s)
       IN  << [key  |-> [vid |-> Vertex(seq[s], d), dir |-> d, pid |-> PREDICATE_ID],
               size |-> Len(r.preds),
               off  |-> off,
               vals |-> r.preds] >>
           \o PredGroups(seq, d, r.end, off + Len(r.preds))

\* Where the entries of a list of pairs end (the cursor off after the
\* loop), starting from base.
EndOf(gs, base) == IF gs = <<>> THEN base ELSE Last(gs).off + Last(gs).size

\* Mutant of InsertNormal: the allocation counts the skipped type triples.
InsertNormalAllocAll(spo, ops) ==
  LET tt   == TypePrefix(ops, 1)
      outs == Groups(spo, DIR_OUT, 1, 0)
      ins  == Groups(ops, DIR_IN, tt + 1, EndOf(outs, 0))
      vout == PredGroups(spo, DIR_OUT, 1, 0)
      vin  == PredGroups(ops, DIR_IN, tt + 1, EndOf(vout, 0))
  IN  [allocs     |-> <<Len(spo) + Len(ops)>> \o
                      (IF VERSATILE THEN <<Len(outs) + Len(ins)>> ELSE <<>>),
       normal     |-> outs \o ins,
       predicates |-> IF VERSATILE THEN vout \o vin ELSE <<>>]

\* insert_normal(spo, ops): the sizes passed to sync_fetch_and_alloc_edges,
\* in order, and the pairs written in each allocation (normal: the first,
\* predicates: the second, under VERSATILE).
InsertNormal(spo, ops) ==
  LET tt   == TypePrefix(ops, 1)
      outs == Groups(spo, DIR_OUT, 1, 0)
      ins  == Groups(ops, DIR_IN, tt + 1, EndOf(outs, 0))
      vout == PredGroups(spo, DIR_OUT, 1, 0)
      vin  == PredGroups(ops, DIR_IN, tt + 1, EndOf(vout, 0))
  IN  [allocs     |-> <<Len(spo) + Len(ops) - tt>> \o
                      (IF VERSATILE THEN <<Len(outs) + Len(ins)>> ELSE <<>>),
       normal     |-> outs \o ins,
       predicates |-> IF VERSATILE THEN vout \o vin ELSE <<>>]

-----------------------------------------------------------------------------
(* One call of insert_normal: its input vectors.                          *)

CONSTANT MaxTriples   \* bound on the size of each input vector

VARIABLES spo, ops

vars == <<spo, ops>>

\* The triple loader hands over any set of triples, sorted.
Inputs(less(_, _)) ==
  {SetToSortSeq(S, less) : S \in {S \in SUBSET Triples : Cardinality(S) <= MaxTriples}}

Init ==
  /\ spo \in Inputs(LessSPO)
  /\ ops \in Inputs(LessOPS)

Next == UNCHANGED vars

Spec == Init /\ [][Next]_vars

-----------------------------------------------------------------------------
(* Reference: what the store must hold for the input, built directly from *)
(* the triples.                                                           *)

\* The neighbours of v under predicate p in direction d, in input order.
Adjacency(seq, d, v, p) ==
  LET sub == SelectSeq(seq, LAMBDA t : Vertex(t, d) = v /\ t.p = p)
  IN  [i \in 1..Len(sub) |-> Neighbour(sub[i], d)]

\* The IN side excludes the rdf:type triples, which become type-index
\* entries in insert_index.
InEdges == SelectSeq(ops, LAMBDA t : t.p # TYPE_ID)

RefPairs(seq, d) ==
  {[key  |-> [vid |-> Vertex(t, d), dir |-> d, pid |-> t.p],
    vals |-> Adjacency(seq, d, Vertex(t, d), t.p)] : t \in ToSet(seq)}

RefPredLists(seq, d) ==
  {[key  |-> [vid |-> v, dir |-> d, pid |-> PREDICATE_ID],
    vals |-> SetToSortSeq({t.p : t \in {u \in ToSet(seq) : Vertex(u, d) = v}},
                          LAMBDA a, b : a < b)] :
     v \in {Vertex(t, d) : t \in ToSet(seq)}}

Written(gs) == {[key |-> g.key, vals |-> g.vals] : g \in ToSet(gs)}

\* Pairs laid out back to back from offset 0 up to the allocated size n,
\* each with as many values as its size says.
Tiles(gs, n) ==
  /\ \A i \in 1..Len(gs) : gs[i].size = Len(gs[i].vals)
  /\ \A i \in 1..Len(gs) :
       gs[i].off = IF i = 1 THEN 0 ELSE gs[i - 1].off + gs[i - 1].size
  /\ EndOf(gs, 0) = n

-----------------------------------------------------------------------------
(* Properties                                                              *)

\* Every (s,p) run of spo becomes one key (s, OUT, p) holding the objects
\* of the run, every (o,p) run of the non-type triples of ops one key
\* (o, IN, p) holding the subjects, and no key is produced twice (a second
\* one would hit the duplicate assertion of insert_key).
GroupsMatchInput ==
  LET r == InsertNormal(spo, ops).normal
  IN  /\ Written(r) = RefPairs(spo, DIR_OUT) \cup RefPairs(InEdges, DIR_IN)
      /\ Len(r) = Cardinality(Written(r))

\* The values insert_normal copies fill exactly the ranges it allocated:
\* nothing is written past the end of an allocation (into another
\* loader's range) and no allocated entry is left unwritten.
EntriesTileAllocation ==
  LET r == InsertNormal(spo, ops)
  IN  /\ Tiles(r.normal, r.allocs[1])
      /\ VERSATILE => Tiles(r.predicates, r.allocs[2])

\* VERSATILE: every vertex gets one (v, OUT, PREDICATE_ID) and one
\* (v, IN, PREDICATE_ID) key listing each of its predicates once, in
\* order, for both directions (the open question of the spec on the IN
\* loop).
PredicateListsCorrect ==
  VERSATILE =>
    LET r == InsertNormal(spo, ops).predicates
    IN  /\ Written(r) = RefPredLists(spo, DIR_OUT) \cup RefPredLists(InEdges, DIR_IN)
        /\ Len(r) = Cardinality(Written(r))

=============================================================================
