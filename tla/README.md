# TLA+ models of the Wukong GStore

This directory models the storage engine of Wukong (`src/unnamed/part_001`,
class `GStore`). It also covers the client driver around it
(`src/src/client_mode.cpp`). All files are TLA+ modules, TLC configurations,
this README and `PROJECT.json`. `PROJECT.json` maps every definition to the
source lines it models. It also lists every run, mutant, finding and hazard.

Run a check from this directory with `tlc -workers 2 -config <cfg> <MC module>`.

## 1. Inventory

### Components

| Component | Source | State | Operations |
|---|---|---|---|
| Memory layout | `GStore::GStore`, `init` (329-359) | `vertices` (slot array), `edges` (entry region), sizes `num_slots`, `num_buckets`, `num_buckets_ext`, `num_entries` | constructor, `init` clears every key |
| Cluster-chained hash table | `insert_key` (113-160), `get_vertex_local` (207-230) | `vertices[]`, `last_ext`, `bucket_locks[1024]`, `bucket_ext_lock` | insert a key (load time, concurrent); look a key up (serve time) |
| Entry allocator | `sync_fetch_and_alloc_edges` (162-170) | `last_entry`, `entry_lock` | bump-allocate `n` entries |
| Bulk loader, normal phase | `insert_normal` (365-488) | the thread's sorted `spo`/`ops` vectors; writes keys, `ptr`s, `edges[]` | group the triples by (s,p) and (o,p), allocate, insert, copy |
| Bulk loader, index phase | `insert_index`, `insert_index_map`, `insert_index_set` (274-307, 490-567) | three TBB concurrent maps, two sets (VERSATILE) | parallel scan of every bucket, then one index key per map entry |
| Local readers | `get_edges_local`, `get_index_edges_local`, `get_edges_global` (252-264, 569-579) | none (they read) | route by owner; local lookup and slice |
| Remote reader and cache | `get_vertex_remote`, `get_edges_remote`, `RDMA_Cache` (43-81, 172-250) | per-thread RDMA buffer, 100000-entry direct-mapped cache with spinlocks | remote chain walk over one-sided bucket reads; cache lookup/insert |
| Instrumentation | `print_mem_usage` (582-628) | none | reporting only |
| Client driver | `client_mode.cpp` | global `type_to_idvec` cache | translate a query template, instantiate it, send/receive loop |
| Server class | `src/unnamed/part_000` | declarations only | no bodies in the repository |

### How they interact

- Loader threads (one per engine) call `insert_normal` concurrently. It calls
  `sync_fetch_and_alloc_edges` once (twice under VERSATILE), then
  `insert_key` once per group of triples, then writes the returned slot's
  `ptr` and the adjacency list without holding any lock.
- `insert_index` scans the slot array in parallel (OpenMP) into the
  concurrent maps. Then one thread turns every map entry into a key, again
  through the allocator and `insert_key`.
- Readers use the table once it is built. Local readers read `vertices[]`
  and `edges[]` directly. Remote readers fetch buckets and entry ranges of
  another server with one-sided RDMA reads, and they memoise vertex records
  in `RDMA_Cache`.

### What is hard

- **Interleaving.** The stripe lock is chosen from the primary bucket. It is
  meant to cover the whole chain of that bucket. The overflow counter
  `last_ext` and the entry counter `last_entry` are shared by every loader.
- **The chain link.** `insert_key` pre-increments `slot_id` past the chain
  slot (line 139). So the slot it reads and writes as "the link" is the
  first data slot of the *next* bucket. That slot belongs to a different
  stripe. The readers follow the real chain slot, which is never written.
- **Uninitialised state.** `last_ext` is never set by the constructor. The
  chain pointers insert_key writes have no `ptr`.
- **Bounds.** Both arenas end with an assertion. The entry assertion is
  strict and runs after the bump.
- **Progress.** A chain walk that follows a data key's vid can cycle while
  holding a stripe lock.
- **Remote reads.** These race with a build that is not finished, and the
  cache can hold a stale record.

### Properties that make each component correct

- Hash table: every inserted key is found by lookup at the slot insert
  returned. A placed key is never overwritten. A duplicate insert aborts.
  Every insert terminates.
- Allocators: overflow buckets are handed out once and stay inside their
  region. Entry ranges are disjoint and end below `num_entries`.
- Loader: the table and entries hold exactly the grouped input (each
  `(s,OUT,p)` maps to the objects of that run, in order). Writes stay inside
  the allocated range.
- Index phase: for every normal key `(v,OUT,p)`, `v` is in `(0,OUT,p)`. The
  same holds for IN and for types. No `(IN,TYPE_ID)` key reaches the scan.
- Readers: a remote lookup returns what a local lookup on the owner returns.
  A cache hit equals the record in the table.
- Client: an instantiated request only holds ids of the placeholder's type.

## 2. Plan

Modules in order of importance. Each one has its own MC module and configs.

1. **GStore** (done): `insert_key` and `sync_fetch_and_alloc_edges`, with
   every shared read and write a step, and `get_vertex_local` as an
   operator.
2. **Loader** (done, composed with GStore): `insert_normal`. The
   grouping of sorted `spo`/`ops` is a set of RECURSIVE operators, checked
   against a reference (the set of `(s,p) -> objects` pairs). MC_GStore
   feeds the calls it generates to GStore's loader threads, with the
   `ptr`/`edges` writes after `insert_key` returns as steps.
3. **IndexBuild** (done): the scan of `insert_index` over the slots that
   `insert_normal` writes and the links `insert_key` leaves, followed by
   `insert_index_map`/`insert_index_set`, composed with Loader.
4. **RemoteReader** (done): `get_edges_global`, `get_index_edges_local`,
   `get_vertex_remote`, `get_edges_remote` and `RDMA_Cache` over immutable
   tables of two servers. The abstract specification
   `EdgeLookup` says a lookup returns the owner's record. The detailed one,
   with the cache, refines it through INSTANCE ... WITH.
5. **ClientMode** (done): the whole of `client_mode.cpp`.

## 3. Module GStore

State: `vertices` is the slot array, with the extra cell `NumSlots` standing
for the first word of the entry region (`vertices[num_slots]`). Next come
`lastExt`, `lastEntry`, the locks `stripe`, `extLock` and `entryLock`, and
per thread `work` (the calls the thread makes), `ip`, `pc`, `slot`
(`slot_id`) and `tmp` (a counter value read before the write). `abort`
records a failed `assert`; after one, nothing steps. `ptrs` holds the
`iptr_t` of each slot, `edges` the entry region and `off` each loader's
entry cursor. `placed`, `extGrants`, `entryGrants` and `linked` are history
variables recording what each call returned or stored.

A thread's `work` is a sequence of calls. Three kinds exist: `insert`
(`insert_key`), `alloc` (`sync_fetch_and_alloc_edges`) and `link`. A
`link` is what `insert_normal` does after `insert_key` returns, with no
lock held: it stores the `ptr` in the returned slot and copies the values.
MC_GStore builds the calls of a loader running `insert_normal` from the
operators of module Loader (section 4). This composes the two modules.

Actions follow the code line by line:

- `InsertLock` (114-119), `Loop` (120).
- The scan of the data slots: `ScanDup`, `ScanEmpty`, `ScanNext` (121-136),
  and `Write` (133).
- The link test, with the pre-increment: `ChainFollow`, `ChainEnd`
  (139-145).
- Overflow allocation: `ExtLock`, `ExtRead` (assert and load of `last_ext`),
  `ExtLink` (store of `last_ext` and of the vid field), `ExtUnlock`
  (146-149).
- `NewBucket` (151-152), `Unlock` (155-156), and `Return`, the two asserts
  after the unlock (157-159).
- The allocator: `AllocLock`, `AllocRead`, `AllocBump` (bump and assert)
  and `AllocUnlock` (162-170), whose result becomes the caller's `off`.
- The writes of `insert_normal` after each `insert_key`: `LinkPtr` (the
  `ptr` store, line 392), then `CopyEdge` once per value
  (`edges[off++]`, 394-396), then `CopyDone`. The loops over `ops` and the
  predicate lists have the same shape. The predicate loop stores the `ptr`
  after the copy, and no other loader reads it, so the order is not
  modelled.

Every read of a shared value that another thread can change before the
next write is its own step. Steps a thread takes under a lock no other
thread can touch are merged (for example line 151 with line 152).

`LookupLocal` is `get_vertex_local`. It scans data slots `0..A-2`, then
follows slot `A-1`. It returns the slot found, or `NotFound`.

### Instances (MC_GStore)

A = 3 (two data slots and the chain slot), two main and two indirect
buckets (12 slots), and two lock stripes. Bucket b is on stripe b, so
buckets 0 and 1 are on different stripes, as neighbouring buckets are in
the code. Keys K1..K3 hash to bucket 0 and K4..K6 to bucket 1.

With two data slots per bucket, the third key of a bucket overflows. Vids
5, 6 and 7 send a chain walk past the slot array. Vid 1 sends it into
bucket 1. Both happen with real vids, depending on `num_slots`.
`LastExtInit = {0, 1}` covers zeroed memory and a small garbage value.
`NumEntries = 5` lets the second loader's allocation (2 or 3 entries after
the first one's 2) either fit or fill the region exactly, which the strict
assert rejects. The key-only programs start from every order of each
thread's keys. `MCProgramsDupInTable` runs K1, K2, K3 against K5 then K3.
`MCProgramsIndexKeys` inserts the index keys I1..I4 (vid 0), with I3 in
bucket 1 and the others in bucket 0.

The loader programs come from `insert_normal` (without VERSATILE) on the
inputs of `LoadInputs` and `RaceInputs`:
- In `LoadInputs`, t1 has the run `(5, 3, {6, 7})` and `(8, 3, 6)`, and
  t2 has `(7, 3, 5)`. All three keys are in bucket 0, so the third insert
  overflows while the other loader copies.
- In `RaceInputs`, t1 overflows bucket 0 on its own, and t2's key is in
  bucket 1.

### Runs

| Run | Expect | Shows |
|---|---|---|
| `gstore_conc` | pass | Two loaders each overflow their bucket and race for overflow headers and entry ranges. `ExtGrantsDistinct`: no header is handed out twice or outside its region. `EntryGrantsDisjoint`: ranges are disjoint and below capacity. `TypeOK` includes `last_ext <= num_buckets_ext`. The second loader may instead insert K4 and K3, sharing K3 with the first; the second insert of K3 then reaches the duplicate assert (K4's vid 5 sends any redirected walk out of the array). Either thread may instead run `insert_normal` on its `LoadInputs`: `LoadedAsInput` says every key a loader linked is still in the slot `insert_key` returned, with the `ptr` its loader stored and its values at that `ptr` (234,620 states). |
| `gstore_dup` | violation | `DuplicateRejected` (spec invariant 2: no key is stored twice). t1 inserts K1, K2, K3 and links bucket 0 through slot 3. t2, on the other stripe, has checked slot 3 empty for K5 (vid 1) and writes K5 over the link. t2's insert of K3 then reads K5 as bucket 0's link, goes to bucket 1, and stores K3 in slot 4: K3 is in slots 6 and 4, with no assert (finding 7). |
| `gstore_cycle` | violation | `BuildTerminates` (every loader returns or an assert ends the process) with one thread inserting the index keys I1..I4 in the order of `insert_index_map`. All index keys have vid 0. I1 and I2 fill bucket 0, I3 takes slot 3, and I4 reads I3 as bucket 0's link: vid 0 leads back to bucket 0, and the walk loops forever holding stripe lock 0 (finding 8). |
| `gstore_lookup` | violation | `LookupFindsInserted`: K3, placed in an overflow bucket, is not found by `get_vertex_local` (finding 1). |
| `gstore_race` | violation | `LoadedAsInput` with two loaders running `insert_normal` on `RaceInputs`. t1 has filled bucket 0 and reads slot 3 as empty. t2, on the other stripe, places `(9, OUT, 2)` in slot 3, passes its check, stores its `ptr` and copies 5. t1 then writes the overflow vid 2 over it. The build ends with no assertion, and slot 3 holds `(2, OUT, 2)` with value 5 (finding 2). |

Every property of a passing run has a mutant in `PROJECT.json`: a plausible
bug in one action that TLC then catches. The mutants are an off-by-one
assert, dropped lock waits, a missing `last_ext` bump, and a loader that
keeps its old cursor instead of the offset the allocator returned.

### Fairness

Loader threads are OS threads spinning on spinlocks. `Spec` gives each
thread weak fairness on its steps. A thread waiting for a lock is enabled
again as soon as the holder releases it. Holders release their lock within
a bounded number of their own steps, unless they loop forever, which is
what `BuildTerminates` checks (run `gstore_cycle`; in `gstore_conc` every
link leaves the array or names a header, so no walk can cycle there).

## 4. Module Loader

`insert_normal` runs sequentially inside one loader thread, so it is
modelled as operators, not as steps. `InsertNormal(spo, ops)` returns the
sizes passed to `sync_fetch_and_alloc_edges`, in order. It also returns the
key/value pairs written into each allocation: the key given to `insert_key`,
the `(size, off)` of its `ptr`, and the values copied to `edges[]`.

- `TypePrefix` is the skip of the leading `ops` whose object is a type id
  (367-369).
- `RunEnd` and `Groups` are the two grouping loops (378-422).
- `SkipSame`, `PredList` and `PredGroups` are the VERSATILE predicate-list
  loops (433-486).
- `EndOf` is the running cursor `off`.

The module's only state is one input: `Init` picks any sorted `spo` and
`ops` of at most `MaxTriples` triples. The properties compare the result
with a reference built from the triples directly (`Adjacency`, `RefPairs`,
`RefPredLists`).

Inputs follow spec section 3: subjects and objects of normal triples are
vertex ids (at least `TPID_MAX`), and rdf:type objects are type ids. An
input outside that (a vertex object below `TPID_MAX`, or an rdf:type
object that is a vertex) breaks the loader's precondition; spec 7 and 9
make the resulting assert at line 516 the intended response, so no run
checks it.

The properties of a correct `insert_normal` are checked in run
`index_build` (section 7), whose input space is the same:
`GroupsMatchInput` (one key per `(s,p)` and `(o,p)` run, holding exactly
its neighbours, and no key twice), `EntriesTileAllocation` (the pairs fill
each allocation exactly) and `PredicateListsCorrect` (under VERSATILE,
each vertex lists each of its predicates once, in both directions).
IndexBuild restates them from its instance of Loader. Their mutants, in
module Loader, are a run that ignores the predicate, a predicate skip that
compares with the vertex's first predicate, and an allocation that counts
the skipped type triples.

## 5. Module ClientMode

`src/src/client_mode.cpp` is the client driver. Every client process loops
on `MPI_Barrier`. After each barrier the leader (`m_id = 0`, `t_id = 0`)
reads a line `file [count]` and runs `batch_execute` on it. Line 76 holds
the commented-out call of `interactive_execute`. The variable `execute`,
chosen in `Init` from the constant `EXECUTES`, is the build's choice
between the two lines and never changes. `batch_execute` does three things:

- It parses a query template.
- It translates each placeholder type into the type's object list
  (`translate_req_template`). Each list is fetched from the server once and
  kept in the process-wide `type_to_idvec`.
- It sends `count` instances, each with random objects at the placeholder
  positions (`instantiate_request`), and waits for each reply.

How the model corresponds to the code:

- State: `pc` per process, `arrived` (the barrier), `cache`
  (`type_to_idvec`), `vecs` (`place_holder_vecptr`), `chain`
  (`request.cmd_chains`), and the loop indices `i` and `k`. `req` and `rep`
  are the one message in flight. `Send` and `Recv` are synchronous.
- Histories: `asked` (type requests) and `sent` (queries).
- Actions: `Arrive` and `Release` are the barrier. `ReadInput` and
  `ReadQuery` read a line and parse it. `TranslateHit`, `TranslateAsk`,
  `TranslateUnknown` (a failed assert) and `TranslateRecv` make up the
  translation. `InstantiateSend` and `InstantiateCrash` (`% 0`) make up
  instantiation. `QueryRecv` and `BatchDone` end the loop, and `ISend`,
  `IRecv` and `IDone` are `interactive_execute`.
- The server is not in the repository. `Serve` answers a type request with
  `Objects[t]`. What it answers to the empty request of an NDEBUG build is
  unknown, so that answer is any set of ids.

A vector is modelled as the set of its elements, because the code only
picks a random element from it. File names and type names are model values.

### Instance (MC_ClientMode)

- Two processes and three ids.
- Four types: `T3` has no objects, and `T4` is unknown to the parser.
- Up to two commands, with either `batch_execute` or `interactive_execute`. Counts -1, 0 and 2
  cover the clamp.
- The templates use `T1` and `T2` in both orders, `T1` twice, and a parse
  error. So a later command meets a cache filled by an earlier template,
  in a different order.

### Runs

| Run | Expect | Shows |
|---|---|---|
| `client_batch` | pass | `QueriesWellTyped`: each placeholder position of every sent query holds an object of its type. `TypeAskedOnce`: no type is requested twice per process. `CommandsComplete`: every command, run by `batch_execute` or by `interactive_execute`, returns to the barrier loop unless the process dies (7,328 states). |
| `client_emptytype` | violation | A template placeholder of type `T3`, which has no objects, reaches `get_random() % 0` (finding 3). |
| `client_ndebug` | violation | With NDEBUG, `find_type_of` is never called. The answer to the empty request is cached as `T2`'s objects and reaches a query (finding 4). |

Fairness: each process, the server and the barrier are weakly fair. The
server answering every request is an assumption about the part that is not
in the repository. The barrier releases once every process has arrived,
which every process does after one step.

Mutants: the count is not clamped, the first placeholder's vector is reused,
the fetched vector is not cached, and a loop index is not incremented.

## 6. Modules EdgeLookup and RemoteReader

`EdgeLookup` is the contract of an edge lookup (spec 4.6 and 7). A
`get_edges_global` call (`Call`) returns, in one step, what `get_edges_local`
returns on the key's owner `HashMod[vid]`. A `get_index_edges_local` call
(`CallIndex`, vid 0) returns what it returns on the reader's own server
`Self`. `at` records which server answers a call.
`VertexFrom`/`VertexLocal` is `get_vertex_local` over a slot array.
`EdgesLocal` is `get_edges_local` on one server. The tables (one per server)
are a variable, chosen in `Init` and never changed, because the store is
immutable once built.

`RemoteReader` is the readers of server `Self`. `Call` is
`get_edges_global`: a key `Self` owns goes to `LocalRead`, a key of another
server to `get_edges_remote`. `IndexCall` is `get_index_edges_local`, which
also goes to `LocalRead`. `LocalRead` is `get_edges_local` in one step
(nothing it reads changes). On the remote path each reader thread goes
through these steps on the owner's table (`Dst`, the `dst_sid`):

- `CacheHit` or `CacheMiss`: the lookup, under the item's spinlock.
- `ReadBucket`: one RDMA read of the bucket into the thread's buffer.
- `ScanFound`, `ScanNext` or `ScanEnd`: the scan of the data slots and of
  the chain slot.
- `CacheInsert`: under the lock.
- `ReadEdges`: the second RDMA read and the return.

`cache` holds the `NUM_ITEMS` items, each initialised to `vertex_t()`. The
refinement mapping is `busy <- pc # "idle"`, `asked <- key` and
`result <- res`, and `at <- Self` for an index call, `HashMod[key.vid]` for
a global one; `table` and `calls` keep their names. All the other steps
are stuttering steps of the abstract specification.

### Instance (MC_RemoteReader)

- Two servers with `hash_mod(vid, 2) = vid % 2`; the readers run on
  server 1.
- Two readers, seven keys and two calls each.
- Server 1's own table holds K6 (vid 5) and its part of the index key
  KI = (0, IN, 2); server 0's tables (below) lack KI, so a global lookup of
  KI, answered by server 0, returns nothing, and an index lookup returns
  server 1's list.
- Server 0's tables have three buckets of three slots, and a cache of two items: the four keys of
  bucket 0 share item 0.
- Two tables, built by inserting K1..K4:
  - as `insert_key` builds it, with the link in bucket 1's first slot
    (finding 1);
  - as it would be with the link written at the chain slot, so that the
    walk follows a chain.
- K5 is absent, so a walk ends at the empty chain slot.

### Run

| Run | Expect | Shows |
|---|---|---|
| `remote_refines` | pass | `CacheCoherent`: every cached record is the owner's record of its key, whatever the order in which colliding readers overwrite the shared item. `RemoteImplementsLocal` (`Abs!Spec`): each call returns `get_edges_local`'s answer on the owner, every index call returns the list of the reader's own server, and every call returns (183,051 states, about 2 minutes). |

Fairness: weak fairness on each reader's steps (OS threads; no step of a
reader waits for another reader except on a spinlock held for one step).

Mutants:

- a cache hit that skips the key comparison;
- a miss that is cached;
- a link taken as an indirect-header index;
- an entry read one entry short;
- an index lookup routed like a global one (`IndexCallGlobal`).

## 7. Module IndexBuild

`IndexBuild` is `insert_index` run on the store that `insert_normal` has
filled. It instantiates `Loader` (`L == INSTANCE Loader`), so the input
(`spo`, `ops`) and the slots it produces are Loader's. The variable `links`
holds the headers of the overflow links that `insert_key` leaves in data
slots (finding 1). A link looks like a key `(header, IN, PREDICATE_ID)` with
a zero `ptr`. `Init` allows one link per `ASSOCIATIVITY` keys, because a
link is written only when a bucket overflows.

The parallel scan (`#pragma omp parallel for`) only appends to TBB
containers under an accessor, and index lists are unordered (spec 4.5). So
the scan is modelled as the union over slots of `Contribution(s)`:

- what a slot adds to `pidx_in_map`, `pidx_out_map`, `tidx_map`, `v_set`
  and `p_set`;
- or the abort of the `assert` at line 516.

`IndexMap` is `insert_index_map`: one key `(0, d, id)` per map entry.
`IndexSet` is `insert_index_set`: one key `(0, d, TYPE_ID)` holding the
whole set, even an empty one. `IndexBatches` is the sequence of these five
calls in the order of lines 549-558, and `IndexPairs` is their union. The
`insert_key` and allocator calls inside them are GStore's actions,
abstracted here to the pairs they store. One outcome of `insert_key` is
kept: when two calls hand it the same key, its duplicate check (lines
123-129) fails the assert (`DuplicateIndexKey`). Type ids and predicate ids
share one id space, and both the type index and the predicate index of
subjects use `(0, IN, id)`. `Next` is stuttering, because the build is
sequential code checked over every input.

### Instance (MC_IndexBuild)

- `TPID_MAX = 5` and `VERSATILE`.
- Triples with subjects 5 and 6, predicates 2 and 3, and the type triple
  `(s, 1, 4)`. `MCTriplesShared` adds `(5, 1, 2)`: class 2 is also
  predicate 2.
- Inputs are every sorted sequence of up to `MaxTriples` distinct triples.

### Runs

| Run | Expect | Shows |
|---|---|---|
| `index_build` | pass | The three Loader properties (section 4) and `IndexMatchesTriples`: without links, the index keys are exactly the type index, the predicate index on both sides, and the sets of all vertices and all predicates, computed directly from the triples. The scan never aborts. `IndexAbortsOnSharedIds`: `insert_key` gets a duplicate index key, which ends the load, exactly when an id is both a class and a predicate (`SharedIds`). The input set is `MCTriplesShared` (16,900 states). |
| `index_links` | violation | With one overflow link (two triples with the same predicate give four keys), header id 2 appears in `(0, IN, TYPE_ID)`, the list of all vertices (finding 5). |
| `index_specdir` | violation | `SpecIndexInvariant` (spec 8.6): the key `(5, IN, 2)` is listed under `(0, OUT, 2)`, not `(0, IN, 2)` (finding 6). |

Mutants:

- the predicate index filed the way the spec states it (`pin` and `pout`
  swapped) breaks `IndexMatchesTriples`;
- `p_set` inserted under IN, like `v_set`, breaks
  `IndexAbortsOnSharedIds`.

## 8. Not modelled

- The memory-size check of the constructor and the exact byte layout
  (`sizeof(vertex_t)`, `sizeof(edge_t)`). Slots are cells, and the entry
  region is a separate counter.
- `print_mem_usage` only reports.
- The hash function: `Hash` is a table chosen so that keys collide.
- `part_000` declares the query server without bodies. It appears only as
  the responder of ClientMode.
- Remote reads during a build. RemoteReader reads an immutable table. A
  serving phase that overlaps a build is excluded by the spec (4.6) and left
  to cluster coordination, which is not in the repository.
- ClientMode leaves out latency timing and printing (`sum`, `print_result`),
  and has one client thread per process.
