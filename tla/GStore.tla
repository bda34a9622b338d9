------------------------------- MODULE GStore -------------------------------
(***************************************************************************)
(* The slot array of GStore (src/unnamed/part_001) and its two allocators *)
(* during the build phase: concurrent loader threads call                 *)
(* insert_key (cluster-chaining hash table under striped spinlocks, with  *)
(* overflow buckets handed out under bucket_ext_lock) and                 *)
(* sync_fetch_and_alloc_edges (bump allocator of the entry region under   *)
(* entry_lock).  Every read and write of shared state that another thread *)
(* could observe in between is a step of its own.                         *)
(*                                                                         *)
(* vertices has one cell per slot, plus the cell NumSlots: the first word *)
(* of the entry region, which lies directly after the slot array and is   *)
(* what vertices[num_slots] addresses.                                    *)
(*                                                                         *)
(* A failed assert() ends the process: abort records which one, and no    *)
(* thread steps afterwards.                                                *)
(*                                                                         *)
(* insert_normal (module Loader) drives the store: after each insert_key  *)
(* it stores the iptr_t in the returned slot and copies the values into   *)
(* the range sync_fetch_and_alloc_edges returned, outside every lock.     *)
(* That is the "link" call, whose writes are steps too.                   *)
(***************************************************************************)
EXTENDS Integers, Sequences, FiniteSets

CONSTANTS
  Threads,        \* loader threads
  NoThread,       \* holder of a free spinlock
  ASSOCIATIVITY,  \* slots per bucket; the last one is the chain slot
  NumBuckets,     \* main-header region
  NumBucketsExt,  \* indirect-header region
  NumLocks,       \* bucket_locks stripes
  NumEntries,     \* capacity of the entry region
  Keys,           \* the keys the loaders insert: [vid, dir, pid] records
  Hash,           \* Hash[k] = key.hash() for every k \in Keys
  Programs,       \* Programs[t]: the call sequences thread t may make
  LastExtInit     \* values last_ext may hold before the first allocation

NumSlots == (NumBuckets + NumBucketsExt) * ASSOCIATIVITY

\* ikey_t(): the all-zero key that marks an empty slot.
Empty == [vid |-> 0, dir |-> 0, pid |-> 0]

\* A call a loader makes into the store.
Calls == [op : {"insert"}, key : Keys] \cup [op : {"alloc"}, n : Nat]
           \cup [op : {"link"}, vals : Seq(Nat)]

ASSUME
  /\ NoThread \notin Threads
  /\ ASSOCIATIVITY >= 2 /\ NumBuckets >= 1 /\ NumBucketsExt >= 1
  /\ NumLocks >= 1 /\ NumEntries >= 1
  /\ Empty \notin Keys
  /\ \A k \in Keys : Hash[k] \in Nat
  /\ \A t \in Threads : Programs[t] \subseteq Seq(Calls)
  /\ LastExtInit \subseteq Nat

VARIABLES
  vertices,     \* slot index -> key held in the slot
  lastExt,      \* last_ext
  lastEntry,    \* last_entry
  stripe,       \* bucket_locks[l]: holding thread or NoThread
  extLock,      \* bucket_ext_lock
  entryLock,    \* entry_lock
  work,         \* work[t]: the calls thread t makes, in order
  ip,           \* ip[t]: index in work[t] of the current call
  pc,           \* pc[t]: the point reached inside the current call
  slot,         \* slot[t]: local slot_id of insert_key
  tmp,          \* tmp[t]: value of last_ext / last_entry read before the write
  abort,        \* "none" or the failed assertion
  placed,       \* history: [t, key, slot] for every insert_key that returned
  extGrants,    \* history: [t, call, b] for every overflow bucket linked
  entryGrants,  \* history: [t, call, lo, n] for every allocation returned
  ptrs,         \* slot index -> iptr_t [size, off] held in the slot
  edges,        \* entry index -> value
  off,          \* off[t]: the entry cursor of insert_normal
  linked        \* history: [key, slot, off, vals] of every ptr stored

\* What only the link calls of insert_normal change.
build == <<ptrs, edges, off, linked>>

vars == <<vertices, lastExt, lastEntry, stripe, extLock, entryLock,
          work, ip, pc, slot, tmp, abort, placed, extGrants, entryGrants,
          build>>

local == <<ip, pc, slot, tmp>>

Cur(t) == work[t][ip[t]]
Key(t) == Cur(t).key

\* bucket_id = key.hash() % num_buckets; lock_id = bucket_id % NUM_LOCKS
BucketOf(k) == Hash[k] % NumBuckets
LockOf(k) == BucketOf(k) % NumLocks

Running == abort = "none"

Goto(t, p) == pc' = [pc EXCEPT ![t] = p]

SetSlot(t, s) == slot' = [slot EXCEPT ![t] = s]

-----------------------------------------------------------------------------
(* insert_key                                                              *)

\* Take bucket_locks[lock_id] and start at the first slot of the bucket.
InsertLock(t) ==
  /\ pc[t] = "call" /\ ip[t] <= Len(work[t]) /\ Cur(t).op = "insert"
  /\ stripe[LockOf(Key(t))] = NoThread
  /\ stripe' = [stripe EXCEPT ![LockOf(Key(t))] = t]
  /\ SetSlot(t, BucketOf(Key(t)) * ASSOCIATIVITY)
  /\ Goto(t, "loop")
  /\ UNCHANGED <<build, vertices, lastExt, lastEntry, extLock, entryLock, work,
                 ip, tmp, abort, placed, extGrants, entryGrants>>

\* while (slot_id < num_slots): enter the bucket, or fall through to done.
Loop(t) ==
  /\ pc[t] = "loop"
  /\ Goto(t, IF slot[t] < NumSlots THEN "scan" ELSE "unlock")
  /\ UNCHANGED <<build, vertices, lastExt, lastEntry, stripe, extLock, entryLock,
                 work, ip, slot, tmp, abort, placed, extGrants, entryGrants>>

\* A data slot already holds the key: assert(false).
ScanDup(t) ==
  /\ pc[t] = "scan" /\ vertices[slot[t]] = Key(t)
  /\ abort' = "duplicate"
  /\ UNCHANGED <<build, vertices, lastExt, lastEntry, stripe, extLock, entryLock,
                 work, local, placed, extGrants, entryGrants>>

\* An empty data slot: the key will be written into it.
ScanEmpty(t) ==
  /\ pc[t] = "scan" /\ vertices[slot[t]] = Empty
  /\ Goto(t, "write")
  /\ UNCHANGED <<build, vertices, lastExt, lastEntry, stripe, extLock, entryLock,
                 work, ip, slot, tmp, abort, placed, extGrants, entryGrants>>


\* An occupied data slot: i++, slot_id++; after ASSOCIATIVITY-1 of them
\* slot_id stands on the chain slot of the bucket.
ScanNext(t) ==
  /\ pc[t] = "scan"
  /\ vertices[slot[t]] \notin {Empty, Key(t)}
  /\ SetSlot(t, slot[t] + 1)
  /\ Goto(t, IF (slot[t] + 1) % ASSOCIATIVITY = ASSOCIATIVITY - 1
             THEN "chain" ELSE "scan")
  /\ UNCHANGED <<build, vertices, lastExt, lastEntry, stripe, extLock, entryLock,
                 work, ip, tmp, abort, placed, extGrants, entryGrants>>

\* vertices[slot_id].key = key; goto done
Write(t) ==
  /\ pc[t] = "write"
  /\ vertices' = [vertices EXCEPT ![slot[t]] = Key(t)]
  /\ Goto(t, "unlock")
  /\ UNCHANGED <<build, lastExt, lastEntry, stripe, extLock, entryLock, work, ip,
                 slot, tmp, abort, placed, extGrants, entryGrants>>


\* if (vertices[++slot_id].key != ikey_t()): the pre-increment moves
\* slot_id from the chain slot to the slot after it, and that slot's vid
\* is followed as the next bucket.
ChainFollow(t) ==
  /\ pc[t] = "chain"
  /\ vertices[slot[t] + 1] # Empty
  /\ SetSlot(t, vertices[slot[t] + 1].vid * ASSOCIATIVITY)
  /\ Goto(t, "loop")
  /\ UNCHANGED <<build, vertices, lastExt, lastEntry, stripe, extLock, entryLock,
                 work, ip, tmp, abort, placed, extGrants, entryGrants>>

\* The slot read is empty: a new indirect header must be linked there.
ChainEnd(t) ==
  /\ pc[t] = "chain"
  /\ vertices[slot[t] + 1] = Empty
  /\ SetSlot(t, slot[t] + 1)
  /\ Goto(t, "ext_lock")
  /\ UNCHANGED <<build, vertices, lastExt, lastEntry, stripe, extLock, entryLock,
                 work, ip, tmp, abort, placed, extGrants, entryGrants>>


\* Mutant of ExtLock: bucket_ext_lock is not waited for.
ExtLockNoWait(t) ==
  /\ pc[t] = "ext_lock"
  /\ extLock' = t
  /\ Goto(t, "ext_read")
  /\ UNCHANGED <<build, vertices, lastExt, lastEntry, stripe, entryLock, work, ip,
                 slot, tmp, abort, placed, extGrants, entryGrants>>

ExtLock(t) ==
  /\ pc[t] = "ext_lock" /\ extLock = NoThread
  /\ extLock' = t
  /\ Goto(t, "ext_read")
  /\ UNCHANGED <<build, vertices, lastExt, lastEntry, stripe, entryLock, work, ip,
                 slot, tmp, abort, placed, extGrants, entryGrants>>


\* Mutant of ExtRead: the capacity assert is off by one (<=).
ExtReadOffByOne(t) ==
  /\ pc[t] = "ext_read"
  /\ IF lastExt <= NumBucketsExt
       THEN /\ tmp' = [tmp EXCEPT ![t] = lastExt]
            /\ Goto(t, "ext_link")
            /\ UNCHANGED abort
       ELSE /\ abort' = "ext_full"
            /\ UNCHANGED <<build, tmp, pc>>
  /\ UNCHANGED <<build, vertices, lastExt, lastEntry, stripe, extLock, entryLock,
                 work, ip, slot, placed, extGrants, entryGrants>>

\* assert(last_ext < num_buckets_ext), then last_ext is loaded for ++.
ExtRead(t) ==
  /\ pc[t] = "ext_read"
  /\ IF lastExt < NumBucketsExt
       THEN /\ tmp' = [tmp EXCEPT ![t] = lastExt]
            /\ Goto(t, "ext_link")
            /\ UNCHANGED abort
       ELSE /\ abort' = "ext_full"
            /\ UNCHANGED <<build, tmp, pc>>
  /\ UNCHANGED <<build, vertices, lastExt, lastEntry, stripe, extLock, entryLock,
                 work, ip, slot, placed, extGrants, entryGrants>>


\* Mutant of ExtLink: the link is written but last_ext is not bumped.
ExtLinkNoBump(t) ==
  /\ pc[t] = "ext_link"
  /\ vertices' = [vertices EXCEPT ![slot[t]].vid = NumBuckets + tmp[t]]
  /\ extGrants' = extGrants \cup
                    {[t |-> t, call |-> ip[t], b |-> NumBuckets + tmp[t]]}
  /\ Goto(t, "ext_unlock")
  /\ UNCHANGED <<build, lastExt, lastEntry, stripe, extLock, entryLock, work, ip,
                 slot, tmp, abort, placed, entryGrants>>

\* vertices[slot_id].key.vid = num_buckets + (last_ext++): only the vid
\* field of the slot is written.
ExtLink(t) ==
  /\ pc[t] = "ext_link"
  /\ lastExt' = tmp[t] + 1
  /\ vertices' = [vertices EXCEPT ![slot[t]].vid = NumBuckets + tmp[t]]
  /\ extGrants' = extGrants \cup
                    {[t |-> t, call |-> ip[t], b |-> NumBuckets + tmp[t]]}
  /\ Goto(t, "ext_unlock")
  /\ UNCHANGED <<build, lastEntry, stripe, extLock, entryLock, work, ip, slot, tmp,
                 abort, placed, entryGrants>>

ExtUnlock(t) ==
  /\ pc[t] = "ext_unlock"
  /\ extLock' = NoThread
  /\ Goto(t, "new_bucket")
  /\ UNCHANGED <<build, vertices, lastExt, lastEntry, stripe, entryLock, work, ip,
                 slot, tmp, abort, placed, extGrants, entryGrants>>

\* slot_id = vertices[slot_id].key.vid * ASSOCIATIVITY (read again, after
\* the unlock); vertices[slot_id].key = key.  A slot_id outside the slot
\* array is a wild write that the assert at done then reports.
NewBucket(t) ==
  /\ pc[t] = "new_bucket"
  /\ LET s == vertices[slot[t]].vid * ASSOCIATIVITY IN
       /\ SetSlot(t, s)
       /\ IF s < NumSlots
            THEN vertices' = [vertices EXCEPT ![s] = Key(t)]
            ELSE UNCHANGED vertices
  /\ Goto(t, "unlock")
  /\ UNCHANGED <<build, lastExt, lastEntry, stripe, extLock, entryLock, work, ip,
                 tmp, abort, placed, extGrants, entryGrants>>

\* done: pthread_spin_unlock(&bucket_locks[lock_id])
Unlock(t) ==
  /\ pc[t] = "unlock"
  /\ stripe' = [stripe EXCEPT ![LockOf(Key(t))] = NoThread]
  /\ Goto(t, "check")
  /\ UNCHANGED <<build, vertices, lastExt, lastEntry, extLock, entryLock, work, ip,
                 slot, tmp, abort, placed, extGrants, entryGrants>>

\* assert(slot_id < num_slots); assert(vertices[slot_id].key == key);
\* both read after the stripe lock is released.
Return(t) ==
  /\ pc[t] = "check"
  /\ IF slot[t] < NumSlots /\ vertices[slot[t]] = Key(t)
       THEN /\ placed' = placed \cup {[t |-> t, key |-> Key(t), slot |-> slot[t]]}
            /\ ip' = [ip EXCEPT ![t] = @ + 1]
            /\ Goto(t, "call")
            /\ UNCHANGED abort
       ELSE /\ abort' = "bad_slot"
            /\ UNCHANGED <<build, placed, ip, pc>>
  /\ UNCHANGED <<build, vertices, lastExt, lastEntry, stripe, extLock, entryLock,
                 work, slot, tmp, extGrants, entryGrants>>

-----------------------------------------------------------------------------
(* sync_fetch_and_alloc_edges                                              *)


\* Mutant of AllocLock: entry_lock is not waited for.
AllocLockNoWait(t) ==
  /\ pc[t] = "call" /\ ip[t] <= Len(work[t]) /\ Cur(t).op = "alloc"
  /\ entryLock' = t
  /\ Goto(t, "entry_read")
  /\ UNCHANGED <<build, vertices, lastExt, lastEntry, stripe, extLock, work, ip,
                 slot, tmp, abort, placed, extGrants, entryGrants>>

AllocLock(t) ==
  /\ pc[t] = "call" /\ ip[t] <= Len(work[t]) /\ Cur(t).op = "alloc"
  /\ entryLock = NoThread
  /\ entryLock' = t
  /\ Goto(t, "entry_read")
  /\ UNCHANGED <<build, vertices, lastExt, lastEntry, stripe, extLock, work, ip,
                 slot, tmp, abort, placed, extGrants, entryGrants>>

\* orig = last_entry
AllocRead(t) ==
  /\ pc[t] = "entry_read"
  /\ tmp' = [tmp EXCEPT ![t] = lastEntry]
  /\ Goto(t, "entry_bump")
  /\ UNCHANGED <<build, vertices, lastExt, lastEntry, stripe, extLock, entryLock,
                 work, ip, slot, abort, placed, extGrants, entryGrants>>

\* last_entry += n; assert(last_entry < num_entries)
AllocBump(t) ==
  /\ pc[t] = "entry_bump"
  /\ lastEntry' = tmp[t] + Cur(t).n
  /\ IF tmp[t] + Cur(t).n < NumEntries
       THEN Goto(t, "entry_unlock") /\ UNCHANGED abort
       ELSE abort' = "entry_full" /\ UNCHANGED pc
  /\ UNCHANGED <<build, vertices, lastExt, stripe, extLock, entryLock, work, ip,
                 slot, tmp, placed, extGrants, entryGrants>>

\* Mutant of AllocUnlock: the caller keeps its old cursor instead of the
\* offset returned.
AllocUnlockKeepCursor(t) ==
  /\ pc[t] = "entry_unlock"
  /\ entryLock' = NoThread
  /\ entryGrants' = entryGrants \cup
       {[t |-> t, call |-> ip[t], lo |-> tmp[t], n |-> Cur(t).n]}
  /\ ip' = [ip EXCEPT ![t] = @ + 1]
  /\ Goto(t, "call")
  /\ UNCHANGED <<build, vertices, lastExt, lastEntry, stripe, extLock, work, slot,
                 tmp, abort, placed, extGrants>>

\* pthread_spin_unlock(&entry_lock); return orig, which insert_normal
\* keeps as its cursor off (lines 376, 432).
AllocUnlock(t) ==
  /\ pc[t] = "entry_unlock"
  /\ entryLock' = NoThread
  /\ entryGrants' = entryGrants \cup
       {[t |-> t, call |-> ip[t], lo |-> tmp[t], n |-> Cur(t).n]}
  /\ ip' = [ip EXCEPT ![t] = @ + 1]
  /\ off' = [off EXCEPT ![t] = tmp[t]]
  /\ Goto(t, "call")
  /\ UNCHANGED <<ptrs, edges, linked, vertices, lastExt, lastEntry, stripe,
                 extLock, work, slot, tmp, abort, placed, extGrants>>

-----------------------------------------------------------------------------
(* The writes insert_normal makes after insert_key returned slot_id,     *)
(* with no lock held.                                                    *)

\* vertices[slot_id].ptr = iptr_t(e - s, off), for the key of the insert
\* just made; the copy loop starts (tmp counts the values copied).
LinkPtr(t) ==
  /\ pc[t] = "call" /\ ip[t] <= Len(work[t]) /\ Cur(t).op = "link"
  /\ ptrs' = [ptrs EXCEPT ![slot[t]] = [size |-> Len(Cur(t).vals), off |-> off[t]]]
  /\ linked' = linked \cup {[key |-> work[t][ip[t] - 1].key, slot |-> slot[t],
                             off |-> off[t], vals |-> Cur(t).vals]}
  /\ tmp' = [tmp EXCEPT ![t] = 0]
  /\ Goto(t, "copy")
  /\ UNCHANGED <<edges, off, vertices, lastExt, lastEntry, stripe, extLock,
                 entryLock, work, ip, slot, abort, placed, extGrants, entryGrants>>

\* edges[off++].val = the next value.
CopyEdge(t) ==
  /\ pc[t] = "copy" /\ tmp[t] < Len(Cur(t).vals)
  /\ edges' = [edges EXCEPT ![off[t]] = Cur(t).vals[tmp[t] + 1]]
  /\ off' = [off EXCEPT ![t] = @ + 1]
  /\ tmp' = [tmp EXCEPT ![t] = @ + 1]
  /\ UNCHANGED <<ptrs, linked, vertices, lastExt, lastEntry, stripe, extLock,
                 entryLock, work, ip, pc, slot, abort, placed, extGrants, entryGrants>>

\* The run is copied: s = e, on to the next group.
CopyDone(t) ==
  /\ pc[t] = "copy" /\ tmp[t] = Len(Cur(t).vals)
  /\ ip' = [ip EXCEPT ![t] = @ + 1]
  /\ Goto(t, "call")
  /\ UNCHANGED <<build, vertices, lastExt, lastEntry, stripe, extLock,
                 entryLock, work, slot, tmp, abort, placed, extGrants, entryGrants>>

-----------------------------------------------------------------------------

Finished(t) == pc[t] = "call" /\ ip[t] > Len(work[t])

AllFinished == \A t \in Threads : Finished(t)

\* GStore::init() has cleared every key; the entry word is zeroed memory.
Init ==
  /\ vertices = [s \in 0..NumSlots |-> Empty]
  /\ lastExt \in LastExtInit
  /\ lastEntry = 0
  /\ stripe = [l \in 0..NumLocks - 1 |-> NoThread]
  /\ extLock = NoThread
  /\ entryLock = NoThread
  /\ work \in {w \in [Threads -> UNION {Programs[t] : t \in Threads}] :
                 \A t \in Threads : w[t] \in Programs[t]}
  /\ ip = [t \in Threads |-> 1]
  /\ pc = [t \in Threads |-> "call"]
  /\ slot = [t \in Threads |-> 0]
  /\ tmp = [t \in Threads |-> 0]
  /\ abort = "none"
  /\ placed = {}
  /\ extGrants = {}
  /\ entryGrants = {}
  /\ ptrs = [i \in 0..NumSlots |-> [size |-> 0, off |-> 0]]
  /\ edges = [i \in 0..NumEntries - 1 |-> 0]
  /\ off = [t \in Threads |-> 0]
  /\ linked = {}

Step(t) ==
  \/ InsertLock(t) \/ Loop(t) \/ ScanDup(t) \/ ScanEmpty(t) \/ ScanNext(t)
  \/ Write(t) \/ ChainFollow(t) \/ ChainEnd(t)
  \/ ExtLock(t) \/ ExtRead(t) \/ ExtLink(t) \/ ExtUnlock(t) \/ NewBucket(t)
  \/ Unlock(t) \/ Return(t)
  \/ AllocLock(t) \/ AllocRead(t) \/ AllocBump(t) \/ AllocUnlock(t)
  \/ LinkPtr(t) \/ CopyEdge(t) \/ CopyDone(t)

\* The build ends: every loader returned, or an assertion ended the process.
Terminated ==
  /\ AllFinished \/ ~Running
  /\ UNCHANGED vars

Next ==
  \/ Running /\ \E t \in Threads : Step(t)
  \/ Terminated

\* Loader threads are OS threads: each one that can step eventually does.
Spec == Init /\ [][Next]_vars /\ \A t \in Threads : WF_vars(Running /\ Step(t))

-----------------------------------------------------------------------------
(* get_vertex_local: the lookup a reader runs once the build is over.     *)
(* It scans the data slots of the bucket, then follows the chain slot     *)
(* ASSOCIATIVITY-1.  The result is the slot found, or NotFound.           *)

NotFound == -1
Diverges == -2

RECURSIVE LookupFrom(_, _, _)
LookupFrom(k, b, hops) ==
  LET base == b * ASSOCIATIVITY
      hits == {i \in 0..ASSOCIATIVITY - 2 : vertices[base + i] = k}
      link == vertices[base + ASSOCIATIVITY - 1]
  IN  IF hits # {}
        THEN base + CHOOSE i \in hits : \A j \in hits : i <= j
      ELSE IF link = Empty
        THEN NotFound
      ELSE IF hops > NumBucketsExt \/ link.vid >= NumBuckets + NumBucketsExt
        THEN Diverges
      ELSE LookupFrom(k, link.vid, hops + 1)

LookupLocal(k) == LookupFrom(k, BucketOf(k), 0)

-----------------------------------------------------------------------------
(* Properties                                                              *)

Phases == {"call", "loop", "scan", "write", "chain", "ext_lock", "ext_read",
           "ext_link", "ext_unlock", "new_bucket", "unlock", "check",
           "entry_read", "entry_bump", "entry_unlock", "copy"}

TypeOK ==
  /\ vertices \in [0..NumSlots -> Keys \cup {Empty} \cup
                      [vid : Nat, dir : Nat, pid : Nat]]
  /\ lastExt \in 0..NumBucketsExt /\ lastEntry \in Nat
  /\ stripe \in [0..NumLocks - 1 -> Threads \cup {NoThread}]
  /\ extLock \in Threads \cup {NoThread}
  /\ entryLock \in Threads \cup {NoThread}
  /\ ip \in [Threads -> Nat] /\ pc \in [Threads -> Phases]
  /\ slot \in [Threads -> Nat] /\ tmp \in [Threads -> Nat]
  /\ abort \in {"none", "duplicate", "ext_full", "bad_slot", "entry_full"}
  /\ off \in [Threads -> 0..NumEntries]

\* Overflow buckets: no two links made by insert_key name the same indirect
\* header, and every one lies inside the indirect-header region.  This is
\* what bucket_ext_lock and assert(last_ext < num_buckets_ext) provide
\* for the read-modify-write of last_ext shared by all loader threads.
ExtGrantsDistinct ==
  \A g, h \in extGrants :
     /\ g.b \in NumBuckets..(NumBuckets + NumBucketsExt - 1)
     /\ (g # h => g.b # h.b)

\* Entry region: the ranges [orig, orig+n) that sync_fetch_and_alloc_edges
\* returns to concurrent callers never overlap and end below num_entries,
\* so the adjacency lists the loaders copy in cannot overwrite each other.
EntryGrantsDisjoint ==
  \A g, h \in entryGrants :
     /\ g.lo + g.n < NumEntries
     /\ (g # h => g.lo + g.n <= h.lo \/ h.lo + h.n <= g.lo)

\* Spec invariant 2: no two insert_key calls of the same key both return;
\* the second one must reach the duplicate assertion.
DuplicateRejected ==
  \A p, q \in placed : p # q => p.key # q.key

\* The store holds what the loaders gave it: once every loader has
\* returned, each key insert_normal linked is still in the slot insert_key
\* returned for it, that slot's iptr_t is the one its loader stored, and
\* the entries it addresses are the key's values.  The ptr and the values
\* are written after the stripe lock is released, into a range taken from
\* the shared entry allocator, while other loaders insert and copy.
LoadedAsInput ==
  AllFinished /\ Running =>
    \A l \in linked :
      /\ vertices[l.slot] = l.key
      /\ ptrs[l.slot] = [size |-> Len(l.vals), off |-> l.off]
      /\ \A j \in 1..Len(l.vals) : edges[l.off + j - 1] = l.vals[j]

\* Spec invariant 1: once the build is over, get_vertex_local finds every
\* key insert_key placed, at the slot insert_key returned.
LookupFindsInserted ==
  AllFinished => \A p \in placed : LookupLocal(p.key) = p.slot

\* Every loader eventually returns from all its calls, unless an assertion
\* ends the process: no insert_key spins forever on a stripe lock or in
\* its chain walk.
BuildTerminates == <>(AllFinished \/ ~Running)

=============================================================================
