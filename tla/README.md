# A TLA+ development for nvmalloc

nvmalloc gives a program named allocations that survive the program. The heap
lives in memory-mapped files; the library keeps, in other mapped files, a
catalogue of regions and of the objects placed in them, and rebuilds its
in-memory indexes from that catalogue when the program starts again. What is
hard about it is what happens when the process dies between two stores to the
catalogue, and what the indexes say afterwards.

This directory holds TLA+ modules for the catalogue and for the search tree its
indexes are built on, TLC configurations that
check them on small instances, and TLAPS proofs of their safety properties for
all sizes. `PROJECT.json` lists components, runs, mutants, source lines,
findings, hazards and theorems in machine-readable form.

## 1. The system

The repository's own code is in `pvmobj/` and `checkpoint/`; `allocs/`,
`jemalloc/`, `hoard/`, `pmem_nvml/` and `compare_bench/` are vendored.

| component | state | operations | hard behaviour |
|---|---|---|---|
| **object store** `nv_map.cc` | process object (counters `num_mmaps`, `pesist_mmaps`, `meta_offset`), mmapobj slots, chunk slots (persistent); `mmapobj_tree`, one `chunkobj_tree` per mmapobj, `map_tree` (volatile) | `nv_initialize`/`load_process`, `_mmap`, `nv_record_chunk`, `nv_delete`, `nv_rename`, `nv_commit_len`, `nv_map_read` | death of the process between stores; two counters per list; indexes that outlive or predate what they index |
| **object name map** `util_func.cc` | map of names | insert, delete, list | a second index that must agree with the trees |
| **C interface** `c_io.cc` | protection thread, page-fault list | `nvinit_`, `p_c_nvalloc_`, `nvread_len`, `nvdelete`, `nv_renameobj`, commit | fault handler and protection thread communicate through a condition variable |
| **transactions** `nv_transact.cc`, **log manager** `LogMngr.cc` | record lists, a ring cache of chunks, a lock per chunk | begin, commit, abort, recover of words and objects | log does not survive the process; locks do |
| **spin locks** `gtthread_spinlocks.cc` | lock word | init, lock, unlock | no owner is recorded; the word outlives the process |
| **red-black tree** `rbtree.cc` | nodes | insert with replacement, lookup with a comparison function, delete | rebalancing |
| **chunk and vma maps** `hash_maps.cc` | address and vma maps | record, range lookup, size | address ranges that touch |
| **cache flushing** `cache_flush.cc` | none | flush a range | rounding to lines; only for power failures |
| **local checkpoint** `nv_checkpoint.cc`, `checkpoint.cc` | dirty bits, shared-memory lock, signals | checkpoint all chunks, copy dirty chunks | copier and application run concurrently |
| **remote checkpoint** `nv_rmtckpt.cc`, `armci_checkpoint.cc` | peers' buffers | send, receive | external ARMCI library |
| **statistics, debugging** | counters | count, print | none |

Interaction: the allocator (jemalloc, `allocs/`) asks the store for a region
with `_mmap`, places an object in it and reports it with `nv_record_chunk`. The
C interface turns an application's calls into requests (`rqst_s`) to the store.
Transactions and checkpointing walk the store's chunks. The default build
defines `_USENVRAM`, `_USE_FAKE_NVMAP`, `_OBJNAMEMAP` and `_USELOCKS`;
transactions, cache flushing, checkpointing, swizzling and the
`_NVRAM_OPTIMIZE` caches are off.

Correctness, per component:

* store: a restart reads only slots that were completely written; no two
  regions share a file; what a restart finds is what the running program found;
  deleted objects are gone; an object answers to its name and to no other;
* name map: it lists exactly the objects that can be read;
* protection thread: a fault that was queued is eventually served;
* transactions: an object is all old or all new after recovery, and no lock is
  left taken;
* tree: it is a finite map, ordered and balanced;
* checkpoint: a chunk written after the copy began is dirty at its end.

## 2. Modules

| module | content |
|---|---|
| `NVMap` | the object store, the object name map, and one application thread that makes requests and may die before any persistent store; its properties; mutants of its operations |
| `NVMapInv` | the inductive invariants `Structure` (all applications), `Plain` (applications without allocations over live names and without renames) and `Listing` (such applications, with names of different ids) |
| `NVMapProofs` | the TLAPS proof of `Structure` and of the properties it implies |
| `NVMapRestart` | the TLAPS proofs of `Plain` and `Listing`, and of what they imply: a restart is transparent, and the name map lists what can be read |
| `MCNVMap` | names, ids and request kinds for TLC |
| `RBTree` | the red-black tree, function by function, and mutants of it |
| `RBMap` | what the tree promises: a finite map with replacement |
| `MCRBTree` | a view for TLC that leaves out node addresses |

### `NVMap`

State. `proc`, `mmapobj` and `chunkobj` are the mapped files. Offsets are
counted in slots: `proc.meta` is `meta_offset` of the process object, divided
by `sizeof(mmapobj_s)`. A metadata file is named after its `vma_id`, so
`chunkobj` is indexed by `vma_id`; two mmapobjs with one `vma_id` would share a
file in the model as they would on disk. The trees are finite maps with
replacement, which is what `rbtree_insert` with an existing key does.
`chunk_tree_init` and `chunkobj_tree` are fields of the persistent mmapobj in
the code, but what they hold is an address of the process, so they are volatile
here and `chunk_tree_init[v] = FALSE` means that the pointer dangles. `pc` is
the place in the library that the thread has reached and `rq` is `rqst_s`
together with the local variables that outlive a store.

Granularity. A call is split at each persistent store after which a crash
leaves a different catalogue:

* `nv_record_chunk`: entry (the store into `chunkid` by
  `check_if_chunk_exists`), `create_mmapobj` (`meta_offset`), `fill_mmapobj`,
  `add_mmapobj_to_proc` (`pesist_mmaps++`), `create_chunkobj` (`meta_offset`),
  `add_chunkobj`, `count_chunkobj` (`numchunks++`), `copy_oldchunk`,
  `delete_oldchunk`;
* `nv_delete`: `commitsz = 0`, then `invalidate_chunk`;
* `nv_rename`: `chunkid`, then `rename_update`.

The stores that fill one slot are one step. A slot that is half filled is not
counted, no later run appends to its file (`OldMmapobjsFrozen`) or reads it
(`LoadedSlotsFilled`), so it cannot be told from an unfilled one. `Crash` is
enabled in every state of a running process; the files are shared mappings, so
executed stores survive.

Data. The contents of an object are not modelled; of its committed size the
model keeps whether it is zero. `gen_id_from_str` is a constant: any function
from names to positive numbers, collisions included. A region is its `vma_id`;
`locate_mmapobj_node` finds it by address in `map_tree`, which only knows the
regions of this run, hence the guard `v \in map_tree` of `nv_record_chunk`.

Requests. `Requests` says which kinds of request the application makes. An
allocation under a name that a live object has is the kind `"realloc"`: the
code handles it by copying the old object, and it is where the store's promises
end, so properties are stated for applications with and without it.

A request that the library answers without a store (a delete, rename or read of
a name it does not find) is not a step. `nv_commit_len` of such a name fails an
assertion, which is `Crash`.

### `RBTree`

State. `t` is the tree: its root and a heap of nodes with key, value, colour and
the three pointers. Each function of `rbtree.cc` that changes the tree
(`rbtree_insert`, `insert_case1` to `insert_case5`, `rbtree_delete`,
`delete_case1` to `delete_case6`) is an action; `pc` and `n` are the function to
be called next and its argument, `del` and `child` are the local variables of
`rbtree_delete` that its last part (`unlink`) still needs. Nothing runs
concurrently with a call; the steps are there so that properties can speak of
the tree in the middle of a call. `rotate` takes a side and stands for
`rotate_left` and `rotate_right`, which mirror each other; so do the two
branches of `insert_case4`, `insert_case5`, `delete_case5` and `delete_case6`.

A lookup is an operator, a recursive function along the child pointers. Keys are
numbers, as with `IntComp`. A node's address is a key; a new node gets a free
address, its own key if possible.

`RBMap` is the abstract specification: insert sets a key, delete clears it. The
refinement mapping `Contents` collects the keys and values of all nodes except
`del`, so a call takes effect in its first step and its rebalancing is a
stutter. `NVMap` uses the trees as such maps.

## 3. Runs

The runs of `NVMap` have two names with different ids. Bounds: `MaxMmaps` regions ever
mapped, `MaxMmapobjs` slots in the process file, `MaxChunks` slots in each
metadata file; the number of crashes and of requests is not bounded.

| run | requests | bounds | checks |
|---|---|---|---|
| `nvmap_all` | all | 2 / 2 / 1 | `TypeOK`, `Structure`, `VmaIdsUnique`, `TreeReady`, `OldMmapobjsFrozen` |
| `nvmap_keep` | alloc, realloc, rename | 2 / 2 / 2 | `LoadedSlotsFilled`, `FreshSlots` |
| `nvmap_plain` | alloc, delete, commit | 3 / 3 / 2 | `Plain`, `RestartTransparent`, `KeysLive`, `ListedIsReadable`, `DeletedHasNoCommit` |
| `nvmap_realloc` | all | 1 / 1 / 2 | `DeletesOldChunk` is violated |
| `nvmap_rename` | all | 1 / 1 / 2 | `RenameDeletesSource` is violated |
| `nvmap_loaded` | alloc, delete, commit | 2 / 2 / 1 | `AllMmapobjsLoaded` is violated |
| `nvmap_listed` | alloc, delete, commit | 4 / 4 / 1 | `ListIsComplete` is violated |
| `nvmap_collision` | all | 1 / 1 / 2 | `CollisionBearsName` is violated |

| run | keys, values | checks |
|---|---|---|
| `rbtree_map` | 5, 2 | `LookupFinds`, `ImplementsMap` |
| `rbtree_deep` | 10, 1 | `verify_properties`, `ParentsMirror`, `AssertionsHold`, `CallsReturn` |

Two regions are enough for a wasted slot followed by a used one, and for an id
that two regions hold; three add a restart between the wasted slot and the
second use. Two chunk slots are enough for an object and its replacement in one
file. These bounds do not reach everything that a crash between the two
mmapobj counters can lead to: a wasted slot, a region that a restart misses,
another object of the same name, and one more region, which makes a restart
read both, take four regions. So what `nvmap_plain` says of the states after
such a crash (`Drifted`) is not to be trusted to the bounds.
`RestartTransparent` and `ListedIsReadable` claim nothing there,
`Plain`, `KeysLive` and `DeletedHasNoCommit` are proved for all sizes (section
4), and `nvmap_listed`, with four regions, shows what becomes of the name map.
Deadlock is checked in every run and never occurs: a running process can
always crash and a stopped one can always start; a tree can always be inserted
into.

Five keys are all shapes of trees of up to five nodes, with every order of
insertions, replacements and deletions. They do not make `insert_case3` or
`delete_case3` go up to an inner node that then needs a rotation; ten keys do.
With ten keys, trees that differ only in which address holds which key would be
too many, so `rbtree_deep` identifies them (`ShapeView`): no function
looks at an address except to compare it, and neither do the properties. A
pointer to a freed node has a name of its own in the view, so that a state with
such a pointer is not taken for one with NULL in its place.

`CallsReturn` says that a call returns by a measure (`Remaining`) that each of
its functions decreases: the functions follow each other, and the two that
start over, `insert_case3` and `delete_case3`, do so with fewer black nodes
above. The measure is a natural number and no state inside a call is a
deadlock, so every call ends. As an action property it can be checked with ten
keys, where the recursion also goes to inner nodes; `~>` cannot, because TLC
does not check liveness under a view.

What the passing runs show:

* the order of the stores in `nv_record_chunk` is right for the chunk list: a
  slot is counted last, so `restore_chunk_objs` never meets an unwritten slot;
* the counters of the process file may drift apart and every slot is
  nevertheless written at most once;
* an mmapobj without chunks comes back from a restart with a dangling tree
  pointer, and `add_chunkobj` never meets it, because no region of an earlier
  run is allocated from again;
* the tree implements a finite map, is balanced after every call
  (`verify_properties`, which the code has but does not compile in), and never
  follows a missing pointer;
* as long as the counters have not drifted, an application that neither renames
  nor reuses live names finds after a restart exactly what it had before, and
  `get_object_list` reports exactly the names that it can read.

What the violation runs show:

* `nvmap_realloc`: allocating under a live name ends with the deletion of the
  *new* object, because `nv_delete` looks the id up again;
* `nvmap_rename`: the source name of a rename can still be read;
* `nvmap_collision`: after a rename, an allocation under the source name
  rewrites the id of the renamed object;
* `nvmap_loaded`: after one crash between lines 298 and 778 of `nv_map.cc`, the
  newest mmapobj is never among those a restart reads;
* `nvmap_listed`: after such a crash a name can end up with an object in a
  region that a restart missed and another in a newer one. When a later restart
  reads both, `nv_delete` invalidates the newer, takes the name out of the map,
  and the older can still be read.

Every property of a passing run has a mutant of an operation (named
`operation_fault`, placed before the operation) that violates it.

No fairness is assumed. The properties of `NVMap` are safety properties, and
`CallsReturn` is stated by a measure.

## 4. Proofs

The theorems hold for all sets of names, all hash functions into positive
numbers, all kinds of requests and all bounds (`NamesAssumption`,
`BoundsAssumption`, `RequestsAssumption`).

`Structure` is inductive. None of the properties is inductive alone:

* `LoadedSlotsFilled` needs that the slot counted next was written
  (`Call` at `count_chunkobj`) and lies directly behind the counted ones, which
  needs that `meta` and `numchunks` of a region of this run differ by exactly
  the chunk in progress (`Trees`);
* that in turn needs that a region of this run has no mmapobj from an earlier
  one, hence that vma_ids are never reused (`VmaIds`);
* `FreshSlots` needs that everything behind `meta` is zero (`ProcFile`,
  `MetaFiles`), including metadata files that have no mmapobj yet.

`NVMapProofs` has a lemma per action (`...Structure`), for some of them one that
says what the action changes (`...Effect`), lemmas about the lookups
(`FindVma`, `GetChunk`) and about what a restart loads (`LoadedMmapobjLemma`,
`LoadedSlotsLemma`, `LoadedChunkLemma`), and the theorems `StructureInvariant`,
`TypeCorrect`, `VmaIdsUniqueCorrect`, `LoadedSlotsFilledCorrect`,
`FreshSlotsCorrect`, `TreeReadyCorrect` and `OldMmapobjsFrozenCorrect`.

`Plain` is inductive together with `Structure`, for applications whose requests
are among alloc, delete and commit (`Requests \subseteq PlainKinds`, the
assumption of the theorems of `NVMapRestart`). `RestartTransparent` compares two
lookups that both take the largest region holding an id. It needs, in both
directions, that trees and slots agree: a key leads to a live counted slot with
that id (`EntriesLive`), a live counted slot is found under its id
(`LiveIndexed`), and every mmapobj is in the tree unless the counters drifted
(`AllIndexed`). `restore_chunk_objs` inserts slots in order and a later one wins;
that this order does not matter is `OneLivePerId`. Deleting must not invalidate
another slot than the one its key leads to, which is what `PlainRqst` says of a
call in progress. The theorems are `PlainInvariant`, `RestartTransparentCorrect`,
`KeysLiveCorrect` and `DeletedHasNoCommitCorrect`.

`Listing` is inductive together with `Structure` and `Plain`, for such
applications and names with different ids (`NamesDiffer`).
`ListedIsReadable` compares the name map with the trees, and it holds while the
counters have not drifted. That the map is the set of names whose id some tree
holds (`MapIsIndex`) survives a delete only if the id is in one tree: the live
chunks that carry an id are all in one region (`OneRegionPerId`), and the id
of the object being added has no key elsewhere (`KeyIsNew`). `OneRegionPerId`
is what a drift destroys, since a restart misses a region and its names look
free. That a restart rebuilds the same map needs that every slot carries the
id of its name (`SlotsHashed`), and so does the request that writes it
(`RqstHashed`). The theorems are `ListingInvariant` and
`ListedIsReadableCorrect`.

Only model-checked: the properties of `RBTree`, and the violations.

## 5. Not modelled

* Power failures. The model's crash is the death of a process; stores are not
  lost. The default build does not flush caches.
* Torn creation of the process file: `create_or_load_proc_obj` creates the file
  and `intialize_proc_obj` fills it; a crash in between is not a state of the
  model.
* The unchecked limits of the files: the model stops at its bounds, the code
  writes on.
* Several threads. The store has one mutex, `nvmmap_mutex`, taken by
  `nv_map_read` and by `mmap_wrap` around the mapping of a file; the other
  operations take none.
* What an interrupted delete gives back. A crash between the two stores of
  `nv_delete` is a step of the model and leaves a live object with committed size
  0, which `nv_map_read` returns after a restart. The code does not say what the
  object should be then, so no property is stated.
* The components marked `not_modelled` in `PROJECT.json`.

## 6. Plan

1. Several allocator threads in `_mmap` and `nv_record_chunk`, and the torn
   creation of the process file.
2. Spin locks and transactions: a module for the log manager's record lists, one
   for object transactions with crash and recovery, and an abstract atomic
   object that they should implement.
3. The address-range lookups: trees ordered by `CompRange`, and regions that
   `map_tree` remembers after they are gone.
4. The protection thread and fault handler, with liveness of the queued fault.
5. Local checkpointing: copier and application, dirty bits, the shared lock.
6. An abstract durable map that `NVMap` implements for plain applications
   without drift.
