------------------------------- MODULE NVMap -------------------------------
(***************************************************************************)
(* The persistent object store of pvmobj/nv_map.cc.                        *)
(*                                                                         *)
(* A process object (proc_s) at the head of a mapped file is followed by   *)
(* slots for mmapobjs (mmapobj_s), one per region the allocator mapped.    *)
(* Every mmapobj has a metadata file of its own, named after its vma_id,   *)
(* with slots for chunk objects (chunkobj_s), one per named allocation.    *)
(* Slots are only ever appended; two persistent counters say how many      *)
(* slots there are: meta_offset (where the next slot goes) and             *)
(* pesist_mmaps / numchunks (how many slots a restart reads).              *)
(* Red-black trees and maps in ordinary memory index the slots; they die   *)
(* with the process and load_process rebuilds them.                        *)
(*                                                                         *)
(* One application thread calls the library, and the process may die       *)
(* before any store to persistent memory.  The files are shared mappings,  *)
(* so a store that was executed survives the process.                      *)
(***************************************************************************)
EXTENDS Naturals, FiniteSets, FiniteSetsExt

CONSTANTS
    Names,            \* object names the application uses
    NoName,           \* the objname of a slot that was never written
    gen_id_from_str,  \* the hash that turns a name into a chunk id
    Requests,         \* the kinds of request the application makes
    MaxMmaps,         \* bound on num_mmaps, the regions ever mapped
    MaxMmapobjs,      \* slots in the process file (PROC_METADAT_SZ)
    MaxChunks         \* slots in a metadata file (MMAP_METADATA_SZ)

\* chunk ids are positive: get_chunk asserts it
ASSUME NamesAssumption ==
    /\ NoName \notin Names
    /\ gen_id_from_str \in [Names -> Nat \ {0}]

ASSUME BoundsAssumption ==
    /\ MaxMmaps \in Nat
    /\ MaxMmapobjs \in Nat
    /\ MaxChunks \in Nat

\* "alloc" is an allocation under a name that no live object has, "realloc"
\* one under a name that a live object has
ASSUME RequestsAssumption ==
    Requests \subseteq {"alloc", "realloc", "delete", "rename", "commit"}

VARIABLES
    \* persistent: they survive Crash
    proc,            \* the counters of proc_s, meta counted in slots
    mmapobj,         \* the mmapobj slots of the process file
    chunkobj,        \* the chunk slots of each metadata file, by vma_id
    \* volatile: they start empty in every run of the program
    mmapobj_tree,    \* vma_id -> mmapobj slot, 0 when absent
    chunk_tree_init, \* vma_id -> has the chunk tree of the mmapobj been made
    chunkobj_tree,   \* vma_id -> chunk id -> chunk slot
    map_tree,        \* the vma_ids mapped by this run of the program
    objnamemap,      \* the names get_object_list reports
    pc,              \* where in the library the application thread is
    rq               \* the request being served

persistent == <<proc, mmapobj, chunkobj>>
index == <<mmapobj_tree, chunk_tree_init, chunkobj_tree, map_tree, objnamemap>>
vars == <<persistent, index, pc, rq>>

Vmas == 1 .. MaxMmaps
Mslots == 1 .. MaxMmapobjs
Cslots == 1 .. MaxChunks
Ids == {gen_id_from_str[n] : n \in Names}

\* A chunkobj_s pointer: the metadata file and the slot in it; what it points
\* to, and a store through it.
Ptrs == Vmas \X Cslots
NoPtr == <<0, 0>>
At(p) == chunkobj[p[1]][p[2]]
Store(p, c) == chunkobj' = [chunkobj EXCEPT ![p[1]][p[2]] = c]

\* Slots as the freshly truncated file has them.  VALID is 0, so a slot that
\* was never written counts as valid.
ZeroMmapobj == [vma_id |-> 0, numchunks |-> 0, meta |-> 0]
ZeroChunk == [chunkid |-> 0, objname |-> NoName, commitsz |-> 0, valid |-> TRUE]

NoRqst == [name |-> NoName, id |-> 0, dest |-> NoName, vma |-> 0,
           old |-> NoPtr, new |-> NoPtr, del |-> NoPtr]

EmptyTree == [id \in Ids |-> NoPtr]

-----------------------------------------------------------------------------
(* Lookups in the volatile index *)

MaxOr0(S) == IF S = {} THEN 0 ELSE Max(S)

\* The tree of mmapobjs is walked right subtree, node, left subtree: the
\* largest vma_id whose chunk tree holds the id wins.
find_vmaid_from_chunk(id) ==
    MaxOr0({v \in Vmas : /\ mmapobj_tree[v] # 0
                         /\ chunk_tree_init[v]
                         /\ chunkobj_tree[v][id] # NoPtr})

get_chunk(id) ==
    LET v == find_vmaid_from_chunk(id)
    IN  IF v = 0 THEN NoPtr ELSE chunkobj_tree[v][id]

check_if_chunk_exists(id) ==
    LET p == get_chunk(id)
    IN  IF p # NoPtr /\ At(p).valid THEN p ELSE NoPtr

\* What the application gets for a name: the chunk, or NULL.
nv_map_read(n) ==
    LET p == get_chunk(gen_id_from_str[n])
    IN  IF p # NoPtr /\ At(p).valid THEN p ELSE NoPtr

\* The map of names that get_object_list reports.
objnamemap_insert(S, n) == S \cup {n}
objnamemap_delete(S, n) == S \ {n}

-----------------------------------------------------------------------------
(* What load_process finds in the persistent slots *)

\* The slot that ends up in the tree under v: slots are inserted in order and
\* a later one with the same key replaces an earlier one.
LoadedMmapobj(v) ==
    MaxOr0({i \in 1 .. proc.pesist_mmaps : mmapobj[i].vma_id = v})

\* Mutant: reads the slots that meta_offset covers instead of numchunks.
LoadedSlots_meta(v) ==
    IF LoadedMmapobj(v) = 0 THEN {}
    ELSE {j \in 1 .. mmapobj[LoadedMmapobj(v)].meta : chunkobj[v][j].valid}

\* The slots of file v that restore_chunk_objs inserts.
LoadedSlots(v) ==
    IF LoadedMmapobj(v) = 0 THEN {}
    ELSE {j \in 1 .. mmapobj[LoadedMmapobj(v)].numchunks : chunkobj[v][j].valid}

LoadedChunk(v, id) ==
    LET j == MaxOr0({k \in LoadedSlots(v) : chunkobj[v][k].chunkid = id})
    IN  IF j = 0 THEN NoPtr ELSE <<v, j>>

\* What get_chunk(id) would return if the process restarted now.
Recovered(id) ==
    LET v == MaxOr0({w \in Vmas : LoadedChunk(w, id) # NoPtr})
    IN  IF v = 0 THEN NoPtr ELSE LoadedChunk(v, id)

-----------------------------------------------------------------------------
Init ==
    /\ proc = [num_mmaps |-> 0, pesist_mmaps |-> 0, meta |-> 0]
    /\ mmapobj = [i \in Mslots |-> ZeroMmapobj]
    /\ chunkobj = [v \in Vmas |-> [j \in Cslots |-> ZeroChunk]]
    /\ mmapobj_tree = [v \in Vmas |-> 0]
    /\ chunk_tree_init = [v \in Vmas |-> FALSE]
    /\ chunkobj_tree = [v \in Vmas |-> EmptyTree]
    /\ map_tree = {}
    /\ objnamemap = {}
    /\ pc = "down"
    /\ rq = NoRqst

\* Mutant: restarts the numbering of regions from the mmapobjs it read.
load_process_renumber ==
    /\ mmapobj_tree' = [v \in Vmas |-> LoadedMmapobj(v)]
    /\ chunk_tree_init' =
         [v \in Vmas |-> /\ LoadedMmapobj(v) # 0
                         /\ mmapobj[LoadedMmapobj(v)].numchunks > 0]
    /\ chunkobj_tree' = [v \in Vmas |-> [id \in Ids |-> LoadedChunk(v, id)]]
    /\ objnamemap' =
         {At(p).objname : p \in {q \in Ptrs : q[2] \in LoadedSlots(q[1])}}
    /\ proc' = [proc EXCEPT !.num_mmaps = proc.pesist_mmaps]
    /\ UNCHANGED <<mmapobj, chunkobj>>

\* Mutant: does not restore the names.
load_process_nonames ==
    /\ mmapobj_tree' = [v \in Vmas |-> LoadedMmapobj(v)]
    /\ chunk_tree_init' =
         [v \in Vmas |-> /\ LoadedMmapobj(v) # 0
                         /\ mmapobj[LoadedMmapobj(v)].numchunks > 0]
    /\ chunkobj_tree' = [v \in Vmas |-> [id \in Ids |-> LoadedChunk(v, id)]]
    /\ UNCHANGED <<persistent, objnamemap>>

\* Rebuild the index from the slots that the counters cover.
load_process ==
    /\ mmapobj_tree' = [v \in Vmas |-> LoadedMmapobj(v)]
    /\ chunk_tree_init' =
         [v \in Vmas |-> /\ LoadedMmapobj(v) # 0
                         /\ mmapobj[LoadedMmapobj(v)].numchunks > 0]
    /\ chunkobj_tree' = [v \in Vmas |-> [id \in Ids |-> LoadedChunk(v, id)]]
    /\ objnamemap' =
         {At(p).objname : p \in {q \in Ptrs : q[2] \in LoadedSlots(q[1])}}
    /\ UNCHANGED persistent

\* nvinit: create the process file or map the existing one, and load it.
\* map_tree is not rebuilt.
nv_initialize ==
    /\ pc = "down"
    /\ load_process
    /\ pc' = "idle"
    /\ UNCHANGED <<map_tree, rq>>

\* The process dies, at any point of any call.
Crash ==
    /\ pc # "down"
    /\ mmapobj_tree' = [v \in Vmas |-> 0]
    /\ chunk_tree_init' = [v \in Vmas |-> FALSE]
    /\ chunkobj_tree' = [v \in Vmas |-> EmptyTree]
    /\ map_tree' = {}
    /\ objnamemap' = {}
    /\ pc' = "down"
    /\ rq' = NoRqst
    /\ UNCHANGED persistent

\* The allocator maps a new region; its vma_id is the next number.
_mmap ==
    /\ pc = "idle"
    /\ proc.num_mmaps < MaxMmaps
    /\ proc' = [proc EXCEPT !.num_mmaps = @ + 1]
    /\ map_tree' = map_tree \cup {proc.num_mmaps + 1}
    /\ UNCHANGED <<mmapobj, chunkobj, mmapobj_tree, chunk_tree_init,
                   chunkobj_tree, objnamemap, pc, rq>>

-----------------------------------------------------------------------------
(* nv_record_chunk: the allocator placed a new object in region v *)

\* Mutant: also places objects in regions that an earlier run mapped.
nv_record_chunk_anyregion(n, v) ==
    LET id == gen_id_from_str[n]
        old == check_if_chunk_exists(id)
    IN  /\ pc = "idle"
        /\ (IF old = NoPtr THEN "alloc" ELSE "realloc") \in Requests
        /\ v \in map_tree \/ mmapobj_tree[v] # 0
        /\ IF mmapobj_tree[v] = 0
           THEN proc.meta < MaxMmapobjs /\ MaxChunks > 0
           ELSE mmapobj[mmapobj_tree[v]].meta < MaxChunks
        /\ IF old = NoPtr
           THEN UNCHANGED chunkobj
           ELSE Store(old, [At(old) EXCEPT !.chunkid = id])
        /\ rq' = [NoRqst EXCEPT !.name = n, !.id = id, !.vma = v, !.old = old]
        /\ pc' = IF mmapobj_tree[v] = 0
                 THEN "create_mmapobj" ELSE "create_chunkobj"
        /\ UNCHANGED <<proc, mmapobj, index>>

\* check_if_chunk_exists also stores the id of the requested name into the
\* chunk it found.
nv_record_chunk(n, v) ==
    LET id == gen_id_from_str[n]
        old == check_if_chunk_exists(id)
    IN  /\ pc = "idle"
        /\ (IF old = NoPtr THEN "alloc" ELSE "realloc") \in Requests
        /\ v \in map_tree
        /\ IF mmapobj_tree[v] = 0
           THEN proc.meta < MaxMmapobjs /\ MaxChunks > 0
           ELSE mmapobj[mmapobj_tree[v]].meta < MaxChunks
        /\ IF old = NoPtr
           THEN UNCHANGED chunkobj
           ELSE Store(old, [At(old) EXCEPT !.chunkid = id])
        /\ rq' = [NoRqst EXCEPT !.name = n, !.id = id, !.vma = v, !.old = old]
        /\ pc' = IF mmapobj_tree[v] = 0
                 THEN "create_mmapobj" ELSE "create_chunkobj"
        /\ UNCHANGED <<proc, mmapobj, index>>

\* Mutant: the next slot is the one behind the counted ones.
create_mmapobj_reuse ==
    /\ pc = "create_mmapobj"
    /\ proc' = [proc EXCEPT !.meta = proc.pesist_mmaps + 1]
    /\ pc' = "fill_mmapobj"
    /\ UNCHANGED <<mmapobj, chunkobj, index, rq>>

\* create_mmapobj moves meta_offset first ...
create_mmapobj ==
    /\ pc = "create_mmapobj"
    /\ proc' = [proc EXCEPT !.meta = @ + 1]
    /\ pc' = "fill_mmapobj"
    /\ UNCHANGED <<mmapobj, chunkobj, index, rq>>

\* ... then writes the slot, truncates the metadata file and makes the chunk
\* tree.  numchunks and meta_offset of the slot are not written: the slot is
\* taken to be zero.
fill_mmapobj ==
    /\ pc = "fill_mmapobj"
    /\ mmapobj' = [mmapobj EXCEPT ![proc.meta].vma_id = rq.vma]
    /\ chunkobj' = [chunkobj EXCEPT ![rq.vma] = [j \in Cslots |-> ZeroChunk]]
    /\ mmapobj_tree' = [mmapobj_tree EXCEPT ![rq.vma] = proc.meta]
    /\ chunk_tree_init' = [chunk_tree_init EXCEPT ![rq.vma] = TRUE]
    /\ chunkobj_tree' = [chunkobj_tree EXCEPT ![rq.vma] = EmptyTree]
    /\ pc' = "count_mmapobj"
    /\ UNCHANGED <<proc, map_tree, objnamemap, rq>>

\* add_mmapobj_to_proc counts the slot last.
add_mmapobj_to_proc ==
    /\ pc = "count_mmapobj"
    /\ proc' = [proc EXCEPT !.pesist_mmaps = @ + 1]
    /\ pc' = "create_chunkobj"
    /\ UNCHANGED <<mmapobj, chunkobj, index, rq>>

\* Mutant: the slot is counted before it is written.
create_chunkobj_countfirst ==
    /\ pc = "create_chunkobj"
    /\ mmapobj' = [mmapobj EXCEPT ![mmapobj_tree[rq.vma]].meta = @ + 1,
                                  ![mmapobj_tree[rq.vma]].numchunks = @ + 1]
    /\ rq' = [rq EXCEPT !.new = <<rq.vma, mmapobj[mmapobj_tree[rq.vma]].meta + 1>>]
    /\ pc' = "fill_chunkobj"
    /\ UNCHANGED <<proc, chunkobj, index>>

\* The next slot of the metadata file is taken by moving its meta_offset.
create_chunkobj ==
    /\ pc = "create_chunkobj"
    /\ mmapobj' = [mmapobj EXCEPT ![mmapobj_tree[rq.vma]].meta = @ + 1]
    /\ rq' = [rq EXCEPT !.new = <<rq.vma, mmapobj[mmapobj_tree[rq.vma]].meta + 1>>]
    /\ pc' = "fill_chunkobj"
    /\ UNCHANGED <<proc, chunkobj, index>>

\* The chunk that a request describes.
update_chunkobj(r) ==
    [chunkid |-> r.id, objname |-> r.name, commitsz |-> 0, valid |-> TRUE]

\* Mutant: the chunk is not entered in the tree.
add_chunkobj_nokey ==
    /\ pc = "fill_chunkobj"
    /\ Store(rq.new, update_chunkobj(rq))
    /\ objnamemap' = objnamemap_insert(objnamemap, rq.name)
    /\ pc' = "count_chunkobj"
    /\ UNCHANGED <<proc, mmapobj, mmapobj_tree, chunk_tree_init, chunkobj_tree,
                   map_tree, rq>>

\* The slot is written, then entered in the tree and in the name map.
add_chunkobj ==
    /\ pc = "fill_chunkobj"
    /\ Store(rq.new, update_chunkobj(rq))
    /\ chunkobj_tree' = [chunkobj_tree EXCEPT ![rq.vma][rq.id] = rq.new]
    /\ objnamemap' = objnamemap_insert(objnamemap, rq.name)
    /\ pc' = "count_chunkobj"
    /\ UNCHANGED <<proc, mmapobj, mmapobj_tree, chunk_tree_init, map_tree, rq>>

\* numchunks++; without an older object of that name the call returns.
count_chunkobj ==
    /\ pc = "count_chunkobj"
    /\ mmapobj' = [mmapobj EXCEPT ![mmapobj_tree[rq.vma]].numchunks = @ + 1]
    /\ IF rq.old = NoPtr
       THEN pc' = "idle" /\ rq' = NoRqst
       ELSE pc' = "copy" /\ rq' = rq
    /\ UNCHANGED <<proc, chunkobj, index>>

\* The older object's contents and committed size move to the new one, and
\* the request is rewritten to delete the older object.
copy_oldchunk ==
    /\ pc = "copy"
    /\ Store(rq.new, [At(rq.new) EXCEPT !.commitsz = At(rq.old).commitsz])
    /\ rq' = [rq EXCEPT !.name = At(rq.old).objname]
    /\ pc' = "delete"
    /\ UNCHANGED <<proc, mmapobj, index>>

-----------------------------------------------------------------------------
(* nv_delete, called by the application or at the end of nv_record_chunk *)

\* Mutant: the committed size stays.
ClearCommit_keep(p) ==
    /\ pc' = "invalidate"
    /\ UNCHANGED <<persistent, index>>

\* get_chunk, then commitsz = 0
ClearCommit(p) ==
    /\ Store(p, [At(p) EXCEPT !.commitsz = 0])
    /\ pc' = "invalidate"
    /\ UNCHANGED <<proc, mmapobj, index>>

nv_delete(n) ==
    LET p == get_chunk(gen_id_from_str[n])
    IN  /\ pc = "idle"
        /\ "delete" \in Requests
        /\ p # NoPtr
        /\ ClearCommit(p)
        /\ rq' = [NoRqst EXCEPT !.name = n, !.id = gen_id_from_str[n], !.del = p]

\* The request carries the id of the name, so the chunk is looked up again.
delete_oldchunk ==
    LET p == get_chunk(rq.id)
    IN  /\ pc = "delete"
        /\ IF p = NoPtr
           THEN pc' = "idle" /\ rq' = NoRqst /\ UNCHANGED <<persistent, index>>
           ELSE ClearCommit(p) /\ rq' = [rq EXCEPT !.del = p]

\* Mutant: the slot is not marked invalid.
invalidate_chunk_keepvalid ==
    LET id == At(rq.del).chunkid
        v == find_vmaid_from_chunk(id)
    IN  /\ pc = "invalidate"
        /\ IF v = 0
           THEN UNCHANGED <<chunkobj_tree, objnamemap>>
           ELSE /\ chunkobj_tree' = [chunkobj_tree EXCEPT ![v][id] = NoPtr]
                /\ objnamemap' = objnamemap_delete(objnamemap, rq.name)
        /\ pc' = "idle"
        /\ rq' = NoRqst
        /\ UNCHANGED <<persistent, mmapobj_tree, chunk_tree_init, map_tree>>

\* Mutant: the key stays in the tree.
invalidate_chunk_keepkey ==
    /\ pc = "invalidate"
    /\ Store(rq.del, [At(rq.del) EXCEPT !.valid = FALSE])
    /\ objnamemap' = objnamemap_delete(objnamemap, rq.name)
    /\ pc' = "idle"
    /\ rq' = NoRqst
    /\ UNCHANGED <<proc, mmapobj, mmapobj_tree, chunk_tree_init, chunkobj_tree,
                   map_tree>>

\* valid = INVALID, then the key the chunk carries now is removed from the
\* tree that holds it.
invalidate_chunk ==
    LET id == At(rq.del).chunkid
        v == find_vmaid_from_chunk(id)
    IN  /\ pc = "invalidate"
        /\ Store(rq.del, [At(rq.del) EXCEPT !.valid = FALSE])
        /\ IF v = 0
           THEN UNCHANGED <<chunkobj_tree, objnamemap>>
           ELSE /\ chunkobj_tree' = [chunkobj_tree EXCEPT ![v][id] = NoPtr]
                /\ objnamemap' = objnamemap_delete(objnamemap, rq.name)
        /\ pc' = "idle"
        /\ rq' = NoRqst
        /\ UNCHANGED <<proc, mmapobj, mmapobj_tree, chunk_tree_init, map_tree>>

-----------------------------------------------------------------------------
(* nv_rename *)

\* The chunk found under the source name gets the id of the destination.
nv_rename(src, dest) ==
    LET p == get_chunk(gen_id_from_str[src])
        v == find_vmaid_from_chunk(At(p).chunkid)
    IN  /\ pc = "idle"
        /\ "rename" \in Requests
        /\ p # NoPtr
        /\ v # 0
        /\ Store(p, [At(p) EXCEPT !.chunkid = gen_id_from_str[dest]])
        /\ rq' = [NoRqst EXCEPT !.name = src, !.id = gen_id_from_str[dest],
                                !.dest = dest, !.vma = v, !.old = p]
        /\ pc' = "rename"
        /\ UNCHANGED <<proc, mmapobj, index>>

\* objname, valid, the new key and the two name-map updates.  The key of the
\* source name stays in the tree.
rename_update ==
    /\ pc = "rename"
    /\ Store(rq.old, [At(rq.old) EXCEPT !.objname = rq.dest, !.valid = TRUE])
    /\ chunkobj_tree' = [chunkobj_tree EXCEPT ![rq.vma][rq.id] = rq.old]
    /\ objnamemap' =
         objnamemap_insert(objnamemap_delete(objnamemap, rq.name), rq.dest)
    /\ pc' = "idle"
    /\ rq' = NoRqst
    /\ UNCHANGED <<proc, mmapobj, mmapobj_tree, chunk_tree_init, map_tree>>

-----------------------------------------------------------------------------
\* The committed size is 0 or 1: nothing, or something, is committed.
nv_commit_len(n) ==
    LET p == get_chunk(gen_id_from_str[n])
    IN  /\ pc = "idle"
        /\ "commit" \in Requests
        /\ p # NoPtr
        /\ Store(p, [At(p) EXCEPT !.commitsz = 1])
        /\ UNCHANGED <<proc, mmapobj, index, pc, rq>>

Next ==
    \/ nv_initialize
    \/ Crash
    \/ _mmap
    \/ \E n \in Names, v \in Vmas : nv_record_chunk(n, v)
    \/ create_mmapobj
    \/ fill_mmapobj
    \/ add_mmapobj_to_proc
    \/ create_chunkobj
    \/ add_chunkobj
    \/ count_chunkobj
    \/ copy_oldchunk
    \/ \E n \in Names : nv_delete(n)
    \/ delete_oldchunk
    \/ invalidate_chunk
    \/ \E src, dest \in Names : nv_rename(src, dest)
    \/ rename_update
    \/ \E n \in Names : nv_commit_len(n)

Spec == Init /\ [][Next]_vars

-----------------------------------------------------------------------------
(* Properties that hold for every mix of requests and crashes *)

ChunkobjType == [chunkid : Ids \cup {0}, objname : Names \cup {NoName},
                 commitsz : {0, 1}, valid : BOOLEAN]

Pcs == {"down", "idle", "create_mmapobj", "fill_mmapobj", "count_mmapobj",
        "create_chunkobj", "fill_chunkobj", "count_chunkobj", "copy", "delete",
        "invalidate", "rename"}

\* Every piece of state has its type; the counters stay inside the files, and
\* get_object_list reports only names an application used.
TypeOK ==
    /\ proc \in [num_mmaps : 0 .. MaxMmaps, pesist_mmaps : 0 .. MaxMmapobjs,
                 meta : 0 .. MaxMmapobjs]
    /\ mmapobj \in [Mslots -> [vma_id : 0 .. MaxMmaps, numchunks : 0 .. MaxChunks,
                               meta : 0 .. MaxChunks]]
    /\ chunkobj \in [Vmas -> [Cslots -> ChunkobjType]]
    /\ mmapobj_tree \in [Vmas -> 0 .. MaxMmapobjs]
    /\ chunk_tree_init \in [Vmas -> BOOLEAN]
    /\ chunkobj_tree \in [Vmas -> [Ids -> Ptrs \cup {NoPtr}]]
    /\ map_tree \subseteq Vmas
    /\ objnamemap \subseteq Names
    /\ pc \in Pcs
    /\ rq \in [name : Names \cup {NoName}, id : Ids \cup {0},
               dest : Names \cup {NoName}, vma : 0 .. MaxMmaps,
               old : Ptrs \cup {NoPtr}, new : Ptrs \cup {NoPtr},
               del : Ptrs \cup {NoPtr}]

\* No two mmapobjs ever share a vma_id, hence a metadata file, in any run of
\* the program: num_mmaps only grows and survives every crash.
VmaIdsUnique ==
    \A i, k \in Mslots :
        mmapobj[i].vma_id # 0 /\ mmapobj[i].vma_id = mmapobj[k].vma_id => i = k

\* Every chunk slot that numchunks covers was completely written, wherever the
\* process died: restore_chunk_objs never reads a slot without a name.
LoadedSlotsFilled ==
    \A i \in Mslots : mmapobj[i].vma_id # 0 =>
        \A j \in 1 .. mmapobj[i].numchunks :
            LET c == chunkobj[mmapobj[i].vma_id][j]
            IN  c.objname \in Names /\ c.chunkid \in Ids

\* create_mmapobj leaves numchunks and meta_offset as it finds them, and a
\* slot of a metadata file is appended only once: the slot about to be written
\* is all zero, also after crashes that wasted slots.
FreshSlots ==
    /\ pc = "fill_mmapobj" => mmapobj[proc.meta] = ZeroMmapobj
    /\ pc = "fill_chunkobj" => chunkobj[rq.new[1]][rq.new[2]] = ZeroChunk

\* add_chunkobj "assumes that the caller has initialized the chunkobj_tree":
\* the mmapobj it is given has a tree made by this run of the program, never
\* the dangling pointer a restart leaves in an mmapobj without chunks.
TreeReady ==
    /\ pc \in {"create_chunkobj", "fill_chunkobj", "count_chunkobj"} =>
         mmapobj_tree[rq.vma] # 0 /\ chunk_tree_init[rq.vma]
    /\ pc = "rename" => mmapobj_tree[rq.vma] # 0 /\ chunk_tree_init[rq.vma]

\* After a restart the regions of earlier runs get no new chunks: a slot that
\* a crash left half written stays outside numchunks for ever.
OldMmapobjsFrozen ==
    [][\A i \in Mslots :
         mmapobj[i].vma_id # 0 /\ mmapobj[i].vma_id \notin map_tree
            => mmapobj'[i] = mmapobj[i]]_vars

-----------------------------------------------------------------------------
(* Properties of an application that does not allocate under a live name   *)
(* and does not rename                                                     *)

\* meta_offset and pesist_mmaps agree unless a crash came between them.
Drifted == proc.meta # proc.pesist_mmaps

\* Between two calls, a restart would find for every id the chunk that the
\* running program finds: the index and the slots describe the same objects.
RestartTransparent ==
    pc = "idle" /\ ~Drifted => \A id \in Ids : get_chunk(id) = Recovered(id)

\* A key of a chunk tree leads to a live chunk that carries this key.
KeysLive ==
    pc = "idle" => \A v \in Vmas, id \in Ids :
        chunkobj_tree[v][id] # NoPtr =>
            At(chunkobj_tree[v][id]).valid /\ At(chunkobj_tree[v][id]).chunkid = id

\* get_object_list reports exactly the names that nv_map_read finds, when
\* names do not collide and no crash came between the two counters.
ListedIsReadable ==
    pc = "idle" /\ ~Drifted => objnamemap = {n \in Names : nv_map_read(n) # NoPtr}

\* A deleted chunk has no committed bytes, so that a commit never lands on an
\* object that was deleted.
DeletedHasNoCommit ==
    \A v \in Vmas, j \in Cslots :
        ~chunkobj[v][j].valid => chunkobj[v][j].commitsz = 0

-----------------------------------------------------------------------------
(* What the source says and the code does not do *)

\* "deleting obj %s", printed with oldchunk->objname: the chunk that
\* nv_record_chunk deletes is the older one.
DeletesOldChunk ==
    pc = "invalidate" /\ rq.old # NoPtr => rq.del = rq.old

\* "delete source": once nv_rename is done, the source name is gone.
RenameDeletesSource ==
    [][pc = "rename" /\ pc' = "idle" =>
         \A n \in Names : n = rq.name /\ gen_id_from_str[n] # rq.id
            => nv_map_read(n)' = NoPtr]_vars

\* "Read all the mmapobjs": a restart reads every mmapobj in use.
AllMmapobjsLoaded ==
    pc = "idle" => \A v \in Vmas : mmapobj_tree[v] <= proc.pesist_mmaps

\* "Get the object name list": every object that nv_map_read finds is in it.
\* Once the counters have drifted, a restart misses a region and its names are
\* allocated again; when a later restart finds both objects of a name,
\* nv_delete unlists the name and leaves one of them.
ListIsComplete ==
    pc = "idle" => \A n \in Names : nv_map_read(n) # NoPtr => n \in objnamemap

\* "FOUND COLLISION CHUNKNAME %s", printed with the requested name: the chunk
\* that check_if_chunk_exists returns, and whose id it rewrites, bears it.
CollisionBearsName ==
    pc \in {"create_mmapobj", "create_chunkobj"} /\ rq.old # NoPtr
        => At(rq.old).objname = rq.name
=============================================================================
