----------------------------- MODULE NVMapInv ------------------------------
(***************************************************************************)
(* The inductive invariant of NVMap: what makes its safety properties hold *)
(* for every mix of requests and crashes.                                  *)
(***************************************************************************)
EXTENDS NVMap

\* A chunk slot that update_chunkobj wrote.
Filled(c) == c.objname \in Names /\ c.chunkid \in Ids

ChunkSteps == {"create_chunkobj", "fill_chunkobj", "count_chunkobj"}
RecordSteps ==
    {"create_mmapobj", "fill_mmapobj", "count_mmapobj"} \cup ChunkSteps

\* A slot was taken by meta_offset and is not counted yet.
PendingMmapobj == IF pc \in {"fill_mmapobj", "count_mmapobj"} THEN 1 ELSE 0
PendingChunk(v) ==
    IF pc \in {"fill_chunkobj", "count_chunkobj"} /\ rq.vma = v THEN 1 ELSE 0

\* meta_offset leads pesist_mmaps, and what it has not reached is zero.
ProcFile ==
    /\ proc.pesist_mmaps + PendingMmapobj <= proc.meta
    /\ \A i \in Mslots :
         i > proc.meta \/ (i = proc.meta /\ pc = "fill_mmapobj")
            => mmapobj[i] = ZeroMmapobj

\* Every vma_id in use was handed out by _mmap, to one mmapobj only.
VmaIds ==
    /\ VmaIdsUnique
    /\ \A i \in Mslots : mmapobj[i].vma_id <= proc.num_mmaps
    /\ \A v \in map_tree : v <= proc.num_mmaps
    /\ pc = "down" => map_tree = {}

\* meta_offset of an mmapobj leads numchunks; the chunk slots behind it are
\* zero, those that numchunks covers are written, and a metadata file without
\* an mmapobj is empty.
MetaFiles ==
    /\ \A i \in Mslots : mmapobj[i].numchunks <= mmapobj[i].meta
    /\ \A i \in Mslots : mmapobj[i].vma_id # 0 =>
         \A j \in Cslots :
            /\ j <= mmapobj[i].numchunks => Filled(chunkobj[mmapobj[i].vma_id][j])
            /\ j > mmapobj[i].meta => chunkobj[mmapobj[i].vma_id][j] = ZeroChunk
    /\ \A v \in Vmas : (\A i \in Mslots : mmapobj[i].vma_id # v)
                          => \A j \in Cslots : chunkobj[v][j] = ZeroChunk

\* The trees lead to slots that were written.  A region mapped by this run
\* has an mmapobj made by this run, with an initialised tree, or none at all.
Trees ==
    /\ \A v \in Vmas : mmapobj_tree[v] # 0 =>
         /\ mmapobj_tree[v] <= proc.meta
         /\ mmapobj[mmapobj_tree[v]].vma_id = v
    /\ \A v \in map_tree :
         IF mmapobj_tree[v] = 0
         THEN \A i \in Mslots : mmapobj[i].vma_id # v
         ELSE /\ chunk_tree_init[v]
              /\ mmapobj[mmapobj_tree[v]].meta =
                   mmapobj[mmapobj_tree[v]].numchunks + PendingChunk(v)
    /\ \A v \in Vmas, id \in Ids :
         chunkobj_tree[v][id] # NoPtr => Filled(At(chunkobj_tree[v][id]))

\* What the library has established at each point of a call.
Call ==
    /\ pc \in RecordSteps =>
         /\ rq.vma \in map_tree
         /\ rq.name \in Names
         /\ rq.id \in Ids
         /\ rq.old # NoPtr => Filled(At(rq.old))
    /\ pc \in {"create_mmapobj", "fill_mmapobj"} => mmapobj_tree[rq.vma] = 0
    /\ pc \in {"count_mmapobj"} \cup ChunkSteps => mmapobj_tree[rq.vma] # 0
    /\ pc = "create_mmapobj" => proc.meta < MaxMmapobjs
    /\ pc \in {"create_mmapobj", "fill_mmapobj"} => MaxChunks > 0
    /\ pc \in {"count_mmapobj", "create_chunkobj"} =>
         mmapobj[mmapobj_tree[rq.vma]].meta < MaxChunks
    /\ pc \in {"fill_chunkobj", "count_chunkobj"} =>
         rq.new = <<rq.vma, mmapobj[mmapobj_tree[rq.vma]].meta>>
    /\ pc = "fill_chunkobj" => At(rq.new) = ZeroChunk
    /\ pc = "count_chunkobj" => Filled(At(rq.new))
    /\ pc = "copy" =>
         /\ rq.old # NoPtr /\ Filled(At(rq.old))
         /\ rq.new # NoPtr /\ Filled(At(rq.new))
    /\ pc \in {"copy", "delete"} => rq.name \in Names /\ rq.id \in Ids
    /\ pc = "invalidate" => rq.del # NoPtr /\ Filled(At(rq.del))
    /\ pc = "rename" =>
         /\ rq.old # NoPtr
         /\ Filled(At(rq.old))
         /\ rq.dest \in Names
         /\ rq.id \in Ids
         /\ rq.vma # 0
         /\ mmapobj_tree[rq.vma] # 0
         /\ chunk_tree_init[rq.vma]

\* The whole of it: counters, files, trees and the call in progress agree
\* wherever the process dies.
Structure ==
    /\ TypeOK
    /\ ProcFile
    /\ VmaIds
    /\ MetaFiles
    /\ Trees
    /\ Call

-----------------------------------------------------------------------------
(* The inductive invariant of an application that neither allocates under  *)
(* a live name nor renames                                                 *)

PlainKinds == {"alloc", "delete", "commit"}

\* The calls such an application never gets into.
PlainCalls ==
    /\ pc \notin {"copy", "delete", "rename"}
    /\ pc \in RecordSteps => rq.old = NoPtr

\* Slot j of metadata file v is live, and counted by the mmapobj in slot i.
LiveSlot(i, v, j) ==
    mmapobj[i].vma_id = v /\ j <= mmapobj[i].numchunks /\ chunkobj[v][j].valid

\* Among the counted slots of a file at most one is live under an id, so it
\* does not matter in which order restore_chunk_objs inserts them.
OneLivePerId ==
    \A i \in Mslots, v \in Vmas, j, k \in Cslots :
        LiveSlot(i, v, j) /\ LiveSlot(i, v, k)
            /\ chunkobj[v][j].chunkid = chunkobj[v][k].chunkid => j = k

\* A key of a chunk tree leads to a live slot of the same region that carries
\* the key, and that is counted or about to be.
EntriesLive ==
    \A v \in Vmas, id \in Ids : chunkobj_tree[v][id] # NoPtr =>
        /\ mmapobj_tree[v] # 0 /\ chunk_tree_init[v]
        /\ \E j \in Cslots :
             /\ chunkobj_tree[v][id] = <<v, j>>
             /\ chunkobj[v][j].valid /\ chunkobj[v][j].chunkid = id
             /\ \/ j <= mmapobj[mmapobj_tree[v]].numchunks
                \/ pc = "count_chunkobj" /\ <<v, j>> = rq.new

\* Every live slot of an mmapobj in the tree is found under its key.
LiveIndexed ==
    \A v \in Vmas, j \in Cslots :
        mmapobj_tree[v] # 0 /\ LiveSlot(mmapobj_tree[v], v, j)
            => chunkobj_tree[v][chunkobj[v][j].chunkid] = <<v, j>>

\* Unless a crash made the counters drift apart, all mmapobjs are in the tree.
AllIndexed ==
    pc # "down" /\ proc.meta = proc.pesist_mmaps + PendingMmapobj =>
        \A i \in Mslots : mmapobj[i].vma_id # 0 => mmapobj_tree[mmapobj[i].vma_id] = i

\* The id of the object being added has no key yet in its region; the chunk
\* being deleted is the one its own id leads to.
PlainRqst ==
    /\ pc \in RecordSteps \ {"count_chunkobj"} => chunkobj_tree[rq.vma][rq.id] = NoPtr
    /\ pc = "count_chunkobj" => chunkobj_tree[rq.vma][rq.id] = rq.new
    /\ pc = "invalidate" => /\ rq.del = get_chunk(At(rq.del).chunkid)
                            /\ At(rq.del).commitsz = 0

Plain ==
    /\ PlainCalls
    /\ OneLivePerId
    /\ EntriesLive
    /\ LiveIndexed
    /\ AllIndexed
    /\ PlainRqst
    /\ DeletedHasNoCommit
-----------------------------------------------------------------------------
(* What get_object_list reports, for such an application and names that do *)
(* not collide                                                             *)

\* The hash tells the names of the application apart.
NamesDiffer ==
    \A n, k \in Names : gen_id_from_str[n] = gen_id_from_str[k] => n = k

NoDrift == proc.meta = proc.pesist_mmaps + PendingMmapobj

\* Every chunk carries the id of its name.
SlotsHashed ==
    \A v \in Vmas, j \in Cslots : chunkobj[v][j].objname \in Names =>
        chunkobj[v][j].chunkid = gen_id_from_str[chunkobj[v][j].objname]

\* So does a request, and the chunk that it deletes.
RqstHashed ==
    /\ pc \in RecordSteps \cup {"invalidate"} =>
         rq.name \in Names /\ rq.id = gen_id_from_str[rq.name]
    /\ pc = "invalidate" => At(rq.del).chunkid = rq.id

\* The live chunks that carry an id are all in one region.
OneRegionPerId ==
    NoDrift => \A i, k \in Mslots, v, w \in Vmas, j, m \in Cslots :
        LiveSlot(i, v, j) /\ LiveSlot(k, w, m)
            /\ chunkobj[v][j].chunkid = chunkobj[w][m].chunkid => v = w

\* The id of the object being added has no key in any other region.
KeyIsNew ==
    pc \in RecordSteps => \A v \in Vmas :
        pc # "count_chunkobj" \/ v # rq.vma => chunkobj_tree[v][rq.id] = NoPtr

\* The names in the map are those whose id some chunk tree holds.
Indexed(n) == \E v \in Vmas : chunkobj_tree[v][gen_id_from_str[n]] # NoPtr
MapIsIndex ==
    pc # "down" /\ NoDrift => objnamemap = {n \in Names : Indexed(n)}

Listing ==
    /\ SlotsHashed
    /\ RqstHashed
    /\ OneRegionPerId
    /\ KeyIsNew
    /\ MapIsIndex
=============================================================================
