---------------------------- MODULE NVMapRestart ----------------------------
(***************************************************************************)
(* Proofs about applications that neither allocate under a live name nor   *)
(* rename, what a restart finds is what the running program found; and     *)
(* what get_object_list reports.                                           *)
(***************************************************************************)
EXTENDS NVMapProofs

-----------------------------------------------------------------------------
(* Steps that leave the indexes, and what they say of the slots, alone *)

\* The step changes no tree, no vma_id, no numchunks, and of no chunk slot
\* whether it is valid or which id it carries.
KeepsView ==
    /\ mmapobj_tree' = mmapobj_tree
    /\ chunk_tree_init' = chunk_tree_init
    /\ chunkobj_tree' = chunkobj_tree
    /\ \A i \in Mslots : /\ mmapobj'[i].vma_id = mmapobj[i].vma_id
                         /\ mmapobj'[i].numchunks = mmapobj[i].numchunks
    /\ \A v \in Vmas, j \in Cslots :
         /\ chunkobj'[v][j].valid = chunkobj[v][j].valid
         /\ chunkobj'[v][j].chunkid = chunkobj[v][j].chunkid

\* Such a step keeps the agreement of trees and slots.
LEMMA KeepsViewPlain ==
    ASSUME Structure, Plain, KeepsView, pc # "count_chunkobj"
    PROVE  OneLivePerId' /\ EntriesLive' /\ LiveIndexed'
<1>1. \A v \in Vmas : mmapobj_tree[v] # 0 => mmapobj_tree[v] \in Mslots
  BY Consts DEF Structure, TypeOK, Mslots
<1>2. OneLivePerId'
  BY DEF Plain, OneLivePerId, LiveSlot, KeepsView
<1>3. EntriesLive'
  <2> SUFFICES ASSUME NEW v \in Vmas, NEW id \in Ids, chunkobj_tree[v][id] # NoPtr
               PROVE  /\ mmapobj_tree'[v] # 0 /\ chunk_tree_init'[v]
                      /\ \E j \in Cslots :
                           /\ chunkobj_tree'[v][id] = <<v, j>>
                           /\ chunkobj'[v][j].valid /\ chunkobj'[v][j].chunkid = id
                           /\ j <= mmapobj'[mmapobj_tree'[v]].numchunks
    BY ZenonT(30) DEF EntriesLive, KeepsView
  <2>1. PICK j \in Cslots :
             /\ chunkobj_tree[v][id] = <<v, j>>
             /\ chunkobj[v][j].valid /\ chunkobj[v][j].chunkid = id
             /\ j <= mmapobj[mmapobj_tree[v]].numchunks
    BY ZenonT(30) DEF Plain, EntriesLive
  <2>2. mmapobj_tree[v] # 0 /\ chunk_tree_init[v]
    BY Zenon DEF Plain, EntriesLive
  <2> QED
    BY <1>1, <2>1, <2>2, Zenon DEF KeepsView
<1>4. LiveIndexed'
  <2> SUFFICES ASSUME NEW v \in Vmas, NEW j \in Cslots, mmapobj_tree[v] # 0,
                      LiveSlot(mmapobj_tree[v], v, j)'
               PROVE  chunkobj_tree'[v][chunkobj'[v][j].chunkid] = <<v, j>>
    BY Zenon DEF LiveIndexed, KeepsView
  <2>1. mmapobj_tree'[v] = mmapobj_tree[v] /\ chunkobj_tree'[v] = chunkobj_tree[v]
    BY Zenon DEF KeepsView
  <2>2. chunkobj'[v][j].valid = chunkobj[v][j].valid
    BY Zenon DEF KeepsView
  <2>3. chunkobj'[v][j].chunkid = chunkobj[v][j].chunkid
    BY Zenon DEF KeepsView
  <2>4. LiveSlot(mmapobj_tree[v], v, j)
    BY <1>1, <2>1, <2>2, Zenon DEF LiveSlot, KeepsView
  <2>5. chunkobj_tree[v][chunkobj[v][j].chunkid] = <<v, j>>
    BY <2>4, Zenon DEF Plain, LiveIndexed
  <2> QED
    BY <2>1, <2>3, <2>5, Zenon
<1> QED
  BY <1>2, <1>3, <1>4, Zenon

\* A step that keeps chunk slots and trees keeps the view when it also keeps
\* the mmapobjs.
LEMMA SameView ==
    ASSUME UNCHANGED <<mmapobj, chunkobj, mmapobj_tree, chunk_tree_init, chunkobj_tree>>
    PROVE  KeepsView
BY Zenon DEF KeepsView

\* Without a drift of the counters before the step there is none after it, and
\* the other way round: the step moves both, or the one it leaves is pending.
LEMMA KeepsAllIndexed ==
    ASSUME Plain, KeepsView, pc # "down",
           proc'.meta = proc'.pesist_mmaps + PendingMmapobj' =>
               proc.meta = proc.pesist_mmaps + PendingMmapobj
    PROVE  AllIndexed'
BY Zenon DEF Plain, AllIndexed, KeepsView

-----------------------------------------------------------------------------
(* Lookups *)

\* The mmapobj that the tree has under a vma_id carries it.
LEMMA TreeMmapobj ==
    ASSUME Structure, NEW v \in Vmas, mmapobj_tree[v] # 0
    PROVE  mmapobj_tree[v] \in Mslots /\ mmapobj[mmapobj_tree[v]].vma_id = v
<1>1. mmapobj_tree[v] \in Mslots
  BY Consts DEF Structure, TypeOK, Mslots
<1>2. mmapobj[mmapobj_tree[v]].vma_id = v
  BY Zenon DEF Structure, Trees
<1> QED
  BY <1>1, <1>2, Zenon

\* get_chunk finds a chunk whenever some tree has the key; what it finds is
\* the live chunk that carries the key.
LEMMA GetChunkLive ==
    ASSUME Structure, EntriesLive, NEW id \in Ids
    PROVE  /\ get_chunk(id) = NoPtr => \A v \in Vmas : chunkobj_tree[v][id] = NoPtr
           /\ get_chunk(id) # NoPtr =>
                LET v == find_vmaid_from_chunk(id)
                IN  /\ v \in Vmas /\ v # 0
                    /\ get_chunk(id) = chunkobj_tree[v][id]
                    /\ get_chunk(id) \in Ptrs
                    /\ get_chunk(id)[1] = v
                    /\ At(get_chunk(id)).valid
                    /\ At(get_chunk(id)).chunkid = id
<1> DEFINE S == {v \in Vmas : /\ mmapobj_tree[v] # 0
                              /\ chunk_tree_init[v]
                              /\ chunkobj_tree[v][id] # NoPtr}
           w == find_vmaid_from_chunk(id)
<1>1. S \subseteq 1 .. MaxMmaps /\ MaxMmaps \in Nat
  BY Consts, Zenon DEF Vmas
<1>2. w = MaxOr0(S)
  BY Zenon DEF find_vmaid_from_chunk
<1>3. \A v \in S : v <= w /\ w # 0
  BY <1>1, <1>2, MaxOr0Lemma
<1>4. \A v \in Vmas : chunkobj_tree[v][id] # NoPtr => v \in S
  BY Zenon DEF EntriesLive
<1>5. w # 0 => w \in Vmas /\ chunkobj_tree[w][id] # NoPtr
  BY FindVma, Zenon
<1> HIDE DEF w, S
<1>6. get_chunk(id) = IF w = 0 THEN NoPtr ELSE chunkobj_tree[w][id]
  BY Zenon DEF get_chunk, w
<1>7. ASSUME get_chunk(id) = NoPtr, NEW v \in Vmas PROVE chunkobj_tree[v][id] = NoPtr
  BY <1>3, <1>4, <1>5, <1>6, <1>7, Zenon
<1>8. ASSUME get_chunk(id) # NoPtr
      PROVE  /\ w \in Vmas /\ w # 0
             /\ get_chunk(id) = chunkobj_tree[w][id]
             /\ get_chunk(id) \in Ptrs
             /\ get_chunk(id)[1] = w
             /\ At(get_chunk(id)).valid
             /\ At(get_chunk(id)).chunkid = id
  <2>1. w # 0 /\ w \in Vmas /\ get_chunk(id) = chunkobj_tree[w][id]
    BY <1>5, <1>6, <1>8, Zenon
  <2>2. PICK j \in Cslots : /\ chunkobj_tree[w][id] = <<w, j>>
                            /\ chunkobj[w][j].valid /\ chunkobj[w][j].chunkid = id
    BY <1>8, <2>1 DEF EntriesLive
  <2>3. <<w, j>> \in Ptrs /\ <<w, j>>[1] = w /\ At(<<w, j>>) = chunkobj[w][j]
    BY <2>1, <2>2, Zenon DEF Ptrs, At
  <2> QED
    BY <2>1, <2>2, <2>3, Zenon
<1> QED
  BY <1>7, <1>8, Zenon DEF w

-----------------------------------------------------------------------------
(* The actions *)

\* A new process file has nothing to index.
LEMMA InitPlain == Init => Plain
<1> SUFFICES ASSUME Init PROVE Plain
  BY Zenon
<1>1. /\ \A i \in Mslots : mmapobj[i].vma_id = 0 /\ mmapobj[i].numchunks = 0
      /\ \A v \in Vmas : mmapobj_tree[v] = 0 /\ \A id \in Ids : chunkobj_tree[v][id] = NoPtr
      /\ \A v \in Vmas, j \in Cslots : chunkobj[v][j].commitsz = 0
      /\ pc = "down"
  BY Zenon DEF Init, ZeroMmapobj, EmptyTree, ZeroChunk
<1>2. OneLivePerId
  BY <1>1, Consts DEF OneLivePerId, LiveSlot, Vmas
<1>3. EntriesLive /\ LiveIndexed /\ AllIndexed /\ DeletedHasNoCommit
  BY <1>1, Zenon DEF EntriesLive, LiveIndexed, AllIndexed, DeletedHasNoCommit
<1>4. PlainCalls /\ PlainRqst
  BY <1>1, Zenon DEF PlainCalls, PlainRqst, RecordSteps, ChunkSteps
<1> QED
  BY <1>2, <1>3, <1>4, Zenon DEF Plain

\* The death of the process leaves the slots as they are and no index.
LEMMA CrashPlain == Structure /\ Plain /\ Crash => Plain'
<1> SUFFICES ASSUME Structure, Plain, Crash PROVE Plain'
  BY Zenon
<1>1. /\ mmapobj' = mmapobj /\ chunkobj' = chunkobj /\ pc' = "down"
      /\ \A v \in Vmas : mmapobj_tree'[v] = 0
      /\ \A v \in Vmas, id \in Ids : chunkobj_tree'[v][id] = NoPtr
  BY Zenon DEF Crash, persistent, EmptyTree
<1>2. OneLivePerId' /\ DeletedHasNoCommit'
  BY <1>1, ZenonT(30) DEF Plain, OneLivePerId, LiveSlot, DeletedHasNoCommit
<1>3. EntriesLive' /\ LiveIndexed' /\ AllIndexed'
  BY <1>1, Zenon DEF EntriesLive, LiveIndexed, AllIndexed
<1>4. PlainCalls' /\ PlainRqst'
  BY <1>1, Zenon DEF PlainCalls, PlainRqst, RecordSteps, ChunkSteps
<1> QED
  BY <1>2, <1>3, <1>4, Zenon DEF Plain

\* A region without objects does not concern the indexes of objects.
LEMMA _mmapPlain == Structure /\ Plain /\ _mmap => Plain'
<1> SUFFICES ASSUME Structure, Plain, _mmap PROVE Plain'
  BY Zenon
<1>1. /\ UNCHANGED <<mmapobj, chunkobj, mmapobj_tree, chunk_tree_init, chunkobj_tree>>
      /\ pc = "idle" /\ pc' = "idle"
      /\ proc'.meta = proc.meta /\ proc'.pesist_mmaps = proc.pesist_mmaps
  BY Zenon DEF _mmap, Structure, TypeOK
<1>2. KeepsView
  BY <1>1, SameView, Zenon
<1>3. OneLivePerId' /\ EntriesLive' /\ LiveIndexed'
  BY <1>1, <1>2, KeepsViewPlain, Zenon
<1>4. AllIndexed'
  BY <1>1, <1>2, KeepsAllIndexed, Zenon DEF PendingMmapobj
<1>5. DeletedHasNoCommit'
  BY <1>1, Zenon DEF Plain, DeletedHasNoCommit
<1>6. PlainCalls' /\ PlainRqst'
  BY <1>1, Zenon DEF PlainCalls, PlainRqst, RecordSteps, ChunkSteps
<1> QED
  BY <1>3, <1>4, <1>5, <1>6, Zenon DEF Plain

\* An allocation under a name that is not in use: no tree has its id.
LEMMA nv_record_chunkPlain ==
    ASSUME Requests \subseteq PlainKinds, Structure, Plain,
           NEW n \in Names, NEW v \in Vmas, nv_record_chunk(n, v)
    PROVE  Plain'
<1> DEFINE id == gen_id_from_str[n]
<1>1. id \in Ids
  BY Consts, Zenon
<1>2. check_if_chunk_exists(id) = NoPtr
  BY Zenon DEF nv_record_chunk, PlainKinds
<1>3. get_chunk(id) = NoPtr
  BY <1>1, <1>2, GetChunkLive, Zenon DEF check_if_chunk_exists, Plain
<1>4. \A u \in Vmas : chunkobj_tree[u][id] = NoPtr
  BY <1>1, <1>3, GetChunkLive, Zenon DEF Plain
<1>5. /\ UNCHANGED <<proc, mmapobj, chunkobj, mmapobj_tree, chunk_tree_init, chunkobj_tree>>
      /\ pc = "idle" /\ pc' \in {"create_mmapobj", "create_chunkobj"}
      /\ rq' = [NoRqst EXCEPT !.name = n, !.id = id, !.vma = v, !.old = NoPtr]
  BY <1>2, Zenon DEF nv_record_chunk, index
<1>6. rq'.id = id /\ rq'.vma = v /\ rq'.old = NoPtr
  BY <1>5, Zenon DEF NoRqst
<1> HIDE DEF id
<1>7. KeepsView
  BY <1>5, SameView, Zenon
<1>8. OneLivePerId' /\ EntriesLive' /\ LiveIndexed'
  BY <1>5, <1>7, KeepsViewPlain, Zenon
<1>9. AllIndexed'
  BY <1>5, <1>7, KeepsAllIndexed, Zenon DEF PendingMmapobj
<1>10. DeletedHasNoCommit'
  BY <1>5, Zenon DEF Plain, DeletedHasNoCommit
<1>11. PlainCalls' /\ PlainRqst'
  BY <1>4, <1>5, <1>6, ZenonT(30) DEF PlainCalls, PlainRqst
<1> QED
  BY <1>8, <1>9, <1>10, <1>11, Zenon DEF Plain

\* Moving meta_offset of the process file makes an mmapobj pending.
LEMMA create_mmapobjPlain == Structure /\ Plain /\ create_mmapobj => Plain'
<1> SUFFICES ASSUME Structure, Plain, create_mmapobj PROVE Plain'
  BY Zenon
<1>1. /\ UNCHANGED <<mmapobj, chunkobj, mmapobj_tree, chunk_tree_init, chunkobj_tree, rq>>
      /\ pc = "create_mmapobj" /\ pc' = "fill_mmapobj"
  BY Zenon DEF create_mmapobj, index
<1>2. /\ proc'.meta = proc.meta + 1 /\ proc'.pesist_mmaps = proc.pesist_mmaps
      /\ proc.meta \in Nat /\ proc.pesist_mmaps \in Nat
  BY Consts DEF create_mmapobj, Structure, TypeOK
<1>3. KeepsView
  BY <1>1, SameView, Zenon
<1>4. OneLivePerId' /\ EntriesLive' /\ LiveIndexed'
  BY <1>1, <1>3, KeepsViewPlain, Zenon
<1>5. AllIndexed'
  BY <1>1, <1>2, <1>3, KeepsAllIndexed DEF PendingMmapobj
<1>6. DeletedHasNoCommit'
  BY <1>1, Zenon DEF Plain, DeletedHasNoCommit
<1>7. PlainCalls' /\ PlainRqst'
  BY <1>1, Zenon DEF Plain, PlainCalls, PlainRqst, RecordSteps
<1> QED
  BY <1>4, <1>5, <1>6, <1>7, Zenon DEF Plain

\* Counting the mmapobj ends its being pending.
LEMMA add_mmapobj_to_procPlain == Structure /\ Plain /\ add_mmapobj_to_proc => Plain'
<1> SUFFICES ASSUME Structure, Plain, add_mmapobj_to_proc PROVE Plain'
  BY Zenon
<1>1. /\ UNCHANGED <<mmapobj, chunkobj, mmapobj_tree, chunk_tree_init, chunkobj_tree, rq>>
      /\ pc = "count_mmapobj" /\ pc' = "create_chunkobj"
  BY Zenon DEF add_mmapobj_to_proc, index
<1>2. /\ proc'.meta = proc.meta /\ proc'.pesist_mmaps = proc.pesist_mmaps + 1
      /\ proc.meta \in Nat /\ proc.pesist_mmaps \in Nat
  BY Consts DEF add_mmapobj_to_proc, Structure, TypeOK
<1>3. KeepsView
  BY <1>1, SameView, Zenon
<1>4. OneLivePerId' /\ EntriesLive' /\ LiveIndexed'
  BY <1>1, <1>3, KeepsViewPlain, Zenon
<1>5. AllIndexed'
  BY <1>1, <1>2, <1>3, KeepsAllIndexed DEF PendingMmapobj
<1>6. DeletedHasNoCommit'
  BY <1>1, Zenon DEF Plain, DeletedHasNoCommit
<1>7. PlainCalls' /\ PlainRqst'
  BY <1>1, Zenon DEF Plain, PlainCalls, PlainRqst, RecordSteps, ChunkSteps
<1> QED
  BY <1>4, <1>5, <1>6, <1>7, Zenon DEF Plain

\* The mmapobj that is written is the only one of its region and has no chunks.
LEMMA fill_mmapobjPlain == Structure /\ Plain /\ fill_mmapobj => Plain'
<1> SUFFICES ASSUME Structure, Plain, fill_mmapobj PROVE Plain'
  BY Zenon
<1> DEFINE m == proc.meta
           w == rq.vma
<1>1. /\ m \in Mslots /\ w \in Vmas /\ w # 0
      /\ mmapobj[m] = ZeroMmapobj
      /\ \A i \in Mslots : mmapobj[i].vma_id # w
      /\ chunkobj' = chunkobj /\ proc' = proc /\ rq' = rq
      /\ \A i \in Mslots : i # m => mmapobj'[i] = mmapobj[i]
      /\ mmapobj'[m] = [vma_id |-> w, numchunks |-> 0, meta |-> 0]
      /\ pc = "fill_mmapobj" /\ pc' = "count_mmapobj"
  BY fill_mmapobjEffect, Zenon
<1>2. /\ \A v \in Vmas : v # w => /\ mmapobj_tree'[v] = mmapobj_tree[v]
                                  /\ chunk_tree_init'[v] = chunk_tree_init[v]
                                  /\ chunkobj_tree'[v] = chunkobj_tree[v]
      /\ mmapobj_tree'[w] = m
      /\ chunkobj_tree'[w] = EmptyTree
  BY fill_mmapobjEffect, Zenon
<1>3. mmapobj[m].vma_id = 0 /\ mmapobj'[m].vma_id = w /\ mmapobj'[m].numchunks = 0
  BY <1>1 DEF ZeroMmapobj
<1>4. \A v \in Vmas : mmapobj_tree[v] # 0 => /\ mmapobj_tree[v] \in Mslots
                                             /\ mmapobj_tree[v] # m
  <2>1. \A v \in Vmas : v # 0
    BY Consts DEF Vmas
  <2>2. \A v \in Vmas : mmapobj_tree[v] # 0 => mmapobj_tree[v] \in Mslots
    BY Consts DEF Structure, TypeOK, Mslots
  <2>3. \A v \in Vmas : mmapobj_tree[v] # 0 => mmapobj[mmapobj_tree[v]].vma_id = v
    BY Zenon DEF Structure, Trees
  <2> QED
    BY <1>3, <2>1, <2>2, <2>3, Zenon
<1>5. \A id \in Ids : chunkobj_tree'[w][id] = NoPtr
  BY <1>2, Zenon DEF EmptyTree
<1> HIDE DEF m, w
<1>6. OneLivePerId'
  <2>1. ASSUME NEW i \in Mslots, i = m, NEW v \in Vmas, NEW j \in Cslots
        PROVE  ~LiveSlot(i, v, j)'
    BY <1>3, <2>1, Consts DEF LiveSlot, Cslots
  <2>2. ASSUME NEW i \in Mslots, i # m, NEW v \in Vmas, NEW j \in Cslots
        PROVE  LiveSlot(i, v, j)' <=> LiveSlot(i, v, j)
    BY <1>1, <2>2, Zenon DEF LiveSlot
  <2> QED
    BY <1>1, <2>1, <2>2, ZenonT(30) DEF Plain, OneLivePerId
<1>7. EntriesLive'
  <2> SUFFICES ASSUME NEW v \in Vmas, NEW id \in Ids, chunkobj_tree'[v][id] # NoPtr
               PROVE  /\ mmapobj_tree'[v] # 0 /\ chunk_tree_init'[v]
                      /\ \E j \in Cslots :
                           /\ chunkobj_tree'[v][id] = <<v, j>>
                           /\ chunkobj'[v][j].valid /\ chunkobj'[v][j].chunkid = id
                           /\ j <= mmapobj'[mmapobj_tree'[v]].numchunks
    BY ZenonT(30) DEF EntriesLive
  <2>1. v # w /\ chunkobj_tree[v][id] # NoPtr
    BY <1>2, <1>5, Zenon
  <2>2. PICK j \in Cslots :
             /\ chunkobj_tree[v][id] = <<v, j>>
             /\ chunkobj[v][j].valid /\ chunkobj[v][j].chunkid = id
             /\ j <= mmapobj[mmapobj_tree[v]].numchunks
    BY <1>1, <2>1, Zenon DEF Plain, EntriesLive
  <2>3. mmapobj_tree[v] # 0 /\ chunk_tree_init[v]
    BY <2>1, Zenon DEF Plain, EntriesLive
  <2>4. mmapobj'[mmapobj_tree'[v]] = mmapobj[mmapobj_tree[v]]
    BY <1>1, <1>2, <1>4, <2>1, <2>3
  <2> QED
    BY <1>1, <1>2, <2>1, <2>2, <2>3, <2>4, ZenonT(30)
<1>8. LiveIndexed'
  <2> SUFFICES ASSUME NEW v \in Vmas, NEW j \in Cslots, mmapobj_tree'[v] # 0,
                      LiveSlot(mmapobj_tree[v], v, j)'
               PROVE  chunkobj_tree'[v][chunkobj'[v][j].chunkid] = <<v, j>>
    BY Zenon DEF LiveIndexed
  <2>1. v # w
    BY <1>2, <1>3, Consts DEF LiveSlot, Cslots
  <2>2. mmapobj_tree[v] # 0 /\ mmapobj'[mmapobj_tree'[v]] = mmapobj[mmapobj_tree[v]]
    BY <1>1, <1>2, <1>4, <2>1, ZenonT(30)
  <2>3. LiveSlot(mmapobj_tree[v], v, j)
    BY <1>1, <2>2, Zenon DEF LiveSlot
  <2> QED
    <3>1. chunkobj_tree[v][chunkobj[v][j].chunkid] = <<v, j>>
      BY <2>2, <2>3, Zenon DEF Plain, LiveIndexed
    <3>2. chunkobj' = chunkobj /\ chunkobj_tree'[v] = chunkobj_tree[v]
      BY <1>1, <1>2, <2>1, Zenon
    <3> QED
      BY <3>1, <3>2, Zenon
<1>9. AllIndexed'
  <2>1. PendingMmapobj' = PendingMmapobj
    BY <1>1, Zenon DEF PendingMmapobj
  <2> SUFFICES ASSUME proc.meta = proc.pesist_mmaps + PendingMmapobj,
                      NEW i \in Mslots, mmapobj'[i].vma_id # 0
               PROVE  mmapobj_tree'[mmapobj'[i].vma_id] = i
    BY <1>1, <2>1, Zenon DEF AllIndexed
  <2>2. CASE i = m
    BY <1>2, <1>3, <2>2, Zenon
  <2>3. CASE i # m
    <3>1. mmapobj'[i] = mmapobj[i] /\ mmapobj[i].vma_id # w
      BY <1>1, <2>3, Zenon
    <3>2. mmapobj[i].vma_id \in Vmas
      BY <3>1, MmapobjTypes DEF Structure, Vmas
    <3>3. mmapobj_tree[mmapobj[i].vma_id] = i
      BY <1>1, <3>1, Zenon DEF Plain, AllIndexed
    <3> QED
      BY <1>2, <3>1, <3>2, <3>3, Zenon
  <2> QED
    BY <2>2, <2>3, Zenon
<1>10. DeletedHasNoCommit'
  BY <1>1, Zenon DEF Plain, DeletedHasNoCommit
<1>11. PlainCalls'
  BY <1>1, Zenon DEF Plain, PlainCalls, RecordSteps, ChunkSteps
<1>12. PlainRqst'
  <2>1. rq.id \in Ids
    BY <1>1, ZenonT(30) DEF Structure, Call, RecordSteps
  <2> QED
    BY <1>1, <1>5, <2>1, Zenon DEF PlainRqst, w
<1> QED
  BY <1>6, <1>7, <1>8, <1>9, <1>10, <1>11, <1>12, ZenonT(30) DEF Plain

\* Moving meta_offset of a metadata file changes no count.
LEMMA create_chunkobjPlain == Structure /\ Plain /\ create_chunkobj => Plain'
<1> SUFFICES ASSUME Structure, Plain, create_chunkobj PROVE Plain'
  BY Zenon
<1>1. /\ pc = "create_chunkobj" /\ pc' = "fill_chunkobj"
      /\ UNCHANGED <<proc, chunkobj, index>>
  BY create_chunkobjEffect, Zenon
<1>2. /\ rq'.old = rq.old /\ rq'.vma = rq.vma /\ rq'.id = rq.id
  BY Zenon DEF create_chunkobj, Structure, TypeOK
<1>3. KeepsView
  <2>1. ASSUME NEW i \in Mslots
        PROVE  mmapobj'[i].vma_id = mmapobj[i].vma_id /\ mmapobj'[i].numchunks = mmapobj[i].numchunks
    BY create_chunkobjEffect
  <2> QED
    BY <1>1, <2>1, ZenonT(30) DEF KeepsView, index
<1>4. OneLivePerId' /\ EntriesLive' /\ LiveIndexed'
  BY <1>1, <1>3, KeepsViewPlain, Zenon
<1>5. AllIndexed'
  BY <1>1, <1>3, KeepsAllIndexed, Zenon DEF PendingMmapobj
<1>6. DeletedHasNoCommit'
  BY <1>1, Zenon DEF Plain, DeletedHasNoCommit
<1>7. PlainCalls' /\ PlainRqst'
  BY <1>1, <1>2, Zenon DEF Plain, PlainCalls, PlainRqst, RecordSteps, ChunkSteps, index
<1> QED
  BY <1>4, <1>5, <1>6, <1>7, Zenon DEF Plain

\* The chunk that is written gets a key that no live chunk of its region has.
LEMMA add_chunkobjPlain == Structure /\ Plain /\ add_chunkobj => Plain'
<1> SUFFICES ASSUME Structure, Plain, add_chunkobj PROVE Plain'
  BY Zenon
<1> DEFINE w == rq.vma
           m == mmapobj_tree[rq.vma]
           k == mmapobj[m].meta
<1>1. /\ pc = "fill_chunkobj" /\ pc' = "count_chunkobj"
      /\ proc' = proc /\ mmapobj' = mmapobj /\ mmapobj_tree' = mmapobj_tree
      /\ chunk_tree_init' = chunk_tree_init /\ rq' = rq
      /\ w \in Vmas /\ m \in Mslots /\ mmapobj[m].vma_id = w /\ w # 0 /\ m # 0
      /\ rq.id \in Ids /\ rq.new = <<w, k>>
      /\ k \in Cslots /\ mmapobj[m].numchunks \in Nat /\ k = mmapobj[m].numchunks + 1
  BY add_chunkobjEffect, ZenonT(30)
<1>2. chunk_tree_init[w]
  BY <1>1, ZenonT(30) DEF Structure, Call, RecordSteps, ChunkSteps, Trees
<1>3. /\ \A v \in Vmas, j \in Cslots :
           ~(v = w /\ j = k) => chunkobj'[v][j] = chunkobj[v][j]
      /\ chunkobj'[w][k].valid /\ chunkobj'[w][k].chunkid = rq.id
  <2> DEFINE c == [chunkid |-> rq.id, objname |-> rq.name, commitsz |-> 0, valid |-> TRUE]
  <2>1. \A v \in Vmas, j \in Cslots :
          chunkobj'[v][j] = IF v = w /\ j = k THEN c ELSE chunkobj[v][j]
    BY add_chunkobjEffect, Zenon
  <2>2. c.valid /\ c.chunkid = rq.id
    BY Zenon
  <2> HIDE DEF c, w, m, k
  <2>3. chunkobj'[w][k] = c
    BY <1>1, <2>1, Zenon
  <2> QED
    BY <2>1, <2>2, <2>3, Zenon
<1>4. /\ chunkobj_tree'[w][rq.id] = <<w, k>>
      /\ \A v \in Vmas, id \in Ids :
           ~(v = w /\ id = rq.id) => chunkobj_tree'[v][id] = chunkobj_tree[v][id]
  <2>1. chunkobj_tree' = [chunkobj_tree EXCEPT ![w][rq.id] = rq.new]
    BY add_chunkobjEffect, Zenon
  <2>2. chunkobj_tree \in [Vmas -> [Ids -> Ptrs \cup {NoPtr}]]
    BY Zenon DEF Structure, TypeOK
  <2> HIDE DEF w, m, k
  <2> QED
    BY <1>1, <2>1, <2>2, Zenon
<1>5. chunkobj_tree[w][rq.id] = NoPtr
  BY <1>1, Zenon DEF Plain, PlainRqst, RecordSteps, ChunkSteps
<1>6. \A i \in Mslots, j \in Cslots :
         mmapobj[i].vma_id = w /\ j <= mmapobj[i].numchunks => i = m /\ j # k
  <2>1. \A i \in Mslots : mmapobj[i].vma_id = w => i = m
    BY <1>1, ZenonT(30) DEF Structure, VmaIds, VmaIdsUnique
  <2>2. \A j \in Cslots : j <= mmapobj[m].numchunks => j # k
    BY <1>1, Consts DEF Cslots
  <2> QED
    BY <2>1, <2>2, Zenon
<1> HIDE DEF w, m, k
<1>7. \A i \in Mslots, v \in Vmas, j \in Cslots :
         mmapobj[i].vma_id = v /\ j <= mmapobj[i].numchunks => chunkobj'[v][j] = chunkobj[v][j]
  BY <1>3, <1>6, ZenonT(30)
<1>8. OneLivePerId'
  BY <1>1, <1>7 DEF Plain, OneLivePerId, LiveSlot
<1>9. EntriesLive'
  <2> SUFFICES ASSUME NEW v \in Vmas, NEW id \in Ids, chunkobj_tree'[v][id] # NoPtr
               PROVE  /\ mmapobj_tree[v] # 0 /\ chunk_tree_init[v]
                      /\ \E j \in Cslots :
                           /\ chunkobj_tree'[v][id] = <<v, j>>
                           /\ chunkobj'[v][j].valid /\ chunkobj'[v][j].chunkid = id
                           /\ j <= mmapobj[mmapobj_tree[v]].numchunks \/ <<v, j>> = rq.new
    BY <1>1 DEF EntriesLive
  <2>1. CASE v = w /\ id = rq.id
    BY <1>1, <1>2, <1>3, <1>4, <2>1, ZenonT(30) DEF m, w
  <2>2. CASE ~(v = w /\ id = rq.id)
    <3>1. chunkobj_tree'[v][id] = chunkobj_tree[v][id] /\ chunkobj_tree[v][id] # NoPtr
      BY <1>4, <2>2, Zenon
    <3>2. PICK j \in Cslots :
             /\ chunkobj_tree[v][id] = <<v, j>>
             /\ chunkobj[v][j].valid /\ chunkobj[v][j].chunkid = id
             /\ j <= mmapobj[mmapobj_tree[v]].numchunks
      BY <1>1, <3>1, Zenon DEF Plain, EntriesLive
    <3>3. mmapobj_tree[v] # 0 /\ chunk_tree_init[v]
      BY <3>1, Zenon DEF Plain, EntriesLive
    <3>4. mmapobj_tree[v] \in Mslots /\ mmapobj[mmapobj_tree[v]].vma_id = v
      BY <3>3, TreeMmapobj, Zenon
    <3>5. chunkobj'[v][j] = chunkobj[v][j]
      BY <1>7, <3>2, <3>4, ZenonT(30)
    <3> QED
      BY <3>1, <3>2, <3>3, <3>5, Zenon
  <2> QED
    BY <2>1, <2>2, Zenon
<1>10. LiveIndexed'
  <2> SUFFICES ASSUME NEW v \in Vmas, NEW j \in Cslots, mmapobj_tree[v] # 0,
                      mmapobj[mmapobj_tree[v]].vma_id = v,
                      j <= mmapobj[mmapobj_tree[v]].numchunks, chunkobj'[v][j].valid
               PROVE  chunkobj_tree'[v][chunkobj'[v][j].chunkid] = <<v, j>>
    BY <1>1, ZenonT(30) DEF LiveIndexed, LiveSlot
  <2>1. mmapobj_tree[v] \in Mslots
    BY Consts DEF Structure, TypeOK, Mslots
  <2>2. chunkobj'[v][j] = chunkobj[v][j]
    BY <1>7, <2>1, Zenon
  <2>3. chunkobj_tree[v][chunkobj[v][j].chunkid] = <<v, j>>
    BY <2>2, ZenonT(30) DEF Plain, LiveIndexed, LiveSlot
  <2>4. chunkobj[v][j].chunkid \in Ids
    BY <2>1, Consts, SMTT(30) DEF Structure, MetaFiles, Filled, Vmas
  <2>5. <<v, j>> # NoPtr
    BY Consts DEF NoPtr, Vmas
  <2>6. ~(v = w /\ chunkobj[v][j].chunkid = rq.id)
    BY <1>5, <2>3, <2>5, Zenon
  <2>7. chunkobj_tree'[v][chunkobj[v][j].chunkid] = chunkobj_tree[v][chunkobj[v][j].chunkid]
    BY <1>4, <2>4, <2>6, Zenon
  <2> QED
    BY <2>2, <2>3, <2>7, Zenon
<1>11. AllIndexed'
  <2>1. PendingMmapobj' = PendingMmapobj
    BY <1>1, Zenon DEF PendingMmapobj
  <2> QED
    BY <1>1, <2>1, Zenon DEF Plain, AllIndexed
<1>12. DeletedHasNoCommit'
  BY <1>3 DEF Plain, DeletedHasNoCommit
<1>13. PlainCalls' /\ PlainRqst'
  BY <1>1, <1>4, ZenonT(30) DEF Plain, PlainCalls, PlainRqst, RecordSteps, ChunkSteps, w
<1> QED
  BY <1>8, <1>9, <1>10, <1>11, <1>12, <1>13, ZenonT(30) DEF Plain

\* The chunk that is counted is the only live one of its region under its id.
LEMMA count_chunkobjPlain == Structure /\ Plain /\ count_chunkobj => Plain'
<1> SUFFICES ASSUME Structure, Plain, count_chunkobj PROVE Plain'
  BY Zenon
<1> DEFINE w == rq.vma
           m == mmapobj_tree[rq.vma]
           k == mmapobj[m].numchunks
<1>1. /\ pc = "count_chunkobj" /\ proc' = proc /\ chunkobj' = chunkobj
      /\ mmapobj_tree' = mmapobj_tree /\ chunk_tree_init' = chunk_tree_init
      /\ chunkobj_tree' = chunkobj_tree
      /\ w \in Vmas /\ m \in Mslots /\ mmapobj[m].vma_id = w /\ w # 0
      /\ \A v \in Vmas : mmapobj_tree[v] = m => v = w
      /\ rq.id \in Ids /\ rq.new = <<w, k + 1>>
      /\ k \in Nat /\ k + 1 \in Cslots
  BY count_chunkobjEffect, Zenon DEF index
<1>2. /\ \A i \in Mslots : i # m => mmapobj'[i] = mmapobj[i]
      /\ mmapobj'[m].vma_id = w /\ mmapobj'[m].numchunks = k + 1
  <2>1. /\ \A i \in Mslots : i # m => mmapobj'[i] = mmapobj[i]
        /\ mmapobj'[m] = [vma_id |-> w, numchunks |-> k + 1, meta |-> k + 1]
    BY count_chunkobjEffect, Zenon
  <2> HIDE DEF m, w, k
  <2> QED
    BY <2>1
<1>3. pc' = "idle"
  BY <1>1, count_chunkobjEffect, Zenon DEF Plain, PlainCalls, RecordSteps, ChunkSteps
<1>4. m # 0
  BY <1>1, Consts, SMTT(30) DEF Mslots
<1>5. chunkobj_tree[w][rq.id] = <<w, k + 1>>
  BY <1>1, Zenon DEF Plain, PlainRqst
<1>6. chunkobj[w][k + 1].chunkid = rq.id
  <2>1. <<w, k + 1>> # NoPtr
    BY <1>1, Zenon DEF NoPtr
  <2> HIDE DEF w, m, k
  <2>2. PICK j \in Cslots : /\ chunkobj_tree[w][rq.id] = <<w, j>>
                            /\ chunkobj[w][j].chunkid = rq.id
    BY <1>1, <1>5, <2>1, ZenonT(30) DEF Plain, EntriesLive
  <2>3. j = k + 1
    BY <1>5, <2>2
  <2> QED
    BY <2>2, <2>3, Zenon
<1> HIDE DEF w, m, k
<1>7. \A i \in Mslots : mmapobj'[i].vma_id = mmapobj[i].vma_id
  BY <1>1, <1>2, Zenon
<1>8. \A j \in Cslots : j <= k + 1 => j <= k \/ j = k + 1
  BY <1>1, Consts DEF Cslots
\* every live slot of the region, the new one included, is where its key leads
<1>9. ASSUME NEW j \in Cslots, j <= k + 1, chunkobj[w][j].valid
      PROVE  chunkobj_tree[w][chunkobj[w][j].chunkid] = <<w, j>>
  <2>1. CASE j <= k
    BY <1>1, <1>4, <1>9, <2>1, ZenonT(30) DEF Plain, LiveIndexed, LiveSlot, m, w, k
  <2>2. CASE j = k + 1
    BY <1>5, <1>6, <2>2, Zenon
  <2> QED
    BY <1>8, <1>9, <2>1, <2>2, Zenon
<1>10. OneLivePerId'
  <2> SUFFICES ASSUME NEW i \in Mslots, NEW v \in Vmas, NEW j \in Cslots, NEW l \in Cslots,
                      LiveSlot(i, v, j)', LiveSlot(i, v, l)',
                      chunkobj[v][j].chunkid = chunkobj[v][l].chunkid
               PROVE  j = l
    BY <1>1, Zenon DEF OneLivePerId
  <2>1. CASE i = m
    <3>1. v = w /\ j <= k + 1 /\ l <= k + 1 /\ chunkobj[w][j].valid /\ chunkobj[w][l].valid
      BY <1>1, <1>2, <2>1, Zenon DEF LiveSlot
    <3>2. <<w, j>> = <<w, l>>
      BY <1>9, <3>1, Zenon
    <3> QED
      BY <3>2, Zenon
  <2>2. CASE i # m
    <3>1. LiveSlot(i, v, j) /\ LiveSlot(i, v, l)
      BY <1>1, <1>2, <2>2, Zenon DEF LiveSlot
    <3> QED
      BY <3>1, Zenon DEF Plain, OneLivePerId
  <2> QED
    BY <2>1, <2>2, Zenon
<1>11. EntriesLive'
  <2> SUFFICES ASSUME NEW v \in Vmas, NEW id \in Ids, chunkobj_tree[v][id] # NoPtr
               PROVE  /\ mmapobj_tree[v] # 0 /\ chunk_tree_init[v]
                      /\ \E j \in Cslots :
                           /\ chunkobj_tree[v][id] = <<v, j>>
                           /\ chunkobj[v][j].valid /\ chunkobj[v][j].chunkid = id
                           /\ j <= mmapobj'[mmapobj_tree[v]].numchunks
    BY <1>1, SMTT(30) DEF EntriesLive
  <2>1. mmapobj_tree[v] # 0 /\ chunk_tree_init[v]
    BY Zenon DEF Plain, EntriesLive
  <2>2. PICK j \in Cslots :
             /\ chunkobj_tree[v][id] = <<v, j>>
             /\ chunkobj[v][j].valid /\ chunkobj[v][j].chunkid = id
             /\ j <= mmapobj[mmapobj_tree[v]].numchunks \/ <<v, j>> = rq.new
    BY Zenon DEF Plain, EntriesLive
  <2>3. mmapobj_tree[v] \in Mslots /\ mmapobj[mmapobj_tree[v]].numchunks \in Nat /\ j \in Nat
    BY <2>1, TreeMmapobj, MmapobjTypes, Consts DEF Structure, Cslots
  <2>4. j <= mmapobj'[mmapobj_tree[v]].numchunks
    <3>1. CASE mmapobj_tree[v] = m
      <4>1. v = w
        BY <1>1, <3>1, Zenon
      <4>2. j <= k \/ j = k + 1
        BY <1>1, <2>2, <3>1, <4>1 DEF k
      <4> QED
        BY <1>1, <1>2, <2>3, <3>1, <4>2
    <3>2. CASE mmapobj_tree[v] # m
      <4>1. v # w
        BY <3>2, Zenon DEF m, w
      <4>2. <<v, j>> # rq.new
        BY <1>1, <4>1
      <4> QED
        BY <1>2, <2>2, <2>3, <3>2, <4>2, ZenonT(30)
    <3> QED
      BY <3>1, <3>2, Zenon
  <2> QED
    BY <2>1, <2>2, <2>4, ZenonT(30)
<1>12. LiveIndexed'
  <2> SUFFICES ASSUME NEW v \in Vmas, NEW j \in Cslots, mmapobj_tree[v] # 0,
                      mmapobj'[mmapobj_tree[v]].vma_id = v,
                      j <= mmapobj'[mmapobj_tree[v]].numchunks, chunkobj[v][j].valid
               PROVE  chunkobj_tree[v][chunkobj[v][j].chunkid] = <<v, j>>
    BY <1>1, Zenon DEF LiveIndexed, LiveSlot
  <2>1. CASE mmapobj_tree[v] = m
    <3>1. v = w /\ j <= k + 1
      BY <1>1, <1>2, <2>1, Zenon
    <3> QED
      BY <1>9, <3>1, Zenon
  <2>2. CASE mmapobj_tree[v] # m
    <3>1. mmapobj'[mmapobj_tree[v]] = mmapobj[mmapobj_tree[v]]
      BY <1>2, <2>2, TreeMmapobj, Zenon
    <3> QED
      BY <3>1, Zenon DEF Plain, LiveIndexed, LiveSlot
  <2> QED
    BY <2>1, <2>2, Zenon
<1>13. AllIndexed'
  <2>1. PendingMmapobj' = PendingMmapobj
    BY <1>1, <1>3, Zenon DEF PendingMmapobj
  <2> QED
    BY <1>1, <1>7, <2>1, Zenon DEF Plain, AllIndexed
<1>14. DeletedHasNoCommit'
  BY <1>1, Zenon DEF Plain, DeletedHasNoCommit
<1>15. PlainCalls' /\ PlainRqst'
  BY <1>3, Zenon DEF PlainCalls, PlainRqst, RecordSteps, ChunkSteps
<1> QED
  BY <1>10, <1>11, <1>12, <1>13, <1>14, <1>15, Zenon DEF Plain

-----------------------------------------------------------------------------
(* nv_delete and nv_commit_len *)

\* Storing a committed size into a chunk changes neither its id, its name nor
\* whether it is valid.
LEMMA CommitszView ==
    ASSUME Structure, NEW p \in Ptrs, NEW sz \in {0, 1},
           Store(p, [At(p) EXCEPT !.commitsz = sz]),
           UNCHANGED <<mmapobj, mmapobj_tree, chunk_tree_init, chunkobj_tree>>
    PROVE  /\ KeepsView
           /\ \A v \in Vmas, j \in Cslots :
                chunkobj'[v][j].commitsz =
                    IF v = p[1] /\ j = p[2] THEN sz ELSE chunkobj[v][j].commitsz
           /\ \A v \in Vmas, j \in Cslots : chunkobj'[v][j].objname = chunkobj[v][j].objname
<1> DEFINE c == [At(p) EXCEPT !.commitsz = sz]
<1>1. At(p) \in ChunkobjType
  BY AtType, Zenon DEF Structure
<1>2. /\ c \in ChunkobjType /\ c.valid = At(p).valid /\ c.chunkid = At(p).chunkid
      /\ c.commitsz = sz /\ c.objname = At(p).objname
  BY <1>1, Zenon DEF ChunkobjType
<1> HIDE DEF c
<1>3. Store(p, c)
  BY Zenon DEF c
<1>4. \A v \in Vmas, j \in Cslots :
         chunkobj'[v][j] = IF v = p[1] /\ j = p[2] THEN c ELSE chunkobj[v][j]
  BY <1>2, <1>3, StoreEffect, Zenon DEF Structure
<1>5. \A v \in Vmas, j \in Cslots :
         /\ chunkobj'[v][j].valid = chunkobj[v][j].valid
         /\ chunkobj'[v][j].chunkid = chunkobj[v][j].chunkid
  BY <1>2, <1>4, ZenonT(30) DEF At
<1>6. \A v \in Vmas, j \in Cslots :
        chunkobj'[v][j].commitsz =
            IF v = p[1] /\ j = p[2] THEN sz ELSE chunkobj[v][j].commitsz
  BY <1>2, <1>4, Zenon
<1>7. \A v \in Vmas, j \in Cslots : chunkobj'[v][j].objname = chunkobj[v][j].objname
  BY <1>2, <1>4, ZenonT(30) DEF At
<1> QED
  BY <1>5, <1>6, <1>7, Zenon DEF KeepsView

\* nv_delete clears the committed size of the chunk its own id leads to.
LEMMA nv_deletePlain ==
    ASSUME Structure, Plain, NEW n \in Names, nv_delete(n)
    PROVE  Plain'
<1> DEFINE id == gen_id_from_str[n]
           p == get_chunk(id)
<1>1. /\ id \in Ids /\ p # NoPtr
      /\ pc = "idle" /\ pc' = "invalidate"
      /\ Store(p, [At(p) EXCEPT !.commitsz = 0])
      /\ proc' = proc
      /\ UNCHANGED <<mmapobj, mmapobj_tree, chunk_tree_init, chunkobj_tree>>
  BY Consts, Zenon DEF nv_delete, ClearCommit, index
<1>2. rq'.del = p
  <2>1. rq' = [NoRqst EXCEPT !.name = n, !.id = id, !.del = p]
    BY Zenon DEF nv_delete
  <2> HIDE DEF id, p
  <2> QED
    BY <2>1, Zenon DEF NoRqst
<1>3. p \in Ptrs /\ At(p).valid /\ At(p).chunkid = id
  BY <1>1, GetChunkLive, Zenon DEF Plain
<1>4. get_chunk(id)' = p
  BY <1>1, Zenon DEF get_chunk, find_vmaid_from_chunk
<1> HIDE DEF id, p
<1>5. p[1] \in Vmas /\ p[2] \in Cslots
  BY <1>3, Zenon DEF Ptrs
<1>6. /\ KeepsView
      /\ \A v \in Vmas, j \in Cslots :
           chunkobj'[v][j].commitsz =
               IF v = p[1] /\ j = p[2] THEN 0 ELSE chunkobj[v][j].commitsz
  BY <1>1, <1>3, CommitszView, Zenon
<1>7. OneLivePerId' /\ EntriesLive' /\ LiveIndexed'
  BY <1>1, <1>6, KeepsViewPlain, Zenon
<1>8. AllIndexed'
  BY <1>1, <1>6, KeepsAllIndexed, Zenon DEF PendingMmapobj
<1>9. DeletedHasNoCommit'
  BY <1>6 DEF Plain, DeletedHasNoCommit, KeepsView
<1>10. At(rq.del)'.chunkid = id /\ At(rq.del)'.commitsz = 0
  <2>1. At(rq.del)' = chunkobj'[p[1]][p[2]]
    BY <1>2, Zenon DEF At
  <2> QED
    BY <1>3, <1>5, <1>6, <2>1 DEF KeepsView, At
<1>11. PlainRqst'
  <2>1. rq'.del = get_chunk(At(rq.del).chunkid)'
    BY <1>2, <1>4, <1>10, Zenon
  <2> QED
    BY <1>1, <1>10, <2>1, Zenon DEF PlainRqst, RecordSteps, ChunkSteps
<1>12. PlainCalls'
  BY <1>1, Zenon DEF PlainCalls, RecordSteps, ChunkSteps
<1> QED
  BY <1>7, <1>8, <1>9, <1>11, <1>12, Zenon DEF Plain

\* nv_commit_len commits to a live chunk.
LEMMA nv_commit_lenPlain ==
    ASSUME Structure, Plain, NEW n \in Names, nv_commit_len(n)
    PROVE  Plain'
<1> DEFINE id == gen_id_from_str[n]
           p == get_chunk(id)
<1>1. /\ id \in Ids /\ p # NoPtr
      /\ pc = "idle" /\ pc' = "idle"
      /\ Store(p, [At(p) EXCEPT !.commitsz = 1])
      /\ proc' = proc
      /\ UNCHANGED <<mmapobj, mmapobj_tree, chunk_tree_init, chunkobj_tree>>
  BY Consts, Zenon DEF nv_commit_len, index
<1>2. p \in Ptrs /\ At(p).valid
  BY <1>1, GetChunkLive, Zenon DEF Plain
<1> HIDE DEF id, p
<1>3. /\ KeepsView
      /\ \A v \in Vmas, j \in Cslots :
           chunkobj'[v][j].commitsz =
               IF v = p[1] /\ j = p[2] THEN 1 ELSE chunkobj[v][j].commitsz
  BY <1>1, <1>2, CommitszView, Zenon
<1>4. OneLivePerId' /\ EntriesLive' /\ LiveIndexed'
  BY <1>1, <1>3, KeepsViewPlain, Zenon
<1>5. AllIndexed'
  BY <1>1, <1>3, KeepsAllIndexed, Zenon DEF PendingMmapobj
<1>6. DeletedHasNoCommit'
  BY <1>2, <1>3 DEF Plain, DeletedHasNoCommit, KeepsView, At
<1>7. PlainCalls' /\ PlainRqst'
  BY <1>1, ZenonT(30) DEF PlainCalls, PlainRqst, RecordSteps, ChunkSteps
<1> QED
  BY <1>4, <1>5, <1>6, <1>7, Zenon DEF Plain

\* nv_delete invalidates one chunk and removes the one key that leads to it.
LEMMA invalidate_chunkPlain == Structure /\ Plain /\ invalidate_chunk => Plain'
<1> SUFFICES ASSUME Structure, Plain, invalidate_chunk PROVE Plain'
  BY Zenon
<1> DEFINE id == At(rq.del).chunkid
           v == find_vmaid_from_chunk(id)
           d == rq.del[2]
<1>1. /\ pc = "invalidate" /\ pc' = "idle"
      /\ proc' = proc /\ mmapobj' = mmapobj
      /\ mmapobj_tree' = mmapobj_tree /\ chunk_tree_init' = chunk_tree_init
      /\ Store(rq.del, [At(rq.del) EXCEPT !.valid = FALSE])
      /\ v # 0 => chunkobj_tree' = [chunkobj_tree EXCEPT ![v][id] = NoPtr]
  BY Zenon DEF invalidate_chunk
<1>2. /\ rq.del # NoPtr /\ Filled(At(rq.del)) /\ rq.del = get_chunk(id)
      /\ At(rq.del).commitsz = 0
  BY <1>1, ZenonT(30) DEF Structure, Call, Plain, PlainRqst
<1>3. id \in Ids
  BY <1>2, Zenon DEF Filled
<1>4. /\ v \in Vmas /\ v # 0 /\ rq.del = chunkobj_tree[v][id] /\ rq.del \in Ptrs
      /\ rq.del[1] = v
  BY <1>2, <1>3, GetChunkLive, ZenonT(30) DEF Plain
<1>5. d \in Cslots /\ rq.del = <<v, d>>
  BY <1>4 DEF Ptrs
<1>6. At(rq.del) = chunkobj[v][d]
  BY <1>4, Zenon DEF At
<1>7. chunkobj[v][d].chunkid = id /\ chunkobj[v][d].commitsz = 0
  BY <1>2, <1>6, Zenon
<1> HIDE DEF id, v, d
<1>8. /\ \A u \in Vmas, j \in Cslots : ~(u = v /\ j = d) => chunkobj'[u][j] = chunkobj[u][j]
      /\ ~chunkobj'[v][d].valid /\ chunkobj'[v][d].commitsz = 0
  <2> DEFINE c == [At(rq.del) EXCEPT !.valid = FALSE]
  <2>1. At(rq.del) \in ChunkobjType
    BY <1>4, AtType, Zenon DEF Structure
  <2>2. c \in ChunkobjType /\ ~c.valid /\ c.commitsz = At(rq.del).commitsz
    BY <2>1, Zenon DEF ChunkobjType
  <2>3. Store(rq.del, c)
    BY <1>1, Zenon
  <2> HIDE DEF c
  <2>4. \A u \in Vmas, j \in Cslots :
          chunkobj'[u][j] = IF u = rq.del[1] /\ j = rq.del[2] THEN c ELSE chunkobj[u][j]
    BY <1>4, <2>2, <2>3, StoreEffect, Zenon DEF Structure
  <2>5. \A u \in Vmas, j \in Cslots :
          chunkobj'[u][j] = IF u = v /\ j = d THEN c ELSE chunkobj[u][j]
    BY <1>4, <2>4, Zenon DEF d
  <2>6. chunkobj'[v][d] = c
    BY <1>4, <1>5, <2>5, Zenon
  <2> QED
    BY <1>2, <2>2, <2>5, <2>6, Zenon
<1>9. /\ chunkobj_tree'[v][id] = NoPtr
      /\ \A u \in Vmas, i \in Ids :
           ~(u = v /\ i = id) => chunkobj_tree'[u][i] = chunkobj_tree[u][i]
  <2>1. chunkobj_tree \in [Vmas -> [Ids -> Ptrs \cup {NoPtr}]]
    BY Zenon DEF Structure, TypeOK
  <2>2. chunkobj_tree' = [chunkobj_tree EXCEPT ![v][id] = NoPtr]
    BY <1>1, <1>4, Zenon
  <2> QED
    BY <1>3, <1>4, <2>1, <2>2, ZenonT(30)
<1>10. OneLivePerId'
  <2>1. ASSUME NEW i \in Mslots, NEW u \in Vmas, NEW j \in Cslots, LiveSlot(i, u, j)'
        PROVE  LiveSlot(i, u, j) /\ chunkobj'[u][j] = chunkobj[u][j]
    BY <1>1, <1>8, <2>1, Zenon DEF LiveSlot
  <2> QED
    BY <2>1 DEF Plain, OneLivePerId
<1>11. EntriesLive'
  <2> SUFFICES ASSUME NEW u \in Vmas, NEW i \in Ids, chunkobj_tree'[u][i] # NoPtr
               PROVE  /\ mmapobj_tree[u] # 0 /\ chunk_tree_init[u]
                      /\ \E j \in Cslots :
                           /\ chunkobj_tree'[u][i] = <<u, j>>
                           /\ chunkobj'[u][j].valid /\ chunkobj'[u][j].chunkid = i
                           /\ j <= mmapobj[mmapobj_tree[u]].numchunks
    BY <1>1 DEF EntriesLive
  <2>1. ~(u = v /\ i = id) /\ chunkobj_tree'[u][i] = chunkobj_tree[u][i]
    BY <1>9, Zenon
  <2>2. mmapobj_tree[u] # 0 /\ chunk_tree_init[u]
    BY <2>1, Zenon DEF Plain, EntriesLive
  <2>3. PICK j \in Cslots :
             /\ chunkobj_tree[u][i] = <<u, j>>
             /\ chunkobj[u][j].valid /\ chunkobj[u][j].chunkid = i
             /\ j <= mmapobj[mmapobj_tree[u]].numchunks
    BY <1>1, <2>1, Zenon DEF Plain, EntriesLive
  <2>4. chunkobj'[u][j] = chunkobj[u][j]
    BY <1>7, <1>8, <2>1, <2>3, Zenon
  <2> QED
    BY <2>1, <2>2, <2>3, <2>4, Zenon
<1>12. LiveIndexed'
  <2> SUFFICES ASSUME NEW u \in Vmas, NEW j \in Cslots, mmapobj_tree[u] # 0,
                      mmapobj[mmapobj_tree[u]].vma_id = u,
                      j <= mmapobj[mmapobj_tree[u]].numchunks, chunkobj'[u][j].valid
               PROVE  chunkobj_tree'[u][chunkobj'[u][j].chunkid] = <<u, j>>
    BY <1>1, Zenon DEF LiveIndexed, LiveSlot
  <2>1. ~(u = v /\ j = d) /\ chunkobj'[u][j] = chunkobj[u][j]
    BY <1>8, Zenon
  <2>2. chunkobj_tree[u][chunkobj[u][j].chunkid] = <<u, j>>
    BY <2>1, Zenon DEF Plain, LiveIndexed, LiveSlot
  <2>3. chunkobj[u][j].chunkid \in Ids
    <3>1. mmapobj_tree[u] \in Mslots /\ u # 0
      BY TreeMmapobj, Consts DEF Vmas
    <3>2. Filled(chunkobj[u][j])
      BY <3>1, Zenon DEF Structure, MetaFiles
    <3> QED
      BY <3>2, Zenon DEF Filled
  <2>4. ASSUME u = v, chunkobj[u][j].chunkid = id PROVE FALSE
    <3>1. chunkobj_tree[v][id] = <<v, j>>
      BY <2>2, <2>4, Zenon
    <3>2. <<v, j>> = <<v, d>>
      BY <1>4, <1>5, <3>1, Zenon
    <3>3. j = d
      BY <3>2, Zenon
    <3> QED
      BY <2>1, <2>4, <3>3, Zenon
  <2>5. chunkobj_tree'[u][chunkobj[u][j].chunkid] = chunkobj_tree[u][chunkobj[u][j].chunkid]
    BY <1>9, <2>3, <2>4, Zenon
  <2> QED
    BY <2>1, <2>2, <2>5, Zenon
<1>13. AllIndexed'
  <2>1. PendingMmapobj' = PendingMmapobj
    BY <1>1, Zenon DEF PendingMmapobj
  <2> QED
    BY <1>1, <2>1, Zenon DEF Plain, AllIndexed
<1>14. DeletedHasNoCommit'
  BY <1>8 DEF Plain, DeletedHasNoCommit
<1>15. PlainCalls' /\ PlainRqst'
  BY <1>1, Zenon DEF PlainCalls, PlainRqst, RecordSteps, ChunkSteps
<1> QED
  BY <1>10, <1>11, <1>12, <1>13, <1>14, <1>15, Zenon DEF Plain

-----------------------------------------------------------------------------
(* Restart *)

\* load_process finds the one mmapobj of a region that the counter covers.
LEMMA LoadedMmapobjIs ==
    ASSUME Structure, NEW i \in Mslots, i <= proc.pesist_mmaps, mmapobj[i].vma_id # 0
    PROVE  LoadedMmapobj(mmapobj[i].vma_id) = i
<1> DEFINE v == mmapobj[i].vma_id
           S == {k \in 1 .. proc.pesist_mmaps : mmapobj[k].vma_id = v}
<1>1. proc.pesist_mmaps \in Nat
  BY Consts DEF Structure, TypeOK
<1>2. i \in S
  BY <1>1, Consts DEF Mslots
<1>3. S \subseteq 1 .. proc.pesist_mmaps
  BY Zenon
<1>4. MaxOr0(S) # 0
  BY <1>1, <1>2, <1>3, MaxOr0Lemma
<1>5. LoadedMmapobj(v) = MaxOr0(S)
  BY Zenon DEF LoadedMmapobj
<1>6. LoadedMmapobj(v) \in Mslots /\ mmapobj[LoadedMmapobj(v)].vma_id = v
  BY <1>4, <1>5, LoadedMmapobjLemma, Zenon DEF Structure
<1> QED
  BY <1>6, ZenonT(30) DEF Structure, VmaIds, VmaIdsUnique

\* restore_chunk_objs enters the one live slot that carries an id.
LEMMA LoadedChunkIs ==
    ASSUME Structure, OneLivePerId, NEW v \in Vmas, NEW j \in LoadedSlots(v)
    PROVE  LoadedChunk(v, chunkobj[v][j].chunkid) = <<v, j>>
<1> DEFINE id == chunkobj[v][j].chunkid
           S == {k \in LoadedSlots(v) : chunkobj[v][k].chunkid = id}
           i == LoadedMmapobj(v)
<1>1. S \subseteq 1 .. MaxChunks /\ MaxChunks \in Nat
  BY LoadedSlotsLemma, Consts, Zenon DEF Cslots
<1>2. j \in S
  BY Zenon
<1>3. MaxOr0(S) # 0 /\ MaxOr0(S) \in S
  BY <1>1, <1>2, MaxOr0Lemma
<1>4. i # 0 /\ i \in Mslots /\ mmapobj[i].vma_id = v
  BY LoadedMmapobjLemma, Zenon DEF LoadedSlots, Structure
<1>5. \A k \in LoadedSlots(v) : k \in Cslots /\ LiveSlot(i, v, k)
  <2> SUFFICES ASSUME NEW k \in LoadedSlots(v) PROVE k \in Cslots /\ LiveSlot(i, v, k)
    BY Zenon
  <2>1. k \in Cslots /\ chunkobj[v][k].valid
    BY LoadedSlotsLemma, Zenon
  <2>2. k \in 1 .. mmapobj[i].numchunks
    BY <1>4, Zenon DEF LoadedSlots
  <2> QED
    BY <1>4, <2>1, <2>2 DEF LiveSlot
<1>6. MaxOr0(S) \in LoadedSlots(v) /\ chunkobj[v][MaxOr0(S)].chunkid = id
  BY <1>3, Zenon
<1>7. LoadedChunk(v, id) = <<v, MaxOr0(S)>>
  BY <1>3, Zenon DEF LoadedChunk
<1> HIDE DEF S, i
<1>8. MaxOr0(S) = j
  BY <1>4, <1>5, <1>6, ZenonT(30) DEF OneLivePerId
<1> QED
  BY <1>7, <1>8, Zenon

\* What load_process rebuilds satisfies the invariant again.
LEMMA nv_initializePlain == Structure /\ Plain /\ nv_initialize => Plain'
<1> SUFFICES ASSUME Structure, Plain, nv_initialize PROVE Plain'
  BY Zenon
<1>1. /\ pc = "down" /\ pc' = "idle"
      /\ mmapobj_tree' = [v \in Vmas |-> LoadedMmapobj(v)]
      /\ chunk_tree_init' =
           [v \in Vmas |-> LoadedMmapobj(v) # 0 /\ mmapobj[LoadedMmapobj(v)].numchunks > 0]
      /\ chunkobj_tree' = [v \in Vmas |-> [id \in Ids |-> LoadedChunk(v, id)]]
      /\ proc' = proc /\ mmapobj' = mmapobj /\ chunkobj' = chunkobj
  BY Zenon DEF nv_initialize, load_process, persistent
<1>2. \A v \in Vmas : /\ mmapobj_tree'[v] = LoadedMmapobj(v)
                      /\ chunk_tree_init'[v] =
                           (LoadedMmapobj(v) # 0 /\ mmapobj[LoadedMmapobj(v)].numchunks > 0)
                      /\ \A id \in Ids : chunkobj_tree'[v][id] = LoadedChunk(v, id)
  BY <1>1, Zenon
<1>3. OneLivePerId'
  BY <1>1, ZenonT(30) DEF Plain, OneLivePerId, LiveSlot
<1>4. EntriesLive'
  <2> SUFFICES ASSUME NEW v \in Vmas, NEW id \in Ids, LoadedChunk(v, id) # NoPtr
               PROVE  /\ LoadedMmapobj(v) # 0
                      /\ mmapobj[LoadedMmapobj(v)].numchunks > 0
                      /\ \E j \in Cslots :
                           /\ LoadedChunk(v, id) = <<v, j>>
                           /\ chunkobj[v][j].valid /\ chunkobj[v][j].chunkid = id
                           /\ j <= mmapobj[LoadedMmapobj(v)].numchunks
    BY <1>1, <1>2, ZenonT(30) DEF EntriesLive
  <2>1. PICK j \in LoadedSlots(v) : LoadedChunk(v, id) = <<v, j>> /\ chunkobj[v][j].chunkid = id
    BY LoadedChunkLemma, Zenon
  <2>2. j \in Cslots /\ chunkobj[v][j].valid
    BY LoadedSlotsLemma, Zenon
  <2>3. LoadedMmapobj(v) # 0 /\ j \in 1 .. mmapobj[LoadedMmapobj(v)].numchunks
    BY Zenon DEF LoadedSlots
  <2>4. LoadedMmapobj(v) \in Mslots
    BY <2>3, LoadedMmapobjLemma, Zenon DEF Structure
  <2>5. mmapobj[LoadedMmapobj(v)].numchunks \in Nat
    BY <2>4, MmapobjTypes, Consts DEF Structure
  <2> QED
    BY <2>1, <2>2, <2>3, <2>5
<1>5. LiveIndexed'
  <2> SUFFICES ASSUME NEW v \in Vmas, NEW j \in Cslots, LoadedMmapobj(v) # 0,
                      j <= mmapobj[LoadedMmapobj(v)].numchunks, chunkobj[v][j].valid
               PROVE  chunkobj_tree'[v][chunkobj[v][j].chunkid] = <<v, j>>
    BY <1>1, <1>2, ZenonT(30) DEF LiveIndexed, LiveSlot
  <2>1. LoadedMmapobj(v) \in Mslots
    BY LoadedMmapobjLemma, Zenon DEF Structure
  <2>2. mmapobj[LoadedMmapobj(v)].numchunks \in Nat
    BY <2>1, MmapobjTypes, Consts DEF Structure
  <2>3. j \in LoadedSlots(v)
    BY <2>2, Consts DEF LoadedSlots, Cslots
  <2>4. chunkobj[v][j].chunkid \in Ids
    BY <2>3, LoadedSlotsLemma, Zenon DEF Filled
  <2>5. LoadedChunk(v, chunkobj[v][j].chunkid) = <<v, j>>
    BY <2>3, LoadedChunkIs, Zenon DEF Plain
  <2> QED
    BY <1>2, <2>4, <2>5, Zenon
<1>6. AllIndexed'
  <2> SUFFICES ASSUME proc.meta = proc.pesist_mmaps, NEW i \in Mslots, mmapobj[i].vma_id # 0
               PROVE  mmapobj_tree'[mmapobj[i].vma_id] = i
    <3>1. PendingMmapobj' = 0
      BY <1>1, Zenon DEF PendingMmapobj
    <3>2. proc.pesist_mmaps + 0 = proc.pesist_mmaps
      BY Consts DEF Structure, TypeOK
    <3> QED
      BY <1>1, <3>1, <3>2, Zenon DEF AllIndexed
  <2>1. i <= proc.pesist_mmaps
    <3>1. i \in Nat /\ proc.meta \in Nat
      BY Consts DEF Structure, TypeOK, Mslots
    <3>2. ~(i > proc.meta)
      BY DEF Structure, ProcFile, ZeroMmapobj
    <3> QED
      BY <3>1, <3>2
  <2>2. LoadedMmapobj(mmapobj[i].vma_id) = i
    BY <2>1, LoadedMmapobjIs, Zenon
  <2>3. mmapobj[i].vma_id \in Vmas
    BY MmapobjTypes, Consts DEF Structure, Vmas
  <2> QED
    BY <1>2, <2>2, <2>3, Zenon
<1>7. DeletedHasNoCommit'
  BY <1>1, Zenon DEF Plain, DeletedHasNoCommit
<1>8. PlainCalls' /\ PlainRqst'
  BY <1>1, Zenon DEF PlainCalls, PlainRqst, RecordSteps, ChunkSteps
<1> QED
  BY <1>3, <1>4, <1>5, <1>6, <1>7, <1>8, Zenon DEF Plain

-----------------------------------------------------------------------------
(* The theorems *)

\* Every step of such an application keeps the invariant.
LEMMA NextPlain ==
    ASSUME Requests \subseteq PlainKinds, Structure, Plain, [Next]_vars
    PROVE  Plain'
<1>1. CASE UNCHANGED vars
  <2>1. /\ proc' = proc /\ mmapobj' = mmapobj /\ chunkobj' = chunkobj
        /\ mmapobj_tree' = mmapobj_tree /\ chunk_tree_init' = chunk_tree_init
        /\ chunkobj_tree' = chunkobj_tree /\ pc' = pc /\ rq' = rq
    BY <1>1, Zenon DEF vars, persistent, index
  <2>2. PlainCalls' /\ DeletedHasNoCommit'
    BY <2>1, Zenon DEF Plain, PlainCalls, DeletedHasNoCommit
  <2>3. OneLivePerId' /\ LiveIndexed'
    BY <2>1, ZenonT(30) DEF Plain, OneLivePerId, LiveIndexed, LiveSlot
  <2>4. EntriesLive'
    <3> SUFFICES ASSUME NEW v \in Vmas, NEW id \in Ids, chunkobj_tree'[v][id] # NoPtr
                 PROVE  /\ mmapobj_tree'[v] # 0 /\ chunk_tree_init'[v]
                        /\ \E j \in Cslots :
                             /\ chunkobj_tree'[v][id] = <<v, j>>
                             /\ chunkobj'[v][j].valid /\ chunkobj'[v][j].chunkid = id
                             /\ \/ j <= mmapobj'[mmapobj_tree'[v]].numchunks
                                \/ pc' = "count_chunkobj" /\ <<v, j>> = rq'.new
      BY Zenon DEF EntriesLive
    <3>1. chunkobj_tree[v][id] # NoPtr
      BY <2>1, Zenon
    <3>2. mmapobj_tree[v] # 0 /\ chunk_tree_init[v]
      BY <3>1, Zenon DEF Plain, EntriesLive
    <3>3. PICK j \in Cslots :
            /\ chunkobj_tree[v][id] = <<v, j>>
            /\ chunkobj[v][j].valid /\ chunkobj[v][j].chunkid = id
            /\ \/ j <= mmapobj[mmapobj_tree[v]].numchunks
               \/ pc = "count_chunkobj" /\ <<v, j>> = rq.new
      BY <3>1, Zenon DEF Plain, EntriesLive
    <3> QED
      BY <2>1, <3>2, <3>3, Zenon
  <2>5. AllIndexed'
    BY <2>1, Zenon DEF Plain, AllIndexed, PendingMmapobj
  <2>6. PlainRqst'
    BY <2>1, Zenon DEF Plain, PlainRqst, At, get_chunk, find_vmaid_from_chunk
  <2> QED
    BY <2>2, <2>3, <2>4, <2>5, <2>6, Zenon DEF Plain
<1>2. ASSUME NEW n \in Names, NEW v \in Vmas, nv_record_chunk(n, v)
      PROVE  Plain'
  BY <1>2, nv_record_chunkPlain, Zenon
<1>3. ASSUME NEW n \in Names, nv_delete(n) \/ nv_commit_len(n)
      PROVE  Plain'
  BY <1>3, nv_deletePlain, nv_commit_lenPlain, Zenon
<1>4. ASSUME NEW src \in Names, NEW dest \in Names, nv_rename(src, dest)
      PROVE  Plain'
  BY <1>4, Zenon DEF nv_rename, PlainKinds
<1>5. CASE nv_initialize \/ Crash \/ _mmap \/ create_mmapobj \/ fill_mmapobj
  BY <1>5, nv_initializePlain, CrashPlain, _mmapPlain, create_mmapobjPlain, fill_mmapobjPlain, Zenon
<1>6. CASE add_mmapobj_to_proc \/ create_chunkobj \/ add_chunkobj \/ count_chunkobj
  BY <1>6, add_mmapobj_to_procPlain, create_chunkobjPlain, add_chunkobjPlain,
     count_chunkobjPlain, Zenon
<1>7. CASE copy_oldchunk \/ delete_oldchunk \/ rename_update
  BY <1>7, Zenon DEF copy_oldchunk, delete_oldchunk, rename_update, Plain, PlainCalls
<1>8. CASE invalidate_chunk
  BY <1>8, invalidate_chunkPlain, Zenon
<1> QED
  BY <1>1, <1>2, <1>3, <1>4, <1>5, <1>6, <1>7, <1>8, ZenonT(30) DEF Next

\* Trees and slots agree in every reachable state, for every number of names,
\* regions, chunks and crashes.
THEOREM PlainInvariant == ASSUME Requests \subseteq PlainKinds PROVE Spec => []Plain
<1>1. Init => Plain
  BY InitPlain, Zenon
<1>2. Structure /\ Plain /\ [Next]_vars => Plain'
  BY NextPlain, Zenon
<1> QED
  BY <1>1, <1>2, StructureInvariant, PTL DEF Spec

\* Between two calls the trees hold what load_process would put in them.
LEMMA TreesAreLoaded ==
    ASSUME Structure, Plain, pc = "idle", ~Drifted, NEW v \in Vmas
    PROVE  /\ mmapobj_tree[v] = LoadedMmapobj(v)
           /\ \A id \in Ids : chunkobj_tree[v][id] = LoadedChunk(v, id)
<1>1. v # 0
  BY Consts DEF Vmas
<1>2. proc.meta = proc.pesist_mmaps /\ proc.pesist_mmaps \in Nat /\ PendingMmapobj = 0
  BY ProcTypes, Zenon DEF Drifted, Structure, PendingMmapobj
<1>3. ASSUME LoadedMmapobj(v) # 0 PROVE mmapobj_tree[v] = LoadedMmapobj(v)
  <2>1. LoadedMmapobj(v) \in Mslots /\ mmapobj[LoadedMmapobj(v)].vma_id = v
    BY <1>3, LoadedMmapobjLemma, Zenon DEF Structure
  <2>2. proc.meta = proc.pesist_mmaps + PendingMmapobj
    BY <1>2
  <2>3. \A i \in Mslots : mmapobj[i].vma_id # 0 => mmapobj_tree[mmapobj[i].vma_id] = i
    BY <2>2, Zenon DEF Plain, AllIndexed
  <2> QED
    BY <1>1, <2>1, <2>3, Zenon
<1>4. ASSUME mmapobj_tree[v] # 0 PROVE mmapobj_tree[v] = LoadedMmapobj(v)
  <2>1. mmapobj_tree[v] \in Mslots /\ mmapobj[mmapobj_tree[v]].vma_id = v
    BY <1>4, TreeMmapobj, Zenon
  <2>2. mmapobj_tree[v] <= proc.pesist_mmaps
    BY <1>2, <1>4, ZenonT(30) DEF Structure, Trees
  <2> QED
    BY <1>1, <2>1, <2>2, LoadedMmapobjIs, Zenon
<1>5. mmapobj_tree[v] = LoadedMmapobj(v)
  BY <1>3, <1>4, Zenon
<1>6. ASSUME NEW id \in Ids, LoadedChunk(v, id) # NoPtr
      PROVE  chunkobj_tree[v][id] = LoadedChunk(v, id)
  <2>1. PICK j \in LoadedSlots(v) : LoadedChunk(v, id) = <<v, j>> /\ chunkobj[v][j].chunkid = id
    BY <1>6, LoadedChunkLemma, Zenon
  <2>2. j \in Cslots /\ chunkobj[v][j].valid
    BY LoadedSlotsLemma, Zenon
  <2>3. LoadedMmapobj(v) # 0 /\ j \in 1 .. mmapobj[LoadedMmapobj(v)].numchunks
    BY Zenon DEF LoadedSlots
  <2>4. mmapobj_tree[v] # 0 /\ j \in 1 .. mmapobj[mmapobj_tree[v]].numchunks
    BY <1>5, <2>3, Zenon
  <2>5. LiveSlot(mmapobj_tree[v], v, j)
    BY <2>2, <2>4, TreeMmapobj DEF LiveSlot
  <2> QED
    BY <2>1, <2>2, <2>4, <2>5, ZenonT(30) DEF Plain, LiveIndexed
<1>7. ASSUME NEW id \in Ids, chunkobj_tree[v][id] # NoPtr
      PROVE  chunkobj_tree[v][id] = LoadedChunk(v, id)
  <2>1. mmapobj_tree[v] # 0
    BY <1>7, Zenon DEF Plain, EntriesLive
  <2>2. PICK j \in Cslots :
             /\ chunkobj_tree[v][id] = <<v, j>>
             /\ chunkobj[v][j].valid /\ chunkobj[v][j].chunkid = id
             /\ j <= mmapobj[mmapobj_tree[v]].numchunks
    BY <1>7, ZenonT(30) DEF Plain, EntriesLive
  <2>3. LoadedMmapobj(v) # 0 /\ j <= mmapobj[LoadedMmapobj(v)].numchunks
    BY <1>5, <2>1, <2>2, Zenon
  <2>4. mmapobj[LoadedMmapobj(v)].numchunks \in Nat
    BY <2>3, LoadedMmapobjLemma, MmapobjTypes, Consts DEF Structure
  <2>5. j \in LoadedSlots(v)
    BY <2>2, <2>3, <2>4, Consts DEF LoadedSlots, Cslots
  <2> QED
    BY <2>2, <2>5, LoadedChunkIs, Zenon DEF Plain
<1> QED
  BY <1>5, <1>6, <1>7, Zenon

\* Between two calls, and unless a crash made the counters of the process
\* drift apart, a restart finds for every id what the running program finds.
THEOREM RestartTransparentCorrect ==
    ASSUME Requests \subseteq PlainKinds PROVE Spec => []RestartTransparent
<1>1. Structure /\ Plain => RestartTransparent
  <2> SUFFICES ASSUME Structure, Plain, pc = "idle", ~Drifted, NEW id \in Ids
               PROVE  get_chunk(id) = Recovered(id)
    BY Zenon DEF RestartTransparent
  <2> DEFINE S == {v \in Vmas : /\ mmapobj_tree[v] # 0
                                /\ chunk_tree_init[v]
                                /\ chunkobj_tree[v][id] # NoPtr}
             T == {w \in Vmas : LoadedChunk(w, id) # NoPtr}
  <2>1. \A v \in Vmas : chunkobj_tree[v][id] = LoadedChunk(v, id)
    BY TreesAreLoaded, Zenon
  <2>2. \A v \in Vmas : chunkobj_tree[v][id] # NoPtr => mmapobj_tree[v] # 0 /\ chunk_tree_init[v]
    BY Zenon DEF Plain, EntriesLive
  <2>3. S = T
    BY <2>1, <2>2, Zenon
  <2>4. MaxOr0(T) # 0 => MaxOr0(T) \in Vmas
    <3>1. T \subseteq 1 .. MaxMmaps /\ MaxMmaps \in Nat
      BY Consts, Zenon DEF Vmas
    <3> QED
      BY <3>1, MaxOr0Lemma, Zenon
  <2>5. find_vmaid_from_chunk(id) = MaxOr0(S)
    BY Zenon DEF find_vmaid_from_chunk
  <2>6. get_chunk(id) = IF MaxOr0(T) = 0 THEN NoPtr ELSE chunkobj_tree[MaxOr0(T)][id]
    BY <2>3, <2>5, Zenon DEF get_chunk
  <2>7. Recovered(id) = IF MaxOr0(T) = 0 THEN NoPtr ELSE LoadedChunk(MaxOr0(T), id)
    BY Zenon DEF Recovered
  <2> HIDE DEF S, T
  <2> QED
    BY <2>1, <2>4, <2>6, <2>7, Zenon
<1> QED
  BY <1>1, StructureInvariant, PlainInvariant, PTL

\* A key of a chunk tree leads to a live chunk that carries this key.
THEOREM KeysLiveCorrect == ASSUME Requests \subseteq PlainKinds PROVE Spec => []KeysLive
<1>1. Structure /\ Plain => KeysLive
  <2> SUFFICES ASSUME Structure, Plain, pc = "idle", NEW v \in Vmas, NEW id \in Ids,
                      chunkobj_tree[v][id] # NoPtr
               PROVE  /\ At(chunkobj_tree[v][id]).valid
                      /\ At(chunkobj_tree[v][id]).chunkid = id
    BY Zenon DEF KeysLive
  <2>1. PICK j \in Cslots : /\ chunkobj_tree[v][id] = <<v, j>>
                            /\ chunkobj[v][j].valid /\ chunkobj[v][j].chunkid = id
    BY ZenonT(30) DEF Plain, EntriesLive
  <2> QED
    BY <2>1 DEF At
<1> QED
  BY <1>1, StructureInvariant, PlainInvariant, PTL

\* A deleted chunk has no committed bytes.
THEOREM DeletedHasNoCommitCorrect ==
    ASSUME Requests \subseteq PlainKinds PROVE Spec => []DeletedHasNoCommit
<1>1. Plain => DeletedHasNoCommit
  BY Zenon DEF Plain
<1> QED
  BY <1>1, PlainInvariant, PTL

-----------------------------------------------------------------------------
(* What get_object_list reports                                            *)


\* A step that keeps what the trees and the restart see of the slots, the
\* names in the slots and the name map.
LEMMA KeepsListing ==
    ASSUME Listing, KeepsView, pc # "down", NoDrift' => NoDrift,
           objnamemap' = objnamemap,
           \A v \in Vmas, j \in Cslots : chunkobj'[v][j].objname = chunkobj[v][j].objname
    PROVE  SlotsHashed' /\ OneRegionPerId' /\ MapIsIndex'
<1>1. SlotsHashed'
  BY ZenonT(30) DEF Listing, SlotsHashed, KeepsView
<1>2. OneRegionPerId'
  <2>1. \A i \in Mslots, v \in Vmas, j \in Cslots : LiveSlot(i, v, j)' => LiveSlot(i, v, j)
    BY Zenon DEF LiveSlot, KeepsView
  <2>2. \A v \in Vmas, j \in Cslots : chunkobj'[v][j].chunkid = chunkobj[v][j].chunkid
    BY Zenon DEF KeepsView
  <2> QED
    BY <2>1, <2>2 DEF Listing, OneRegionPerId
<1>3. MapIsIndex'
  <2>1. \A n \in Names : Indexed(n)' <=> Indexed(n)
    BY Zenon DEF Indexed, KeepsView
  <2> QED
    BY <2>1, Zenon DEF Listing, MapIsIndex
<1> QED
  BY <1>1, <1>2, <1>3, Zenon

\* A new process file holds no name.
LEMMA InitListing == Init => Listing
<1> SUFFICES ASSUME Init PROVE Listing
  BY Zenon
<1>1. /\ \A i \in Mslots : mmapobj[i].vma_id = 0
      /\ \A v \in Vmas, j \in Cslots : chunkobj[v][j].objname = NoName
      /\ pc = "down"
  BY Zenon DEF Init, ZeroMmapobj, ZeroChunk
<1>2. SlotsHashed
  BY <1>1, Consts, Zenon DEF SlotsHashed
<1>3. OneRegionPerId
  BY <1>1, Consts, ZenonT(30) DEF OneRegionPerId, LiveSlot, Vmas
<1>4. RqstHashed /\ KeyIsNew /\ MapIsIndex
  BY <1>1, Zenon DEF RqstHashed, KeyIsNew, MapIsIndex, RecordSteps, ChunkSteps
<1> QED
  BY <1>2, <1>3, <1>4, Zenon DEF Listing

\* The process can only die undrifted with no mmapobj pending.
LEMMA CrashListing == Structure /\ Listing /\ Crash => Listing'
<1> SUFFICES ASSUME Structure, Listing, Crash PROVE Listing'
  BY Zenon
<1>1. /\ proc' = proc /\ mmapobj' = mmapobj /\ chunkobj' = chunkobj /\ pc' = "down"
  BY Zenon DEF Crash, persistent
<1>2. NoDrift' => NoDrift
  <2>1. proc.pesist_mmaps + PendingMmapobj <= proc.meta
    BY Zenon DEF Structure, ProcFile
  <2>2. proc.pesist_mmaps \in Nat /\ proc.meta \in Nat
    BY ProcTypes, Zenon DEF Structure
  <2>3. PendingMmapobj' = 0
    BY <1>1, Zenon DEF PendingMmapobj
  <2>4. PendingMmapobj \in {0, 1}
    BY Zenon DEF PendingMmapobj
  <2> QED
    BY <1>1, <2>1, <2>2, <2>3, <2>4 DEF NoDrift
<1>3. SlotsHashed'
  BY <1>1, Zenon DEF Listing, SlotsHashed
<1>4. OneRegionPerId'
  <2>1. \A i \in Mslots, v \in Vmas, j \in Cslots : LiveSlot(i, v, j)' => LiveSlot(i, v, j)
    BY <1>1, Zenon DEF LiveSlot
  <2> QED
    BY <1>1, <1>2, <2>1 DEF Listing, OneRegionPerId
<1>5. RqstHashed' /\ KeyIsNew' /\ MapIsIndex'
  BY <1>1, Zenon DEF RqstHashed, KeyIsNew, MapIsIndex, RecordSteps, ChunkSteps
<1> QED
  BY <1>3, <1>4, <1>5, Zenon DEF Listing

\* A new region has no names yet.
LEMMA _mmapListing == Structure /\ Listing /\ _mmap => Listing'
<1> SUFFICES ASSUME Structure, Listing, _mmap PROVE Listing'
  BY Zenon
<1>1. /\ UNCHANGED <<mmapobj, chunkobj, mmapobj_tree, chunk_tree_init, chunkobj_tree>>
      /\ pc = "idle" /\ pc' = "idle" /\ objnamemap' = objnamemap
      /\ proc'.meta = proc.meta /\ proc'.pesist_mmaps = proc.pesist_mmaps
  BY Zenon DEF _mmap, Structure, TypeOK
<1>2. KeepsView
  BY <1>1, SameView, Zenon
<1>3. NoDrift' => NoDrift
  BY <1>1, Zenon DEF NoDrift, PendingMmapobj
<1>4. SlotsHashed' /\ OneRegionPerId' /\ MapIsIndex'
  BY <1>1, <1>2, <1>3, KeepsListing, Zenon
<1>5. RqstHashed' /\ KeyIsNew'
  BY <1>1, Zenon DEF RqstHashed, KeyIsNew, RecordSteps, ChunkSteps
<1> QED
  BY <1>4, <1>5, ZenonT(30) DEF Listing

\* No chunk tree has the id of a name that is not in use.
LEMMA nv_record_chunkListing ==
    ASSUME Requests \subseteq PlainKinds, Structure, Plain, Listing,
           NEW n \in Names, NEW v \in Vmas, nv_record_chunk(n, v)
    PROVE  Listing'
<1> DEFINE id == gen_id_from_str[n]
<1>1. id \in Ids
  BY Consts, Zenon
<1>2. check_if_chunk_exists(id) = NoPtr
  BY Zenon DEF nv_record_chunk, PlainKinds
<1>3. get_chunk(id) = NoPtr
  BY <1>1, <1>2, GetChunkLive, Zenon DEF check_if_chunk_exists, Plain
<1>4. \A u \in Vmas : chunkobj_tree[u][id] = NoPtr
  BY <1>1, <1>3, GetChunkLive, ZenonT(30) DEF Plain
<1>5. /\ UNCHANGED <<proc, mmapobj, chunkobj, mmapobj_tree, chunk_tree_init, chunkobj_tree>>
      /\ objnamemap' = objnamemap
      /\ pc = "idle" /\ pc' \in {"create_mmapobj", "create_chunkobj"}
      /\ rq' = [NoRqst EXCEPT !.name = n, !.id = id, !.vma = v, !.old = NoPtr]
  BY <1>2, Zenon DEF nv_record_chunk, index
<1>6. rq'.id = id /\ rq'.name = n
  BY <1>5, Zenon DEF NoRqst
<1>7. KeepsView
  BY <1>5, SameView, Zenon
<1>8. NoDrift' => NoDrift
  BY <1>5, Zenon DEF NoDrift, PendingMmapobj
<1>9. SlotsHashed' /\ OneRegionPerId' /\ MapIsIndex'
  BY <1>5, <1>7, <1>8, KeepsListing, ZenonT(30)
<1>10. RqstHashed'
  BY <1>5, <1>6, ZenonT(30) DEF RqstHashed
<1> HIDE DEF id
<1>11. KeyIsNew'
  BY <1>4, <1>5, <1>6, ZenonT(30) DEF KeyIsNew
<1> QED
  BY <1>9, <1>10, <1>11, Zenon DEF Listing

\* Moving meta_offset of the process file and counting the mmapobj touch no
\* name; between the two the mmapobj is pending.
LEMMA create_mmapobjListing == Structure /\ Listing /\ create_mmapobj => Listing'
<1> SUFFICES ASSUME Structure, Listing, create_mmapobj PROVE Listing'
  BY Zenon
<1>1. /\ UNCHANGED <<mmapobj, chunkobj, mmapobj_tree, chunk_tree_init, chunkobj_tree, rq>>
      /\ objnamemap' = objnamemap
      /\ pc = "create_mmapobj" /\ pc' = "fill_mmapobj"
  BY Zenon DEF create_mmapobj, index
<1>2. /\ proc'.meta = proc.meta + 1 /\ proc'.pesist_mmaps = proc.pesist_mmaps
      /\ proc.meta \in Nat /\ proc.pesist_mmaps \in Nat
  BY Consts DEF create_mmapobj, Structure, TypeOK
<1>3. KeepsView
  BY <1>1, SameView, Zenon
<1>4. NoDrift' => NoDrift
  BY <1>1, <1>2 DEF NoDrift, PendingMmapobj
<1>5. SlotsHashed' /\ OneRegionPerId' /\ MapIsIndex'
  BY <1>1, <1>3, <1>4, KeepsListing, Zenon
<1>6. RqstHashed' /\ KeyIsNew'
  BY <1>1, Zenon DEF Listing, RqstHashed, KeyIsNew, RecordSteps
<1> QED
  BY <1>5, <1>6, Zenon DEF Listing

\* Counting the mmapobj ends its being pending and touches no name.
LEMMA add_mmapobj_to_procListing == Structure /\ Listing /\ add_mmapobj_to_proc => Listing'
<1> SUFFICES ASSUME Structure, Listing, add_mmapobj_to_proc PROVE Listing'
  BY Zenon
<1>1. /\ UNCHANGED <<mmapobj, chunkobj, mmapobj_tree, chunk_tree_init, chunkobj_tree, rq>>
      /\ objnamemap' = objnamemap
      /\ pc = "count_mmapobj" /\ pc' = "create_chunkobj"
  BY Zenon DEF add_mmapobj_to_proc, index
<1>2. /\ proc'.meta = proc.meta /\ proc'.pesist_mmaps = proc.pesist_mmaps + 1
      /\ proc.meta \in Nat /\ proc.pesist_mmaps \in Nat
  BY Consts DEF add_mmapobj_to_proc, Structure, TypeOK
<1>3. KeepsView
  BY <1>1, SameView, Zenon
<1>4. NoDrift' => NoDrift
  BY <1>1, <1>2 DEF NoDrift, PendingMmapobj
<1>5. SlotsHashed' /\ OneRegionPerId' /\ MapIsIndex'
  BY <1>1, <1>3, <1>4, KeepsListing, Zenon
<1>6. RqstHashed' /\ KeyIsNew'
  BY <1>1, ZenonT(30) DEF Listing, RqstHashed, KeyIsNew, RecordSteps, ChunkSteps
<1> QED
  BY <1>5, <1>6, Zenon DEF Listing

\* Taking a chunk slot touches no name.
LEMMA create_chunkobjListing == Structure /\ Listing /\ create_chunkobj => Listing'
<1> SUFFICES ASSUME Structure, Listing, create_chunkobj PROVE Listing'
  BY Zenon
<1>1. /\ pc = "create_chunkobj" /\ pc' = "fill_chunkobj"
      /\ proc' = proc /\ chunkobj' = chunkobj
      /\ UNCHANGED <<mmapobj_tree, chunk_tree_init, chunkobj_tree, objnamemap>>
  BY create_chunkobjEffect, Zenon DEF index
<1>2. /\ rq'.name = rq.name /\ rq'.vma = rq.vma /\ rq'.id = rq.id
  BY Zenon DEF create_chunkobj, Structure, TypeOK
<1>3. KeepsView
  <2>1. ASSUME NEW i \in Mslots
        PROVE  mmapobj'[i].vma_id = mmapobj[i].vma_id /\ mmapobj'[i].numchunks = mmapobj[i].numchunks
    BY create_chunkobjEffect
  <2> QED
    BY <1>1, <2>1, Zenon DEF KeepsView
<1>4. NoDrift' => NoDrift
  BY <1>1, Zenon DEF NoDrift, PendingMmapobj
<1>5. SlotsHashed' /\ OneRegionPerId' /\ MapIsIndex'
  BY <1>1, <1>3, <1>4, KeepsListing, Zenon
<1>6. RqstHashed' /\ KeyIsNew'
  BY <1>1, <1>2, Zenon DEF Listing, RqstHashed, KeyIsNew, RecordSteps, ChunkSteps
<1> QED
  BY <1>5, <1>6, Zenon DEF Listing

\* nv_delete clears the committed size of the chunk that carries the id of the
\* name.
LEMMA nv_deleteListing ==
    ASSUME Structure, Plain, Listing, NEW n \in Names, nv_delete(n)
    PROVE  Listing'
<1> DEFINE id == gen_id_from_str[n]
           p == get_chunk(id)
<1>1. /\ id \in Ids /\ p # NoPtr
      /\ pc = "idle" /\ pc' = "invalidate"
      /\ Store(p, [At(p) EXCEPT !.commitsz = 0])
      /\ proc' = proc /\ objnamemap' = objnamemap
      /\ UNCHANGED <<mmapobj, mmapobj_tree, chunk_tree_init, chunkobj_tree>>
  BY Consts, Zenon DEF nv_delete, ClearCommit, index
<1>2. rq'.del = p /\ rq'.name = n /\ rq'.id = id
  <2>1. rq' = [NoRqst EXCEPT !.name = n, !.id = id, !.del = p]
    BY Zenon DEF nv_delete
  <2> HIDE DEF id, p
  <2> QED
    BY <2>1, Zenon DEF NoRqst
<1>3. p \in Ptrs /\ At(p).chunkid = id
  BY <1>1, GetChunkLive, Zenon DEF Plain
<1> HIDE DEF p
<1>4. p[1] \in Vmas /\ p[2] \in Cslots
  BY <1>3, Zenon DEF Ptrs
<1>5. /\ KeepsView
      /\ \A v \in Vmas, j \in Cslots : chunkobj'[v][j].objname = chunkobj[v][j].objname
  BY <1>1, <1>3, CommitszView, Zenon
<1>6. NoDrift' => NoDrift
  BY <1>1, Zenon DEF NoDrift, PendingMmapobj
<1>7. SlotsHashed' /\ OneRegionPerId' /\ MapIsIndex'
  BY <1>1, <1>5, <1>6, KeepsListing, Zenon
<1>8. At(rq.del)'.chunkid = id
  <2>1. At(rq.del)' = chunkobj'[p[1]][p[2]]
    BY <1>2, Zenon DEF At
  <2> QED
    BY <1>3, <1>4, <1>5, <2>1, Zenon DEF KeepsView, At
<1>9. RqstHashed'
  BY <1>1, <1>2, <1>8, Zenon DEF RqstHashed
<1>10. KeyIsNew'
  BY <1>1, Zenon DEF KeyIsNew, RecordSteps, ChunkSteps
<1> QED
  BY <1>7, <1>9, <1>10, Zenon DEF Listing

\* nv_commit_len touches no name.
LEMMA nv_commit_lenListing ==
    ASSUME Structure, Plain, Listing, NEW n \in Names, nv_commit_len(n)
    PROVE  Listing'
<1> DEFINE id == gen_id_from_str[n]
           p == get_chunk(id)
<1>1. /\ id \in Ids /\ p # NoPtr
      /\ pc = "idle" /\ pc' = "idle"
      /\ Store(p, [At(p) EXCEPT !.commitsz = 1])
      /\ proc' = proc /\ objnamemap' = objnamemap
      /\ UNCHANGED <<mmapobj, mmapobj_tree, chunk_tree_init, chunkobj_tree>>
  BY Consts, Zenon DEF nv_commit_len, index
<1>2. p \in Ptrs
  BY <1>1, GetChunkLive, Zenon DEF Plain
<1> HIDE DEF id, p
<1>3. /\ KeepsView
      /\ \A v \in Vmas, j \in Cslots : chunkobj'[v][j].objname = chunkobj[v][j].objname
  BY <1>1, <1>2, CommitszView, Zenon
<1>4. NoDrift' => NoDrift
  BY <1>1, Zenon DEF NoDrift, PendingMmapobj
<1>5. SlotsHashed' /\ OneRegionPerId' /\ MapIsIndex'
  BY <1>1, <1>3, <1>4, KeepsListing, Zenon
<1>6. RqstHashed' /\ KeyIsNew'
  BY <1>1, Zenon DEF RqstHashed, KeyIsNew, RecordSteps, ChunkSteps
<1> QED
  BY <1>5, <1>6, Zenon DEF Listing

\* The mmapobj that is written has no chunks, and its region had no keys.
LEMMA fill_mmapobjListing == Structure /\ Plain /\ Listing /\ fill_mmapobj => Listing'
<1> SUFFICES ASSUME Structure, Plain, Listing, fill_mmapobj PROVE Listing'
  BY Zenon
<1> DEFINE m == proc.meta
           w == rq.vma
<1>1. /\ m \in Mslots /\ w \in Vmas
      /\ mmapobj_tree[w] = 0
      /\ chunkobj' = chunkobj /\ proc' = proc /\ rq' = rq /\ objnamemap' = objnamemap
      /\ \A i \in Mslots : i # m => mmapobj'[i] = mmapobj[i]
      /\ mmapobj'[m] = [vma_id |-> w, numchunks |-> 0, meta |-> 0]
      /\ pc = "fill_mmapobj" /\ pc' = "count_mmapobj"
  BY fill_mmapobjEffect, Zenon
<1>2. /\ \A v \in Vmas : v # w => chunkobj_tree'[v] = chunkobj_tree[v]
      /\ chunkobj_tree'[w] = EmptyTree
  BY fill_mmapobjEffect, Zenon
<1>3. mmapobj'[m].numchunks = 0
  BY <1>1
<1>4. \A id \in Ids : chunkobj_tree'[w][id] = NoPtr /\ chunkobj_tree[w][id] = NoPtr
  BY <1>1, <1>2 DEF EmptyTree, Plain, EntriesLive
<1> HIDE DEF m, w
<1>5. \A v \in Vmas, id \in Ids : chunkobj_tree'[v][id] = chunkobj_tree[v][id]
  BY <1>2, <1>4, Zenon
<1>6. NoDrift' => NoDrift
  BY <1>1, Zenon DEF NoDrift, PendingMmapobj
<1>7. OneRegionPerId'
  <2>1. ASSUME NEW i \in Mslots, NEW v \in Vmas, NEW j \in Cslots, LiveSlot(i, v, j)'
        PROVE  LiveSlot(i, v, j)
    <3>1. i # m
      BY <1>3, <2>1, Consts DEF LiveSlot, Cslots
    <3> QED
      BY <1>1, <2>1, <3>1, Zenon DEF LiveSlot
  <2> QED
    BY <1>1, <1>6, <2>1, ZenonT(30) DEF Listing, OneRegionPerId
<1>8. SlotsHashed' /\ RqstHashed'
  BY <1>1, Zenon DEF Listing, SlotsHashed, RqstHashed, RecordSteps
<1>9. KeyIsNew'
  <2>1. rq.id \in Ids
    BY <1>1, ZenonT(30) DEF Structure, Call, RecordSteps
  <2>2. \A v \in Vmas : chunkobj_tree[v][rq.id] = NoPtr
    BY <1>1, Zenon DEF Listing, KeyIsNew, RecordSteps
  <2> QED
    BY <1>1, <1>5, <2>1, <2>2, Zenon DEF KeyIsNew
<1>10. MapIsIndex'
  <2>1. \A n \in Names : Indexed(n)' <=> Indexed(n)
    BY <1>5, Consts, Zenon DEF Indexed
  <2> QED
    BY <1>1, <1>6, <2>1, Zenon DEF Listing, MapIsIndex
<1> QED
  BY <1>7, <1>8, <1>9, <1>10, Zenon DEF Listing

\* The chunk that is written gets the id of its name, and the name enters the
\* map as its id enters the tree.
LEMMA add_chunkobjListing ==
    ASSUME NamesDiffer, Structure, Plain, Listing, add_chunkobj PROVE Listing'
<1> DEFINE w == rq.vma
           m == mmapobj_tree[rq.vma]
           k == mmapobj[m].meta
<1>1. /\ pc = "fill_chunkobj" /\ pc' = "count_chunkobj"
      /\ proc' = proc /\ mmapobj' = mmapobj /\ rq' = rq
      /\ objnamemap' = objnamemap \cup {rq.name}
      /\ w \in Vmas /\ m \in Mslots /\ mmapobj[m].vma_id = w /\ w # 0
      /\ rq.id \in Ids /\ rq.name \in Names /\ rq.new \in Ptrs /\ rq.new # NoPtr
      /\ k \in Cslots /\ mmapobj[m].numchunks \in Nat /\ k = mmapobj[m].numchunks + 1
  BY add_chunkobjEffect, Zenon
<1>2. rq.id = gen_id_from_str[rq.name]
  BY <1>1, Zenon DEF Listing, RqstHashed, RecordSteps, ChunkSteps
<1>3. /\ \A v \in Vmas, j \in Cslots :
           ~(v = w /\ j = k) => chunkobj'[v][j] = chunkobj[v][j]
      /\ chunkobj'[w][k].objname = rq.name /\ chunkobj'[w][k].chunkid = rq.id
  <2> DEFINE c == [chunkid |-> rq.id, objname |-> rq.name, commitsz |-> 0, valid |-> TRUE]
  <2>1. \A v \in Vmas, j \in Cslots :
          chunkobj'[v][j] = IF v = w /\ j = k THEN c ELSE chunkobj[v][j]
    BY add_chunkobjEffect, Zenon
  <2>2. c.objname = rq.name /\ c.chunkid = rq.id
    BY Zenon
  <2> HIDE DEF c, w, m, k
  <2>3. chunkobj'[w][k] = c
    BY <1>1, <2>1, Zenon
  <2> QED
    BY <2>1, <2>2, <2>3, Zenon
<1>4. /\ chunkobj_tree'[w][rq.id] # NoPtr
      /\ \A v \in Vmas, id \in Ids :
           ~(v = w /\ id = rq.id) => chunkobj_tree'[v][id] = chunkobj_tree[v][id]
  <2>1. chunkobj_tree' = [chunkobj_tree EXCEPT ![w][rq.id] = rq.new]
    BY add_chunkobjEffect, Zenon
  <2>2. chunkobj_tree \in [Vmas -> [Ids -> Ptrs \cup {NoPtr}]]
    BY Zenon DEF Structure, TypeOK
  <2> HIDE DEF w, m, k
  <2> QED
    BY <1>1, <2>1, <2>2, Zenon
<1>5. \A i \in Mslots, j \in Cslots :
         mmapobj[i].vma_id = w /\ j <= mmapobj[i].numchunks => j # k
  <2>1. \A i \in Mslots : mmapobj[i].vma_id = w => i = m
    BY <1>1, ZenonT(30) DEF Structure, VmaIds, VmaIdsUnique
  <2>2. \A j \in Cslots : j <= mmapobj[m].numchunks => j # k
    BY <1>1, Consts DEF Cslots
  <2> QED
    BY <2>1, <2>2, Zenon
<1> HIDE DEF m, k
<1>6. SlotsHashed'
  <2> SUFFICES ASSUME NEW v \in Vmas, NEW j \in Cslots, chunkobj'[v][j].objname \in Names
               PROVE  chunkobj'[v][j].chunkid = gen_id_from_str[chunkobj'[v][j].objname]
    BY Zenon DEF SlotsHashed
  <2>1. CASE v = w /\ j = k
    BY <1>2, <1>3, <2>1, Zenon
  <2>2. CASE ~(v = w /\ j = k)
    BY <1>3, <2>2 DEF Listing, SlotsHashed
  <2> QED
    BY <2>1, <2>2, Zenon
<1>7. RqstHashed'
  BY <1>1, <1>2, Zenon DEF RqstHashed
<1>8. NoDrift' => NoDrift
  BY <1>1, Zenon DEF NoDrift, PendingMmapobj
<1>9. OneRegionPerId'
  <2>1. ASSUME NEW i \in Mslots, NEW v \in Vmas, NEW j \in Cslots, LiveSlot(i, v, j)'
        PROVE  LiveSlot(i, v, j) /\ chunkobj'[v][j] = chunkobj[v][j]
    <3>1. mmapobj[i].vma_id = v /\ j <= mmapobj[i].numchunks /\ chunkobj'[v][j].valid
      BY <1>1, <2>1, Zenon DEF LiveSlot
    <3>2. chunkobj'[v][j] = chunkobj[v][j]
      BY <1>3, <1>5, <3>1, Zenon
    <3> QED
      BY <3>1, <3>2, Zenon DEF LiveSlot
  <2> QED
    BY <1>8, <2>1 DEF Listing, OneRegionPerId
<1>10. KeyIsNew'
  <2>1. \A v \in Vmas : chunkobj_tree[v][rq.id] = NoPtr
    BY <1>1, Zenon DEF Listing, KeyIsNew, RecordSteps, ChunkSteps
  <2> QED
    BY <1>1, <1>4, <2>1, Zenon DEF KeyIsNew, w
<1> HIDE DEF w
<1>11. MapIsIndex'
  <2>1. Indexed(rq.name)'
    BY <1>1, <1>2, <1>4, Zenon DEF Indexed
  <2>2. ASSUME NEW n \in Names, n # rq.name PROVE Indexed(n)' <=> Indexed(n)
    <3>1. gen_id_from_str[n] # rq.id /\ gen_id_from_str[n] \in Ids
      BY <1>1, <1>2, <2>2, Consts, Zenon DEF NamesDiffer
    <3> QED
      BY <1>4, <3>1, Zenon DEF Indexed
  <2> QED
    BY <1>1, <1>8, <2>1, <2>2, Zenon DEF Listing, MapIsIndex
<1> QED
  BY <1>6, <1>7, <1>9, <1>10, <1>11, ZenonT(30) DEF Listing

\* The chunk that is counted is the only live one that carries its id.
LEMMA count_chunkobjListing ==
    ASSUME Structure, Plain, Listing, count_chunkobj PROVE Listing'
<1> DEFINE w == rq.vma
           m == mmapobj_tree[rq.vma]
           k == mmapobj[m].numchunks
<1>1. /\ pc = "count_chunkobj" /\ proc' = proc /\ chunkobj' = chunkobj
      /\ chunkobj_tree' = chunkobj_tree /\ objnamemap' = objnamemap
      /\ w \in Vmas /\ m \in Mslots /\ mmapobj[m].vma_id = w
      /\ rq.id \in Ids /\ rq.new = <<w, k + 1>>
      /\ k \in Nat /\ k + 1 \in Cslots
  BY count_chunkobjEffect, Zenon DEF index
<1>2. /\ \A i \in Mslots : i # m => mmapobj'[i] = mmapobj[i]
      /\ mmapobj'[m].vma_id = w /\ mmapobj'[m].numchunks = k + 1
  <2>1. /\ \A i \in Mslots : i # m => mmapobj'[i] = mmapobj[i]
        /\ mmapobj'[m] = [vma_id |-> w, numchunks |-> k + 1, meta |-> k + 1]
    BY count_chunkobjEffect, Zenon
  <2> HIDE DEF m, w, k
  <2> QED
    BY <2>1
<1>3. pc' = "idle"
  BY <1>1, count_chunkobjEffect, Zenon DEF Plain, PlainCalls, RecordSteps, ChunkSteps
<1>4. chunkobj_tree[w][rq.id] = <<w, k + 1>>
  BY <1>1, Zenon DEF Plain, PlainRqst
<1>5. chunkobj[w][k + 1].chunkid = rq.id
  <2>1. <<w, k + 1>> # NoPtr
    BY <1>1 DEF NoPtr
  <2> HIDE DEF w, m, k
  <2>2. PICK j \in Cslots : /\ chunkobj_tree[w][rq.id] = <<w, j>>
                            /\ chunkobj[w][j].chunkid = rq.id
    BY <1>1, <1>4, <2>1, ZenonT(30) DEF Plain, EntriesLive
  <2>3. j = k + 1
    BY <1>4, <2>2
  <2> QED
    BY <2>2, <2>3, Zenon
<1> HIDE DEF m, k
<1>6. \A j \in Cslots : j <= k + 1 => j <= k \/ j = k + 1
  BY <1>1, Consts DEF Cslots
<1>7. NoDrift' => NoDrift
  BY <1>1, <1>3, Zenon DEF NoDrift, PendingMmapobj
<1>8. ASSUME NEW i \in Mslots, NEW v \in Vmas, NEW j \in Cslots, LiveSlot(i, v, j)'
      PROVE  LiveSlot(i, v, j) \/ (v = w /\ j = k + 1)
  <2>1. CASE i # m
    BY <1>1, <1>2, <1>8, <2>1, Zenon DEF LiveSlot
  <2>2. CASE i = m
    BY <1>1, <1>2, <1>6, <1>8, <2>2, ZenonT(30) DEF LiveSlot, k
  <2> QED
    BY <2>1, <2>2, Zenon
<1>9. ASSUME NoDrift, NEW i \in Mslots, NEW v \in Vmas, NEW j \in Cslots, LiveSlot(i, v, j),
             chunkobj[v][j].chunkid = rq.id
      PROVE  v = w
  <2>1. mmapobj[i].vma_id = v /\ v # 0
    BY <1>9, Consts DEF LiveSlot, Vmas
  <2>2. mmapobj_tree[v] = i /\ i # 0
    BY <1>1, <1>9, <2>1, Consts, SMTT(30) DEF Plain, AllIndexed, NoDrift, Mslots
  <2>3. chunkobj_tree[v][rq.id] = <<v, j>>
    BY <1>9, <2>2, Zenon DEF Plain, LiveIndexed
  <2>4. <<v, j>> # NoPtr
    BY <2>1, Zenon DEF NoPtr
  <2> QED
    BY <1>1, <2>3, <2>4, ZenonT(30) DEF Listing, KeyIsNew, RecordSteps, ChunkSteps, w
<1> HIDE DEF w
<1>10. OneRegionPerId'
  <2> SUFFICES ASSUME NoDrift,
                      NEW i1 \in Mslots, NEW v1 \in Vmas, NEW j1 \in Cslots, LiveSlot(i1, v1, j1)',
                      NEW i2 \in Mslots, NEW v2 \in Vmas, NEW j2 \in Cslots, LiveSlot(i2, v2, j2)',
                      chunkobj[v1][j1].chunkid = chunkobj[v2][j2].chunkid
               PROVE  v1 = v2
    BY <1>1, <1>7 DEF OneRegionPerId
  <2>1. LiveSlot(i1, v1, j1) \/ (v1 = w /\ j1 = k + 1)
    BY <1>8, Zenon
  <2>2. LiveSlot(i2, v2, j2) \/ (v2 = w /\ j2 = k + 1)
    BY <1>8, Zenon
  <2>3. CASE LiveSlot(i1, v1, j1) /\ LiveSlot(i2, v2, j2)
    BY <2>3, Zenon DEF Listing, OneRegionPerId
  <2>4. CASE LiveSlot(i1, v1, j1) /\ v2 = w /\ j2 = k + 1
    BY <1>5, <1>9, <2>4, Zenon
  <2>5. CASE LiveSlot(i2, v2, j2) /\ v1 = w /\ j1 = k + 1
    BY <1>5, <1>9, <2>5, Zenon
  <2> QED
    BY <2>1, <2>2, <2>3, <2>4, <2>5, ZenonT(30)
<1>11. SlotsHashed'
  BY <1>1, Zenon DEF Listing, SlotsHashed
<1>12. RqstHashed' /\ KeyIsNew'
  BY <1>3, Zenon DEF RqstHashed, KeyIsNew, RecordSteps, ChunkSteps
<1>13. MapIsIndex'
  <2>1. \A n \in Names : Indexed(n)' <=> Indexed(n)
    BY <1>1, Zenon DEF Indexed
  <2> QED
    BY <1>1, <1>7, <2>1, Zenon DEF Listing, MapIsIndex
<1> QED
  BY <1>10, <1>11, <1>12, <1>13, Zenon DEF Listing

\* The key that nv_delete removes is the only one with the id of the name that
\* it takes out of the map.
LEMMA invalidate_chunkListing ==
    ASSUME NamesDiffer, Structure, Plain, Listing, invalidate_chunk PROVE Listing'
<1> DEFINE v == find_vmaid_from_chunk(rq.id)
           d == rq.del[2]
<1>1. pc = "invalidate" /\ pc' = "idle" /\ proc' = proc /\ mmapobj' = mmapobj
  BY Zenon DEF invalidate_chunk
<1>2. /\ At(rq.del).chunkid = rq.id /\ rq.name \in Names /\ rq.id = gen_id_from_str[rq.name]
  BY <1>1, Zenon DEF Listing, RqstHashed
<1>3. /\ Store(rq.del, [At(rq.del) EXCEPT !.valid = FALSE])
      /\ v # 0 => /\ chunkobj_tree' = [chunkobj_tree EXCEPT ![v][rq.id] = NoPtr]
                  /\ objnamemap' = objnamemap \ {rq.name}
  BY <1>2, ZenonT(30) DEF invalidate_chunk, objnamemap_delete
<1>4. rq.id \in Ids /\ rq.del # NoPtr /\ rq.del = get_chunk(rq.id)
  BY <1>1, <1>2, Consts, ZenonT(30) DEF Structure, Call, Plain, PlainRqst
<1>5. /\ v \in Vmas /\ v # 0 /\ rq.del = chunkobj_tree[v][rq.id] /\ rq.del \in Ptrs
      /\ rq.del[1] = v
  BY <1>4, GetChunkLive, ZenonT(30) DEF Plain
<1>6. d \in Cslots
  BY <1>5, Zenon DEF Ptrs
<1> HIDE DEF v, d
<1>7. /\ \A u \in Vmas, j \in Cslots : ~(u = v /\ j = d) => chunkobj'[u][j] = chunkobj[u][j]
      /\ ~chunkobj'[v][d].valid
      /\ \A u \in Vmas, j \in Cslots : /\ chunkobj'[u][j].objname = chunkobj[u][j].objname
                                       /\ chunkobj'[u][j].chunkid = chunkobj[u][j].chunkid
  <2> DEFINE c == [At(rq.del) EXCEPT !.valid = FALSE]
  <2>1. At(rq.del) \in ChunkobjType
    BY <1>5, AtType, Zenon DEF Structure
  <2>2. /\ c \in ChunkobjType /\ ~c.valid /\ c.objname = At(rq.del).objname
        /\ c.chunkid = At(rq.del).chunkid
    BY <2>1, Zenon DEF ChunkobjType
  <2>3. Store(rq.del, c)
    BY <1>3, Zenon
  <2> HIDE DEF c
  <2>4. \A u \in Vmas, j \in Cslots :
          chunkobj'[u][j] = IF u = rq.del[1] /\ j = rq.del[2] THEN c ELSE chunkobj[u][j]
    BY <1>5, <2>2, <2>3, StoreEffect, ZenonT(30) DEF Structure
  <2>5. \A u \in Vmas, j \in Cslots :
          chunkobj'[u][j] = IF u = v /\ j = d THEN c ELSE chunkobj[u][j]
    BY <1>5, <2>4, Zenon DEF d
  <2>6. At(rq.del) = chunkobj[v][d]
    BY <1>5, Zenon DEF At, d
  <2>7. chunkobj'[v][d] = c
    BY <1>5, <1>6, <2>5, Zenon
  <2> QED
    BY <2>2, <2>5, <2>6, <2>7, ZenonT(30)
<1>8. /\ chunkobj_tree'[v][rq.id] = NoPtr
      /\ \A u \in Vmas, i \in Ids :
           ~(u = v /\ i = rq.id) => chunkobj_tree'[u][i] = chunkobj_tree[u][i]
  <2>1. chunkobj_tree \in [Vmas -> [Ids -> Ptrs \cup {NoPtr}]]
    BY Zenon DEF Structure, TypeOK
  <2> QED
    BY <1>3, <1>4, <1>5, <2>1, SMTT(30)
<1>9. NoDrift' => NoDrift
  BY <1>1, Zenon DEF NoDrift, PendingMmapobj
<1>10. ASSUME NEW u \in Vmas, chunkobj_tree[u][rq.id] # NoPtr
       PROVE  \E i \in Mslots, j \in Cslots :
                LiveSlot(i, u, j) /\ chunkobj[u][j].chunkid = rq.id
  <2>1. mmapobj_tree[u] # 0
    BY <1>4, <1>10, ZenonT(30) DEF Plain, EntriesLive
  <2>2. mmapobj_tree[u] \in Mslots /\ mmapobj[mmapobj_tree[u]].vma_id = u
    BY <2>1, TreeMmapobj, Zenon
  <2>3. PICK j \in Cslots : /\ chunkobj[u][j].valid /\ chunkobj[u][j].chunkid = rq.id
                            /\ j <= mmapobj[mmapobj_tree[u]].numchunks
    BY <1>1, <1>4, <1>10, ZenonT(30) DEF Plain, EntriesLive
  <2> QED
    BY <2>2, <2>3, Zenon DEF LiveSlot
<1>11. ASSUME NoDrift, NEW u \in Vmas PROVE chunkobj_tree'[u][rq.id] = NoPtr
  <2>1. CASE u = v
    BY <1>8, <2>1, Zenon
  <2>2. CASE u # v
    <3>1. SUFFICES ASSUME chunkobj_tree[u][rq.id] # NoPtr PROVE FALSE
      BY <1>4, <1>8, <2>2, Zenon
    <3>2. chunkobj_tree[v][rq.id] # NoPtr
      BY <1>4, <1>5, Zenon
    <3>3. PICK i \in Mslots, j \in Cslots :
                LiveSlot(i, u, j) /\ chunkobj[u][j].chunkid = rq.id
      BY <1>10, <3>1, Zenon
    <3>4. PICK k \in Mslots, m \in Cslots :
                LiveSlot(k, v, m) /\ chunkobj[v][m].chunkid = rq.id
      BY <1>5, <1>10, <3>2, Zenon
    <3> QED
      BY <1>5, <1>11, <2>2, <3>3, <3>4, ZenonT(30) DEF Listing, OneRegionPerId
  <2> QED
    BY <2>1, <2>2, Zenon
<1>12. MapIsIndex'
  <2> SUFFICES ASSUME NoDrift PROVE objnamemap' = {n \in Names : Indexed(n)'}
    BY <1>9, Zenon DEF MapIsIndex
  <2>1. ASSUME NEW n \in Names, n = rq.name PROVE ~Indexed(n)'
    BY <1>2, <1>11, <2>1, Zenon DEF Indexed
  <2>2. ASSUME NEW n \in Names, n # rq.name PROVE Indexed(n)' <=> Indexed(n)
    <3>1. gen_id_from_str[n] # rq.id /\ gen_id_from_str[n] \in Ids
      BY <1>2, <2>2, Consts, Zenon DEF NamesDiffer
    <3> QED
      BY <1>8, <3>1, Zenon DEF Indexed
  <2>3. objnamemap = {n \in Names : Indexed(n)}
    BY <1>1, ZenonT(30) DEF Listing, MapIsIndex
  <2> QED
    BY <1>3, <1>5, <2>1, <2>2, <2>3, ZenonT(30)
<1>13. OneRegionPerId'
  <2>1. ASSUME NEW i \in Mslots, NEW u \in Vmas, NEW j \in Cslots, LiveSlot(i, u, j)'
        PROVE  LiveSlot(i, u, j)
    BY <1>1, <1>7, <2>1, ZenonT(30) DEF LiveSlot
  <2> QED
    BY <1>7, <1>9, <2>1 DEF Listing, OneRegionPerId
<1>14. SlotsHashed'
  BY <1>7 DEF Listing, SlotsHashed
<1>15. RqstHashed' /\ KeyIsNew'
  BY <1>1, Zenon DEF RqstHashed, KeyIsNew, RecordSteps, ChunkSteps
<1> QED
  BY <1>12, <1>13, <1>14, <1>15, ZenonT(30) DEF Listing

\* load_process lists the names of the chunks that it enters in the trees.
LEMMA nv_initializeListing ==
    ASSUME NamesDiffer, Structure, Plain, Listing, nv_initialize PROVE Listing'
<1>1. /\ pc = "down" /\ pc' = "idle"
      /\ proc' = proc /\ mmapobj' = mmapobj /\ chunkobj' = chunkobj
      /\ objnamemap' = {At(p).objname : p \in {q \in Ptrs : q[2] \in LoadedSlots(q[1])}}
      /\ chunkobj_tree' = [v \in Vmas |-> [id \in Ids |-> LoadedChunk(v, id)]]
  BY Zenon DEF nv_initialize, load_process, persistent
<1>2. \A v \in Vmas, id \in Ids : chunkobj_tree'[v][id] = LoadedChunk(v, id)
  BY <1>1, Zenon
<1>3. NoDrift' => NoDrift
  BY <1>1, Zenon DEF NoDrift, PendingMmapobj
<1>4. ASSUME NEW n \in Names, NEW v \in Vmas, LoadedChunk(v, gen_id_from_str[n]) # NoPtr
      PROVE  n \in objnamemap'
  <2>1. PICK j \in LoadedSlots(v) : chunkobj[v][j].chunkid = gen_id_from_str[n]
    BY <1>4, LoadedChunkLemma, Zenon
  <2>2. j \in Cslots /\ chunkobj[v][j].objname \in Names
    BY LoadedSlotsLemma, Zenon DEF Filled
  <2>3. chunkobj[v][j].objname = n
    BY <2>1, <2>2 DEF Listing, SlotsHashed, NamesDiffer
  <2>4. <<v, j>> \in Ptrs /\ At(<<v, j>>).objname = n
    BY <2>2, <2>3, Zenon DEF Ptrs, At
  <2>5. <<v, j>> \in {q \in Ptrs : q[2] \in LoadedSlots(q[1])}
    BY <2>1, <2>4, Zenon
  <2> QED
    BY <1>1, <2>4, <2>5, Zenon
<1>5. ASSUME NEW n \in objnamemap' PROVE n \in Names /\ Indexed(n)'
  <2>1. PICK p \in Ptrs : p[2] \in LoadedSlots(p[1]) /\ n = At(p).objname
    BY <1>1, Zenon
  <2> DEFINE v == p[1]
             j == p[2]
  <2>2. v \in Vmas /\ j \in LoadedSlots(v) /\ n = chunkobj[v][j].objname
    BY <2>1, Zenon DEF Ptrs, At
  <2> HIDE DEF v, j
  <2>3. j \in Cslots /\ n \in Names /\ chunkobj[v][j].chunkid \in Ids
    BY <2>2, LoadedSlotsLemma, Zenon DEF Filled
  <2>4. chunkobj[v][j].chunkid = gen_id_from_str[n]
    BY <2>2, <2>3, Zenon DEF Listing, SlotsHashed
  <2>5. LoadedChunk(v, gen_id_from_str[n]) = <<v, j>>
    BY <2>2, <2>4, LoadedChunkIs, ZenonT(30) DEF Plain
  <2>6. <<v, j>> # NoPtr
    BY <2>2, Consts DEF NoPtr, Vmas
  <2> QED
    BY <1>2, <2>2, <2>3, <2>4, <2>5, <2>6, ZenonT(30) DEF Indexed
<1>6. MapIsIndex'
  <2>1. ASSUME NEW n \in Names, Indexed(n)' PROVE n \in objnamemap'
    BY <1>2, <1>4, <2>1, Consts, ZenonT(30) DEF Indexed
  <2> QED
    BY <1>5, <2>1, Zenon DEF MapIsIndex
<1>7. SlotsHashed'
  BY <1>1, ZenonT(30) DEF Listing, SlotsHashed
<1>8. OneRegionPerId'
  <2>1. \A i \in Mslots, v \in Vmas, j \in Cslots : LiveSlot(i, v, j)' => LiveSlot(i, v, j)
    BY <1>1, Zenon DEF LiveSlot
  <2> QED
    BY <1>1, <1>3, <2>1 DEF Listing, OneRegionPerId
<1>9. RqstHashed' /\ KeyIsNew'
  BY <1>1, Zenon DEF RqstHashed, KeyIsNew, RecordSteps, ChunkSteps
<1> QED
  BY <1>6, <1>7, <1>8, <1>9, Zenon DEF Listing

\* Every step of such an application keeps the listing.
LEMMA NextListing ==
    ASSUME Requests \subseteq PlainKinds, NamesDiffer, Structure, Plain, Listing, [Next]_vars
    PROVE  Listing'
<1>1. CASE UNCHANGED vars
  <2>1. /\ proc' = proc /\ mmapobj' = mmapobj /\ chunkobj' = chunkobj
        /\ chunkobj_tree' = chunkobj_tree /\ objnamemap' = objnamemap /\ pc' = pc /\ rq' = rq
    BY <1>1, Zenon DEF vars, persistent, index
  <2>2. SlotsHashed' /\ RqstHashed' /\ KeyIsNew'
    BY <2>1, Zenon DEF Listing, SlotsHashed, RqstHashed, KeyIsNew, At
  <2>3. NoDrift' <=> NoDrift
    BY <2>1, Zenon DEF NoDrift, PendingMmapobj
  <2>4. OneRegionPerId'
    <3>1. \A i \in Mslots, v \in Vmas, j \in Cslots : LiveSlot(i, v, j)' => LiveSlot(i, v, j)
      BY <2>1, Zenon DEF LiveSlot
    <3> QED
      BY <2>1, <2>3, <3>1 DEF Listing, OneRegionPerId
  <2>5. MapIsIndex'
    <3>1. \A n \in Names : Indexed(n)' <=> Indexed(n)
      BY <2>1, Zenon DEF Indexed
    <3> QED
      BY <2>1, <2>3, <3>1, Zenon DEF Listing, MapIsIndex
  <2> QED
    BY <2>2, <2>4, <2>5, Zenon DEF Listing
<1>2. ASSUME NEW n \in Names, NEW v \in Vmas, nv_record_chunk(n, v)
      PROVE  Listing'
  BY <1>2, nv_record_chunkListing, Zenon
<1>3. ASSUME NEW n \in Names, nv_delete(n) \/ nv_commit_len(n)
      PROVE  Listing'
  BY <1>3, nv_deleteListing, nv_commit_lenListing, Zenon
<1>4. ASSUME NEW src \in Names, NEW dest \in Names, nv_rename(src, dest)
      PROVE  Listing'
  BY <1>4, Zenon DEF nv_rename, PlainKinds
<1>5. CASE nv_initialize \/ Crash \/ _mmap \/ create_mmapobj \/ fill_mmapobj
  BY <1>5, nv_initializeListing, CrashListing, _mmapListing, create_mmapobjListing,
     fill_mmapobjListing, ZenonT(30)
<1>6. CASE add_mmapobj_to_proc \/ create_chunkobj \/ add_chunkobj \/ count_chunkobj
  BY <1>6, add_mmapobj_to_procListing, create_chunkobjListing, add_chunkobjListing,
     count_chunkobjListing, ZenonT(30)
<1>7. CASE copy_oldchunk \/ delete_oldchunk \/ rename_update
  BY <1>7, Zenon DEF copy_oldchunk, delete_oldchunk, rename_update, Plain, PlainCalls
<1>8. CASE invalidate_chunk
  BY <1>8, invalidate_chunkListing, Zenon
<1> QED
  BY <1>1, <1>2, <1>3, <1>4, <1>5, <1>6, <1>7, <1>8, ZenonT(30) DEF Next

\* The listing is an invariant when names do not collide.
THEOREM ListingInvariant ==
    ASSUME Requests \subseteq PlainKinds, NamesDiffer PROVE Spec => []Listing
<1>1. Init => Listing
  BY InitListing, Zenon
<1>2. Structure /\ Plain /\ Listing /\ [Next]_vars => Listing'
  BY NextListing, Zenon
<1> QED
  BY <1>1, <1>2, StructureInvariant, PlainInvariant, PTL DEF Spec

\* get_object_list reports exactly the names that nv_map_read finds, unless a
\* crash made the counters of the process drift apart.
THEOREM ListedIsReadableCorrect ==
    ASSUME Requests \subseteq PlainKinds, NamesDiffer PROVE Spec => []ListedIsReadable
<1>1. Structure /\ Plain /\ Listing => ListedIsReadable
  <2> SUFFICES ASSUME Structure, Plain, Listing, pc = "idle", ~Drifted
               PROVE  objnamemap = {n \in Names : nv_map_read(n) # NoPtr}
    BY Zenon DEF ListedIsReadable
  <2>1. NoDrift
    <3>1. PendingMmapobj = 0
      BY Zenon DEF PendingMmapobj
    <3> QED
      BY <3>1, ProcTypes DEF NoDrift, Drifted, Structure
  <2>2. objnamemap = {n \in Names : Indexed(n)}
    BY <2>1, Zenon DEF Listing, MapIsIndex
  <2>3. ASSUME NEW n \in Names PROVE Indexed(n) <=> nv_map_read(n) # NoPtr
    <3> DEFINE id == gen_id_from_str[n]
    <3>1. id \in Ids
      BY Consts, Zenon
    <3>2. get_chunk(id) = NoPtr => ~Indexed(n)
      BY <3>1, GetChunkLive, Zenon DEF Plain, Indexed
    <3>3. get_chunk(id) # NoPtr => Indexed(n) /\ At(get_chunk(id)).valid
      BY <3>1, GetChunkLive, Zenon DEF Plain, Indexed
    <3> QED
      BY <3>2, <3>3, Zenon DEF nv_map_read
  <2> QED
    BY <2>2, <2>3, Zenon
<1> QED
  BY <1>1, StructureInvariant, PlainInvariant, ListingInvariant, PTL
=============================================================================
