---------------------------- MODULE NVMapProofs -----------------------------
(***************************************************************************)
(* Proofs about NVMap, for all names, hash functions, kinds of request and *)
(* bounds.                                                                 *)
(***************************************************************************)
EXTENDS NVMapInv, WellFoundedInduction, TLAPS

-----------------------------------------------------------------------------
(* The largest element of a bounded set, on which every lookup rests *)

\* MaxOr0 of a set of positive numbers up to N is its largest element, or 0
\* when there is none: the order in which find_vmaid_from_chunk walks the
\* tree, and the last insertion that wins when load_process fills one.
LEMMA MaxOr0Lemma ==
    ASSUME NEW N \in Nat, NEW S, S \subseteq 1 .. N
    PROVE  /\ MaxOr0(S) \in 0 .. N
           /\ S = {} => MaxOr0(S) = 0
           /\ S # {} => MaxOr0(S) \in S
           /\ \A y \in S : y <= MaxOr0(S)
<1>1. CASE S = {}
  BY <1>1 DEF MaxOr0
<1>2. CASE S # {}
  <2> DEFINE T == {N - x : x \in S}
  <2>1. \A x \in S : x \in 1 .. N /\ x \in Nat /\ N - x \in Nat
    OBVIOUS
  <2>2. T \subseteq Nat
    BY <2>1, Zenon
  <2>3. T # {}
    BY <1>2, Zenon
  <2>4. PICK t \in T : \A u \in T : ~ (<<u, t>> \in OpToRel(<, Nat))
    <3> HIDE DEF T
    <3> QED
      BY <2>2, <2>3, NatLessThanWellFounded, WFMin, Zenon
  <2>5. ASSUME NEW u \in T
        PROVE  t <= u
    <3>1. u \in Nat /\ t \in Nat
      BY <2>2, Zenon
    <3>2. <<u, t>> \in OpToRel(<, Nat) <=> u < t
      BY <3>1, Zenon DEF OpToRel
    <3>3. ~ (u < t)
      BY <2>4, <3>2, Zenon
    <3> QED
      BY <3>1, <3>3
  <2>6. PICK m \in S : t = N - m
    BY Zenon
  <2>7. ASSUME NEW y \in S
        PROVE  m >= y
    <3>1. N - m <= N - y
      BY <2>5, <2>6, Zenon
    <3>2. m \in Nat /\ y \in Nat
      BY <2>1, Zenon
    <3> QED
      BY <3>1, <3>2
  <2>8. Max(S) \in S /\ \A y \in S : Max(S) >= y
    <3> HIDE DEF T
    <3> QED
      BY <2>7, Zenon DEF Max
  <2>9. MaxOr0(S) = Max(S)
    BY <1>2, Zenon DEF MaxOr0
  <2>10. \A y \in S : y <= Max(S)
    BY <2>1, <2>8, Zenon
  <2>11. Max(S) \in 0 .. N
    <3>1. Max(S) \in 1 .. N
      BY <2>8, Zenon
    <3> QED
      BY <3>1
  <2> QED
    BY <1>2, <2>8, <2>9, <2>10, <2>11, Zenon
<1> QED
  BY <1>1, <1>2, Zenon

-----------------------------------------------------------------------------
(* The constants and the lookups *)

\* The bounds are natural numbers, and no name is the mark of an unwritten slot.
LEMMA Consts ==
    /\ NoName \notin Names
    /\ \A n \in Names : gen_id_from_str[n] \in Ids
    /\ Ids \subseteq Nat \ {0}
    /\ MaxMmaps \in Nat /\ MaxMmapobjs \in Nat /\ MaxChunks \in Nat
BY NamesAssumption, BoundsAssumption, Zenon DEF Ids

\* The null pointer points at no slot.
LEMMA NoPtrLemma == NoPtr \notin Ptrs
BY Consts DEF NoPtr, Ptrs, Vmas, Cslots

\* What TypeOK says of a single mmapobj slot.
LEMMA MmapobjTypes ==
    ASSUME TypeOK, NEW i \in Mslots
    PROVE  /\ mmapobj[i].vma_id \in 0 .. MaxMmaps
           /\ mmapobj[i].numchunks \in 0 .. MaxChunks
           /\ mmapobj[i].meta \in 0 .. MaxChunks
BY Zenon DEF TypeOK

\* What TypeOK says of a region with an mmapobj in the tree.
LEMMA TreeSlots ==
    ASSUME TypeOK, NEW v \in Vmas, mmapobj_tree[v] # 0
    PROVE  mmapobj_tree[v] \in Mslots
<1>1. mmapobj_tree \in [Vmas -> 0 .. MaxMmapobjs]
  BY Zenon DEF TypeOK
<1>2. mmapobj_tree[v] \in 0 .. MaxMmapobjs
  BY <1>1, Zenon
<1> QED
  BY <1>2, Consts DEF Mslots

\* What TypeOK says of the process object.
LEMMA ProcTypes ==
    ASSUME TypeOK
    PROVE  /\ proc.pesist_mmaps \in 0 .. MaxMmapobjs /\ proc.meta \in 0 .. MaxMmapobjs
           /\ proc.pesist_mmaps \in Nat /\ proc.meta \in Nat
<1>1. proc \in [num_mmaps : 0 .. MaxMmaps, pesist_mmaps : 0 .. MaxMmapobjs,
                meta : 0 .. MaxMmapobjs]
  BY Zenon DEF TypeOK
<1>2. proc.pesist_mmaps \in 0 .. MaxMmapobjs /\ proc.meta \in 0 .. MaxMmapobjs
  BY <1>1, Zenon
<1> QED
  BY <1>2, Consts

\* The region find_vmaid_from_chunk returns has a tree with the key.
LEMMA FindVma ==
    ASSUME NEW id
    PROVE  LET v == find_vmaid_from_chunk(id)
           IN  /\ v \in 0 .. MaxMmaps
               /\ v # 0 => /\ v \in Vmas
                           /\ mmapobj_tree[v] # 0
                           /\ chunk_tree_init[v]
                           /\ chunkobj_tree[v][id] # NoPtr
<1> DEFINE S == {v \in Vmas : /\ mmapobj_tree[v] # 0
                              /\ chunk_tree_init[v]
                              /\ chunkobj_tree[v][id] # NoPtr}
<1>1. S \subseteq 1 .. MaxMmaps /\ MaxMmaps \in Nat
  BY Consts, Zenon DEF Vmas
<1>2. /\ MaxOr0(S) \in 0 .. MaxMmaps
      /\ MaxOr0(S) # 0 => MaxOr0(S) \in S
  BY <1>1, MaxOr0Lemma, Zenon
<1> QED
  BY <1>2, Zenon DEF find_vmaid_from_chunk

\* get_chunk returns NULL or a chunk slot some tree leads to.
LEMMA GetChunk ==
    ASSUME TypeOK, NEW id \in Ids, get_chunk(id) # NoPtr
    PROVE  /\ get_chunk(id) \in Ptrs
           /\ \E v \in Vmas : get_chunk(id) = chunkobj_tree[v][id]
<1>1. find_vmaid_from_chunk(id) \in Vmas
  BY FindVma, Consts, Zenon DEF get_chunk, Vmas
<1>2. get_chunk(id) = chunkobj_tree[find_vmaid_from_chunk(id)][id]
  BY <1>1, Consts, Zenon DEF get_chunk, Vmas
<1> QED
  BY <1>1, <1>2 DEF TypeOK

\* Where every tree entry leads to a written slot, get_chunk does.
LEMMA GetChunkFilled ==
    ASSUME TypeOK, Trees, NEW id \in Ids, get_chunk(id) # NoPtr
    PROVE  get_chunk(id) \in Ptrs /\ Filled(At(get_chunk(id)))
BY GetChunk, Zenon DEF Trees

-----------------------------------------------------------------------------
(* Updates of written chunk slots *)

\* The step keeps written slots written and zero slots zero.
KeepsFilled ==
    /\ chunkobj' \in [Vmas -> [Cslots -> ChunkobjType]]
    /\ \A v \in Vmas, j \in Cslots :
         /\ Filled(chunkobj[v][j]) => Filled(chunkobj'[v][j])
         /\ chunkobj[v][j] = ZeroChunk => chunkobj'[v][j] = ZeroChunk

\* The chunk a pointer leads to.
LEMMA AtType ==
    ASSUME TypeOK, NEW p \in Ptrs
    PROVE  At(p) \in ChunkobjType
<1>1. chunkobj \in [Vmas -> [Cslots -> ChunkobjType]]
  BY Zenon DEF TypeOK
<1>2. p[1] \in Vmas /\ p[2] \in Cslots
  BY Zenon DEF Ptrs
<1>3. chunkobj[p[1]] \in [Cslots -> ChunkobjType]
  BY <1>1, <1>2, Zenon
<1>4. chunkobj[p[1]][p[2]] \in ChunkobjType
  BY <1>2, <1>3, Zenon
<1> QED
  BY <1>4, Zenon DEF At

\* A store changes one slot.
LEMMA StoreEffect ==
    ASSUME TypeOK, NEW p \in Ptrs, NEW c \in ChunkobjType, Store(p, c)
    PROVE  /\ chunkobj' \in [Vmas -> [Cslots -> ChunkobjType]]
           /\ \A v \in Vmas, j \in Cslots :
                chunkobj'[v][j] = IF v = p[1] /\ j = p[2] THEN c ELSE chunkobj[v][j]
           /\ p[1] \in Vmas /\ p[2] \in Cslots /\ p = <<p[1], p[2]>>
<1>1. p[1] \in Vmas /\ p[2] \in Cslots /\ p = <<p[1], p[2]>>
  BY DEF Ptrs
<1>2. chunkobj \in [Vmas -> [Cslots -> ChunkobjType]]
  BY Zenon DEF TypeOK
<1> QED
  BY <1>1, <1>2, Zenon DEF Store

\* Storing a written chunk over a written slot keeps all others.
LEMMA SlotUpdate ==
    ASSUME TypeOK, NEW p \in Ptrs, Filled(At(p)),
           NEW c \in ChunkobjType, Filled(c), Store(p, c)
    PROVE  KeepsFilled
<1>1. /\ chunkobj' \in [Vmas -> [Cslots -> ChunkobjType]]
      /\ \A v \in Vmas, j \in Cslots :
           chunkobj'[v][j] = IF v = p[1] /\ j = p[2] THEN c ELSE chunkobj[v][j]
  BY StoreEffect, ZenonT(30)
<1>2. chunkobj[p[1]][p[2]] # ZeroChunk
  BY Consts DEF At, Filled, ZeroChunk
<1> QED
  BY <1>1, <1>2, Zenon DEF KeepsFilled

\* The stores of single fields that nv_record_chunk, nv_delete, nv_rename and
\* nv_commit_len make lead from written chunks to written chunks.
LEMMA FieldUpdate ==
    ASSUME NEW c \in ChunkobjType, Filled(c)
    PROVE  /\ \A id \in Ids : /\ [c EXCEPT !.chunkid = id] \in ChunkobjType
                              /\ Filled([c EXCEPT !.chunkid = id])
           /\ \A s \in {0, 1} : /\ [c EXCEPT !.commitsz = s] \in ChunkobjType
                                /\ Filled([c EXCEPT !.commitsz = s])
           /\ [c EXCEPT !.valid = FALSE] \in ChunkobjType
           /\ Filled([c EXCEPT !.valid = FALSE])
           /\ \A n \in Names :
                /\ [c EXCEPT !.objname = n, !.valid = TRUE] \in ChunkobjType
                /\ Filled([c EXCEPT !.objname = n, !.valid = TRUE])
BY Zenon DEF ChunkobjType, Filled

\* What such a step cannot disturb.
LEMMA FilesKept ==
    ASSUME TypeOK, MetaFiles, KeepsFilled, UNCHANGED mmapobj
    PROVE  MetaFiles'
<1>1. \A i \in Mslots : mmapobj[i].vma_id # 0 => mmapobj[i].vma_id \in Vmas
  BY MmapobjTypes DEF Vmas
<1> QED
  BY <1>1, Zenon DEF MetaFiles, KeepsFilled

\* A step that keeps a written slot written keeps what the trees lead to.
LEMMA FilledKept ==
    ASSUME KeepsFilled, NEW p \in Ptrs, Filled(At(p))
    PROVE  Filled(chunkobj'[p[1]][p[2]])
BY Zenon DEF KeepsFilled, Ptrs, At

-----------------------------------------------------------------------------
(* Structure is inductive: one lemma per action *)

\* A process file that intialize_proc_obj just made satisfies the invariant.
LEMMA InitStructure == Init => Structure
<1> SUFFICES ASSUME Init PROVE Structure
  BY Zenon
<1>1. TypeOK
  BY Consts DEF Init, TypeOK, Vmas, Mslots, Cslots, ZeroMmapobj, ZeroChunk,
                ChunkobjType, EmptyTree, NoRqst, Pcs
<1>2. ProcFile /\ VmaIds
  BY Consts DEF Init, ProcFile, PendingMmapobj, VmaIds, VmaIdsUnique, Mslots, ZeroMmapobj
<1>3. MetaFiles
  BY Consts DEF Init, MetaFiles, Mslots, Cslots, Vmas, ZeroMmapobj
<1>4. Trees /\ Call
  BY Consts, Zenon DEF Init, Trees, Call, RecordSteps, ChunkSteps, EmptyTree, Vmas
<1> QED
  BY <1>1, <1>2, <1>3, <1>4, Zenon DEF Structure

\* The death of the process at any point of a call keeps the invariant: the
\* files it leaves are files load_process can read.
LEMMA CrashStructure == Structure /\ Crash => Structure'
<1> SUFFICES ASSUME Structure, Crash PROVE Structure'
  BY Zenon
<1> USE DEF Structure
<1>1. TypeOK'
  <2>1. /\ chunkobj_tree' \in [Vmas -> [Ids -> Ptrs \cup {NoPtr}]]
        /\ mmapobj_tree' \in [Vmas -> 0 .. MaxMmapobjs]
        /\ chunk_tree_init' \in [Vmas -> BOOLEAN]
    BY Consts DEF Crash, EmptyTree
  <2>2. rq' \in [name : Names \cup {NoName}, id : Ids \cup {0},
                 dest : Names \cup {NoName}, vma : 0 .. MaxMmaps,
                 old : Ptrs \cup {NoPtr}, new : Ptrs \cup {NoPtr},
                 del : Ptrs \cup {NoPtr}]
    BY Consts DEF Crash, NoRqst
  <2>3. UNCHANGED <<proc, mmapobj, chunkobj>> /\ map_tree' = {} /\ objnamemap' = {}
        /\ pc' \in Pcs
    BY Zenon DEF Crash, persistent, Pcs
  <2> QED
    BY <2>1, <2>2, <2>3, Zenon DEF TypeOK
<1>2. ProcFile' /\ VmaIds'
  BY Consts DEF Crash, ProcFile, PendingMmapobj, VmaIds, VmaIdsUnique, persistent,
                TypeOK
<1>3. MetaFiles'
  BY Zenon DEF Crash, MetaFiles, persistent
<1>4. Trees' /\ Call'
  BY Zenon DEF Crash, Trees, Call, RecordSteps, ChunkSteps, EmptyTree
<1> QED
  BY <1>1, <1>2, <1>3, <1>4, Zenon

\* _mmap keeps the invariant: the vma_id it hands out was never used.
LEMMA _mmapStructure == Structure /\ _mmap => Structure'
<1> SUFFICES ASSUME Structure, _mmap PROVE Structure'
  BY Zenon
<1> USE DEF Structure
<1>1. TypeOK'
  <2>1. proc' \in [num_mmaps : 0 .. MaxMmaps, pesist_mmaps : 0 .. MaxMmapobjs,
                   meta : 0 .. MaxMmapobjs]
    BY Consts DEF _mmap, TypeOK
  <2>2. map_tree' \subseteq Vmas
    BY Consts DEF _mmap, TypeOK, Vmas
  <2> QED
    BY <2>1, <2>2, Zenon DEF _mmap, TypeOK
<1>2. ProcFile'
  BY Zenon DEF _mmap, ProcFile, PendingMmapobj, TypeOK
<1>3. VmaIds'
  BY Consts, MmapobjTypes, SMTT(30) DEF _mmap, VmaIds, VmaIdsUnique, TypeOK, Vmas
<1>4. MetaFiles'
  BY Zenon DEF _mmap, MetaFiles
<1>5. Trees'
  <2>1. proc'.meta = proc.meta
    BY Zenon DEF _mmap, TypeOK
  <2>2. proc.num_mmaps + 1 \in Vmas
    BY Consts DEF _mmap, TypeOK, Vmas
  <2>3. \A i \in Mslots : mmapobj[i].vma_id # proc.num_mmaps + 1
    BY MmapobjTypes DEF VmaIds, TypeOK
  <2>4. mmapobj_tree[proc.num_mmaps + 1] = 0
    BY <2>2, <2>3 DEF Trees, TypeOK, Mslots
  <2>5. \A v : PendingChunk(v)' = PendingChunk(v)
    BY Zenon DEF _mmap, PendingChunk
  <2> QED
    BY <2>1, <2>3, <2>4, <2>5, Zenon DEF _mmap, Trees, At
<1>6. Call'
  BY Zenon DEF _mmap, Call, RecordSteps, ChunkSteps
<1> QED
  BY <1>1, <1>2, <1>3, <1>4, <1>5, <1>6, Zenon

\* Moving meta_offset of the process file keeps the invariant.
LEMMA create_mmapobjStructure == Structure /\ create_mmapobj => Structure'
<1> SUFFICES ASSUME Structure, create_mmapobj PROVE Structure'
  BY Zenon
<1> USE DEF Structure
<1>0. proc.meta < MaxMmapobjs
  BY Zenon DEF create_mmapobj, Call
<1>1. TypeOK'
  BY Consts, <1>0, SMTT(30) DEF create_mmapobj, TypeOK, index, Pcs
<1>2. ProcFile'
  BY Consts, <1>0, SMTT(30) DEF create_mmapobj, ProcFile, PendingMmapobj, TypeOK, Mslots
<1>3. VmaIds' /\ MetaFiles'
  BY Zenon DEF create_mmapobj, VmaIds, VmaIdsUnique, MetaFiles, index, TypeOK
<1>4. Trees'
  <2>1. proc'.meta = proc.meta + 1 /\ proc.meta \in Nat
    BY Consts DEF create_mmapobj, TypeOK
  <2>2. \A v : PendingChunk(v)' = PendingChunk(v)
    BY Zenon DEF create_mmapobj, PendingChunk
  <2>3. \A v \in Vmas : mmapobj_tree[v] \in Nat
    BY Consts DEF TypeOK
  <2> QED
    BY <2>1, <2>2, <2>3 DEF create_mmapobj, Trees, At, index
<1>5. Call'
  BY Zenon DEF create_mmapobj, Call, RecordSteps, ChunkSteps, index, At
<1> QED
  BY <1>1, <1>2, <1>3, <1>4, <1>5, Zenon

\* Counting an mmapobj that is written keeps the invariant.
LEMMA add_mmapobj_to_procStructure ==
    Structure /\ add_mmapobj_to_proc => Structure'
<1> SUFFICES ASSUME Structure, add_mmapobj_to_proc PROVE Structure'
  BY Zenon
<1> USE DEF Structure
<1>0. proc.pesist_mmaps < proc.meta /\ proc.meta <= MaxMmapobjs
  BY Consts DEF add_mmapobj_to_proc, ProcFile, PendingMmapobj, TypeOK
<1>1. TypeOK'
  BY Consts, <1>0 DEF add_mmapobj_to_proc, TypeOK, index, Pcs
<1>2. ProcFile'
  BY Consts, <1>0 DEF add_mmapobj_to_proc, ProcFile, PendingMmapobj, TypeOK, Mslots
<1>3. VmaIds' /\ MetaFiles'
  BY Zenon DEF add_mmapobj_to_proc, VmaIds, VmaIdsUnique, MetaFiles, index, TypeOK
<1>4. Trees'
  <2>1. proc'.meta = proc.meta
    BY Zenon DEF add_mmapobj_to_proc, TypeOK
  <2>2. \A v : PendingChunk(v)' = PendingChunk(v)
    BY Zenon DEF add_mmapobj_to_proc, PendingChunk
  <2> QED
    BY <2>1, <2>2, Zenon DEF add_mmapobj_to_proc, Trees, At, index
<1>5. Call'
  BY Zenon DEF add_mmapobj_to_proc, Call, RecordSteps, ChunkSteps, index, At
<1> QED
  BY <1>1, <1>2, <1>3, <1>4, <1>5, Zenon

\* The metadata file that create_mmapobj truncates is empty already: its
\* vma_id is new.
LEMMA fill_mmapobjEffect ==
    ASSUME Structure, fill_mmapobj
    PROVE  LET m == proc.meta
               w == rq.vma
           IN
               /\ m \in Mslots /\ m \in Nat /\ w \in Vmas /\ w \in map_tree
               /\ MaxChunks > 0
               /\ mmapobj[m] = ZeroMmapobj
               /\ mmapobj_tree[w] = 0
               /\ w <= proc.num_mmaps
               /\ w # 0
               /\ \A i \in Mslots : mmapobj[i].vma_id # w
               /\ UNCHANGED chunkobj
               /\ \A i \in Mslots : i # m => mmapobj'[i] = mmapobj[i]
               /\ mmapobj'[m] = [vma_id |-> w, numchunks |-> 0, meta |-> 0]
               /\ mmapobj' \in [Mslots -> [vma_id : 0 .. MaxMmaps, numchunks : 0 .. MaxChunks,
                                           meta : 0 .. MaxChunks]]
               /\ \A v \in Vmas : v # w => /\ mmapobj_tree'[v] = mmapobj_tree[v]
                                           /\ chunk_tree_init'[v] = chunk_tree_init[v]
                                           /\ chunkobj_tree'[v] = chunkobj_tree[v]
               /\ mmapobj_tree'[w] = m
               /\ chunk_tree_init'[w] = TRUE
               /\ chunkobj_tree'[w] = EmptyTree
               /\ UNCHANGED <<proc, map_tree, objnamemap, rq>>
               /\ pc = "fill_mmapobj" /\ pc' = "count_mmapobj"
<1> USE DEF Structure
<1> DEFINE m == proc.meta
           w == rq.vma
<1>1. /\ m \in Mslots /\ m \in Nat /\ w \in Vmas /\ w \in map_tree
      /\ MaxChunks > 0
      /\ mmapobj[m] = ZeroMmapobj
      /\ mmapobj_tree[w] = 0
      /\ w <= proc.num_mmaps
      /\ w # 0
  BY Consts DEF fill_mmapobj, Call, RecordSteps, ProcFile, PendingMmapobj, TypeOK,
                Mslots, Vmas, VmaIds
<1>2. \A i \in Mslots : mmapobj[i].vma_id # w
  BY <1>1, Zenon DEF Trees
<1>3. UNCHANGED chunkobj
  <2>1. chunkobj[w] = [j \in Cslots |-> ZeroChunk]
    BY <1>1, <1>2, Zenon DEF MetaFiles, TypeOK
  <2> QED
    BY <1>1, <2>1, Zenon DEF fill_mmapobj, TypeOK
<1>4. /\ \A i \in Mslots : i # m => mmapobj'[i] = mmapobj[i]
      /\ mmapobj'[m] = [vma_id |-> w, numchunks |-> 0, meta |-> 0]
      /\ mmapobj' \in [Mslots -> [vma_id : 0 .. MaxMmaps, numchunks : 0 .. MaxChunks,
                                  meta : 0 .. MaxChunks]]
  <2>1. mmapobj \in [Mslots -> [vma_id : 0 .. MaxMmaps, numchunks : 0 .. MaxChunks,
                                meta : 0 .. MaxChunks]]
    BY Zenon DEF TypeOK
  <2>2. mmapobj' = [mmapobj EXCEPT ![m] = [mmapobj[m] EXCEPT !.vma_id = w]]
    BY Zenon DEF fill_mmapobj
  <2>3. [mmapobj[m] EXCEPT !.vma_id = w] = [vma_id |-> w, numchunks |-> 0, meta |-> 0]
    BY <1>1 DEF ZeroMmapobj
  <2>4. mmapobj' = [mmapobj EXCEPT ![m] = [vma_id |-> w, numchunks |-> 0, meta |-> 0]]
    BY <2>2, <2>3, Zenon
  <2>5. [vma_id |-> w, numchunks |-> 0, meta |-> 0] \in
            [vma_id : 0 .. MaxMmaps, numchunks : 0 .. MaxChunks, meta : 0 .. MaxChunks]
    BY <1>1, Consts DEF Vmas
  <2> HIDE DEF m, w
  <2> QED
    BY <1>1, <2>1, <2>4, <2>5, Zenon
<1>5. /\ \A v \in Vmas : v # w => /\ mmapobj_tree'[v] = mmapobj_tree[v]
                                  /\ chunk_tree_init'[v] = chunk_tree_init[v]
                                  /\ chunkobj_tree'[v] = chunkobj_tree[v]
      /\ mmapobj_tree'[w] = m
      /\ chunk_tree_init'[w] = TRUE
      /\ chunkobj_tree'[w] = EmptyTree
      /\ UNCHANGED <<proc, map_tree, objnamemap, rq>>
      /\ pc = "fill_mmapobj" /\ pc' = "count_mmapobj"
  BY <1>1, Zenon DEF fill_mmapobj, TypeOK
<1> QED
  BY <1>1, <1>2, <1>3, <1>4, <1>5, Zenon

\* Writing the mmapobj and making its tree keeps the invariant.
LEMMA fill_mmapobjStructure == Structure /\ fill_mmapobj => Structure'
<1> SUFFICES ASSUME Structure, fill_mmapobj PROVE Structure'
  BY Zenon
<1> USE DEF Structure
<1> DEFINE m == proc.meta
           w == rq.vma
<1>1. /\ m \in Mslots /\ m \in Nat /\ w \in Vmas /\ w \in map_tree
      /\ MaxChunks > 0
      /\ mmapobj[m] = ZeroMmapobj
      /\ mmapobj_tree[w] = 0
      /\ w <= proc.num_mmaps
      /\ w # 0
  BY fill_mmapobjEffect, Zenon
<1>2. \A i \in Mslots : mmapobj[i].vma_id # w
  BY fill_mmapobjEffect, Zenon
<1>3. UNCHANGED chunkobj
  BY fill_mmapobjEffect, Zenon
<1>4. /\ \A i \in Mslots : i # m => mmapobj'[i] = mmapobj[i]
      /\ mmapobj'[m] = [vma_id |-> w, numchunks |-> 0, meta |-> 0]
      /\ mmapobj' \in [Mslots -> [vma_id : 0 .. MaxMmaps, numchunks : 0 .. MaxChunks,
                                  meta : 0 .. MaxChunks]]
  BY fill_mmapobjEffect, Zenon
<1>5. /\ \A v \in Vmas : v # w => /\ mmapobj_tree'[v] = mmapobj_tree[v]
                                  /\ chunk_tree_init'[v] = chunk_tree_init[v]
                                  /\ chunkobj_tree'[v] = chunkobj_tree[v]
      /\ mmapobj_tree'[w] = m
      /\ chunk_tree_init'[w] = TRUE
      /\ chunkobj_tree'[w] = EmptyTree
      /\ UNCHANGED <<proc, map_tree, objnamemap, rq>>
      /\ pc = "fill_mmapobj" /\ pc' = "count_mmapobj"
  BY fill_mmapobjEffect, Zenon
<1>6. TypeOK'
  <2>1. /\ mmapobj_tree' \in [Vmas -> 0 .. MaxMmapobjs]
        /\ chunk_tree_init' \in [Vmas -> BOOLEAN]
    BY <1>1, Consts, Zenon DEF fill_mmapobj, TypeOK, Mslots
  <2>2. EmptyTree \in [Ids -> Ptrs \cup {NoPtr}]
    BY Zenon DEF EmptyTree
  <2>3. chunkobj_tree' \in [Vmas -> [Ids -> Ptrs \cup {NoPtr}]]
    BY <1>1, <2>2, Zenon DEF fill_mmapobj, TypeOK
  <2> QED
    BY <1>3, <1>4, <1>5, <2>1, <2>3, Zenon DEF TypeOK, Pcs
<1> HIDE DEF m, w
<1>7. ProcFile'
  BY <1>4, <1>5, <1>1 DEF ProcFile, PendingMmapobj, TypeOK, Mslots, m
<1>8. VmaIds'
  <2>1. VmaIdsUnique'
    BY <1>2, <1>4 DEF VmaIds, VmaIdsUnique
  <2>2. \A i \in Mslots : mmapobj'[i].vma_id <= proc'.num_mmaps
    BY <1>1, <1>4, <1>5 DEF VmaIds
  <2> QED
    BY <1>5, <2>1, <2>2, Zenon DEF VmaIds
<1>9. MetaFiles'
  <2>1. \A i \in Mslots : mmapobj'[i].numchunks <= mmapobj'[i].meta
    BY <1>4 DEF MetaFiles
  <2>2. ASSUME NEW i \in Mslots, mmapobj'[i].vma_id # 0, NEW j \in Cslots
        PROVE  /\ j <= mmapobj'[i].numchunks => Filled(chunkobj'[mmapobj'[i].vma_id][j])
               /\ j > mmapobj'[i].meta => chunkobj'[mmapobj'[i].vma_id][j] = ZeroChunk
    <3>1. CASE i = m
      BY <1>1, <1>2, <1>3, <1>4, <3>1 DEF MetaFiles, Cslots
    <3>2. CASE i # m
      BY <1>3, <1>4, <2>2, <3>2, SMTT(30) DEF MetaFiles, Filled
    <3> QED
      BY <3>1, <3>2, Zenon
  <2>3. ASSUME NEW v \in Vmas, \A i \in Mslots : mmapobj'[i].vma_id # v, NEW j \in Cslots
        PROVE  chunkobj'[v][j] = ZeroChunk
    <3>1. \A i \in Mslots : mmapobj[i].vma_id # v
      BY <1>1, <1>4, <2>3 DEF ZeroMmapobj, Vmas
    <3> QED
      BY <1>3, <3>1, Zenon DEF MetaFiles
  <2> QED
    BY <2>1, <2>2, <2>3, Zenon DEF MetaFiles
<1>10. Trees'
  <2>1. ASSUME NEW v \in Vmas, mmapobj_tree'[v] # 0
        PROVE  mmapobj_tree'[v] <= proc'.meta /\ mmapobj'[mmapobj_tree'[v]].vma_id = v
    <3>1. CASE v = w
      BY <1>1, <1>4, <1>5, <3>1 DEF m
    <3>2. CASE v # w
      <4>1. mmapobj_tree[v] \in Mslots
        BY <1>5, <2>1, <3>2, TreeSlots, Zenon
      <4>2. mmapobj[mmapobj_tree[v]].vma_id = v /\ mmapobj_tree[v] <= proc.meta /\ v # 0
        BY <1>5, <2>1, <3>2 DEF Trees, Vmas
      <4>3. mmapobj_tree[v] # m
        BY <1>1, <4>2 DEF ZeroMmapobj
      <4> QED
        BY <1>4, <1>5, <3>2, <4>1, <4>2, <4>3, ZenonT(30)
    <3> QED
      BY <3>1, <3>2, Zenon
  <2>2. ASSUME NEW v \in map_tree'
        PROVE  IF mmapobj_tree'[v] = 0
               THEN \A i \in Mslots : mmapobj'[i].vma_id # v
               ELSE /\ chunk_tree_init'[v]
                    /\ mmapobj'[mmapobj_tree'[v]].meta =
                         mmapobj'[mmapobj_tree'[v]].numchunks + PendingChunk(v)'
    <3>0. v \in Vmas /\ v \in map_tree /\ PendingChunk(v)' = 0 /\ PendingChunk(v) = 0
      BY <1>5, <2>2, Zenon DEF TypeOK, PendingChunk
    <3>1. CASE v = w
      <4>1. m # 0
        BY <1>1 DEF Mslots
      <4> QED
        BY <1>4, <1>5, <3>0, <3>1, <4>1
    <3>2. CASE v # w /\ mmapobj_tree[v] = 0
      BY <1>4, <1>5, <3>0, <3>2 DEF Trees
    <3>3. CASE v # w /\ mmapobj_tree[v] # 0
      <4>1. mmapobj_tree[v] \in Mslots
        BY <3>0, <3>3, TreeSlots, Zenon
      <4>2. mmapobj[mmapobj_tree[v]].vma_id = v /\ v # 0
        BY <3>0, <3>3, SMTT(30) DEF Trees, Vmas
      <4>3. mmapobj_tree[v] # m
        BY <1>1, <4>2 DEF ZeroMmapobj
      <4> QED
        BY <1>4, <1>5, <3>0, <3>3, <4>1, <4>3 DEF Trees
    <3> QED
      BY <3>1, <3>2, <3>3, Zenon
  <2>3. ASSUME NEW v \in Vmas, NEW id \in Ids, chunkobj_tree'[v][id] # NoPtr
        PROVE  Filled(At(chunkobj_tree[v][id]))'
    <3>1. CASE v = w
      BY <1>5, <2>3, <3>1, ZenonT(30) DEF EmptyTree
    <3>2. CASE v # w
      BY <1>3, <1>5, <2>3, <3>2, Zenon DEF Trees, At
    <3> QED
      BY <3>1, <3>2, Zenon
  <2> QED
    BY <2>1, <2>2, <2>3, Zenon DEF Trees
<1>11. Call'
  <2>1. rq'.vma = w /\ rq' = rq
    BY <1>5, Zenon DEF w
  <2>2. /\ rq'.vma \in map_tree'
        /\ rq'.name \in Names
        /\ rq'.id \in Ids
    BY <1>1, <1>5, <2>1, Zenon DEF Call, RecordSteps
  <2>3. rq'.old # NoPtr => Filled(At(rq.old))'
    BY <1>3, <1>5, Zenon DEF Call, RecordSteps, At
  <2>4. mmapobj_tree'[rq'.vma] # 0 /\ mmapobj'[mmapobj_tree'[rq'.vma]].meta < MaxChunks
    BY <1>1, <1>4, <1>5, <2>1, Consts DEF Mslots
  <2> QED
    BY <1>5, <2>2, <2>3, <2>4, Zenon DEF Call, RecordSteps, ChunkSteps
<1> QED
  BY <1>6, <1>7, <1>8, <1>9, <1>10, <1>11, Zenon

\* The mmapobj slot of the region the request is about, while a chunk is added.
LEMMA RqstMmapobj ==
    ASSUME Structure, pc \in ChunkSteps
    PROVE  /\ rq.vma \in Vmas /\ rq.vma \in map_tree
           /\ mmapobj_tree[rq.vma] \in Mslots
           /\ mmapobj[mmapobj_tree[rq.vma]].vma_id = rq.vma
           /\ rq.vma # 0
           /\ chunk_tree_init[rq.vma]
           /\ mmapobj[mmapobj_tree[rq.vma]].meta =
                mmapobj[mmapobj_tree[rq.vma]].numchunks + PendingChunk(rq.vma)
           /\ \A v \in Vmas : mmapobj_tree[v] = mmapobj_tree[rq.vma] => v = rq.vma
<1>1. rq.vma \in map_tree /\ mmapobj_tree[rq.vma] # 0
  BY Zenon DEF Structure, Call, RecordSteps, ChunkSteps
<1>2. rq.vma \in Vmas /\ rq.vma # 0
  BY <1>1 DEF Structure, TypeOK, Vmas
<1>3. mmapobj_tree[rq.vma] \in Mslots
  BY <1>1, <1>2, Consts DEF Structure, TypeOK, Mslots
<1>4. \A v \in Vmas : mmapobj_tree[v] # 0 => mmapobj[mmapobj_tree[v]].vma_id = v
  BY Zenon DEF Structure, Trees
<1> QED
  BY <1>1, <1>2, <1>3, <1>4, ZenonT(30) DEF Structure, Trees

\* What create_chunkobj changes: meta_offset of one mmapobj.
LEMMA create_chunkobjEffect ==
    ASSUME Structure, create_chunkobj
    PROVE  LET w == rq.vma
               m == mmapobj_tree[rq.vma]
               k == mmapobj[m].meta
           IN
               /\ pc = "create_chunkobj" /\ pc' = "fill_chunkobj" /\ UNCHANGED <<proc, chunkobj, index>>
               /\ w \in Vmas /\ w \in map_tree /\ w # 0 /\ m \in Mslots
               /\ mmapobj[m].vma_id = w
               /\ chunk_tree_init[w]
               /\ k = mmapobj[m].numchunks
               /\ \A v \in Vmas : mmapobj_tree[v] = m => v = w
               /\ k \in Nat /\ k + 1 \in Cslots /\ k < MaxChunks
               /\ \A i \in Mslots : i # m => mmapobj'[i] = mmapobj[i]
               /\ mmapobj'[m] = [vma_id |-> w, numchunks |-> k, meta |-> k + 1]
               /\ mmapobj' \in [Mslots -> [vma_id : 0 .. MaxMmaps, numchunks : 0 .. MaxChunks,
                                           meta : 0 .. MaxChunks]]
<1> USE DEF Structure
<1> DEFINE w == rq.vma
           m == mmapobj_tree[rq.vma]
           k == mmapobj[m].meta
<1>0. pc = "create_chunkobj" /\ pc' = "fill_chunkobj" /\ UNCHANGED <<proc, chunkobj, index>>
  BY Zenon DEF create_chunkobj
<1>1. /\ w \in Vmas /\ w \in map_tree /\ w # 0 /\ m \in Mslots
      /\ mmapobj[m].vma_id = w
      /\ chunk_tree_init[w]
      /\ k = mmapobj[m].numchunks
      /\ \A v \in Vmas : mmapobj_tree[v] = m => v = w
      /\ k \in Nat /\ k + 1 \in Cslots /\ k < MaxChunks
  <2>1. k = mmapobj[m].numchunks + PendingChunk(w)
    BY <1>0, RqstMmapobj, Zenon DEF ChunkSteps
  <2>2. PendingChunk(w) = 0
    BY <1>0, Zenon DEF PendingChunk
  <2>3. m \in Mslots
    BY <1>0, RqstMmapobj, Zenon DEF ChunkSteps
  <2>4. mmapobj[m].numchunks \in Nat /\ k \in Nat
    BY <2>3, MmapobjTypes, Consts
  <2>5. k < MaxChunks
    BY <1>0, Zenon DEF Call
  <2>6. /\ w \in Vmas /\ w \in map_tree /\ w # 0 /\ m \in Mslots
        /\ mmapobj[m].vma_id = w
        /\ chunk_tree_init[w]
        /\ \A v \in Vmas : mmapobj_tree[v] = m => v = w
    BY <1>0, RqstMmapobj, Zenon DEF ChunkSteps
  <2>7. k = mmapobj[m].numchunks /\ k + 1 \in Cslots
    BY <2>1, <2>2, <2>4, <2>5, Consts DEF Cslots
  <2> QED
    BY <2>4, <2>5, <2>6, <2>7, Zenon
<1>2. /\ \A i \in Mslots : i # m => mmapobj'[i] = mmapobj[i]
      /\ mmapobj'[m] = [vma_id |-> w, numchunks |-> k, meta |-> k + 1]
      /\ mmapobj' \in [Mslots -> [vma_id : 0 .. MaxMmaps, numchunks : 0 .. MaxChunks,
                                  meta : 0 .. MaxChunks]]
  <2>1. mmapobj \in [Mslots -> [vma_id : 0 .. MaxMmaps, numchunks : 0 .. MaxChunks,
                                meta : 0 .. MaxChunks]]
    BY Zenon DEF TypeOK
  <2>2. mmapobj' = [mmapobj EXCEPT ![m] = [mmapobj[m] EXCEPT !.meta = k + 1]]
    BY Zenon DEF create_chunkobj
  <2>3. [mmapobj[m] EXCEPT !.meta = k + 1] = [vma_id |-> w, numchunks |-> k, meta |-> k + 1]
    <3>1. mmapobj[m] \in [vma_id : 0 .. MaxMmaps, numchunks : 0 .. MaxChunks,
                          meta : 0 .. MaxChunks]
      BY <1>1, <2>1, Zenon
    <3> QED
      BY <1>1, <3>1
  <2>4. mmapobj' = [mmapobj EXCEPT ![m] = [vma_id |-> w, numchunks |-> k, meta |-> k + 1]]
    BY <2>2, <2>3, Zenon
  <2>5. [vma_id |-> w, numchunks |-> k, meta |-> k + 1] \in
            [vma_id : 0 .. MaxMmaps, numchunks : 0 .. MaxChunks, meta : 0 .. MaxChunks]
    BY <1>1, Consts DEF Vmas, Cslots
  <2> HIDE DEF m, w, k
  <2> QED
    BY <1>1, <2>1, <2>4, <2>5, Zenon
<1> QED
  BY <1>0, <1>1, <1>2, Zenon

\* Moving meta_offset of a metadata file keeps the invariant.
LEMMA create_chunkobjStructure == Structure /\ create_chunkobj => Structure'
<1> SUFFICES ASSUME Structure, create_chunkobj PROVE Structure'
  BY Zenon
<1> USE DEF Structure
<1> DEFINE w == rq.vma
           m == mmapobj_tree[rq.vma]
           k == mmapobj[m].meta
<1>0. pc = "create_chunkobj" /\ pc' = "fill_chunkobj" /\ UNCHANGED <<proc, chunkobj, index>>
  BY create_chunkobjEffect, Zenon
<1>1. /\ w \in Vmas /\ w \in map_tree /\ w # 0 /\ m \in Mslots
      /\ mmapobj[m].vma_id = w
      /\ chunk_tree_init[w]
      /\ k = mmapobj[m].numchunks
      /\ \A v \in Vmas : mmapobj_tree[v] = m => v = w
      /\ k \in Nat /\ k + 1 \in Cslots /\ k < MaxChunks
  BY create_chunkobjEffect, Zenon
<1>2. /\ \A i \in Mslots : i # m => mmapobj'[i] = mmapobj[i]
      /\ mmapobj'[m] = [vma_id |-> w, numchunks |-> k, meta |-> k + 1]
      /\ mmapobj' \in [Mslots -> [vma_id : 0 .. MaxMmaps, numchunks : 0 .. MaxChunks,
                                  meta : 0 .. MaxChunks]]
  BY create_chunkobjEffect, Zenon
<1>3. rq' = [rq EXCEPT !.new = <<w, k + 1>>] /\ <<w, k + 1>> \in Ptrs
  BY <1>1, Zenon DEF create_chunkobj, Ptrs
<1>4. /\ rq'.vma = w /\ rq'.name = rq.name /\ rq'.id = rq.id /\ rq'.old = rq.old
      /\ rq'.new = <<w, k + 1>>
  BY <1>3, Zenon DEF TypeOK
<1>5. TypeOK'
  BY <1>0, <1>2, <1>3, Zenon DEF TypeOK, index, Pcs
<1>6. mmapobj_tree' = mmapobj_tree /\ proc' = proc /\ map_tree' = map_tree
      /\ chunk_tree_init' = chunk_tree_init /\ chunkobj_tree' = chunkobj_tree
      /\ chunkobj' = chunkobj
  BY <1>0, Zenon DEF index
<1>7. m = mmapobj_tree[w] /\ w = rq.vma
  BY Zenon
<1> HIDE DEF m, w, k
<1>ids. \A i \in Mslots : mmapobj'[i].vma_id = mmapobj[i].vma_id
  <2>1. mmapobj'[m].vma_id = mmapobj[m].vma_id
    BY <1>1, <1>2
  <2> QED
    BY <1>2, <2>1, Zenon
<1>8. ProcFile'
  <2>1. m <= proc.meta
    BY <1>1, <1>7, Zenon DEF Trees, Mslots
  <2> QED
    BY <1>0, <1>1, <1>2, <1>6, <2>1 DEF ProcFile, PendingMmapobj, Mslots, TypeOK
<1>9. VmaIds'
  BY <1>0, <1>6, <1>ids, Zenon DEF VmaIds, VmaIdsUnique
<1>10. MetaFiles'
  <2>1. \A i \in Mslots : /\ mmapobj'[i].vma_id = mmapobj[i].vma_id
                          /\ mmapobj'[i].numchunks = mmapobj[i].numchunks
                          /\ mmapobj'[i].meta = IF i = m THEN k + 1 ELSE mmapobj[i].meta
    BY <1>1, <1>2
  <2>2. \A i \in Mslots : mmapobj'[i].numchunks <= mmapobj'[i].meta
    BY <1>1, <2>1 DEF MetaFiles
  <2>3. mmapobj[m].meta = k
    BY Zenon DEF k
  <2>4. \A i \in Mslots, j \in Cslots : j > mmapobj'[i].meta => j > mmapobj[i].meta
    BY <1>1, <2>1, <2>3 DEF Cslots
  <2>5. ASSUME NEW i \in Mslots, mmapobj[i].vma_id # 0, NEW j \in Cslots
        PROVE  /\ j <= mmapobj'[i].numchunks => Filled(chunkobj[mmapobj[i].vma_id][j])
               /\ j > mmapobj'[i].meta => chunkobj[mmapobj[i].vma_id][j] = ZeroChunk
    BY <2>1, <2>4, <2>5, Zenon DEF MetaFiles
  <2>6. ASSUME NEW v \in Vmas, \A i \in Mslots : mmapobj[i].vma_id # v, NEW j \in Cslots
        PROVE  chunkobj[v][j] = ZeroChunk
    BY <2>6, Zenon DEF MetaFiles
  <2>7. \A i \in Mslots : mmapobj'[i].vma_id # 0 =>
            \A j \in Cslots :
               /\ j <= mmapobj'[i].numchunks => Filled(chunkobj'[mmapobj'[i].vma_id][j])
               /\ j > mmapobj'[i].meta => chunkobj'[mmapobj'[i].vma_id][j] = ZeroChunk
    BY <1>6, <1>ids, <2>5, Zenon
  <2>8. \A v \in Vmas : (\A i \in Mslots : mmapobj'[i].vma_id # v)
            => \A j \in Cslots : chunkobj'[v][j] = ZeroChunk
    BY <1>6, <1>ids, <2>6, Zenon
  <2> QED
    BY <2>2, <2>7, <2>8, Zenon DEF MetaFiles
<1>11. Trees'
  <2>1. \A v \in Vmas : mmapobj_tree'[v] # 0 =>
          mmapobj_tree'[v] <= proc'.meta /\ mmapobj'[mmapobj_tree'[v]].vma_id = v
    <3> SUFFICES ASSUME NEW v \in Vmas, mmapobj_tree[v] # 0
                 PROVE  mmapobj_tree[v] <= proc.meta /\ mmapobj'[mmapobj_tree[v]].vma_id = v
      BY <1>6, Zenon
    <3>1. mmapobj_tree[v] \in Mslots
      BY TreeSlots, Zenon
    <3>2. mmapobj_tree[v] <= proc.meta /\ mmapobj[mmapobj_tree[v]].vma_id = v
      BY Zenon DEF Trees
    <3> QED
      BY <1>ids, <3>1, <3>2, Zenon
  <2>2. ASSUME NEW v \in map_tree
        PROVE  IF mmapobj_tree'[v] = 0
               THEN \A i \in Mslots : mmapobj'[i].vma_id # v
               ELSE /\ chunk_tree_init'[v]
                    /\ mmapobj'[mmapobj_tree'[v]].meta =
                         mmapobj'[mmapobj_tree'[v]].numchunks + PendingChunk(v)'
    <3>0. v \in Vmas
      BY Zenon DEF TypeOK
    <3>1. CASE v = w
      <4>1. PendingChunk(v)' = 1
        BY <1>0, <1>4, <3>1, Zenon DEF PendingChunk
      <4>2. mmapobj_tree'[v] = m /\ m # 0
        BY <1>1, <1>6, <1>7, <3>1 DEF Mslots
      <4> QED
        BY <1>1, <1>2, <1>6, <3>1, <4>1, <4>2
    <3>2. CASE v # w
      <4>1. PendingChunk(v)' = 0 /\ PendingChunk(v) = 0
        BY <1>0, <1>4, <3>2, Zenon DEF PendingChunk
      <4>2. mmapobj_tree[v] # m
        BY <1>1, <3>0, <3>2, Zenon
      <4>3. mmapobj_tree[v] # 0 => mmapobj_tree[v] \in Mslots
        BY <3>0, TreeSlots, Zenon
      <4>4. CASE mmapobj_tree[v] = 0
        <5>1. \A i \in Mslots : mmapobj[i].vma_id # v
          BY <4>4, Zenon DEF Trees
        <5> QED
          BY <1>6, <1>ids, <4>4, <5>1, Zenon
      <4>5. CASE mmapobj_tree[v] # 0
        <5>1. mmapobj'[mmapobj_tree[v]] = mmapobj[mmapobj_tree[v]]
          BY <1>2, <4>2, <4>3, <4>5, Zenon
        <5>2. /\ chunk_tree_init[v]
              /\ mmapobj[mmapobj_tree[v]].meta =
                   mmapobj[mmapobj_tree[v]].numchunks + PendingChunk(v)
          BY <4>5, Zenon DEF Trees
        <5> QED
          BY <1>6, <4>1, <4>5, <5>1, <5>2, Zenon
      <4> QED
        BY <4>4, <4>5, Zenon
    <3> QED
      BY <3>1, <3>2, Zenon
  <2> QED
    BY <1>6, <2>1, <2>2, Zenon DEF Trees, At
<1>12. Call'
  <2>1. At(rq.new)' = ZeroChunk
    <3>1. k + 1 > mmapobj[m].meta
      BY <1>1 DEF k
    <3>2. chunkobj[w][k + 1] = ZeroChunk
      BY <1>1, <3>1, Zenon DEF MetaFiles
    <3> QED
      BY <1>4, <1>6, <3>2 DEF At
  <2>2. /\ rq'.vma \in map_tree' /\ rq'.name \in Names /\ rq'.id \in Ids
        /\ rq'.old # NoPtr => Filled(At(rq.old))'
    BY <1>0, <1>1, <1>4, <1>6, Zenon DEF Call, RecordSteps, ChunkSteps, At
  <2>3. mmapobj_tree'[rq'.vma] = m /\ m # 0 /\ mmapobj'[m].meta = k + 1
    <3>1. mmapobj_tree'[rq'.vma] = m
      BY <1>4, <1>6, <1>7, Zenon
    <3>2. mmapobj'[m].meta = k + 1
      BY <1>2
    <3>3. m # 0
      BY <1>1 DEF Mslots
    <3> QED
      BY <3>1, <3>2, <3>3, Zenon
  <2> QED
    BY <1>0, <1>4, <2>1, <2>2, <2>3, ZenonT(30) DEF Call, RecordSteps, ChunkSteps
<1> QED
  BY <1>5, <1>8, <1>9, <1>10, <1>11, <1>12, Zenon

\* update_chunkobj turns the zero slot into a written one.
LEMMA add_chunkobjEffect ==
    ASSUME Structure, add_chunkobj
    PROVE  LET w == rq.vma
               m == mmapobj_tree[rq.vma]
               c == [chunkid |-> rq.id, objname |-> rq.name, commitsz |-> 0, valid |-> TRUE]
           IN
               /\ pc = "fill_chunkobj" /\ pc' = "count_chunkobj"
               /\ proc' = proc /\ mmapobj' = mmapobj /\ mmapobj_tree' = mmapobj_tree
               /\ chunk_tree_init' = chunk_tree_init /\ map_tree' = map_tree /\ rq' = rq
               /\ objnamemap' = objnamemap \cup {rq.name}
               /\ chunkobj_tree' = [chunkobj_tree EXCEPT ![w][rq.id] = rq.new]
               /\ Store(rq.new, c)
               /\ w \in Vmas /\ w \in map_tree /\ m \in Mslots /\ mmapobj[m].vma_id = w /\ w # 0
               /\ mmapobj[m].meta = mmapobj[m].numchunks + PendingChunk(w)
               /\ rq.name \in Names /\ rq.id \in Ids /\ rq.new = <<w, mmapobj[m].meta>>
               /\ (rq.old # NoPtr => Filled(At(rq.old)))
               /\ mmapobj_tree[w] # 0
               /\ At(rq.new) = ZeroChunk
               /\ mmapobj[m].meta \in Cslots
               /\ mmapobj[m].numchunks \in Nat
               /\ mmapobj[m].meta = mmapobj[m].numchunks + 1
               /\ rq.new \in Ptrs /\ rq.new # NoPtr
               /\ c \in ChunkobjType /\ Filled(c)
               /\ chunkobj' \in [Vmas -> [Cslots -> ChunkobjType]]
               /\ \A v \in Vmas, j \in Cslots :
                    chunkobj'[v][j] = IF v = w /\ j = mmapobj[m].meta THEN c ELSE chunkobj[v][j]
<1> USE DEF Structure
<1> DEFINE w == rq.vma
           m == mmapobj_tree[rq.vma]
           c == [chunkid |-> rq.id, objname |-> rq.name, commitsz |-> 0, valid |-> TRUE]
<1>0. /\ pc = "fill_chunkobj" /\ pc' = "count_chunkobj"
      /\ proc' = proc /\ mmapobj' = mmapobj /\ mmapobj_tree' = mmapobj_tree
      /\ chunk_tree_init' = chunk_tree_init /\ map_tree' = map_tree /\ rq' = rq
      /\ objnamemap' = objnamemap \cup {rq.name}
      /\ chunkobj_tree' = [chunkobj_tree EXCEPT ![w][rq.id] = rq.new]
      /\ Store(rq.new, c)
  BY Zenon DEF add_chunkobj, update_chunkobj, objnamemap_insert
<1>1. /\ w \in Vmas /\ w \in map_tree /\ m \in Mslots /\ mmapobj[m].vma_id = w /\ w # 0
      /\ mmapobj[m].meta = mmapobj[m].numchunks + PendingChunk(w)
  BY <1>0, RqstMmapobj, Zenon DEF ChunkSteps
<1>2. /\ rq.name \in Names /\ rq.id \in Ids /\ rq.new = <<w, mmapobj[m].meta>>
      /\ (rq.old # NoPtr => Filled(At(rq.old)))
      /\ mmapobj_tree[w] # 0
      /\ At(rq.new) = ZeroChunk
  BY <1>0, Zenon DEF Call, RecordSteps, ChunkSteps
<1>3. /\ mmapobj[m].meta \in Cslots
      /\ mmapobj[m].numchunks \in Nat
      /\ mmapobj[m].meta = mmapobj[m].numchunks + 1
  <2>1. PendingChunk(w) = 1
    BY <1>0, Zenon DEF PendingChunk
  <2> HIDE DEF m, w
  <2>2. mmapobj[m].numchunks \in 0 .. MaxChunks /\ mmapobj[m].meta \in 0 .. MaxChunks
    BY <1>1, MmapobjTypes, Zenon
  <2>3. mmapobj[m].meta = mmapobj[m].numchunks + 1
    BY <1>1, <2>1, Zenon
  <2> QED
    BY <2>2, <2>3, Consts DEF Cslots
<1>4. rq.new \in Ptrs /\ rq.new # NoPtr
  <2> HIDE DEF m, w
  <2>1. rq.new \in Ptrs
    BY <1>1, <1>2, <1>3 DEF Ptrs
  <2> QED
    BY <2>1, NoPtrLemma, Zenon
<1>5. c \in ChunkobjType /\ Filled(c)
  BY <1>2, Zenon DEF ChunkobjType, Filled
<1>6. /\ chunkobj' \in [Vmas -> [Cslots -> ChunkobjType]]
      /\ \A v \in Vmas, j \in Cslots :
           chunkobj'[v][j] = IF v = w /\ j = mmapobj[m].meta THEN c ELSE chunkobj[v][j]
  <2> HIDE DEF c, w, m
  <2>1. rq.new[1] = w /\ rq.new[2] = mmapobj[m].meta
    BY <1>2
  <2> QED
    BY <1>0, <1>4, <1>5, <2>1, StoreEffect
<1> QED
  BY <1>0, <1>1, <1>2, <1>3, <1>4, <1>5, <1>6, Zenon

\* Writing a chunk and entering it in the tree keeps the invariant.
LEMMA add_chunkobjStructure == Structure /\ add_chunkobj => Structure'
<1> SUFFICES ASSUME Structure, add_chunkobj PROVE Structure'
  BY Zenon
<1> USE DEF Structure
<1> DEFINE w == rq.vma
           m == mmapobj_tree[rq.vma]
           c == [chunkid |-> rq.id, objname |-> rq.name, commitsz |-> 0, valid |-> TRUE]
<1>0. /\ pc = "fill_chunkobj" /\ pc' = "count_chunkobj"
      /\ proc' = proc /\ mmapobj' = mmapobj /\ mmapobj_tree' = mmapobj_tree
      /\ chunk_tree_init' = chunk_tree_init /\ map_tree' = map_tree /\ rq' = rq
      /\ objnamemap' = objnamemap \cup {rq.name}
      /\ chunkobj_tree' = [chunkobj_tree EXCEPT ![w][rq.id] = rq.new]
      /\ Store(rq.new, c)
  BY add_chunkobjEffect, Zenon
<1>1. /\ w \in Vmas /\ w \in map_tree /\ m \in Mslots /\ mmapobj[m].vma_id = w /\ w # 0
      /\ mmapobj[m].meta = mmapobj[m].numchunks + PendingChunk(w)
  BY add_chunkobjEffect, Zenon
<1>2. /\ rq.name \in Names /\ rq.id \in Ids /\ rq.new = <<w, mmapobj[m].meta>>
      /\ (rq.old # NoPtr => Filled(At(rq.old)))
      /\ mmapobj_tree[w] # 0
      /\ At(rq.new) = ZeroChunk
  BY add_chunkobjEffect, Zenon
<1>3. /\ mmapobj[m].meta \in Cslots
      /\ mmapobj[m].numchunks \in Nat
      /\ mmapobj[m].meta = mmapobj[m].numchunks + 1
  BY add_chunkobjEffect, Zenon
<1>4. rq.new \in Ptrs /\ rq.new # NoPtr
  BY add_chunkobjEffect, Zenon
<1>5. c \in ChunkobjType /\ Filled(c)
  BY add_chunkobjEffect, Zenon
<1>6. /\ chunkobj' \in [Vmas -> [Cslots -> ChunkobjType]]
      /\ \A v \in Vmas, j \in Cslots :
           chunkobj'[v][j] = IF v = w /\ j = mmapobj[m].meta THEN c ELSE chunkobj[v][j]
  BY add_chunkobjEffect, Zenon
<1> HIDE DEF c, w, m
<1>7. \A v \in Vmas, j \in Cslots : Filled(chunkobj[v][j]) => Filled(chunkobj'[v][j])
  BY <1>5, <1>6, Zenon
<1>8. TypeOK'
  <2>1. chunkobj_tree' \in [Vmas -> [Ids -> Ptrs \cup {NoPtr}]]
    BY <1>0, <1>1, <1>2, <1>4, Zenon DEF TypeOK
  <2> QED
    BY <1>0, <1>2, <1>6, <2>1, Zenon DEF TypeOK, Pcs
<1>9. ProcFile' /\ VmaIds'
  BY <1>0, Zenon DEF ProcFile, PendingMmapobj, VmaIds, VmaIdsUnique
<1>10. MetaFiles'
  <2>1. ASSUME NEW i \in Mslots, mmapobj[i].vma_id # 0, NEW j \in Cslots
        PROVE  /\ j <= mmapobj[i].numchunks => Filled(chunkobj'[mmapobj[i].vma_id][j])
               /\ j > mmapobj[i].meta => chunkobj'[mmapobj[i].vma_id][j] = ZeroChunk
    <3>1. mmapobj[i].vma_id \in Vmas
      BY <2>1, MmapobjTypes, Consts DEF Vmas
    <3>2. j <= mmapobj[i].numchunks => Filled(chunkobj[mmapobj[i].vma_id][j])
      BY <2>1, Zenon DEF MetaFiles
    <3>3. j > mmapobj[i].meta => chunkobj[mmapobj[i].vma_id][j] = ZeroChunk
      BY <2>1, Zenon DEF MetaFiles
    <3>4. mmapobj[i].vma_id = w => i = m
      BY <1>1, Zenon DEF VmaIds, VmaIdsUnique
    <3>5. j > mmapobj[i].meta => ~ (mmapobj[i].vma_id = w /\ j = mmapobj[m].meta)
      BY <1>3, <3>4 DEF Cslots
    <3> QED
      BY <1>6, <1>7, <3>1, <3>2, <3>3, <3>5, Zenon
  <2>2. ASSUME NEW v \in Vmas, \A i \in Mslots : mmapobj[i].vma_id # v, NEW j \in Cslots
        PROVE  chunkobj'[v][j] = ZeroChunk
    BY <1>1, <1>6, <2>2 DEF MetaFiles
  <2> QED
    BY <1>0, <2>1, <2>2, Zenon DEF MetaFiles
<1>11. Trees'
  <2>1. \A v : PendingChunk(v)' = PendingChunk(v)
    BY <1>0, Zenon DEF PendingChunk
  <2>2. ASSUME NEW v \in Vmas, NEW id \in Ids, chunkobj_tree'[v][id] # NoPtr
        PROVE  Filled(At(chunkobj_tree[v][id]))'
    <3>1. CASE v = w /\ id = rq.id
      <4>1. chunkobj_tree'[v][id] = <<w, mmapobj[m].meta>>
        BY <1>0, <1>1, <1>2, <3>1, Zenon DEF TypeOK
      <4> QED
        BY <1>1, <1>3, <1>5, <1>6, <4>1 DEF At
    <3>2. CASE ~ (v = w /\ id = rq.id)
      <4>1. chunkobj_tree'[v][id] = chunkobj_tree[v][id]
        BY <1>0, <1>1, <1>2, <3>2, Zenon DEF TypeOK
      <4>2. chunkobj_tree[v][id] \in Ptrs /\ Filled(At(chunkobj_tree[v][id]))
        <5>1. chunkobj_tree[v][id] # NoPtr
          BY <2>2, <4>1, Zenon
        <5>2. chunkobj_tree \in [Vmas -> [Ids -> Ptrs \cup {NoPtr}]]
          BY Zenon DEF TypeOK
        <5>3. chunkobj_tree[v][id] \in Ptrs
          BY <5>1, <5>2, Zenon
        <5>4. Filled(At(chunkobj_tree[v][id]))
          BY <5>1, Zenon DEF Trees
        <5> QED
          BY <5>3, <5>4, Zenon
      <4>3. chunkobj_tree[v][id][1] \in Vmas /\ chunkobj_tree[v][id][2] \in Cslots
        BY <4>2, Zenon DEF Ptrs
      <4> QED
        BY <1>7, <4>1, <4>2, <4>3, Zenon DEF At
    <3> QED
      BY <3>1, <3>2, Zenon
  <2> QED
    BY <1>0, <2>1, <2>2, Zenon DEF Trees
<1>12. Call'
  <2>1. Filled(At(rq.new))'
    BY <1>0, <1>1, <1>2, <1>3, <1>5, <1>6 DEF At
  <2>2. rq.old # NoPtr => Filled(At(rq.old))'
    <3> SUFFICES ASSUME rq.old # NoPtr PROVE Filled(At(rq.old))'
      BY Zenon
    <3>1. rq.old \in Ptrs
      BY Zenon DEF TypeOK
    <3>2. rq.old[1] \in Vmas /\ rq.old[2] \in Cslots
      BY <3>1, Zenon DEF Ptrs
    <3> QED
      BY <1>0, <1>2, <1>7, <3>2, Zenon DEF At
  <2>3. w = rq.vma /\ m = mmapobj_tree[rq.vma]
    BY Zenon DEF w, m
  <2> QED
    BY <1>0, <1>1, <1>2, <2>1, <2>2, <2>3, ZenonT(30) DEF Call, RecordSteps, ChunkSteps
<1> QED
  BY <1>8, <1>9, <1>10, <1>11, <1>12, Zenon

\* What count_chunkobj changes: numchunks of one mmapobj.
LEMMA count_chunkobjEffect ==
    ASSUME Structure, count_chunkobj
    PROVE  LET w == rq.vma
               m == mmapobj_tree[rq.vma]
               k == mmapobj[m].numchunks
           IN
               /\ pc = "count_chunkobj" /\ pc' \in {"idle", "copy"}
               /\ IF rq.old = NoPtr THEN pc' = "idle" /\ rq' = NoRqst ELSE pc' = "copy" /\ rq' = rq
               /\ proc' = proc /\ chunkobj' = chunkobj /\ UNCHANGED index
               /\ w \in Vmas /\ w \in map_tree /\ m \in Mslots /\ mmapobj[m].vma_id = w /\ w # 0
               /\ mmapobj[m].meta = k + PendingChunk(w)
               /\ chunk_tree_init[w]
               /\ \A v \in Vmas : mmapobj_tree[v] = m => v = w
               /\ rq.name \in Names /\ rq.id \in Ids /\ rq.new = <<w, mmapobj[m].meta>>
               /\ (rq.old # NoPtr => Filled(At(rq.old)))
               /\ Filled(At(rq.new))
               /\ k \in Nat /\ k + 1 \in Cslots /\ mmapobj[m].meta = k + 1
               /\ \A i \in Mslots : i # m => mmapobj'[i] = mmapobj[i]
               /\ mmapobj'[m] = [vma_id |-> w, numchunks |-> k + 1, meta |-> k + 1]
               /\ mmapobj' \in [Mslots -> [vma_id : 0 .. MaxMmaps, numchunks : 0 .. MaxChunks,
                                           meta : 0 .. MaxChunks]]
<1> USE DEF Structure
<1> DEFINE w == rq.vma
           m == mmapobj_tree[rq.vma]
           k == mmapobj[m].numchunks
<1>0. /\ pc = "count_chunkobj" /\ pc' \in {"idle", "copy"}
      /\ IF rq.old = NoPtr THEN pc' = "idle" /\ rq' = NoRqst ELSE pc' = "copy" /\ rq' = rq
      /\ proc' = proc /\ chunkobj' = chunkobj /\ UNCHANGED index
  BY Zenon DEF count_chunkobj
<1>1. /\ w \in Vmas /\ w \in map_tree /\ m \in Mslots /\ mmapobj[m].vma_id = w /\ w # 0
      /\ mmapobj[m].meta = k + PendingChunk(w)
      /\ chunk_tree_init[w]
      /\ \A v \in Vmas : mmapobj_tree[v] = m => v = w
  BY <1>0, RqstMmapobj, Zenon DEF ChunkSteps
<1>2. /\ rq.name \in Names /\ rq.id \in Ids /\ rq.new = <<w, mmapobj[m].meta>>
      /\ (rq.old # NoPtr => Filled(At(rq.old)))
      /\ Filled(At(rq.new))
  BY <1>0, Zenon DEF Call, RecordSteps, ChunkSteps
<1>3. k \in Nat /\ k + 1 \in Cslots /\ mmapobj[m].meta = k + 1
  <2>1. PendingChunk(w) = 1
    BY <1>0, Zenon DEF PendingChunk
  <2>2. mmapobj[m].numchunks = k
    BY Zenon
  <2> HIDE DEF m, w, k
  <2>3. k \in 0 .. MaxChunks /\ mmapobj[m].meta \in 0 .. MaxChunks
    BY <1>1, <2>2, MmapobjTypes, Zenon
  <2>4. mmapobj[m].meta = k + 1
    BY <1>1, <2>1, Zenon
  <2> QED
    BY <2>3, <2>4, Consts DEF Cslots
<1>4. /\ \A i \in Mslots : i # m => mmapobj'[i] = mmapobj[i]
      /\ mmapobj'[m] = [vma_id |-> w, numchunks |-> k + 1, meta |-> k + 1]
      /\ mmapobj' \in [Mslots -> [vma_id : 0 .. MaxMmaps, numchunks : 0 .. MaxChunks,
                                  meta : 0 .. MaxChunks]]
  <2>1. mmapobj \in [Mslots -> [vma_id : 0 .. MaxMmaps, numchunks : 0 .. MaxChunks,
                                meta : 0 .. MaxChunks]]
    BY Zenon DEF TypeOK
  <2>2. mmapobj' = [mmapobj EXCEPT ![m] = [mmapobj[m] EXCEPT !.numchunks = k + 1]]
    BY Zenon DEF count_chunkobj
  <2>3. [mmapobj[m] EXCEPT !.numchunks = k + 1] =
            [vma_id |-> w, numchunks |-> k + 1, meta |-> k + 1]
    <3>1. mmapobj[m] \in [vma_id : 0 .. MaxMmaps, numchunks : 0 .. MaxChunks,
                          meta : 0 .. MaxChunks]
      BY <1>1, <2>1, Zenon
    <3> QED
      BY <1>1, <1>3, <3>1
  <2>4. mmapobj' = [mmapobj EXCEPT ![m] =
                      [vma_id |-> w, numchunks |-> k + 1, meta |-> k + 1]]
    BY <2>2, <2>3, Zenon
  <2> HIDE DEF m, w, k
  <2>5. [vma_id |-> w, numchunks |-> k + 1, meta |-> k + 1] \in
            [vma_id : 0 .. MaxMmaps, numchunks : 0 .. MaxChunks, meta : 0 .. MaxChunks]
    <3>1. w \in 0 .. MaxMmaps
      BY <1>1, Consts DEF Vmas
    <3>2. k + 1 \in 0 .. MaxChunks
      BY <1>3, Consts, SMTT(30) DEF Cslots
    <3> QED
      BY <3>1, <3>2, Zenon
  <2> QED
    BY <1>1, <2>1, <2>4, <2>5, Zenon
<1> QED
  BY <1>0, <1>1, <1>2, <1>3, <1>4, Zenon

\* Counting a chunk that is written keeps the invariant.
LEMMA count_chunkobjStructure == Structure /\ count_chunkobj => Structure'
<1> SUFFICES ASSUME Structure, count_chunkobj PROVE Structure'
  BY Zenon
<1> USE DEF Structure
<1> DEFINE w == rq.vma
           m == mmapobj_tree[rq.vma]
           k == mmapobj[m].numchunks
<1>0. /\ pc = "count_chunkobj" /\ pc' \in {"idle", "copy"}
      /\ IF rq.old = NoPtr THEN pc' = "idle" /\ rq' = NoRqst ELSE pc' = "copy" /\ rq' = rq
      /\ proc' = proc /\ chunkobj' = chunkobj /\ UNCHANGED index
  BY count_chunkobjEffect, Zenon
<1>1. /\ w \in Vmas /\ w \in map_tree /\ m \in Mslots /\ mmapobj[m].vma_id = w /\ w # 0
      /\ mmapobj[m].meta = k + PendingChunk(w)
      /\ chunk_tree_init[w]
      /\ \A v \in Vmas : mmapobj_tree[v] = m => v = w
  BY count_chunkobjEffect, Zenon
<1>2. /\ rq.name \in Names /\ rq.id \in Ids /\ rq.new = <<w, mmapobj[m].meta>>
      /\ (rq.old # NoPtr => Filled(At(rq.old)))
      /\ Filled(At(rq.new))
  BY count_chunkobjEffect, Zenon
<1>3. k \in Nat /\ k + 1 \in Cslots /\ mmapobj[m].meta = k + 1
  BY count_chunkobjEffect, Zenon
<1>4. /\ \A i \in Mslots : i # m => mmapobj'[i] = mmapobj[i]
      /\ mmapobj'[m] = [vma_id |-> w, numchunks |-> k + 1, meta |-> k + 1]
      /\ mmapobj' \in [Mslots -> [vma_id : 0 .. MaxMmaps, numchunks : 0 .. MaxChunks,
                                  meta : 0 .. MaxChunks]]
  BY count_chunkobjEffect, Zenon
<1>5. TypeOK'
  <2>1. NoRqst \in [name : Names \cup {NoName}, id : Ids \cup {0},
                    dest : Names \cup {NoName}, vma : 0 .. MaxMmaps,
                    old : Ptrs \cup {NoPtr}, new : Ptrs \cup {NoPtr},
                    del : Ptrs \cup {NoPtr}]
    BY Consts DEF NoRqst
  <2> QED
    BY <1>0, <1>4, <2>1, Zenon DEF TypeOK, index, Pcs
<1>6. /\ mmapobj_tree' = mmapobj_tree /\ map_tree' = map_tree
      /\ chunk_tree_init' = chunk_tree_init /\ chunkobj_tree' = chunkobj_tree
  BY <1>0, Zenon DEF index
<1>7. m = mmapobj_tree[w] /\ w = rq.vma /\ k = mmapobj[m].numchunks
  BY Zenon
<1> HIDE DEF m, w, k
<1>ids. \A i \in Mslots : mmapobj'[i].vma_id = mmapobj[i].vma_id
  <2>1. mmapobj'[m].vma_id = mmapobj[m].vma_id
    BY <1>1, <1>4
  <2> QED
    BY <1>4, <2>1, Zenon
<1>8. ProcFile'
  <2>1. m <= proc.meta
    BY <1>1, <1>7, Zenon DEF Trees, Mslots
  <2> QED
    BY <1>0, <1>1, <1>4, <2>1, SMTT(30) DEF ProcFile, PendingMmapobj, Mslots, TypeOK
<1>9. VmaIds'
  BY <1>0, <1>1, <1>4, <1>6, SMTT(30) DEF VmaIds, VmaIdsUnique
<1>10. MetaFiles'
  <2>1. \A i \in Mslots :
          /\ mmapobj'[i].vma_id = mmapobj[i].vma_id
          /\ mmapobj'[i].meta = mmapobj[i].meta
          /\ mmapobj'[i].numchunks = IF i = m THEN k + 1 ELSE mmapobj[i].numchunks
    <3> SUFFICES ASSUME NEW i \in Mslots
                 PROVE  /\ mmapobj'[i].vma_id = mmapobj[i].vma_id
                        /\ mmapobj'[i].meta = mmapobj[i].meta
                        /\ mmapobj'[i].numchunks =
                             IF i = m THEN k + 1 ELSE mmapobj[i].numchunks
      BY Zenon
    <3>1. CASE i = m
      <4>1. /\ mmapobj'[m].vma_id = w /\ mmapobj'[m].meta = k + 1
            /\ mmapobj'[m].numchunks = k + 1
        BY <1>4
      <4> QED
        BY <1>1, <1>3, <3>1, <4>1, Zenon
    <3>2. CASE i # m
      BY <1>4, <3>2, Zenon
    <3> QED
      BY <3>1, <3>2, Zenon
  <2>2. \A i \in Mslots : mmapobj'[i].numchunks <= mmapobj'[i].meta
    BY <1>3, <2>1, SMTT(30) DEF MetaFiles
  <2>3. ASSUME NEW i \in Mslots, mmapobj[i].vma_id # 0, NEW j \in Cslots,
               j <= mmapobj'[i].numchunks
        PROVE  Filled(chunkobj[mmapobj[i].vma_id][j])
    <3>1. CASE i = m /\ j = k + 1
      BY <1>1, <1>2, <1>3, <3>1 DEF At
    <3>2. CASE ~ (i = m /\ j = k + 1)
      <4>1. j <= mmapobj[i].numchunks
        BY <1>3, <1>7, <2>1, <2>3, <3>2 DEF Cslots
      <4> QED
        BY <2>3, <4>1, Zenon DEF MetaFiles
    <3> QED
      BY <3>1, <3>2, Zenon
  <2> QED
    <3>1. ASSUME NEW i \in Mslots, mmapobj[i].vma_id # 0, NEW j \in Cslots,
                 j > mmapobj'[i].meta
          PROVE  chunkobj[mmapobj[i].vma_id][j] = ZeroChunk
      BY <2>1, <3>1, Zenon DEF MetaFiles
    <3>2. ASSUME NEW v \in Vmas, \A i \in Mslots : mmapobj[i].vma_id # v, NEW j \in Cslots
          PROVE  chunkobj[v][j] = ZeroChunk
      BY <3>2, Zenon DEF MetaFiles
    <3>3. \A i \in Mslots : mmapobj'[i].vma_id # 0 =>
            \A j \in Cslots :
               /\ j <= mmapobj'[i].numchunks => Filled(chunkobj'[mmapobj'[i].vma_id][j])
               /\ j > mmapobj'[i].meta => chunkobj'[mmapobj'[i].vma_id][j] = ZeroChunk
      BY <1>0, <1>ids, <2>3, <3>1, Zenon
    <3>4. \A v \in Vmas : (\A i \in Mslots : mmapobj'[i].vma_id # v)
            => \A j \in Cslots : chunkobj'[v][j] = ZeroChunk
      BY <1>0, <1>ids, <3>2, Zenon
    <3> QED
      BY <2>2, <3>3, <3>4, Zenon DEF MetaFiles
<1>11. Trees'
  <2>1. \A v \in Vmas : mmapobj_tree'[v] # 0 =>
          mmapobj_tree'[v] <= proc'.meta /\ mmapobj'[mmapobj_tree'[v]].vma_id = v
    <3> SUFFICES ASSUME NEW v \in Vmas, mmapobj_tree[v] # 0
                 PROVE  mmapobj_tree[v] <= proc.meta /\ mmapobj'[mmapobj_tree[v]].vma_id = v
      BY <1>0, <1>6, Zenon
    <3>1. mmapobj_tree[v] \in Mslots
      BY TreeSlots, Zenon
    <3>2. mmapobj_tree[v] <= proc.meta /\ mmapobj[mmapobj_tree[v]].vma_id = v
      BY Zenon DEF Trees
    <3> QED
      BY <1>ids, <3>1, <3>2, Zenon
  <2>2. ASSUME NEW v \in map_tree
        PROVE  IF mmapobj_tree'[v] = 0
               THEN \A i \in Mslots : mmapobj'[i].vma_id # v
               ELSE /\ chunk_tree_init'[v]
                    /\ mmapobj'[mmapobj_tree'[v]].meta =
                         mmapobj'[mmapobj_tree'[v]].numchunks + PendingChunk(v)'
    <3>0. v \in Vmas /\ PendingChunk(v)' = 0
      BY <1>0, Zenon DEF TypeOK, PendingChunk
    <3>1. CASE v = w
      <4>1. mmapobj_tree'[v] = m /\ m # 0
        BY <1>1, <1>6, <1>7, <3>1 DEF Mslots
      <4>2. mmapobj'[m].meta = k + 1 /\ mmapobj'[m].numchunks = k + 1
        BY <1>4
      <4>3. chunk_tree_init'[v]
        BY <1>1, <1>6, <3>1, Zenon
      <4> QED
        BY <1>3, <3>0, <4>1, <4>2, <4>3
    <3>2. CASE v # w
      <4>1. PendingChunk(v) = 0
        BY <1>7, <3>2, Zenon DEF PendingChunk
      <4>2. mmapobj_tree[v] # m
        BY <1>1, <3>0, <3>2, Zenon
      <4>3. mmapobj_tree[v] # 0 => mmapobj_tree[v] \in Mslots
        BY <3>0, TreeSlots, Zenon
      <4>4. CASE mmapobj_tree[v] = 0
        <5>1. \A i \in Mslots : mmapobj[i].vma_id # v
          BY <4>4, Zenon DEF Trees
        <5> QED
          BY <1>6, <1>ids, <4>4, <5>1, Zenon
      <4>5. CASE mmapobj_tree[v] # 0
        <5>1. mmapobj'[mmapobj_tree[v]] = mmapobj[mmapobj_tree[v]]
          BY <1>4, <4>2, <4>3, <4>5, Zenon
        <5>2. /\ chunk_tree_init[v]
              /\ mmapobj[mmapobj_tree[v]].meta =
                   mmapobj[mmapobj_tree[v]].numchunks + PendingChunk(v)
          BY <4>5, Zenon DEF Trees
        <5> QED
          BY <1>6, <3>0, <4>1, <4>5, <5>1, <5>2, Zenon
      <4> QED
        BY <4>4, <4>5, Zenon
    <3> QED
      BY <3>1, <3>2, Zenon
  <2> QED
    BY <1>0, <1>6, <2>1, <2>2, ZenonT(30) DEF Trees, At
<1>12. Call'
  <2>1. CASE pc' = "idle"
    BY <2>1, Zenon DEF Call, RecordSteps, ChunkSteps
  <2>2. CASE pc' = "copy"
    <3>1. rq' = rq /\ rq.old # NoPtr
      BY <1>0, <2>2, Zenon
    <3>2. rq.new # NoPtr
      <4>1. rq.new[1] # 0
        BY <1>1, <1>2
      <4>2. NoPtr[1] = 0
        BY Zenon DEF NoPtr
      <4> QED
        BY <4>1, <4>2, Zenon
    <3> QED
      BY <1>0, <1>2, <2>2, <3>1, <3>2, ZenonT(30) DEF Call, RecordSteps, ChunkSteps, At
  <2> QED
    BY <1>0, <2>1, <2>2, Zenon
<1> QED
  BY <1>5, <1>8, <1>9, <1>10, <1>11, <1>12, Zenon

\* A step outside the creation of an mmapobj and of a chunk, which stores
\* into written slots only and gives the trees no other slots.
LEMMA QuietStep ==
    ASSUME Structure, KeepsFilled,
           UNCHANGED <<proc, mmapobj, mmapobj_tree, chunk_tree_init, map_tree>>,
           pc' # "down",
           pc \notin {"fill_mmapobj", "count_mmapobj", "fill_chunkobj", "count_chunkobj"},
           pc' \notin {"fill_mmapobj", "count_mmapobj", "fill_chunkobj", "count_chunkobj"},
           \A v \in Vmas, id \in Ids : chunkobj_tree'[v][id] # NoPtr =>
              /\ chunkobj_tree'[v][id] \in Ptrs
              /\ Filled(At(chunkobj_tree'[v][id]))
    PROVE  ProcFile' /\ VmaIds' /\ MetaFiles' /\ Trees'
<1> USE DEF Structure
<1>1. ProcFile' /\ VmaIds'
  BY Zenon DEF ProcFile, PendingMmapobj, VmaIds, VmaIdsUnique
<1>2. MetaFiles'
  BY FilesKept, Zenon
<1>3. Trees'
  <2>1. \A v : PendingChunk(v)' = PendingChunk(v)
    BY Zenon DEF PendingChunk
  <2>2. ASSUME NEW v \in Vmas, NEW id \in Ids, chunkobj_tree'[v][id] # NoPtr
        PROVE  Filled(At(chunkobj_tree[v][id]))'
    <3>1. chunkobj_tree'[v][id] \in Ptrs /\ Filled(At(chunkobj_tree'[v][id]))
      BY <2>2, Zenon
    <3>2. PICK q \in Ptrs : q = chunkobj_tree'[v][id]
      BY <3>1, Zenon
    <3>3. Filled(chunkobj'[q[1]][q[2]])
      BY <3>1, <3>2, FilledKept, Zenon
    <3> QED
      BY <3>2, <3>3, Zenon DEF At
  <2> QED
    BY <2>1, <2>2, Zenon DEF Trees
<1> QED
  BY <1>1, <1>2, <1>3, Zenon

\* Nothing is stored.
LEMMA SameSlots ==
    ASSUME TypeOK, UNCHANGED chunkobj
    PROVE  KeepsFilled
BY Zenon DEF TypeOK, KeepsFilled

\* The entries of an unchanged index lead to written slots.
LEMMA TreeEntries ==
    ASSUME Structure, NEW v \in Vmas, NEW id \in Ids, chunkobj_tree[v][id] # NoPtr
    PROVE  chunkobj_tree[v][id] \in Ptrs /\ Filled(At(chunkobj_tree[v][id]))
BY DEF Structure, TypeOK, Trees

RqstType == [name : Names \cup {NoName}, id : Ids \cup {0},
             dest : Names \cup {NoName}, vma : 0 .. MaxMmaps,
             old : Ptrs \cup {NoPtr}, new : Ptrs \cup {NoPtr},
             del : Ptrs \cup {NoPtr}]

\* The empty request is a request.
LEMMA NoRqstType == NoRqst \in RqstType
BY Consts DEF NoRqst, RqstType

\* A store into the slot p, which is written, with the index unchanged.
LEMMA StoreStep ==
    ASSUME Structure, NEW p \in Ptrs, Filled(At(p)),
           NEW c \in ChunkobjType, Filled(c), Store(p, c),
           UNCHANGED <<proc, mmapobj, index>>,
           pc' \in Pcs, rq' \in RqstType, pc' # "down",
           pc \notin {"fill_mmapobj", "count_mmapobj", "fill_chunkobj", "count_chunkobj"},
           pc' \notin {"fill_mmapobj", "count_mmapobj", "fill_chunkobj", "count_chunkobj"}
    PROVE  /\ KeepsFilled
           /\ TypeOK' /\ ProcFile' /\ VmaIds' /\ MetaFiles' /\ Trees'
<1>1. KeepsFilled
  BY SlotUpdate, Zenon DEF Structure
<1>2. UNCHANGED <<mmapobj_tree, chunk_tree_init, chunkobj_tree, map_tree, objnamemap>>
  BY Zenon DEF index
<1>3. TypeOK'
  BY <1>1, <1>2, Zenon DEF Structure, TypeOK, KeepsFilled, RqstType
<1>4. \A v \in Vmas, id \in Ids : chunkobj_tree'[v][id] # NoPtr =>
              /\ chunkobj_tree'[v][id] \in Ptrs
              /\ Filled(At(chunkobj_tree'[v][id]))
  BY <1>2, TreeEntries, Zenon
<1> QED
  BY <1>1, <1>2, <1>3, <1>4, QuietStep, Zenon

\* The start of nv_record_chunk keeps the invariant.
LEMMA nv_record_chunkStructure ==
    ASSUME Structure, NEW n \in Names, NEW v \in Vmas, nv_record_chunk(n, v)
    PROVE  Structure'
<1> DEFINE id == gen_id_from_str[n]
           old == check_if_chunk_exists(id)
<1>1. id \in Ids
  BY Consts, Zenon
<1> HIDE DEF id
<1>2. old # NoPtr => old \in Ptrs /\ Filled(At(old))
  BY <1>1, GetChunkFilled, Zenon DEF check_if_chunk_exists, Structure
<1> HIDE DEF old
<1>3. /\ pc = "idle"
      /\ v \in map_tree
      /\ IF mmapobj_tree[v] = 0
         THEN proc.meta < MaxMmapobjs /\ MaxChunks > 0
         ELSE mmapobj[mmapobj_tree[v]].meta < MaxChunks
      /\ IF old = NoPtr THEN UNCHANGED chunkobj
         ELSE Store(old, [At(old) EXCEPT !.chunkid = id])
      /\ rq' = [NoRqst EXCEPT !.name = n, !.id = id, !.vma = v, !.old = old]
      /\ pc' = IF mmapobj_tree[v] = 0 THEN "create_mmapobj" ELSE "create_chunkobj"
      /\ UNCHANGED <<proc, mmapobj, index>>
  BY Zenon DEF nv_record_chunk, old, id
<1>4. /\ rq' \in RqstType
      /\ rq'.name = n /\ rq'.id = id /\ rq'.vma = v /\ rq'.old = old
  <2>1. rq' = [name |-> n, id |-> id, dest |-> NoName, vma |-> v,
               old |-> old, new |-> NoPtr, del |-> NoPtr]
    BY <1>3, Zenon DEF NoRqst
  <2>2. old \in Ptrs \cup {NoPtr} /\ v \in 0 .. MaxMmaps
    BY <1>2, Consts DEF Vmas
  <2> QED
    BY <1>1, <2>1, <2>2, Zenon DEF RqstType
<1>5. /\ KeepsFilled
      /\ TypeOK' /\ ProcFile' /\ VmaIds' /\ MetaFiles' /\ Trees'
  <2>1. CASE old = NoPtr
    <3>1. KeepsFilled
      BY <1>3, <2>1, SameSlots, Zenon DEF Structure
    <3>2. UNCHANGED <<mmapobj_tree, chunk_tree_init, chunkobj_tree, map_tree, objnamemap>>
      BY <1>3, Zenon DEF index
    <3>3. TypeOK'
      BY <1>3, <1>4, <3>1, <3>2, ZenonT(30) DEF Structure, TypeOK, KeepsFilled, RqstType, Pcs
    <3>4. \A u \in Vmas, d \in Ids : chunkobj_tree'[u][d] # NoPtr =>
              /\ chunkobj_tree'[u][d] \in Ptrs
              /\ Filled(At(chunkobj_tree'[u][d]))
      BY <3>2, TreeEntries, Zenon
    <3> QED
      BY <1>3, <3>1, <3>2, <3>3, <3>4, QuietStep, Zenon
  <2>2. CASE old # NoPtr
    <3>1. At(old) \in ChunkobjType
      BY <1>2, <2>2, AtType, Zenon DEF Structure
    <3>2. PICK c \in ChunkobjType : c = [At(old) EXCEPT !.chunkid = id] /\ Filled(c)
      BY <1>1, <1>2, <2>2, <3>1, FieldUpdate, Zenon
    <3>3. Store(old, c)
      BY <1>3, <2>2, <3>2, Zenon
    <3> QED
      BY <1>2, <1>3, <1>4, <2>2, <3>2, <3>3, StoreStep, Zenon DEF Pcs
  <2> QED
    BY <2>1, <2>2, Zenon
<1>6. Call'
  <2>1. /\ mmapobj_tree' = mmapobj_tree /\ map_tree' = map_tree
        /\ proc' = proc /\ mmapobj' = mmapobj
    BY <1>3, Zenon DEF index
  <2>2. old # NoPtr => Filled(At(rq.old))'
    BY <1>2, <1>4, <1>5, FilledKept, Zenon DEF At
  <2>3. /\ rq'.vma \in map_tree' /\ rq'.name \in Names /\ rq'.id \in Ids
        /\ rq'.old # NoPtr => Filled(At(rq.old))'
    BY <1>1, <1>3, <1>4, <2>1, <2>2
  <2>4. CASE mmapobj_tree[v] = 0
    BY <1>3, <1>4, <2>1, <2>3, <2>4, Zenon DEF Call, RecordSteps, ChunkSteps
  <2>5. CASE mmapobj_tree[v] # 0
    BY <1>3, <1>4, <2>1, <2>3, <2>5, Zenon DEF Call, RecordSteps, ChunkSteps
  <2> QED
    BY <2>4, <2>5, Zenon
<1> QED
  BY <1>5, <1>6, Zenon DEF Structure

\* Copying the older object keeps the invariant.
LEMMA copy_oldchunkStructure == Structure /\ copy_oldchunk => Structure'
<1> SUFFICES ASSUME Structure, copy_oldchunk PROVE Structure'
  BY Zenon
<1>1. /\ pc = "copy" /\ pc' = "delete"
      /\ Store(rq.new, [At(rq.new) EXCEPT !.commitsz = At(rq.old).commitsz])
      /\ rq' = [rq EXCEPT !.name = At(rq.old).objname]
      /\ UNCHANGED <<proc, mmapobj, index>>
  BY Zenon DEF copy_oldchunk
<1>2. /\ rq.old \in Ptrs /\ rq.new \in Ptrs
      /\ Filled(At(rq.old)) /\ Filled(At(rq.new))
      /\ rq.id \in Ids
      /\ rq \in RqstType
  BY <1>1, Zenon DEF Structure, Call, TypeOK, RqstType
<1>3. At(rq.old) \in ChunkobjType /\ At(rq.new) \in ChunkobjType
  BY <1>2, AtType, Zenon DEF Structure
<1>4. At(rq.old).commitsz \in {0, 1} /\ At(rq.old).objname \in Names
  BY <1>2, <1>3, Zenon DEF ChunkobjType, Filled
<1>5. PICK c \in ChunkobjType :
         c = [At(rq.new) EXCEPT !.commitsz = At(rq.old).commitsz] /\ Filled(c)
  BY <1>2, <1>3, <1>4, FieldUpdate, Zenon
<1>6. Store(rq.new, c)
  BY <1>1, <1>5, Zenon
<1>7. rq' \in RqstType /\ rq'.name \in Names /\ rq'.id \in Ids
  BY <1>1, <1>2, <1>4, Zenon DEF RqstType
<1>8. TypeOK' /\ ProcFile' /\ VmaIds' /\ MetaFiles' /\ Trees'
  BY <1>1, <1>2, <1>5, <1>6, <1>7, StoreStep, Zenon DEF Pcs
<1>9. Call'
  BY <1>1, <1>7, Zenon DEF Call, RecordSteps, ChunkSteps
<1> QED
  BY <1>8, <1>9, Zenon DEF Structure

\* The part of nv_delete before INVALID is stored.
LEMMA ClearCommitStructure ==
    ASSUME Structure, NEW p \in Ptrs, Filled(At(p)), ClearCommit(p),
           pc \in {"idle", "delete"}, rq' \in RqstType, rq'.del = p
    PROVE  Structure'
<1>1. /\ Store(p, [At(p) EXCEPT !.commitsz = 0])
      /\ pc' = "invalidate"
      /\ UNCHANGED <<proc, mmapobj, index>>
  BY Zenon DEF ClearCommit
<1>2. At(p) \in ChunkobjType
  BY AtType, Zenon DEF Structure
<1>3. PICK c \in ChunkobjType : c = [At(p) EXCEPT !.commitsz = 0] /\ Filled(c)
  BY <1>2, FieldUpdate, Zenon
<1>4. Store(p, c)
  BY <1>1, <1>3, Zenon
<1>5. KeepsFilled /\ TypeOK' /\ ProcFile' /\ VmaIds' /\ MetaFiles' /\ Trees'
  BY <1>1, <1>3, <1>4, StoreStep, Zenon DEF Pcs
<1>6. Filled(At(rq.del))' /\ rq'.del # NoPtr
  BY <1>5, FilledKept, NoPtrLemma, Zenon DEF At
<1>7. Call'
  BY <1>1, <1>6, Zenon DEF Call, RecordSteps, ChunkSteps
<1> QED
  BY <1>5, <1>7, Zenon DEF Structure

\* The first store of nv_delete keeps the invariant.
LEMMA nv_deleteStructure ==
    ASSUME Structure, NEW n \in Names, nv_delete(n)
    PROVE  Structure'
<1> DEFINE id == gen_id_from_str[n]
           p == get_chunk(id)
<1>1. id \in Ids
  BY Consts, Zenon
<1>2. /\ pc = "idle" /\ p # NoPtr /\ ClearCommit(p)
      /\ rq' = [NoRqst EXCEPT !.name = n, !.id = id, !.del = p]
  BY Zenon DEF nv_delete
<1> HIDE DEF id
<1>3. p \in Ptrs /\ Filled(At(p))
  BY <1>1, <1>2, GetChunkFilled, ZenonT(30) DEF Structure
<1> HIDE DEF p
<1>4. rq' \in RqstType /\ rq'.del = p
  <2>1. rq' = [name |-> n, id |-> id, dest |-> NoName, vma |-> 0,
               old |-> NoPtr, new |-> NoPtr, del |-> p]
    BY <1>2, Zenon DEF NoRqst
  <2> QED
    BY <1>1, <1>3, <2>1, Consts DEF RqstType
<1> QED
  BY <1>2, <1>3, <1>4, ClearCommitStructure, Zenon

\* The delete at the end of nv_record_chunk keeps the invariant.
LEMMA delete_oldchunkStructure == Structure /\ delete_oldchunk => Structure'
<1> SUFFICES ASSUME Structure, delete_oldchunk PROVE Structure'
  BY Zenon
<1> DEFINE p == get_chunk(rq.id)
<1>1. /\ pc = "delete"
      /\ IF p = NoPtr
         THEN pc' = "idle" /\ rq' = NoRqst /\ UNCHANGED <<persistent, index>>
         ELSE ClearCommit(p) /\ rq' = [rq EXCEPT !.del = p]
  BY Zenon DEF delete_oldchunk
<1>2. rq.id \in Ids /\ rq \in RqstType
  BY <1>1, Zenon DEF Structure, Call, TypeOK, RqstType
<1>3. p # NoPtr => p \in Ptrs /\ Filled(At(p))
  BY <1>2, GetChunkFilled, Zenon DEF Structure
<1> HIDE DEF p
<1>4. CASE p = NoPtr
  <2>1. /\ pc' = "idle" /\ rq' = NoRqst
        /\ UNCHANGED <<proc, mmapobj, chunkobj, mmapobj_tree, chunk_tree_init,
                       chunkobj_tree, map_tree, objnamemap>>
    BY <1>1, <1>4, Zenon DEF persistent, index
  <2>2. KeepsFilled
    BY <2>1, SameSlots, Zenon DEF Structure
  <2>3. TypeOK'
    BY <2>1, NoRqstType, Zenon DEF Structure, TypeOK, RqstType, Pcs
  <2>4. \A v \in Vmas, d \in Ids : chunkobj_tree'[v][d] # NoPtr =>
            /\ chunkobj_tree'[v][d] \in Ptrs
            /\ Filled(At(chunkobj_tree'[v][d]))
    BY <2>1, TreeEntries, Zenon
  <2>5. ProcFile' /\ VmaIds' /\ MetaFiles' /\ Trees'
    BY <1>1, <2>1, <2>2, <2>4, QuietStep, Zenon
  <2>6. Call'
    BY <2>1, Zenon DEF Call, RecordSteps, ChunkSteps
  <2> QED
    BY <2>3, <2>5, <2>6, Zenon DEF Structure
<1>5. CASE p # NoPtr
  <2>1. rq' \in RqstType /\ rq'.del = p
    BY <1>1, <1>2, <1>3, <1>5, Zenon DEF RqstType
  <2> QED
    BY <1>1, <1>3, <1>5, <2>1, ClearCommitStructure, Zenon
<1> QED
  BY <1>4, <1>5, Zenon

\* A call ends with a store into a written slot and an update of one tree.
LEMMA EndStep ==
    ASSUME Structure, NEW p \in Ptrs, Filled(At(p)),
           NEW c \in ChunkobjType, Filled(c), Store(p, c),
           UNCHANGED <<proc, mmapobj, mmapobj_tree, chunk_tree_init, map_tree>>,
           pc \in {"invalidate", "rename"}, pc' = "idle", rq' = NoRqst,
           objnamemap' \subseteq Names,
           \/ UNCHANGED chunkobj_tree
           \/ \E v \in Vmas, id \in Ids, q \in {p, NoPtr} :
                chunkobj_tree' = [chunkobj_tree EXCEPT ![v][id] = q]
    PROVE  Structure'
<1>1. KeepsFilled
  BY SlotUpdate, Zenon DEF Structure
<1>2. /\ chunkobj_tree' \in [Vmas -> [Ids -> Ptrs \cup {NoPtr}]]
      /\ \A v \in Vmas, id \in Ids :
           chunkobj_tree'[v][id] \in {p, NoPtr, chunkobj_tree[v][id]}
  <2>1. chunkobj_tree \in [Vmas -> [Ids -> Ptrs \cup {NoPtr}]]
    BY Zenon DEF Structure, TypeOK
  <2>2. CASE UNCHANGED chunkobj_tree
    BY <2>1, <2>2, Zenon
  <2>3. ASSUME NEW v \in Vmas, NEW id \in Ids, NEW q \in {p, NoPtr},
               chunkobj_tree' = [chunkobj_tree EXCEPT ![v][id] = q]
        PROVE  /\ chunkobj_tree' \in [Vmas -> [Ids -> Ptrs \cup {NoPtr}]]
               /\ \A u \in Vmas, d \in Ids :
                    chunkobj_tree'[u][d] = IF u = v /\ d = id THEN q ELSE chunkobj_tree[u][d]
    BY <2>1, <2>3, Zenon
  <2> QED
    BY <2>2, <2>3
<1>4. TypeOK'
  BY <1>1, <1>2, NoRqstType, Zenon DEF Structure, TypeOK, KeepsFilled, RqstType, Pcs
<1>5. \A v \in Vmas, id \in Ids : chunkobj_tree'[v][id] # NoPtr =>
            /\ chunkobj_tree'[v][id] \in Ptrs
            /\ Filled(At(chunkobj_tree'[v][id]))
  BY <1>2, TreeEntries, Zenon
<1>6. ProcFile' /\ VmaIds' /\ MetaFiles' /\ Trees'
  BY <1>1, <1>5, QuietStep, Zenon
<1>7. Call'
  BY Zenon DEF Call, RecordSteps, ChunkSteps
<1> QED
  BY <1>4, <1>6, <1>7, Zenon DEF Structure

\* The second store of nv_delete, and the removal of the key, keep the
\* invariant.
LEMMA invalidate_chunkStructure == Structure /\ invalidate_chunk => Structure'
<1> SUFFICES ASSUME Structure, invalidate_chunk PROVE Structure'
  BY Zenon
<1> DEFINE p == rq.del
           id == At(rq.del).chunkid
           v == find_vmaid_from_chunk(id)
<1>1. /\ pc = "invalidate" /\ pc' = "idle" /\ rq' = NoRqst
      /\ Store(p, [At(p) EXCEPT !.valid = FALSE])
      /\ IF v = 0
         THEN UNCHANGED <<chunkobj_tree, objnamemap>>
         ELSE /\ chunkobj_tree' = [chunkobj_tree EXCEPT ![v][id] = NoPtr]
              /\ objnamemap' = objnamemap \ {rq.name}
      /\ UNCHANGED <<proc, mmapobj, mmapobj_tree, chunk_tree_init, map_tree>>
  BY Zenon DEF invalidate_chunk, objnamemap_delete
<1>2. p \in Ptrs /\ Filled(At(p)) /\ id \in Ids
  BY <1>1, ZenonT(30) DEF Structure, Call, TypeOK, Filled
<1> HIDE DEF id
<1>3. v # 0 => v \in Vmas
  BY FindVma, Zenon
<1> HIDE DEF v, p
<1>4. At(p) \in ChunkobjType
  BY <1>2, AtType, Zenon DEF Structure
<1>5. PICK c \in ChunkobjType : c = [At(p) EXCEPT !.valid = FALSE] /\ Filled(c)
  BY <1>2, <1>4, FieldUpdate, Zenon
<1>6. Store(p, c)
  BY <1>1, <1>5, Zenon
<1>7. objnamemap' \subseteq Names
  BY <1>1, Zenon DEF Structure, TypeOK
<1>8. \/ UNCHANGED chunkobj_tree
      \/ \E u \in Vmas, d \in Ids, q \in {p, NoPtr} :
           chunkobj_tree' = [chunkobj_tree EXCEPT ![u][d] = q]
  BY <1>1, <1>2, <1>3, Zenon
<1> QED
  BY <1>1, <1>2, <1>5, <1>6, <1>7, <1>8, EndStep, Zenon

\* The first store of nv_rename keeps the invariant.
LEMMA nv_renameStructure ==
    ASSUME Structure, NEW src \in Names, NEW dest \in Names, nv_rename(src, dest)
    PROVE  Structure'
<1> DEFINE p == get_chunk(gen_id_from_str[src])
           v == find_vmaid_from_chunk(At(p).chunkid)
           id == gen_id_from_str[dest]
<1>1. /\ pc = "idle" /\ pc' = "rename" /\ p # NoPtr /\ v # 0
      /\ Store(p, [At(p) EXCEPT !.chunkid = id])
      /\ rq' = [NoRqst EXCEPT !.name = src, !.id = id, !.dest = dest, !.vma = v, !.old = p]
      /\ UNCHANGED <<proc, mmapobj, index>>
  BY Zenon DEF nv_rename
<1>2. p \in Ptrs /\ Filled(At(p)) /\ id \in Ids
  BY <1>1, GetChunkFilled, Consts, Zenon DEF Structure
<1> HIDE DEF p, id
<1>3. v \in Vmas /\ mmapobj_tree[v] # 0 /\ chunk_tree_init[v]
  BY <1>1, FindVma, Zenon
<1> HIDE DEF v
<1>4. /\ rq' \in RqstType
      /\ rq'.id = id /\ rq'.dest = dest /\ rq'.vma = v /\ rq'.old = p
  <2>1. rq' = [name |-> src, id |-> id, dest |-> dest, vma |-> v,
               old |-> p, new |-> NoPtr, del |-> NoPtr]
    BY <1>1, Zenon DEF NoRqst
  <2>2. v \in 0 .. MaxMmaps
    BY <1>3, Consts DEF Vmas
  <2> QED
    BY <1>2, <2>1, <2>2, Zenon DEF RqstType
<1>5. At(p) \in ChunkobjType
  BY <1>2, AtType, Zenon DEF Structure
<1>6. PICK c \in ChunkobjType : c = [At(p) EXCEPT !.chunkid = id] /\ Filled(c)
  BY <1>2, <1>5, FieldUpdate, Zenon
<1>7. Store(p, c)
  BY <1>1, <1>6, Zenon
<1>8. KeepsFilled /\ TypeOK' /\ ProcFile' /\ VmaIds' /\ MetaFiles' /\ Trees'
  BY <1>1, <1>2, <1>4, <1>6, <1>7, StoreStep, Zenon DEF Pcs
<1>9. Call'
  <2>1. Filled(At(rq.old))' /\ rq'.old # NoPtr
    BY <1>2, <1>4, <1>8, FilledKept, NoPtrLemma, Zenon DEF At
  <2>2. mmapobj_tree' = mmapobj_tree /\ chunk_tree_init' = chunk_tree_init
    BY <1>1, Zenon DEF index
  <2> QED
    BY <1>1, <1>2, <1>3, <1>4, <2>1, <2>2, Zenon DEF Call, RecordSteps, ChunkSteps
<1> QED
  BY <1>8, <1>9, Zenon DEF Structure

\* The rest of nv_rename keeps the invariant.
LEMMA rename_updateStructure == Structure /\ rename_update => Structure'
<1> SUFFICES ASSUME Structure, rename_update PROVE Structure'
  BY Zenon
<1> DEFINE p == rq.old
<1>1. /\ pc = "rename" /\ pc' = "idle" /\ rq' = NoRqst
      /\ Store(p, [At(p) EXCEPT !.objname = rq.dest, !.valid = TRUE])
      /\ chunkobj_tree' = [chunkobj_tree EXCEPT ![rq.vma][rq.id] = p]
      /\ objnamemap' = (objnamemap \ {rq.name}) \cup {rq.dest}
      /\ UNCHANGED <<proc, mmapobj, mmapobj_tree, chunk_tree_init, map_tree>>
  BY Zenon DEF rename_update, objnamemap_insert, objnamemap_delete
<1>2. /\ p \in Ptrs /\ Filled(At(p)) /\ rq.dest \in Names /\ rq.id \in Ids
      /\ rq.vma \in Vmas
  BY <1>1, Consts DEF Structure, Call, TypeOK, Vmas
<1> HIDE DEF p
<1>3. At(p) \in ChunkobjType
  BY <1>2, AtType, Zenon DEF Structure
<1>4. PICK c \in ChunkobjType :
         c = [At(p) EXCEPT !.objname = rq.dest, !.valid = TRUE] /\ Filled(c)
  BY <1>2, <1>3, FieldUpdate, Zenon
<1>5. Store(p, c)
  BY <1>1, <1>4, Zenon
<1>6. objnamemap' \subseteq Names
  BY <1>1, <1>2, Zenon DEF Structure, TypeOK
<1>7. \E u \in Vmas, d \in Ids, q \in {p, NoPtr} :
           chunkobj_tree' = [chunkobj_tree EXCEPT ![u][d] = q]
  BY <1>1, <1>2, Zenon
<1> QED
  BY <1>1, <1>2, <1>4, <1>5, <1>6, <1>7, EndStep, Zenon

\* nv_commit_len keeps the invariant.
LEMMA nv_commit_lenStructure ==
    ASSUME Structure, NEW n \in Names, nv_commit_len(n)
    PROVE  Structure'
<1> DEFINE p == get_chunk(gen_id_from_str[n])
<1>1. /\ pc = "idle" /\ p # NoPtr
      /\ Store(p, [At(p) EXCEPT !.commitsz = 1])
      /\ UNCHANGED <<proc, mmapobj, index, pc, rq>>
  BY Zenon DEF nv_commit_len
<1>2. p \in Ptrs /\ Filled(At(p))
  BY <1>1, GetChunkFilled, Consts, Zenon DEF Structure
<1> HIDE DEF p
<1>3. At(p) \in ChunkobjType /\ rq' \in RqstType
  BY <1>1, <1>2, AtType, ZenonT(30) DEF Structure, TypeOK, RqstType
<1>4. PICK c \in ChunkobjType : c = [At(p) EXCEPT !.commitsz = 1] /\ Filled(c)
  BY <1>2, <1>3, FieldUpdate, Zenon
<1>5. Store(p, c)
  BY <1>1, <1>4, Zenon
<1>6. TypeOK' /\ ProcFile' /\ VmaIds' /\ MetaFiles' /\ Trees'
  BY <1>1, <1>2, <1>3, <1>4, <1>5, StoreStep, Zenon DEF Pcs
<1>7. Call'
  BY <1>1, Zenon DEF Call, RecordSteps, ChunkSteps
<1> QED
  BY <1>6, <1>7, Zenon DEF Structure

-----------------------------------------------------------------------------
(* Restart *)

\* load_process puts under v an mmapobj slot that carries v and is counted.
LEMMA LoadedMmapobjLemma ==
    ASSUME TypeOK, NEW v
    PROVE  LET i == LoadedMmapobj(v)
           IN  /\ i \in 0 .. proc.pesist_mmaps
               /\ i # 0 => i \in Mslots /\ mmapobj[i].vma_id = v
<1> DEFINE S == {i \in 1 .. proc.pesist_mmaps : mmapobj[i].vma_id = v}
<1>1. proc.pesist_mmaps \in 0 .. MaxMmapobjs
  BY Zenon DEF TypeOK
<1>2. S \subseteq 1 .. proc.pesist_mmaps /\ proc.pesist_mmaps \in Nat
  BY <1>1, Consts
<1>3. MaxOr0(S) \in 0 .. proc.pesist_mmaps /\ (MaxOr0(S) # 0 => MaxOr0(S) \in S)
  BY <1>2, MaxOr0Lemma, Zenon
<1>4. LoadedMmapobj(v) = MaxOr0(S)
  BY Zenon DEF LoadedMmapobj
<1>5. 1 .. proc.pesist_mmaps \subseteq Mslots
  BY <1>1, Consts DEF Mslots
<1>6. ASSUME MaxOr0(S) # 0
      PROVE  MaxOr0(S) \in Mslots /\ mmapobj[MaxOr0(S)].vma_id = v
  BY <1>3, <1>5, <1>6, Zenon
<1> HIDE DEF S
<1> QED
  BY <1>3, <1>4, <1>6, Zenon

\* A slot restore_chunk_objs inserts was written.
LEMMA LoadedSlotsLemma ==
    ASSUME Structure, NEW v \in Vmas, NEW j \in LoadedSlots(v)
    PROVE  j \in Cslots /\ Filled(chunkobj[v][j]) /\ chunkobj[v][j].valid
<1> DEFINE i == LoadedMmapobj(v)
<1>1. i # 0 /\ j \in 1 .. mmapobj[i].numchunks /\ chunkobj[v][j].valid
  BY Zenon DEF LoadedSlots
<1>2. i \in Mslots /\ mmapobj[i].vma_id = v
  BY <1>1, LoadedMmapobjLemma, Zenon DEF Structure
<1> HIDE DEF i
<1>3. j \in Cslots /\ j <= mmapobj[i].numchunks /\ v # 0
  BY <1>1, <1>2, MmapobjTypes, Consts DEF Structure, Cslots, Vmas
<1> QED
  BY <1>1, <1>2, <1>3, Zenon DEF Structure, MetaFiles

\* The entry restore_chunk_objs leaves under a key.
LEMMA LoadedChunkLemma ==
    ASSUME Structure, NEW v \in Vmas, NEW id, LoadedChunk(v, id) # NoPtr
    PROVE  \E j \in LoadedSlots(v) : /\ LoadedChunk(v, id) = <<v, j>>
                                     /\ chunkobj[v][j].chunkid = id
                                     /\ \A k \in LoadedSlots(v) :
                                          chunkobj[v][k].chunkid = id => k <= j
<1> DEFINE S == {k \in LoadedSlots(v) : chunkobj[v][k].chunkid = id}
<1>1. S \subseteq 1 .. MaxChunks /\ MaxChunks \in Nat
  BY LoadedSlotsLemma, Consts, Zenon DEF Cslots
<1>2. MaxOr0(S) # 0 /\ LoadedChunk(v, id) = <<v, MaxOr0(S)>>
  BY Zenon DEF LoadedChunk
<1>3. MaxOr0(S) \in S /\ \A k \in S : k <= MaxOr0(S)
  BY <1>1, <1>2, MaxOr0Lemma, Zenon
<1> QED
  BY <1>2, <1>3, Zenon

\* What load_process rebuilds from the files satisfies the invariant.
LEMMA nv_initializeStructure == Structure /\ nv_initialize => Structure'
<1> SUFFICES ASSUME Structure, nv_initialize PROVE Structure'
  BY Zenon
<1>1. /\ pc = "down" /\ pc' = "idle"
      /\ mmapobj_tree' = [v \in Vmas |-> LoadedMmapobj(v)]
      /\ chunk_tree_init' =
           [v \in Vmas |-> LoadedMmapobj(v) # 0 /\ mmapobj[LoadedMmapobj(v)].numchunks > 0]
      /\ chunkobj_tree' = [v \in Vmas |-> [id \in Ids |-> LoadedChunk(v, id)]]
      /\ objnamemap' =
           {At(p).objname : p \in {q \in Ptrs : q[2] \in LoadedSlots(q[1])}}
      /\ proc' = proc /\ mmapobj' = mmapobj /\ chunkobj' = chunkobj
      /\ map_tree' = map_tree /\ rq' = rq
  BY Zenon DEF nv_initialize, load_process, persistent
<1>2. map_tree = {}
  BY <1>1, Zenon DEF Structure, VmaIds
<1>3. \A v \in Vmas : LoadedMmapobj(v) \in 0 .. MaxMmapobjs
  <2>1. TypeOK
    BY Zenon DEF Structure
  <2>2. proc.pesist_mmaps \in 0 .. MaxMmapobjs
    BY <2>1, ProcTypes, Zenon
  <2>3. \A v \in Vmas : LoadedMmapobj(v) \in 0 .. proc.pesist_mmaps
    BY <2>1, LoadedMmapobjLemma, Zenon
  <2> QED
    BY <2>2, <2>3, Consts
<1>4. ASSUME NEW v \in Vmas, NEW id \in Ids, LoadedChunk(v, id) # NoPtr
      PROVE  LoadedChunk(v, id) \in Ptrs /\ Filled(At(LoadedChunk(v, id)))
  <2>1. PICK j \in LoadedSlots(v) : LoadedChunk(v, id) = <<v, j>>
    BY <1>4, LoadedChunkLemma, Zenon
  <2>2. j \in Cslots /\ Filled(chunkobj[v][j])
    BY LoadedSlotsLemma, Zenon
  <2>3. <<v, j>> \in Ptrs /\ At(<<v, j>>) = chunkobj[v][j]
    BY <2>2, Zenon DEF Ptrs, At
  <2> QED
    BY <2>1, <2>2, <2>3, Zenon
<1>5. objnamemap' \subseteq Names
  <2> SUFFICES ASSUME NEW p \in Ptrs, p[2] \in LoadedSlots(p[1])
               PROVE  At(p).objname \in Names
    BY <1>1, Zenon
  <2>1. p[1] \in Vmas
    BY Zenon DEF Ptrs
  <2> QED
    BY <2>1, LoadedSlotsLemma, Zenon DEF At, Filled
<1>6. TypeOK'
  <2>1. mmapobj_tree' \in [Vmas -> 0 .. MaxMmapobjs]
    BY <1>1, <1>3, Zenon
  <2>2. chunk_tree_init' \in [Vmas -> BOOLEAN]
    BY <1>1, Zenon
  <2>3. chunkobj_tree' \in [Vmas -> [Ids -> Ptrs \cup {NoPtr}]]
    BY <1>1, <1>4, Zenon
  <2> QED
    BY <1>1, <1>5, <2>1, <2>2, <2>3, ZenonT(30) DEF Structure, TypeOK, Pcs
<1>7. ProcFile' /\ VmaIds' /\ MetaFiles'
  BY <1>1, <1>2, ZenonT(30) DEF Structure, ProcFile, PendingMmapobj, VmaIds, VmaIdsUnique, MetaFiles
<1>8. Trees'
  <2>1. ASSUME NEW v \in Vmas, mmapobj_tree'[v] # 0
        PROVE  mmapobj_tree'[v] <= proc'.meta /\ mmapobj'[mmapobj_tree'[v]].vma_id = v
    <3>1. mmapobj_tree'[v] = LoadedMmapobj(v)
      BY <1>1, Zenon
    <3>2. LoadedMmapobj(v) \in 0 .. proc.pesist_mmaps /\ mmapobj[LoadedMmapobj(v)].vma_id = v
      BY <2>1, <3>1, LoadedMmapobjLemma, Zenon DEF Structure
    <3>3. proc.pesist_mmaps <= proc.meta /\ proc.pesist_mmaps \in Nat /\ proc.meta \in Nat
      <4>1. PendingMmapobj = 0
        BY <1>1, Zenon DEF PendingMmapobj
      <4>2. proc.pesist_mmaps + PendingMmapobj <= proc.meta
        BY Zenon DEF Structure, ProcFile
      <4>3. proc.pesist_mmaps \in Nat /\ proc.meta \in Nat
        BY ProcTypes, Zenon DEF Structure
      <4> QED
        BY <4>1, <4>2, <4>3
    <3>4. LoadedMmapobj(v) <= proc.meta
      BY <3>2, <3>3
    <3>5. proc' = proc /\ mmapobj' = mmapobj
      BY <1>1, Zenon
    <3> QED
      BY <3>1, <3>2, <3>4, <3>5, Zenon
  <2>2. ASSUME NEW v \in Vmas, NEW id \in Ids, chunkobj_tree'[v][id] # NoPtr
        PROVE  Filled(At(chunkobj_tree[v][id]))'
    <3>1. chunkobj_tree'[v][id] = LoadedChunk(v, id)
      BY <1>1, Zenon
    <3> QED
      BY <1>1, <1>4, <2>2, <3>1, Zenon DEF At
  <2> QED
    BY <1>1, <1>2, <2>1, <2>2, Zenon DEF Trees
<1>9. Call'
  BY <1>1, Zenon DEF Call, RecordSteps, ChunkSteps
<1> QED
  BY <1>6, <1>7, <1>8, <1>9, Zenon DEF Structure

-----------------------------------------------------------------------------
(* The theorems *)

\* Every step of the store keeps the invariant.
LEMMA NextStructure == Structure /\ [Next]_vars => Structure'
<1> SUFFICES ASSUME Structure, [Next]_vars PROVE Structure'
  BY Zenon
<1>1. CASE UNCHANGED vars
  <2>1. /\ proc' = proc /\ mmapobj' = mmapobj /\ chunkobj' = chunkobj
        /\ mmapobj_tree' = mmapobj_tree /\ chunk_tree_init' = chunk_tree_init
        /\ chunkobj_tree' = chunkobj_tree /\ map_tree' = map_tree
        /\ objnamemap' = objnamemap /\ pc' = pc /\ rq' = rq
    BY <1>1, Zenon DEF vars, persistent, index
  <2>2. TypeOK'
    BY <2>1, Zenon DEF Structure, TypeOK
  <2>3. ProcFile'
    BY <2>1, Zenon DEF Structure, ProcFile, PendingMmapobj
  <2>4. VmaIds'
    BY <2>1, Zenon DEF Structure, VmaIds, VmaIdsUnique
  <2>5. MetaFiles'
    BY <2>1, Zenon DEF Structure, MetaFiles
  <2>6. Trees'
    BY <2>1, ZenonT(30) DEF Structure, Trees, PendingChunk, At
  <2>7. Call'
    BY <2>1, ZenonT(60) DEF Structure, Call, At
  <2> QED
    BY <2>2, <2>3, <2>4, <2>5, <2>6, <2>7, Zenon DEF Structure
<1>2. ASSUME NEW n \in Names, NEW v \in Vmas, nv_record_chunk(n, v)
      PROVE  Structure'
  BY <1>2, nv_record_chunkStructure, Zenon
<1>3. ASSUME NEW n \in Names, nv_delete(n) \/ nv_commit_len(n)
      PROVE  Structure'
  BY <1>3, nv_deleteStructure, nv_commit_lenStructure, Zenon
<1>4. ASSUME NEW src \in Names, NEW dest \in Names, nv_rename(src, dest)
      PROVE  Structure'
  BY <1>4, nv_renameStructure, Zenon
<1>5. CASE nv_initialize \/ Crash \/ _mmap \/ create_mmapobj \/ fill_mmapobj
  BY <1>5, nv_initializeStructure, CrashStructure, _mmapStructure,
     create_mmapobjStructure, fill_mmapobjStructure, Zenon
<1>6. CASE add_mmapobj_to_proc \/ create_chunkobj \/ add_chunkobj \/ count_chunkobj
  BY <1>6, add_mmapobj_to_procStructure, create_chunkobjStructure,
     add_chunkobjStructure, count_chunkobjStructure, Zenon
<1>7. CASE copy_oldchunk \/ delete_oldchunk \/ invalidate_chunk \/ rename_update
  BY <1>7, copy_oldchunkStructure, delete_oldchunkStructure,
     invalidate_chunkStructure, rename_updateStructure, Zenon
<1> QED
  BY <1>1, <1>2, <1>3, <1>4, <1>5, <1>6, <1>7, Zenon DEF Next

\* Counters, files, trees and the call in progress agree in every reachable
\* state, for every number of crashes at any point.
THEOREM StructureInvariant == Spec => []Structure
<1>1. Init => Structure
  BY InitStructure, Zenon
<1>2. Structure /\ [Next]_vars => Structure'
  BY NextStructure, Zenon
<1> QED
  BY <1>1, <1>2, PTL DEF Spec

\* Every piece of state keeps its type.
THEOREM TypeCorrect == Spec => []TypeOK
<1>1. Structure => TypeOK
  BY Zenon DEF Structure
<1> QED
  BY <1>1, StructureInvariant, PTL

\* No two mmapobjs share a vma_id, hence a metadata file.
THEOREM VmaIdsUniqueCorrect == Spec => []VmaIdsUnique
<1>1. Structure => VmaIdsUnique
  BY Zenon DEF Structure, VmaIds
<1> QED
  BY <1>1, StructureInvariant, PTL

\* restore_chunk_objs only ever reads slots that were completely written.
THEOREM LoadedSlotsFilledCorrect == Spec => []LoadedSlotsFilled
<1>1. Structure => LoadedSlotsFilled
  <2> SUFFICES ASSUME Structure, NEW i \in Mslots, mmapobj[i].vma_id # 0,
                      NEW j \in 1 .. mmapobj[i].numchunks
               PROVE  Filled(chunkobj[mmapobj[i].vma_id][j])
    BY Zenon DEF LoadedSlotsFilled, Filled
  <2>1. j \in Cslots /\ j <= mmapobj[i].numchunks
    BY MmapobjTypes, Consts DEF Structure, Cslots
  <2> QED
    BY <2>1, Zenon DEF Structure, MetaFiles
<1> QED
  BY <1>1, StructureInvariant, PTL

\* The slots that create_mmapobj and update_chunkobj write to are zero.
THEOREM FreshSlotsCorrect == Spec => []FreshSlots
<1>1. Structure => FreshSlots
  <2> SUFFICES ASSUME Structure PROVE FreshSlots
    BY Zenon
  <2>1. ASSUME pc = "fill_mmapobj" PROVE mmapobj[proc.meta] = ZeroMmapobj
    <3>1. proc.meta \in Mslots
      <4>1. TypeOK /\ proc.pesist_mmaps + 1 <= proc.meta
        BY <2>1, Zenon DEF Structure, ProcFile, PendingMmapobj
      <4>2. proc.pesist_mmaps \in 0 .. MaxMmapobjs /\ proc.meta \in 0 .. MaxMmapobjs
        BY <4>1, ProcTypes, Zenon
      <4> QED
        BY <4>1, <4>2, Consts DEF Mslots
    <3> QED
      BY <2>1, <3>1, Zenon DEF Structure, ProcFile
  <2>2. ASSUME pc = "fill_chunkobj" PROVE chunkobj[rq.new[1]][rq.new[2]] = ZeroChunk
    BY <2>2, ZenonT(30) DEF Structure, Call, At
  <2> QED
    BY <2>1, <2>2, Zenon DEF FreshSlots
<1> QED
  BY <1>1, StructureInvariant, PTL

\* add_chunkobj only ever gets an mmapobj whose tree this run has made.
THEOREM TreeReadyCorrect == Spec => []TreeReady
<1>1. Structure => TreeReady
  <2> SUFFICES ASSUME Structure PROVE TreeReady
    BY Zenon
  <2>1. ASSUME pc \in ChunkSteps
        PROVE  mmapobj_tree[rq.vma] # 0 /\ chunk_tree_init[rq.vma]
    BY <2>1, RqstMmapobj, SMTT(30) DEF Mslots
  <2> QED
    BY <2>1, ZenonT(30) DEF TreeReady, ChunkSteps, Structure, Call
<1> QED
  BY <1>1, StructureInvariant, PTL

\* A step leaves the mmapobjs of earlier runs alone.
LEMMA FrozenStep ==
    ASSUME Structure, [Next]_vars, NEW i \in Mslots,
           mmapobj[i].vma_id # 0, mmapobj[i].vma_id \notin map_tree
    PROVE  mmapobj'[i] = mmapobj[i]
<1>1. CASE fill_mmapobj
  <2>1. mmapobj[proc.meta] = ZeroMmapobj \/ proc.meta \notin Mslots
    BY <1>1, Zenon DEF fill_mmapobj, Structure, ProcFile
  <2>2. proc.meta # i
    <3>1. ZeroMmapobj.vma_id = 0
      BY Zenon DEF ZeroMmapobj
    <3> QED
      BY <2>1, <3>1, Zenon
  <2> QED
    BY <1>1, <2>2, ZenonT(30) DEF fill_mmapobj, Structure, TypeOK
<1>2. CASE create_chunkobj \/ count_chunkobj
  <2>1. pc \in ChunkSteps
    BY <1>2, Zenon DEF create_chunkobj, count_chunkobj, ChunkSteps
  <2>2. mmapobj_tree[rq.vma] # i
    BY <2>1, RqstMmapobj, Zenon
  <2> QED
    BY <1>2, <2>2, Zenon DEF create_chunkobj, count_chunkobj, Structure, TypeOK
<1>3. CASE UNCHANGED mmapobj
  BY <1>3, Zenon
<1> QED
  BY <1>1, <1>2, <1>3, ZenonT(30) DEF Next, vars, persistent, nv_initialize, load_process, Crash, _mmap,
     nv_record_chunk, create_mmapobj, add_mmapobj_to_proc, add_chunkobj, copy_oldchunk,
     nv_delete, ClearCommit, delete_oldchunk, invalidate_chunk, nv_rename,
     rename_update, nv_commit_len

\* After a restart the regions of earlier runs get no new chunks.
THEOREM OldMmapobjsFrozenCorrect == Spec => OldMmapobjsFrozen
<1>1. Structure /\ [Next]_vars =>
        [\A i \in Mslots :
           mmapobj[i].vma_id # 0 /\ mmapobj[i].vma_id \notin map_tree
              => mmapobj'[i] = mmapobj[i]]_vars
  BY FrozenStep, Zenon
<1> QED
  BY <1>1, StructureInvariant, PTL DEF Spec, OldMmapobjsFrozen
=============================================================================
