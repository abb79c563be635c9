---------------------------- MODULE PagingProofs ----------------------------
(***************************************************************************)
(* Proofs about vmem_init(), the page tables and the frame bitmap, for     *)
(* every number of pages, table size and place of the heap.                *)
(***************************************************************************)
EXTENDS Paging, TLAPS

(***************************************************************************)
(* Where vmem_get() finds a page's entry                                   *)
(***************************************************************************)

(* Division with remainder.                                                *)
LEMMA DivMod ==
  ASSUME NEW v \in Nat, NEW n \in Nat \ {0}
  PROVE  /\ v \div n \in Nat /\ v % n \in 0 .. (n - 1)
         /\ v = n * (v \div n) + (v % n)
  OBVIOUS

LEMMA Multiply ==
  ASSUME NEW n \in Nat, NEW a \in Nat, NEW b \in Nat, a >= b
  PROVE  n * a >= n * b
  OBVIOUS

(* A page's directory index and its offset are within their tables.        *)
LEMMA TableInDir ==
  ASSUME NEW v \in Pages
  PROVE  TableOf(v) \in 0 .. (DirSize - 1) /\ OffsetOf(v) \in Offsets
<1>1. v \in Nat /\ v < DirSize * TableSize
  BY SizeAssumption DEF Pages
<1>2. /\ v \div TableSize \in Nat /\ v % TableSize \in 0 .. (TableSize - 1)
      /\ v = TableSize * (v \div TableSize) + (v % TableSize)
  BY <1>1, DivMod, SizeAssumption
<1>3. v \div TableSize < DirSize
  <2> SUFFICES ASSUME v \div TableSize >= DirSize PROVE FALSE
    BY <1>2, SizeAssumption
  <2>1. TableSize * (v \div TableSize) >= TableSize * DirSize
    BY <1>2, SizeAssumption, Multiply
  <2> QED BY <1>1, <1>2, <2>1, SizeAssumption
<1> QED BY <1>2, <1>3, SizeAssumption DEF TableOf, OffsetOf, Offsets

(* No two pages share an entry.                                            *)
LEMMA SlotUnique ==
  ASSUME NEW v \in Pages, NEW w \in Pages,
         TableOf(v) = TableOf(w), OffsetOf(v) = OffsetOf(w)
  PROVE  v = w
<1>1. v \in Nat /\ w \in Nat
  BY SizeAssumption DEF Pages
<1> QED BY <1>1, DivMod, SizeAssumption DEF TableOf, OffsetOf

(* What is mapped at boot is a part of the address space.                  *)
LEMMA MappedInPages ==
  /\ 0 .. (NPages - 1) \subseteq Pages
  /\ NULL \in Pages
<1>1. DirSize * TableSize > 0
  BY SizeAssumption
<1> QED BY <1>1, SizeAssumption DEF Pages, NULL

(* While the loop has used the frames below n, the next one is n.          *)
LEMMA GetFreeNext ==
  ASSUME NEW n \in Nat, n < NPages, frame_set = 0 .. (n - 1),
         NEW f \in Pages, pmem_get_free(f)
  PROVE  f = n
<1> DEFINE free == (0 .. (NPages - 1)) \ frame_set
<1>1. n \in free /\ \A g \in free : g \in Nat /\ n <= g
  BY SizeAssumption
<1>2. f \in free /\ \A g \in free : f <= g
  BY <1>1 DEF pmem_get_free
<1> HIDE DEF free
<1> QED BY <1>1, <1>2

(***************************************************************************)
(* The inductive invariant                                                 *)
(***************************************************************************)

(* The directory and its tables are pages of their own.                    *)
TablesApart ==
  \A s, t \in 0 .. (DirSize - 1) :
    dir[s] # NULL => dir[s] # cr3 /\ (dir[s] = dir[t] => s = t)

(* The heap's pages in use are the directory and the tables, and while     *)
(* booting, a page not in use is blank.                                    *)
PagesUsed ==
  /\ cr3 # NULL => cr3 \in taken
  /\ cr3 = NULL => taken = {}
  /\ \A t \in 0 .. (DirSize - 1) : dir[t] # NULL => dir[t] \in taken
  /\ on = 0 => \A p \in HeapPages \ taken : \A x \in Offsets : mem[p][x] = Empty

Ident(v) == [addr |-> Bits(v), flags |-> {"present", "writable"}]

(* vmem_init()'s loop: the first i pages are mapped to themselves, but for *)
(* those that callers map again, and until paging is on they are all that  *)
(* is mapped.                                                              *)
LoopInv ==
  /\ cr3 = NULL => i = 0
  /\ on = 1 => i = NPages /\ cr3 # NULL
  /\ \A v \in 0 .. (i - 1) : on = 0 \/ v \notin Clients => Entry(v) = Ident(v)
  /\ on = 0 => /\ frame_set = 0 .. (i - 1)
               /\ \A v \in Pages : v >= i => Entry(v) = Empty

PagingInv == TypeOK /\ TablesApart /\ PagesUsed /\ LoopInv

(* What the bitmap and the entries say of the frames obtained: the two     *)
(* properties need each other.                                             *)
OwnerInv == FramesAreMapped /\ FramesShared

(* Every page that was mapped keeps its entry.                             *)
OthersKept(v) == \A w \in Pages : w # v /\ Present(w) => Entry(w)' = Entry(w)

(***************************************************************************)
(* pmem_mapaddr() on any page                                              *)
(***************************************************************************)

LEMMA EmptyAbsent ==
  ASSUME NEW v, Entry(v) = Empty
  PROVE  ~ Present(v) /\ Entry(v).addr = {}
BY DEF Present, Empty

(* The entry of v gains the frame and the flags over what its table held,  *)
(* and the others keep theirs, be they in the same table, in another or in *)
(* none, unless a table that was not there brings its own.                 *)
LEMMA MapOne ==
  ASSUME TypeOK, TablesApart, PagesUsed, NEW v \in Pages,
         NEW p \in HeapPages, vmem_get(v, p),
         NEW f \in Pages, NEW flags \in SUBSET Flags,
         OrInto(v, p, f, flags),
         dir' = [dir EXCEPT ![TableOf(v)] = p]
  PROVE  /\ Entry(v)' = [addr  |-> mem[p][OffsetOf(v)].addr \cup Bits(f),
                         flags |-> mem[p][OffsetOf(v)].flags \cup {"present"} \cup flags]
         /\ Entry(v) = mem[p][OffsetOf(v)] \/ (Entry(v) = Empty /\ p \notin taken)
         /\ \A w \in Pages : w # v =>
              \/ Entry(w)' = Entry(w)
              \/ Entry(w) = Empty /\ p \notin taken /\ Entry(w)' = mem[p][OffsetOf(w)]
<1>1. /\ TableOf(v) \in 0 .. (DirSize - 1) /\ OffsetOf(v) \in Offsets
      /\ dir \in [0 .. (DirSize - 1) -> HeapPages \cup {NULL}]
      /\ NULL \notin HeapPages
  BY TableInDir, HeapAssumption DEF TypeOK, NULL
<1>2. Entry(v) = mem[p][OffsetOf(v)] \/ (Entry(v) = Empty /\ p \notin taken)
  BY <1>1 DEF vmem_get, Entry
<1>3. Entry(v)' = mem'[p][OffsetOf(v)]
  BY <1>1 DEF Entry
<1>4. mem'[p][OffsetOf(v)]
        = [addr |-> mem[p][OffsetOf(v)].addr \cup Bits(f),
           flags |-> mem[p][OffsetOf(v)].flags \cup {"present"} \cup flags]
  BY <1>1 DEF OrInto
<1>5. ASSUME NEW w \in Pages, w # v
      PROVE  \/ Entry(w)' = Entry(w)
             \/ Entry(w) = Empty /\ p \notin taken /\ Entry(w)' = mem[p][OffsetOf(w)]
  <2>1. TableOf(w) \in 0 .. (DirSize - 1) /\ OffsetOf(w) \in Offsets
    BY TableInDir
  <2>2. CASE TableOf(w) = TableOf(v)
    <3>1. OffsetOf(w) # OffsetOf(v)
      BY <1>5, <2>2, SlotUnique
    <3>2. Entry(w)' = mem[p][OffsetOf(w)]
      BY <1>1, <2>1, <2>2, <3>1 DEF Entry, OrInto
    <3>3. Entry(w) = mem[p][OffsetOf(w)] \/ (Entry(w) = Empty /\ p \notin taken)
      BY <1>1, <2>1, <2>2 DEF Entry, vmem_get
    <3> QED BY <3>2, <3>3
  <2>3. CASE TableOf(w) # TableOf(v)
    <3>1. dir'[TableOf(w)] = dir[TableOf(w)]
      BY <1>1, <2>1, <2>3
    <3>2. CASE dir[TableOf(w)] = NULL
      BY <3>1, <3>2 DEF Entry
    <3>3. CASE dir[TableOf(w)] # NULL
      <4>1. dir[TableOf(w)] # p
        BY <1>1, <2>1, <2>3, <3>3 DEF vmem_get, PagesUsed, TablesApart
      <4>2. dir[TableOf(w)] \in HeapPages
        BY <1>1, <2>1, <3>3
      <4>3. mem'[dir[TableOf(w)]] = mem[dir[TableOf(w)]]
        BY <4>1, <4>2 DEF OrInto
      <4> QED BY <3>1, <3>3, <4>3 DEF Entry
    <3> QED BY <3>2, <3>3
  <2> QED BY <2>2, <2>3
<1> QED BY <1>2, <1>3, <1>4, <1>5

(* What is mapped stays mapped, and only v's entry changes.                *)
LEMMA MapKeeps ==
  ASSUME TypeOK, TablesApart, PagesUsed, NEW v \in Pages,
         NEW p \in HeapPages, vmem_get(v, p),
         NEW f \in Pages, NEW flags \in SUBSET Flags,
         OrInto(v, p, f, flags),
         dir' = [dir EXCEPT ![TableOf(v)] = p]
  PROVE  /\ Present(v)' /\ Bits(f) \subseteq Entry(v)'.addr
         /\ Entry(v).addr \subseteq Entry(v)'.addr
         /\ OthersKept(v)
<1>1. /\ Entry(v)' = [addr  |-> mem[p][OffsetOf(v)].addr \cup Bits(f),
                      flags |-> mem[p][OffsetOf(v)].flags \cup {"present"} \cup flags]
      /\ Entry(v) = mem[p][OffsetOf(v)] \/ (Entry(v) = Empty /\ p \notin taken)
      /\ \A w \in Pages : w # v =>
           \/ Entry(w)' = Entry(w)
           \/ Entry(w) = Empty /\ p \notin taken /\ Entry(w)' = mem[p][OffsetOf(w)]
  BY MapOne
<1>2. Present(v)' /\ Bits(f) \subseteq Entry(v)'.addr
  BY <1>1 DEF Present
<1>3. Entry(v).addr \subseteq Entry(v)'.addr
  <2>1. CASE Entry(v) = Empty
    BY <2>1, EmptyAbsent
  <2>2. CASE Entry(v) = mem[p][OffsetOf(v)]
    BY <1>1, <2>2
  <2> QED BY <1>1, <2>1, <2>2
<1>4. OthersKept(v)
  <2> SUFFICES ASSUME NEW w \in Pages, w # v, Present(w) PROVE Entry(w)' = Entry(w)
    BY DEF OthersKept
  <2>1. Entry(w) # Empty
    BY EmptyAbsent
  <2> QED BY <1>1, <2>1
<1> QED BY <1>2, <1>3, <1>4

(* The tables stay apart, and the pages in use accounted for.              *)
LEMMA MapTables ==
  ASSUME TypeOK, TablesApart, PagesUsed, cr3 # NULL,
         NEW v \in Pages,
         NEW p \in HeapPages, vmem_get(v, p),
         NEW f \in Pages, NEW flags \in SUBSET Flags,
         OrInto(v, p, f, flags), frame_set' = frame_set \cup {f},
         NEW phys, Obtain(v, phys, f),
         dir' = [dir EXCEPT ![TableOf(v)] = p],
         taken' = taken \cup {p}, UNCHANGED <<cr3, on>>
  PROVE  /\ TablesApart' /\ PagesUsed'
         /\ frame_set' \subseteq Pages
         /\ dir' \in [0 .. (DirSize - 1) -> HeapPages \cup {NULL}]
         /\ mem' \in [HeapPages -> [Offsets -> Pte]]
         /\ taken' \subseteq HeapPages
         /\ owner' \in [Pages -> SUBSET Pages]
<1>1. /\ TableOf(v) \in 0 .. (DirSize - 1) /\ OffsetOf(v) \in Offsets
      /\ dir \in [0 .. (DirSize - 1) -> HeapPages \cup {NULL}]
      /\ NULL \notin HeapPages
  BY TableInDir, HeapAssumption DEF TypeOK, NULL
<1>2. \A s \in 0 .. (DirSize - 1) : s # TableOf(v) => dir[s] # p
  BY <1>1 DEF vmem_get, TablesApart, PagesUsed
<1>3. p # cr3
  BY <1>1 DEF vmem_get, TablesApart, PagesUsed
<1>4. TablesApart'
  BY <1>1, <1>2, <1>3 DEF TablesApart
<1>5. PagesUsed'
  <2>1. \A q \in HeapPages \ taken' : mem'[q] = mem[q]
    BY DEF OrInto
  <2> QED BY <1>1, <2>1 DEF PagesUsed
<1>6. mem' \in [HeapPages -> [Offsets -> Pte]]
  <2>1. Bits(f) \subseteq 0 .. 19 /\ {"present"} \cup flags \subseteq Flags
    BY DEF Bits, Flags
  <2>2. mem[p][OffsetOf(v)] \in Pte
    BY <1>1 DEF TypeOK
  <2>3. [addr |-> mem[p][OffsetOf(v)].addr \cup Bits(f),
         flags |-> mem[p][OffsetOf(v)].flags \cup {"present"} \cup flags] \in Pte
    BY <2>1, <2>2 DEF Pte
  <2> QED BY <2>3 DEF OrInto, TypeOK
<1>7. owner' \in [Pages -> SUBSET Pages]
  BY DEF TypeOK, Obtain
<1> QED BY <1>1, <1>4, <1>5, <1>6, <1>7 DEF TypeOK

(***************************************************************************)
(* The steps                                                               *)
(***************************************************************************)

LEMMA PagingInit == Init => PagingInv /\ OwnerInv
<1> SUFFICES ASSUME Init PROVE PagingInv /\ OwnerInv
  OBVIOUS
<1>1. Empty \in Pte
  BY DEF Empty, Pte, Flags
<1>2. TypeOK
  BY <1>1, SizeAssumption DEF Init, TypeOK
<1>3. \A v \in Pages : Entry(v) = Empty
  BY TableInDir DEF Init, Entry
<1>4. LoopInv
  BY <1>3, SizeAssumption DEF Init, LoopInv
<1>5. OwnerInv
  BY DEF Init, OwnerInv, FramesAreMapped, FramesShared
<1> QED BY <1>2, <1>4, <1>5 DEF Init, PagingInv, TablesApart, PagesUsed

(* A caller that maps a page.                                              *)
LEMMA ClientStep ==
  ASSUME PagingInv, NEW v \in Clients, NEW phys, NEW flags \in SUBSET Flags,
         Map(v, phys, flags)
  PROVE  PagingInv'
<1>1. PICK p \in HeapPages, f \in Pages :
        /\ vmem_get(v, p) /\ OrInto(v, p, f, flags)
        /\ frame_set' = frame_set \cup {f} /\ Obtain(v, phys, f)
        /\ dir' = [dir EXCEPT ![TableOf(v)] = p]
        /\ taken' = taken \cup {p}
  BY DEF Map, pmem_mapaddr, pmem_map
<1>2. v \in Pages
  BY ClientsAssumption
<1>3. on = 1 /\ cr3 # NULL /\ UNCHANGED <<cr3, i, on>>
  BY DEF Map, PagingInv, LoopInv
<1>4. TablesApart' /\ PagesUsed' /\ TypeOK'
  <2>1. /\ TablesApart' /\ PagesUsed'
        /\ frame_set' \subseteq Pages
        /\ dir' \in [0 .. (DirSize - 1) -> HeapPages \cup {NULL}]
        /\ mem' \in [HeapPages -> [Offsets -> Pte]]
        /\ taken' \subseteq HeapPages
        /\ owner' \in [Pages -> SUBSET Pages]
    BY <1>1, <1>2, <1>3, MapTables DEF PagingInv
  <2> QED BY <1>3, <2>1 DEF PagingInv, TypeOK
<1>5. OthersKept(v)
  BY <1>1, <1>2, MapKeeps DEF PagingInv
<1>6. LoopInv'
  <2>1. ASSUME NEW w \in 0 .. (i - 1), w \notin Clients
        PROVE  Entry(w)' = Ident(w)
    <3>1. w \in Pages /\ w # v /\ Entry(w) = Ident(w)
      BY <1>3, <2>1, MappedInPages DEF PagingInv, LoopInv
    <3>2. Present(w)
      BY <3>1 DEF Present, Ident
    <3> QED BY <1>5, <3>1, <3>2 DEF OthersKept
  <2> QED BY <1>3, <2>1 DEF PagingInv, LoopInv, Ident
<1> QED BY <1>4, <1>6 DEF PagingInv

(* One iteration of vmem_init()'s loop, with n the counter before it.      *)
LEMMA LoopStep ==
  ASSUME PagingInv, vmem_init_map, NEW n \in Nat, n = i
  PROVE  PagingInv'
<1> DEFINE flags == {"writable"}
<1>1. PICK p \in HeapPages, f \in Pages :
        /\ vmem_get(n, p) /\ OrInto(n, p, f, flags) /\ pmem_get_free(f)
        /\ frame_set' = frame_set \cup {f} /\ Obtain(n, NULL, f)
        /\ dir' = [dir EXCEPT ![TableOf(n)] = p]
        /\ taken' = taken \cup {p}
  BY DEF vmem_init_map, pmem_mapaddr, pmem_map
<1>2. /\ cr3 # NULL /\ n < NPages /\ NPages \in Nat
      /\ i' = n + 1 /\ UNCHANGED <<cr3, on>>
  BY SizeAssumption DEF vmem_init_map
<1>3. n \in Pages /\ on = 0
  BY <1>2, MappedInPages DEF PagingInv, LoopInv, TypeOK
<1>3a. frame_set = 0 .. (n - 1) /\ Entry(n) = Empty
  BY <1>3 DEF PagingInv, LoopInv
<1>4. f = n
  BY <1>1, <1>2, <1>3a, GetFreeNext
<1>5. flags \in SUBSET Flags
  BY DEF Flags
<1>6. /\ Entry(n)' = Ident(n)
      /\ \A w \in Pages : w # n => Entry(w)' = Entry(w)
  <2>1. p \notin taken => \A x \in Offsets : mem[p][x] = Empty
    BY <1>3 DEF PagingInv, PagesUsed
  <2>2. /\ Entry(n)' = [addr  |-> mem[p][OffsetOf(n)].addr \cup Bits(f),
                        flags |-> mem[p][OffsetOf(n)].flags \cup {"present"} \cup flags]
        /\ Entry(n) = mem[p][OffsetOf(n)] \/ (Entry(n) = Empty /\ p \notin taken)
        /\ \A w \in Pages : w # n =>
             \/ Entry(w)' = Entry(w)
             \/ Entry(w) = Empty /\ p \notin taken /\ Entry(w)' = mem[p][OffsetOf(w)]
    <3> HIDE DEF flags
    <3> QED BY <1>1, <1>3, <1>5, MapOne DEF PagingInv
  <2>3. mem[p][OffsetOf(n)] = Empty
    BY <1>3, <1>3a, <2>1, <2>2, TableInDir
  <2>4. mem[p][OffsetOf(n)].addr = {} /\ mem[p][OffsetOf(n)].flags = {}
    BY <2>3 DEF Empty
  <2>5. {} \cup Bits(f) = Bits(n) /\ {} \cup {"present"} \cup flags = {"present", "writable"}
    BY <1>4
  <2>6. Entry(n)' = Ident(n)
    BY <2>2, <2>4, <2>5 DEF Ident
  <2> QED BY <2>1, <2>2, <2>6, TableInDir
<1>7. /\ TablesApart' /\ PagesUsed' /\ TypeOK'
  <2>1. /\ TablesApart' /\ PagesUsed'
        /\ frame_set' \subseteq Pages
        /\ dir' \in [0 .. (DirSize - 1) -> HeapPages \cup {NULL}]
        /\ mem' \in [HeapPages -> [Offsets -> Pte]]
        /\ taken' \subseteq HeapPages
        /\ owner' \in [Pages -> SUBSET Pages]
    <3> HIDE DEF flags
    <3> QED BY <1>1, <1>2, <1>3, <1>5, MapTables DEF PagingInv
  <2> QED BY <1>2, <2>1 DEF PagingInv, TypeOK
<1>8. LoopInv'
  <2>1. \A w \in 0 .. (n - 1) : w \in Pages /\ w # n /\ Entry(w) = Ident(w)
    BY <1>2, <1>3, MappedInPages DEF PagingInv, LoopInv
  <2>2. \A w \in 0 .. n : Entry(w)' = Ident(w)
    <3> SUFFICES ASSUME NEW w \in 0 .. n PROVE Entry(w)' = Ident(w)
      OBVIOUS
    <3>1. CASE w = n
      BY <1>6, <3>1
    <3>2. CASE w # n
      BY <1>6, <2>1, <3>2
    <3> QED BY <3>1, <3>2
  <2>3. \A w \in Pages : w >= n + 1 => Entry(w)' = Empty
    BY <1>3, <1>6, SizeAssumption DEF PagingInv, LoopInv, Pages
  <2>4. frame_set' = 0 .. n
    BY <1>1, <1>3a, <1>4
  <2>5. n + 1 - 1 = n
    OBVIOUS
  <2> QED BY <1>2, <1>3, <2>2, <2>3, <2>4, <2>5 DEF LoopInv, Ident
<1> QED BY <1>7, <1>8 DEF PagingInv

(* Nothing that Entry reads has changed.                                   *)
LEMMA SameEntries ==
  ASSUME UNCHANGED <<dir, mem>>, NEW w
  PROVE  Entry(w)' = Entry(w)
  BY DEF Entry

(* A page of the heap that holds no table is not read by Entry.            *)
LEMMA ReuseEntries ==
  ASSUME PagingInv, NEW p \in HeapPages, NEW x \in Offsets, NEW e \in Stale,
         Reuse(p, x, e)
  PROVE  \A w \in Pages : Entry(w)' = Entry(w)
<1> SUFFICES ASSUME NEW w \in Pages PROVE Entry(w)' = Entry(w)
  OBVIOUS
<1>1. TableOf(w) \in 0 .. (DirSize - 1)
  BY TableInDir
<1>2. dir' = dir /\ p \notin taken /\ mem' = [mem EXCEPT ![p] = [@ EXCEPT ![x] = e]]
  BY DEF Reuse
<1>3. dir[TableOf(w)] # NULL => dir[TableOf(w)] # p /\ dir[TableOf(w)] \in HeapPages
  BY <1>1, <1>2 DEF PagingInv, PagesUsed, TypeOK
<1>4. dir[TableOf(w)] # NULL => mem'[dir[TableOf(w)]] = mem[dir[TableOf(w)]]
  BY <1>2, <1>3 DEF PagingInv, TypeOK
<1> QED BY <1>2, <1>4 DEF Entry

LEMMA PagingStep == PagingInv /\ [Next]_vars => PagingInv'
<1> SUFFICES ASSUME PagingInv, [Next]_vars PROVE PagingInv'
  OBVIOUS
<1>1. CASE vmem_init_start
  <2>1. \A w \in Pages : Entry(w)' = Empty
    BY <1>1, TableInDir DEF vmem_init_start, Entry
  <2>3. taken = {} /\ i = 0 /\ on = 0 /\ 0 .. (i - 1) = {}
    BY <1>1 DEF vmem_init_start, PagingInv, PagesUsed, LoopInv, TypeOK
  <2>4. TypeOK'
    BY <1>1 DEF vmem_init_start, PagingInv, TypeOK
  <2>5. TablesApart' /\ PagesUsed'
    BY <1>1, <2>3, HeapAssumption
       DEF vmem_init_start, PagingInv, TablesApart, PagesUsed, NULL
  <2>6. LoopInv'
    BY <1>1, <2>1, <2>3, HeapAssumption DEF vmem_init_start, LoopInv, NULL
  <2> QED BY <2>1, <2>4, <2>5, <2>6 DEF PagingInv
<1>2. CASE vmem_init_map
  BY <1>2, LoopStep, SizeAssumption DEF PagingInv, TypeOK
<1>3. CASE vmem_enable
  <2>1. /\ UNCHANGED <<frame_set, cr3, dir, mem, taken, i, owner>>
        /\ cr3 # NULL /\ i = NPages /\ on' = 1 /\ on = 0
    BY <1>3 DEF vmem_enable
  <2>2. \A w : Entry(w)' = Entry(w)
    BY <2>1, SameEntries
  <2> QED BY <2>1, <2>2 DEF PagingInv, TypeOK, TablesApart, PagesUsed, LoopInv, Ident
<1>4. ASSUME NEW v \in Clients, NEW phys, Map(v, phys, {"user"})
      PROVE  PagingInv'
  <2>1. {"user"} \in SUBSET Flags
    BY DEF Flags
  <2> QED BY <1>4, <2>1, ClientStep
<1>5. ASSUME NEW f \in Frames, pmem_set(f) \/ pmem_clear(f)
      PROVE  PagingInv'
  <2>1. /\ UNCHANGED <<cr3, dir, mem, taken, i, on>>
        /\ on = 1 /\ frame_set' \subseteq Pages
        /\ owner' \in [Pages -> SUBSET Pages]
    BY <1>5, ClientsAssumption DEF pmem_set, pmem_clear, PagingInv, TypeOK
  <2>2. \A w : Entry(w)' = Entry(w)
    BY <2>1, SameEntries
  <2> QED BY <2>1, <2>2 DEF PagingInv, TypeOK, TablesApart, PagesUsed, LoopInv, Ident
<1>6. ASSUME NEW p \in HeapPages, NEW x \in Offsets, NEW e \in Stale, Reuse(p, x, e)
      PROVE  PagingInv'
  <2>1. UNCHANGED <<frame_set, cr3, dir, taken, i, on, owner>> /\ on = 1
    BY <1>6 DEF Reuse
  <2>2. mem' \in [HeapPages -> [Offsets -> Pte]]
    BY <1>6, ClientsAssumption DEF Reuse, PagingInv, TypeOK
  <2>3. \A w \in Pages : Entry(w)' = Entry(w)
    BY <1>6, ReuseEntries
  <2>4. LoopInv'
    BY <2>1, <2>3, MappedInPages DEF PagingInv, LoopInv, Ident
  <2> QED BY <2>1, <2>2, <2>4 DEF PagingInv, TypeOK, TablesApart, PagesUsed
<1>7. CASE UNCHANGED vars
  <2>1. UNCHANGED <<frame_set, cr3, dir, mem, taken, i, on, owner>>
    BY <1>7 DEF vars
  <2>2. \A w : Entry(w)' = Entry(w)
    BY <2>1, SameEntries
  <2> QED BY <2>1, <2>2 DEF PagingInv, TypeOK, TablesApart, PagesUsed, LoopInv, Ident
<1> QED BY <1>1, <1>2, <1>3, <1>4, <1>5, <1>6, <1>7 DEF Next

(***************************************************************************)
(* Frames and mappings                                                     *)
(***************************************************************************)

(* No call takes a mapping away, or changes more than one.                 *)
Kept ==
  /\ \A v \in Pages : Present(v) => Present(v)'
  /\ \A v, w \in Pages :
       Present(v) /\ Present(w) /\ v # w
         => Entry(v)' = Entry(v) \/ Entry(w)' = Entry(w)

LEMMA SameKept ==
  ASSUME \A w \in Pages : Entry(w)' = Entry(w)
  PROVE  Kept
BY DEF Kept, Present

(* A frame that pmem_map() chooses or that was free has no owner yet, but  *)
(* for frame 0 when there is no other.                                     *)
LEMMA MapOwners ==
  ASSUME PagingInv, OwnerInv, NEW v \in Pages, NEW phys,
         NEW flags \in SUBSET Flags, pmem_mapaddr(v, phys, flags)
  PROVE  OwnerInv' /\ Kept
<1>1. PICK p \in HeapPages, f \in Pages :
        /\ vmem_get(v, p) /\ OrInto(v, p, f, flags)
        /\ IF phys = NULL THEN pmem_get_free(f) ELSE f = phys
        /\ frame_set' = frame_set \cup {f} /\ Obtain(v, phys, f)
        /\ dir' = [dir EXCEPT ![TableOf(v)] = p]
  BY DEF pmem_mapaddr, pmem_map
<1>2. /\ Present(v)' /\ Bits(f) \subseteq Entry(v)'.addr
      /\ Entry(v).addr \subseteq Entry(v)'.addr
      /\ OthersKept(v)
  BY <1>1, MapKeeps DEF PagingInv
<1>3. \A w \in Pages : Present(w) => Present(w)' /\ Entry(w).addr \subseteq Entry(w)'.addr
  BY <1>2 DEF OthersKept, Present
<1>4. Kept
  BY <1>2, <1>3 DEF Kept, OthersKept
<1>5. owner \in [Pages -> SUBSET Pages]
  BY DEF PagingInv, TypeOK
<1>6. ASSUME NEW g \in Pages, NEW w \in owner'[g]
      PROVE  g \in frame_set' /\ Present(w)' /\ Bits(g) \subseteq Entry(w)'.addr
  <2>1. CASE w \in owner[g]
    <3>1. w \in Pages /\ g \in frame_set /\ Present(w) /\ Bits(g) \subseteq Entry(w).addr
      BY <1>5, <2>1 DEF OwnerInv, FramesAreMapped
    <3> QED BY <1>1, <1>3, <3>1
  <2>2. CASE w \notin owner[g]
    <3>1. g = f /\ w = v
      BY <1>1, <1>5, <1>6, <2>2 DEF Obtain
    <3> QED BY <1>1, <1>2, <3>1
  <2> QED BY <2>1, <2>2
<1>7. ASSUME NEW g \in Pages \ {NULL}, NEW u \in owner'[g], NEW w \in owner'[g]
      PROVE  u = w
  <2>1. CASE owner'[g] = owner[g]
    BY <1>7, <2>1 DEF OwnerInv, FramesShared
  <2>2. CASE owner'[g] # owner[g]
    <3>1. g = f /\ ~ (phys # NULL /\ f \in frame_set) /\ owner'[g] = owner[g] \cup {v}
      BY <1>1, <1>5, <2>2 DEF Obtain
    <3>2. f \notin frame_set
      BY <1>1, <1>7, <3>1 DEF pmem_get_free
    <3>3. owner[g] = {}
      BY <3>1, <3>2 DEF OwnerInv, FramesAreMapped
    <3> QED BY <1>7, <3>1, <3>3
  <2> QED BY <2>1, <2>2
<1> QED BY <1>4, <1>6, <1>7 DEF OwnerInv, FramesAreMapped, FramesShared

LEMMA OwnerStep ==
  ASSUME PagingInv, OwnerInv, [Next]_vars
  PROVE  OwnerInv' /\ Kept
<1>1. ASSUME \A w \in Pages : Entry(w)' = Entry(w),
             \A f \in Pages : owner'[f] \subseteq owner[f],
             \A f \in Pages : f \in frame_set /\ owner'[f] # {} => f \in frame_set'
      PROVE  OwnerInv' /\ Kept
  <2>1. \A f \in Pages : owner[f] \subseteq Pages
    BY DEF PagingInv, TypeOK
  <2>2. FramesAreMapped'
    BY <1>1, <2>1 DEF OwnerInv, FramesAreMapped, Present
  <2>3. FramesShared'
    BY <1>1 DEF OwnerInv, FramesShared
  <2> QED BY <1>1, <2>2, <2>3, SameKept DEF OwnerInv
<1>2. CASE vmem_init_start
  <2>1. \A w \in Pages : Entry(w)' = Empty
    BY <1>2, TableInDir DEF vmem_init_start, Entry
  <2>2. \A w \in Pages : Entry(w) = Empty
    BY <1>2, SizeAssumption DEF vmem_init_start, PagingInv, TypeOK, LoopInv, Pages
  <2>3. frame_set = {} /\ frame_set' = {} /\ owner' = owner
    BY <1>2 DEF vmem_init_start, PagingInv, LoopInv, TypeOK
  <2> QED BY <1>1, <2>1, <2>2, <2>3
<1>3. CASE vmem_init_map
  <2>1. i \in Pages
    BY <1>3, MappedInPages, SizeAssumption DEF vmem_init_map, PagingInv, TypeOK
  <2>2. {"writable"} \in SUBSET Flags
    BY DEF Flags
  <2>3. pmem_mapaddr(i, NULL, {"writable"})
    BY <1>3 DEF vmem_init_map
  <2> QED BY <2>1, <2>2, <2>3, MapOwners
<1>4. CASE vmem_enable
  <2>1. UNCHANGED <<frame_set, dir, mem, owner>>
    BY <1>4 DEF vmem_enable
  <2> QED BY <1>1, <2>1, SameEntries
<1>5. ASSUME NEW v \in Clients, NEW phys, Map(v, phys, {"user"})
      PROVE  OwnerInv' /\ Kept
  <2>1. {"user"} \in SUBSET Flags /\ v \in Pages
    BY ClientsAssumption DEF Flags
  <2> QED BY <1>5, <2>1, MapOwners DEF Map
<1>6. ASSUME NEW f \in Frames, pmem_set(f)
      PROVE  OwnerInv' /\ Kept
  <2>1. frame_set \subseteq frame_set' /\ UNCHANGED <<dir, mem, owner>>
    BY <1>6 DEF pmem_set
  <2> QED BY <1>1, <2>1, SameEntries
<1>7. ASSUME NEW f \in Frames, pmem_clear(f)
      PROVE  OwnerInv' /\ Kept
  <2>1. /\ frame_set' = frame_set \ {f} /\ UNCHANGED <<dir, mem>>
        /\ owner' = [owner EXCEPT ![f] = {}]
    BY <1>7 DEF pmem_clear
  <2>2. \A g \in Pages : owner'[g] = IF g = f THEN {} ELSE owner[g]
    BY <2>1 DEF PagingInv, TypeOK
  <2> QED BY <1>1, <2>1, <2>2, SameEntries
<1>8. ASSUME NEW p \in HeapPages, NEW x \in Offsets, NEW e \in Stale, Reuse(p, x, e)
      PROVE  OwnerInv' /\ Kept
  <2>1. UNCHANGED <<frame_set, owner>>
    BY <1>8 DEF Reuse
  <2> QED BY <1>1, <1>8, <2>1, ReuseEntries
<1>9. CASE UNCHANGED vars
  <2>1. UNCHANGED <<frame_set, dir, mem, owner>>
    BY <1>9 DEF vars
  <2> QED BY <1>1, <2>1, SameEntries
<1> QED BY <1>2, <1>3, <1>4, <1>5, <1>6, <1>7, <1>8, <1>9 DEF Next

(***************************************************************************)
(* Theorems                                                                *)
(***************************************************************************)

(* The bitmap, the directory and the tables keep their types.              *)
THEOREM PagingTypeCorrect == Spec => []TypeOK
<1>1. PagingInv => TypeOK
  BY DEF PagingInv
<1> QED BY PagingInit, PagingStep, <1>1, PTL DEF Spec

(* When vmem_enable() switches paging on, every page below MAPPED_MEMORY   *)
(* is mapped to the frame of its own number, however many pages there are  *)
(* and wherever kmalloca() puts the tables, and those no caller maps again *)
(* stay so.                                                                *)
THEOREM BootIdentityMap == Spec => []IdentityMap
<1>1. PagingInv => IdentityMap
  BY DEF PagingInv, TypeOK, LoopInv, IdentityMap, Ident
<1> QED BY PagingInit, PagingStep, <1>1, PTL DEF Spec

(* No frame but frame 0 is obtained for two pages, whichever frames are    *)
(* named, set, given back or none left, and however often a page is        *)
(* mapped.                                                                 *)
THEOREM PagingFramesShared == Spec => []FramesShared
<1>1. PagingInv /\ OwnerInv /\ [Next]_vars => PagingInv' /\ OwnerInv'
  BY PagingStep, OwnerStep
<1>2. OwnerInv => FramesShared
  BY DEF OwnerInv
<1> QED BY PagingInit, <1>1, <1>2, PTL DEF Spec

(* A frame obtained and not given back is set, and its bits are in the     *)
(* entry of the page it was obtained for.                                  *)
THEOREM PagingFramesMapped == Spec => []FramesAreMapped
<1>1. PagingInv /\ OwnerInv /\ [Next]_vars => PagingInv' /\ OwnerInv'
  BY PagingStep, OwnerStep
<1>2. OwnerInv => FramesAreMapped
  BY DEF OwnerInv
<1> QED BY PagingInit, <1>1, <1>2, PTL DEF Spec

(* No call unmaps a page or changes the entries of two mapped ones, with   *)
(* pages mapped again and again and tables that are not blank.             *)
THEOREM PagingMappingsKept == Spec => MappingsKept
<1>1. PagingInv /\ OwnerInv /\ [Next]_vars => PagingInv' /\ OwnerInv'
  BY PagingStep, OwnerStep
<1>2. PagingInv /\ OwnerInv /\ [Next]_vars
        => [/\ \A v \in Pages : Present(v) => Present(v)'
            /\ \A v, w \in Pages :
                 Present(v) /\ Present(w) /\ v # w
                   => Entry(v)' = Entry(v) \/ Entry(w)' = Entry(w)]_vars
  BY OwnerStep DEF Kept
<1> QED BY PagingInit, <1>1, <1>2, PTL DEF Spec, MappingsKept

=============================================================================
