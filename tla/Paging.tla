------------------------------- MODULE Paging -------------------------------
(***************************************************************************)
(* Paging and page frames, kernel/vmem.c and kernel/pmem.c: the frame      *)
(* bitmap, the page directory with its tables, vmem_init()'s loop that     *)
(* maps the first 16 MB page by page, and the calls memory.h offers        *)
(* afterwards.                                                             *)
(*                                                                         *)
(* Addresses are page numbers: page n begins at n * PAGE_SIZE, and NULL is *)
(* page 0.  A table entry is changed with `|=' only, so its address is the *)
(* set of its bits.  Booting runs with interrupts off and nothing maps     *)
(* pages in a handler: each call is one step.                              *)
(***************************************************************************)
EXTENDS Integers

CONSTANTS
  NPages,     \* 4096: MAPPED_MEMORY / PAGE_SIZE
  TableSize,  \* 1024: the entries of a table
  DirSize,    \* 1024: the entries of the directory
  HeapPages,  \* where kmalloca() finds page-aligned memory
  Clients,    \* the pages that callers map after booting
  Frames,     \* the frames that they name, set or clear
  Stale       \* what the heap's other users leave in its pages

ASSUME SizeAssumption ==
  /\ NPages \in Nat /\ TableSize \in Nat \ {0} /\ DirSize \in Nat \ {0}
  /\ NPages <= DirSize * TableSize

(* The heap lies in the memory that vmem_init() maps, and not at NULL.     *)
ASSUME HeapAssumption == HeapPages \subseteq 1 .. (NPages - 1)

Pages   == 0 .. (DirSize * TableSize - 1)
Offsets == 0 .. (TableSize - 1)
Flags   == {"present", "writable", "user"}
Pte     == [addr : SUBSET (0 .. 19), flags : SUBSET Flags]

(* Callers map pages as often as they like, those mapped at boot, too, but *)
(* not the pages through which the tables themselves are reached.  The     *)
(* frames they name have a bit in the bitmap.                              *)
ASSUME ClientsAssumption ==
  /\ Clients \subseteq Pages \ HeapPages
  /\ Frames \subseteq Pages
  /\ Stale \subseteq Pte

VARIABLES
  frame_set,   \* the frames whose bit is set
  cr3,         \* the page of the directory, NULL before vmem_init()
  dir,         \* directory index -> page of its table, NULL if not present
  mem,         \* the entries stored in the heap's pages
  taken,       \* the heap's pages in use
  i,           \* vmem_init()'s loop counter
  on,          \* 1 once vmem_enable() has set the paging bit
  owner        \* history: frame -> the pages it was obtained for, see pmem_map

vars == <<frame_set, cr3, dir, mem, taken, i, on, owner>>

NULL  == 0
Empty == [addr |-> {}, flags |-> {}]

(* The bits of a page number of 20 bits.                                   *)
Bits(f) == {k \in 0 .. 19 : (f \div 2^k) % 2 = 1}

TableOf(v)  == v \div TableSize
OffsetOf(v) == v % TableSize

(* What the processor finds for page v.                                    *)
Entry(v) == IF dir[TableOf(v)] = NULL THEN Empty
            ELSE mem[dir[TableOf(v)]][OffsetOf(v)]

(* A bug for the properties: the scan starts behind frame 0.               *)
GetFreeAfterNull(f) ==
  LET free == (1 .. (NPages - 1)) \ frame_set
  IN  \/ f \in free /\ \A g \in free : f <= g
      \/ free = {} /\ f = NULL

(* f is what pmem_get_free() returns: the lowest frame below MAPPED_MEMORY *)
(* that is not set, or else NULL.                                          *)
pmem_get_free(f) ==
  LET free == (0 .. (NPages - 1)) \ frame_set
  IN  \/ f \in free /\ \A g \in free : f <= g
      \/ free = {} /\ f = NULL

(* A bug for the properties: every page gets a table of its own.           *)
vmem_get_anew(v, p) == p \in HeapPages \ taken

(* vmem_get() finds v's entry in the table at p: the one the directory has *)
(* or one obtained from kmalloca(), which has not been handed out before.  *)
(* It is not cleared: the entries are what the memory holds.               *)
vmem_get(v, p) ==
  IF dir[TableOf(v)] # NULL THEN p = dir[TableOf(v)]
  ELSE p \in HeapPages \ taken

(* *pg |= f | P_PRESENT | flags, with pg the entry of v in the table at p. *)
OrInto(v, p, f, flags) ==
  mem' = [q \in HeapPages |->
    IF q # p THEN mem[q]
    ELSE [x \in Offsets |->
            IF x # OffsetOf(v) THEN mem[q][x]
            ELSE [addr  |-> mem[q][x].addr \cup Bits(f),
                  flags |-> mem[q][x].flags \cup {"present"} \cup flags]]]

(* A frame is obtained for v: chosen by pmem_map(), or named while free.   *)
Obtain(v, phys, f) ==
  owner' = IF phys # NULL /\ f \in frame_set THEN owner
           ELSE [owner EXCEPT ![f] = @ \cup {v}]

(* A bug for the properties: only a frame it chose itself is set.          *)
pmem_map_chosen(v, p, phys, flags) ==
  \E f \in Pages :
    /\ IF phys = NULL THEN pmem_get_free(f) ELSE f = phys
    /\ OrInto(v, p, f, flags)
    /\ frame_set' = IF phys = NULL THEN frame_set \cup {f} ELSE frame_set
    /\ Obtain(v, phys, f)

(* pmem_map() on the entry of v in the table at p.                         *)
pmem_map(v, p, phys, flags) ==
  \E f \in Pages :
    /\ IF phys = NULL THEN pmem_get_free(f) ELSE f = phys
    /\ OrInto(v, p, f, flags)
    /\ frame_set' = frame_set \cup {f}
    /\ Obtain(v, phys, f)

pmem_mapaddr(v, phys, flags) ==
  \E p \in HeapPages :
    /\ vmem_get(v, p)
    /\ pmem_map(v, p, phys, flags)
    /\ dir' = [dir EXCEPT ![TableOf(v)] = p]
    /\ taken' = taken \cup {p}

(* pmem_init(), which clears the bitmap, and vmem_init() up to its loop.   *)
vmem_init_start ==
  /\ cr3 = NULL
  /\ frame_set' = {}
  /\ \E p \in HeapPages \ taken : cr3' = p /\ taken' = taken \cup {p}
  /\ dir' = [t \in 0 .. (DirSize - 1) |-> NULL]
  /\ UNCHANGED <<mem, i, on, owner>>

(* One iteration: the loop leaves the choice of the frame to pmem_map().   *)
vmem_init_map ==
  /\ cr3 # NULL /\ i < NPages
  /\ pmem_mapaddr(i, NULL, {"writable"})
  /\ i' = i + 1
  /\ UNCHANGED <<cr3, on>>

vmem_enable ==
  /\ cr3 # NULL /\ i = NPages /\ on = 0
  /\ on' = 1
  /\ UNCHANGED <<frame_set, cr3, dir, mem, taken, i, owner>>

(* After booting, a caller maps a page, whether or not it is mapped, to a  *)
(* frame of its choice or, with NULL, to one that pmem_map() chooses.      *)
Map(v, phys, flags) ==
  /\ on = 1
  /\ pmem_mapaddr(v, phys, flags)
  /\ UNCHANGED <<cr3, i, on>>

(* It reserves a frame, or gives one back.                                 *)
pmem_set(f) ==
  /\ on = 1
  /\ frame_set' = frame_set \cup {f}
  /\ UNCHANGED <<cr3, dir, mem, taken, i, on, owner>>

pmem_clear(f) ==
  /\ on = 1
  /\ frame_set' = frame_set \ {f}
  /\ owner' = [owner EXCEPT ![f] = {}]
  /\ UNCHANGED <<cr3, dir, mem, taken, i, on>>

(* The heap's other users store into a page that is not a table, and free  *)
(* it: kmalloca() may hand it to vmem_get() as they left it.               *)
Reuse(p, x, e) ==
  /\ on = 1 /\ p \notin taken
  /\ mem' = [mem EXCEPT ![p] = [@ EXCEPT ![x] = e]]
  /\ UNCHANGED <<frame_set, cr3, dir, taken, i, on, owner>>

(* Memory nobody has used reads as zero; no kfree() precedes vmem_init().  *)
Init ==
  /\ frame_set = {} /\ cr3 = NULL
  /\ dir = [t \in 0 .. (DirSize - 1) |-> NULL]
  /\ mem = [p \in HeapPages |-> [x \in Offsets |-> Empty]]
  /\ taken = {} /\ i = 0 /\ on = 0
  /\ owner = [f \in Pages |-> {}]

Next ==
  \/ vmem_init_start
  \/ vmem_init_map
  \/ vmem_enable
  \/ \E v \in Clients, phys \in Frames \cup {NULL} : Map(v, phys, {"user"})
  \/ \E f \in Frames : pmem_set(f) \/ pmem_clear(f)
  \/ \E p \in HeapPages, x \in Offsets, e \in Stale : Reuse(p, x, e)

Spec == Init /\ [][Next]_vars

(***************************************************************************)
(* Properties                                                              *)
(***************************************************************************)

Present(v) == "present" \in Entry(v).flags

(* The bitmap holds frames, the directory points to pages of the heap that *)
(* are in use, and the loop stays within what it maps.                     *)
TypeOK ==
  /\ frame_set \subseteq Pages
  /\ cr3 \in HeapPages \cup {NULL}
  /\ dir \in [0 .. (DirSize - 1) -> HeapPages \cup {NULL}]
  /\ mem \in [HeapPages -> [Offsets -> Pte]]
  /\ taken \subseteq HeapPages
  /\ i \in 0 .. NPages
  /\ on \in {0, 1}
  /\ owner \in [Pages -> SUBSET Pages]

(* vmem_init() asks for a frame for each page and never says which, yet    *)
(* when paging is switched on under the running kernel, every page must be *)
(* mapped to the frame of its own number: the kernel goes on at the        *)
(* addresses it had.  It stays so for the pages no caller maps again,      *)
(* whatever is mapped elsewhere, those of the tables among them.           *)
IdentityMap ==
  i = NPages => \A v \in 0 .. (NPages - 1) :
    on = 0 \/ v \notin Clients
      => Entry(v) = [addr |-> Bits(v), flags |-> {"present", "writable"}]

(* No frame is obtained for two pages unless it was given back in between, *)
(* whether pmem_map() chose it or a caller named it while it was free.     *)
(* Only frame 0 may be: it is also pmem_get_free()'s answer when every     *)
(* frame is set, which pmem_map() takes for a frame.                       *)
FramesShared ==
  \A f \in Pages \ {NULL} : \A v, w \in owner[f] : v = w

(* A frame obtained for a page and not given back is set in the bitmap,    *)
(* and the page is mapped with all the bits of its address, however often  *)
(* it was mapped since: mapping it again adds an address and does not      *)
(* replace it.                                                             *)
FramesAreMapped ==
  \A f \in Pages : \A v \in owner[f] :
    f \in frame_set /\ Present(v) /\ Bits(f) \subseteq Entry(v).addr

(* A call changes the entry of one mapped page at most and unmaps none,    *)
(* whether or not it needs a new table and whatever that table's memory    *)
(* held before.                                                            *)
MappingsKept ==
  [][ /\ \A v \in Pages : Present(v) => Present(v)'
      /\ \A v, w \in Pages :
           Present(v) /\ Present(w) /\ v # w
             => Entry(v)' = Entry(v) \/ Entry(w)' = Entry(w) ]_vars

=============================================================================
