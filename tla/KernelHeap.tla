----------------------------- MODULE KernelHeap -----------------------------
(***************************************************************************)
(* The kernel as the heap's only client: which kmalloc(), kmalloca() and   *)
(* kfree() calls kernel_main() makes, in its order, from booting through   *)
(* the shell to the shutdown.  Module KHeap answers them.                  *)
(***************************************************************************)
EXTENDS KHeap, Sequences

CONSTANTS
  NFiles,     \* header->nfiles of the RAM disk
  TempSizes   \* sizes the shell's commands allocate for a moment

PAGE_SIZE == 4096
SizeofInode == 76

ASSUME NFilesAssumption == NFiles \in Nat

(* HEAP_BASE is a multiple of the page size.                               *)
ASSUME HeapBaseAligned == HeapBase % PAGE_SIZE = 0

(* The longest is a path that fills the line buffer.                       *)
ASSUME TempSizesAssumption ==
  /\ TempSizes \subseteq Nat \ {0}
  /\ \E n \in TempSizes : \A m \in TempSizes : m <= n

VARIABLES
  got,      \* the pointers that booting obtained, in its order
  tmp,      \* what the running shell command holds, or NULL
  halted    \* the shell was left and the RAM disk closed

kvars == <<vars, got, tmp, halted>>

(* A bug for the properties: paging comes up before anything else.         *)
BootPagingFirst ==
  << <<PAGE_SIZE, PAGE_SIZE>>, <<2048, 1>>, <<1024, 1>>, <<524, 1>>,
     <<PAGE_SIZE, 1>>, <<PAGE_SIZE, PAGE_SIZE>>,
     <<PAGE_SIZE, PAGE_SIZE>>, <<PAGE_SIZE, PAGE_SIZE>>,
     <<PAGE_SIZE, PAGE_SIZE>>, <<512, 1>>, <<8, 1>>, <<SizeofInode, 1>>,
     <<(NFiles + 1) * SizeofInode, 1>>, <<2 * SizeofInode, 1>> >>

(* Boot order: entries and handlers (int_init), struct tty (dev_open),     *)
(* frame_set (pmem_init), the page directory and one table for each of the *)
(* four times 4 MB that vmem_init() maps, buf, struct ramdisk, the root    *)
(* inode, the files with /dev among them, and the devices (devfs_init).    *)
Boot ==
  << <<2048, 1>>, <<1024, 1>>, <<524, 1>>, <<PAGE_SIZE, 1>>,
     <<PAGE_SIZE, PAGE_SIZE>>, <<PAGE_SIZE, PAGE_SIZE>>,
     <<PAGE_SIZE, PAGE_SIZE>>, <<PAGE_SIZE, PAGE_SIZE>>,
     <<PAGE_SIZE, PAGE_SIZE>>, <<512, 1>>, <<8, 1>>, <<SizeofInode, 1>>,
     <<(NFiles + 1) * SizeofInode, 1>>, <<2 * SizeofInode, 1>> >>

PageTables  == 5 .. 9     \* the page-aligned ones of Boot
RamdiskData == 11         \* struct ramdisk in Boot

Booted == Len(got) = Len(Boot)

(* The next allocation of the boot sequence.                               *)
BootAlloc ==
  /\ ~ Booted
  /\ kmalloca(Boot[Len(got) + 1][1], Boot[Len(got) + 1][2])
  /\ UNCHANGED <<got, tmp, halted>>

(* lookup() goes on; its caller stores the pointer it returns.             *)
Answer ==
  /\ Lookup
  /\ IF req' # NoReq
     THEN UNCHANGED <<got, tmp>>
     ELSE IF Booted
          THEN tmp' = ret' /\ UNCHANGED got
          ELSE got' = Append(got, ret') /\ UNCHANGED tmp
  /\ UNCHANGED halted

(* fs_lookup() copies its path, test_malloc() takes ten bytes.             *)
ShellAlloc ==
  /\ Booted /\ ~ halted /\ tmp = NULL
  /\ \E n \in TempSizes : kmalloca(n, 1)
  /\ UNCHANGED <<got, tmp, halted>>

(* A bug for the properties: the command returns without kfree().          *)
ShellForgets ==
  /\ tmp # NULL
  /\ tmp' = NULL
  /\ UNCHANGED <<vars, got, halted>>

(* ... and give them back before the command ends.                         *)
ShellFree ==
  /\ tmp # NULL
  /\ kfree(tmp)
  /\ tmp' = NULL
  /\ UNCHANGED <<got, halted>>

(* dev_close(DEV_RAMDISK), once the shell has returned.                    *)
Shutdown ==
  /\ Booted /\ Idle /\ ~ halted /\ tmp = NULL
  /\ kfree(got[RamdiskData])
  /\ halted' = TRUE
  /\ UNCHANGED <<got, tmp>>

KInit == Init /\ got = <<>> /\ tmp = NULL /\ halted = FALSE

KNext == BootAlloc \/ Answer \/ ShellAlloc \/ ShellFree \/ Shutdown

KSpec == KInit /\ [][KNext]_kvars

(***************************************************************************)
(* Properties                                                              *)
(***************************************************************************)

(* The kernel never makes a call the heap cannot serve: no aligned request *)
(* whose header would fall into the last block, none before the first      *)
(* block is in use, and no kfree() of a block between two free ones.       *)
KernelIsCareful ==
  Idle =>
    /\ ~ Booted => CarefulRequest(Boot[Len(got) + 1][2])
    /\ tmp # NULL => CarefulFree(tmp - BLOCKSIZ)
    /\ Booted /\ ~ halted => CarefulFree(got[RamdiskData] - BLOCKSIZ)

(* However long the shell runs, its temporary allocations reuse one block  *)
(* behind those of booting: that block never outgrows twice the largest    *)
(* request and a header, so the heap stays in the memory that vmem_init()  *)
(* mapped.                                                                 *)
HeapStopsGrowing ==
  Booted =>
    LET last == got[Len(Boot)]
        room == CHOOSE n \in TempSizes : \A m \in TempSizes : m <= n
        above == {b \in list : b > last}
    IN  /\ Cardinality(above) <= 2
        /\ \A b \in above :
             End(hdr, b) <= Data(last + live[last]) + 2 * (RoundUp(room) + BLOCKSIZ)

(* What booting obtained stays the kernel's until Shutdown, and the        *)
(* shell's temporary memory is none of it.                                 *)
BootDataKept ==
  \A i \in DOMAIN got :
    /\ \/ got[i] \in DOMAIN live /\ live[got[i]] = RoundUp(Boot[i][1])
       \/ i = RamdiskData /\ halted
    /\ tmp # got[i]

(* "Don't ever access RAM across the border" (kmalloc.c, line 12): the     *)
(* heap's stores stay in the heap.                                         *)
StoresInHeap == stray = {}

=============================================================================
