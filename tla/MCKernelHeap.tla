---------------------------- MODULE MCKernelHeap ----------------------------
(***************************************************************************)
(* The kernel's use of the heap with the addresses and sizes of the build. *)
(***************************************************************************)
EXTENDS KernelHeap

(* 10 for test_malloc(), 9 for "/dev/tty", and paths of several lengths up *)
(* to the longest that fits in buf behind "ls ".                           *)
Temps == {2, 9, 10, 33, 100, 250, 509}

NoSizes == {}

=============================================================================
