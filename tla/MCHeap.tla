------------------------------- MODULE MCHeap -------------------------------
(***************************************************************************)
(* Small instances of the kernel heap for TLC.                             *)
(***************************************************************************)
EXTENDS KHeap

(* 0 is refused, 5 is rounded up to 8, 40 is what a split of a freed block *)
(* leaves a remainder of.                                                  *)
SmallSizes == {0, 5, 40}

SmallAligns == {1, 32}

=============================================================================
