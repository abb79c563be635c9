------------------------------ MODULE HeapSpec ------------------------------
(***************************************************************************)
(* What FOOS promises the callers of kmalloc() and kfree()                 *)
(* (include/foos/kmalloc.h): every request is answered with a pointer to   *)
(* memory that no other live allocation uses, or with NULL, and freeing    *)
(* one allocation leaves the others alone.  How blocks are found, split    *)
(* and merged is not visible here; module KHeap says that.                 *)
(***************************************************************************)
EXTENDS Naturals

VARIABLES
  live,   \* a function: data pointer -> number of bytes its owner may use
  ret     \* the pointer the last kmalloc() or kmalloca() returned

vars == <<live, ret>>

NULL == 0

(* [p, p+n) and [q, q+m) have no byte in common.                           *)
Apart(p, n, q, m) == p + n <= q \/ q + m <= p

Init ==
  /\ live = [p \in {} |-> 0]
  /\ ret = NULL

(* A request is granted: the caller gets bytes nobody else owns.           *)
Grant ==
  /\ ret' \in Nat \ {NULL}
  /\ ret' \notin DOMAIN live
  /\ DOMAIN live' = DOMAIN live \cup {ret'}
  /\ live'[ret'] \in Nat \ {0}
  /\ \A q \in DOMAIN live :
       /\ live'[q] = live[q]
       /\ Apart(ret', live'[ret'], q, live[q])

(* A request is refused.                                                   *)
Refuse ==
  /\ ret' = NULL
  /\ UNCHANGED live

(* One allocation is given back.                                           *)
Release ==
  /\ \E p \in DOMAIN live : live' = [q \in DOMAIN live \ {p} |-> live[q]]
  /\ UNCHANGED ret

Next == Grant \/ Refuse \/ Release

Spec == Init /\ [][Next]_vars

=============================================================================
