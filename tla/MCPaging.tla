------------------------------ MODULE MCPaging ------------------------------
(***************************************************************************)
(* Five pages mapped at boot and two tables for them.  Later page 0 is     *)
(* mapped again, and page 6 needs a third table.                           *)
(***************************************************************************)
EXTENDS Paging

(* What a heap page may hold when it becomes a table: something present.   *)
SomeStale == {[addr |-> {0}, flags |-> {"present", "user"}]}

=============================================================================
