------------------------------- MODULE MCAcpi -------------------------------
(***************************************************************************)
(* ACPI for TLC: what matters about "_S5_" is that it can overlap itself   *)
(* by one byte, which two underscores can, too.                            *)
(***************************************************************************)
EXTENDS Acpi

MCNeedle == <<"_", "_">>

=============================================================================
