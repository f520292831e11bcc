------------------------------ MODULE MCKernel ------------------------------
(* Small instances of Kernel; the cfg files name their tasks and endpoints. *)
EXTENDS Kernel
=============================================================================
