--------------------------- MODULE MCKernelLinks ---------------------------
(* Kernel with its lists and with its refinement of Rpc, for TLC.          *)
EXTENDS KernelLinks, KernelRpc, TLC

\* Endpoints, and tasks other than the root, can be exchanged.
Symmetry == Permutations(Tasks \ {Root}) \cup Permutations(Endpoints)
=============================================================================
