--------------------------- MODULE MCCapabilities ---------------------------
(* Capabilities over a small address space, with every list of up to two    *)
(* reservations and with memory maps of up to five regions.                 *)
EXTENDS Capabilities

R(b, n) == [base |-> b, size |-> n]

\* Aligned and unaligned memory, memory up to the last address, regions
\* that are apart or overlap, an empty region and one that overflows.
MCMemories == { <<R(0, 11)>>, <<R(1, Limit - 2)>>, <<R(3, 5), R(9, 2)>>, <<R(1, 6), R(5, 4)>>,
                <<R(0, 1), R(2, 1), R(4, 1), R(6, 1), R(7, 4)>>, <<R(2, 0)>>, <<R(4, Limit - 4)>>, << >> }

MCRegions == {R(b, n) : b \in {0, 2, 3, 5, 8, 9}, n \in {0, 1, 3, 4}}
MCReservations == {<< >>} \cup {<<r>> : r \in MCRegions} \cup {<<r, s>> : r, s \in MCRegions}
=============================================================================
