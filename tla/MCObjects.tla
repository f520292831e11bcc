------------------------------ MODULE MCObjects ------------------------------
(* Objects with two entries a table, memory below and above a device. *)
EXTENDS Objects

Region(b, n) == [base |-> b, size |-> n]

MCKernelImage == Region(0, 2)
MCWindow == Region(2, 16)
MCDevice == Region(20, 2)

MCMemories == { <<Region(0, 20), Region(22, 10)>>, <<Region(0, 0)>> }

\* With the DTB below the device boot leaves one table in the pool, with the
\* DTB above it two: walks that need none, one and two of them.
MCReservations == { <<MCKernelImage, Region(d, 1), MCWindow, Region(b, 1)>> : d \in {18, 22}, b \in {20, 25, 27, 31} }

\* Null page, taken page, free pages below present and missing tables, not
\* aligned, out of range; no permission; no address space, no such slot.
MCMapArgs == {<<va, "RW", 2>> : va \in {0, 6, 8, 9, 16, 32}}
               \cup {<<8, "RO", 2>>, <<8, "none", 2>>, <<8, "RW", 0>>, <<8, "RW", CNODE_SLOTS>>}
=============================================================================
