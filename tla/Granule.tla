------------------------------- MODULE Granule -------------------------------
(* GRANULE of crates/k0-mm: 4 KiB or 16 KiB, the size of a page, of a page   *)
(* table and of every kernel object.                                         *)
EXTENDS Integers

CONSTANT G

ASSUME GranuleAssumption == G \in Nat \ {0}

\* (a + g - 1) & !(g - 1)
align_up(a) == ((a + G - 1) \div G) * G
=============================================================================
