------------------------------- MODULE MCFdt --------------------------------
(* Streams of any length, three nodes deep, over words below 3.             *)
EXTENDS FdtTree

\* reg: one and two entries with either number of cells, an empty region, a
\* sum that overflows, more entries than there is room for, no length that fits.
MCProps ==
  {<<"#address-cells", v>> : v \in {<<0>>, <<1>>}}
  \cup {<<"#size-cells", v>> : v \in {<< >>, <<2>>}}
  \cup {<<"reg", v>> : v \in {<< >>, <<0, 2, 1>>, <<2, 0, 0, 1>>, <<2, 1, 1, 0, 1, 1>>, <<2, 2, 2>>}}
  \cup {<<"seed", <<1, 1, 1>>>>}

\* The end, an entry without a size, a reservation and one that overflows.
MCEntries == { <<0, 0>>, <<2, 0>>, <<3, 2>>, <<8, 1>> }
=============================================================================
