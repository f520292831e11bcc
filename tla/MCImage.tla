------------------------------- MODULE MCImage -------------------------------
(* Granules of two bytes, segments aligned to two granules, as 4 KiB pages    *)
(* and 16 KiB segments are; 16 pages of user space.                          *)
EXTENDS Image

Load(va, off, filesz, memsz, flags) ==
  [type |-> "LOAD", flags |-> flags, offset |-> off, vaddr |-> va, filesz |-> filesz, memsz |-> memsz]

MCHeaders ==
  \* text, read-only data and data with a bss, some on forbidden places
  {Load(4, 1, 3, 3, {"R", "X"}), Load(4, 0, 5, 5, {"X"}), Load(8, 1, 3, 3, {"R", "X"}),
   Load(28, 1, 2, 2, {"R", "X"}), Load(28, 1, 3, 4, {"R", "X"}), Load(28, 1, 3, 6, {"R", "X"})} \cup
  {Load(va, 4, 2, 2, {"R"}) : va \in {0, 8, 12, 20}} \cup
  {Load(va, 2, 1, 6, {"R", "W"}) : va \in {8, 12, 16}} \cup
  {Load(20, 2, 1, 3, {"R", "W"}), Load(24, 0, 0, 2, {"R", "W"})} \cup
  \* headers that the build refuses or skips
  {Load(4, 0, 4, 4, {"R", "W", "X"}),
   Load(6, 0, 2, 2, {"R"}),
   Load(8, 0, 3, 2, {"R"}),
   Load(8, 7, 2, 2, {"R"}),
   Load(60, 0, 2, 3, {"R", "X"}),        \* its end rounds up to an overflow
   Load(60, 0, 2, 4, {"R", "X"}),
   Load(12, 0, 0, 0, {"R", "W"}),
   [Load(8, 0, 3, 2, {"R"}) EXCEPT !.type = "NOTE"]}
==============================================================================
