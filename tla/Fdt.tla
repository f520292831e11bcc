-------------------------------- MODULE Fdt ---------------------------------
(***************************************************************************)
(* The device tree parser of crates/k0-boot/src/fdt.rs: the memory          *)
(* reservation block, then the structure block as a stream of tokens.       *)
(*                                                                         *)
(* A token of the stream is an action; the stream may hold any token next   *)
(* and may break off anywhere. A property's value is a sequence of 32-bit   *)
(* words, here the numbers below B, so that two cells make a number below   *)
(* Limit. Offsets are left out: every token moves on, and what lies outside *)
(* the blob is read as the error Malformed. FDT_NOP changes nothing.        *)
(***************************************************************************)
EXTENDS Integers, Sequences

CONSTANTS
  B,                \* 2^32
  MAX_MEM_REGIONS, MAX_RSV_REGIONS, MAX_ENTROPY, MAX_DEPTH,
  NodeNames,        \* the names of nodes a stream may hold
  Props,            \* the properties a stream may hold: name and value
  Entries           \* the entries the reservation block may hold

Limit == B * B

ASSUME FdtAssumption ==
  /\ B \in Nat /\ B > 2
  /\ MAX_MEM_REGIONS \in Nat /\ MAX_RSV_REGIONS \in Nat /\ MAX_ENTROPY \in Nat /\ MAX_DEPTH \in Nat
  /\ \A p \in Props : p[2] \in Seq(0..B-1)
  /\ \A e \in Entries : e[1] \in 0..Limit-1 /\ e[2] \in 0..Limit-1

Errors == {"Malformed", "BadStructure", "TooDeep", "UnsupportedCells", "BadReg", "TooManyRegions", "NoMemory"}

VARIABLES
  phase,                          \* "header", "memreserve", "struct", "done" or the error
  regions, reserved, entropy_len, \* BootInfo
  addr_cells, size_cells,
  depth,
  memory_depth, chosen_depth,     \* 0 for None
  rsv_node, rsv_addr_cells, rsv_size_cells

info == <<regions, reserved, entropy_len>>
cells == <<addr_cells, size_cells>>
rsv == <<rsv_node, rsv_addr_cells, rsv_size_cells>>
fdtvars == <<phase, info, cells, depth, memory_depth, chosen_depth, rsv>>

\* What parse_blob starts from.
FdtInit ==
  /\ phase = "header"
  /\ regions = << >> /\ reserved = << >> /\ entropy_len = 0
  /\ addr_cells = 2 /\ size_cells = 1
  /\ depth = 0 /\ memory_depth = 0 /\ chosen_depth = 0
  /\ rsv_node = FALSE /\ rsv_addr_cells = 2 /\ rsv_size_cells = 1

\* The caller gets the error and nothing else: all the rest is dropped.
Reject(error) ==
  /\ phase' = error
  /\ regions' = << >> /\ reserved' = << >> /\ entropy_len' = 0
  /\ addr_cells' = 2 /\ size_cells' = 1
  /\ depth' = 0 /\ memory_depth' = 0 /\ chosen_depth' = 0
  /\ rsv_node' = FALSE /\ rsv_addr_cells' = 2 /\ rsv_size_cells' = 1

\* dtb_span, parse and the head of parse_blob: the header is taken or rejected.
parse ==
  /\ phase = "header"
  /\ \/ Reject("Malformed")
     \/ phase' = "memreserve" /\ UNCHANGED <<info, cells, depth, memory_depth, chosen_depth, rsv>>

\* An entry of the reservation block: its end, one without a size, or a
\* reservation (push_reserved).
memreserve(base, size) ==
  /\ phase = "memreserve"
  /\ \/ /\ base = 0 /\ size = 0
        /\ phase' = "struct"
        /\ UNCHANGED <<info, cells, depth, memory_depth, chosen_depth, rsv>>
     \/ /\ base # 0 /\ size = 0
        /\ UNCHANGED fdtvars
     \/ /\ size # 0 /\ base + size >= Limit
        /\ Reject("BadReg")
     \/ /\ size # 0 /\ base + size < Limit
        /\ Len(reserved) = MAX_RSV_REGIONS
        /\ Reject("TooManyRegions")
     \/ /\ size # 0 /\ base + size < Limit
        /\ Len(reserved) < MAX_RSV_REGIONS
        /\ reserved' = Append(reserved, [base |-> base, size |-> size])
        /\ UNCHANGED <<phase, regions, entropy_len, cells, depth, memory_depth, chosen_depth, rsv>>

\* The block breaks off, or a token, a name or a length is not one.
Malformed ==
  /\ phase \in {"memreserve", "struct"}
  /\ Reject("Malformed")

-----------------------------------------------------------------------------

\* Looks for /memory at any depth.
MemoryDepth_mutant(name) == IF name = "memory" THEN depth + 1 ELSE memory_depth
MemoryDepth(name) == IF depth + 1 = 2 /\ name = "memory" THEN depth + 1 ELSE memory_depth

begin_node(name) ==
  /\ phase = "struct"
  /\ \/ depth + 1 > MAX_DEPTH /\ Reject("TooDeep")
     \/ depth + 1 <= MAX_DEPTH /\ depth = 0 /\ name # "" /\ Reject("BadStructure")
     \/ /\ depth + 1 <= MAX_DEPTH
        /\ depth = 0 => name = ""
        /\ depth' = depth + 1
        /\ memory_depth' = MemoryDepth(name)
        /\ chosen_depth' = IF depth + 1 = 2 /\ name = "chosen" THEN depth + 1 ELSE chosen_depth
        /\ IF depth + 1 = 2 /\ name = "reserved-memory"
           THEN rsv_node' = TRUE /\ rsv_addr_cells' = addr_cells /\ rsv_size_cells' = size_cells
           ELSE UNCHANGED rsv
        /\ UNCHANGED <<phase, info, cells>>

end_node ==
  /\ phase = "struct"
  /\ \/ depth = 0 /\ Reject("BadStructure")
     \/ /\ depth > 0
        /\ memory_depth' = IF memory_depth = depth THEN 0 ELSE memory_depth
        /\ chosen_depth' = IF chosen_depth = depth THEN 0 ELSE chosen_depth
        /\ rsv_node' = (rsv_node /\ depth # 2)
        /\ depth' = depth - 1
        /\ UNCHANGED <<phase, info, cells, rsv_addr_cells, rsv_size_cells>>

-----------------------------------------------------------------------------
(* Values *)

read_cells(words) ==
  LET acc[n \in 0..Len(words)] == IF n = 0 THEN 0 ELSE acc[n - 1] * B + words[n]
  IN  acc[Len(words)]

\* One turn of parse_reg's loop, on what the turns before it left.
RegEntry_mutant(out, max, base, size) ==
  IF out.error # "" THEN out
  ELSE IF base + size >= Limit THEN [out EXCEPT !.error = "BadReg"]
  ELSE IF Len(out.list) = max THEN [out EXCEPT !.error = "TooManyRegions"]
  ELSE [out EXCEPT !.list = Append(@, [base |-> base, size |-> size])]
RegEntry(out, max, base, size) ==
  IF out.error # "" \/ size = 0 THEN out
  ELSE IF base + size >= Limit THEN [out EXCEPT !.error = "BadReg"]
  ELSE IF Len(out.list) = max THEN [out EXCEPT !.error = "TooManyRegions"]
  ELSE [out EXCEPT !.list = Append(@, [base |-> base, size |-> size])]

\* The loop of parse_reg after k entries.
RegLoop(value, ac, sc, list, max) ==
  LET n == ac + sc
      out[k \in 0 .. Len(value) \div n] ==
        IF k = 0 THEN [list |-> list, error |-> ""]
        ELSE LET at == (k - 1) * n IN
             RegEntry(out[k - 1], max, read_cells(SubSeq(value, at + 1, at + ac)),
                                       read_cells(SubSeq(value, at + ac + 1, at + n)))
  IN  out

\* The list that value is added to, and the error, if any.
parse_reg(value, ac, sc, list, max) ==
  IF ac \notin 1..2 \/ sc \notin 1..2 THEN [list |-> list, error |-> "UnsupportedCells"]
  ELSE IF value = << >> \/ Len(value) % (ac + sc) # 0 THEN [list |-> list, error |-> "BadReg"]
  ELSE RegLoop(value, ac, sc, list, max)[Len(value) \div (ac + sc)]

push_regions(value) ==
  LET out == parse_reg(value, addr_cells, size_cells, regions, MAX_MEM_REGIONS) IN
  IF out.error # "" THEN Reject(out.error)
  ELSE /\ regions' = out.list
       /\ UNCHANGED <<phase, reserved, entropy_len, cells, depth, memory_depth, chosen_depth, rsv>>

push_reserved_regions(value) ==
  LET out == parse_reg(value, rsv_addr_cells, rsv_size_cells, reserved, MAX_RSV_REGIONS) IN
  IF out.error # "" THEN Reject(out.error)
  ELSE /\ reserved' = out.list
       /\ UNCHANGED <<phase, regions, entropy_len, cells, depth, memory_depth, chosen_depth, rsv>>

Taken(n) == IF n <= MAX_ENTROPY - entropy_len THEN n ELSE MAX_ENTROPY - entropy_len

push_entropy(value) ==
  /\ entropy_len' = entropy_len + Taken(Len(value))
  /\ UNCHANGED <<phase, regions, reserved, cells, depth, memory_depth, chosen_depth, rsv>>

-----------------------------------------------------------------------------

\* Takes the cells of /reserved-memory for the root's.
RootCells_mutant == TRUE
RootCells == depth = 1

\* Sets the cells of the root, or of /reserved-memory.
cell_prop(name, value) ==
  IF Len(value) # 1 THEN Reject("UnsupportedCells")
  ELSE /\ addr_cells' = IF RootCells /\ name = "#address-cells" THEN value[1] ELSE addr_cells
       /\ size_cells' = IF RootCells /\ name = "#size-cells" THEN value[1] ELSE size_cells
       /\ rsv_addr_cells' = IF ~RootCells /\ name = "#address-cells" THEN value[1] ELSE rsv_addr_cells
       /\ rsv_size_cells' = IF ~RootCells /\ name = "#size-cells" THEN value[1] ELSE rsv_size_cells
       /\ UNCHANGED <<phase, info, depth, memory_depth, chosen_depth, rsv_node>>

IsCells(name) == name \in {"#address-cells", "#size-cells"}

\* What a property is taken for: the first of the tests that holds.
Use(name) ==
  IF depth = 0 THEN "outside"
  ELSE IF depth = 1 THEN IF IsCells(name) THEN "cells" ELSE "none"
  ELSE IF memory_depth = depth /\ name = "reg" THEN "memory"
  ELSE IF rsv_node /\ depth = 2 THEN IF IsCells(name) THEN "cells" ELSE "none"
  ELSE IF rsv_node /\ depth = 3 /\ name = "reg" THEN "reserved"
  ELSE IF chosen_depth = depth /\ name = "seed" THEN "entropy"
  ELSE "none"

prop(name, value) ==
  /\ phase = "struct"
  /\ \/ Use(name) = "outside" /\ Reject("BadStructure")
     \/ Use(name) = "cells" /\ cell_prop(name, value)
     \/ Use(name) = "memory" /\ push_regions(value)
     \/ Use(name) = "reserved" /\ push_reserved_regions(value)
     \/ Use(name) = "entropy" /\ push_entropy(value)
     \/ Use(name) = "none" /\ UNCHANGED fdtvars

fdt_end ==
  /\ phase = "struct"
  /\ \/ depth # 0 /\ Reject("BadStructure")
     \/ depth = 0 /\ regions = << >> /\ Reject("NoMemory")
     \/ /\ depth = 0 /\ regions # << >>
        /\ phase' = "done"
        /\ UNCHANGED <<info, cells, depth, memory_depth, chosen_depth, rsv>>

=============================================================================
