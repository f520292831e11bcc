------------------------------ MODULE FdtTree -------------------------------
(***************************************************************************)
(* The parser of Fdt beside the tree that the stream of tokens describes.   *)
(* The parser has a depth and three flags; here the path of open nodes is   *)
(* kept, with the cells and the reg values of the nodes that matter, and    *)
(* what they say is worked out only when a node closes, as the device tree  *)
(* specification means it. The variables of this module never influence the *)
(* parser; MaxRegs only ends the streams that are looked at.                *)
(***************************************************************************)
EXTENDS Fdt

CONSTANT MaxRegs  \* the reg properties a stream holds for each of the lists

VARIABLES
  path,        \* names of the open nodes
  hasChild,    \* the depths whose open node has had a subnode; 0 is the stream's
  conforms,    \* properties came before subnodes and there was one root
  cellsOf,     \* the cells of the root and of /reserved-memory
  memRegs,     \* the reg values of /memory nodes
  rsvRegs,     \* those of the children of the open /reserved-memory
  wantReserved,
  offered      \* words of seed that /chosen offered, up to MAX_ENTROPY

treevars == <<path, hasChild, conforms, cellsOf, memRegs, rsvRegs, wantReserved, offered>>

Root == <<"">>
Rsv == <<"", "reserved-memory">>

Parent(nodes) == SubSeq(nodes, 1, Len(nodes) - 1)

\* Entry k of a reg value as the device tree specification defines it: the
\* cells are digits of a number in base B, the most significant first.
Number(value, from, n) == IF n = 2 THEN (value[from] * B) + value[from + 1] ELSE value[from]
Entry(value, c, k) ==
  LET at == (k - 1) * (c[1] + c[2]) IN
  [base |-> Number(value, at + 1, c[1]), size |-> Number(value, at + c[1] + 1, c[2])]

\* The entries of a value that are not empty, and those of several values.
Decode(value, c) ==
  LET some[k \in 0 .. Len(value) \div (c[1] + c[2])] ==
        IF k = 0 THEN << >>
        ELSE IF Entry(value, c, k).size = 0 THEN some[k - 1]
        ELSE Append(some[k - 1], Entry(value, c, k))
  IN  some[Len(value) \div (c[1] + c[2])]
DecodeAll(values, c) ==
  LET all[k \in 0..Len(values)] == IF k = 0 THEN << >> ELSE all[k - 1] \o Decode(values[k], c)
  IN  all[Len(values)]

\* What a node without the properties has.
DefaultCells == [root |-> <<2, 1>>, rsv |-> <<2, 1>>]

DropTree ==
  /\ path' = << >> /\ hasChild' = {} /\ conforms' = TRUE
  /\ cellsOf' = DefaultCells
  /\ memRegs' = << >> /\ rsvRegs' = << >> /\ wantReserved' = << >> /\ offered' = 0

\* The tree follows the parser as long as it has not rejected the stream; of
\* a stream that does not conform only the path and the seed.
Follow(tree) == IF phase' \in Errors THEN DropTree ELSE tree
Collect(list, more) == IF conforms' THEN list \o more ELSE << >>

TreeBegin(name) ==
  /\ path' = Append(path, name)
  /\ hasChild' = (hasChild \cup {Len(path)}) \ {Len(path) + 1}
  /\ conforms' = (conforms /\ (path = << >> => 0 \notin hasChild))
  /\ cellsOf' = IF ~conforms' THEN DefaultCells
                ELSE IF Append(path, name) = Rsv THEN [cellsOf EXCEPT !.rsv = cellsOf.root]
                ELSE cellsOf
  /\ memRegs' = Collect(memRegs, << >>)
  /\ wantReserved' = Collect(wantReserved, << >>)
  /\ UNCHANGED <<rsvRegs, offered>>

TreeEnd ==
  /\ path' = Parent(path)
  /\ UNCHANGED <<hasChild, conforms, cellsOf, memRegs, offered>>
  /\ IF path = Rsv THEN /\ wantReserved' = Collect(wantReserved, DecodeAll(rsvRegs, cellsOf.rsv))
                        /\ rsvRegs' = << >>
     ELSE UNCHANGED <<wantReserved, rsvRegs>>

SetCell(c, name, v) == IF name = "#address-cells" THEN <<v, c[2]>> ELSE <<c[1], v>>

TreeProp(name, value) ==
  LET one(at) == IF at THEN <<value>> ELSE << >>
      set == IsCells(name) /\ path \in {Root, Rsv}
  IN
  /\ conforms' = (conforms /\ (set => Len(path) \notin hasChild))
  /\ cellsOf' = IF ~conforms' THEN DefaultCells
                ELSE IF ~set THEN cellsOf
                ELSE IF path = Root THEN [cellsOf EXCEPT !.root = SetCell(@, name, value[1])]
                ELSE [cellsOf EXCEPT !.rsv = SetCell(@, name, value[1])]
  /\ memRegs' = Collect(memRegs, one(name = "reg" /\ path = <<"", "memory">>))
  /\ rsvRegs' = Collect(rsvRegs, one(name = "reg" /\ Len(path) = 3 /\ Parent(path) = Rsv))
  /\ wantReserved' = Collect(wantReserved, << >>)
  /\ offered' = IF name # "seed" \/ path # <<"", "chosen">> THEN offered
                ELSE IF offered + Len(value) < MAX_ENTROPY THEN offered + Len(value) ELSE MAX_ENTROPY
  /\ UNCHANGED <<path, hasChild>>

\* As in parse, the size 0 entries of the block are no reservations.
TreeReserve(base, size) ==
  /\ wantReserved' = IF size = 0 THEN wantReserved ELSE Append(wantReserved, [base |-> base, size |-> size])
  /\ UNCHANGED <<path, hasChild, conforms, cellsOf, memRegs, rsvRegs, offered>>

TreeInit ==
  /\ FdtInit
  /\ path = << >> /\ hasChild = {} /\ conforms = TRUE
  /\ cellsOf = DefaultCells
  /\ memRegs = << >> /\ rsvRegs = << >> /\ wantReserved = << >> /\ offered = 0

\* The bound on the reg properties that are kept: a conforming stream has no
\* more of them. One that does not conform keeps none and goes on.
WithinBound == Len(memRegs) <= MaxRegs /\ Len(rsvRegs) <= MaxRegs

TreeNext ==
  \/ parse /\ Follow(UNCHANGED treevars)
  \/ Malformed /\ DropTree
  \/ \E e \in Entries : memreserve(e[1], e[2]) /\ Follow(TreeReserve(e[1], e[2]))
  \/ \E name \in NodeNames : begin_node(name) /\ Follow(TreeBegin(name))
  \/ end_node /\ Follow(TreeEnd)
  \/ \E p \in Props :
       /\ prop(p[1], p[2])
       /\ Follow(TreeProp(p[1], p[2]))
       /\ WithinBound'
  \/ fdt_end /\ Follow(UNCHANGED treevars)

TreeSpec == TreeInit /\ [][TreeNext]_<<fdtvars, treevars>>

-----------------------------------------------------------------------------

Region == [base : 0..Limit-1, size : 1..Limit-1]

\* The parser knows where it is: its depth and flags say which nodes are open
\* after any sequence of nested and closed nodes.
FlagsFollowPath ==
  phase \notin Errors =>
    /\ depth = Len(path)
    /\ memory_depth = IF Len(path) >= 2 /\ path[2] = "memory" THEN 2 ELSE 0
    /\ chosen_depth = IF Len(path) >= 2 /\ path[2] = "chosen" THEN 2 ELSE 0
    /\ rsv_node = (Len(path) >= 2 /\ path[2] = "reserved-memory")

\* What parse returns is what the tree says: exactly the /memory regions, the
\* reservation block followed by the static children of /reserved-memory, both
\* in the document's order and read with the cells of the right node, and the
\* seed up to its limit. A stream whose root is left open is never accepted.
ResultIsDocument ==
  phase = "done" =>
    /\ path = << >>
    /\ conforms => /\ regions = DecodeAll(memRegs, cellsOf.root)
                   /\ reserved = wantReserved
    /\ entropy_len = offered

\* The regions that parse returns can be summed without a check, as
\* check_memory_map and pick_window do: none is empty, none passes the end of
\* the address space, and there is one. However many the tree offers, the fixed
\* arrays of BootInfo hold them, and the entropy.
RegionsUsable ==
  /\ Len(regions) <= MAX_MEM_REGIONS /\ Len(reserved) <= MAX_RSV_REGIONS
  /\ entropy_len <= MAX_ENTROPY
  /\ phase = "done" =>
    /\ regions # << >>
    /\ \A list \in {regions, reserved} : \A i \in DOMAIN list :
         list[i] \in Region /\ list[i].base + list[i].size < Limit
=============================================================================
