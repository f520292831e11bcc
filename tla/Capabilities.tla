---------------------------- MODULE Capabilities ----------------------------
(***************************************************************************)
(* The root CNode of k0, crates/k0-cap: bootstrap cuts the untyped memory  *)
(* out of the memory map, retype carves kernel objects out of it. The CNode *)
(* is a sequence of capabilities; slot s of the code is slots[s + 1].      *)
(*                                                                         *)
(* The loop of push_untypeds is one action per turn. What retype's prep    *)
(* callback returns is a parameter here; module Objects supplies it.       *)
(*                                                                         *)
(* Operators named ..._mutant are wrong on purpose: each is a plausible    *)
(* mistake in the definition it precedes, and breaks a property below.     *)
(***************************************************************************)
EXTENDS Granule, Sequences

CONSTANTS
  Limit,        \* 2^64: the sums of addresses that overflow
  CNODE_SLOTS,
  Memories,     \* the memory maps a DTB may report, sequences of regions
  Reservations  \* what bootstrap must leave out: kernel image, DTB, window, ...

PhysRegion == [base : 0..Limit-1, size : 0..Limit-1]

ASSUME CapAssumption ==
  /\ Limit \in Nat /\ Limit % G = 0
  /\ CNODE_SLOTS \in Nat /\ CNODE_SLOTS >= 4
  /\ Memories \subseteq Seq(PhysRegion)
  /\ Reservations \subseteq Seq(PhysRegion)

VARIABLES
  memory,    \* arguments of bootstrap
  reserved,
  slots,     \* CNode.slots[..used]
  region,    \* the memory region that push_untypeds is at
  cursor,
  phase      \* "populate", "untyped", "run", or the error bootstrap returned

capvars == <<memory, reserved, slots, region, cursor, phase>>

ObjKind == {"Frame", "PageTable", "Tcb", "Endpoint"}

Untyped(b, n) == [type |-> "Untyped", base |-> b, size |-> n, used |-> 0]

\* A new object; mapped is also the installed flag of a PageTable.
Object(kind, pa) == [type |-> kind, base |-> pa, mapped |-> FALSE]

FixedCaps == << [type |-> "Empty"], [type |-> "RootTcb"],
                [type |-> "AddrSpace"], [type |-> "Console"] >>

end(r) == r.base + r.size

-----------------------------------------------------------------------------
(* Bootstrap *)

BadRegion(r) == r.size = 0 \/ end(r) >= Limit

\* Without the test of the regions against each other.
BadMemory_mutant == \E i \in DOMAIN memory : BadRegion(memory[i])

BadMemory ==
  \/ \E i \in DOMAIN memory : BadRegion(memory[i])
  \/ \E i, j \in DOMAIN memory :
       j < i /\ memory[j].base < end(memory[i]) /\ memory[i].base < end(memory[j])

\* Goes on with memory region i, or is done.
EnterRegion(i) ==
  /\ region' = i
  /\ phase' = IF i > Len(memory) THEN "run" ELSE "untyped"
  /\ cursor' = IF i > Len(memory) THEN 0 ELSE memory[i].base

Fail(error) ==
  /\ phase' = error
  /\ UNCHANGED <<slots, region, cursor>>

populate ==
  /\ phase = "populate"
  /\ \/ BadMemory /\ Fail("BadRegion")
     \/ ~BadMemory /\ slots' = FixedCaps /\ EnterRegion(1)
  /\ UNCHANGED <<memory, reserved>>

\* The reservations that still cut into what is left of m.
Ahead(m) == {i \in DOMAIN reserved : end(reserved[i]) > cursor /\ reserved[i].base < end(m)}

\* The first in the list instead of the lowest.
LowestAhead_mutant(m) == CHOOSE i \in Ahead(m) : \A j \in Ahead(m) : i <= j

LowestAhead(m) ==
  CHOOSE i \in Ahead(m) : \A j \in Ahead(m) :
    \/ reserved[i].base < reserved[j].base
    \/ reserved[i].base = reserved[j].base /\ i <= j

\* The free memory from cursor up to stop becomes an untyped, if there is any.
Piece(stop) == IF stop > cursor THEN <<Untyped(cursor, stop - cursor)>> ELSE <<>>

Room(piece) == Len(slots) + Len(piece) <= CNODE_SLOTS

\* The rest of m, with no reservation left to cut it.
PushRest(m) ==
  /\ Ahead(m) = {}
  /\ \/ ~Room(Piece(end(m))) /\ Fail("OutOfSlots")
     \/ /\ Room(Piece(end(m)))
        /\ slots' = slots \o Piece(end(m))
        /\ EnterRegion(region + 1)

\* Stays in the region when a reservation reaches past its end.
PushBelow_mutant(m) ==
  /\ Ahead(m) # {}
  /\ LET r == reserved[LowestAhead(m)] IN
     /\ slots' = slots \o Piece(r.base)
     /\ cursor' = IF end(r) > end(m) THEN end(m) ELSE r.base
  /\ UNCHANGED <<region, phase>>

\* What lies below the next reservation; cursor moves past the reservation.
PushBelow(m) ==
  /\ Ahead(m) # {}
  /\ LET r == reserved[LowestAhead(m)] IN
     \/ ~Room(Piece(r.base)) /\ Fail("OutOfSlots")
     \/ /\ Room(Piece(r.base))
        /\ slots' = slots \o Piece(r.base)
        /\ IF end(r) >= end(m) THEN EnterRegion(region + 1)
           ELSE /\ cursor' = IF end(r) > cursor THEN end(r) ELSE cursor
                /\ UNCHANGED <<region, phase>>

\* One turn of the loop in push_untypeds.
push_untypeds ==
  /\ phase = "untyped"
  /\ IF \E i \in DOMAIN reserved : BadRegion(reserved[i]) THEN Fail("BadRegion")
     ELSE PushRest(memory[region]) \/ PushBelow(memory[region])
  /\ UNCHANGED <<memory, reserved>>

-----------------------------------------------------------------------------
(* Retype *)

mark(u) == u.base + u.used

\* Steps to the next granule even from an aligned watermark.
carve_mutant(u) == (mark(u) \div G) * G + G
carve(u) == align_up(mark(u))

\* Sums that wrap around.
Exhausted_mutant(u) == (carve(u) + G) % Limit > end(u)
Exhausted(u) ==
  \/ mark(u) + G - 1 >= Limit
  \/ carve(u) + G >= Limit
  \/ carve(u) + G > end(u)

\* The first check of retype that fails.
retype_check(s) ==
  IF s >= Len(slots) THEN "BAD_SLOT"
  ELSE IF slots[s + 1].type # "Untyped" THEN "NOT_UNTYPED"
  ELSE IF Len(slots) = CNODE_SLOTS THEN "OUT_OF_SLOTS"
  ELSE IF Exhausted(slots[s + 1]) THEN "EXHAUSTED"
  ELSE "ok"

\* Puts the object into the slot of the untyped.
commit_mutant(s, kind) == slots' = [slots EXCEPT ![s + 1] = Object(kind, carve(@))]

\* The watermark moves past the object, and the new capability is pushed.
commit(s, kind) ==
  LET u == slots[s + 1] IN
  slots' = Append([slots EXCEPT ![s + 1].used = carve(u) + G - u.base], Object(kind, carve(u)))

retype(s, kind, prep) ==
  /\ phase = "run"
  /\ IF retype_check(s) = "ok" /\ prep THEN commit(s, kind) ELSE UNCHANGED slots
  /\ UNCHANGED <<memory, reserved, region, cursor, phase>>

\* MAP has used the capability in slot s: cap_mut.
set_mapped(s) ==
  /\ phase = "run"
  /\ s < Len(slots) /\ slots[s + 1].type \in {"Frame", "PageTable"}
  /\ slots' = [slots EXCEPT ![s + 1].mapped = TRUE]
  /\ UNCHANGED <<memory, reserved, region, cursor, phase>>

-----------------------------------------------------------------------------

CapInit ==
  /\ memory \in Memories
  /\ reserved \in Reservations
  /\ slots = <<>>
  /\ region = 0
  /\ cursor = 0
  /\ phase = "populate"

\* A boot that bootstrap rejects parks.
CapPark ==
  /\ phase \in {"BadRegion", "OutOfSlots"}
  /\ UNCHANGED capvars

CapNext ==
  \/ populate \/ push_untypeds \/ CapPark
  \/ \E s \in 0..CNODE_SLOTS :
       set_mapped(s) \/ \E kind \in ObjKind, prep \in BOOLEAN : retype(s, kind, prep)

CapSpec == CapInit /\ [][CapNext]_capvars

-----------------------------------------------------------------------------

Within(a, r) == r.base <= a /\ a < end(r)

\* The addresses that may be handed out.
Free(a) ==
  /\ \E i \in DOMAIN memory : Within(a, memory[i])
  /\ \A i \in DOMAIN reserved : ~Within(a, reserved[i])

Untypeds == {i \in DOMAIN slots : slots[i].type = "Untyped"}
Objs == {i \in DOMAIN slots : slots[i].type \in ObjKind}

Extent(i) == [base |-> slots[i].base, size |-> G]

CapTypeOK ==
  /\ memory \in Memories
  /\ reserved \in Seq(PhysRegion)
  /\ slots \in Seq([type : {"Empty", "RootTcb", "AddrSpace", "Console"}]
                   \cup [type : {"Untyped"}, base : Nat, size : Nat, used : Nat]
                   \cup [type : ObjKind, base : Nat, mapped : BOOLEAN])
  /\ Len(slots) <= CNODE_SLOTS
  /\ region \in Nat
  /\ cursor \in Nat
  /\ phase \in {"populate", "untyped", "run", "BadRegion", "OutOfSlots"}

\* bootstrap turns exactly the memory outside every reservation into untyped
\* memory, whatever the order and overlaps of the reservations: none of it is
\* lost, and none of it is the kernel's.
UntypedIsFreeMemory ==
  phase = "run" =>
    \A a \in 0..Limit-1 : Free(a) <=> \E i \in Untypeds : Within(a, slots[i])

\* No address is in two untypeds, so none can be carved twice through them.
UntypedsDisjoint ==
  \A i, j \in Untypeds : i # j => end(slots[i]) <= slots[j].base \/ end(slots[j]) <= slots[i].base

\* Kernel objects are whole granules of free memory and never share an
\* address, from whichever untypeds and in whatever order retype carved them.
ObjectsDisjoint ==
  /\ \A i \in Objs : slots[i].base % G = 0 /\ \A a \in slots[i].base .. slots[i].base + G - 1 : Free(a)
  /\ \A i, j \in Objs : i # j =>
       slots[i].base + G <= slots[j].base \/ slots[j].base + G <= slots[i].base

\* Retype skips no granule: what lies below the watermark of an untyped and
\* is not an object is less than a granule.
NoGranuleLost ==
  \A i \in Untypeds : \A a \in slots[i].base .. mark(slots[i]) - 1 :
    a % G = 0 /\ a + G <= mark(slots[i]) => \E j \in Objs : slots[j].base = a

\* Once the boot is over a capability is never removed, moved or turned into
\* another; an untyped is only ever consumed upwards and a used frame or table
\* never becomes unused. The CNode never outgrows its slots, in the boot either.
CapsPersist ==
  [][/\ Len(slots') <= CNODE_SLOTS
     /\ phase = "run" =>
       /\ Len(slots) <= Len(slots')
       /\ \A i \in DOMAIN slots :
            CASE i \in Untypeds -> \E n \in slots[i].used .. slots[i].size : slots'[i] = [slots[i] EXCEPT !.used = n]
              [] i \in Objs -> slots'[i] \in {slots[i], [slots[i] EXCEPT !.mapped = TRUE]}
              [] OTHER -> slots'[i] = slots[i]]_capvars
=============================================================================
