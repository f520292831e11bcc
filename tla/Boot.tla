-------------------------------- MODULE Boot --------------------------------
(***************************************************************************)
(* kernel_main of kernel/src/main.rs, from the parsed DTB to the hand-over: *)
(* the memory map is checked against the devices, a boot window is picked,  *)
(* the root task is loaded into it, and bootstrap makes untyped memory of   *)
(* the rest. Every stage that fails parks the core.                         *)
(*                                                                         *)
(* One turn of the loop in pick_window is one action.                      *)
(***************************************************************************)
EXTENDS Capabilities, FiniteSets

CONSTANTS
  KernelImage,  \* where the kernel lies; aligned
  Dtbs,         \* where the DTB may lie; parse rejects one in the kernel image
  Firmwares,    \* the lists of reservations a DTB may hold
  Devices,      \* device_windows()
  WINDOW_SIZE,
  ROUNDS        \* 64

Apart(r, s) == end(r) <= s.base \/ end(s) <= r.base

ASSUME BootAssumption ==
  /\ KernelImage \in PhysRegion /\ ~BadRegion(KernelImage)
  /\ Dtbs \subseteq PhysRegion
  /\ \A d \in Dtbs : Apart(d, KernelImage) /\ ~BadRegion(d)
  /\ Firmwares \subseteq Seq(PhysRegion)
  /\ \A f \in Firmwares : \A i \in DOMAIN f : ~BadRegion(f[i])
  /\ Devices \in Seq(PhysRegion)
  /\ WINDOW_SIZE \in 1..Limit-1 /\ WINDOW_SIZE % G = 0
  /\ ROUNDS \in Nat

\* BootInfo holds at most 8 + 8 regions.
ASSUME RoundsAssumption ==
  \A f \in Firmwares, m \in Memories : 1 + Len(f) + Len(m) < ROUNDS

VARIABLES
  stage,     \* where kernel_main is
  dtb,
  firmware,
  start,     \* of the window that pick_window tries
  round      \* turns of its loop so far

bootvars == <<capvars, stage, dtb, firmware, start, round>>

Stages == {"check_memory_map", "irq_init", "pick_window", "spawn_root", "bootstrap",
           "check_user_wx", "handoff", "park", "no_window"}  \* no_window: parked by pick_window

\* The next stage, with nothing but the stage changed.
Goto(s) ==
  /\ stage' = s
  /\ UNCHANGED <<capvars, dtb, firmware, start, round>>

\* Only the first device is looked at.
MapClash_mutant == \E i \in DOMAIN memory : ~Apart(memory[i], Devices[1])

\* Memory meets a device; an empty device window is a placeholder.
MapClash ==
  \E i \in DOMAIN memory, d \in DOMAIN Devices :
    Devices[d].size > 0 /\ ~Apart(memory[i], Devices[d])

check_memory_map ==
  /\ stage = "check_memory_map"
  /\ Goto(IF MapClash THEN "park" ELSE "irq_init")

\* verify_root_task, the PAC keys and irq::init succeed or park.
irq_init ==
  /\ stage = "irq_init"
  /\ \/ Goto("park")
     \/ /\ align_up(end(KernelImage)) < Limit
        /\ stage' = "pick_window"
        /\ start' = align_up(end(KernelImage))
        /\ UNCHANGED <<capvars, dtb, firmware, round>>

-----------------------------------------------------------------------------
(* pick_window *)

Obstacles == <<dtb>> \o firmware

\* Moves on by a granule at a time.
Bump_mutant(stop) ==
  IF \E i \in DOMAIN Obstacles : end(Obstacles[i]) > start /\ Obstacles[i].base < stop
  THEN start + G ELSE start

\* One pass over the obstacles: start moves past each that the window [start,
\* stop) meets; stop is not moved along. Limit stands for an overflow.
Pass(stop) ==
  LET past[k \in 0..Len(Obstacles)] ==
        IF k = 0 THEN start
        ELSE IF past[k-1] < Limit /\ end(Obstacles[k]) > past[k-1] /\ Obstacles[k].base < stop
             THEN align_up(end(Obstacles[k]))
             ELSE past[k-1]
  IN  past

Bump(stop) == Pass(stop)[Len(Obstacles)]

Fits(s) == \E i \in DOMAIN memory : s >= memory[i].base /\ s + WINDOW_SIZE <= end(memory[i])

HigherBases == {memory[i].base : i \in DOMAIN memory} \cap {b \in 0..Limit-1 : b > start}

\* The first in the list instead of the lowest.
NextBase_mutant ==
  memory[CHOOSE i \in DOMAIN memory : memory[i].base > start /\ \A j \in 1..i-1 : memory[j].base <= start].base
NextBase == CHOOSE b \in HigherBases : \A c \in HigherBases : b <= c

\* The window moves to start s, or there is none.
Advance(s) ==
  /\ IF s < Limit THEN start' = s /\ UNCHANGED stage ELSE stage' = "no_window" /\ UNCHANGED start
  /\ round' = round + 1
  /\ UNCHANGED <<capvars, dtb, firmware>>

\* Takes the window although it was moved.
pick_window_mutant ==
  /\ stage = "pick_window"
  /\ IF Bump(start + WINDOW_SIZE) < Limit /\ Fits(Bump(start + WINDOW_SIZE))
     THEN /\ start' = Bump(start + WINDOW_SIZE)
          /\ stage' = "spawn_root"
          /\ UNCHANGED <<capvars, dtb, firmware, round>>
     ELSE Goto("no_window")

pick_window ==
  /\ stage = "pick_window"
  /\ LET stop == start + WINDOW_SIZE IN
     \/ (round = ROUNDS \/ stop >= Limit) /\ Goto("no_window")
     \/ /\ round < ROUNDS /\ stop < Limit
        /\ Bump(stop) # start
        /\ Advance(Bump(stop))
     \/ /\ round < ROUNDS /\ stop < Limit
        /\ Bump(stop) = start
        /\ Fits(start)
        /\ Goto("spawn_root")
     \/ /\ round < ROUNDS /\ stop < Limit
        /\ Bump(stop) = start
        /\ ~Fits(start)
        /\ IF HigherBases = {} THEN Goto("no_window")
           ELSE Advance(align_up(NextBase))

Window == [base |-> start, size |-> WINDOW_SIZE]

\* map_kernel_window, FrameAlloc and spawn_root succeed or park; then the
\* reservations of bootstrap are put together.
spawn_root ==
  /\ stage = "spawn_root"
  /\ \/ Goto("park")
     \/ /\ stage' = "bootstrap"
        /\ reserved' = <<KernelImage, dtb, Window>> \o firmware
        /\ UNCHANGED <<memory, slots, region, cursor, phase, dtb, firmware, start, round>>

bootstrap ==
  /\ stage = "bootstrap"
  /\ populate \/ push_untypeds
  /\ stage' = CASE phase' = "run" -> "check_user_wx"
                [] phase' \in {"BadRegion", "OutOfSlots"} -> "park"
                [] OTHER -> stage
  /\ UNCHANGED <<dtb, firmware, start, round>>

\* TTBR0 is switched and the user mappings are checked with AT.
check_user_wx ==
  /\ stage = "check_user_wx"
  /\ Goto("handoff") \/ Goto("park")

\* The root task runs, or the core is parked.
BootOver ==
  /\ stage \in {"handoff", "park", "no_window"}
  /\ UNCHANGED bootvars

BootInit ==
  /\ memory \in Memories
  /\ dtb \in Dtbs
  /\ firmware \in Firmwares
  /\ reserved = << >>
  /\ slots = << >>
  /\ region = 0 /\ cursor = 0 /\ phase = "populate"
  /\ stage = "check_memory_map"
  /\ start = 0
  /\ round = 0

BootNext == check_memory_map \/ irq_init \/ pick_window \/ spawn_root \/ bootstrap
            \/ check_user_wx \/ BootOver

BootSpec == BootInit /\ [][BootNext]_bootvars /\ WF_bootvars(BootNext)

-----------------------------------------------------------------------------

\* A start that would do: aligned, past the kernel, clear of every obstacle
\* and inside one memory region.
GoodStart(s) ==
  /\ s % G = 0 /\ s >= end(KernelImage)
  /\ s + WINDOW_SIZE < Limit
  /\ Fits(s)
  /\ \A i \in DOMAIN Obstacles : Apart([base |-> s, size |-> WINDOW_SIZE], Obstacles[i])

\* pick_window finds the lowest window there is: it neither settles for one
\* that meets the DTB or a reservation, nor skips one.
LowestWindow ==
  stage \in {"spawn_root", "bootstrap", "check_user_wx", "handoff"} =>
    GoodStart(start) /\ \A s \in 0..start-1 : ~GoodStart(s)

\* While pick_window searches it has passed no good start, and it gives up
\* only when there is none: a boot never fails for want of a window that exists.
NothingSkipped ==
  /\ stage = "pick_window" => \A s \in 0..start-1 : ~GoodStart(s)
  /\ stage = "no_window" => \A s \in 0..Limit-1 : ~GoodStart(s)

\* Every obstacle and every memory region costs at most one turn, so the 64
\* turns are enough for the 1 + 8 obstacles and 8 regions a DTB can hold.
TurnsSuffice == round <= Len(Obstacles) + Len(memory)

\* Memory that the root task is given is the kernel's no longer: an untyped
\* has no address in common with the image, the DTB, the boot window, the
\* firmware's reservations or a device.
NothingOwnedIsUntyped ==
  stage = "handoff" => \A i \in Untypeds :
    /\ \A r \in {KernelImage, dtb, Window} : Apart(slots[i], r)
    /\ \A j \in DOMAIN firmware : Apart(slots[i], firmware[j])
    /\ \A d \in DOMAIN Devices : Devices[d].size > 0 => Apart(slots[i], Devices[d])

\* A memory region ends in at most one untyped and a reservation cuts off at
\* most one more: 4 + 8 + 3 + 8 capabilities always fit the 32 slots.
SlotsSuffice == Cardinality(Untypeds) <= Len(memory) + Len(reserved)

\* The boot comes to an end: the root task runs or the core is parked.
BootEnds == <>(stage \in {"handoff", "park", "no_window"})
=============================================================================
