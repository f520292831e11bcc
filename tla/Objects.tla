------------------------------- MODULE Objects -------------------------------
(***************************************************************************)
(* RETYPE and MAP, kernel/src/main.rs: the capabilities composed with the  *)
(* page tables they act on. A boot has already built the kernel's tables   *)
(* (enable_paging, map_kernel_window) and the root task's address space     *)
(* (spawn_root), and bootstrap then fills the CNode.                       *)
(***************************************************************************)
EXTENDS Capabilities, PageTables

CONSTANTS
  KernelImage,  \* regions that the kernel has mapped for itself; the DTB is a
  Device,       \* reservation, the device is the MMIO window, outside memory
  Window,       \* the boot window, of which root-task frames are allocated
  ImageVA,      \* where the root task's image, stack and bootinfo are mapped,
  StackVA,      \* a granule each
  BootinfoVA,
  MapArgs       \* the arguments of MAP but for the slot: <<va, perm, aspace>>

VARIABLES
  pool,   \* the kernel's table pool
  utab,   \* what the granule frames hold, read as tables
  ret     \* x0 of the last RETYPE or MAP, or "park"

objvars == <<capvars, pool, utab, ret>>

-----------------------------------------------------------------------------
(* The boot *)

Root0 == 0
Root1 == 1

\* The DTB need not be aligned: its granules are mapped whole.
DtbBase(dtb) == (dtb.base \div G) * G
DtbLen(dtb) == align_up(end(dtb)) - DtbBase(dtb)

\* enable_paging: image, DTB and device, identity mapped and aliased. The
\* five segments of the image are one here, and so are the devices.
MapBoth(p, base, len, perm) ==
  IF p.r # "ok" THEN p
  ELSE LET q == pool_map_range(p.pool, Root0, base, len, perm) IN
       IF q.r # "ok" THEN q ELSE pool_map_range(q.pool, Root1, base, len, perm)

enable_paging(dtb) ==
  LET roots == [r |-> "ok", pool |-> [EmptyPool EXCEPT !.used = 2]] IN
  MapBoth(MapBoth(MapBoth(roots, KernelImage.base, KernelImage.size, "text"),
                  DtbBase(dtb), DtbLen(dtb), "ro"),
          Device.base, Device.size, "device")

\* ... and then the boot window.
BootPool(dtb) == map_kernel_window(enable_paging(dtb).pool, Root1, Window.base, Window.size)

Granules == {g * G : g \in 0 .. (Limit \div G) - 1}

\* The frames that spawn_root allocates: bootinfo, image, the root table and,
\* as they are needed, further tables and the stack.
spawn_root ==
  LET fa    == [r |-> "ok", next |-> Window.base, end |-> end(Window), root |-> 0,
                tabs |-> [f \in Granules |-> JunkTable]]
      bi    == alloc_contig(fa, 1)
      image == alloc_contig(bi, 1)
      us    == [alloc_contig(image, 1) EXCEPT !.root = image.next]
      text  == us_map_range(us, ImageVA, bi.next, G, "text")
      stack == alloc_contig(text, 1)
      done  == us_map_range(stack, StackVA, text.next, G, "RW")
  IN  us_map_range(done, BootinfoVA, fa.next, G, "RO")

UserRoot == spawn_root.root

\* Physical addresses have 48 bits, as TCR.IPS says: nothing lies past Top. The
\* arguments of MAP are registers.
ASSUME ObjAssumption ==
  /\ POOL_LEN >= 2
  /\ \A r \in {KernelImage, Device, Window} : r \in PhysRegion /\ end(r) <= Limit /\ end(r) <= Top
  /\ \A r \in Reservations : Len(r) >= 3 /\ align_up(end(r[2])) <= Limit /\ align_up(end(r[2])) <= Top
  /\ \A m \in Memories : \A i \in DOMAIN m : end(m[i]) <= Top
  /\ {ImageVA, StackVA, BootinfoVA} \subseteq Nat
  /\ \A a \in MapArgs : a[1] \in Nat /\ a[3] \in Nat

\* The constants describe a boot that gets this far.
ASSUME BootAssumption ==
  /\ spawn_root.r = "ok"
  /\ \A r \in Reservations : /\ r[1] = KernelImage /\ r[3] = Window
                             /\ enable_paging(r[2]).r = "ok" /\ BootPool(r[2]).r = "ok"

\* kernel_main lists the image, the DTB and the window first.
Dtb == reserved[2]

ObjInit ==
  /\ CapInit
  /\ pool = BootPool(Dtb).pool
  /\ utab = spawn_root.tabs
  /\ ret = "ok"

ObjBoot ==
  /\ populate \/ push_untypeds
  /\ UNCHANGED <<pool, utab, ret>>

-----------------------------------------------------------------------------
(* System calls *)

\* Forgets to clear the frame.
clear_mutant(frame) == utab
clear(frame) == [utab EXCEPT ![frame] = ZeroTable]

\* Commits whatever prep returned.
sys_retype_mutant(s, kind) ==
  /\ ret' = retype_check(s)
  /\ retype(s, kind, TRUE)
  /\ pool' = IF ret' = "ok" THEN map_kernel_window(pool, Root1, carve(slots[s + 1]), G).pool ELSE pool
  /\ UNCHANGED utab

\* sys_retype. prep maps the granule at its alias and clears it.
sys_retype(s, kind) ==
  LET check == retype_check(s)
      frame == carve(slots[s + 1])
      alias == map_kernel_window(pool, Root1, frame, G)
  IN
  \/ /\ check # "ok"
     /\ ret' = check
     /\ retype(s, kind, FALSE)
     /\ UNCHANGED <<pool, utab>>
  \/ /\ check = "ok"
     /\ alias.r # "ok"
     /\ ret' = "KERNEL_RESOURCE"
     /\ retype(s, kind, FALSE)
     /\ pool' = alias.pool
     /\ UNCHANGED utab
  \/ /\ check = "ok"
     /\ alias.r = "ok"
     /\ ret' = "ok"
     /\ retype(s, kind, TRUE)
     /\ pool' = alias.pool
     /\ utab' = clear(frame)

\* RETYPE with a type that is none.
sys_retype_bad_type ==
  /\ phase = "run"
  /\ ret' = "BAD_TYPE"
  /\ UNCHANGED <<capvars, pool, utab>>

mmu_err(r) ==
  IF r = "BadVA" THEN "BAD_VA"
  ELSE IF r = "Overlap" THEN "OVERLAP"
  ELSE IF r = "MissingTable" THEN "MISSING_TABLE"
  ELSE IF r = "BadTable" THEN "park"
  ELSE "KERNEL_RESOURCE"

MapFails(error) ==
  /\ phase = "run"
  /\ ret' = error
  /\ UNCHANGED <<capvars, pool, utab>>

\* Sets the flag before the walk.
MapReturns_mutant(s, walk) ==
  /\ set_mapped(s)
  /\ utab' = walk.tabs
  /\ ret' = IF walk.r = "ok" THEN "ok" ELSE mmu_err(walk.r)
  /\ UNCHANGED pool

\* What a walker did to the tables, and the flag that records it.
MapReturns(s, walk) ==
  \/ /\ walk.r # "ok"
     /\ MapFails(mmu_err(walk.r))
  \/ /\ walk.r = "ok"
     /\ set_mapped(s)
     /\ utab' = walk.tabs
     /\ ret' = "ok"
     /\ UNCHANGED pool

cap_type(s) == IF s < Len(slots) THEN slots[s + 1].type ELSE "None"

\* Does not look at the flag.
map_checked_mutant(s, perm) ==
  IF cap_type(s) = "Frame" /\ perm \notin {"RO", "RW"} THEN "BAD_PERM" ELSE "ok"

\* The checks of sys_map on the capability to map.
map_checked(s, perm) ==
  IF cap_type(s) = "None" THEN "BAD_SLOT"
  ELSE IF cap_type(s) \notin {"Frame", "PageTable"} THEN "BAD_CAP"
  ELSE IF slots[s + 1].mapped THEN "ALREADY_MAPPED"
  ELSE IF cap_type(s) = "Frame" /\ perm \notin {"RO", "RW"} THEN "BAD_PERM"
  ELSE "ok"

sys_map(s, va, perm, aspace) ==
  \/ cap_type(aspace) = "None" /\ MapFails("BAD_SLOT")
  \/ cap_type(aspace) \notin {"AddrSpace", "None"} /\ MapFails("BAD_CAP")
  \/ /\ cap_type(aspace) = "AddrSpace"
     /\ map_checked(s, perm) # "ok"
     /\ MapFails(map_checked(s, perm))
  \/ /\ cap_type(aspace) = "AddrSpace"
     /\ map_checked(s, perm) = "ok"
     /\ cap_type(s) = "Frame"
     /\ MapReturns(s, user_map_frame(utab, UserRoot, va, slots[s + 1].base, perm))
  \/ /\ cap_type(aspace) = "AddrSpace"
     /\ map_checked(s, perm) = "ok"
     /\ cap_type(s) = "PageTable"
     /\ MapReturns(s, user_install_table(utab, UserRoot, va, slots[s + 1].base))

Parked == ret = "park"

ObjPark ==
  /\ Parked \/ phase \in {"BadRegion", "OutOfSlots"}
  /\ UNCHANGED objvars

ObjNext ==
  \/ ObjBoot \/ ObjPark
  \/ /\ ~Parked /\ phase = "run"
     /\ \/ sys_retype_bad_type
        \/ \E s \in 0..CNODE_SLOTS, kind \in ObjKind : sys_retype(s, kind)
        \/ \E s \in 0..CNODE_SLOTS, a \in MapArgs : sys_map(s, a[1], a[2], a[3])

ObjSpec == ObjInit /\ [][ObjNext]_objvars

-----------------------------------------------------------------------------

OwnMemory == {g \in Granules : \E r \in {KernelImage, Window, Device, [base |-> DtbBase(Dtb), size |-> DtbLen(Dtb)]} : Within(g, r)}

ObjectAt(kinds, g) == \E i \in Objs : slots[i].type \in kinds /\ slots[i].base = g

\* The kernel's alias mapping holds exactly its own memory and the retyped
\* objects, each at its own address: no failed RETYPE leaves a page behind and
\* no later one finds its granule already mapped.
KernelMapsObjects ==
  \A g \in Pages :
    LET e == Translate(pool.tables, Root1, g) IN
    IF g \in OwnMemory \/ (g \in Granules /\ ObjectAt(ObjKind, g)) THEN e.to = g /\ e # Null ELSE e = Null

\* The pages of user memory: the root task's, and the mapped Frame objects.
UserPage(g) == g \in {Window.base, Window.base + G} \cup {Translate(spawn_root.tabs, UserRoot, StackVA).to}

Reaches(va, g) == LET e == Translate(utab, UserRoot, va) IN e # Null /\ e.to = g

\* What EL0 can reach are the root task's own pages and Frame objects marked
\* mapped, at one address each. Kernel memory, page tables, TCBs, endpoints and
\* memory still untyped are never reachable, and the flag of a Frame is true.
UserReachesFramesOnly ==
  /\ \A va \in Pages : LET e == Translate(utab, UserRoot, va) IN
       e # Null => /\ e.perm \in {"RO", "RW", "text"}
                   /\ UserPage(e.to) \/ \E i \in Objs : slots[i] = [type |-> "Frame", base |-> e.to, mapped |-> TRUE]
  /\ \A i \in Objs : slots[i].type = "Frame" /\ slots[i].mapped =>
       \E va \in Pages : \A vb \in Pages : Reaches(vb, slots[i].base) <=> vb = va

\* An installed PageTable is linked from exactly one entry of the user tables,
\* and one not installed from none: a frame is never a table at two levels.
TableLinkedOnce ==
  \A i \in Objs : slots[i].type = "PageTable" =>
    LET refs == {p \in Granules \X (0..Fan-1) :
                   /\ p[1] = UserRoot \/ ObjectAt({"PageTable"}, p[1]) \/ Within(p[1], Window)
                   /\ utab[p[1]][p[2]] = Entry(slots[i].base, "table")}
    IN  IF slots[i].mapped THEN \E p \in refs : refs = {p} ELSE refs = {}

\* The kernel never parks over "user page table corrupt": no sequence of RETYPE
\* and MAP makes a walker meet an entry that it did not write.
NeverCorrupt == ~Parked

\* A RETYPE or MAP that reports an error has changed nothing: not the
\* capabilities, not the kernel's pool, not a user table.
FailureChangesNothing == [][ret' # "ok" => UNCHANGED <<slots, pool, utab>>]_objvars

\* There is no unmap: a translation of the user or of the kernel, once made,
\* is never changed by a later call.
TranslationsStay ==
  [][/\ utab' # utab => \A va \in Pages :
          Translate(utab, UserRoot, va) \in {Null, Translate(utab', UserRoot, va)}
     /\ pool' # pool => \A va \in Pages :
          Translate(pool.tables, Root1, va) \in {Null, Translate(pool'.tables, Root1, va)}]_objvars
=============================================================================
