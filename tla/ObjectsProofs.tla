--------------------------- MODULE ObjectsProofs ---------------------------
(***************************************************************************)
(* Proofs about Objects, for any layout of the boot memory. When the root  *)
(* task starts the kernel's tables show exactly the kernel, the device     *)
(* tree and the boot window, and the root task's pages are its own; from   *)
(* there on RETYPE and MAP keep OInv, from which the isolation of the root *)
(* task and the soundness of both sets of tables follow. The composition   *)
(* with the page tables implements Capabilities, so what is proved of the  *)
(* capabilities alone holds of the composed system.                        *)
(***************************************************************************)
EXTENDS Objects, CapabilitiesProofs, PageTablesProofs

-----------------------------------------------------------------------------
(* The kernel's tables *)

\* The alias mapping of a pool: the pages of S and no others, each at its own
\* address.
Shows(p, S) ==
  /\ \E lev : PoolTree(p, lev)
  /\ \A g \in Pages : LET e == Translate(p.tables, Root1, g) IN
       IF g \in S THEN e.to = g /\ e # Null ELSE e = Null

PagesOf(base, len) == {g \in Pages : base <= g /\ g < base + len}

\* The two roots that enable_paging starts from map nothing.
LEMMA RootsEmpty ==
  Shows([EmptyPool EXCEPT !.used = 2], {})
<1> DEFINE p == [EmptyPool EXCEPT !.used = 2]
           tabs == [i \in 0..POOL_LEN-1 |-> ZeroTable]
           lev == [t \in 0..1 |-> 0]
<1>0. POOL_LEN \in Nat /\ POOL_LEN >= 2 /\ Fan \in Nat
  <2>1. POOL_LEN >= 2
    BY ObjAssumption, Zenon
  <2> QED
    BY <2>1, TableAssumption
<1>1. p = [tables |-> tabs, used |-> 2]
  <2>1. EmptyPool = [tables |-> tabs, used |-> 0]
    BY DEF EmptyPool
  <2> HIDE DEF tabs
  <2> QED
    BY <2>1
<1>2. p.tables = tabs /\ p.used = 2 /\ p = [tables |-> p.tables, used |-> p.used]
  BY <1>1, Zenon
<1> HIDE DEF p
<1>3. Null \in PTE /\ \A i \in 0..Fan-1 : ZeroTable[i] = Null
  BY DEF PTE, Null, ZeroTable
<1>4. ZeroTable \in Table
  BY <1>3 DEF ZeroTable, Table
<1>5. tabs \in [0..POOL_LEN-1 -> Table] /\ DOMAIN tabs = 0..POOL_LEN-1 /\ \A t \in 0..POOL_LEN-1 : tabs[t] = ZeroTable
  BY <1>4
<1>6. DOMAIN lev = 0..1 /\ lev \in [0..1 -> 0..3] /\ \A t \in 0..1 : lev[t] = 0
  OBVIOUS
<1> HIDE DEF tabs, lev
<1>7. DOMAIN lev \subseteq DOMAIN tabs /\ DOMAIN lev = PoolRoots
  BY <1>0, <1>5, <1>6 DEF PoolRoots
<1>8. \A t \in DOMAIN lev, i \in 0..Fan-1 : tabs[t][i] = Null
  BY <1>3, <1>5, <1>7
<1>9. Tree(tabs, lev, PoolRoots)
  <2>1. tabs \in [DOMAIN tabs -> Table] /\ lev \in [DOMAIN lev -> 0..3]
    BY <1>5, <1>6
  <2>2. \A t \in DOMAIN lev : lev[t] = 0 <=> t \in PoolRoots
    BY <1>6, <1>7
  <2> QED
    BY <1>7, <1>8, <2>1, <2>2 DEF Tree
<1>10. PoolTree(p, lev)
  BY <1>0, <1>2, <1>5, <1>6, <1>9, SMTT(30) DEF PoolTree
<1>11. ASSUME NEW g \in Pages
       PROVE  Translate(tabs, Root1, g) = Null
  <2>1. Root1 \in DOMAIN lev /\ g \in Nat
    BY <1>7, PageNat DEF Root1, PoolRoots
  <2>2. index(g, 0) \in 0..Fan-1
    BY <2>1, IndexType
  <2>3. Look(tabs, Entry(Root1, "table"), g, 0) = Null
    BY <1>8, <2>1, <2>2, EntryParts DEF Look
  <2> QED
    BY <2>3, Zenon DEF Translate, Look
<1>12. Shows(p, {})
  BY <1>2, <1>10, <1>11 DEF Shows
<1> QED
  BY <1>12 DEF p

\* A range mapped into the alias root adds its pages; one mapped into the
\* identity root adds none.
LEMMA ShowsRange ==
  ASSUME NEW p, NEW S, Shows(p, S), NEW root \in PoolRoots, NEW base \in Nat, NEW len \in Nat,
         base + len <= Top, NEW perm \in PagePerms,
         NEW q, q = pool_map_range(p, root, base, len, perm), q.r = "ok"
  PROVE  Shows(q.pool, IF root = Root1 THEN S \cup PagesOf(base, len) ELSE S)
<1>1. PICK lev : PoolTree(p, lev)
  BY DEF Shows
<1>2. RangeMapped(p, q, root, base, len, perm)
  BY <1>1, RangeMaps
<1>3. \E l : PoolTree(q.pool, l)
  BY <1>2 DEF RangeMapped
<1> DEFINE T == IF root = Root1 THEN S \cup PagesOf(base, len) ELSE S
<1>4. ASSUME NEW g \in Pages
      PROVE  LET e == Translate(q.pool.tables, Root1, g) IN IF g \in T THEN e.to = g /\ e # Null ELSE e = Null
  <2>1. Root1 \in PoolRoots
    BY DEF Root1, PoolRoots
  <2>2. Translate(q.pool.tables, Root1, g) =
          IF Root1 = root /\ base <= g /\ g < base + len THEN Entry(g, perm) ELSE Translate(p.tables, Root1, g)
    BY <1>2, <2>1 DEF RangeMapped
  <2>3. IF g \in S THEN Translate(p.tables, Root1, g).to = g /\ Translate(p.tables, Root1, g) # Null
        ELSE Translate(p.tables, Root1, g) = Null
    BY DEF Shows
  <2>4. CASE Root1 = root /\ base <= g /\ g < base + len
    <3>1. g \in T
      BY <2>4 DEF PagesOf
    <3>2. Translate(q.pool.tables, Root1, g) = Entry(g, perm)
      BY <2>2, <2>4
    <3> QED
      BY <3>1, <3>2, PageEntry
  <2>5. CASE ~(Root1 = root /\ base <= g /\ g < base + len)
    <3>1. g \in T <=> g \in S
      BY <2>5 DEF PagesOf
    <3>2. Translate(q.pool.tables, Root1, g) = Translate(p.tables, Root1, g)
      BY <2>2, <2>5
    <3> QED
      BY <2>3, <3>1, <3>2
  <2> QED
    BY <2>4, <2>5
<1> QED
  BY <1>3, <1>4 DEF Shows

\* MapBoth adds a region to the alias mapping.
LEMMA ShowsBoth ==
  ASSUME NEW p, NEW S, p.r = "ok" => Shows(p.pool, S), NEW base \in Nat, NEW len \in Nat,
         base + len <= Top, NEW perm \in PagePerms, NEW q, q = MapBoth(p, base, len, perm), q.r = "ok"
  PROVE  Shows(q.pool, S \cup PagesOf(base, len))
<1> DEFINE m == pool_map_range(p.pool, Root0, base, len, perm)
<1>1. p.r = "ok"
  <2>1. p.r # "ok" => q = p
    BY Zenon DEF MapBoth
  <2> QED
    BY <2>1
<1>2. q = IF m.r # "ok" THEN m ELSE pool_map_range(m.pool, Root1, base, len, perm)
  BY <1>1, Zenon DEF MapBoth
<1>3. m = pool_map_range(p.pool, Root0, base, len, perm)
  OBVIOUS
<1> HIDE DEF m
<1>4. m.r = "ok" /\ q = pool_map_range(m.pool, Root1, base, len, perm)
  BY <1>2
<1>5. Root0 \in PoolRoots /\ Root1 \in PoolRoots /\ Root0 # Root1
  BY DEF Root0, Root1, PoolRoots
<1>6. Shows(m.pool, IF Root0 = Root1 THEN S \cup PagesOf(base, len) ELSE S)
  BY <1>1, <1>3, <1>4, <1>5, ShowsRange, Zenon
<1>7. Shows(m.pool, S)
  BY <1>5, <1>6
<1>8. Shows(q.pool, IF Root1 = Root1 THEN S \cup PagesOf(base, len) ELSE S)
  BY <1>4, <1>5, <1>7, ShowsRange, Zenon
<1> QED
  BY <1>8

\* The regions of the boot, as numbers.
LEMMA BootRegions ==
  /\ \A r \in {KernelImage, Device, Window} :
       r.base \in Nat /\ r.size \in Nat /\ end(r) = r.base + r.size /\ end(r) <= Limit /\ end(r) <= Top
  /\ \A r \in Reservations : LET d == r[2] IN
       /\ DtbBase(d) \in Nat /\ DtbLen(d) \in Nat
       /\ DtbBase(d) + DtbLen(d) <= Limit /\ DtbBase(d) + DtbLen(d) <= Top
<1>0. Limit \in Nat /\ G \in Nat /\ G > 0 /\ Top \in Nat
  BY CapAssumption, GranuleAssumption, TableAssumption DEF Top, Span
<1>1. \A r \in PhysRegion : r.base \in Nat /\ r.size \in Nat
  BY <1>0 DEF PhysRegion
<1>2. \A r \in {KernelImage, Device, Window} : r \in PhysRegion /\ end(r) <= Limit /\ end(r) <= Top
  BY ObjAssumption, Zenon
<1>3. \A r \in Reservations : Len(r) >= 3 /\ align_up(end(r[2])) <= Limit /\ align_up(end(r[2])) <= Top
  BY ObjAssumption, Zenon
<1>4. ASSUME NEW r \in Reservations
      PROVE  LET d == r[2] IN
             /\ DtbBase(d) \in Nat /\ DtbLen(d) \in Nat
             /\ DtbBase(d) + DtbLen(d) <= Limit /\ DtbBase(d) + DtbLen(d) <= Top
  <2> DEFINE d == r[2]
             b == (d.base \div G) * G
             e == align_up(end(d))
  <2>1. r \in Seq(PhysRegion) /\ 2 \in DOMAIN r
    <3>1. Len(r) >= 3
      BY <1>3, Zenon
    <3>2. r \in Seq(PhysRegion)
      BY CapAssumption
    <3>3. Len(r) \in Nat /\ DOMAIN r = 1..Len(r)
      BY <3>2
    <3> QED
      BY <3>1, <3>2, <3>3
  <2>2. d \in PhysRegion
    BY <2>1
  <2>3. d.base \in Nat /\ d.size \in Nat /\ end(d) = d.base + d.size
    BY <1>1, <2>2 DEF end
  <2>4. b \in Nat /\ b <= d.base
    <3> HIDE DEF d
    <3>1. \A x \in Nat : (x \div G) * G \in Nat /\ (x \div G) * G <= x
      BY GranuleAssumption
    <3> QED
      BY <2>3, <3>1
  <2>5. e \in Nat /\ end(d) <= e /\ e <= Limit /\ e <= Top
    <3>1. end(d) \in Nat
      BY <2>3
    <3> QED
      BY <1>3, <3>1, AlignUp
  <2>6. DtbBase(d) = b /\ DtbLen(d) = e - b
    BY DEF DtbBase, DtbLen
  <2> HIDE DEF b, e, d
  <2>7. /\ DtbBase(d) \in Nat /\ DtbLen(d) \in Nat
        /\ DtbBase(d) + DtbLen(d) <= Limit /\ DtbBase(d) + DtbLen(d) <= Top
    BY <1>0, <2>3, <2>4, <2>5, <2>6
  <2> QED
    BY <2>7 DEF d
<1> QED
  BY <1>1, <1>2, <1>4 DEF end

\* What the boot has mapped for the kernel with the DTB at dtb.
Own(dtb) == (PagesOf(KernelImage.base, KernelImage.size) \cup PagesOf(DtbBase(dtb), DtbLen(dtb)))
              \cup PagesOf(Device.base, Device.size) \cup PagesOf(Window.base, Window.size)

\* After the boot the alias mapping holds the kernel's own memory.
LEMMA BootShows ==
  ASSUME NEW r \in Reservations
  PROVE  Shows(BootPool(r[2]).pool, Own(r[2]))
<1> DEFINE d == r[2]
           a == [r |-> "ok", pool |-> [EmptyPool EXCEPT !.used = 2]]
           b == MapBoth(a, KernelImage.base, KernelImage.size, "text")
           c == MapBoth(b, DtbBase(d), DtbLen(d), "ro")
           p == enable_paging(d)
           m == BootPool(d)
<1>1. p.r = "ok" /\ m.r = "ok"
  BY BootAssumption, Zenon
<1>2. p = MapBoth(c, Device.base, Device.size, "device") /\ m = map_kernel_window(p.pool, Root1, Window.base, Window.size)
  BY DEF enable_paging, BootPool
<1>3. /\ KernelImage.base \in Nat /\ KernelImage.size \in Nat /\ KernelImage.base + KernelImage.size <= Top
      /\ Device.base \in Nat /\ Device.size \in Nat /\ Device.base + Device.size <= Top
      /\ Window.base \in Nat /\ Window.size \in Nat /\ Window.base + Window.size <= Top
  <2>1. KernelImage \in {KernelImage, Device, Window} /\ Device \in {KernelImage, Device, Window} /\ Window \in {KernelImage, Device, Window}
    OBVIOUS
  <2> QED
    BY <2>1, BootRegions
<1>4. DtbBase(d) \in Nat /\ DtbLen(d) \in Nat /\ DtbBase(d) + DtbLen(d) <= Top
  BY BootRegions
<1>5. Shows(a.pool, {}) /\ a.r = "ok"
  BY RootsEmpty
<1>6. "text" \in PagePerms /\ "ro" \in PagePerms /\ "device" \in PagePerms /\ "rw" \in PagePerms
  BY DEF PagePerms
<1> HIDE DEF a
<1>7. b.r = "ok" => Shows(b.pool, {} \cup PagesOf(KernelImage.base, KernelImage.size))
  BY <1>3, <1>5, <1>6, ShowsBoth, Zenon
<1> HIDE DEF b
<1>8. c.r = "ok" => Shows(c.pool, ({} \cup PagesOf(KernelImage.base, KernelImage.size)) \cup PagesOf(DtbBase(d), DtbLen(d)))
  BY <1>4, <1>6, <1>7, ShowsBoth, Zenon
<1> HIDE DEF c, p, m
<1> DEFINE S == (({} \cup PagesOf(KernelImage.base, KernelImage.size)) \cup PagesOf(DtbBase(d), DtbLen(d)))
                 \cup PagesOf(Device.base, Device.size)
<1>9. Shows(p.pool, S)
  BY <1>1, <1>2, <1>3, <1>6, <1>8, ShowsBoth, Zenon
<1>10. m = pool_map_range(p.pool, Root1, Window.base, Window.size, "rw")
  <2> DEFINE bad == Window.size <= 0 \/ Window.base % G # 0 \/ Window.size % G # 0
  <2>1. m = IF bad THEN [r |-> "Misaligned", pool |-> p.pool]
            ELSE pool_map_range(p.pool, Root1, Window.base, Window.size, "rw")
    BY <1>2 DEF map_kernel_window
  <2> HIDE DEF bad
  <2> QED
    BY <1>1, <2>1
<1>11. Root1 \in PoolRoots
  BY DEF Root1, PoolRoots
<1> HIDE DEF S
<1>12. Shows(m.pool, IF Root1 = Root1 THEN S \cup PagesOf(Window.base, Window.size) ELSE S)
  BY <1>1, <1>3, <1>6, <1>9, <1>10, <1>11, ShowsRange, Zenon
<1>13. S \cup PagesOf(Window.base, Window.size) = Own(d)
  BY DEF S, Own
<1>14. Shows(m.pool, Own(d))
  BY <1>12, <1>13
<1> QED
  BY <1>14 DEF m

\* The granules are the aligned addresses below the limit.
LEMMA GranuleOf ==
  /\ \A g \in Granules : g \in Nat /\ g % G = 0 /\ g < Limit
  /\ \A g \in Nat : g % G = 0 /\ g < Limit => g \in Granules
<1>0. G \in Nat /\ G > 0 /\ Limit \in Nat /\ Limit % G = 0
  BY CapAssumption, GranuleAssumption
<1> DEFINE n == Limit \div G
<1>1. n \in Nat /\ Limit = n * G
  BY <1>0, Multiple
<1> HIDE DEF n
<1>2. Granules = {g * G : g \in 0 .. n - 1}
  BY DEF Granules, n
<1>3. ASSUME NEW g \in Granules
      PROVE  g \in Nat /\ g % G = 0 /\ g < Limit
  <2>1. PICK p \in 0 .. n - 1 : g = p * G
    BY <1>2
  <2>2. p \in Nat /\ p + 1 <= n
    BY <1>1
  <2>3. g \in Nat /\ g % G = 0
    BY <1>0, <2>1, <2>2, GranuleAssumption
  <2>4. \A x, y \in Nat : x <= y => x * G <= y * G
    BY <1>0
  <2>5. (p + 1) * G <= n * G
    BY <1>1, <2>2, <2>4
  <2>6. (p + 1) * G = g + G
    BY <1>0, <2>1, <2>2, SMTT(30)
  <2>7. g + G <= Limit
    BY <1>1, <2>5, <2>6
  <2> QED
    BY <1>0, <2>3, <2>7
<1>4. ASSUME NEW g \in Nat, g % G = 0, g < Limit
      PROVE  g \in Granules
  <2>1. g < n * G
    BY <1>1, <1>4
  <2>2. g \div G \in Nat /\ g \div G < n
    BY <1>0, <1>1, <2>1, DivBound, ZenonT(40)
  <2>3. g = (g \div G) * G
    BY <1>4, Multiple
  <2> QED
    BY <1>1, <1>2, <2>2, <2>3
<1> QED
  BY <1>3, <1>4

\* The allocator of a window starts with every frame free.
LEMMA WindowFresh ==
  ASSUME NEW us, Window.base % G = 0,
         us = [r |-> "ok", next |-> Window.base, end |-> end(Window), root |-> 0, tabs |-> [f \in Granules |-> JunkTable]]
  PROVE  Built(us, NoTables, Window.base) /\ DOMAIN us.tabs = Granules
<1> DEFINE tabs == [f \in Granules |-> JunkTable]
           lev == NoTables
<1>1. DOMAIN tabs = Granules /\ tabs \in [Granules -> Table] /\ \A t \in Granules : tabs[t] = JunkTable
  BY EntryParts
<1>2. /\ us.next = Window.base /\ us.end = end(Window) /\ us.tabs = tabs
      /\ us = [r |-> us.r, next |-> us.next, end |-> us.end, root |-> us.root, tabs |-> us.tabs]
  <2> HIDE DEF tabs
  <2>1. us = [r |-> "ok", next |-> Window.base, end |-> end(Window), root |-> 0, tabs |-> tabs]
    BY DEF tabs
  <2> QED
    BY <2>1
<1>3. DOMAIN lev = {}
  BY DEF NoTables
<1> HIDE DEF tabs, lev
<1>4. /\ Window.base \in Nat /\ end(Window) \in Nat /\ Window.base <= end(Window) /\ end(Window) <= Limit /\ Limit \in Nat
      /\ Window.base <= Window.base /\ Window.base % G = 0
  <2>1. Window \in {KernelImage, Device, Window}
    OBVIOUS
  <2>2. Window.base \in Nat /\ Window.size \in Nat /\ end(Window) = Window.base + Window.size /\ end(Window) <= Limit
    BY <2>1, BootRegions
  <2> QED
    BY <2>2, CapAssumption
<1>5. \A f \in Granules : f \in Nat /\ f % G = 0
  BY GranuleOf
<1>6. \A f \in Nat : f % G = 0 /\ f < end(Window) => f \in Granules
  BY <1>4, GranuleOf
<1>7. Built(us, lev, Window.base)
  BY <1>1, <1>2, <1>3, <1>4, <1>5, <1>6, ZenonT(40) DEF Built
<1> QED
  BY <1>1, <1>2, <1>7, ZenonT(40) DEF lev

\* The user tables that spawn_root leaves: a tree in the boot window that maps
\* the root task's pages.
Spawned(lev) ==
  /\ Built(spawn_root, lev, Window.base) /\ Rooted(spawn_root, lev)
  /\ spawn_root.end = end(Window) /\ DOMAIN spawn_root.tabs = Granules
  /\ \A va \in Pages : LET e == Translate(spawn_root.tabs, UserRoot, va) IN
       e # Null => e.perm \in {"RO", "RW", "text"} /\ UserPage(e.to)
  /\ \A g : UserPage(g) => Within(g, Window)

\* spawn_root succeeds, so that is what it does.
LEMMA SpawnRoot ==
  ASSUME NEW r \in Reservations
  PROVE  \E lev : Spawned(lev)
<1> DEFINE fa    == [r |-> "ok", next |-> Window.base, end |-> end(Window), root |-> 0,
                     tabs |-> [f \in Granules |-> JunkTable]]
           bi    == alloc_contig(fa, 1)
           image == alloc_contig(bi, 1)
           x     == alloc_contig(image, 1)
           us    == [x EXCEPT !.root = image.next]
           text  == us_map_range(us, ImageVA, bi.next, G, "text")
           stack == alloc_contig(text, 1)
           done  == us_map_range(stack, StackVA, text.next, G, "RW")
           last  == us_map_range(done, BootinfoVA, fa.next, G, "RO")
           none  == NoTables
           lo == Window.base
           W == end(Window)
<1>0. spawn_root = last /\ last.r = "ok"
  <2>1. spawn_root = last
    BY Zenon DEF spawn_root
  <2>2. spawn_root.r = "ok"
    BY BootAssumption, Zenon
  <2> HIDE DEF last
  <2> QED
    BY <2>1, <2>2, Zenon
<1>1. Window.base % G = 0
  <2> DEFINE p == enable_paging(r[2]).pool
             m == BootPool(r[2])
             bad == Window.size <= 0 \/ Window.base % G # 0 \/ Window.size % G # 0
  <2>1. m.r = "ok"
    BY BootAssumption, Zenon
  <2>2. m = IF bad THEN [r |-> "Misaligned", pool |-> p] ELSE pool_map_range(p, Root1, Window.base, Window.size, "rw")
    BY Zenon DEF BootPool, map_kernel_window
  <2> HIDE DEF m, p
  <2>3. ~bad
    <3> HIDE DEF bad
    <3> QED
      BY <2>1, <2>2, Zenon
  <2> QED
    BY <2>3
<1>2. Built(fa, none, lo) /\ DOMAIN fa.tabs = Granules
  BY <1>1, WindowFresh, Zenon
<1>3. fa.r = "ok" /\ fa.next = lo /\ fa.end = W /\ fa = [r |-> fa.r, next |-> fa.next, end |-> fa.end, root |-> fa.root, tabs |-> fa.tabs]
  BY Zenon
<1>4. done.r = "ok" /\ stack.r = "ok" /\ text.r = "ok" /\ us.r = "ok"
  <2> HIDE DEF done
  <2>1. done.r = "ok"
    BY <1>0, FailureStays, Zenon
  <2> USE DEF done
  <2> HIDE DEF stack
  <2>2. stack.r = "ok"
    BY <2>1, FailureStays, SMTT(30)
  <2> USE DEF stack
  <2> HIDE DEF text
  <2>3. text.r = "ok"
    BY <2>2, FailureStays, Zenon
  <2> USE DEF text
  <2> HIDE DEF us
  <2>4. us.r = "ok"
    BY <2>3, FailureStays, ZenonT(40)
  <2> QED
    BY <2>1, <2>2, <2>3, <2>4, Zenon
<1>5. /\ bi = alloc_contig(fa, 1) /\ image = alloc_contig(bi, 1) /\ x = alloc_contig(image, 1)
      /\ us = [x EXCEPT !.root = image.next] /\ text = us_map_range(us, ImageVA, bi.next, G, "text")
      /\ stack = alloc_contig(text, 1) /\ done = us_map_range(stack, StackVA, text.next, G, "RW")
      /\ last = us_map_range(done, BootinfoVA, lo, G, "RO")
  BY <1>3
<1> HIDE DEF fa, bi, image, x, us, text, stack, done, last
<1>6. /\ bi = [r |-> bi.r, next |-> bi.next, end |-> bi.end, root |-> bi.root, tabs |-> bi.tabs]
      /\ image = [r |-> image.r, next |-> image.next, end |-> image.end, root |-> image.root, tabs |-> image.tabs]
      /\ x = [r |-> x.r, next |-> x.next, end |-> x.end, root |-> x.root, tabs |-> x.tabs]
  <2>1. bi = [r |-> bi.r, next |-> bi.next, end |-> bi.end, root |-> bi.root, tabs |-> bi.tabs]
    BY <1>3, <1>5, AllocShape
  <2>2. image = [r |-> image.r, next |-> image.next, end |-> image.end, root |-> image.root, tabs |-> image.tabs]
    BY <2>1, <1>5, AllocShape, Zenon
  <2>3. x = [r |-> x.r, next |-> x.next, end |-> x.end, root |-> x.root, tabs |-> x.tabs]
    BY <2>2, <1>5, AllocShape, SMTT(30)
  <2> QED
    BY <2>1, <2>2, <2>3
<1>7. x.r = "ok" /\ image.r = "ok" /\ bi.r = "ok"
  <2>1. us.r = x.r
    BY <1>5, <1>6, Zenon
  <2>2. x.r = "ok"
    BY <1>4, <2>1, Zenon
  <2>3. image.r = "ok"
    BY <1>5, <2>2, FailureStays, Zenon
  <2> QED
    BY <1>5, <2>2, <2>3, FailureStays, Zenon
<1>8. Allocated(fa, bi, none, lo)
  BY <1>2, <1>5, <1>7, AllocKeeps, Zenon
<1>9. Allocated(bi, image, none, lo)
  <2>1. Built(bi, none, lo)
    BY <1>8, Zenon DEF Allocated
  <2> QED
    BY <1>5, <1>7, <2>1, AllocKeeps, Zenon
<1>10. Allocated(image, x, none, lo)
  <2>1. Built(image, none, lo)
    BY <1>9 DEF Allocated
  <2> QED
    BY <1>5, <1>7, <2>1, AllocKeeps, ZenonT(40)
<1>11. /\ lo \in Nat /\ G \in Nat /\ W \in Nat
       /\ bi.next = lo + G /\ image.next = bi.next + G /\ bi.next \in Nat /\ image.next \in Nat
       /\ lo < W /\ bi.next < W /\ image.end = W
       /\ lo <= image.next /\ lo <= bi.next /\ DOMAIN image.tabs = Granules
  <2>1. lo \in Nat /\ G \in Nat /\ W \in Nat
    BY <1>2, <1>3, GranuleAssumption, ZenonT(40) DEF Built
  <2>2. bi.next = fa.next + G /\ bi.end = fa.end /\ fa.next < fa.end /\ DOMAIN bi.tabs = DOMAIN fa.tabs
    BY <1>8 DEF Allocated
  <2>3. image.next = bi.next + G /\ image.end = bi.end /\ bi.next < bi.end /\ DOMAIN image.tabs = DOMAIN bi.tabs
    BY <1>9 DEF Allocated
  <2> HIDE DEF lo, W
  <2>4. DOMAIN image.tabs = Granules
    BY <1>2, <2>2, <2>3, Zenon
  <2> QED
    BY <1>3, <2>1, <2>2, <2>3, <2>4, SMTT(30)
<1>12. /\ us.root = image.next /\ us.end = W /\ DOMAIN us.tabs = Granules
       /\ \E lev : Built(us, lev, lo) /\ Rooted(us, lev)
       /\ \A va \in Pages : Translate(us.tabs, image.next, va) = Null
  <2> HIDE DEF lo, W
  <2>1. x.r = "ok" /\ image.next \in Nat /\ lo <= image.next /\ us = WithRoot(x, image.next)
    BY <1>5, <1>7, <1>11, Zenon DEF WithRoot
  <2>2. /\ us.r = "ok" /\ us.root = image.next /\ us.next = image.next + G /\ us.end = image.end
        /\ DOMAIN us.tabs = DOMAIN image.tabs
        /\ \E lev : Built(us, lev, lo) /\ Rooted(us, lev)
        /\ \A va \in Pages : Translate(us.tabs, image.next, va) = Null
    BY <1>10, <2>1, NewRoot, SMTT(30)
  <2> QED
    BY <1>11, <2>2, Zenon
<1> DEFINE root == image.next
<1> HIDE DEF root, lo
<1>13. ImageVA \in Nat /\ StackVA \in Nat /\ BootinfoVA \in Nat /\ "text" \in PagePerms /\ "RW" \in PagePerms /\ "RO" \in PagePerms
  <2>1. {ImageVA, StackVA, BootinfoVA} \subseteq Nat
    BY ObjAssumption, Zenon
  <2> QED
    BY <2>1 DEF PagePerms
<1>14. UserMapped(us, text, lo, ImageVA, Entry(bi.next, "text"))
  <2>1. PICK lev : Built(us, lev, lo) /\ Rooted(us, lev)
    BY <1>12, Zenon
  <2> QED
    BY <1>4, <1>5, <1>11, <1>13, <2>1, BuildGranule, Zenon
<1>15. PICK lt : Built(text, lt, lo) /\ Rooted(text, lt)
  BY <1>14 DEF UserMapped
<1>16. Allocated(text, stack, lt, lo)
  BY <1>4, <1>5, <1>15, AllocKeeps, ZenonT(40)
<1>17. text.root = root /\ text.end = W /\ DOMAIN text.tabs = Granules /\ text.next \in Nat /\ lo <= text.next
  BY <1>12, <1>14, <1>15, Zenon DEF UserMapped, Built, root
<1>18. /\ stack.root = root /\ stack.end = W /\ DOMAIN stack.tabs = Granules /\ text.next < W
       /\ Built(stack, lt, lo)
  BY <1>16, <1>17, Zenon DEF Allocated
<1>19. /\ Rooted(stack, lt)
       /\ \A va \in Pages : Translate(stack.tabs, root, va) = Translate(text.tabs, root, va)
  <2> DEFINE roots == {root}
  <2>1. Tree(text.tabs, lt, roots) /\ Linked(text.tabs, lt, root)
    BY <1>15, <1>17, Zenon DEF Rooted
  <2>2. stack.tabs \in [DOMAIN text.tabs -> Table] /\ \A t \in DOMAIN lt : stack.tabs[t] = text.tabs[t]
    BY <1>16, <1>17, <1>18, Zenon DEF Allocated, Built
  <2>3. root \in roots
    BY Zenon
  <2> HIDE DEF roots
  <2>4. SameWalks(text.tabs, lt, roots, stack.tabs)
    BY <2>1, <2>2, TreeElsewhere, Zenon
  <2>5. Linked(stack.tabs, lt, root)
    BY <2>1, <2>2, SMTT(30) DEF Linked
  <2> QED
    BY <1>18, <2>3, <2>4, <2>5, PageNat, ZenonT(40) DEF SameWalks, Rooted, roots
<1>20. StackVA \in Pages /\ UserMapped(stack, done, lo, StackVA, Entry(text.next, "RW"))
  BY <1>4, <1>5, <1>13, <1>17, <1>18, <1>19, BuildGranule, SMTT(30)
<1>21. PICK ld : Built(done, ld, lo) /\ Rooted(done, ld)
  BY <1>20, Zenon DEF UserMapped
<1>22. BootinfoVA \in Pages /\ UserMapped(done, last, lo, BootinfoVA, Entry(lo, "RO"))
  BY <1>0, <1>5, <1>11, <1>13, <1>21, BuildGranule, SMTT(30)
<1>23. PICK lev : Built(last, lev, lo) /\ Rooted(last, lev)
  BY <1>22 DEF UserMapped
<1>24. done.root = root /\ done.end = W /\ DOMAIN done.tabs = Granules
  BY <1>18, <1>20, Zenon DEF UserMapped
<1>25. last.root = root /\ last.end = W /\ DOMAIN last.tabs = Granules
  BY <1>22, <1>24, Zenon DEF UserMapped
<1> DEFINE T(va) == Translate(last.tabs, root, va)
<1>26. /\ UserGains(us.tabs, text.tabs, root, ImageVA, Entry(bi.next, "text"))
       /\ UserGains(stack.tabs, done.tabs, root, StackVA, Entry(text.next, "RW"))
       /\ UserGains(done.tabs, last.tabs, root, BootinfoVA, Entry(lo, "RO"))
  <2>1. us.root = root
    BY <1>12, Zenon DEF root
  <2> QED
    BY <1>14, <1>18, <1>20, <1>22, <1>24, <2>1, ZenonT(40) DEF UserMapped
<1>27. T(StackVA) = Entry(text.next, "RW")
  <2>1. StackVA # BootinfoVA
    BY <1>26, EntryParts, SMTT(30) DEF UserGains
  <2> QED
    BY <1>20, <1>26, <2>1, ZenonT(40) DEF UserGains
<1>28. ASSUME NEW va \in Pages
       PROVE  T(va) \in {Null, Entry(bi.next, "text"), Entry(text.next, "RW"), Entry(lo, "RO")}
  <2>1. Translate(text.tabs, root, va) \in {Null, Entry(bi.next, "text")}
    BY <1>12, <1>26, Zenon DEF UserGains, root
  <2>2. Translate(done.tabs, root, va) \in {Null, Entry(bi.next, "text"), Entry(text.next, "RW")}
    BY <1>19, <1>26, <2>1, ZenonT(40) DEF UserGains
  <2> QED
    BY <1>26, <2>2, Zenon DEF UserGains
<1>29. UserRoot = root /\ spawn_root.tabs = last.tabs
  BY <1>0, <1>25, ZenonT(40) DEF UserRoot
<1>30. \A g : UserPage(g) <=> g \in {lo, bi.next, text.next}
  BY <1>11, <1>27, <1>29, EntryParts, SMTT(30) DEF UserPage, lo
<1>31. \A va \in Pages : T(va) # Null => T(va).perm \in {"RO", "RW", "text"} /\ UserPage(T(va).to)
  <2> SUFFICES ASSUME NEW va \in Pages, T(va) # Null
               PROVE  T(va).perm \in {"RO", "RW", "text"} /\ UserPage(T(va).to)
    OBVIOUS
  <2>1. \E a \in {lo, bi.next, text.next}, q \in {"RO", "RW", "text"} : T(va) = Entry(a, q)
    BY <1>28, Zenon
  <2> HIDE DEF T
  <2> QED
    BY <1>30, <2>1, EntryParts, SMTT(30)
<1>32. \A g : UserPage(g) => Within(g, Window)
  BY <1>11, <1>17, <1>18, <1>30, SMTT(30) DEF Within, lo, W
<1>33. Spawned(lev)
  BY <1>0, <1>23, <1>25, <1>29, <1>31, <1>32, ZenonT(40) DEF Spawned, lo, W
<1> QED
  BY <1>33

-----------------------------------------------------------------------------
(* The inductive invariant *)

\* What the alias mapping should hold.
Held == {g \in Pages : g \in OwnMemory \/ (g \in Granules /\ ObjectAt(ObjKind, g))}

\* The user tables are a tree. Its tables are frames of the boot window and the
\* installed PageTables; the other frames there are empty or junk, and a
\* PageTable not installed is empty.
UserTree(lev) ==
  /\ utab \in [Granules -> Table]
  /\ Tree(utab, lev, {UserRoot}) /\ Linked(utab, lev, UserRoot)
  /\ \A t \in DOMAIN lev :
       Within(t, Window) \/ \E i \in Objs : slots[i] = [type |-> "PageTable", base |-> t, mapped |-> TRUE]
  /\ \A t \in Granules : Within(t, Window) /\ t \notin DOMAIN lev => utab[t] \in {ZeroTable, JunkTable}
  /\ \A i \in Objs : slots[i].type = "PageTable" =>
       IF slots[i].mapped THEN slots[i].base \in DOMAIN lev ELSE utab[slots[i].base] = ZeroTable

OInv ==
  /\ CInv /\ reserved \in Reservations
  /\ Shows(pool, Held)
  /\ \E lev : UserTree(lev)
  /\ UserReachesFramesOnly
  /\ ret # "park" /\ (phase # "run" => ret = "ok")

\* Objects are granules that the tables can map, outside the boot window, and
\* no two are at one address.
ObjectPlaces ==
  /\ \A i \in Objs : /\ slots[i].base \in Granules /\ slots[i].base \in Pages
                     /\ ~Within(slots[i].base, Window)
                     /\ ~UserPage(slots[i].base)
  /\ \A i, j \in Objs : slots[i].base = slots[j].base => i = j
  /\ UserRoot \in Granules /\ Within(UserRoot, Window)

\* A user page and the root table are in the boot window.
LEMMA RootPlace ==
  ASSUME NEW r \in Reservations
  PROVE  /\ UserRoot \in Granules /\ Within(UserRoot, Window)
         /\ \A g : UserPage(g) => Within(g, Window)
<1>1. PICK lev : Spawned(lev)
  BY SpawnRoot
<1>2. Built(spawn_root, lev, Window.base) /\ Rooted(spawn_root, lev) /\ spawn_root.end = end(Window) /\ DOMAIN spawn_root.tabs = Granules
  BY <1>1, Zenon DEF Spawned
<1>3. UserRoot \in DOMAIN lev
  BY <1>2, Zenon DEF Rooted, Tree, UserRoot
<1>4. Window.base <= UserRoot /\ UserRoot < spawn_root.next /\ UserRoot \in Granules
  BY <1>2, <1>3, ZenonT(40) DEF Built
<1>5. spawn_root.next <= end(Window) /\ spawn_root.next \in Nat /\ end(Window) \in Nat
  BY <1>2 DEF Built
<1>6. UserRoot \in Nat
  BY <1>4, GranuleOf
<1>7. UserRoot < end(Window)
  BY <1>4, <1>5, <1>6, SMTT(30)
<1> QED
  BY <1>1, <1>4, <1>7, ZenonT(40) DEF Spawned, Within

\* Free memory is where the tables can map it, outside the boot window.
LEMMA FreePlace ==
  ASSUME CInv, reserved \in Reservations, phase = "run", NEW b \in Nat, b % G = 0, Free(b)
  PROVE  b \in Granules /\ b \in Pages /\ ~Within(b, Window)
<1>1. CapTypeOK
  BY DEF CInv
<1>2. reserved[3] = Window /\ 3 \in DOMAIN reserved
  <2>1. reserved[3] = Window
    BY BootAssumption, Zenon
  <2>2. Len(reserved) >= 3
    BY ObjAssumption, Zenon
  <2>3. reserved \in Seq(PhysRegion)
    BY <1>1, Regions
  <2>4. Len(reserved) \in Nat /\ DOMAIN reserved = 1..Len(reserved)
    BY <2>3
  <2> QED
    BY <2>1, <2>2, <2>4
<1>3. ~Within(b, Window)
  BY <1>2 DEF Free
<1>4. PICK k \in DOMAIN memory : Within(b, memory[k])
  BY DEF Free
<1> DEFINE e == end(memory[k])
<1>5. e \in Nat
  BY <1>1, Regions DEF end
<1>6. e <= Top
  <2>1. memory \in Memories
    BY <1>1 DEF CapTypeOK
  <2> QED
    BY <2>1, ObjAssumption, Zenon
<1>7. Limit \in Nat /\ Top \in Nat
  BY CapAssumption, GranuleAssumption, TableAssumption, SMTT(30) DEF Top, Span
<1>8. e < Limit
  <2>1. ~BadRegion(memory[k])
    BY DEF CInv, Position, BadMemory
  <2> HIDE DEF end
  <2> QED
    BY <1>5, <1>7, <2>1, SMTT(30) DEF BadRegion
<1>9. b < e
  BY <1>4 DEF Within
<1> HIDE DEF e
<1>10. b < Limit /\ b < Top
  BY <1>5, <1>6, <1>7, <1>8, <1>9, SMTT(30)
<1> QED
  BY <1>3, <1>10, GranuleOf, PageOf, ZenonT(40)

\* retype takes free memory, and that is where the places come from.
LEMMA Places == CInv /\ reserved \in Reservations => ObjectPlaces
<1> SUFFICES ASSUME CInv, reserved \in Reservations
             PROVE  ObjectPlaces
  OBVIOUS
<1>1. UserRoot \in Granules /\ Within(UserRoot, Window) /\ \A g : UserPage(g) => Within(g, Window)
  BY RootPlace
<1>2. CapTypeOK /\ ObjectsDisjoint /\ ObjectsApart
  BY ObjectsFree DEF CInv
<1>3. ASSUME NEW i \in Objs
      PROVE  slots[i].base \in Granules /\ slots[i].base \in Pages /\ ~Within(slots[i].base, Window)
  <2> DEFINE b == slots[i].base
  <2>1. b \in Nat /\ phase = "run"
    BY <1>2, Slots, ZenonT(40) DEF CInv, Position
  <2>2. b % G = 0 /\ \A a \in b .. b + G - 1 : Free(a)
    BY <1>2 DEF ObjectsDisjoint
  <2> HIDE DEF b
  <2>3. b \in b .. b + G - 1
    BY <2>1, GranuleAssumption
  <2>4. Free(b)
    BY <2>2, <2>3, Zenon
  <2>5. b \in Granules /\ b \in Pages /\ ~Within(b, Window)
    BY <2>1, <2>2, <2>4, FreePlace, Zenon
  <2> QED
    BY <2>5, Zenon DEF b
<1>4. ASSUME NEW i \in Objs, NEW j \in Objs, slots[i].base = slots[j].base
      PROVE  i = j
  <2>1. slots[i].base \in Nat /\ G \in Nat /\ G > 0
    BY <1>2, Slots, GranuleAssumption, SMTT(30)
  <2>2. i # j => slots[i].base + G <= slots[j].base \/ slots[j].base + G <= slots[i].base
    BY <1>2 DEF ObjectsApart
  <2> QED
    BY <1>4, <2>1, <2>2, SMTT(30)
<1> QED
  BY <1>1, <1>3, <1>4, ZenonT(40) DEF ObjectPlaces

\* Before bootstrap the alias mapping holds the kernel's own memory.
LEMMA OwnPages ==
  ASSUME reserved \in Reservations
  PROVE  {g \in Pages : g \in OwnMemory} = Own(Dtb)
<1> DEFINE d == Dtb
           D == [base |-> DtbBase(d), size |-> DtbLen(d)]
           rs == {KernelImage, Window, Device, D}
           R(x) == PagesOf(x.base, x.size)
<1>1. D.base = DtbBase(d) /\ D.size = DtbLen(d) /\ end(D) = DtbBase(d) + DtbLen(d)
  BY DEF end
<1>2. Dtb = reserved[2]
  BY DEF Dtb
<1>3. /\ DtbBase(d) \in Nat /\ DtbLen(d) \in Nat /\ DtbBase(d) + DtbLen(d) <= Limit
  <2>1. LET x == reserved[2] IN DtbBase(x) \in Nat /\ DtbLen(x) \in Nat /\ DtbBase(x) + DtbLen(x) <= Limit
    BY BootRegions
  <2> QED
    BY <1>2, <2>1, Zenon
<1> HIDE DEF D, d
<1>4. \A x \in rs : end(x) \in Nat /\ end(x) <= Limit /\ end(x) = x.base + x.size
  <2>1. \A x \in {KernelImage, Device, Window} : x.base \in Nat /\ x.size \in Nat /\ end(x) = x.base + x.size /\ end(x) <= Limit
    BY BootRegions
  <2>2. \A x \in {KernelImage, Device, Window} : end(x) \in Nat /\ end(x) <= Limit /\ end(x) = x.base + x.size
    <3> SUFFICES ASSUME NEW x \in {KernelImage, Device, Window}
                 PROVE  end(x) \in Nat /\ end(x) <= Limit /\ end(x) = x.base + x.size
      OBVIOUS
    <3>1. x.base \in Nat /\ x.size \in Nat /\ end(x) = x.base + x.size /\ end(x) <= Limit
      BY <2>1
    <3> QED
      BY <3>1
  <2>3. end(D) \in Nat /\ end(D) <= Limit /\ end(D) = D.base + D.size
    BY <1>1, <1>3, SMTT(30)
  <2> QED
    BY <2>2, <2>3, ZenonT(40)
<1>5. \A g : g \in OwnMemory <=> g \in Granules /\ \E x \in rs : Within(g, x)
  BY DEF OwnMemory, D, d
<1>6. ASSUME NEW g \in Pages, NEW x \in rs
      PROVE  Within(g, x) <=> g \in R(x)
  BY <1>4 DEF PagesOf, Within
<1>7. ASSUME NEW g \in Pages, NEW x \in rs, Within(g, x)
      PROVE  g \in Granules
  <2>1. g \in Nat /\ g % G = 0
    BY PageAligned
  <2>2. end(x) \in Nat /\ end(x) <= Limit /\ g < end(x)
    BY <1>4, <1>7, ZenonT(40) DEF Within
  <2>3. Limit \in Nat
    BY CapAssumption
  <2>4. g < Limit
    BY <2>1, <2>2, <2>3, SMTT(30)
  <2> QED
    BY <2>1, <2>4, GranuleOf, ZenonT(40)
<1>8. Own(d) = R(KernelImage) \cup R(D) \cup R(Device) \cup R(Window)
  BY <1>1 DEF Own
<1>9. ASSUME NEW g \in Pages
      PROVE  g \in OwnMemory <=> g \in Own(d)
  <2>1. g \in OwnMemory <=> \E x \in rs : g \in R(x)
    BY <1>5, <1>6, <1>7, Zenon
  <2> HIDE DEF R
  <2> QED
    BY <1>8, <2>1, Zenon
<1>10. \A g \in Own(d) : g \in Pages
  BY DEF Own, PagesOf
<1> QED
  BY <1>9, <1>10, Zenon DEF d

\* After spawn_root, with no capability yet, the invariant holds.
LEMMA ObjInitHolds ==
  ASSUME ObjInit
  PROVE  OInv
<1>1. CInv /\ reserved \in Reservations /\ slots = <<>> /\ pool = BootPool(Dtb).pool /\ utab = spawn_root.tabs /\ ret = "ok"
  BY InitHolds DEF ObjInit, CapInit
<1>2. Objs = {}
  BY <1>1 DEF Objs
<1>3. Held = Own(Dtb)
  <2>1. Held = {g \in Pages : g \in OwnMemory}
    BY <1>2 DEF Held, ObjectAt
  <2> QED
    BY <1>1, <2>1, OwnPages, Zenon
<1>4. Shows(pool, Held)
  BY <1>1, <1>3, BootShows, Zenon DEF Dtb
<1>5. PICK lev : Spawned(lev)
  BY <1>1, SpawnRoot, ZenonT(40)
<1>6. UserTree(lev)
  <2>1. Built(spawn_root, lev, Window.base) /\ Rooted(spawn_root, lev) /\ spawn_root.end = end(Window) /\ DOMAIN spawn_root.tabs = Granules
    BY <1>5, Zenon DEF Spawned
  <2>2. utab \in [Granules -> Table] /\ \A t \in Granules : t \notin DOMAIN lev => utab[t] \in {ZeroTable, JunkTable}
    BY <1>1, <2>1, Zenon DEF Built
  <2>3. Tree(utab, lev, {UserRoot}) /\ Linked(utab, lev, UserRoot)
    BY <1>1, <2>1 DEF Rooted, UserRoot
  <2>4. ASSUME NEW t \in DOMAIN lev
        PROVE  Within(t, Window)
    <3>1. Window.base <= t /\ t < spawn_root.next /\ t \in Nat
      BY <2>1, ZenonT(40) DEF Built
    <3>2. spawn_root.next <= end(Window) /\ spawn_root.next \in Nat /\ end(Window) \in Nat
      BY <2>1 DEF Built
    <3>3. t < end(Window)
      BY <3>1, <3>2, SMTT(30)
    <3> QED
      BY <3>1, <3>3, Zenon DEF Within
  <2> QED
    BY <1>2, <2>2, <2>3, <2>4, ZenonT(40) DEF UserTree
<1>7. UserReachesFramesOnly
  BY <1>1, <1>2, <1>5, ZenonT(40) DEF UserReachesFramesOnly, Spawned
<1> QED
  BY <1>1, <1>4, <1>6, <1>7, ZenonT(40) DEF OInv

\* A step that changes neither a table nor an object keeps the invariant.
LEMMA Unmoved ==
  ASSUME OInv, Objs' = Objs, \A i \in Objs : slots'[i] = slots[i], UNCHANGED <<reserved, pool, utab>>,
         CInv', ret' # "park", phase' # "run" => ret' = "ok"
  PROVE  OInv'
<1>1. \A kinds, g : ObjectAt(kinds, g)' <=> ObjectAt(kinds, g)
  BY Zenon DEF ObjectAt
<1>2. OwnMemory' = OwnMemory
  BY DEF OwnMemory, Dtb
<1>3. Held' = Held
  BY <1>1, <1>2, Zenon DEF Held
<1>4. Shows(pool, Held)'
  <2>1. Shows(pool, Held)
    BY DEF OInv
  <2> QED
    BY <1>3, <2>1, Zenon DEF Shows
<1>5. PICK lev : UserTree(lev)
  BY Zenon DEF OInv
<1>6. UserTree(lev)'
  BY <1>5, ZenonT(40) DEF UserTree
<1>7. UserReachesFramesOnly'
  <2>1. UserReachesFramesOnly
    BY DEF OInv
  <2> QED
    BY <2>1 DEF UserReachesFramesOnly, Reaches
<1>8. (reserved \in Reservations)'
  BY DEF OInv
<1> QED
  BY <1>4, <1>6, <1>7, <1>8, ZenonT(40) DEF OInv

\* bootstrap creates no object.
LEMMA BootObjects ==
  ASSUME CInv, populate \/ push_untypeds
  PROVE  Objs = {} /\ Objs' = {} /\ phase # "run" /\ UNCHANGED <<memory, reserved>>
<1>1. phase # "run" /\ UNCHANGED <<memory, reserved>>
  BY DEF populate, push_untypeds
<1>2. Objs = {}
  BY <1>1 DEF CInv, Position
<1>3. CASE UNCHANGED slots
  BY <1>1, <1>2, <1>3, ZenonT(40) DEF Objs
<1>4. CASE slots' = FixedCaps
  <2>1. DOMAIN FixedCaps = 1..4 /\ \A i \in 1..4 : FixedCaps[i].type \in {"Empty", "RootTcb", "AddrSpace", "Console"}
    BY DEF FixedCaps
  <2>2. \A i \in 1..4 : FixedCaps[i].type \notin ObjKind
    <3> HIDE DEF FixedCaps
    <3> QED
      BY <2>1 DEF ObjKind
  <2>3. Objs' = {}
    BY <1>4, <2>1, <2>2, ZenonT(40) DEF Objs
  <2> QED
    BY <1>1, <1>2, <2>3, Zenon
<1>5. ASSUME NEW stop \in Nat, Room(Piece(stop)), slots' = slots \o Piece(stop)
      PROVE  Objs' = {}
  <2>1. CapTypeOK
    BY DEF CInv
  <2>2. Objs' = Objs
    BY <1>5, <2>1, PiecePushed, ZenonT(40)
  <2> QED
    BY <1>2, <2>2
<1>6. CASE populate
  <2>1. UNCHANGED slots \/ slots' = FixedCaps
    BY <1>6, ZenonT(40) DEF populate, Fail
  <2> QED
    BY <1>1, <1>2, <1>3, <1>4, <2>1, ZenonT(40)
<1>7. CASE push_untypeds
  <2> DEFINE m == memory[region]
  <2>0. phase = "untyped" /\ CapTypeOK
    BY <1>7 DEF push_untypeds, CInv
  <2>1. region \in DOMAIN memory
    BY <2>0 DEF CInv, Position
  <2>2. end(m) \in Nat
    BY <2>0, <2>1, Regions, SMTT(30) DEF end
  <2>3. \/ UNCHANGED slots
        \/ Room(Piece(end(m))) /\ slots' = slots \o Piece(end(m))
        \/ Ahead(m) # {} /\ Room(Piece(reserved[LowestAhead(m)].base)) /\ slots' = slots \o Piece(reserved[LowestAhead(m)].base)
    BY <1>7, Zenon DEF push_untypeds, PushRest, PushBelow, Fail
  <2>4. Ahead(m) # {} => reserved[LowestAhead(m)].base \in Nat
    <3> HIDE DEF m
    <3> SUFFICES ASSUME Ahead(m) # {} PROVE reserved[LowestAhead(m)].base \in Nat
      OBVIOUS
    <3>1. LowestAhead(m) \in Ahead(m)
      BY <2>0, Lowest, Zenon
    <3>2. LowestAhead(m) \in DOMAIN reserved
      BY <3>1 DEF Ahead
    <3> QED
      BY <2>0, <3>2, Regions, Zenon
  <2> QED
    BY <1>1, <1>2, <1>3, <1>5, <2>2, <2>3, <2>4, Zenon
<1> QED
  BY <1>6, <1>7, ZenonT(40)

\* ... so it keeps the invariant.
LEMMA BootKeeps ==
  ASSUME OInv, ObjBoot
  PROVE  OInv' /\ ret' = "ok" /\ UNCHANGED <<pool, utab>>
<1>0. CInv /\ (populate \/ push_untypeds) /\ UNCHANGED <<pool, utab, ret>>
  BY DEF OInv, ObjBoot
<1>1. Objs = {} /\ Objs' = {} /\ phase # "run" /\ UNCHANGED <<memory, reserved>>
  BY <1>0, BootObjects
<1>2. ret = "ok"
  BY <1>1 DEF OInv
<1>3. CInv'
  BY <1>0, StepKeeps DEF CapNext
<1>4. ret' # "park" /\ ret' = "ok"
  BY <1>0, <1>2, Zenon
<1>5. OInv'
  BY <1>0, <1>1, <1>3, <1>4, Unmoved, Zenon
<1> QED
  BY <1>0, <1>4, <1>5, ZenonT(40)

-----------------------------------------------------------------------------
(* RETYPE and MAP *)


\* sys_retype is retype, with prep's outcome decided by the page tables.
LEMMA RetypeIsRetype ==
  ASSUME NEW s \in 0..CNODE_SLOTS, NEW kind \in ObjKind, sys_retype(s, kind)
  PROVE  CapNext
<1>1. \E prep \in BOOLEAN : retype(s, kind, prep)
  BY Zenon DEF sys_retype
<1> QED
  BY <1>1 DEF CapNext

\* sys_map changes at most the flag of the capability it was given.
LEMMA MapIsSetMapped ==
  ASSUME NEW s \in 0..CNODE_SLOTS, NEW va, NEW perm, NEW aspace, sys_map(s, va, perm, aspace)
  PROVE  [CapNext]_capvars
<1>1. ASSUME NEW walk, MapReturns(s, walk)
      PROVE  UNCHANGED capvars \/ set_mapped(s)
  BY <1>1 DEF MapReturns, MapFails
<1>2. ASSUME NEW error, MapFails(error)
      PROVE  UNCHANGED capvars
  BY <1>2 DEF MapFails
<1>3. UNCHANGED capvars \/ set_mapped(s)
  BY <1>1, <1>2 DEF sys_map
<1> QED
  BY <1>3 DEF CapNext

\* Every boot step, RETYPE and MAP of the composition is a step of the
\* capabilities or leaves them alone.
THEOREM ObjectsRefineCapabilities == ObjSpec => CapSpec
<1>1. ObjInit => CapInit
  BY DEF ObjInit
<1>2. [ObjNext]_objvars => [CapNext]_capvars
  <2> SUFFICES ASSUME [ObjNext]_objvars
               PROVE  [CapNext]_capvars
    OBVIOUS
  <2>1. CASE UNCHANGED objvars \/ ObjPark \/ sys_retype_bad_type
    BY <2>1 DEF objvars, ObjPark, sys_retype_bad_type
  <2>2. CASE ObjBoot
    BY <2>2 DEF ObjBoot, CapNext
  <2>3. ASSUME NEW s \in 0..CNODE_SLOTS, NEW kind \in ObjKind, sys_retype(s, kind)
        PROVE  CapNext
    BY <2>3, RetypeIsRetype
  <2>4. ASSUME NEW s \in 0..CNODE_SLOTS, NEW a \in MapArgs, sys_map(s, a[1], a[2], a[3])
        PROVE  [CapNext]_capvars
    BY <2>4, MapIsSetMapped
  <2> QED
    BY <2>1, <2>2, <2>3, <2>4 DEF ObjNext
<1> QED
  BY <1>1, <1>2, PTL DEF ObjSpec, CapSpec

\* However RETYPE and MAP follow each other on the page tables, two objects
\* never share memory, and none reaches beyond the free memory.
THEOREM ObjectsNeverOverlapInUse == ObjSpec => []ObjectsDisjoint
BY ObjectsRefineCapabilities, ObjectsNeverOverlap, PTL

-----------------------------------------------------------------------------
(* RETYPE and MAP *)

\* What FailureChangesNothing and TranslationsStay say of a step.
Stay ==
  /\ ret' # "ok" => UNCHANGED <<slots, pool, utab>>
  /\ \A va \in Pages : Translate(utab, UserRoot, va) \in {Null, Translate(utab', UserRoot, va)}
  /\ \A va \in Pages : Translate(pool.tables, Root1, va) \in {Null, Translate(pool'.tables, Root1, va)}

\* A call that fails.
LEMMA QuietKeeps ==
  ASSUME OInv, UNCHANGED <<capvars, pool, utab>>, ret' # "park", phase = "run"
  PROVE  OInv' /\ Stay
<1>0. UNCHANGED <<memory, reserved, slots, region, cursor, phase, pool, utab>>
  BY DEF capvars
<1>1. CInv'
  <2>1. CInv
    BY DEF OInv
  <2> QED
    BY <2>1, StepKeeps
<1>2. Objs' = Objs /\ \A i \in Objs : slots'[i] = slots[i]
  BY <1>0 DEF Objs
<1>3. phase' = "run" /\ UNCHANGED <<reserved, pool, utab>>
  BY <1>0
<1>4. OInv'
  BY <1>1, <1>2, <1>3, Unmoved, ZenonT(40)
<1> QED
  BY <1>0, <1>4 DEF Stay

\* The granule that RETYPE is about to take.
LEMMA FramePlace ==
  ASSUME CInv, reserved \in Reservations, phase = "run", NEW s \in Nat, retype_check(s) = "ok"
  PROVE  LET f == carve(slots[s + 1]) IN f \in Granules /\ f \in Pages /\ ~Within(f, Window)
<1> DEFINE u == slots[s + 1]
           f == carve(u)
<1>1. CapTypeOK /\ s + 1 \in Untypeds /\ ~Exhausted(u)
  BY Checked DEF CInv
<1>2. u \in [type : {"Untyped"}, base : Nat, size : Nat, used : Nat]
  BY <1>1, Slots
<1> HIDE DEF u
<1>3. f \in Nat /\ f % G = 0 /\ mark(u) <= f /\ f + G <= end(u) /\ mark(u) = u.base + u.used
  BY <1>1, <1>2, CarvedGranule
<1>4. u.base <= f /\ f < end(u)
  <2> HIDE DEF f
  <2>1. u.base \in Nat /\ u.used \in Nat /\ u.size \in Nat /\ end(u) = u.base + u.size
    BY <1>2 DEF end
  <2> QED
    BY <1>3, <2>1, GranuleAssumption
<1> HIDE DEF f
<1>5. Within(f, slots[s + 1])
  BY <1>4 DEF Within, u
<1>6. Free(f)
  BY <1>1, <1>3, <1>5, ZenonT(40) DEF CInv, Covered
<1>7. f \in Granules /\ f \in Pages /\ ~Within(f, Window)
  BY <1>3, <1>6, FreePlace, ZenonT(40)
<1> QED
  BY <1>7 DEF f, u

\* A RETYPE that succeeds: one more object of the given kind, at frame.
Retyped(kind, frame) ==
  /\ \E n : /\ n \notin Objs /\ Objs' = Objs \cup {n} /\ slots'[n] = Object(kind, frame)
  /\ \A i \in Objs : slots'[i] = slots[i]
  /\ UNCHANGED <<memory, reserved, region, cursor, phase>>

\* The alias mapping gains the new object.
LEMMA RetypeShows ==
  ASSUME Shows(pool, Held), NEW kind \in ObjKind, NEW frame \in Pages, frame \in Granules, Retyped(kind, frame),
         NEW alias, alias = map_kernel_window(pool, Root1, frame, G), alias.r = "ok", pool' = alias.pool
  PROVE  /\ Shows(pool', Held')
         /\ \A va \in Pages : Translate(pool.tables, Root1, va) \in {Null, Translate(pool'.tables, Root1, va)}
<1>1. PICK lev : PoolTree(pool, lev)
  BY DEF Shows
<1>2. Root1 \in PoolRoots
  BY DEF Root1, PoolRoots
<1>3. (\E lev2 : PoolTree(alias.pool, lev2)) /\ PoolGains(pool, alias.pool, Root1, frame, Entry(frame, "rw"))
  BY <1>1, <1>2, WindowMaps, Zenon
<1>4. /\ Translate(pool.tables, Root1, frame) = Null
      /\ Translate(pool'.tables, Root1, frame) = Entry(frame, "rw")
      /\ \A vb \in Pages : vb # frame => Translate(pool'.tables, Root1, vb) = Translate(pool.tables, Root1, vb)
  BY <1>2, <1>3, Zenon DEF PoolGains
<1>5. PICK n : n \notin Objs /\ Objs' = Objs \cup {n} /\ slots'[n] = Object(kind, frame)
  BY DEF Retyped
<1>6. slots'[n].type = kind /\ slots'[n].base = frame
  BY <1>5 DEF Object
<1>7. \A g : ObjectAt(ObjKind, g)' <=> ObjectAt(ObjKind, g) \/ g = frame
  BY <1>5, <1>6, ZenonT(40) DEF ObjectAt, Retyped
<1>8. OwnMemory' = OwnMemory
  BY DEF Retyped, OwnMemory, Dtb
<1>9. Held' = Held \cup {frame}
  BY <1>7, <1>8 DEF Held
<1>10. "rw" \in PagePerms
  BY DEF PagePerms
<1>11. Entry(frame, "rw").to = frame /\ Entry(frame, "rw") # Null
  BY <1>10, PageEntry, Zenon
<1>12. ASSUME NEW g \in Pages
       PROVE  LET e == Translate(pool'.tables, Root1, g) IN IF g \in Held' THEN e.to = g /\ e # Null ELSE e = Null
  <2>1. CASE g = frame
    BY <1>4, <1>9, <1>11, <2>1, ZenonT(40)
  <2>2. CASE g # frame
    <3>1. LET e == Translate(pool.tables, Root1, g) IN IF g \in Held THEN e.to = g /\ e # Null ELSE e = Null
      BY DEF Shows
    <3>2. g \in Held' <=> g \in Held
      BY <1>9, <2>2, Zenon
    <3>3. Translate(pool'.tables, Root1, g) = Translate(pool.tables, Root1, g)
      BY <1>4, <2>2, Zenon
    <3> HIDE DEF Held
    <3> QED
      BY <3>1, <3>2, <3>3, ZenonT(40)
  <2> QED
    BY <2>1, <2>2, Zenon
<1>13. \E lev2 : PoolTree(pool', lev2)
  BY <1>3, Zenon
<1> QED
  BY <1>4, <1>12, <1>13, Zenon DEF Shows

\* prep clears a frame that is no table in use: no user translation changes.
LEMMA RetypeTables ==
  ASSUME NEW lev, UserTree(lev), ObjectPlaces, NEW kind \in ObjKind, NEW frame \in Granules, Retyped(kind, frame),
         ~Within(frame, Window), ObjectPlaces', utab' = clear(frame)
  PROVE  /\ UserTree(lev)'
         /\ \A va \in Pages : Translate(utab', UserRoot, va) = Translate(utab, UserRoot, va)
<1>1. PICK n : n \notin Objs /\ Objs' = Objs \cup {n} /\ slots'[n] = Object(kind, frame)
  BY DEF Retyped
<1>2. slots'[n].type = kind /\ slots'[n].base = frame /\ slots'[n].mapped = FALSE
  BY <1>1, SMTT(30) DEF Object
<1>3. \A i \in Objs : slots'[i] = slots[i] /\ slots[i].base # frame
  <2>1. \A i \in Objs : slots'[i] = slots[i]
    BY Zenon DEF Retyped
  <2> QED
    BY <1>1, <1>2, <2>1, Zenon DEF ObjectPlaces
<1>4. frame \notin DOMAIN lev
  <2>1. ASSUME NEW i \in Objs, slots[i] = [type |-> "PageTable", base |-> frame, mapped |-> TRUE]
        PROVE  FALSE
    <3>1. slots[i].base = frame
      BY ONLY <2>1
    <3> QED
      BY <1>3, <3>1, Zenon
  <2> QED
    BY <2>1, Zenon DEF UserTree
<1>5. utab \in [Granules -> Table] /\ ZeroTable \in Table
  BY EntryParts DEF UserTree
<1>6. /\ utab' \in [Granules -> Table] /\ utab'[frame] = ZeroTable
      /\ \A t \in Granules : t # frame => utab'[t] = utab[t]
  BY <1>5, Zenon DEF clear
<1> DEFINE roots == {UserRoot}
<1>7. Tree(utab, lev, roots) /\ Linked(utab, lev, UserRoot) /\ UserRoot \in roots
  BY Zenon DEF UserTree
<1>8. DOMAIN lev \subseteq Granules /\ DOMAIN utab = Granules /\ \A t \in DOMAIN lev : utab'[t] = utab[t]
  BY <1>4, <1>5, <1>6, <1>7, ZenonT(40) DEF Tree
<1> HIDE DEF roots
<1>9. /\ Tree(utab', lev, roots)
      /\ \A r \in roots, va \in Nat : /\ \A k \in 0..3 : Hop(utab', r, va, k) = Hop(utab, r, va, k)
                                      /\ Translate(utab', r, va) = Translate(utab, r, va)
  <2> DEFINE new == utab'
  <2>1. new \in [DOMAIN utab -> Table] /\ \A t \in DOMAIN lev : new[t] = utab[t]
    BY <1>6, <1>8, Zenon
  <2> HIDE DEF new
  <2>2. SameWalks(utab, lev, roots, new)
    BY <1>7, <2>1, TreeElsewhere, Zenon
  <2> QED
    BY <2>2, Zenon DEF SameWalks, new
<1>10. Linked(utab', lev, UserRoot)
  BY <1>7, <1>8, SMTT(30) DEF Linked
<1>11. ASSUME NEW t \in DOMAIN lev
       PROVE  Within(t, Window) \/ \E i \in Objs' : slots'[i] = [type |-> "PageTable", base |-> t, mapped |-> TRUE]
  BY <1>1, <1>3, ZenonT(40) DEF UserTree
<1>12. ASSUME NEW t \in Granules, Within(t, Window), t \notin DOMAIN lev
       PROVE  utab'[t] \in {ZeroTable, JunkTable}
  BY <1>6, <1>12, Zenon DEF UserTree
<1>13. ASSUME NEW i \in Objs', slots'[i].type = "PageTable"
       PROVE  IF slots'[i].mapped THEN slots'[i].base \in DOMAIN lev ELSE utab'[slots'[i].base] = ZeroTable
  <2>1. CASE i = n
    BY <1>2, <1>6, <2>1, Zenon
  <2>2. CASE i \in Objs
    <3>1. IF slots[i].mapped THEN slots[i].base \in DOMAIN lev ELSE utab[slots[i].base] = ZeroTable
      BY <1>3, <1>13, <2>2, Zenon DEF UserTree
    <3>2. slots[i].base \in Granules /\ slots[i].base # frame /\ slots'[i] = slots[i]
      BY <1>3, <2>2, ZenonT(40) DEF ObjectPlaces
    <3> QED
      BY <1>6, <3>1, <3>2, ZenonT(40)
  <2> QED
    BY <1>1, <2>1, <2>2, Zenon
<1>14. UserTree(lev)'
  BY <1>6, <1>7, <1>9, <1>10, <1>11, <1>12, <1>13, ZenonT(40) DEF UserTree, roots
<1> QED
  BY <1>7, <1>9, <1>14, PageNat, ZenonT(40)

\* The new object is mapped nowhere.
LEMMA RetypeReaches ==
  ASSUME UserReachesFramesOnly, NEW kind \in ObjKind, NEW frame, Retyped(kind, frame),
         \A va \in Pages : Translate(utab', UserRoot, va) = Translate(utab, UserRoot, va)
  PROVE  UserReachesFramesOnly'
<1>1. PICK n : n \notin Objs /\ Objs' = Objs \cup {n} /\ slots'[n] = Object(kind, frame)
  BY DEF Retyped
<1>2. slots'[n].mapped = FALSE /\ \A i \in Objs : slots'[i] = slots[i]
  BY <1>1, SMTT(30) DEF Object, Retyped
<1>3. \A va \in Pages : \A g : Reaches(va, g)' <=> Reaches(va, g)
  BY Zenon DEF Reaches
<1>4. ASSUME NEW va \in Pages, Translate(utab', UserRoot, va) # Null
      PROVE  LET e == Translate(utab', UserRoot, va) IN
             /\ e.perm \in {"RO", "RW", "text"}
             /\ UserPage(e.to) \/ \E i \in Objs' : slots'[i] = [type |-> "Frame", base |-> e.to, mapped |-> TRUE]
  BY <1>1, <1>2, <1>4, Zenon DEF UserReachesFramesOnly
<1>5. ASSUME NEW i \in Objs', slots'[i].type = "Frame", slots'[i].mapped
      PROVE  \E va \in Pages : \A vb \in Pages : Reaches(vb, slots[i].base)' <=> vb = va
  <2>1. i \in Objs /\ slots'[i] = slots[i]
    BY <1>1, <1>2, <1>5, ZenonT(40)
  <2>2. PICK va \in Pages : \A vb \in Pages : Reaches(vb, slots[i].base) <=> vb = va
    BY <1>5, <2>1, Zenon DEF UserReachesFramesOnly
  <2>3. \A vb \in Pages : Reaches(vb, slots[i].base)' <=> Reaches(vb, slots[i].base)
    BY <2>1, Zenon DEF Reaches
  <2> QED
    BY <2>2, <2>3, Zenon
<1> QED
  BY <1>4, <1>5, ZenonT(40) DEF UserReachesFramesOnly

\* RETYPE keeps the invariant, and on failure everything else too.
LEMMA RetypeKeeps ==
  ASSUME OInv, phase = "run", NEW s \in 0..CNODE_SLOTS, NEW kind \in ObjKind, sys_retype(s, kind)
  PROVE  OInv' /\ Stay
<1> DEFINE check == retype_check(s)
           frame == carve(slots[s + 1])
           alias == map_kernel_window(pool, Root1, frame, G)
<1>0. s \in Nat /\ CInv /\ reserved \in Reservations /\ CapTypeOK
  BY CapAssumption, SMTT(30) DEF OInv, CInv
<1>1. CASE check # "ok"
  <2>1. ret' = check /\ retype(s, kind, FALSE) /\ UNCHANGED <<pool, utab>>
    BY <1>1, ZenonT(40) DEF sys_retype
  <2>2. UNCHANGED capvars
    BY <2>1 DEF retype, capvars
  <2>3. check \in {"BAD_SLOT", "NOT_UNTYPED", "OUT_OF_SLOTS", "EXHAUSTED", "ok"}
    BY Zenon DEF retype_check
  <2>4. check # "park"
    <3> HIDE DEF check
    <3> QED
      BY <2>3
  <2>5. ret' # "park" /\ UNCHANGED <<capvars, pool, utab>>
    BY <2>1, <2>2, <2>4
  <2> QED
    BY <2>5, QuietKeeps, ZenonT(40)
<1>2. ASSUME check = "ok"
      PROVE  frame \in Granules /\ frame \in Pages /\ ~Within(frame, Window)
  BY <1>0, <1>2, FramePlace, Zenon
<1>3. PICK plev : PoolTree(pool, plev)
  BY DEF OInv, Shows
<1>4. Root1 \in PoolRoots /\ alias = map_kernel_window(pool, Root1, frame, G)
  BY ZenonT(40) DEF Root1, PoolRoots
<1>5. CASE check = "ok" /\ alias.r # "ok"
  <2>1. ret' = "KERNEL_RESOURCE" /\ retype(s, kind, FALSE) /\ pool' = alias.pool /\ UNCHANGED utab
    BY <1>5, ZenonT(40) DEF sys_retype
  <2>2. UNCHANGED capvars
    BY <2>1, ZenonT(40) DEF retype, capvars
  <2> HIDE DEF frame, alias
  <2>3. alias.pool = pool
    BY <1>2, <1>3, <1>4, <1>5, WindowMaps
  <2>4. ret' # "park" /\ UNCHANGED <<capvars, pool, utab>>
    BY <2>1, <2>2, <2>3, Zenon
  <2> QED
    BY <2>4, QuietKeeps
<1>6. CASE check = "ok" /\ alias.r = "ok"
  <2>1. ret' = "ok" /\ retype(s, kind, TRUE) /\ pool' = alias.pool /\ utab' = clear(frame)
    BY <1>6, Zenon DEF sys_retype
  <2>2. commit(s, kind) /\ UNCHANGED <<memory, reserved, region, cursor, phase>>
    BY <1>6, <2>1 DEF retype
  <2>3. Retyped(kind, frame)
    <3> DEFINE n == Len(slots) + 1
    <3>1. /\ s + 1 \in Untypeds /\ n \notin DOMAIN slots
          /\ \A i \in DOMAIN slots \ {s + 1} : slots'[i] = slots[i]
          /\ slots'[n] = Object(kind, frame) /\ Objs' = Objs \cup {n}
      BY <1>0, <1>6, <2>2, Committed, ZenonT(40)
    <3>2. n \notin Objs /\ Objs \subseteq DOMAIN slots /\ s + 1 \notin Objs
      BY <3>1, SlotSets DEF Objs
    <3> HIDE DEF n, frame
    <3> QED
      BY <2>2, <3>1, <3>2 DEF Retyped
  <2>4. CInv'
    BY <1>0, <1>6, <2>2, CommitKeeps
  <2>5. (reserved \in Reservations)'
    BY <1>0, <2>2, Zenon
  <2>6. ObjectPlaces
    BY <1>0, Places, ZenonT(40)
  <2>7. ObjectPlaces'
    BY <2>4, <2>5, Places, PTL
  <2> HIDE DEF frame, alias
  <2>8. frame \in Granules /\ frame \in Pages /\ ~Within(frame, Window)
    BY <1>2, <1>6, Zenon
  <2>9. /\ Shows(pool', Held')
        /\ \A va \in Pages : Translate(pool.tables, Root1, va) \in {Null, Translate(pool'.tables, Root1, va)}
    <3>1. Shows(pool, Held)
      BY DEF OInv
    <3> QED
      BY <1>4, <1>6, <2>1, <2>3, <2>8, <3>1, RetypeShows, ZenonT(40)
  <2>10. PICK lev : UserTree(lev)
    BY Zenon DEF OInv
  <2>11. /\ UserTree(lev)'
         /\ \A va \in Pages : Translate(utab', UserRoot, va) = Translate(utab, UserRoot, va)
    BY <2>1, <2>3, <2>6, <2>7, <2>8, <2>10, RetypeTables, ZenonT(40)
  <2>12. UserReachesFramesOnly'
    <3>1. UserReachesFramesOnly
      BY DEF OInv
    <3> QED
      BY <2>3, <2>11, <3>1, RetypeReaches, ZenonT(40)
  <2>13. OInv'
    <3>1. Shows(pool, Held)'
      BY <2>9, Zenon DEF Shows
    <3> QED
      BY <2>1, <2>4, <2>5, <2>11, <2>12, <3>1, ZenonT(40) DEF OInv
  <2> QED
    BY <2>1, <2>9, <2>11, <2>13, ZenonT(40) DEF Stay
<1> QED
  BY <1>1, <1>5, <1>6, Zenon

-----------------------------------------------------------------------------
(* MAP *)

\* MAP has changed the flag of the object in slot i, and tables as walk says.
Marks(i) ==
  /\ i \in Objs /\ Objs' = Objs /\ ~slots[i].mapped
  /\ slots'[i] = [type |-> slots[i].type, base |-> slots[i].base, mapped |-> TRUE]
  /\ \A j \in Objs \ {i} : slots'[j] = slots[j]
  /\ UNCHANGED <<memory, reserved, region, cursor, phase, pool>>

\* The kernel's mapping does not depend on flags.
LEMMA MarksShows ==
  ASSUME Shows(pool, Held), NEW i, Marks(i), CapTypeOK
  PROVE  Shows(pool, Held)'
<1>1. i \in Objs /\ slots'[i].type = slots[i].type /\ slots'[i].base = slots[i].base /\ Objs' = Objs
  BY SMTT(30) DEF Marks
<1>2. \A j \in Objs : slots'[j].type = slots[j].type /\ slots'[j].base = slots[j].base
  BY <1>1, Zenon DEF Marks
<1>3. \A g : ObjectAt(ObjKind, g)' <=> ObjectAt(ObjKind, g)
  BY <1>1, <1>2, Zenon DEF ObjectAt
<1>4. OwnMemory' = OwnMemory
  BY Zenon DEF Marks, OwnMemory, Dtb
<1>5. Held' = Held /\ pool' = pool
  BY <1>3, <1>4, Zenon DEF Held, Marks
<1> QED
  BY <1>5, Zenon DEF Shows

\* MAP of a Frame: its page is reached at va and was reached nowhere before.
LEMMA FrameMapped ==
  ASSUME OInv, NEW i, Marks(i), slots[i].type = "Frame", ObjectPlaces, NEW lev, UserTree(lev),
         NEW va \in Nat, NEW perm \in {"RO", "RW"}, NEW m,
         m = user_map_frame(utab, UserRoot, va, slots[i].base, perm), m.r = "ok", utab' = m.tabs
  PROVE  /\ UserTree(lev)' /\ UserReachesFramesOnly'
         /\ \A vb \in Pages : Translate(utab, UserRoot, vb) \in {Null, Translate(utab', UserRoot, vb)}
<1> DEFINE b == slots[i].base
           e == Entry(b, perm)
<1>0. i \in Objs /\ Objs' = Objs /\ ~slots[i].mapped /\ \A j \in Objs \ {i} : slots'[j] = slots[j]
  BY Zenon DEF Marks
<1>1. slots'[i] = [type |-> "Frame", base |-> b, mapped |-> TRUE]
  BY Zenon DEF Marks
<1>2. b \in Granules /\ b \in Pages /\ ~Within(b, Window) /\ ~UserPage(b) /\ b \in Nat
  BY <1>0, GranuleOf, Zenon DEF ObjectPlaces
<1>3. perm \in PagePerms /\ e \in PTE /\ e.to = b /\ e.perm = perm /\ e # Null
  BY <1>2, Zenon DEF PagePerms, Entry, PTE, Null
<1>4. Tree(utab, lev, {UserRoot}) /\ Linked(utab, lev, UserRoot) /\ utab \in [Granules -> Table]
  BY ZenonT(40) DEF UserTree
<1> HIDE DEF b, e
<1>5. /\ va \in Pages
      /\ Tree(m.tabs, lev, {UserRoot})
      /\ UserGains(utab, m.tabs, UserRoot, va, e)
      /\ \E t : Written(utab, lev, m.tabs, t, 3, e)
  <2>1. m = user_map_frame(utab, UserRoot, va, b, perm)
    BY ZenonT(40) DEF b
  <2> QED
    BY <1>2, <1>3, <1>4, <2>1, UserMaps, ZenonT(40) DEF e
<1>6. PICK t : Written(utab, lev, m.tabs, t, 3, e)
  BY <1>5
<1>7. Linked(m.tabs, lev, UserRoot)
  BY <1>3, <1>4, <1>6, LinkedPage, ZenonT(40)
<1>8. /\ m.tabs \in [Granules -> Table] /\ t \in DOMAIN lev
      /\ \A u \in Granules : u # t => m.tabs[u] = utab[u]
  <2>1. PICK k \in 0..Fan-1 : m.tabs = Put(utab, t, k, e)
    BY <1>6, Zenon DEF Written
  <2>2. t \in DOMAIN lev /\ t \in Granules
    BY <1>4, <1>6, ZenonT(40) DEF Written, Tree
  <2>3. Stored(Granules, utab, t, m.tabs)
    BY <1>3, <1>4, <2>1, <2>2, PutStores, Zenon
  <2> QED
    BY <2>2, <2>3, Zenon DEF Stored
<1>9. /\ Translate(utab, UserRoot, va) = Null
      /\ Translate(utab', UserRoot, va) = e
      /\ \A vb \in Pages : vb # va => Translate(utab', UserRoot, vb) = Translate(utab, UserRoot, vb)
  BY <1>5, ZenonT(40) DEF UserGains
<1>10. UserTree(lev)'
  <2>1. ASSUME NEW u \in DOMAIN lev
        PROVE  Within(u, Window) \/ \E j \in Objs' : slots'[j] = [type |-> "PageTable", base |-> u, mapped |-> TRUE]
    <3>1. CASE Within(u, Window)
      BY <3>1, Zenon
    <3>2. CASE ~Within(u, Window)
      <4>1. PICK j \in Objs : slots[j] = [type |-> "PageTable", base |-> u, mapped |-> TRUE]
        BY <3>2, Zenon DEF UserTree
      <4>2. j # i
        BY <4>1, SMTT(30)
      <4> QED
        BY <1>0, <4>1, <4>2, Zenon
    <3> QED
      BY <3>1, <3>2, ZenonT(40)
  <2>2. ASSUME NEW u \in Granules, Within(u, Window), u \notin DOMAIN lev
        PROVE  m.tabs[u] \in {ZeroTable, JunkTable}
    BY <1>8, <2>2, ZenonT(40) DEF UserTree
  <2>3. ASSUME NEW j \in Objs, slots'[j].type = "PageTable"
        PROVE  IF slots'[j].mapped THEN slots'[j].base \in DOMAIN lev ELSE m.tabs[slots'[j].base] = ZeroTable
    <3>1. j # i /\ slots'[j] = slots[j]
      BY <1>0, <1>1, <2>3, SMTT(30)
    <3>2. IF slots[j].mapped THEN slots[j].base \in DOMAIN lev ELSE utab[slots[j].base] = ZeroTable
      BY <2>3, <3>1, ZenonT(40) DEF UserTree
    <3>3. CASE slots[j].mapped
      BY <3>1, <3>2, <3>3, Zenon
    <3>4. CASE ~slots[j].mapped
      <4>1. slots[j].base # t
        <5>1. slots[j].base \in Granules /\ ~Within(slots[j].base, Window)
          BY Zenon DEF ObjectPlaces
        <5>2. ASSUME NEW k \in Objs, slots[k] = [type |-> "PageTable", base |-> slots[j].base, mapped |-> TRUE]
              PROVE  FALSE
          <6>1. slots[k].base = slots[j].base /\ slots[k].mapped
            BY <5>2, SMTT(30)
          <6>2. k = j
            BY <6>1, Zenon DEF ObjectPlaces
          <6> QED
            BY <3>4, <6>1, <6>2, ZenonT(40)
        <5> QED
          BY <1>8, <5>1, <5>2, Zenon DEF UserTree
      <4>2. m.tabs[slots[j].base] = utab[slots[j].base]
        BY <1>8, <4>1, Zenon DEF ObjectPlaces
      <4> QED
        BY <3>1, <3>2, <3>4, <4>2, ZenonT(40)
    <3> QED
      BY <3>3, <3>4, Zenon
  <2> QED
    BY <1>0, <1>5, <1>7, <1>8, <2>1, <2>2, <2>3, Zenon DEF UserTree
<1>11. ASSUME NEW vb \in Pages, Reaches(vb, b)
       PROVE  FALSE
  <2>1. LET x == Translate(utab, UserRoot, vb) IN x # Null /\ x.to = b
    BY <1>11, Zenon DEF Reaches
  <2>2. \E j \in Objs : slots[j] = [type |-> "Frame", base |-> b, mapped |-> TRUE]
    BY <1>2, <2>1, Zenon DEF OInv, UserReachesFramesOnly
  <2>3. PICK j \in Objs : slots[j] = [type |-> "Frame", base |-> b, mapped |-> TRUE]
    BY <2>2, Zenon
  <2>4. slots[j].base = b /\ slots[j].mapped
    BY <2>3, SMTT(30)
  <2>5. j = i
    BY <1>0, <2>4, Zenon DEF ObjectPlaces, b
  <2> QED
    BY <1>0, <2>4, <2>5, ZenonT(40)
<1>12. \A vb \in Pages : \A g : Reaches(vb, g)' <=> IF vb = va THEN g = b ELSE Reaches(vb, g)
  BY <1>3, <1>9, Zenon DEF Reaches
<1>13. UserReachesFramesOnly
  BY ZenonT(40) DEF OInv
<1>14. ASSUME NEW vb \in Pages, Translate(utab', UserRoot, vb) # Null
       PROVE  LET x == Translate(utab', UserRoot, vb) IN
              /\ x.perm \in {"RO", "RW", "text"}
              /\ UserPage(x.to) \/ \E j \in Objs' : slots'[j] = [type |-> "Frame", base |-> x.to, mapped |-> TRUE]
  <2>1. CASE vb = va
    BY <1>0, <1>1, <1>3, <1>9, <2>1, ZenonT(40)
  <2>2. CASE vb # va
    <3> DEFINE x == Translate(utab, UserRoot, vb)
    <3>1. Translate(utab', UserRoot, vb) = x /\ x # Null
      BY <1>9, <1>14, <2>2, ZenonT(40)
    <3>2. x.perm \in {"RO", "RW", "text"} /\ (UserPage(x.to) \/ \E j \in Objs : slots[j] = [type |-> "Frame", base |-> x.to, mapped |-> TRUE])
      BY <1>13, <3>1, Zenon DEF UserReachesFramesOnly
    <3> HIDE DEF x
    <3>3. ASSUME NEW j \in Objs, slots[j] = [type |-> "Frame", base |-> x.to, mapped |-> TRUE]
          PROVE  slots'[j] = [type |-> "Frame", base |-> x.to, mapped |-> TRUE]
      <4>1. j # i
        BY <1>0, <3>3, SMTT(30)
      <4> QED
        BY <1>0, <3>3, <4>1, ZenonT(40)
    <3> QED
      BY <1>0, <3>1, <3>2, <3>3, Zenon
  <2> QED
    BY <2>1, <2>2, ZenonT(40)
<1>15. ASSUME NEW j \in Objs', slots'[j].type = "Frame", slots'[j].mapped
       PROVE  \E vc \in Pages : \A vb \in Pages : Reaches(vb, slots[j].base)' <=> vb = vc
  <2>1. CASE j = i
    <3>1. slots'[j].base = b
      BY <1>1, <2>1, SMTT(30)
    <3>3. \A vb \in Pages : Reaches(vb, slots[j].base)' <=> vb = va
      BY <1>5, <1>11, <1>12, <3>1, ZenonT(40)
    <3> QED
      BY <1>5, <3>3, ZenonT(40)
  <2>2. CASE j # i
    <3>1. j \in Objs /\ slots'[j] = slots[j] /\ slots[j].base # b
      BY <1>0, <2>2, ZenonT(40) DEF ObjectPlaces, b
    <3>2. PICK vc \in Pages : \A vb \in Pages : Reaches(vb, slots[j].base) <=> vb = vc
      BY <1>13, <1>15, <3>1, ZenonT(40) DEF UserReachesFramesOnly
    <3>3. vc # va
      <4>1. Reaches(vc, slots[j].base)
        BY <3>2, Zenon
      <4> QED
        BY <1>9, <4>1, Zenon DEF Reaches
    <3>4. \A vb \in Pages : Reaches(vb, slots[j].base)' <=> vb = vc
      BY <1>5, <1>12, <3>1, <3>2, <3>3, ZenonT(40)
    <3> QED
      BY <3>4, ZenonT(40)
  <2> QED
    BY <2>1, <2>2, ZenonT(40)
<1>16. UserReachesFramesOnly'
  BY <1>14, <1>15, ZenonT(40) DEF UserReachesFramesOnly
<1> QED
  BY <1>9, <1>10, <1>16, ZenonT(40)

\* MAP of a PageTable: it joins the tree, and no translation changes.
LEMMA TableInstalled ==
  ASSUME OInv, NEW i, Marks(i), slots[i].type = "PageTable", ObjectPlaces, NEW lev, UserTree(lev),
         NEW va \in Nat, NEW m, m = user_install_table(utab, UserRoot, va, slots[i].base), m.r = "ok", utab' = m.tabs
  PROVE  /\ (\E lev2 : UserTree(lev2)') /\ UserReachesFramesOnly'
         /\ \A vb \in Pages : Translate(utab', UserRoot, vb) = Translate(utab, UserRoot, vb)
<1> DEFINE b == slots[i].base
           e == Entry(b, "table")
<1>0. i \in Objs /\ Objs' = Objs /\ ~slots[i].mapped /\ \A j \in Objs \ {i} : slots'[j] = slots[j]
  BY Zenon DEF Marks
<1>1. slots'[i] = [type |-> "PageTable", base |-> b, mapped |-> TRUE]
  BY Zenon DEF Marks
<1>2. b \in Granules /\ ~Within(b, Window) /\ b \in Nat
  BY <1>0, GranuleOf, ZenonT(40) DEF ObjectPlaces
<1>3. Tree(utab, lev, {UserRoot}) /\ Linked(utab, lev, UserRoot) /\ utab \in [Granules -> Table]
  BY ZenonT(40) DEF UserTree
<1>4. b \notin DOMAIN lev
  <2>1. ASSUME NEW k \in Objs, slots[k] = [type |-> "PageTable", base |-> b, mapped |-> TRUE]
        PROVE  FALSE
    <3>1. slots[k].base = b /\ slots[k].mapped
      BY <2>1, SMTT(30)
    <3>2. k = i
      BY <1>0, <3>1, Zenon DEF ObjectPlaces
    <3> QED
      BY <1>0, <3>1, <3>2, Zenon
  <2> QED
    BY <1>2, <2>1, ZenonT(40) DEF UserTree
<1>5. utab[b] = ZeroTable /\ DOMAIN utab = Granules
  BY <1>0, <1>3, Zenon DEF UserTree
<1>6. m = user_install_table(utab, UserRoot, va, b)
  BY ZenonT(40)
<1> HIDE DEF b
<1>7. PICK t \in DOMAIN lev :
        /\ lev[t] # 3
        /\ Tree(m.tabs, Below(lev, b, lev[t]), {UserRoot})
        /\ \A vb \in Pages : Translate(m.tabs, UserRoot, vb) = Translate(utab, UserRoot, vb)
        /\ Written(utab, lev, m.tabs, t, lev[t], Entry(b, "table"))
  BY <1>2, <1>3, <1>4, <1>5, <1>6, UserInstalls, ZenonT(40)
<1>a. PICK lev2 : lev2 = Below(lev, b, lev[t])
  BY ZenonT(40)
<1>8. Linked(m.tabs, lev2, UserRoot)
  BY <1>2, <1>3, <1>4, <1>7, <1>a, LinkedTable, ZenonT(40)
<1>9. DOMAIN lev2 = DOMAIN lev \cup {b}
  BY <1>a, Zenon DEF Below
<1>10. /\ m.tabs \in [Granules -> Table]
       /\ \A u \in Granules : u # t => m.tabs[u] = utab[u]
  <2>1. PICK k \in 0..Fan-1 : m.tabs = Put(utab, t, k, e)
    BY <1>7, Zenon DEF Written
  <2>2. t \in Granules /\ e \in PTE
    BY <1>2, <1>3, ZenonT(40) DEF Tree, Entry, PTE
  <2> HIDE DEF e
  <2>3. Stored(Granules, utab, t, m.tabs)
    BY <1>3, <2>1, <2>2, PutStores, Zenon
  <2> QED
    BY <2>3, Zenon DEF Stored
<1>11. UserTree(lev2)'
  <2>1. ASSUME NEW u \in DOMAIN lev2
        PROVE  Within(u, Window) \/ \E j \in Objs' : slots'[j] = [type |-> "PageTable", base |-> u, mapped |-> TRUE]
    <3>1. CASE Within(u, Window)
      BY <3>1
    <3>2. CASE u = b
      BY <1>0, <1>1, <3>2
    <3>3. CASE ~Within(u, Window) /\ u # b
      <4>1. PICK j \in Objs : slots[j] = [type |-> "PageTable", base |-> u, mapped |-> TRUE]
        BY <1>9, <3>3, Zenon DEF UserTree
      <4>2. j # i
        BY <1>0, <4>1, SMTT(30)
      <4> QED
        BY <1>0, <4>1, <4>2, ZenonT(40)
    <3> QED
      BY <3>1, <3>2, <3>3, ZenonT(40)
  <2>2. ASSUME NEW u \in Granules, Within(u, Window), u \notin DOMAIN lev2
        PROVE  m.tabs[u] \in {ZeroTable, JunkTable}
    BY <1>9, <1>10, <2>2, ZenonT(40) DEF UserTree
  <2>3. ASSUME NEW j \in Objs, slots'[j].type = "PageTable"
        PROVE  IF slots'[j].mapped THEN slots'[j].base \in DOMAIN lev2 ELSE m.tabs[slots'[j].base] = ZeroTable
    <3>1. CASE j = i
      BY <1>1, <1>9, <3>1, SMTT(30)
    <3>2. CASE j # i
      <4>1. slots'[j] = slots[j] /\ slots[j].type = "PageTable"
        BY <1>0, <2>3, <3>2, ZenonT(40)
      <4>2. IF slots[j].mapped THEN slots[j].base \in DOMAIN lev ELSE utab[slots[j].base] = ZeroTable
        BY <4>1, Zenon DEF UserTree
      <4>3. CASE slots[j].mapped
        BY <1>9, <4>1, <4>2, <4>3, ZenonT(40)
      <4>4. CASE ~slots[j].mapped
        <5>1. slots[j].base # t
          <6>1. slots[j].base \in Granules /\ ~Within(slots[j].base, Window)
            BY Zenon DEF ObjectPlaces
          <6>2. ASSUME NEW k \in Objs, slots[k] = [type |-> "PageTable", base |-> slots[j].base, mapped |-> TRUE]
                PROVE  FALSE
            <7>1. slots[k].base = slots[j].base /\ slots[k].mapped
              BY <6>2, SMTT(30)
            <7>2. k = j
              BY <7>1, Zenon DEF ObjectPlaces
            <7> QED
              BY <4>4, <7>1, <7>2, Zenon
          <6> QED
            BY <6>1, <6>2, Zenon DEF UserTree
        <5>2. m.tabs[slots[j].base] = utab[slots[j].base]
          BY <1>10, <5>1, Zenon DEF ObjectPlaces
        <5> QED
          BY <4>1, <4>2, <4>4, <5>2, ZenonT(40)
      <4> QED
        BY <4>3, <4>4, ZenonT(40)
    <3> QED
      BY <3>1, <3>2, Zenon
  <2> QED
    BY <1>0, <1>7, <1>8, <1>10, <1>a, <2>1, <2>2, <2>3, ZenonT(40) DEF UserTree
<1>12. UserReachesFramesOnly
  BY Zenon DEF OInv
<1>13. \A vb \in Pages : Translate(utab', UserRoot, vb) = Translate(utab, UserRoot, vb)
  BY <1>7, ZenonT(40)
<1>14. ASSUME NEW vb \in Pages, Translate(utab', UserRoot, vb) # Null
       PROVE  LET x == Translate(utab', UserRoot, vb) IN
              /\ x.perm \in {"RO", "RW", "text"}
              /\ UserPage(x.to) \/ \E j \in Objs' : slots'[j] = [type |-> "Frame", base |-> x.to, mapped |-> TRUE]
  <2> DEFINE x == Translate(utab, UserRoot, vb)
  <2>1. Translate(utab', UserRoot, vb) = x /\ x # Null
    BY <1>13, <1>14
  <2>2. x.perm \in {"RO", "RW", "text"} /\ (UserPage(x.to) \/ \E j \in Objs : slots[j] = [type |-> "Frame", base |-> x.to, mapped |-> TRUE])
    BY <1>12, <2>1, ZenonT(40) DEF UserReachesFramesOnly
  <2> HIDE DEF x
  <2>3. ASSUME NEW j \in Objs, slots[j] = [type |-> "Frame", base |-> x.to, mapped |-> TRUE]
        PROVE  slots'[j] = [type |-> "Frame", base |-> x.to, mapped |-> TRUE]
    <3>1. j # i
      BY <1>0, <2>3, SMTT(30)
    <3> QED
      BY <1>0, <2>3, <3>1, Zenon
  <2> QED
    BY <1>0, <2>1, <2>2, <2>3, ZenonT(40)
<1>15. ASSUME NEW j \in Objs', slots'[j].type = "Frame", slots'[j].mapped
       PROVE  \E vc \in Pages : \A vb \in Pages : Reaches(vb, slots[j].base)' <=> vb = vc
  <2>1. j # i
    BY <1>1, <1>15, SMTT(30)
  <2>2. j \in Objs /\ slots'[j] = slots[j]
    BY <1>0, <2>1, Zenon
  <2>3. PICK vc \in Pages : \A vb \in Pages : Reaches(vb, slots[j].base) <=> vb = vc
    BY <1>12, <1>15, <2>2, ZenonT(40) DEF UserReachesFramesOnly
  <2>4. \A vb \in Pages : Reaches(vb, slots[j].base)' <=> Reaches(vb, slots[j].base)
    BY <1>13, <2>2, ZenonT(40) DEF Reaches
  <2> QED
    BY <2>3, <2>4, Zenon
<1>16. UserReachesFramesOnly'
  BY <1>14, <1>15, Zenon DEF UserReachesFramesOnly
<1> QED
  BY <1>11, <1>13, <1>16, ZenonT(40)

\* set_mapped, as a change of objects.
LEMMA MappedMarks ==
  ASSUME CapTypeOK, NEW s \in Nat, set_mapped(s), ~slots[s + 1].mapped, UNCHANGED pool
  PROVE  Marks(s + 1)
<1>1. /\ s + 1 \in Objs /\ slots'[s + 1] = [slots[s + 1] EXCEPT !.mapped = TRUE]
      /\ \A i \in DOMAIN slots \ {s + 1} : slots'[i] = slots[i]
      /\ Objs' = Objs
  BY MappedSlots
<1>2. slots[s + 1] \in [type : ObjKind, base : Nat, mapped : BOOLEAN]
  BY <1>1, Slots
<1>3. slots'[s + 1] = [type |-> slots[s + 1].type, base |-> slots[s + 1].base, mapped |-> TRUE]
  BY <1>1, <1>2, ZenonT(40)
<1>4. \A j \in Objs \ {s + 1} : slots'[j] = slots[j]
  BY <1>1 DEF Objs
<1>5. UNCHANGED <<memory, reserved, region, cursor, phase>>
  BY DEF set_mapped
<1> QED
  BY <1>1, <1>3, <1>4, <1>5, ZenonT(40) DEF Marks

\* MAP keeps the invariant, and on failure everything else too.
LEMMA MapKeeps ==
  ASSUME OInv, phase = "run", NEW s \in 0..CNODE_SLOTS, NEW va \in Nat, NEW perm, NEW aspace,
         sys_map(s, va, perm, aspace)
  PROVE  OInv' /\ Stay
<1>0. s \in Nat /\ CInv /\ reserved \in Reservations /\ CapTypeOK /\ ObjectPlaces
  BY CapAssumption, Places, SMTT(30) DEF OInv, CInv
<1>1. ASSUME NEW error, error # "park", MapFails(error)
      PROVE  OInv' /\ Stay
  BY <1>1, QuietKeeps, ZenonT(40) DEF MapFails
<1>2. map_checked(s, perm) # "park"
  <2>1. map_checked(s, perm) \in {"BAD_SLOT", "BAD_CAP", "ALREADY_MAPPED", "BAD_PERM", "ok"}
    BY Zenon DEF map_checked
  <2> QED
    BY <2>1
<1>3. ASSUME NEW r \in {"BadVA", "Overlap", "MissingTable"}
      PROVE  mmu_err(r) # "park"
  <2>1. mmu_err(r) \in {"BAD_VA", "OVERLAP", "MISSING_TABLE"}
    BY DEF mmu_err
  <2> QED
    BY <2>1
<1>4. ASSUME map_checked(s, perm) = "ok"
      PROVE  /\ cap_type(s) \in {"Frame", "PageTable"} /\ ~slots[s + 1].mapped
             /\ cap_type(s) = "Frame" => perm \in {"RO", "RW"}
  BY <1>4, Zenon DEF map_checked
<1>5. ASSUME cap_type(s) \in {"Frame", "PageTable"}
      PROVE  s + 1 \in Objs /\ slots[s + 1].type = cap_type(s)
  <2>1. s < Len(slots) /\ slots[s + 1].type = cap_type(s)
    BY <1>5, Zenon DEF cap_type
  <2>2. Len(slots) \in Nat /\ DOMAIN slots = 1..Len(slots)
    BY <1>0, Slots, Zenon
  <2> QED
    BY <1>0, <1>5, <2>1, <2>2, SMTT(30) DEF Objs, ObjKind
<1>6. PICK lev : UserTree(lev)
  BY Zenon DEF OInv
<1>7. Tree(utab, lev, {UserRoot}) /\ utab \in [Granules -> Table] /\ DOMAIN utab = Granules
  BY <1>6, Zenon DEF UserTree
<1>8. ASSUME NEW walk, walk.r = "ok", MapReturns(s, walk), ~slots[s + 1].mapped
      PROVE  /\ set_mapped(s) /\ utab' = walk.tabs /\ ret' = "ok" /\ UNCHANGED pool
             /\ Marks(s + 1) /\ CInv' /\ (reserved \in Reservations)' /\ Shows(pool, Held)'
  <2>1. set_mapped(s) /\ utab' = walk.tabs /\ ret' = "ok" /\ UNCHANGED pool
    BY <1>8, Zenon DEF MapReturns
  <2>2. Marks(s + 1) /\ CInv'
    BY <1>0, <1>8, <2>1, MappedMarks, MappedKeeps, ZenonT(40)
  <2>3. (reserved \in Reservations)'
    BY <1>0, <2>2, Zenon DEF Marks
  <2>4. Shows(pool, Held)'
    BY <1>0, <2>2, MarksShows, Zenon DEF OInv
  <2> QED
    BY <2>1, <2>2, <2>3, <2>4, ZenonT(40)
<1>9. ASSUME cap_type(s) = "Frame", map_checked(s, perm) = "ok",
             MapReturns(s, user_map_frame(utab, UserRoot, va, slots[s + 1].base, perm))
      PROVE  OInv' /\ Stay
  <2> DEFINE walk == user_map_frame(utab, UserRoot, va, slots[s + 1].base, perm)
  <2>1. /\ s + 1 \in Objs /\ slots[s + 1].type = "Frame" /\ ~slots[s + 1].mapped
        /\ perm \in {"RO", "RW"} /\ perm \in PagePerms
    BY <1>4, <1>5, <1>9, ZenonT(40) DEF PagePerms
  <2>2. slots[s + 1].base \in Nat /\ walk = user_map_frame(utab, UserRoot, va, slots[s + 1].base, perm) /\ MapReturns(s, walk)
    BY <1>0, <1>9, <2>1, Slots, ZenonT(40)
  <2> HIDE DEF walk
  <2>3. walk.r \in {"ok", "BadVA", "Overlap", "MissingTable"}
    <3> DEFINE b == slots[s + 1].base
    <3>1. b \in Nat /\ perm \in PagePerms /\ walk = user_map_frame(utab, UserRoot, va, b, perm) /\ Tree(utab, lev, {UserRoot})
      BY <1>7, <2>1, <2>2
    <3> HIDE DEF b
    <3> QED
      BY <3>1, UserMaps, ZenonT(40)
  <2>4. CASE walk.r # "ok"
    <3>1. MapFails(mmu_err(walk.r))
      BY <2>2, <2>4, ZenonT(40) DEF MapReturns
    <3> QED
      BY <1>1, <1>3, <2>3, <2>4, <3>1, ZenonT(40)
  <2>5. CASE walk.r = "ok"
    <3>1. /\ utab' = walk.tabs /\ ret' = "ok" /\ UNCHANGED pool /\ phase' = phase
          /\ Marks(s + 1) /\ CInv' /\ (reserved \in Reservations)' /\ Shows(pool, Held)'
      BY <1>8, <2>1, <2>2, <2>5, ZenonT(40) DEF set_mapped
    <3>2. /\ UserTree(lev)' /\ UserReachesFramesOnly'
          /\ \A vb \in Pages : Translate(utab, UserRoot, vb) \in {Null, Translate(utab', UserRoot, vb)}
      BY <1>0, <1>6, <2>1, <2>2, <2>5, <3>1, FrameMapped, ZenonT(40)
    <3>3. OInv'
      BY <3>1, <3>2, ZenonT(40) DEF OInv
    <3> QED
      BY <3>1, <3>2, <3>3, ZenonT(40) DEF Stay
  <2> QED
    BY <2>4, <2>5, Zenon
<1>10. ASSUME cap_type(s) = "PageTable", map_checked(s, perm) = "ok",
              MapReturns(s, user_install_table(utab, UserRoot, va, slots[s + 1].base))
       PROVE  OInv' /\ Stay
  <2> DEFINE walk == user_install_table(utab, UserRoot, va, slots[s + 1].base)
  <2>1. s + 1 \in Objs /\ slots[s + 1].type = "PageTable" /\ ~slots[s + 1].mapped
    BY <1>4, <1>5, <1>10, ZenonT(40)
  <2>2. slots[s + 1].base \in Nat /\ walk = user_install_table(utab, UserRoot, va, slots[s + 1].base) /\ MapReturns(s, walk)
    BY <1>0, <1>10, <2>1, Slots, ZenonT(40)
  <2>3. slots[s + 1].base \in DOMAIN utab /\ slots[s + 1].base \notin DOMAIN lev /\ utab[slots[s + 1].base] = ZeroTable
    <3>1. slots[s + 1].base \in Granules /\ ~Within(slots[s + 1].base, Window)
      BY <1>0, <2>1, Zenon DEF ObjectPlaces
    <3>2. utab[slots[s + 1].base] = ZeroTable
      BY <1>6, <2>1, Zenon DEF UserTree
    <3>3. ASSUME NEW k \in Objs, slots[k] = [type |-> "PageTable", base |-> slots[s + 1].base, mapped |-> TRUE]
          PROVE  FALSE
      <4>1. slots[k].base = slots[s + 1].base /\ slots[k].mapped
        BY <3>3, SMTT(30)
      <4>2. k = s + 1
        BY <1>0, <2>1, <4>1, ZenonT(40) DEF ObjectPlaces
      <4> QED
        BY <2>1, <4>1, <4>2, ZenonT(40)
    <3> QED
      BY <1>6, <1>7, <3>1, <3>2, <3>3, ZenonT(40) DEF UserTree
  <2> HIDE DEF walk
  <2>4. walk.r \in {"ok", "BadVA", "Overlap"}
    <3> DEFINE b == slots[s + 1].base
    <3>1. /\ b \in Nat /\ b \in DOMAIN utab /\ b \notin DOMAIN lev /\ utab[b] = ZeroTable
          /\ walk = user_install_table(utab, UserRoot, va, b) /\ Tree(utab, lev, {UserRoot})
      BY <1>7, <2>2, <2>3
    <3> HIDE DEF b
    <3> QED
      BY <3>1, UserInstalls, ZenonT(40)
  <2>5. CASE walk.r # "ok"
    <3>1. MapFails(mmu_err(walk.r))
      BY <2>2, <2>5, Zenon DEF MapReturns
    <3> QED
      BY <1>1, <1>3, <2>4, <2>5, <3>1, ZenonT(40)
  <2>6. CASE walk.r = "ok"
    <3>1. /\ utab' = walk.tabs /\ ret' = "ok" /\ UNCHANGED pool /\ phase' = phase
          /\ Marks(s + 1) /\ CInv' /\ (reserved \in Reservations)' /\ Shows(pool, Held)'
      BY <1>8, <2>1, <2>2, <2>6, ZenonT(40) DEF set_mapped
    <3>2. /\ (\E lev2 : UserTree(lev2)') /\ UserReachesFramesOnly'
          /\ \A vb \in Pages : Translate(utab', UserRoot, vb) = Translate(utab, UserRoot, vb)
      BY <1>0, <1>6, <2>1, <2>2, <2>6, <3>1, TableInstalled, ZenonT(40)
    <3>3. OInv'
      BY <3>1, <3>2, Zenon DEF OInv
    <3> QED
      BY <3>1, <3>2, <3>3, ZenonT(40) DEF Stay
  <2> QED
    BY <2>5, <2>6
<1>11. \/ MapFails("BAD_SLOT") \/ MapFails("BAD_CAP")
       \/ map_checked(s, perm) # "ok" /\ MapFails(map_checked(s, perm))
       \/ /\ map_checked(s, perm) = "ok" /\ cap_type(s) = "Frame"
          /\ MapReturns(s, user_map_frame(utab, UserRoot, va, slots[s + 1].base, perm))
       \/ /\ map_checked(s, perm) = "ok" /\ cap_type(s) = "PageTable"
          /\ MapReturns(s, user_install_table(utab, UserRoot, va, slots[s + 1].base))
  BY Zenon DEF sys_map
<1> QED
  BY <1>1, <1>2, <1>9, <1>10, <1>11, ZenonT(40)

-----------------------------------------------------------------------------

\* Every step of the boot, RETYPE and MAP keeps the invariant.
LEMMA ObjStepKeeps == OInv /\ [ObjNext]_objvars => OInv' /\ (UNCHANGED objvars \/ Stay)
<1> SUFFICES ASSUME OInv, [ObjNext]_objvars
             PROVE  OInv' /\ (UNCHANGED objvars \/ Stay)
  OBVIOUS
<1>1. CASE UNCHANGED objvars
  <2>1. UNCHANGED <<memory, reserved, slots, region, cursor, phase, pool, utab, ret, capvars>>
    BY <1>1, Zenon DEF objvars, capvars
  <2>2. CInv'
    BY <2>1, StepKeeps, Zenon DEF OInv
  <2>3. Objs' = Objs /\ \A i \in Objs : slots'[i] = slots[i]
    BY <2>1, Zenon DEF Objs
  <2>4. ret' # "park" /\ (phase' # "run" => ret' = "ok")
    BY <2>1, Zenon DEF OInv
  <2>5. OInv'
    BY <2>1, <2>2, <2>3, <2>4, Unmoved, ZenonT(40)
  <2> QED
    BY <1>1, <2>5, Zenon
<1>2. CASE ObjPark
  BY <1>1, <1>2, Zenon DEF ObjPark
<1>3. CASE ObjBoot
  <2>1. OInv' /\ ret' = "ok" /\ UNCHANGED <<pool, utab>>
    BY <1>3, BootKeeps, Zenon
  <2> QED
    BY <2>1 DEF Stay
<1>4. CASE phase = "run" /\ sys_retype_bad_type
  <2>1. ret' # "park" /\ UNCHANGED <<capvars, pool, utab>>
    BY <1>4, Zenon DEF sys_retype_bad_type
  <2> QED
    BY <1>4, <2>1, QuietKeeps, ZenonT(40)
<1>5. ASSUME phase = "run", NEW s \in 0..CNODE_SLOTS, NEW kind \in ObjKind, sys_retype(s, kind)
      PROVE  OInv' /\ Stay
  BY <1>5, RetypeKeeps, Zenon
<1>6. ASSUME phase = "run", NEW s \in 0..CNODE_SLOTS, NEW a \in MapArgs, sys_map(s, a[1], a[2], a[3])
      PROVE  OInv' /\ Stay
  <2>1. a[1] \in Nat
    BY ObjAssumption, Zenon
  <2> QED
    BY <1>6, <2>1, MapKeeps, ZenonT(40)
<1> QED
  BY <1>1, <1>2, <1>3, <1>4, <1>5, <1>6, ZenonT(40) DEF ObjNext

\* The invariant holds in every reachable state.
LEMMA ObjInvariant == ObjSpec => []OInv
<1>1. ObjInit => OInv
  BY ObjInitHolds, Zenon
<1> QED
  BY <1>1, ObjStepKeeps, PTL DEF ObjSpec

\* The links into a PageTable all come from tables of the tree.
LEMMA LinksInTree ==
  ASSUME NEW lev, UserTree(lev), NEW b, NEW t \in Granules, NEW k \in 0..Fan-1,
         t = UserRoot \/ ObjectAt({"PageTable"}, t) \/ Within(t, Window), utab[t][k] = Entry(b, "table")
  PROVE  t \in DOMAIN lev /\ lev[t] # 3 /\ b \in DOMAIN lev
<1>1. Entry(b, "table") # Null /\ Entry(b, "table") # Junk /\ Entry(b, "table").perm = "table" /\ Entry(b, "table").to = b
  BY Zenon DEF Entry, Null, Junk
<1>2. utab[t] # ZeroTable /\ utab[t] # JunkTable
  BY <1>1, EntryParts, ZenonT(40)
<1>3. Tree(utab, lev, {UserRoot})
  BY ZenonT(40) DEF UserTree
<1>4. t \in DOMAIN lev
  <2>1. CASE t = UserRoot
    BY <1>3, <2>1, ZenonT(40) DEF Tree
  <2>2. CASE Within(t, Window)
    BY <1>2, <2>2, ZenonT(40) DEF UserTree
  <2>3. CASE ObjectAt({"PageTable"}, t)
    <3>1. PICK i \in Objs : slots[i].type = "PageTable" /\ slots[i].base = t
      BY <2>3, Zenon DEF ObjectAt
    <3> QED
      BY <1>2, <3>1, ZenonT(40) DEF UserTree
  <2> QED
    BY <2>1, <2>2, <2>3, ZenonT(40)
<1>5. IF lev[t] = 3 THEN utab[t][k].perm \in PagePerms
      ELSE utab[t][k].perm = "table" /\ utab[t][k].to \in DOMAIN lev
  BY <1>1, <1>3, <1>4, ZenonT(40) DEF Tree
<1>6. "table" \notin PagePerms
  BY ZenonT(40) DEF PagePerms
<1> QED
  BY <1>1, <1>4, <1>5, <1>6, ZenonT(40)

\* An installed PageTable has one link in the tree, another none.
LEMMA LinkedOnce == OInv => TableLinkedOnce
<1> SUFFICES ASSUME OInv, NEW i \in Objs, slots[i].type = "PageTable"
             PROVE  LET refs == {p \in Granules \X (0..Fan-1) :
                                   /\ p[1] = UserRoot \/ ObjectAt({"PageTable"}, p[1]) \/ Within(p[1], Window)
                                   /\ utab[p[1]][p[2]] = Entry(slots[i].base, "table")}
                    IN  IF slots[i].mapped THEN \E p \in refs : refs = {p} ELSE refs = {}
  BY Zenon DEF TableLinkedOnce
<1> DEFINE b == slots[i].base
           refs == {p \in Granules \X (0..Fan-1) :
                      /\ p[1] = UserRoot \/ ObjectAt({"PageTable"}, p[1]) \/ Within(p[1], Window)
                      /\ utab[p[1]][p[2]] = Entry(b, "table")}
<1>1. PICK lev : UserTree(lev)
  BY Zenon DEF OInv
<1>2. ObjectPlaces
  BY Places, Zenon DEF OInv
<1>3. b \in Granules /\ ~Within(b, Window) /\ b # UserRoot
  BY <1>2, Zenon DEF ObjectPlaces
<1>4. Tree(utab, lev, {UserRoot}) /\ Linked(utab, lev, UserRoot) /\ DOMAIN utab = Granules
  BY <1>1, Zenon DEF UserTree
<1>5. ASSUME NEW p \in refs
      PROVE  /\ p[1] \in DOMAIN lev /\ p[2] \in 0..Fan-1 /\ lev[p[1]] # 3 /\ p = <<p[1], p[2]>>
             /\ b \in DOMAIN lev /\ utab[p[1]][p[2]] = Entry(b, "table")
  <2>1. /\ p[1] \in Granules /\ p[2] \in 0..Fan-1 /\ p = <<p[1], p[2]>>
        /\ p[1] = UserRoot \/ ObjectAt({"PageTable"}, p[1]) \/ Within(p[1], Window)
        /\ utab[p[1]][p[2]] = Entry(b, "table")
    BY SMTT(30)
  <2> HIDE DEF b, refs
  <2> QED
    BY <1>1, <2>1, LinksInTree, Zenon
<1>6. CASE ~slots[i].mapped
  <2>1. ASSUME b \in DOMAIN lev
        PROVE  FALSE
    <3>1. PICK k \in Objs : slots[k] = [type |-> "PageTable", base |-> b, mapped |-> TRUE]
      BY <1>1, <1>3, <2>1, ZenonT(40) DEF UserTree
    <3>2. slots[k].base = b /\ slots[k].mapped
      BY <3>1, SMTT(30)
    <3>3. k = i
      BY <1>2, <3>2, Zenon DEF ObjectPlaces
    <3> QED
      BY <1>6, <3>2, <3>3, ZenonT(40)
  <2>2. refs = {}
    BY <1>5, <2>1, ZenonT(40)
  <2> QED
    BY <1>6, <2>2, Zenon
<1>7. CASE slots[i].mapped
  <2>1. b \in DOMAIN lev \ {UserRoot}
    BY <1>1, <1>3, <1>7, ZenonT(40) DEF UserTree
  <2>2. PICK u \in DOMAIN lev, k \in 0..Fan-1 : lev[u] # 3 /\ utab[u][k] = Entry(b, "table")
    BY <1>4, <2>1, Zenon DEF Linked
  <2>3. u \in Granules
    BY <1>4, Zenon DEF Tree
  <2>4. Within(u, Window) \/ ObjectAt({"PageTable"}, u)
    <3>1. CASE Within(u, Window)
      BY <3>1, Zenon
    <3>2. CASE ~Within(u, Window)
      <4>1. PICK j \in Objs : slots[j] = [type |-> "PageTable", base |-> u, mapped |-> TRUE]
        BY <1>1, <3>2, Zenon DEF UserTree
      <4>2. slots[j].type = "PageTable" /\ slots[j].base = u
        BY <4>1, SMTT(30)
      <4> QED
        BY <4>2, Zenon DEF ObjectAt
    <3> QED
      BY <3>1, <3>2, ZenonT(40)
  <2>5. <<u, k>> \in refs
    BY <2>2, <2>3, <2>4, ZenonT(40)
  <2>6. ASSUME NEW p \in refs
        PROVE  p = <<u, k>>
    <3>1. /\ p[1] \in DOMAIN lev /\ p[2] \in 0..Fan-1 /\ lev[p[1]] # 3 /\ p = <<p[1], p[2]>>
          /\ utab[p[1]][p[2]] = Entry(b, "table")
      BY <1>5, Zenon
    <3>2. Entry(b, "table") # Null
      BY EntryParts
    <3> HIDE DEF b, refs
    <3>3. p[1] = u /\ p[2] = k
      BY <1>4, <2>2, <3>1, <3>2, SMTT(30) DEF Tree
    <3> QED
      BY <3>1, <3>3, Zenon
  <2>7. refs = {<<u, k>>}
    BY <2>5, <2>6, ZenonT(40)
  <2> QED
    BY <1>7, <2>5, <2>7, ZenonT(40)
<1> QED
  BY <1>6, <1>7, ZenonT(40)

-----------------------------------------------------------------------------
(* Theorems *)

\* The kernel never parks over "user page table corrupt": whatever RETYPEs and
\* MAPs follow a boot, the walkers of user.rs meet only entries they wrote.
THEOREM UserTablesSound == ObjSpec => []NeverCorrupt
<1>1. OInv => NeverCorrupt
  BY Zenon DEF OInv, NeverCorrupt, Parked
<1> QED
  BY <1>1, ObjInvariant, PTL

\* EL0 reaches the root task's pages and mapped Frames only, each Frame at one
\* address: no page table, TCB, endpoint, untyped or kernel memory.
THEOREM UserIsolated == ObjSpec => []UserReachesFramesOnly
<1>1. OInv => UserReachesFramesOnly
  BY ZenonT(40) DEF OInv
<1> QED
  BY <1>1, ObjInvariant, PTL

\* An installed PageTable is linked once and one not installed never, so that
\* no frame serves as a table at two places.
THEOREM TablesLinkedOnce == ObjSpec => []TableLinkedOnce
BY LinkedOnce, ObjInvariant, PTL

\* The kernel's alias mapping holds its own memory and the objects, exactly,
\* however RETYPEs fail and succeed in turn.
THEOREM KernelSeesObjects == ObjSpec => []KernelMapsObjects
<1>1. OInv => KernelMapsObjects
  BY DEF OInv, Shows, Held, KernelMapsObjects
<1> QED
  BY <1>1, ObjInvariant, PTL

\* A RETYPE or MAP that returns an error has changed no capability, no kernel
\* table and no user table.
THEOREM FailuresLeaveNoTrace == ObjSpec => FailureChangesNothing
<1>1. OInv /\ [ObjNext]_objvars => [ret' # "ok" => UNCHANGED <<slots, pool, utab>>]_objvars
  BY ObjStepKeeps DEF Stay
<1> QED
  BY <1>1, ObjInvariant, PTL DEF ObjSpec, FailureChangesNothing

\* No call ever changes or removes a translation, of the user or of the kernel.
THEOREM TranslationsPersist == ObjSpec => TranslationsStay
<1> DEFINE A == /\ utab' # utab => \A va \in Pages :
                     Translate(utab, UserRoot, va) \in {Null, Translate(utab', UserRoot, va)}
                /\ pool' # pool => \A va \in Pages :
                     Translate(pool.tables, Root1, va) \in {Null, Translate(pool'.tables, Root1, va)}
<1>1. OInv /\ [ObjNext]_objvars => [A]_objvars
  BY ObjStepKeeps DEF Stay
<1> QED
  BY <1>1, ObjInvariant, PTL DEF ObjSpec, TranslationsStay

=============================================================================
