----------------------------- MODULE PageTables -----------------------------
(***************************************************************************)
(* The page-table walkers of crates/k0-mm, as operators on table contents: *)
(* Pool::map_page of paging.rs, which builds the kernel's tables from a    *)
(* fixed pool, and the user-side walkers of user.rs. Tables have four      *)
(* levels, 0 to 3; level 3 holds the pages.                                *)
(*                                                                         *)
(* Operators named ..._mutant are wrong on purpose: each is a plausible    *)
(* mistake in the definition it precedes, and breaks a property of Objects.*)
(***************************************************************************)
EXTENDS Granule

CONSTANTS
  Fan,       \* entries of a table, 2^BITS_PER_LEVEL
  Fan0,      \* entries of a level 0 table that 48 bits select: all or, at 16 KiB, two
  POOL_LEN   \* tables in the kernel's pool

ASSUME TableAssumption == Fan \in Nat \ {0} /\ Fan0 \in 1..Fan /\ POOL_LEN \in Nat

Span == Fan0 * Fan * Fan * Fan   \* pages that four levels can map
Top == G * Span                  \* 2^48: the first address past the tables' range

\* What an entry of a table of each level spans, 2^shift of the level.
Widths == <<G * Fan * Fan * Fan, G * Fan * Fan, G * Fan, G>>

\* va shifted right by the page bits and the bits of each level below, and
\* masked to the bits of its level.
index(va, level) == (va \div Widths[level + 1]) % (IF level = 0 THEN Fan0 ELSE Fan)

\* An entry is 0, or it points to a table or a page: table and page
\* descriptors have the same type bits, and only the level tells them apart.
Null == [to |-> 0, perm |-> "invalid"]
Entry(pa, perm) == [to |-> pa, perm |-> perm]
ZeroTable == [i \in 0..Fan-1 |-> Null]

\* What an uncleared frame may hold: no valid descriptor.
Junk == [to |-> 0, perm |-> "junk"]
JunkTable == [i \in 0..Fan-1 |-> Junk]

\* Entry i of table t is written.
Put(tabs, t, i, e) == [tabs EXCEPT ![t][i] = e]

-----------------------------------------------------------------------------
(* The kernel's pool: tables [0..POOL_LEN-1 -> table] and used *)

EmptyPool == [tables |-> [i \in 0..POOL_LEN-1 |-> ZeroTable], used |-> 0]

\* A new table is linked at entry i of the walk's table; links are the entries
\* that the walk wrote.
PoolLink(w, i) ==
  LET n == w.pool.used IN
  IF n = POOL_LEN THEN [w EXCEPT !.r = "OutOfTables"]
  ELSE [r |-> "ok", t |-> n, links |-> w.links \cup {<<w.t, i>>},
        pool |-> [tables |-> Put(w.pool.tables, w.t, i, Entry(n, "table")), used |-> n + 1]]

\* One level of the walk in Pool::map_page.
PoolStep(w, va, level) ==
  LET i == index(va, level)
      e == w.pool.tables[w.t][i]
  IN
  IF w.r # "ok" THEN w
  ELSE IF e = Null THEN PoolLink(w, i)
  ELSE IF e.perm = "table" /\ e.to < w.pool.used THEN [w EXCEPT !.t = e.to]
  ELSE [w EXCEPT !.r = "BadTable"]

\* Leaves the tables of a failed walk allocated.
Rollback_mutant(before, w) == w.pool

\* The links written are cleared and the tables given back.
Rollback(before, w) ==
  [tables |-> [t \in DOMAIN w.pool.tables |->
                 [i \in 0..Fan-1 |-> IF <<t, i>> \in w.links THEN Null ELSE w.pool.tables[t][i]]],
   used |-> before.used]

\* What the walk w ends in: entry e at index i of the last table, or a failure.
PoolLeaf(before, w, i, e) ==
  LET r == IF w.r = "ok" /\ w.pool.tables[w.t][i] # Null THEN "Overlap" ELSE w.r IN
  [r |-> r,
   pool |-> IF r = "ok" THEN [w.pool EXCEPT !.tables[w.t][i] = e] ELSE Rollback(before, w)]

\* Pool::map_page: the result and the pool after it.
pool_map_page(pool, root, va, pa, perm) ==
  LET start == [r |-> "ok", t |-> root, links |-> {}, pool |-> pool] IN
  PoolLeaf(pool, PoolStep(PoolStep(PoolStep(start, va, 0), va, 1), va, 2), index(va, 3), Entry(pa, perm))

\* The loop of Pool::map_range after n granules; it ends at the first failure.
PoolRange(pool, root, pa, len, perm) ==
  LET done[n \in 0 .. len \div G] ==
        IF n = 0 THEN [r |-> "ok", pool |-> pool]
        ELSE LET before == done[n - 1]
                 at == pa + (n - 1) * G
             IN  IF before.r # "ok" THEN before ELSE pool_map_page(before.pool, root, at, at, perm)
  IN  done

\* Pool::map_range.
pool_map_range(pool, root, pa, len, perm) ==
  IF pa % G # 0 \/ len % G # 0 THEN [r |-> "Misaligned", pool |-> pool]
  ELSE PoolRange(pool, root, pa, len, perm)[len \div G]

\* map_kernel_window on one root table, at the alias address of [pa, pa + len).
map_kernel_window(pool, root, pa, len) ==
  IF len <= 0 \/ pa % G # 0 \/ len % G # 0 THEN [r |-> "Misaligned", pool |-> pool]
  ELSE pool_map_range(pool, root, pa, len, "rw")

-----------------------------------------------------------------------------
(* User tables: frames, so tabs maps the address of a frame to its table     *)

\* The table below t on the way to va, as found at one level of a walk.
UserStep(tabs, w, va, level) ==
  LET e == tabs[w.t][index(va, level)] IN
  IF w.r # "ok" THEN w
  ELSE IF e = Null THEN [w EXCEPT !.r = "MissingTable"]
  ELSE IF e = Junk THEN [w EXCEPT !.r = "BadTable"]
  ELSE [r |-> "ok", t |-> e.to, level |-> level + 1]

\* How far a walk for va gets: w.t is the last table reached, at w.level.
UserWalk(tabs, root, va) ==
  UserStep(tabs, UserStep(tabs, UserStep(tabs, [r |-> "ok", t |-> root, level |-> 0], va, 0), va, 1), va, 2)

\* Overwrites the page that is there.
user_map_frame_mutant(tabs, root, va, pa, perm) ==
  LET w == UserWalk(tabs, root, va) IN
  IF va % G # 0 \/ va < G \/ va + G > Top THEN [r |-> "BadVA", tabs |-> tabs]
  ELSE IF w.r # "ok" THEN [r |-> w.r, tabs |-> tabs]
  ELSE [r |-> "ok", tabs |-> Put(tabs, w.t, index(va, 3), Entry(pa, perm))]

\* user_map_frame: a page at va; no table is ever created on the way.
user_map_frame(tabs, root, va, pa, perm) ==
  LET w == UserWalk(tabs, root, va)
      r == IF va % G # 0 \/ va < G \/ va + G > Top THEN "BadVA"
           ELSE IF w.r = "ok" /\ tabs[w.t][index(va, 3)] # Null THEN "Overlap"
           ELSE w.r
  IN  [r |-> r,
       tabs |-> IF r = "ok" THEN Put(tabs, w.t, index(va, 3), Entry(pa, perm)) ELSE tabs]

\* user_install_table: the table goes into the first empty entry on the way.
user_install_table(tabs, root, va, pa) ==
  LET w == UserWalk(tabs, root, va)
      r == IF va >= Top THEN "BadVA"
           ELSE IF w.r = "ok" THEN "Overlap"
           ELSE IF w.r = "MissingTable" THEN "ok"
           ELSE w.r
  IN  [r |-> r,
       tabs |-> IF r = "ok" THEN Put(tabs, w.t, index(va, w.level), Entry(pa, "table")) ELSE tabs]

-----------------------------------------------------------------------------
(* The boot-time builder: UserSpace over the bump allocator FrameAlloc.      *)
(* us holds the tables, the root, and FrameAlloc's next and end.             *)

\* FrameAlloc::alloc_contig clears what it hands out, at us.next. After a
\* failure nothing is called any more.
alloc_contig(us, n) ==
  IF us.r # "ok" THEN us
  ELSE IF us.next + n * G > us.end THEN [us EXCEPT !.r = "OutOfFrames"]
  ELSE [us EXCEPT !.next = @ + n * G,
                  !.tabs = [f \in DOMAIN @ |-> IF us.next <= f /\ f < us.next + n * G THEN ZeroTable ELSE @[f]]]

\* One level of UserSpace::map_page: an empty entry gets a new table.
BuildStep(w, va, level) ==
  LET i == index(va, level)
      e == w.us.tabs[w.t][i]
      grown == alloc_contig(w.us, 1)
  IN
  IF w.us.r # "ok" THEN w
  ELSE IF e = Null
       THEN IF grown.r # "ok" THEN [w EXCEPT !.us = grown]
            ELSE [t |-> w.us.next, us |-> [grown EXCEPT !.tabs[w.t][i] = Entry(w.us.next, "table")]]
  ELSE IF e = Junk THEN [w EXCEPT !.us.r = "BadTable"]
  ELSE [w EXCEPT !.t = e.to]

\* What the walk w ends in: entry e at index i of the last table, or a failure.
UserLeaf(w, i, e) ==
  IF w.us.r # "ok" THEN w.us
  ELSE IF w.us.tabs[w.t][i] # Null THEN [w.us EXCEPT !.r = "Overlap"]
  ELSE [w.us EXCEPT !.tabs[w.t][i] = e]

\* UserSpace::map_page.
us_map_page(us, va, pa, perm) ==
  UserLeaf(BuildStep(BuildStep(BuildStep([t |-> us.root, us |-> us], va, 0), va, 1), va, 2),
           index(va, 3), Entry(pa, perm))

\* The loop of UserSpace::map_range after n granules.
UserRange(us, va, pa, len, perm) ==
  LET done[n \in 0 .. len \div G] ==
        IF n = 0 THEN us
        ELSE LET before == done[n - 1] IN
             IF before.r # "ok" THEN before
             ELSE us_map_page(before, va + (n - 1) * G, pa + (n - 1) * G, perm)
  IN  done

\* UserSpace::map_range.
us_map_range(us, va, pa, len, perm) ==
  IF us.r # "ok" THEN us
  ELSE IF va % G # 0 \/ pa % G # 0 \/ len % G # 0 \/ len = 0 THEN [us EXCEPT !.r = "Misaligned"]
  ELSE IF va < G THEN [us EXCEPT !.r = "NullPage"]
  ELSE IF va + len > Top THEN [us EXCEPT !.r = "Misaligned"]
  ELSE UserRange(us, va, pa, len, perm)[len \div G]

-----------------------------------------------------------------------------

Pages == {p * G : p \in 0 .. Span - 1}

\* The entry that a walk of four levels from root ends at, or Null.
Look(tabs, e, va, level) == IF e = Null THEN Null ELSE tabs[e.to][index(va, level)]
Translate(tabs, root, va) ==
  Look(tabs, Look(tabs, Look(tabs, Look(tabs, Entry(root, "table"), va, 0), va, 1), va, 2), va, 3)
=============================================================================
