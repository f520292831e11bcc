----------------------------- MODULE BootProofs -----------------------------
(***************************************************************************)
(* Proofs about Boot, for every memory map, DTB, list of reservations and  *)
(* device, and for every size of the window. The argument: a pass over the *)
(* obstacles jumps over no start that would do (PassKeeps), every turn of   *)
(* pick_window leaves an obstacle or the base of a memory region behind     *)
(* (Turns), and what bootstrap makes of the rest is the invariant CInv of   *)
(* CapabilitiesProofs.                                                     *)
(***************************************************************************)
EXTENDS Boot, CapabilitiesProofs, FiniteSetTheorems

-----------------------------------------------------------------------------
(* Numbers and sets *)

\* align_up yields the least multiple of the granule.
LEMMA AlignLeast ==
  ASSUME NEW a \in Nat, NEW s \in Nat, s % G = 0, a <= s
  PROVE  align_up(a) <= s
<1>1. align_up(a) \in Nat /\ align_up(a) < a + G /\ align_up(a) % G = 0
  BY AlignUp
<1>2. s < align_up(a) => s + G <= align_up(a)
  BY <1>1, GranulesApart
<1> QED
  BY <1>1, <1>2, GranuleAssumption

\* The numbers from 1 to n are n.
LEMMA Counted ==
  ASSUME NEW n \in Nat
  PROVE  IsFiniteSet(1..n) /\ Cardinality(1..n) = n
<1>1. IsFiniteSet(1..n) /\ Cardinality(1..n) = IF 1 > n THEN 0 ELSE n - 1 + 1
  BY FS_Interval
<1> QED
  BY <1>1

\* A set that gains an element gains in size.
LEMMA Grows ==
  ASSUME NEW T, IsFiniteSet(T), NEW S \in SUBSET T, NEW x \in T, x \notin S
  PROVE  /\ Cardinality(S) \in Nat /\ Cardinality(T) \in Nat
         /\ Cardinality(S) + 1 <= Cardinality(T)
<1>1. IsFiniteSet(T \ {x}) /\ Cardinality(T \ {x}) = Cardinality(T) - 1
  BY FS_RemoveElement
<1>2. S \in SUBSET (T \ {x})
  OBVIOUS
<1>3. IsFiniteSet(S) /\ Cardinality(S) <= Cardinality(T \ {x})
  BY <1>1, <1>2, FS_Subset
<1>4. Cardinality(S) \in Nat /\ Cardinality(T) \in Nat
  BY <1>3, FS_CardinalityType
<1> QED
  BY <1>1, <1>3, <1>4

\* So it does, or keeps its size, if it only gains elements.
LEMMA Shrinks ==
  ASSUME NEW T, IsFiniteSet(T), NEW S \in SUBSET T
  PROVE  /\ IsFiniteSet(S)
         /\ Cardinality(S) \in Nat /\ Cardinality(T) \in Nat
         /\ Cardinality(S) <= Cardinality(T)
<1>1. IsFiniteSet(S) /\ Cardinality(S) <= Cardinality(T)
  BY FS_Subset
<1> QED
  BY <1>1, FS_CardinalityType

\* Three regions put before a list of them.
LEMMA ThreeFirst ==
  ASSUME NEW S, NEW a \in S, NEW b \in S, NEW c \in S, NEW t \in Seq(S), NEW r, r = <<a, b, c>> \o t
  PROVE  /\ r \in Seq(S) /\ Len(r) = 3 + Len(t)
         /\ r[1] = a /\ r[2] = b /\ r[3] = c
         /\ \A i \in DOMAIN t : i + 3 \in DOMAIN r /\ r[i + 3] = t[i]
<1>1. PICK own : own = <<a, b, c>>
  OBVIOUS
<1>2. own \in Seq(S) /\ Len(own) = 3 /\ own[1] = a /\ own[2] = b /\ own[3] = c
  BY <1>1
<1>3. /\ r \in Seq(S) /\ Len(r) = Len(own) + Len(t)
      /\ \A i \in 1..Len(own) + Len(t) : r[i] = IF i <= Len(own) THEN own[i] ELSE t[i - Len(own)]
  BY <1>1, <1>2
<1>4. Len(t) \in Nat /\ DOMAIN t = 1..Len(t) /\ DOMAIN r = 1..Len(r)
  BY <1>3
<1>5. r[1] = a /\ r[2] = b /\ r[3] = c
  BY <1>2, <1>3, <1>4
<1>6. \A i \in DOMAIN t : i + 3 \in DOMAIN r /\ r[i + 3] = t[i]
  BY <1>2, <1>3, <1>4
<1> QED
  BY <1>2, <1>3, <1>5, <1>6

-----------------------------------------------------------------------------
(* The inductive invariant *)

BootTypeOK ==
  /\ memory \in Memories /\ dtb \in Dtbs /\ firmware \in Firmwares
  /\ stage \in Stages
  /\ start \in 0..Limit-1
  /\ round \in Nat

Reserve == <<KernelImage, dtb, Window>> \o firmware

\* bootstrap has not begun.
Fresh == reserved = << >> /\ slots = << >> /\ region = 0 /\ cursor = 0 /\ phase = "populate"

\* Where bootstrap is at each stage of the boot.
Staged ==
  /\ stage \in {"check_memory_map", "irq_init"} => round = 0
  /\ stage \in {"check_memory_map", "irq_init", "pick_window", "spawn_root"} => Fresh
  /\ stage \in {"bootstrap", "check_user_wx", "handoff"} => reserved = Reserve
  /\ stage \in {"check_user_wx", "handoff"} => phase = "run"
  /\ stage \in {"irq_init", "pick_window", "spawn_root", "bootstrap", "check_user_wx", "handoff"} => ~MapClash

\* The obstacles and the memory regions that lie behind s.
Passed(s) == {i \in DOMAIN Obstacles : end(Obstacles[i]) <= s}
Reached(s) == {i \in DOMAIN memory : memory[i].base <= s}

Search ==
  stage = "pick_window" => /\ start % G = 0
                           /\ start >= end(KernelImage)
                           /\ round <= Cardinality(Passed(start)) + Cardinality(Reached(start))

\* Every untyped ends where its memory region does or where a reservation begins.
Cut ==
  \A i \in Untypeds : \/ \E k \in DOMAIN memory : end(slots[i]) = end(memory[k])
                      \/ \E k \in DOMAIN reserved : end(slots[i]) = reserved[k].base

BInv ==
  /\ BootTypeOK /\ CInv /\ Staged
  /\ Search /\ NothingSkipped /\ LowestWindow /\ TurnsSuffice
  /\ Cut

-----------------------------------------------------------------------------
(* Types *)

\* The obstacles are regions that are not empty and whose ends do not overflow.
LEMMA ObstacleTypes ==
  ASSUME BootTypeOK
  PROVE  /\ Obstacles \in Seq(PhysRegion)
         /\ Len(Obstacles) \in Nat /\ DOMAIN Obstacles = 1..Len(Obstacles)
         /\ Len(Obstacles) = 1 + Len(firmware)
         /\ \A i \in DOMAIN Obstacles : /\ Obstacles[i].base \in Nat /\ Obstacles[i].size \in Nat
                                        /\ Obstacles[i].size > 0
                                        /\ end(Obstacles[i]) \in Nat /\ end(Obstacles[i]) < Limit
<1>1. dtb \in PhysRegion /\ firmware \in Seq(PhysRegion) /\ Limit \in Nat
  BY BootAssumption, CapAssumption DEF BootTypeOK
<1>2. ~BadRegion(dtb) /\ \A i \in DOMAIN firmware : ~BadRegion(firmware[i])
  BY BootAssumption DEF BootTypeOK
<1>3. Obstacles \in Seq(PhysRegion) /\ Len(Obstacles) = 1 + Len(firmware)
  BY <1>1 DEF Obstacles
<1>4. ASSUME NEW i \in 1..Len(Obstacles)
      PROVE  ~BadRegion(Obstacles[i])
  <2>1. CASE i = 1
    BY <1>1, <1>2, <2>1 DEF Obstacles
  <2>2. CASE i # 1
    <3>1. i - 1 \in DOMAIN firmware /\ Obstacles[i] = firmware[i - 1]
      BY <1>1, <1>3, <2>2 DEF Obstacles
    <3> QED
      BY <1>2, <3>1
  <2> QED
    BY <2>1, <2>2
<1>5. ASSUME NEW i \in 1..Len(Obstacles)
      PROVE  /\ Obstacles[i].base \in Nat /\ Obstacles[i].size \in Nat
             /\ Obstacles[i].size > 0
             /\ end(Obstacles[i]) \in Nat /\ end(Obstacles[i]) < Limit
  <2>1. Obstacles[i] \in PhysRegion
    BY <1>3
  <2>2. Obstacles[i].base \in Nat /\ Obstacles[i].size \in Nat
    BY <1>1, <2>1 DEF PhysRegion
  <2> QED
    BY <1>1, <1>4, <2>2 DEF BadRegion, end
<1> QED
  BY <1>1, <1>3, <1>5

\* The memory regions too; their ends may still overflow.
LEMMA MemoryTypes ==
  ASSUME BootTypeOK
  PROVE  /\ memory \in Seq(PhysRegion)
         /\ Len(memory) \in Nat /\ DOMAIN memory = 1..Len(memory)
         /\ \A i \in DOMAIN memory : /\ memory[i].base \in 0..Limit-1 /\ memory[i].base \in Nat
                                     /\ memory[i].size \in Nat /\ end(memory[i]) \in Nat
<1>1. memory \in Seq(PhysRegion) /\ Limit \in Nat
  BY CapAssumption DEF BootTypeOK
<1>2. \A i \in DOMAIN memory : memory[i] \in PhysRegion
  BY <1>1
<1> QED
  BY <1>1, <1>2 DEF PhysRegion, end

\* The sizes that the assumptions fix.
LEMMA Sizes ==
  /\ Limit \in Nat /\ Limit % G = 0
  /\ WINDOW_SIZE \in Nat /\ WINDOW_SIZE > 0
  /\ KernelImage.base \in Nat /\ KernelImage.size \in Nat /\ KernelImage.size > 0
  /\ end(KernelImage) \in Nat /\ end(KernelImage) < Limit
BY BootAssumption, CapAssumption DEF PhysRegion, BadRegion, end

-----------------------------------------------------------------------------
(* pick_window *)

\* The recursive function Pass(stop) exists, and is what its equations say.
LEMMA PassDef ==
  ASSUME NEW stop, Len(Obstacles) \in Nat
  PROVE  /\ Pass(stop)[0] = start
         /\ \A k \in 1..Len(Obstacles) :
              Pass(stop)[k] = IF Pass(stop)[k-1] < Limit /\ end(Obstacles[k]) > Pass(stop)[k-1]
                                 /\ Obstacles[k].base < stop
                              THEN align_up(end(Obstacles[k])) ELSE Pass(stop)[k-1]
<1> DEFINE n == Len(Obstacles)
           D(f, k) == IF k = 0 THEN start
                      ELSE IF f[k-1] < Limit /\ end(Obstacles[k]) > f[k-1] /\ Obstacles[k].base < stop
                           THEN align_up(end(Obstacles[k])) ELSE f[k-1]
           T == {m \in 0..n : ~\E f : f = [k \in 0..m |-> D(f, k)]}
<1>1. T = {}
  <2> SUFFICES ASSUME T # {} PROVE FALSE
    OBVIOUS
  <2>1. PICK m \in T : \A y \in T : m <= y
    <3> HIDE DEF T
    <3>1. T \in SUBSET Nat BY DEF T
    <3> QED BY <3>1, NatMin
  <2>2. m # 0
    <3>1. [k \in 0..0 |-> start] = [k \in 0..0 |-> D([kk \in 0..0 |-> start], k)]
      OBVIOUS
    <3> QED BY <3>1, Zenon
  <2>3. m - 1 \in 0..n /\ m - 1 \notin T /\ m \in 0..n
    <3>1. m \in 0..n
      BY <2>1
    <3>2. m - 1 \notin T
      <4> HIDE DEF T
      <4> QED BY <2>1, <3>1
    <3> QED BY <3>1, <3>2, <2>2
  <2>4. PICK g : g = [k \in 0..m-1 |-> D(g, k)]
    BY <2>3
  <2> DEFINE f == [k \in 0..m |-> IF k < m THEN g[k] ELSE D(g, m)]
  <2>5. ASSUME NEW k \in 0..m PROVE f[k] = D(f, k)
    <3>1. k # 0 => f[k-1] = g[k-1]
      BY <2>3
    <3>2. k < m => g[k] = D(g, k)
      BY <2>3, <2>4
    <3>3. k # 0 /\ k < m => D(f, k) = D(g, k)
      BY <3>1
    <3>4. k = m => f[k] = D(g, m) /\ D(f, k) = D(g, m)
      BY <3>1, <2>2, <2>3
    <3>5. k < m => f[k] = g[k]
      OBVIOUS
    <3>6. k = 0 => D(f, k) = start /\ D(g, k) = start
      OBVIOUS
    <3> HIDE DEF D, f
    <3> QED BY <3>2, <3>3, <3>4, <3>5, <3>6, <2>3
  <2>6. f = [k \in 0..m |-> D(f, k)]
    <3> HIDE DEF D
    <3> QED BY <2>5
  <2> QED BY <2>6, <2>1, Zenon
<1>2. \E f : f = [k \in 0..n |-> D(f, k)]
  BY <1>1
<1>3. Pass(stop) = CHOOSE f : f = [k \in 0..n |-> D(f, k)]
  BY SMTT(30) DEF Pass
<1>4. Pass(stop) = [k \in 0..n |-> D(Pass(stop), k)]
  BY <1>2, <1>3, Zenon
<1> QED
  <2> HIDE DEF D
  <2>1. \A k \in 0..n : Pass(stop)[k] = D(Pass(stop), k)
    BY <1>4
  <2> QED BY <2>1 DEF D

\* What one pass over the obstacles does, for a window from start: it moves
\* start up only, to a granule, and over no start s that is clear of every
\* obstacle; if it moves it leaves an obstacle behind, and if it does not the
\* window is clear.
LEMMA PassKeeps ==
  ASSUME BootTypeOK, start % G = 0, NEW k \in 0..Len(Obstacles)
  PROVE  LET p == Pass(start + WINDOW_SIZE)[k] IN
         /\ p \in Nat /\ start <= p /\ p % G = 0 /\ p <= Limit
         /\ p = start => \A i \in 1..k : Apart(Window, Obstacles[i])
         /\ p # start => \E i \in 1..k : start < end(Obstacles[i]) /\ end(Obstacles[i]) <= p
         /\ \A s \in Nat : s % G = 0 /\ start <= s
                          /\ (\A i \in DOMAIN Obstacles : Apart([base |-> s, size |-> WINDOW_SIZE], Obstacles[i]))
                          => p <= s
<1> DEFINE stop == start + WINDOW_SIZE
           n == Len(Obstacles)
           clear(s) == \A i \in DOMAIN Obstacles : Apart([base |-> s, size |-> WINDOW_SIZE], Obstacles[i])
           P(p, j) == /\ p \in Nat /\ start <= p /\ p % G = 0 /\ p <= Limit
                      /\ p = start => \A i \in 1..j : Apart(Window, Obstacles[i])
                      /\ p # start => \E i \in 1..j : start < end(Obstacles[i]) /\ end(Obstacles[i]) <= p
                      /\ \A s \in Nat : s % G = 0 /\ start <= s /\ clear(s) => p <= s
           T == {j \in 0..n : ~P(Pass(stop)[j], j)}
<1>0. /\ n \in Nat /\ DOMAIN Obstacles = 1..n /\ start \in Nat /\ start < Limit
      /\ Limit \in Nat /\ WINDOW_SIZE \in Nat /\ stop \in Nat
  BY ObstacleTypes, Sizes DEF BootTypeOK
<1>1. P(start, 0)
  BY <1>0
<1>2. ASSUME NEW j \in 1..n, NEW q, NEW p, P(q, j - 1),
             p = IF q < Limit /\ end(Obstacles[j]) > q /\ Obstacles[j].base < stop
                 THEN align_up(end(Obstacles[j])) ELSE q
      PROVE  P(p, j)
  <2> DEFINE o == Obstacles[j]
  <2>0. /\ j \in Nat /\ j \in DOMAIN Obstacles
        /\ o.base \in Nat /\ o.size \in Nat /\ end(o) \in Nat /\ end(o) < Limit
        /\ end(o) = o.base + o.size
    BY <1>0, ObstacleTypes DEF end
  <2>1. CASE q < Limit /\ end(o) > q /\ o.base < stop
    <3>1. p = align_up(end(o))
      BY <1>2, <2>1
    <3>2. p \in Nat /\ end(o) <= p /\ p < end(o) + G /\ p % G = 0
      BY <3>1, <2>0, AlignUp
    <3>3. p <= Limit
      BY <3>1, <2>0, AlignLeast, Sizes
    <3>4. start < end(o) /\ start < p
      BY <1>0, <1>2, <2>0, <2>1, <3>2
    <3>5. ASSUME NEW s \in Nat, s % G = 0, start <= s, clear(s)
          PROVE  p <= s
      <4>1. Apart([base |-> s, size |-> WINDOW_SIZE], o)
        BY <2>0, <3>5
      <4>2. s + WINDOW_SIZE <= o.base \/ end(o) <= s
        BY <4>1 DEF Apart, end
      <4>3. end(o) <= s
        BY <1>0, <2>0, <2>1, <3>5, <4>2
      <4> QED
        BY <3>1, <3>5, <2>0, <4>3, AlignLeast
    <3> HIDE DEF clear
    <3> QED
      BY <1>0, <3>2, <3>3, <3>4, <3>5
  <2>2. CASE ~(q < Limit /\ end(o) > q /\ o.base < stop)
    <3>1. p = q
      BY <1>2, <2>2
    <3>2. ASSUME p = start, NEW i \in 1..j
          PROVE  Apart(Window, Obstacles[i])
      <4>1. CASE i # j
        <5>1. i \in 1..j-1
          BY <4>1
        <5> QED
          BY <1>2, <3>1, <3>2, <5>1
      <4>2. CASE i = j
        <5>1. end(o) <= start \/ stop <= o.base
          BY <1>0, <2>0, <2>2, <3>1, <3>2
        <5>2. Window.base = start /\ end(Window) = stop
          BY DEF Window, end
        <5> QED
          BY <4>2, <5>1, <5>2 DEF Apart
      <4> QED
        BY <4>1, <4>2
    <3>3. p # start => \E i \in 1..j : start < end(Obstacles[i]) /\ end(Obstacles[i]) <= p
      <4>1. \A i \in 1..j-1 : i \in 1..j
        OBVIOUS
      <4> QED
        BY <1>2, <3>1, <4>1
    <3> HIDE DEF clear
    <3> QED
      BY <1>2, <3>1, <3>2, <3>3
  <2> QED
    BY <2>1, <2>2
<1> HIDE DEF P
<1>3. T = {}
  <2> SUFFICES ASSUME T # {}
               PROVE  FALSE
    OBVIOUS
  <2>1. PICK j \in T : \A y \in T : j <= y
    <3> HIDE DEF T
    <3>1. T \in SUBSET Nat
      BY <1>0 DEF T
    <3> QED
      BY <3>1, NatMin
  <2>2. j # 0
    BY <1>0, <1>1, <2>1, PassDef
  <2>3. j \in 1..n /\ j - 1 \in 0..n /\ P(Pass(stop)[j-1], j - 1)
    BY <1>0, <2>1, <2>2
  <2>4. Pass(stop)[j] = IF Pass(stop)[j-1] < Limit /\ end(Obstacles[j]) > Pass(stop)[j-1] /\ Obstacles[j].base < stop
                        THEN align_up(end(Obstacles[j])) ELSE Pass(stop)[j-1]
    BY <1>0, <2>3, PassDef
  <2>5. P(Pass(stop)[j], j)
    BY <1>2, <2>3, <2>4, Zenon
  <2> QED
    BY <2>1, <2>5
<1> QED
  BY <1>3 DEF P

\* The same for Bump, as pick_window uses it.
LEMMA BumpKeeps ==
  ASSUME BootTypeOK, start % G = 0
  PROVE  LET p == Bump(start + WINDOW_SIZE) IN
         /\ p \in Nat /\ start <= p /\ p % G = 0
         /\ p = start => \A i \in DOMAIN Obstacles : Apart(Window, Obstacles[i])
         /\ p # start => \E i \in DOMAIN Obstacles : start < end(Obstacles[i]) /\ end(Obstacles[i]) <= p
         /\ \A s \in Nat : GoodStart(s) /\ start <= s => p <= s
<1>1. Len(Obstacles) \in 0..Len(Obstacles) /\ DOMAIN Obstacles = 1..Len(Obstacles)
  BY ObstacleTypes
<1> QED
  BY <1>1, PassKeeps DEF Bump, GoodStart

\* NextBase is the lowest base above start.
LEMMA NextBaseLowest ==
  ASSUME BootTypeOK, HigherBases # {}
  PROVE  /\ NextBase \in Nat /\ start < NextBase
         /\ \E i \in DOMAIN memory : memory[i].base = NextBase
         /\ \A i \in DOMAIN memory : start < memory[i].base => NextBase <= memory[i].base
<1>1. HigherBases \in SUBSET Nat
  BY Sizes DEF HigherBases
<1>2. \E b \in HigherBases : \A c \in HigherBases : b <= c
  BY <1>1, NatMin
<1>3. NextBase \in HigherBases /\ \A c \in HigherBases : NextBase <= c
  BY <1>2 DEF NextBase
<1>4. \A i \in DOMAIN memory : start < memory[i].base => memory[i].base \in HigherBases
  BY MemoryTypes DEF HigherBases
<1>5. NextBase > start /\ \E i \in DOMAIN memory : memory[i].base = NextBase
  BY <1>3 DEF HigherBases
<1>6. start \in Nat
  BY Sizes DEF BootTypeOK
<1> QED
  BY <1>1, <1>3, <1>4, <1>5, <1>6, Zenon

\* A window that is clear but does not fit leaves only the starts in the
\* memory regions above.
LEMMA NoFit ==
  ASSUME BootTypeOK, ~Fits(start), NEW s \in Nat, start <= s, GoodStart(s)
  PROVE  HigherBases # {} /\ align_up(NextBase) <= s
<1>1. PICK i \in DOMAIN memory : s >= memory[i].base /\ s + WINDOW_SIZE <= end(memory[i])
  BY DEF GoodStart, Fits
<1>2. memory[i].base \in Nat /\ memory[i].base \in 0..Limit-1 /\ end(memory[i]) \in Nat
  BY MemoryTypes
<1>3. start \in Nat /\ WINDOW_SIZE \in Nat
  BY Sizes DEF BootTypeOK
<1>4. ~(start >= memory[i].base /\ start + WINDOW_SIZE <= end(memory[i]))
  BY DEF Fits
<1>5. start < memory[i].base
  BY <1>1, <1>2, <1>3, <1>4
<1>6. HigherBases # {}
  BY <1>2, <1>5 DEF HigherBases
<1>7. NextBase \in Nat /\ NextBase <= memory[i].base
  BY <1>5, <1>6, NextBaseLowest
<1>8. NextBase <= s
  BY <1>1, <1>2, <1>7
<1> QED
  BY <1>6, <1>7, <1>8, AlignLeast DEF GoodStart

\* A turn that moves start up to s leaves an obstacle or a base behind.
LEMMA Turns ==
  ASSUME BootTypeOK, NEW s \in Nat, start <= s,
         round <= Cardinality(Passed(start)) + Cardinality(Reached(start)),
         \/ \E i \in DOMAIN Obstacles : start < end(Obstacles[i]) /\ end(Obstacles[i]) <= s
         \/ \E i \in DOMAIN memory : start < memory[i].base /\ memory[i].base <= s
  PROVE  /\ round + 1 <= Cardinality(Passed(s)) + Cardinality(Reached(s))
         /\ round + 1 <= Len(Obstacles) + Len(memory)
<1>1. /\ DOMAIN Obstacles = 1..Len(Obstacles) /\ Len(Obstacles) \in Nat
      /\ DOMAIN memory = 1..Len(memory) /\ Len(memory) \in Nat
      /\ start \in Nat /\ round \in Nat
  BY ObstacleTypes, MemoryTypes, Sizes DEF BootTypeOK
<1>2. /\ IsFiniteSet(DOMAIN Obstacles) /\ Cardinality(DOMAIN Obstacles) = Len(Obstacles)
      /\ IsFiniteSet(DOMAIN memory) /\ Cardinality(DOMAIN memory) = Len(memory)
  BY <1>1, Counted
<1>3. Passed(s) \in SUBSET DOMAIN Obstacles /\ Reached(s) \in SUBSET DOMAIN memory
  BY DEF Passed, Reached
<1>4. /\ IsFiniteSet(Passed(s)) /\ Cardinality(Passed(s)) \in Nat /\ Cardinality(Passed(s)) <= Len(Obstacles)
      /\ IsFiniteSet(Reached(s)) /\ Cardinality(Reached(s)) \in Nat /\ Cardinality(Reached(s)) <= Len(memory)
  BY <1>2, <1>3, Shrinks
<1>5. Passed(start) \in SUBSET Passed(s)
  BY <1>1, ObstacleTypes DEF Passed
<1>6. Reached(start) \in SUBSET Reached(s)
  BY <1>1, MemoryTypes DEF Reached
<1>7. /\ Cardinality(Passed(start)) \in Nat /\ Cardinality(Passed(start)) <= Cardinality(Passed(s))
      /\ Cardinality(Reached(start)) \in Nat /\ Cardinality(Reached(start)) <= Cardinality(Reached(s))
  BY <1>4, <1>5, <1>6, Shrinks
<1>8. CASE \E i \in DOMAIN Obstacles : start < end(Obstacles[i]) /\ end(Obstacles[i]) <= s
  <2>1. PICK i \in DOMAIN Obstacles : start < end(Obstacles[i]) /\ end(Obstacles[i]) <= s
    BY <1>8
  <2>2. i \in Passed(s) /\ i \notin Passed(start)
    BY <1>1, <2>1, ObstacleTypes DEF Passed
  <2>3. Cardinality(Passed(start)) + 1 <= Cardinality(Passed(s))
    BY <1>4, <1>5, <2>2, Grows
  <2> QED
    BY <1>1, <1>4, <1>7, <2>3
<1>9. CASE \E i \in DOMAIN memory : start < memory[i].base /\ memory[i].base <= s
  <2>1. PICK i \in DOMAIN memory : start < memory[i].base /\ memory[i].base <= s
    BY <1>9
  <2>2. i \in Reached(s) /\ i \notin Reached(start)
    BY <1>1, <2>1, MemoryTypes DEF Reached
  <2>3. Cardinality(Reached(start)) + 1 <= Cardinality(Reached(s))
    BY <1>4, <1>6, <2>2, Grows
  <2> QED
    BY <1>1, <1>4, <1>7, <2>3
<1> QED
  BY <1>8, <1>9

-----------------------------------------------------------------------------
(* The steps *)

\* What stays when the arguments of the boot do.
LEMMA SameMap ==
  ASSUME UNCHANGED <<memory, dtb, firmware>>
  PROVE  /\ Obstacles' = Obstacles
         /\ \A s : /\ GoodStart(s)' <=> GoodStart(s)
                   /\ Passed(s)' = Passed(s) /\ Reached(s)' = Reached(s)
         /\ MapClash' <=> MapClash
<1>1. Obstacles' = Obstacles
  BY DEF Obstacles
<1> QED
  BY <1>1 DEF GoodStart, Fits, Passed, Reached, MapClash

\* The state that bootstrap begins with.
Begins ==
  /\ memory \in Memories /\ reserved \in Seq(PhysRegion) /\ slots = << >>
  /\ region = 0 /\ cursor = 0 /\ phase = "populate"

\* It satisfies the invariant of the CNode.
LEMMA FreshHolds == Begins => CInv /\ Cut
<1> SUFFICES ASSUME Begins
             PROVE  CInv /\ Cut
  OBVIOUS
<1> USE DEF Begins
<1>1. Untypeds = {} /\ Objs = {}
  BY DEF Untypeds, Objs
<1>2. CapTypeOK /\ Position /\ Covered
  BY <1>1, CapAssumption DEF CapTypeOK, Position, Covered
<1>3. Marked /\ UntypedsDisjoint /\ Carved /\ ObjectsApart /\ NoGranuleLost /\ Cut
  BY <1>1 DEF Marked, UntypedsDisjoint, Carved, ObjectsApart, NoGranuleLost, Cut
<1> QED
  BY <1>2, <1>3 DEF CInv

\* Steps that leave the capabilities alone.
LEMMA SameCaps ==
  ASSUME BInv, UNCHANGED <<capvars, dtb, firmware>>
  PROVE  /\ CInv' /\ Cut'
         /\ Fresh' <=> Fresh
         /\ UNCHANGED <<memory, reserved, slots, region, cursor, phase, dtb, firmware>>
<1>1. UNCHANGED <<memory, reserved, slots, region, cursor, phase, dtb, firmware>>
  BY DEF capvars
<1>2. CInv'
  BY StepKeeps DEF BInv
<1>3. Cut'
  <2>1. Untypeds' = Untypeds
    BY <1>1 DEF Untypeds
  <2> QED
    BY <1>1, <2>1 DEF BInv, Cut
<1> QED
  BY <1>1, <1>2, <1>3 DEF Fresh

\* Steps to another stage that change nothing else: the new stage must say
\* nothing new, or what it says must be known.
LEMMA GotoKeeps ==
  ASSUME BInv, NEW to \in Stages \ {"pick_window"}, Goto(to),
         to \in {"check_memory_map", "irq_init"} => round = 0,
         to \in {"check_memory_map", "irq_init", "spawn_root"} => Fresh,
         to \in {"bootstrap", "check_user_wx", "handoff"} => reserved = Reserve,
         to \in {"check_user_wx", "handoff"} => phase = "run",
         to \in {"irq_init", "spawn_root", "bootstrap", "check_user_wx", "handoff"} => ~MapClash,
         to \in {"spawn_root", "bootstrap", "check_user_wx", "handoff"} =>
            GoodStart(start) /\ \A s \in 0..start-1 : ~GoodStart(s),
         to = "no_window" => \A s \in 0..Limit-1 : ~GoodStart(s)
  PROVE  BInv'
<1>1. /\ stage' = to /\ start' = start /\ round' = round
      /\ UNCHANGED <<memory, reserved, slots, region, cursor, phase, dtb, firmware>>
      /\ CInv' /\ Cut' /\ (Fresh' <=> Fresh)
  BY SameCaps DEF Goto
<1>2. /\ Obstacles' = Obstacles
      /\ \A s : GoodStart(s)' <=> GoodStart(s)
      /\ MapClash' <=> MapClash
  BY <1>1, SameMap
<1>3. BootTypeOK'
  BY <1>1 DEF BInv, BootTypeOK
<1>4. Reserve' = Reserve
  BY <1>1 DEF Reserve, Window
<1>5. Staged' /\ Search'
  BY <1>1, <1>2, <1>4 DEF Staged, Search
<1>6. GoodStart(start)' <=> GoodStart(start)
  BY <1>1, <1>2 DEF GoodStart, Fits
<1>7. LowestWindow' /\ NothingSkipped'
  BY <1>1, <1>2, <1>6 DEF LowestWindow, NothingSkipped
<1>8. TurnsSuffice'
  BY <1>1, <1>2 DEF BInv, TurnsSuffice
<1> QED
  BY <1>1, <1>3, <1>5, <1>7, <1>8 DEF BInv

\* Before the search.
LEMMA EarlySteps ==
  ASSUME BInv, check_memory_map \/ irq_init
  PROVE  BInv'
<1>1. CASE check_memory_map
  <2>1. CASE MapClash
    <3>1. Goto("park")
      BY <1>1, <2>1 DEF check_memory_map
    <3> QED
      BY <3>1, GotoKeeps DEF Stages
  <2>2. CASE ~MapClash
    <3>1. Goto("irq_init") /\ stage = "check_memory_map"
      BY <1>1, <2>2 DEF check_memory_map
    <3>2. Fresh /\ round = 0
      BY <3>1 DEF BInv, Staged
    <3> QED
      BY <2>2, <3>1, <3>2, GotoKeeps DEF Stages
  <2> QED
    BY <2>1, <2>2
<1>2. CASE irq_init /\ Goto("park")
  BY <1>2, GotoKeeps DEF Stages
<1>3. CASE /\ stage = "irq_init"
           /\ align_up(end(KernelImage)) < Limit
           /\ stage' = "pick_window"
           /\ start' = align_up(end(KernelImage))
           /\ UNCHANGED <<capvars, dtb, firmware, round>>
  <2>1. /\ UNCHANGED <<memory, reserved, slots, region, cursor, phase, dtb, firmware>>
        /\ CInv' /\ Cut' /\ Fresh'
    BY <1>3, SameCaps DEF BInv, Staged
  <2>2. /\ Obstacles' = Obstacles
        /\ \A s : GoodStart(s)' <=> GoodStart(s)
        /\ ~MapClash'
    BY <1>3, <2>1, SameMap DEF BInv, Staged
  <2>3. /\ start' \in Nat /\ end(KernelImage) <= start' /\ start' % G = 0 /\ start' < Limit
    BY <1>3, Sizes, AlignUp
  <2>4. BootTypeOK'
    BY <1>3, <2>1, <2>3, Sizes DEF BInv, BootTypeOK, Stages
  <2>5. round = 0 /\ round' = 0
    BY <1>3 DEF BInv, Staged
  <2>6. Staged'
    BY <1>3, <2>1, <2>2 DEF Staged
  <2>7. Search'
    <3>1. /\ IsFiniteSet(1..Len(Obstacles')) /\ IsFiniteSet(1..Len(memory'))
      BY <2>4, ObstacleTypes, MemoryTypes, FS_Interval, <2>1, <2>2, SMTT(30) DEF BInv
    <3>2. /\ Passed(start)' \in SUBSET (1..Len(Obstacles')) /\ Reached(start)' \in SUBSET (1..Len(memory'))
      BY <2>1, <2>2, ObstacleTypes, MemoryTypes DEF BInv, Passed, Reached
    <3>3. Cardinality(Passed(start)') \in Nat /\ Cardinality(Reached(start)') \in Nat
      BY <3>1, <3>2, Shrinks
    <3> QED
      BY <2>3, <2>5, <3>3 DEF Search
  <2>8. NothingSkipped' /\ LowestWindow'
    <3> DEFINE up == align_up(end(KernelImage))
    <3>1. \A s \in Nat : s < up => ~GoodStart(s)
      <4> SUFFICES ASSUME NEW s \in Nat, s < up, GoodStart(s)
                   PROVE  FALSE
        OBVIOUS
      <4>1. s % G = 0 /\ end(KernelImage) <= s
        BY Sizes DEF GoodStart
      <4>2. up <= s
        BY <4>1, AlignLeast, Sizes
      <4> QED
        BY <4>2, AlignUp, Sizes
    <3>2. start' = up /\ up \in Nat
      BY <1>3, <2>3
    <3> HIDE DEF up
    <3> QED
      BY <1>3, <2>2, <3>1, <3>2 DEF NothingSkipped, LowestWindow
  <2>9. TurnsSuffice'
    BY <2>1, <2>2, <2>5, ObstacleTypes, MemoryTypes DEF BInv, TurnsSuffice
  <2> QED
    BY <2>1, <2>4, <2>6, <2>7, <2>8, <2>9 DEF BInv
<1> QED
  BY <1>1, <1>2, <1>3 DEF irq_init

\* A turn that moves start up to s, past no good start.
LEMMA AdvanceKeepsSearch ==
  ASSUME BInv, stage = "pick_window", NEW s \in Nat, start <= s, s % G = 0, Advance(s),
         \A x \in Nat : GoodStart(x) /\ start <= x => s <= x,
         \/ \E i \in DOMAIN Obstacles : start < end(Obstacles[i]) /\ end(Obstacles[i]) <= s
         \/ \E i \in DOMAIN memory : start < memory[i].base /\ memory[i].base <= s
  PROVE  BInv'
<1>0. /\ start \in Nat /\ start % G = 0 /\ start >= end(KernelImage)
      /\ Limit \in Nat /\ end(KernelImage) \in Nat /\ round \in Nat
      /\ round <= Cardinality(Passed(start)) + Cardinality(Reached(start))
  BY Sizes DEF BInv, BootTypeOK, Search
<1>1. /\ UNCHANGED <<memory, reserved, slots, region, cursor, phase, dtb, firmware>>
      /\ CInv' /\ Cut' /\ Fresh' /\ round' = round + 1
  BY SameCaps DEF Advance, BInv, Staged
<1>2. /\ Obstacles' = Obstacles
      /\ \A x : /\ GoodStart(x)' <=> GoodStart(x)
                /\ Passed(x)' = Passed(x) /\ Reached(x)' = Reached(x)
      /\ ~MapClash'
  BY <1>1, SameMap DEF BInv, Staged
<1>3. /\ round + 1 <= Cardinality(Passed(s)) + Cardinality(Reached(s))
      /\ round + 1 <= Len(Obstacles) + Len(memory)
  BY <1>0, Turns DEF BInv
<1>4. \A x \in Nat : x < s => ~GoodStart(x)
  <2> SUFFICES ASSUME NEW x \in Nat, x < s, GoodStart(x)
               PROVE  FALSE
    OBVIOUS
  <2>1. CASE x < start
    <3>1. x \in 0..start-1
      BY <1>0, <2>1
    <3> QED
      BY <3>1 DEF BInv, NothingSkipped
  <2>2. CASE start <= x
    BY <2>2
  <2> QED
    BY <1>0, <2>1, <2>2
<1>5. TurnsSuffice'
  BY <1>1, <1>2, <1>3 DEF TurnsSuffice
<1>6. CASE s < Limit
  <2>1. start' = s /\ stage' = "pick_window"
    BY <1>6 DEF Advance
  <2>2. BootTypeOK'
    <3>1. s \in 0..Limit-1 /\ round + 1 \in Nat
      BY <1>0, <1>6
    <3> QED
      BY <1>1, <2>1, <3>1 DEF BInv, BootTypeOK, Stages
  <2>3. Staged'
    BY <1>1, <1>2, <2>1 DEF Staged
  <2>4. Search'
    <3>1. Passed(start)' = Passed(s) /\ Reached(start)' = Reached(s)
      BY <1>1, <1>2, <2>1 DEF Passed, Reached
    <3> QED
      BY <1>0, <1>1, <1>3, <2>1, <3>1 DEF Search
  <2>5. NothingSkipped' /\ LowestWindow'
    BY <1>2, <1>4, <2>1 DEF NothingSkipped, LowestWindow
  <2> QED
    BY <1>1, <1>5, <2>2, <2>3, <2>4, <2>5 DEF BInv
<1>7. CASE ~(s < Limit)
  <2>1. start' = start /\ stage' = "no_window"
    BY <1>7 DEF Advance
  <2>2. BootTypeOK'
    BY <1>0, <1>1, <2>1 DEF BInv, BootTypeOK, Stages
  <2>3. Staged' /\ Search'
    BY <1>1, <1>2, <2>1 DEF Staged, Search
  <2>4. \A x \in 0..Limit-1 : ~GoodStart(x)
    BY <1>0, <1>4, <1>7
  <2>5. NothingSkipped' /\ LowestWindow'
    BY <1>2, <2>1, <2>4 DEF NothingSkipped, LowestWindow
  <2> QED
    BY <1>1, <1>5, <2>2, <2>3, <2>5 DEF BInv
<1> QED
  BY <1>6, <1>7

\* One turn of the search.
LEMMA PickStep ==
  ASSUME BInv, pick_window
  PROVE  BInv'
<1> DEFINE stop == start + WINDOW_SIZE
<1>0. /\ stage = "pick_window" /\ BootTypeOK /\ start \in Nat /\ start % G = 0 /\ start >= end(KernelImage)
      /\ Limit \in Nat /\ WINDOW_SIZE \in Nat /\ round \in Nat /\ Fresh /\ ~MapClash
      /\ \A s \in 0..start-1 : ~GoodStart(s)
  BY Sizes DEF BInv, BootTypeOK, Search, Staged, NothingSkipped, pick_window
<1>1. /\ Bump(stop) \in Nat /\ start <= Bump(stop) /\ Bump(stop) % G = 0
      /\ Bump(stop) = start => \A i \in DOMAIN Obstacles : Apart(Window, Obstacles[i])
      /\ Bump(stop) # start => \E i \in DOMAIN Obstacles : start < end(Obstacles[i]) /\ end(Obstacles[i]) <= Bump(stop)
      /\ \A s \in Nat : GoodStart(s) /\ start <= s => Bump(stop) <= s
  BY <1>0, BumpKeeps
<1>2. ASSUME \A s \in Nat : start <= s => ~GoodStart(s), Goto("no_window")
      PROVE  BInv'
  <2>1. \A s \in 0..Limit-1 : ~GoodStart(s)
    BY <1>0, <1>2
  <2> QED
    BY <1>2, <2>1, GotoKeeps DEF Stages
<1>3. CASE round = ROUNDS /\ Goto("no_window")
  <2>1. 1 + Len(firmware) + Len(memory) < ROUNDS
    BY <1>0, RoundsAssumption DEF BootTypeOK
  <2>2. round <= Len(Obstacles) + Len(memory)
    BY SMTT(30) DEF BInv, TurnsSuffice
  <2>3. Len(Obstacles) = 1 + Len(firmware) /\ Len(Obstacles) \in Nat /\ Len(memory) \in Nat
    BY <1>0, ObstacleTypes, MemoryTypes, Zenon
  <2> QED
    BY <1>0, <1>3, <2>1, <2>2, <2>3
<1>4. CASE stop >= Limit /\ Goto("no_window")
  <2>1. \A s \in Nat : start <= s => ~GoodStart(s)
    BY <1>0, <1>4 DEF GoodStart
  <2> QED
    BY <1>2, <1>4, <2>1
<1>5. CASE Bump(stop) # start /\ Advance(Bump(stop))
  <2> HIDE DEF stop
  <2> QED
    BY <1>0, <1>1, <1>5, AdvanceKeepsSearch
<1>6. CASE stop < Limit /\ Bump(stop) = start /\ Fits(start) /\ Goto("spawn_root")
  <2>1. GoodStart(start)
    BY <1>0, <1>1, <1>6 DEF GoodStart, Window
  <2> QED
    BY <1>0, <1>6, <2>1, GotoKeeps DEF Stages
<1>7. CASE /\ ~Fits(start)
           /\ IF HigherBases = {} THEN Goto("no_window") ELSE Advance(align_up(NextBase))
  <2>1. \A s \in Nat : GoodStart(s) /\ start <= s => HigherBases # {} /\ align_up(NextBase) <= s
    BY <1>0, <1>7, NoFit
  <2>2. CASE HigherBases = {}
    BY <1>2, <1>7, <2>1, <2>2
  <2>3. CASE HigherBases # {}
    <3>1. /\ NextBase \in Nat /\ start < NextBase
          /\ \E i \in DOMAIN memory : memory[i].base = NextBase
      BY <1>0, <2>3, NextBaseLowest
    <3>2. align_up(NextBase) \in Nat /\ NextBase <= align_up(NextBase) /\ align_up(NextBase) % G = 0
      BY <3>1, AlignUp
    <3>3. start <= align_up(NextBase)
      BY <1>0, <3>1, <3>2
    <3> QED
      BY <1>0, <1>7, <2>1, <2>3, <3>1, <3>2, <3>3, AdvanceKeepsSearch
  <2> QED
    BY <2>2, <2>3
<1> QED
  BY <1>3, <1>4, <1>5, <1>6, <1>7 DEF pick_window

\* The reservations that bootstrap is given are regions.
LEMMA ReserveTypes ==
  ASSUME BootTypeOK
  PROVE  /\ Reserve \in Seq(PhysRegion) /\ Len(Reserve) = 3 + Len(firmware)
         /\ Reserve[1] = KernelImage /\ Reserve[2] = dtb /\ Reserve[3] = Window
         /\ \A i \in DOMAIN firmware : i + 3 \in DOMAIN Reserve /\ Reserve[i + 3] = firmware[i]
<1>1. KernelImage \in PhysRegion /\ dtb \in PhysRegion /\ firmware \in Seq(PhysRegion)
  BY BootAssumption DEF BootTypeOK
<1>2. Window \in PhysRegion
  BY BootAssumption, Sizes DEF BootTypeOK, Window, PhysRegion
<1>3. Reserve = <<KernelImage, dtb, Window>> \o firmware
  BY DEF Reserve
<1> QED
  BY <1>1, <1>2, <1>3, ThreeFirst

\* The window is handed over to bootstrap as a reservation.
LEMMA SpawnStep ==
  ASSUME BInv, spawn_root
  PROVE  BInv'
<1>0. stage = "spawn_root" /\ Fresh /\ ~MapClash /\ BootTypeOK
  BY DEF BInv, Staged, spawn_root
<1>1. CASE Goto("park")
  BY <1>1, GotoKeeps DEF Stages
<1>2. CASE /\ stage' = "bootstrap"
           /\ reserved' = <<KernelImage, dtb, Window>> \o firmware
           /\ UNCHANGED <<memory, slots, region, cursor, phase, dtb, firmware, start, round>>
  <2>1. /\ Obstacles' = Obstacles
        /\ \A s : GoodStart(s)' <=> GoodStart(s)
        /\ ~MapClash'
    BY <1>0, <1>2, SameMap
  <2>2. Reserve' = Reserve /\ reserved' = Reserve
    BY <1>2 DEF Reserve, Window
  <2>3. BootTypeOK'
    BY <1>0, <1>2 DEF BootTypeOK, Stages
  <2>4. Begins'
    BY <1>0, <1>2, <2>2, ReserveTypes, ZenonT(40) DEF Fresh, BootTypeOK, Begins
  <2>5. (CInv /\ Cut)'
    BY <2>4, FreshHolds, PTL
  <2>6. Staged' /\ Search'
    BY <1>2, <2>1, <2>2 DEF Staged, Search
  <2>7. GoodStart(start)' <=> GoodStart(start)
    BY <1>2, <2>1 DEF GoodStart, Fits
  <2>8. LowestWindow' /\ NothingSkipped'
    BY <1>0, <1>2, <2>1, <2>7 DEF BInv, LowestWindow, NothingSkipped
  <2>9. TurnsSuffice'
    BY <1>2, <2>1 DEF BInv, TurnsSuffice
  <2> QED
    BY <2>3, <2>5, <2>6, <2>8, <2>9 DEF BInv
<1> QED
  BY <1>1, <1>2 DEF spawn_root

\* A piece is pushed that ends at stop.
LEMMA PieceCut ==
  ASSUME CInv, Cut, NEW stop \in Nat, slots' = slots \o Piece(stop), Room(Piece(stop)),
         UNCHANGED <<memory, reserved>>,
         \/ \E k \in DOMAIN memory : stop = end(memory[k])
         \/ \E k \in DOMAIN reserved : stop = reserved[k].base
  PROVE  Cut'
<1>0. CapTypeOK /\ cursor \in Nat
  BY DEF CInv, CapTypeOK
<1>1. /\ \A i \in DOMAIN slots : i \in DOMAIN slots' /\ slots'[i] = slots[i]
      /\ stop <= cursor => slots' = slots
      /\ stop > cursor => /\ Untypeds' = Untypeds \cup {Len(slots) + 1}
                          /\ slots'[Len(slots) + 1] = Untyped(cursor, stop - cursor)
  BY <1>0, PiecePushed, ZenonT(40)
<1>2. CASE stop <= cursor
  BY <1>1, <1>2 DEF Cut, Untypeds
<1>3. CASE stop > cursor
  <2> DEFINE n == Len(slots) + 1
  <2>1. slots'[n].base + slots'[n].size = stop
    <3>1. slots'[n] = [type |-> "Untyped", base |-> cursor, size |-> stop - cursor, used |-> 0]
      BY <1>1, <1>3, ZenonT(40) DEF Untyped
    <3>2. slots'[n].base = cursor /\ slots'[n].size = stop - cursor
      BY <3>1
    <3> QED
      BY <1>0, <3>2
  <2>2. \A i \in Untypeds : slots'[i] = slots[i]
    BY <1>1 DEF Untypeds
  <2>3. Untypeds' = Untypeds \cup {n}
    BY <1>1, <1>3, SMTT(30)
  <2> HIDE DEF n
  <2>4. ASSUME NEW i \in Untypeds'
        PROVE  \/ \E k \in DOMAIN memory : slots'[i].base + slots'[i].size = end(memory[k])
               \/ \E k \in DOMAIN reserved : slots'[i].base + slots'[i].size = reserved[k].base
    <3>1. CASE i = n
      BY <3>1, <2>1, Zenon
    <3>2. CASE i \in Untypeds
      <4>1. slots'[i].base + slots'[i].size = end(slots[i])
        BY <3>2, <2>2, Zenon DEF end
      <4> QED
        BY <3>2, <4>1, Zenon DEF Cut
    <3> QED
      BY <2>3, <2>4, <3>1, <3>2, ZenonT(40)
  <2>5. memory' = memory /\ reserved' = reserved
    OBVIOUS
  <2> QED
    BY <2>4, <2>5, ZenonT(40) DEF Cut, end
<1> QED
  BY <1>0, <1>2, <1>3

\* A step of bootstrap ends an untyped only where a region ends or a
\* reservation begins.
LEMMA CutKept ==
  ASSUME CInv, Cut, populate \/ push_untypeds
  PROVE  Cut' /\ UNCHANGED <<memory, reserved>>
<1>0. UNCHANGED <<memory, reserved>> /\ CapTypeOK
  BY DEF populate, push_untypeds, CInv
<1>1. ASSUME slots' = slots
      PROVE  Cut'
  BY <1>0, <1>1 DEF Cut, Untypeds
<1>2. CASE populate
  <2>1. CASE slots' = FixedCaps
    <3>1. Untypeds' = {}
      BY <2>1 DEF Untypeds, FixedCaps
    <3>2. Cut'
      BY <3>1, SMTT(30) DEF Cut
    <3> QED
      BY <1>0, <3>2
  <2> QED
    BY <1>1, <1>2, <2>1 DEF populate, Fail
<1>3. CASE push_untypeds
  <2> DEFINE m == memory[region]
             r == reserved[LowestAhead(m)]
  <2>0. region \in DOMAIN memory /\ phase = "untyped"
    BY <1>3, ZenonT(40) DEF CInv, Position, push_untypeds
  <2>1. end(m) \in Nat
    BY <1>0, <2>0, Regions DEF end
  <2>2. CASE Room(Piece(end(m))) /\ slots' = slots \o Piece(end(m))
    BY <1>0, <2>0, <2>1, <2>2, PieceCut
  <2>3. CASE Ahead(m) # {} /\ Room(Piece(r.base)) /\ slots' = slots \o Piece(r.base)
    <3>1. LowestAhead(m) \in DOMAIN reserved /\ r.base \in Nat
      BY <1>0, <2>3, Lowest, Regions, Zenon DEF Ahead
    <3> QED
      BY <1>0, <2>3, <3>1, PieceCut, ZenonT(40)
  <2> QED
    BY <1>1, <1>3, <2>2, <2>3, ZenonT(40) DEF push_untypeds, PushRest, PushBelow, Fail
<1> QED
  BY <1>0, <1>2, <1>3

\* A step of bootstrap, and where it leads.
LEMMA BootstrapStep ==
  ASSUME BInv, bootstrap
  PROVE  BInv'
<1>0. /\ stage = "bootstrap" /\ BootTypeOK /\ CInv /\ Cut /\ reserved = Reserve /\ ~MapClash
      /\ populate \/ push_untypeds
      /\ UNCHANGED <<dtb, firmware, start, round>>
  BY DEF BInv, Staged, bootstrap
<1>1. CInv'
  BY <1>0, PopulateKeeps, TurnKeeps
<1>2. Cut' /\ UNCHANGED <<memory, reserved>>
  BY <1>0, CutKept
<1>3. phase' \in {"populate", "untyped", "run", "BadRegion", "OutOfSlots"}
  BY <1>1 DEF CInv, CapTypeOK
<1>4. /\ stage' \in {"bootstrap", "check_user_wx", "park"}
      /\ stage' = "check_user_wx" => phase' = "run"
  BY <1>0, <1>3 DEF bootstrap
<1>5. /\ Obstacles' = Obstacles
      /\ \A s : GoodStart(s)' <=> GoodStart(s)
      /\ ~MapClash'
  BY <1>0, <1>2, SameMap
<1>6. Reserve' = Reserve
  BY <1>0 DEF Reserve, Window
<1>7. BootTypeOK'
  BY <1>0, <1>2, <1>4 DEF BootTypeOK, Stages
<1>8. Staged' /\ Search'
  BY <1>0, <1>2, <1>4, <1>5, <1>6, SMTT(30) DEF Staged, Search
<1>9. GoodStart(start)' <=> GoodStart(start)
  BY <1>0, <1>2, <1>5 DEF GoodStart, Fits
<1>10. LowestWindow' /\ NothingSkipped'
  BY <1>0, <1>4, <1>5, <1>9 DEF BInv, LowestWindow, NothingSkipped
<1>11. TurnsSuffice'
  BY <1>0, <1>2, <1>5 DEF BInv, TurnsSuffice
<1> QED
  BY <1>1, <1>2, <1>7, <1>8, <1>10, <1>11 DEF BInv

\* Every step preserves the invariant.
LEMMA BootStepKeeps ==
  ASSUME BInv, [BootNext]_bootvars
  PROVE  BInv'
<1>1. CASE check_user_wx
  <2>0. /\ stage = "check_user_wx" /\ reserved = Reserve /\ phase = "run" /\ ~MapClash
        /\ GoodStart(start) /\ \A s \in 0..start-1 : ~GoodStart(s)
    BY <1>1 DEF BInv, Staged, LowestWindow, check_user_wx
  <2>1. CASE Goto("handoff")
    BY <2>0, <2>1, GotoKeeps DEF Stages
  <2>2. CASE Goto("park")
    BY <2>2, GotoKeeps DEF Stages
  <2> QED
    BY <1>1, <2>1, <2>2 DEF check_user_wx
<1>2. CASE UNCHANGED bootvars
  <2>1. UNCHANGED <<capvars, stage, dtb, firmware, start, round>>
    BY <1>2 DEF bootvars
  <2>2. /\ UNCHANGED <<memory, reserved, slots, region, cursor, phase, dtb, firmware>>
        /\ CInv' /\ Cut' /\ (Fresh' <=> Fresh)
    BY <2>1, SameCaps
  <2>3. /\ Obstacles' = Obstacles
        /\ \A x : /\ GoodStart(x)' <=> GoodStart(x)
                  /\ Passed(x)' = Passed(x) /\ Reached(x)' = Reached(x)
        /\ MapClash' <=> MapClash
    BY <2>2, SameMap
  <2>4. Reserve' = Reserve
    BY <2>1, <2>2 DEF Reserve, Window
  <2>5. BootTypeOK'
    BY <2>1, <2>2 DEF BInv, BootTypeOK
  <2>6. Staged'
    BY <2>1, <2>2, <2>3, <2>4 DEF BInv, Staged
  <2>7. Search'
    <3>1. Passed(start)' = Passed(start) /\ Reached(start)' = Reached(start)
      BY <2>1, <2>2, <2>3, SMTT(30) DEF Passed, Reached
    <3> QED
      BY <2>1, <3>1 DEF BInv, Search
  <2>8. GoodStart(start)' <=> GoodStart(start)
    BY <2>1, <2>2, <2>3 DEF GoodStart, Fits
  <2>9. LowestWindow' /\ NothingSkipped'
    BY <2>1, <2>3, <2>8 DEF BInv, LowestWindow, NothingSkipped
  <2>10. TurnsSuffice'
    BY <2>1, <2>2, <2>3 DEF BInv, TurnsSuffice
  <2> QED
    BY <2>2, <2>5, <2>6, <2>7, <2>9, <2>10 DEF BInv
<1> QED
  BY <1>1, <1>2, EarlySteps, PickStep, SpawnStep, BootstrapStep DEF BootNext, BootOver

\* The first state satisfies it.
LEMMA BootInitHolds ==
  ASSUME BootInit
  PROVE  BInv
<1>1. BootTypeOK /\ Fresh
  BY BootAssumption, Sizes DEF BootInit, BootTypeOK, Stages, Fresh
<1>2. Begins
  BY DEF BootInit, Begins
<1>3. CInv /\ Cut
  BY <1>2, FreshHolds
<1>4. Staged /\ Search /\ NothingSkipped /\ LowestWindow
  BY <1>1 DEF BootInit, Staged, Search, NothingSkipped, LowestWindow
<1>5. TurnsSuffice
  BY <1>1, ObstacleTypes, MemoryTypes DEF BootInit, TurnsSuffice
<1> QED
  BY <1>1, <1>3, <1>4, <1>5 DEF BInv

\* So the invariant holds throughout the boot.
LEMMA BootInvariant == BootSpec => []BInv
BY BootInitHolds, BootStepKeeps, PTL DEF BootSpec

-----------------------------------------------------------------------------
(* Theorems *)

\* The window that pick_window settles for is clear, fits, and is the lowest
\* that does, whatever the memory map, the DTB and the reservations.
THEOREM WindowIsLowest == BootSpec => []LowestWindow
BY BootInvariant, PTL DEF BInv

\* pick_window passes no window that would do, and gives up only if none exists.
THEOREM NoWindowSkipped == BootSpec => []NothingSkipped
BY BootInvariant, PTL DEF BInv

\* Every turn of pick_window leaves an obstacle or a memory region behind.
THEOREM TurnsBounded == BootSpec => []TurnsSuffice
BY BootInvariant, PTL DEF BInv

\* An address in common keeps two regions from being apart.
LEMMA ApartIfDisjoint ==
  ASSUME NEW r, NEW t, r.base \in Nat, r.size \in Nat, r.size > 0, t.base \in Nat, t.size \in Nat, t.size > 0,
         \A a \in Nat : ~(Within(a, r) /\ Within(a, t))
  PROVE  Apart(r, t)
<1>1. ~(Within(r.base, r) /\ Within(r.base, t)) /\ ~(Within(t.base, r) /\ Within(t.base, t))
  OBVIOUS
<1> QED
  BY <1>1 DEF Within, Apart, end

\* What the root task is given shares no address with the kernel, the DTB, the
\* window, the firmware's reservations or a device.
THEOREM OwnedMemoryKept == BootSpec => []NothingOwnedIsUntyped
<1>1. BInv => NothingOwnedIsUntyped
  <2> SUFFICES ASSUME BInv, stage = "handoff", NEW i \in Untypeds
               PROVE  /\ \A r \in {KernelImage, dtb, Window} : Apart(slots[i], r)
                      /\ \A j \in DOMAIN firmware : Apart(slots[i], firmware[j])
                      /\ \A d \in DOMAIN Devices : Devices[d].size > 0 => Apart(slots[i], Devices[d])
    BY DEF NothingOwnedIsUntyped
  <2>0. /\ BootTypeOK /\ CInv /\ phase = "run" /\ reserved = Reserve /\ ~MapClash
        /\ slots[i].base \in Nat /\ slots[i].size \in Nat /\ slots[i].size > 0
    BY Slots DEF BInv, Staged, CInv, Marked
  <2>1. ASSUME NEW a \in Nat, Within(a, slots[i])
        PROVE  Free(a)
    BY <2>0, <2>1 DEF CInv, Covered
  <2>2. ASSUME NEW k \in DOMAIN reserved, reserved[k].size > 0
        PROVE  Apart(slots[i], reserved[k])
    <3>1. reserved[k].base \in Nat /\ reserved[k].size \in Nat
      BY <2>0, Regions DEF CInv
    <3>2. \A a \in Nat : ~(Within(a, slots[i]) /\ Within(a, reserved[k]))
      BY <2>1 DEF Free
    <3> QED
      BY <2>0, <2>2, <3>1, <3>2, ApartIfDisjoint
  <2>3. /\ KernelImage.size > 0 /\ dtb.size > 0 /\ Window.size > 0
        /\ \A j \in DOMAIN firmware : firmware[j].size > 0
    <3>1. KernelImage.size > 0 /\ Window.size > 0
      BY Sizes DEF Window
    <3>2. dtb.size # 0 /\ dtb.size \in Nat
      BY <2>0, BootAssumption, Sizes DEF BootTypeOK, BadRegion, PhysRegion
    <3>3. ASSUME NEW j \in DOMAIN firmware
          PROVE  firmware[j].size > 0
      <4>1. firmware \in Seq(PhysRegion) /\ ~BadRegion(firmware[j])
        BY <2>0, BootAssumption DEF BootTypeOK
      <4>2. firmware[j] \in PhysRegion
        BY <4>1
      <4> QED
        BY <4>1, <4>2, Sizes, SMTT(30) DEF BadRegion, PhysRegion
    <3> QED
      BY <3>1, <3>2, <3>3
  <2>4. /\ 1 \in DOMAIN reserved /\ 2 \in DOMAIN reserved /\ 3 \in DOMAIN reserved
        /\ reserved[1] = KernelImage /\ reserved[2] = dtb /\ reserved[3] = Window
        /\ \A j \in DOMAIN firmware : j + 3 \in DOMAIN reserved /\ reserved[j + 3] = firmware[j]
    <3>1. firmware \in Seq(PhysRegion)
      BY <2>0, BootAssumption DEF BootTypeOK
    <3>2. Len(firmware) \in Nat
      BY <3>1
    <3>3. reserved \in Seq(PhysRegion) /\ Len(reserved) = 3 + Len(firmware)
      BY <2>0, ReserveTypes
    <3>4. DOMAIN reserved = 1..Len(reserved)
      BY <3>3
    <3>5. 1 \in DOMAIN reserved /\ 2 \in DOMAIN reserved /\ 3 \in DOMAIN reserved
      BY <3>2, <3>3, <3>4
    <3> QED
      BY <2>0, <3>5, ReserveTypes
  <2>5. ASSUME NEW d \in DOMAIN Devices, Devices[d].size > 0
        PROVE  Apart(slots[i], Devices[d])
    <3>1. Devices[d].base \in Nat /\ Devices[d].size \in Nat
      <4>1. Devices[d] \in PhysRegion
        BY BootAssumption
      <4> QED
        BY <4>1, Sizes DEF PhysRegion
    <3>2. ASSUME NEW a \in Nat, Within(a, slots[i]), Within(a, Devices[d])
          PROVE  FALSE
      <4>1. PICK k \in DOMAIN memory : Within(a, memory[k])
        BY <2>1, <3>2 DEF Free
      <4>2. Apart(memory[k], Devices[d])
        BY <2>0, <2>5 DEF MapClash
      <4>3. memory[k].base \in Nat /\ memory[k].size \in Nat
        BY <2>0, MemoryTypes
      <4> QED
        BY <3>1, <3>2, <4>1, <4>2, <4>3 DEF Within, Apart, end
    <3> QED
      BY <2>0, <2>5, <3>1, <3>2, ApartIfDisjoint
  <2> QED
    BY <2>2, <2>3, <2>4, <2>5
<1> QED
  BY <1>1, BootInvariant, PTL

\* bootstrap makes at most one untyped for each memory region and one for each
\* reservation.
THEOREM SlotsBounded == BootSpec => []SlotsSuffice
<1>1. BInv => SlotsSuffice
  <2> SUFFICES ASSUME BInv
               PROVE  Cardinality(Untypeds) <= Len(memory) + Len(reserved)
    BY DEF SlotsSuffice
  <2> DEFINE m == Len(memory)
             n == Len(memory) + Len(reserved)
             from(i, k) == \/ k \in 1..m /\ end(slots[i]) = end(memory[k])
                           \/ k \in m+1..n /\ end(slots[i]) = reserved[k - m].base
             f == [i \in Untypeds |-> CHOOSE k \in 1..n : from(i, k)]
  <2>0. /\ CapTypeOK /\ Cut /\ Marked /\ UntypedsDisjoint
        /\ m \in Nat /\ DOMAIN memory = 1..m
        /\ Len(reserved) \in Nat /\ DOMAIN reserved = 1..Len(reserved)
    <3>1. CapTypeOK
      BY SMTT(30) DEF BInv, CInv
    <3> QED
      BY <3>1, Regions DEF BInv, CInv
  <2>1. ASSUME NEW i \in Untypeds
        PROVE  f[i] \in 1..n /\ from(i, f[i])
    <3>1. CASE \E k \in DOMAIN memory : end(slots[i]) = end(memory[k])
      BY <2>0, <3>1
    <3>2. CASE \E k \in DOMAIN reserved : end(slots[i]) = reserved[k].base
      <4>1. PICK k \in DOMAIN reserved : end(slots[i]) = reserved[k].base
        BY <3>2
      <4>2. k + m \in 1..n /\ k + m \in m+1..n /\ (k + m) - m = k
        BY <2>0
      <4>3. from(i, k + m)
        BY <4>1, <4>2
      <4> HIDE DEF from
      <4> QED
        BY <4>2, <4>3
    <3> QED
      BY <2>0, <3>1, <3>2, ZenonT(40) DEF Cut
  <2>2. ASSUME NEW i \in Untypeds, NEW j \in Untypeds, i # j
        PROVE  end(slots[i]) # end(slots[j])
    <3>1. /\ slots[i].base \in Nat /\ slots[i].size \in Nat /\ slots[i].size > 0
          /\ slots[j].base \in Nat /\ slots[j].size \in Nat /\ slots[j].size > 0
      BY <2>0, Slots DEF Marked
    <3>2. end(slots[i]) <= slots[j].base \/ end(slots[j]) <= slots[i].base
      BY <2>0, <2>2 DEF UntypedsDisjoint
    <3> QED
      BY <3>1, <3>2 DEF end
  <2>3. f \in Injection(Untypeds, 1..n)
    <3>1. f \in [Untypeds -> 1..n]
      BY <2>1
    <3>2. ASSUME NEW i \in Untypeds, NEW j \in Untypeds, f[i] = f[j]
          PROVE  i = j
      <4>1. PICK k : k = f[i] /\ k = f[j]
        BY <3>2
      <4>2. from(i, k) /\ from(j, k)
        BY <2>1, <4>1, ZenonT(40)
      <4>3. end(slots[i]) = end(slots[j])
        BY <2>0, <4>2
      <4> QED
        BY <2>2, <4>3
    <3> HIDE DEF f
    <3> QED
      BY <3>1, <3>2 DEF Injection, IsInjective
  <2>4. IsFiniteSet(1..n) /\ Cardinality(1..n) = n
    <3>1. n \in Nat
      BY <2>0
    <3> HIDE DEF n
    <3> QED
      BY <3>1, Counted
  <2>5. IsFiniteSet(Untypeds) /\ Cardinality(Untypeds) <= Cardinality(1..n)
    BY <2>3, <2>4, FS_Injection
  <2> QED
    BY <2>4, <2>5
<1> QED
  BY <1>1, BootInvariant, PTL
=============================================================================
