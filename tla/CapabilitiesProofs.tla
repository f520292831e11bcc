------------------------- MODULE CapabilitiesProofs -------------------------
(***************************************************************************)
(* Proofs about Capabilities, for every memory map, list of reservations,  *)
(* granule and size of the CNode. The argument: what push_untypeds has     *)
(* scanned and is free is exactly what the untypeds hold (Covered), and    *)
(* what retype has carved lies below a watermark (Carved).                 *)
(***************************************************************************)
EXTENDS Capabilities, WellFoundedInduction, TLAPS

-----------------------------------------------------------------------------
(* Arithmetic *)

\* Every non-empty set of numbers has a least one.
LEMMA NatMin ==
  ASSUME NEW T \in SUBSET Nat, T # {}
  PROVE  \E x \in T : \A y \in T : x <= y
<1> DEFINE L == OpToRel(<, Nat)
<1>1. IsWellFoundedOn(L, Nat)
  BY NatLessThanWellFounded
<1>2. \E x \in T : \A y \in T : <<y, x>> \notin L
  <2> HIDE DEF L
  <2> QED BY <1>1, WFMin
<1>3. L = {ss \in Nat \X Nat : ss[1] < ss[2]}
  BY DEF OpToRel
<1> HIDE DEF L
<1>4. \A x, y \in Nat : y < x => <<y, x>> \in L
  BY <1>3
<1>5. PICK x \in T : \A y \in T : <<y, x>> \notin L
  BY <1>2
<1>6. \A y \in T : ~(y < x)
  BY <1>4, <1>5
<1> QED
  BY <1>6

\* align_up yields the next multiple of the granule.
LEMMA AlignUp ==
  ASSUME NEW a \in Nat
  PROVE  /\ align_up(a) \in Nat
         /\ a <= align_up(a)
         /\ align_up(a) < a + G
         /\ align_up(a) % G = 0
<1>1. (a + G - 1) \div G \in Nat
  BY GranuleAssumption
<1>2. /\ a + G - 1 = ((a + G - 1) \div G) * G + ((a + G - 1) % G)
      /\ (a + G - 1) % G \in 0..G-1
  BY GranuleAssumption
<1>3. \A q \in Nat : (q * G) % G = 0
  BY GranuleAssumption
<1>4. align_up(a) \in Nat /\ align_up(a) % G = 0
  BY <1>1, <1>3, GranuleAssumption DEF align_up
<1>5. a <= align_up(a) /\ align_up(a) < a + G
  BY <1>1, <1>2, GranuleAssumption DEF align_up
<1> QED
  BY <1>4, <1>5

\* The granule after an aligned address starts at an aligned address.
LEMMA NextMultiple ==
  ASSUME NEW a \in Nat, a % G = 0
  PROVE  (a + G) % G = 0
<1> DEFINE p == a \div G
<1>1. p \in Nat /\ a = p * G
  BY GranuleAssumption
<1>2. \A q \in Nat : (q * G) % G = 0
  BY GranuleAssumption
<1> HIDE DEF p
<1>3. a + G = (p + 1) * G
  BY <1>1, GranuleAssumption
<1>4. ((p + 1) * G) % G = 0
  BY <1>1, <1>2
<1> QED
  BY <1>3, <1>4

\* Two multiples of the granule are a granule apart.
LEMMA GranulesApart ==
  ASSUME NEW a \in Nat, NEW b \in Nat, a % G = 0, b % G = 0, a < b
  PROVE  a + G <= b
<1> DEFINE p == a \div G
           q == b \div G
<1>1. p \in Nat /\ q \in Nat /\ a = p * G /\ b = q * G
  BY GranuleAssumption
<1> HIDE DEF p, q
<1>2. p + 1 <= q
  BY <1>1, GranuleAssumption
<1>3. (p + 1) * G <= q * G
  BY <1>1, <1>2, GranuleAssumption
<1> QED
  BY <1>1, <1>3, GranuleAssumption

-----------------------------------------------------------------------------
(* The inductive invariant *)

Caps == [type : {"Empty", "RootTcb", "AddrSpace", "Console"}]
          \cup [type : {"Untyped"}, base : Nat, size : Nat, used : Nat]
          \cup [type : ObjKind, base : Nat, mapped : BOOLEAN]

\* The addresses that the scan of push_untypeds has passed.
Scanned(a) ==
  \E k \in DOMAIN memory : Within(a, memory[k]) /\ (k < region \/ (k = region /\ a < cursor))

Position ==
  /\ phase = "populate" => slots = <<>>
  /\ phase \in {"untyped", "run"} => ~BadMemory
  /\ phase = "untyped" => /\ region \in DOMAIN memory
                          /\ memory[region].base <= cursor
                          /\ cursor < end(memory[region])
  /\ phase = "run" => region = Len(memory) + 1
  /\ phase # "run" => Objs = {}

Covered ==
  phase \in {"untyped", "run"} =>
    \A a \in Nat : (Free(a) /\ Scanned(a)) <=> \E i \in Untypeds : Within(a, slots[i])

Marked ==
  \A i \in Untypeds : /\ slots[i].size > 0
                      /\ slots[i].used <= slots[i].size
                      /\ slots[i].used > 0 => mark(slots[i]) % G = 0

Carved ==
  \A i \in Objs : /\ slots[i].base % G = 0
                  /\ \E u \in Untypeds : /\ slots[u].base <= slots[i].base
                                         /\ slots[i].base + G <= mark(slots[u])

ObjectsApart ==
  \A i, j \in Objs : i # j =>
    slots[i].base + G <= slots[j].base \/ slots[j].base + G <= slots[i].base

CInv ==
  /\ CapTypeOK /\ Position
  /\ Covered /\ Marked /\ UntypedsDisjoint
  /\ Carved /\ ObjectsApart /\ NoGranuleLost

-----------------------------------------------------------------------------
(* Types *)

\* The memory map and the reservations are lists of regions.
LEMMA Regions ==
  ASSUME CapTypeOK
  PROVE  /\ memory \in Seq(PhysRegion)
         /\ reserved \in Seq(PhysRegion)
         /\ \A i \in DOMAIN memory : memory[i].base \in Nat /\ memory[i].size \in Nat
         /\ \A i \in DOMAIN reserved : reserved[i].base \in Nat /\ reserved[i].size \in Nat
         /\ Len(memory) \in Nat /\ DOMAIN memory = 1..Len(memory)
<1>1. memory \in Seq(PhysRegion) /\ reserved \in Seq(PhysRegion)
  BY CapAssumption DEF CapTypeOK
<1>2. \A r \in PhysRegion : r.base \in Nat /\ r.size \in Nat
  BY CapAssumption DEF PhysRegion
<1>3. \A i \in DOMAIN memory : memory[i] \in PhysRegion
  BY <1>1
<1>4. \A i \in DOMAIN reserved : reserved[i] \in PhysRegion
  BY <1>1
<1> QED
  BY <1>1, <1>2, <1>3, <1>4

\* What a slot holds, by its type.
LEMMA Slots ==
  ASSUME CapTypeOK
  PROVE  /\ slots \in Seq(Caps)
         /\ Len(slots) \in Nat /\ DOMAIN slots = 1..Len(slots)
         /\ \A i \in Untypeds : slots[i] \in [type : {"Untyped"}, base : Nat, size : Nat, used : Nat]
         /\ \A i \in Objs : slots[i] \in [type : ObjKind, base : Nat, mapped : BOOLEAN]
<1>1. slots \in Seq(Caps)
  BY DEF CapTypeOK, Caps
<1>2. \A i \in DOMAIN slots : slots[i] \in Caps
  BY <1>1
<1>3. \A c \in Caps : c.type = "Untyped" => c \in [type : {"Untyped"}, base : Nat, size : Nat, used : Nat]
  BY DEF Caps, ObjKind
<1>4. \A c \in Caps : c.type \in ObjKind => c \in [type : ObjKind, base : Nat, mapped : BOOLEAN]
  BY DEF Caps, ObjKind
<1> QED
  BY <1>1, <1>2, <1>3, <1>4 DEF Untypeds, Objs

\* A slot keeps its kind of capability.
LEMMA SlotSets ==
  /\ Untypeds = {i \in DOMAIN slots : slots[i].type = "Untyped"}
  /\ Objs = {i \in DOMAIN slots : slots[i].type \in ObjKind}
  /\ Untypeds \cap Objs = {}
BY DEF Untypeds, Objs, ObjKind

\* The reservation that push_untypeds cuts at is a lowest one.
LEMMA Lowest ==
  ASSUME CapTypeOK, NEW m, Ahead(m) # {}
  PROVE  /\ LowestAhead(m) \in Ahead(m)
         /\ \A j \in Ahead(m) : reserved[LowestAhead(m)].base <= reserved[j].base
<1> DEFINE low(i) == \A j \in Ahead(m) : \/ reserved[i].base < reserved[j].base
                                         \/ reserved[i].base = reserved[j].base /\ i <= j
<1>1. \A i \in Ahead(m) : i \in Nat /\ reserved[i].base \in Nat
  BY Regions DEF Ahead
<1>2. PICK b \in {reserved[i].base : i \in Ahead(m)} :
        \A c \in {reserved[i].base : i \in Ahead(m)} : b <= c
  <2> DEFINE B == {reserved[i].base : i \in Ahead(m)}
  <2>1. B \in SUBSET Nat /\ B # {}
    BY <1>1
  <2> HIDE DEF B
  <2>2. \E x \in B : \A y \in B : x <= y
    BY <2>1, NatMin
  <2> QED
    BY <2>2 DEF B
<1> DEFINE I == {i \in Ahead(m) : reserved[i].base = b}
<1>3. I \in SUBSET Nat /\ I # {}
  BY <1>1, <1>2
<1>4. \E x \in I : \A y \in I : x <= y
  <2> HIDE DEF I
  <2> QED BY <1>3, NatMin
<1>5. PICK i \in I : \A y \in I : i <= y
  BY <1>4
<1>6. i \in Ahead(m) /\ low(i)
  BY <1>1, <1>2, <1>5
<1>7. LowestAhead(m) = CHOOSE k \in Ahead(m) : low(k)
  BY DEF LowestAhead
<1> HIDE DEF low
<1>8. LowestAhead(m) \in Ahead(m) /\ low(LowestAhead(m))
  BY <1>6, <1>7
<1> QED
  BY <1>1, <1>8 DEF low

-----------------------------------------------------------------------------
(* The scan *)

\* What pushing a piece of memory does to the CNode.
LEMMA PiecePushed ==
  ASSUME CapTypeOK, NEW stop \in Nat, slots' = slots \o Piece(stop), Room(Piece(stop))
  PROVE  /\ slots' \in Seq(Caps) /\ Len(slots') <= CNODE_SLOTS
         /\ \A i \in DOMAIN slots : i \in DOMAIN slots' /\ slots'[i] = slots[i]
         /\ Objs' = Objs
         /\ stop <= cursor => slots' = slots
         /\ stop > cursor => /\ Untypeds' = Untypeds \cup {Len(slots) + 1}
                             /\ slots'[Len(slots) + 1] = Untyped(cursor, stop - cursor)
                             /\ Len(slots) + 1 \notin DOMAIN slots
<1>1. slots \in Seq(Caps) /\ cursor \in Nat /\ Len(slots) <= CNODE_SLOTS
  BY Slots DEF CapTypeOK
<1>2. CASE stop <= cursor
  <2>1. Piece(stop) = <<>>
    BY <1>1, <1>2 DEF Piece
  <2>2. slots' = slots
    BY <1>1, <2>1
  <2> QED
    BY <1>1, <1>2, <2>2 DEF Objs
<1>3. CASE stop > cursor
  <2> DEFINE u == Untyped(cursor, stop - cursor)
  <2>1. Piece(stop) = <<u>>
    BY <1>1, <1>3 DEF Piece
  <2>2. u \in Caps /\ u.type = "Untyped"
    BY <1>1, <1>3 DEF Caps, Untyped
  <2> HIDE DEF u
  <2>3. slots' = Append(slots, u) /\ Len(slots) + 1 <= CNODE_SLOTS
    BY <1>1, <2>1, <2>2 DEF Room
  <2>4. /\ slots' \in Seq(Caps) /\ Len(slots') = Len(slots) + 1
        /\ \A i \in DOMAIN slots : i \in DOMAIN slots' /\ slots'[i] = slots[i]
        /\ slots'[Len(slots) + 1] = u
        /\ DOMAIN slots' = DOMAIN slots \cup {Len(slots) + 1}
        /\ Len(slots) + 1 \notin DOMAIN slots
    BY <1>1, <2>2, <2>3
  <2>5. Untypeds' = Untypeds \cup {Len(slots) + 1}
    BY <2>2, <2>4 DEF Untypeds
  <2>6. Objs' = Objs
    BY <2>2, <2>4 DEF Objs, ObjKind
  <2> QED
    BY <1>1, <1>3, <2>3, <2>4, <2>5, <2>6 DEF u
<1>4. stop <= cursor \/ stop > cursor
  BY <1>1
<1> QED
  BY <1>2, <1>3, <1>4

\* The addresses of a piece lie in the region that is scanned, and have not
\* been scanned.
LEMMA Unscanned ==
  ASSUME CInv, phase = "untyped", NEW a \in Nat, cursor <= a, a < end(memory[region])
  PROVE  Within(a, memory[region]) /\ ~Scanned(a)
<1> USE DEF CInv, Position
<1>1. region \in DOMAIN memory /\ memory[region].base <= cursor /\ region \in Nat /\ cursor \in Nat
  BY Regions DEF CapTypeOK
<1>2. Within(a, memory[region])
  BY <1>1, Regions DEF Within
<1>3. ASSUME NEW k \in DOMAIN memory, k < region, Within(a, memory[k])
      PROVE  FALSE
  <2>1. ~(memory[k].base < end(memory[region]) /\ memory[region].base < end(memory[k]))
    BY <1>1, <1>3 DEF BadMemory
  <2>2. memory[k].base <= a /\ a < end(memory[k]) /\ memory[region].base <= a
    BY <1>2, <1>3 DEF Within
  <2>3. memory[k].base \in Nat /\ memory[k].size \in Nat /\ memory[region].base \in Nat /\ memory[region].size \in Nat
    BY <1>1, Regions
  <2>4. end(memory[k]) \in Nat /\ end(memory[region]) \in Nat
    BY <2>3 DEF end
  <2> HIDE DEF CInv, Position
  <2> QED
    BY <2>1, <2>2, <2>3, <2>4
<1> QED
  BY <1>1, <1>2, <1>3 DEF Scanned

\* A turn that pushes [cursor, stop) and moves on past memory that is not free.
LEMMA ScanAdvances ==
  ASSUME CInv, phase = "untyped", NEW stop \in Nat, stop <= end(memory[region]),
         slots' = slots \o Piece(stop), Room(Piece(stop)), UNCHANGED <<memory, reserved>>,
         \A a \in Nat : cursor <= a /\ a < stop => Free(a),
         \A a \in Nat : (Free(a) /\ Scanned(a)') <=> (Free(a) /\ Scanned(a)) \/ (cursor <= a /\ a < stop)
  PROVE  /\ slots' \in Seq(Caps) /\ Len(slots') <= CNODE_SLOTS
         /\ \A a \in Nat : (Free(a) /\ Scanned(a))' <=> \E i \in Untypeds' : Within(a, slots'[i])
         /\ Marked' /\ UntypedsDisjoint' /\ NoGranuleLost'
         /\ Objs' = {}
<1>0. CapTypeOK /\ cursor \in Nat
  BY DEF CInv, CapTypeOK
<1>1. \A a \in Nat : Free(a)' = Free(a)
  BY DEF Free, Within, end
<1>2. Objs' = {}
  <2>1. Objs' = Objs
    BY <1>0, PiecePushed
  <2>2. Objs = {}
    BY DEF CInv, Position
  <2> QED
    BY <2>1, <2>2
<1>3. \A a \in Nat : (Free(a) /\ Scanned(a)) <=> \E i \in Untypeds : Within(a, slots[i])
  BY DEF CInv, Covered
<1>4. \A i \in Untypeds : slots[i].base \in Nat /\ slots[i].size \in Nat /\ slots[i].used \in Nat
  BY <1>0, Slots
<1>5. /\ slots' \in Seq(Caps) /\ Len(slots') <= CNODE_SLOTS
      /\ Untypeds \subseteq DOMAIN slots /\ Objs \subseteq DOMAIN slots
      /\ \A i \in DOMAIN slots : slots'[i] = slots[i]
  <2>1. slots' \in Seq(Caps) /\ Len(slots') <= CNODE_SLOTS /\ \A i \in DOMAIN slots : slots'[i] = slots[i]
    BY <1>0, PiecePushed
  <2>2. Untypeds \subseteq DOMAIN slots /\ Objs \subseteq DOMAIN slots
    BY DEF Untypeds, Objs
  <2> QED
    BY <2>1, <2>2
<1>6. CASE stop <= cursor
  <2>1. slots' = slots /\ Untypeds' = Untypeds /\ Objs' = Objs
    BY <1>0, <1>6, PiecePushed DEF Untypeds
  <2>2. \A a \in Nat : (Free(a) /\ Scanned(a))' <=> \E i \in Untypeds' : Within(a, slots'[i])
    BY <1>0, <1>1, <1>3, <1>6, <2>1
  <2>3. Marked' /\ UntypedsDisjoint' /\ NoGranuleLost'
    BY <2>1 DEF CInv, Marked, UntypedsDisjoint, NoGranuleLost
  <2> QED
    BY <1>2, <1>5, <2>2, <2>3
<1>7. CASE stop > cursor
  <2> DEFINE n == Len(slots) + 1
             u == Untyped(cursor, stop - cursor)
  <2>1. Untypeds' = Untypeds \cup {n} /\ slots'[n] = u /\ n \notin Untypeds
    BY <1>0, <1>5, <1>7, PiecePushed
  <2>2. u.base = cursor /\ u.size = stop - cursor /\ u.used = 0
    BY DEF Untyped
  <2>3. \A a \in Nat : Within(a, u) <=> cursor <= a /\ a < stop
    BY <1>0, <2>2 DEF Within, end
  <2> HIDE DEF n, u
  <2>4. \A a \in Nat : (Free(a) /\ Scanned(a))' <=> \E i \in Untypeds' : Within(a, slots'[i])
    <3> TAKE a \in Nat
    <3>1. (\E i \in Untypeds' : Within(a, slots'[i])) <=> (\E i \in Untypeds : Within(a, slots[i])) \/ Within(a, u)
      BY <1>5, <2>1
    <3> QED
      BY <1>1, <1>3, <2>3, <3>1
  <2>5. Marked'
    <3> SUFFICES ASSUME NEW i \in Untypeds'
                 PROVE  /\ slots'[i].size > 0
                        /\ slots'[i].used <= slots'[i].size
                        /\ slots'[i].used > 0 => mark(slots'[i]) % G = 0
      BY DEF Marked
    <3>1. CASE i \in Untypeds
      BY <1>5, <3>1 DEF CInv, Marked
    <3>2. CASE i = n
      <4>1. slots'[i] = u
        BY <2>1, <3>2
      <4>2. u.size > 0 /\ u.used <= u.size /\ ~(u.used > 0)
        BY <1>0, <1>7, <2>2
      <4> QED
        BY <4>1, <4>2
    <3> QED
      BY <2>1, <3>1, <3>2
  <2>6. ASSUME NEW i \in Untypeds
        PROVE  end(slots[i]) <= u.base \/ end(u) <= slots[i].base
    <3>1. ASSUME NEW a \in Nat, Within(a, slots[i]), Within(a, u)
          PROVE  FALSE
      BY <1>0, <1>3, <2>3, <3>1, Unscanned, Regions DEF CInv, Position, end
    <3>2. slots[i].size > 0
      BY DEF CInv, Marked
    <3>3. CASE slots[i].base <= cursor
      BY <1>0, <1>4, <1>7, <2>2, <3>1, <3>2, <3>3 DEF Within, end
    <3>4. CASE slots[i].base > cursor
      <4>1. Within(slots[i].base, slots[i])
        BY <1>4, <3>2 DEF Within, end
      <4>2. ~(slots[i].base < stop)
        BY <1>0, <1>4, <2>3, <3>1, <3>4, <4>1
      <4> QED
        BY <1>0, <1>4, <2>2, <4>2 DEF end
    <3> QED
      BY <1>0, <1>4, <3>3, <3>4
  <2>7. UntypedsDisjoint'
    BY <1>5, <2>1, <2>6 DEF CInv, UntypedsDisjoint, end
  <2>8. NoGranuleLost'
    <3>1. Objs = {} /\ Objs' = {}
      BY <1>2 DEF CInv, Position
    <3>2. mark(u) = u.base /\ u.base \in Nat
      BY <1>0, <2>2 DEF mark
    <3> SUFFICES ASSUME NEW i \in Untypeds', NEW a \in slots'[i].base .. mark(slots'[i]) - 1,
                        a % G = 0, a + G <= mark(slots'[i])
                 PROVE  FALSE
      BY DEF NoGranuleLost
    <3>3. CASE i \in Untypeds
      BY <1>5, <3>1, <3>3 DEF CInv, NoGranuleLost
    <3>4. CASE i = n
      <4>1. slots'[i] = u
        BY <2>1, <3>4
      <4> QED
        BY <3>2, <4>1
    <3> QED
      BY <2>1, <3>3, <3>4
  <2> QED
    BY <1>2, <1>5, <2>4, <2>5, <2>7, <2>8
<1>8. stop <= cursor \/ stop > cursor
  BY <1>0
<1> QED
  BY <1>6, <1>7, <1>8

\* Going on with region i: all regions before it have been scanned.
LEMMA Entered ==
  ASSUME CapTypeOK, ~BadMemory, NEW i \in 1 .. Len(memory) + 1, EnterRegion(i), memory' = memory
  PROVE  /\ region' = i /\ cursor' \in Nat
         /\ phase' \in {"untyped", "run"}
         /\ phase' = "untyped" => /\ i \in DOMAIN memory
                                  /\ memory[i].base <= cursor'
                                  /\ cursor' < end(memory[i])
         /\ phase' = "run" => i = Len(memory) + 1
         /\ \A a \in Nat : Scanned(a)' <=> \E k \in DOMAIN memory : Within(a, memory[k]) /\ k < i
<1>1. Len(memory) \in Nat /\ DOMAIN memory = 1..Len(memory) /\ i \in Nat
  BY Regions
<1>2. CASE i > Len(memory)
  <2>1. region' = i /\ cursor' = 0 /\ phase' = "run" /\ i = Len(memory) + 1
    BY <1>1, <1>2 DEF EnterRegion
  <2>2. ASSUME NEW a \in Nat
        PROVE  Scanned(a)' <=> \E k \in DOMAIN memory : Within(a, memory[k]) /\ k < i
    BY <1>1, <2>1 DEF Scanned, Within, end
  <2> QED
    BY <2>1, <2>2
<1>3. CASE ~(i > Len(memory))
  <2>1. region' = i /\ cursor' = memory[i].base /\ phase' = "untyped" /\ i \in DOMAIN memory
    BY <1>1, <1>3 DEF EnterRegion
  <2>2. memory[i].base \in Nat /\ memory[i].size \in Nat /\ memory[i].size # 0
    BY <2>1, Regions DEF BadMemory, BadRegion
  <2>3. ASSUME NEW a \in Nat
        PROVE  Scanned(a)' <=> \E k \in DOMAIN memory : Within(a, memory[k]) /\ k < i
    <3>1. Scanned(a)' <=> \E k \in DOMAIN memory : Within(a, memory[k]) /\ (k < i \/ (k = i /\ a < memory[i].base))
      BY <2>1 DEF Scanned, Within, end
    <3>2. ~(Within(a, memory[i]) /\ a < memory[i].base)
      BY <2>2 DEF Within
    <3> QED
      BY <3>1, <3>2
  <2> QED
    BY <2>1, <2>2, <2>3 DEF end
<1> QED
  BY <1>2, <1>3

\* bootstrap starts: nothing is scanned, nothing handed out.
LEMMA PopulateKeeps ==
  ASSUME CInv, populate
  PROVE  CInv'
<1>0. CapTypeOK
  BY DEF CInv
<1>1. CASE BadMemory /\ Fail("BadRegion")
  <2>1. UNCHANGED <<memory, reserved, slots, region, cursor>> /\ phase' = "BadRegion" /\ phase = "populate"
    BY <1>1 DEF populate, Fail
  <2>2. Untypeds' = Untypeds /\ Objs' = Objs
    BY <2>1 DEF Untypeds, Objs
  <2>3. CapTypeOK' /\ Position' /\ Covered'
    BY <2>1, <2>2 DEF CInv, CapTypeOK, Position, Covered
  <2>4. Marked' /\ UntypedsDisjoint' /\ Carved' /\ ObjectsApart' /\ NoGranuleLost'
    BY <2>1, <2>2 DEF CInv, Marked, UntypedsDisjoint, Carved, ObjectsApart, NoGranuleLost
  <2> QED
    BY <2>3, <2>4 DEF CInv
<1>2. CASE ~BadMemory /\ slots' = FixedCaps /\ EnterRegion(1)
  <2>1. UNCHANGED <<memory, reserved>> /\ 1 \in 1 .. Len(memory) + 1
    BY <1>0, Regions DEF populate
  <2>2. /\ region' = 1 /\ cursor' \in Nat /\ phase' \in {"untyped", "run"}
        /\ phase' = "untyped" => /\ 1 \in DOMAIN memory
                                 /\ memory[1].base <= cursor'
                                 /\ cursor' < end(memory[1])
        /\ phase' = "run" => 1 = Len(memory) + 1
        /\ \A a \in Nat : Scanned(a)' <=> \E k \in DOMAIN memory : Within(a, memory[k]) /\ k < 1
    BY <1>0, <1>2, <2>1, Entered
  <2>3. slots' \in Seq(Caps) /\ Len(slots') = 4 /\ \A i \in DOMAIN slots' : slots'[i].type \in {"Empty", "RootTcb", "AddrSpace", "Console"}
    BY <1>2 DEF FixedCaps, Caps
  <2>4. Untypeds' = {} /\ Objs' = {}
    BY <2>3 DEF Untypeds, Objs, ObjKind
  <2>5. CapTypeOK'
    BY <1>0, <2>1, <2>2, <2>3, CapAssumption DEF CapTypeOK, Caps
  <2>6. BadMemory' <=> BadMemory
    BY <2>1 DEF BadMemory, BadRegion, end
  <2>7. Position'
    BY <1>2, <2>1, <2>2, <2>4, <2>6 DEF Position, end
  <2>8. \A a \in Nat : ~Scanned(a)'
    BY <1>0, <2>2, Regions
  <2>9. Covered'
    BY <2>4, <2>8 DEF Covered
  <2>10. Marked' /\ UntypedsDisjoint' /\ Carved' /\ ObjectsApart' /\ NoGranuleLost'
    BY <2>4 DEF Marked, UntypedsDisjoint, Carved, ObjectsApart, NoGranuleLost
  <2> QED
    BY <2>5, <2>7, <2>9, <2>10 DEF CInv
<1> QED
  BY <1>1, <1>2 DEF populate

\* A failure of bootstrap leaves the CNode as it is.
LEMMA FailKeeps ==
  ASSUME CInv, phase = "untyped", NEW error \in {"BadRegion", "OutOfSlots"}, Fail(error), UNCHANGED <<memory, reserved>>
  PROVE  CInv'
<1>1. UNCHANGED <<memory, reserved, slots, region, cursor>> /\ phase' = error
  BY DEF Fail
<1>2. Untypeds' = Untypeds /\ Objs' = Objs
  BY <1>1 DEF Untypeds, Objs
<1>3. CapTypeOK' /\ Position' /\ Covered'
  BY <1>1, <1>2 DEF CInv, CapTypeOK, Position, Covered
<1>4. Marked' /\ UntypedsDisjoint' /\ Carved' /\ ObjectsApart' /\ NoGranuleLost'
  BY <1>1, <1>2 DEF CInv, Marked, UntypedsDisjoint, Carved, ObjectsApart, NoGranuleLost
<1> QED
  BY <1>3, <1>4 DEF CInv

\* The conclusion of ScanAdvances, with a scan that is at a proper place, is CInv'.
LEMMA AdvanceKeeps ==
  ASSUME CInv, phase = "untyped", NEW stop \in Nat, stop <= end(memory[region]),
         slots' = slots \o Piece(stop), Room(Piece(stop)), UNCHANGED <<memory, reserved>>,
         \A a \in Nat : cursor <= a /\ a < stop => Free(a),
         \A a \in Nat : (Free(a) /\ Scanned(a)') <=> (Free(a) /\ Scanned(a)) \/ (cursor <= a /\ a < stop),
         region' \in Nat, cursor' \in Nat, phase' \in {"untyped", "run"},
         phase' = "untyped" => /\ region' \in DOMAIN memory
                               /\ memory[region'].base <= cursor'
                               /\ cursor' < end(memory[region']),
         phase' = "run" => region' = Len(memory) + 1
  PROVE  CInv'
<1>1. /\ slots' \in Seq(Caps) /\ Len(slots') <= CNODE_SLOTS
      /\ \A a \in Nat : (Free(a) /\ Scanned(a))' <=> \E i \in Untypeds' : Within(a, slots'[i])
      /\ Marked' /\ UntypedsDisjoint' /\ NoGranuleLost'
      /\ Objs' = {}
  BY ScanAdvances
<1>2. CapTypeOK'
  BY <1>1 DEF CInv, CapTypeOK, Caps
<1>3. ~BadMemory'
  BY DEF CInv, Position, BadMemory, BadRegion, end
<1>4. Position'
  BY <1>1, <1>3 DEF Position, end
<1>5. Covered'
  BY <1>1 DEF Covered
<1>6. Carved' /\ ObjectsApart'
  BY <1>1 DEF Carved, ObjectsApart
<1> QED
  BY <1>1, <1>2, <1>4, <1>5, <1>6 DEF CInv

\* The scanned addresses once region has been left.
LEMMA RegionDone ==
  ASSUME CInv, phase = "untyped", EnterRegion(region + 1), memory' = memory
  PROVE  /\ region' = region + 1 /\ cursor' \in Nat /\ phase' \in {"untyped", "run"}
         /\ phase' = "untyped" => /\ region' \in DOMAIN memory
                                  /\ memory[region'].base <= cursor'
                                  /\ cursor' < end(memory[region'])
         /\ phase' = "run" => region' = Len(memory) + 1
         /\ \A a \in Nat : Scanned(a)' <=> Scanned(a) \/ (cursor <= a /\ a < end(memory[region]))
<1>1. /\ CapTypeOK /\ ~BadMemory /\ region \in Nat /\ cursor \in Nat /\ region \in DOMAIN memory
      /\ memory[region].base <= cursor
  BY DEF CInv, CapTypeOK, Position
<1>2. region + 1 \in 1 .. Len(memory) + 1
  BY <1>1, Regions
<1>3. /\ region' = region + 1 /\ cursor' \in Nat /\ phase' \in {"untyped", "run"}
      /\ phase' = "untyped" => /\ region + 1 \in DOMAIN memory
                               /\ memory[region + 1].base <= cursor'
                               /\ cursor' < end(memory[region + 1])
      /\ phase' = "run" => region + 1 = Len(memory) + 1
      /\ \A a \in Nat : Scanned(a)' <=> \E k \in DOMAIN memory : Within(a, memory[k]) /\ k < region + 1
  <2> HIDE DEF EnterRegion
  <2> QED BY <1>1, <1>2, Entered
<1>4. ASSUME NEW a \in Nat
      PROVE  Scanned(a)' <=> Scanned(a) \/ (cursor <= a /\ a < end(memory[region]))
  <2>1. \A k \in DOMAIN memory : k \in Nat /\ (k < region + 1 <=> k < region \/ k = region)
    BY <1>1, Regions
  <2>2. Scanned(a)' <=> \E k \in DOMAIN memory : Within(a, memory[k]) /\ (k < region \/ k = region)
    BY <1>3, <2>1
  <2>3. Scanned(a) <=> \E k \in DOMAIN memory : Within(a, memory[k]) /\ (k < region \/ (k = region /\ a < cursor))
    BY DEF Scanned
  <2>4. cursor <= a /\ a < end(memory[region]) => Within(a, memory[region])
    BY <1>1, Regions DEF Within
  <2>5. Within(a, memory[region]) /\ ~(a < cursor) => cursor <= a /\ a < end(memory[region])
    BY <1>1, Regions DEF Within
  <2> QED
    BY <1>1, <2>2, <2>3, <2>4, <2>5
<1> QED
  BY <1>3, <1>4

\* The turn that pushes what is left of a region.
LEMMA RestKeeps ==
  ASSUME CInv, phase = "untyped", PushRest(memory[region]), UNCHANGED <<memory, reserved>>
  PROVE  CInv'
<1> DEFINE m == memory[region]
<1>1. CASE ~Room(Piece(end(m))) /\ Fail("OutOfSlots")
  BY <1>1, FailKeeps
<1>2. CASE Room(Piece(end(m))) /\ slots' = slots \o Piece(end(m)) /\ EnterRegion(region + 1)
  <2>1. /\ CapTypeOK /\ region \in Nat /\ cursor \in Nat /\ region \in DOMAIN memory
        /\ m.base \in Nat /\ m.size \in Nat /\ end(m) \in Nat /\ Ahead(m) = {}
    BY Regions DEF CInv, CapTypeOK, Position, PushRest, end
  <2>2. ASSUME NEW a \in Nat, cursor <= a, a < end(m)
        PROVE  Free(a)
    <3>1. Within(a, m)
      BY <2>2, Unscanned
    <3>2. ASSUME NEW i \in DOMAIN reserved, Within(a, reserved[i])
          PROVE  FALSE
      <4>1. i \in Ahead(m)
        BY <2>1, <2>2, <3>2, Regions DEF Ahead, Within, end
      <4> QED
        BY <2>1, <4>1
    <3> QED
      BY <2>1, <3>1, <3>2 DEF Free
  <2>3. /\ region' = region + 1 /\ cursor' \in Nat /\ phase' \in {"untyped", "run"}
        /\ phase' = "untyped" => /\ region' \in DOMAIN memory
                                 /\ memory[region'].base <= cursor'
                                 /\ cursor' < end(memory[region'])
        /\ phase' = "run" => region' = Len(memory) + 1
        /\ \A a \in Nat : Scanned(a)' <=> Scanned(a) \/ (cursor <= a /\ a < end(m))
    BY <1>2, RegionDone
  <2>4. \A a \in Nat : (Free(a) /\ Scanned(a)') <=> (Free(a) /\ Scanned(a)) \/ (cursor <= a /\ a < end(m))
    BY <2>2, <2>3
  <2>5. end(m) <= end(memory[region]) /\ region' \in Nat
    BY <2>1, <2>3
  <2> HIDE DEF m
  <2> QED
    BY <1>2, <2>1, <2>2, <2>3, <2>4, <2>5, AdvanceKeeps
<1> QED
  BY <1>1, <1>2 DEF PushRest

\* The turn that pushes what lies below a reservation and moves past it.
LEMMA BelowKeeps ==
  ASSUME CInv, phase = "untyped", PushBelow(memory[region]), UNCHANGED <<memory, reserved>>
  PROVE  CInv'
<1> DEFINE m == memory[region]
           r == reserved[LowestAhead(m)]
<1>1. CASE ~Room(Piece(r.base)) /\ Fail("OutOfSlots")
  BY <1>1, FailKeeps
<1>2. CASE /\ Room(Piece(r.base)) /\ slots' = slots \o Piece(r.base)
           /\ IF end(r) >= end(m) THEN EnterRegion(region + 1)
              ELSE /\ cursor' = IF end(r) > cursor THEN end(r) ELSE cursor
                   /\ UNCHANGED <<region, phase>>
  <2>1. /\ CapTypeOK /\ region \in Nat /\ cursor \in Nat /\ region \in DOMAIN memory
        /\ m.base \in Nat /\ m.size \in Nat /\ end(m) \in Nat /\ Ahead(m) # {}
        /\ m.base <= cursor
    <3>1. CapTypeOK /\ region \in Nat /\ cursor \in Nat /\ region \in DOMAIN memory /\ m.base <= cursor
      BY Regions DEF CInv, CapTypeOK, Position
    <3>2. m.base \in Nat /\ m.size \in Nat
      BY <3>1, Regions
    <3>3. end(m) \in Nat
      BY <3>2 DEF end
    <3>4. Ahead(m) # {}
      BY DEF PushBelow
    <3> QED
      BY <3>1, <3>2, <3>3, <3>4
  <2>2. LowestAhead(m) \in Ahead(m) /\ \A j \in Ahead(m) : r.base <= reserved[j].base
    BY <2>1, Lowest
  <2>3. /\ LowestAhead(m) \in DOMAIN reserved /\ r.base \in Nat /\ r.size \in Nat /\ end(r) \in Nat
        /\ end(r) > cursor /\ r.base < end(m) /\ r.base <= end(r)
    <3>1. LowestAhead(m) \in DOMAIN reserved /\ end(r) > cursor /\ r.base < end(m)
      BY <2>2 DEF Ahead
    <3>2. r.base \in Nat /\ r.size \in Nat
      BY <2>1, <3>1, Regions
    <3>3. end(r) \in Nat /\ r.base <= end(r)
      BY <3>2 DEF end
    <3> QED
      BY <3>1, <3>2, <3>3
  <2>4. ASSUME NEW a \in Nat, cursor <= a, a < r.base
        PROVE  Free(a)
    <3>1. Within(a, m)
      BY <2>1, <2>3, <2>4, Unscanned
    <3>2. ASSUME NEW i \in DOMAIN reserved, Within(a, reserved[i])
          PROVE  FALSE
      <4>1. reserved[i].base \in Nat /\ reserved[i].size \in Nat
        BY <2>1, Regions
      <4>2. i \in Ahead(m) /\ reserved[i].base < r.base
        BY <2>1, <2>3, <2>4, <3>2, <4>1 DEF Ahead, Within, end
      <4> QED
        BY <2>2, <2>3, <4>1, <4>2
    <3> QED
      BY <2>1, <3>1, <3>2 DEF Free
  <2>5. \A a \in Nat : r.base <= a /\ a < end(r) => ~Free(a)
    BY <2>3 DEF Free, Within
  <2>6. r.base <= end(memory[region])
    BY <2>1, <2>3
  <2>7. CASE end(r) >= end(m)
    <3>1. /\ region' = region + 1 /\ cursor' \in Nat /\ phase' \in {"untyped", "run"}
          /\ phase' = "untyped" => /\ region' \in DOMAIN memory
                                   /\ memory[region'].base <= cursor'
                                   /\ cursor' < end(memory[region'])
          /\ phase' = "run" => region' = Len(memory) + 1
          /\ \A a \in Nat : Scanned(a)' <=> Scanned(a) \/ (cursor <= a /\ a < end(m))
      BY <1>2, <2>7, RegionDone
    <3>2. \A a \in Nat : (Free(a) /\ Scanned(a)') <=> (Free(a) /\ Scanned(a)) \/ (cursor <= a /\ a < r.base)
      <4> SUFFICES ASSUME NEW a \in Nat
                   PROVE  (Free(a) /\ Scanned(a)') <=> (Free(a) /\ Scanned(a)) \/ (cursor <= a /\ a < r.base)
        OBVIOUS
      <4>1. Scanned(a)' <=> Scanned(a) \/ (cursor <= a /\ a < end(m))
        BY <3>1
      <4>2. cursor <= a /\ a < r.base => Free(a) /\ a < end(m)
        BY <2>1, <2>3, <2>4
      <4>3. a < end(m) /\ Free(a) => a < r.base
        BY <2>1, <2>3, <2>5, <2>7
      <4> HIDE DEF m, r
      <4> QED
        BY <4>1, <4>2, <4>3
    <3>3. region' \in Nat
      BY <2>1, <3>1
    <3> HIDE DEF m, r
    <3> QED
      BY <1>2, <2>3, <2>4, <2>6, <3>1, <3>2, <3>3, AdvanceKeeps
  <2>8. CASE ~(end(r) >= end(m))
    <3>1. cursor' = end(r) /\ region' = region /\ phase' = phase
      BY <1>2, <2>3, <2>8
    <3>2. ASSUME NEW a \in Nat
          PROVE  Scanned(a)' <=> Scanned(a) \/ (cursor <= a /\ a < end(r))
      <4>1. Scanned(a)' <=> \E k \in DOMAIN memory : Within(a, memory[k]) /\ (k < region \/ (k = region /\ a < end(r)))
        BY <3>1 DEF Scanned, Within, end
      <4>2. Scanned(a) <=> \E k \in DOMAIN memory : Within(a, memory[k]) /\ (k < region \/ (k = region /\ a < cursor))
        BY DEF Scanned
      <4>3. cursor <= a /\ a < end(r) => Within(a, memory[region])
        BY <2>1, <2>3, <2>8 DEF Within
      <4>4. a < cursor => a < end(r)
        BY <2>1, <2>3
      <4>5. ~(a < cursor) <=> cursor <= a
        BY <2>1
      <4> QED
        BY <2>1, <4>1, <4>2, <4>3, <4>4, <4>5
    <3>3. \A a \in Nat : (Free(a) /\ Scanned(a)') <=> (Free(a) /\ Scanned(a)) \/ (cursor <= a /\ a < r.base)
      BY <2>1, <2>3, <2>4, <2>5, <3>2
    <3>4. /\ region' \in Nat /\ cursor' \in Nat /\ phase' \in {"untyped", "run"}
          /\ phase' = "untyped" => /\ region' \in DOMAIN memory
                                   /\ memory[region'].base <= cursor'
                                   /\ cursor' < end(memory[region'])
          /\ phase' = "run" => region' = Len(memory) + 1
      BY <2>1, <2>3, <2>8, <3>1
    <3> HIDE DEF m, r
    <3> QED
      BY <1>2, <2>3, <2>4, <2>6, <3>3, <3>4, AdvanceKeeps
  <2> QED
    BY <2>7, <2>8
<1> QED
  BY <1>1, <1>2 DEF PushBelow

\* A turn of push_untypeds hands out free memory that was not scanned before.
LEMMA TurnKeeps ==
  ASSUME CInv, push_untypeds
  PROVE  CInv'
<1>1. phase = "untyped" /\ UNCHANGED <<memory, reserved>>
  BY DEF push_untypeds
<1>2. CASE \E i \in DOMAIN reserved : BadRegion(reserved[i])
  <2>1. Fail("BadRegion")
    BY <1>2 DEF push_untypeds
  <2> QED
    BY <1>1, <2>1, FailKeeps
<1>3. CASE PushRest(memory[region])
  BY <1>1, <1>3, RestKeeps
<1>4. CASE PushBelow(memory[region])
  BY <1>1, <1>4, BelowKeeps
<1> QED
  BY <1>2, <1>3, <1>4 DEF push_untypeds

-----------------------------------------------------------------------------
(* Retype *)

\* What a successful check promises of the untyped.
LEMMA Checked ==
  ASSUME CapTypeOK, NEW s \in Nat, retype_check(s) = "ok"
  PROVE  /\ s + 1 \in Untypeds /\ Len(slots) + 1 <= CNODE_SLOTS
         /\ ~Exhausted(slots[s + 1])
<1>1. /\ slots \in Seq(Caps) /\ Len(slots) \in Nat /\ DOMAIN slots = 1..Len(slots)
      /\ Len(slots) <= CNODE_SLOTS /\ CNODE_SLOTS \in Nat
  BY Slots, CapAssumption DEF CapTypeOK
<1>2. slots[s + 1].type = "Untyped" /\ ~Exhausted(slots[s + 1])
  BY <1>1 DEF retype_check
<1>3. s < Len(slots)
  <2>1. ~(s >= Len(slots))
    BY Zenon DEF retype_check
  <2> QED
    BY <1>1, <2>1
<1>4. Len(slots) # CNODE_SLOTS
  BY <1>1 DEF retype_check
<1>5. s + 1 \in DOMAIN slots
  BY <1>1, <1>3
<1>6. Len(slots) + 1 <= CNODE_SLOTS
  <2>1. \A a, b \in Nat : a <= b /\ a # b => a + 1 <= b
    OBVIOUS
  <2> QED
    BY <1>1, <1>4, <2>1
<1> QED
  BY <1>2, <1>5, <1>6 DEF Untypeds

\* The granule that is carved lies between watermark and end.
LEMMA CarvedGranule ==
  ASSUME NEW u \in [type : {"Untyped"}, base : Nat, size : Nat, used : Nat], ~Exhausted(u)
  PROVE  /\ carve(u) \in Nat /\ carve(u) % G = 0
         /\ mark(u) <= carve(u) /\ carve(u) < mark(u) + G
         /\ carve(u) + G <= end(u)
         /\ mark(u) = u.base + u.used /\ mark(u) \in Nat
<1>1. u.base \in Nat /\ u.size \in Nat /\ u.used \in Nat
  OBVIOUS
<1>2. mark(u) = u.base + u.used /\ mark(u) \in Nat /\ end(u) \in Nat
  BY <1>1 DEF mark, end
<1>3. carve(u) \in Nat /\ carve(u) % G = 0 /\ mark(u) <= carve(u) /\ carve(u) < mark(u) + G
  BY <1>2, AlignUp DEF carve
<1>4. carve(u) + G <= end(u)
  BY <1>2, <1>3, GranuleAssumption DEF Exhausted
<1> QED
  BY <1>2, <1>3, <1>4

\* What commit does to the CNode.
LEMMA Committed ==
  ASSUME CapTypeOK, NEW s \in Nat, NEW kind \in ObjKind, retype_check(s) = "ok", commit(s, kind)
  PROVE  LET x == s + 1
             u == slots[x]
             n == Len(slots) + 1
         IN  /\ slots' \in Seq(Caps) /\ Len(slots') = n /\ n <= CNODE_SLOTS
             /\ x \in Untypeds /\ n \notin DOMAIN slots
             /\ \A i \in DOMAIN slots \ {x} : slots'[i] = slots[i]
             /\ slots'[x] = [u EXCEPT !.used = carve(u) + G - u.base]
             /\ slots'[n] = Object(kind, carve(u))
             /\ Untypeds' = Untypeds /\ Objs' = Objs \cup {n}
<1> DEFINE x == s + 1
           u == slots[x]
           n == Len(slots) + 1
           v == [u EXCEPT !.used = carve(u) + G - u.base]
           o == Object(kind, carve(u))
           mid == [slots EXCEPT ![x].used = carve(u) + G - u.base]
<1>1. x \in Untypeds /\ n <= CNODE_SLOTS /\ ~Exhausted(u)
  BY Checked
<1>2. /\ slots \in Seq(Caps) /\ Len(slots) \in Nat /\ DOMAIN slots = 1..Len(slots)
      /\ u \in [type : {"Untyped"}, base : Nat, size : Nat, used : Nat]
  BY <1>1, Slots
<1>3. carve(u) \in Nat /\ carve(u) + G - u.base \in Nat
  <2>1. carve(u) \in Nat /\ mark(u) <= carve(u) /\ mark(u) = u.base + u.used
    BY <1>1, <1>2, CarvedGranule
  <2>2. u.base \in Nat /\ u.used \in Nat /\ G \in Nat
    BY <1>2, GranuleAssumption
  <2> HIDE DEF u
  <2> QED
    BY <2>1, <2>2
<1>4. v \in Caps /\ v.type = "Untyped" /\ o \in Caps /\ o.type \in ObjKind
  <2>1. v \in [type : {"Untyped"}, base : Nat, size : Nat, used : Nat]
    BY <1>2, <1>3
  <2>2. o \in [type : ObjKind, base : Nat, mapped : BOOLEAN]
    BY <1>3 DEF Object
  <2> HIDE DEF v, o
  <2> QED
    BY <2>1, <2>2 DEF Caps
<1>5. slots' = Append(mid, o)
  BY DEF commit
<1>6. mid = [slots EXCEPT ![x] = v] /\ x \in DOMAIN slots
  BY <1>1 DEF Untypeds
<1> HIDE DEF v, o, u, mid
<1>7. mid \in Seq(Caps) /\ Len(mid) = Len(slots) /\ mid[x] = v /\ \A i \in DOMAIN slots \ {x} : mid[i] = slots[i]
  BY <1>2, <1>4, <1>6
<1>8. /\ slots' \in Seq(Caps) /\ Len(slots') = n /\ DOMAIN slots' = DOMAIN slots \cup {n} /\ n \notin DOMAIN slots
      /\ slots'[n] = o /\ slots'[x] = v /\ \A i \in DOMAIN slots \ {x} : slots'[i] = slots[i]
  <2>1. DOMAIN mid = 1..Len(slots) /\ Len(mid) \in Nat /\ Len(mid) = Len(slots)
    BY <1>2, <1>7
  <2>2. /\ slots' \in Seq(Caps) /\ Len(slots') = Len(mid) + 1 /\ DOMAIN slots' = 1..Len(mid) + 1
        /\ slots'[Len(mid) + 1] = o
    BY <1>4, <1>5, <1>7
  <2>3. \A i \in 1..Len(mid) : slots'[i] = mid[i]
    BY <1>4, <1>5, <1>7
  <2>4. DOMAIN slots' = DOMAIN slots \cup {n} /\ n \notin DOMAIN slots
    BY <1>2, <2>1, <2>2
  <2>5. slots'[x] = v /\ \A i \in DOMAIN slots \ {x} : slots'[i] = slots[i]
    BY <1>2, <1>6, <1>7, <2>1, <2>3
  <2> QED
    BY <2>1, <2>2, <2>4, <2>5
<1>9. slots[x].type = "Untyped"
  BY <1>1 DEF Untypeds
<1>10. Untypeds' = Untypeds
  BY <1>4, <1>8, <1>9 DEF Untypeds, ObjKind
<1>11. Objs' = Objs \cup {n}
  BY <1>4, <1>8, <1>9 DEF Objs, ObjKind
<1> QED
  BY <1>1, <1>8, <1>10, <1>11 DEF u, v, o

\* A successful retype takes the next granule of one untyped and nothing else.
LEMMA CommitKeeps ==
  ASSUME CInv, phase = "run", NEW s \in Nat, NEW kind \in ObjKind, retype_check(s) = "ok", commit(s, kind),
         UNCHANGED <<memory, reserved, region, cursor, phase>>
  PROVE  CInv'
<1> DEFINE x == s + 1
           u == slots[x]
           n == Len(slots) + 1
           c == carve(u)
<1>0. CapTypeOK
  BY DEF CInv
<1>1. /\ slots' \in Seq(Caps) /\ Len(slots') = n /\ n <= CNODE_SLOTS
      /\ x \in Untypeds /\ n \notin DOMAIN slots
      /\ \A i \in DOMAIN slots \ {x} : slots'[i] = slots[i]
      /\ slots'[x] = [u EXCEPT !.used = c + G - u.base]
      /\ slots'[n] = Object(kind, c)
      /\ Untypeds' = Untypeds /\ Objs' = Objs \cup {n}
  BY <1>0, Committed
<1>2. /\ \A i \in Untypeds : i \in DOMAIN slots /\ slots[i] \in [type : {"Untyped"}, base : Nat, size : Nat, used : Nat]
      /\ \A i \in Objs : i \in DOMAIN slots /\ i # x /\ i # n /\ slots[i] \in [type : ObjKind, base : Nat, mapped : BOOLEAN]
  BY <1>0, <1>1, Slots, SlotSets
<1>3. /\ c \in Nat /\ c % G = 0 /\ mark(u) <= c /\ c < mark(u) + G /\ c + G <= end(u)
      /\ mark(u) = u.base + u.used /\ mark(u) \in Nat
  BY <1>0, <1>1, <1>2, Checked, CarvedGranule
<1>4. u.base \in Nat /\ u.size \in Nat /\ u.used \in Nat /\ G \in Nat /\ G > 0 /\ end(u) = u.base + u.size
  BY <1>1, <1>2, GranuleAssumption DEF end
<1> HIDE DEF c
<1>5. /\ slots'[x].base = u.base /\ slots'[x].size = u.size /\ slots'[x].used = c + G - u.base
      /\ mark(slots'[x]) = c + G
  <2>1. slots'[x].base = u.base /\ slots'[x].size = u.size /\ slots'[x].used = c + G - u.base
    BY <1>1, <1>2
  <2> QED
    BY <1>3, <1>4, <2>1 DEF mark
<1>6. \A i \in Untypeds : i # x => slots'[i] = slots[i]
  BY <1>1, <1>2
<1>7. \A i \in Objs : slots'[i] = slots[i]
  BY <1>1, <1>2
<1>8. slots'[n].base = c
  BY <1>1 DEF Object
<1>9. \A i \in Untypeds : slots'[i].base = slots[i].base /\ slots'[i].size = slots[i].size
  BY <1>5, <1>6
<1> HIDE DEF x, u, n
<1>10. \A i \in Untypeds : end(slots'[i]) = end(slots[i])
  BY <1>9 DEF end
<1>11. CapTypeOK'
  BY <1>0, <1>1 DEF CapTypeOK, Caps
<1>12. BadMemory' <=> BadMemory
  BY DEF BadMemory, BadRegion, end
<1>13. Position'
  BY <1>12 DEF CInv, Position
<1>14. Covered'
  <2>1. \A a \in Nat : Free(a)' = Free(a) /\ Scanned(a)' = Scanned(a)
    BY DEF Free, Scanned, Within, end
  <2>2. \A a \in Nat : \A i \in Untypeds : Within(a, slots'[i]) <=> Within(a, slots[i])
    BY <1>9, <1>10 DEF Within
  <2>3. \A a \in Nat : (Free(a) /\ Scanned(a)) <=> \E i \in Untypeds : Within(a, slots[i])
    BY DEF CInv, Covered
  <2>4. \A a \in Nat : (Free(a) /\ Scanned(a))' <=> \E i \in Untypeds' : Within(a, slots'[i])
    BY <1>1, <2>1, <2>2, <2>3
  <2> QED
    BY <2>4 DEF Covered
<1>15. UntypedsDisjoint'
  BY <1>1, <1>9, <1>10 DEF CInv, UntypedsDisjoint
<1>16. Marked'
  <2> SUFFICES ASSUME NEW i \in Untypeds
               PROVE  /\ slots'[i].size > 0
                      /\ slots'[i].used <= slots'[i].size
                      /\ slots'[i].used > 0 => mark(slots'[i]) % G = 0
    BY <1>1 DEF Marked
  <2>1. CASE i # x
    BY <1>6, <2>1 DEF CInv, Marked
  <2>2. CASE i = x
    <3>1. u.size > 0
      BY <1>1 DEF CInv, Marked, u
    <3>2. c + G - u.base <= u.size
      BY <1>3, <1>4
    <3>3. (c + G) % G = 0
      BY <1>3, NextMultiple
    <3> QED
      BY <1>5, <2>2, <3>1, <3>2, <3>3
  <2> QED
    BY <2>1, <2>2
<1>17. Carved'
  <2> SUFFICES ASSUME NEW i \in Objs \cup {n}
               PROVE  /\ slots'[i].base % G = 0
                      /\ \E w \in Untypeds : /\ slots'[w].base <= slots'[i].base
                                             /\ slots'[i].base + G <= mark(slots'[w])
    BY <1>1 DEF Carved
  <2>1. CASE i = n
    <3>1. slots'[i].base = c
      BY <1>8, <2>1
    <3>2. slots'[x].base <= c /\ c + G <= mark(slots'[x])
      BY <1>3, <1>4, <1>5
    <3> QED
      BY <1>1, <1>3, <3>1, <3>2
  <2>2. CASE i \in Objs
    <3>1. PICK w \in Untypeds : slots[w].base <= slots[i].base /\ slots[i].base + G <= mark(slots[w])
      BY <2>2 DEF CInv, Carved
    <3>2. slots[i].base % G = 0 /\ slots'[i] = slots[i] /\ slots[i].base \in Nat
      BY <1>2, <1>7, <2>2 DEF CInv, Carved
    <3>3. slots[i].base + G <= mark(slots'[w])
      <4>1. CASE w # x
        BY <1>6, <3>1, <4>1
      <4>2. CASE w = x
        BY <1>3, <1>4, <1>5, <3>1, <3>2, <4>2 DEF u
      <4> QED
        BY <4>1, <4>2
    <3> QED
      BY <1>9, <3>1, <3>2, <3>3
  <2> QED
    BY <2>1, <2>2
<1>18. ObjectsApart'
  <2>1. ASSUME NEW j \in Objs
        PROVE  c + G <= slots[j].base \/ slots[j].base + G <= c
    <3>1. PICK w \in Untypeds : slots[w].base <= slots[j].base /\ slots[j].base + G <= mark(slots[w])
      BY DEF CInv, Carved
    <3>2. slots[j].base \in Nat /\ slots[w].base \in Nat /\ slots[w].size \in Nat /\ slots[w].used \in Nat
      BY <1>2
    <3>3. CASE w = x
      BY <1>3, <1>4, <3>1, <3>2, <3>3 DEF u
    <3>4. CASE w # x
      <4>1. end(slots[w]) <= u.base \/ end(u) <= slots[w].base
        BY <1>1, <3>4 DEF CInv, UntypedsDisjoint, u
      <4>2. mark(slots[w]) <= end(slots[w]) /\ mark(slots[w]) \in Nat /\ end(slots[w]) \in Nat
        BY <3>2 DEF CInv, Marked, mark, end
      <4> QED
        BY <1>3, <1>4, <3>1, <3>2, <4>1, <4>2
    <3> QED
      BY <3>3, <3>4
  <2> SUFFICES ASSUME NEW i \in Objs \cup {n}, NEW j \in Objs \cup {n}, i # j
               PROVE  slots'[i].base + G <= slots'[j].base \/ slots'[j].base + G <= slots'[i].base
    BY <1>1 DEF ObjectsApart
  <2>2. CASE i \in Objs /\ j \in Objs
    BY <1>7, <2>2 DEF CInv, ObjectsApart
  <2>3. CASE i = n /\ j \in Objs
    BY <1>7, <1>8, <2>1, <2>3
  <2>4. CASE j = n /\ i \in Objs
    BY <1>7, <1>8, <2>1, <2>4
  <2> QED
    BY <2>2, <2>3, <2>4
<1>19. NoGranuleLost'
  <2> SUFFICES ASSUME NEW i \in Untypeds, NEW a \in slots'[i].base .. mark(slots'[i]) - 1,
                      a % G = 0, a + G <= mark(slots'[i])
               PROVE  \E j \in Objs \cup {n} : slots'[j].base = a
    BY <1>1 DEF NoGranuleLost
  <2>1. CASE i # x
    <3>1. \E j \in Objs : slots[j].base = a
      BY <1>6, <2>1 DEF CInv, NoGranuleLost
    <3> QED
      BY <1>7, <3>1
  <2>2. CASE i = x
    <3>1. a \in Nat /\ u.base <= a /\ a <= c
      <4>1. slots'[i].base = u.base /\ mark(slots'[i]) = c + G
        BY <1>5, <2>2
      <4>2. a \in u.base .. (c + G) - 1 /\ a + G <= c + G
        BY <4>1, Zenon
      <4> HIDE DEF u
      <4> QED
        BY <1>3, <1>4, <4>2
    <3>2. CASE a = c
      BY <1>8, <3>2
    <3>3. CASE a # c
      <4>1. a + G <= c
        BY <1>3, <3>1, <3>3, GranulesApart
      <4>2. a < mark(u)
        BY <1>3, <1>4, <3>1, <4>1
      <4>3. u.used > 0
        BY <1>3, <1>4, <3>1, <4>2
      <4>4. mark(u) % G = 0
        BY <1>1, <4>3 DEF CInv, Marked, u
      <4>5. ~(mark(u) < c)
        BY <1>3, <1>4, <4>4, GranulesApart
      <4>6. a + G <= mark(u) /\ a \in u.base .. mark(u) - 1
        BY <1>3, <1>4, <3>1, <4>1, <4>2, <4>5
      <4>7. \E j \in Objs : slots[j].base = a
        BY <1>1, <4>6 DEF CInv, NoGranuleLost, u
      <4> QED
        BY <1>7, <4>7
    <3> QED
      BY <3>2, <3>3
  <2> QED
    BY <2>1, <2>2
<1> QED
  BY <1>11, <1>13, <1>14, <1>15, <1>16, <1>17, <1>18, <1>19 DEF CInv

\* set_mapped changes one flag.
LEMMA MappedSlots ==
  ASSUME CapTypeOK, NEW s \in Nat, set_mapped(s)
  PROVE  /\ slots' \in Seq(Caps) /\ Len(slots') = Len(slots)
         /\ s + 1 \in Objs /\ slots'[s + 1] = [slots[s + 1] EXCEPT !.mapped = TRUE]
         /\ \A i \in DOMAIN slots \ {s + 1} : slots'[i] = slots[i]
         /\ Untypeds' = Untypeds /\ Objs' = Objs
<1> DEFINE x == s + 1
           o == slots[x]
           p == [o EXCEPT !.mapped = TRUE]
<1>1. slots \in Seq(Caps) /\ Len(slots) \in Nat /\ DOMAIN slots = 1..Len(slots)
  BY Slots
<1>2. s < Len(slots) /\ o.type \in {"Frame", "PageTable"} /\ slots' = [slots EXCEPT ![x].mapped = TRUE]
  BY DEF set_mapped
<1>3. x \in DOMAIN slots
  BY <1>1, <1>2
<1>4. x \in Objs
  BY <1>2, <1>3 DEF Objs, ObjKind
<1>5. o \in [type : ObjKind, base : Nat, mapped : BOOLEAN]
  BY <1>4, Slots
<1>6. p \in Caps /\ p.type = o.type
  BY <1>5 DEF Caps
<1>7. slots' = [slots EXCEPT ![x] = p]
  BY <1>2, <1>3
<1> HIDE DEF p, x
<1>8. /\ slots' \in Seq(Caps) /\ Len(slots') = Len(slots) /\ DOMAIN slots' = DOMAIN slots /\ slots'[x] = p
      /\ \A i \in DOMAIN slots \ {x} : slots'[i] = slots[i]
  BY <1>1, <1>3, <1>6, <1>7
<1>9. Untypeds' = Untypeds /\ Objs' = Objs
  BY <1>3, <1>6, <1>8 DEF Untypeds, Objs
<1> QED
  BY <1>4, <1>8, <1>9 DEF p, x

\* cap_mut changes a flag that no address depends on.
LEMMA MappedKeeps ==
  ASSUME CInv, NEW s \in Nat, set_mapped(s)
  PROVE  CInv'
<1>0. CapTypeOK /\ phase = "run" /\ UNCHANGED <<memory, reserved, region, cursor, phase>>
  BY DEF CInv, set_mapped
<1>1. /\ slots' \in Seq(Caps) /\ Len(slots') = Len(slots)
      /\ s + 1 \in Objs /\ slots'[s + 1] = [slots[s + 1] EXCEPT !.mapped = TRUE]
      /\ \A i \in DOMAIN slots \ {s + 1} : slots'[i] = slots[i]
      /\ Untypeds' = Untypeds /\ Objs' = Objs
  BY <1>0, MappedSlots
<1>2. \A i \in Untypeds : slots'[i] = slots[i]
  BY <1>1, SlotSets
<1>3. \A i \in Objs : slots'[i].base = slots[i].base
  <2>1. slots[s + 1] \in [type : ObjKind, base : Nat, mapped : BOOLEAN]
    BY <1>0, <1>1, Slots
  <2>2. slots'[s + 1].base = slots[s + 1].base
    BY <1>1, <2>1
  <2> QED
    BY <1>1, <2>2, SlotSets
<1>4. CapTypeOK'
  BY <1>0, <1>1 DEF CapTypeOK, Caps
<1>5. BadMemory' <=> BadMemory
  BY <1>0 DEF BadMemory, BadRegion, end
<1>6. Position'
  BY <1>0, <1>5 DEF CInv, Position
<1>7. Covered'
  <2>1. \A a \in Nat : Free(a)' = Free(a) /\ Scanned(a)' = Scanned(a)
    BY <1>0 DEF Free, Scanned, Within, end
  <2>2. \A a \in Nat : (Free(a) /\ Scanned(a)) <=> \E i \in Untypeds : Within(a, slots[i])
    BY <1>0 DEF CInv, Covered
  <2>3. \A a \in Nat : (Free(a) /\ Scanned(a))' <=> \E i \in Untypeds' : Within(a, slots'[i])
    BY <1>1, <1>2, <2>1, <2>2
  <2> QED
    BY <2>3 DEF Covered
<1>8. Marked' /\ UntypedsDisjoint'
  BY <1>1, <1>2 DEF CInv, Marked, UntypedsDisjoint
<1>9. Carved' /\ ObjectsApart'
  BY <1>1, <1>2, <1>3 DEF CInv, Carved, ObjectsApart
<1>10. NoGranuleLost'
  BY <1>1, <1>2, <1>3 DEF CInv, NoGranuleLost
<1> QED
  BY <1>4, <1>6, <1>7, <1>8, <1>9, <1>10 DEF CInv

-----------------------------------------------------------------------------

\* Every step of bootstrap, retype and cap_mut preserves the invariant.
LEMMA StepKeeps ==
  ASSUME CInv, [CapNext]_capvars
  PROVE  CInv'
<1>1. CASE UNCHANGED capvars
  <2>1. UNCHANGED <<memory, reserved, slots, region, cursor, phase>>
    BY <1>1 DEF capvars
  <2>2. Untypeds' = Untypeds /\ Objs' = Objs
    BY <2>1 DEF Untypeds, Objs
  <2>3. CapTypeOK' /\ Position'
    BY <2>1, <2>2 DEF CInv, CapTypeOK, Position, BadMemory
  <2>4. Covered' /\ Marked' /\ UntypedsDisjoint'
    BY <2>1, <2>2 DEF CInv, Covered, Free, Scanned, Marked, UntypedsDisjoint
  <2>5. Carved' /\ ObjectsApart' /\ NoGranuleLost'
    BY <2>1, <2>2 DEF CInv, Carved, ObjectsApart, NoGranuleLost
  <2> QED
    BY <2>3, <2>4, <2>5 DEF CInv
<1>2. CASE populate
  BY <1>2, PopulateKeeps
<1>3. CASE push_untypeds
  BY <1>3, TurnKeeps
<1>4. CASE CapPark
  BY <1>1, <1>4 DEF CapPark
<1>5. ASSUME NEW s \in 0..CNODE_SLOTS, set_mapped(s)
      PROVE  CInv'
  BY <1>5, MappedKeeps, CapAssumption
<1>6. ASSUME NEW s \in 0..CNODE_SLOTS, NEW kind \in ObjKind, NEW prep \in BOOLEAN, retype(s, kind, prep)
      PROVE  CInv'
  <2>1. phase = "run" /\ UNCHANGED <<memory, reserved, region, cursor, phase>> /\ s \in Nat
    BY <1>6, CapAssumption DEF retype
  <2>2. CASE retype_check(s) = "ok" /\ prep
    BY <1>6, <2>1, <2>2, CommitKeeps DEF retype
  <2>3. CASE ~(retype_check(s) = "ok" /\ prep)
    <3>1. UNCHANGED slots
      BY <1>6, <2>3 DEF retype
    <3> QED
      BY <1>1, <2>1, <3>1 DEF capvars
  <2> QED
    BY <2>2, <2>3
<1> QED
  BY <1>1, <1>2, <1>3, <1>4, <1>5, <1>6 DEF CapNext

\* Before bootstrap there are no capabilities.
LEMMA InitHolds ==
  ASSUME CapInit
  PROVE  CInv
<1>1. slots = <<>> /\ Untypeds = {} /\ Objs = {}
  BY DEF CapInit, Untypeds, Objs
<1>2. CapTypeOK /\ Position /\ Covered
  BY <1>1, CapAssumption DEF CapInit, CapTypeOK, Position, Covered
<1>3. Marked /\ UntypedsDisjoint /\ Carved /\ ObjectsApart /\ NoGranuleLost
  BY <1>1 DEF Marked, UntypedsDisjoint, Carved, ObjectsApart, NoGranuleLost
<1> QED
  BY <1>2, <1>3 DEF CInv

\* The invariant holds in every reachable state.
LEMMA CapInvariant == CapSpec => []CInv
BY InitHolds, StepKeeps, PTL DEF CapSpec

-----------------------------------------------------------------------------
(* Theorems *)

\* bootstrap hands out exactly the free memory, whatever the memory map and
\* the reservations are, in any order and overlap.
THEOREM FreeMemoryHandedOut == CapSpec => []UntypedIsFreeMemory
<1>1. CInv => UntypedIsFreeMemory
  <2> SUFFICES ASSUME CInv, phase = "run", NEW a \in 0..Limit-1
               PROVE  Free(a) <=> \E i \in Untypeds : Within(a, slots[i])
    BY DEF UntypedIsFreeMemory
  <2>1. a \in Nat
    BY CapAssumption
  <2>2. (Free(a) /\ Scanned(a)) <=> \E i \in Untypeds : Within(a, slots[i])
    BY <2>1 DEF CInv, Covered
  <2>3. region = Len(memory) + 1 /\ \A k \in DOMAIN memory : k < region
    BY Regions DEF CInv, Position
  <2>4. Free(a) => Scanned(a)
    BY <2>3 DEF Free, Scanned
  <2> QED
    BY <2>2, <2>4
<1> QED
  BY <1>1, CapInvariant, PTL

\* The untypeds of the CNode never overlap: push_untypeds scans each address of
\* disjoint memory regions once.
THEOREM UntypedsNeverOverlap == CapSpec => []UntypedsDisjoint
BY CapInvariant, PTL DEF CInv

\* Objects lie in free memory, a granule each.
LEMMA ObjectsFree == CInv => ObjectsDisjoint
<1> SUFFICES ASSUME CInv
             PROVE  ObjectsDisjoint
  OBVIOUS
<1>1. ASSUME NEW i \in Objs
      PROVE  slots[i].base % G = 0 /\ \A a \in slots[i].base .. slots[i].base + G - 1 : Free(a)
  <2>1. PICK u \in Untypeds : slots[u].base <= slots[i].base /\ slots[i].base + G <= mark(slots[u])
    BY DEF CInv, Carved
  <2>2. /\ slots[i].base \in Nat /\ slots[u].base \in Nat /\ slots[u].size \in Nat /\ slots[u].used \in Nat
        /\ slots[u].used <= slots[u].size /\ G \in Nat /\ phase = "run"
    BY Slots, GranuleAssumption DEF CInv, Marked, Position
  <2>3. ASSUME NEW a \in slots[i].base .. slots[i].base + G - 1
        PROVE  Free(a)
    <3>1. a \in Nat /\ Within(a, slots[u])
      BY <2>1, <2>2 DEF Within, mark, end
    <3> QED
      BY <2>2, <3>1 DEF CInv, Covered
  <2> QED
    BY <2>3 DEF CInv, Carved
<1> QED
  BY <1>1 DEF CInv, ObjectsApart, ObjectsDisjoint

\* Objects that retype has carved are whole granules of free memory and never
\* overlap, from whichever untypeds and in whatever order they came.
THEOREM ObjectsNeverOverlap == CapSpec => []ObjectsDisjoint
BY ObjectsFree, CapInvariant, PTL

\* retype skips no granule of an untyped.
THEOREM GranulesAccountedFor == CapSpec => []NoGranuleLost
BY CapInvariant, PTL DEF CInv

\* After the boot a capability is never removed or replaced, untypeds are only
\* consumed upwards, and the CNode never outgrows its slots.
THEOREM CapabilitiesPersist == CapSpec => CapsPersist
<1> DEFINE Kept == /\ Len(slots') <= CNODE_SLOTS
                   /\ phase = "run" =>
                      /\ Len(slots) <= Len(slots')
                      /\ \A i \in DOMAIN slots :
                           CASE i \in Untypeds -> \E n \in slots[i].used .. slots[i].size : slots'[i] = [slots[i] EXCEPT !.used = n]
                             [] i \in Objs -> slots'[i] \in {slots[i], [slots[i] EXCEPT !.mapped = TRUE]}
                             [] OTHER -> slots'[i] = slots[i]
<1>1. ASSUME CInv, CInv', CapNext
      PROVE  Kept
  <2>0. CapTypeOK /\ Len(slots') <= CNODE_SLOTS /\ Len(slots) \in Nat
    BY <1>1, Slots DEF CInv, CapTypeOK
  <2>1. CASE phase # "run"
    BY <2>0, <2>1
  <2>2. ASSUME UNCHANGED slots
        PROVE  Kept
    <3>1. ASSUME NEW i \in Untypeds
          PROVE  \E n \in slots[i].used .. slots[i].size : slots'[i] = [slots[i] EXCEPT !.used = n]
      <4>1. /\ slots[i] \in [type : {"Untyped"}, base : Nat, size : Nat, used : Nat]
            /\ slots[i].used <= slots[i].size
        BY <1>1, <2>0, Slots DEF CInv, Marked
      <4>2. slots[i].used \in slots[i].used .. slots[i].size /\ slots[i] = [slots[i] EXCEPT !.used = slots[i].used]
        BY <4>1
      <4> QED
        BY <2>2, <4>2
    <3>2. \A i \in DOMAIN slots : slots'[i] = slots[i]
      BY <2>2
    <3>3. Len(slots) <= Len(slots')
      BY <2>0, <2>2
    <3> QED
      BY <2>0, <3>1, <3>2, <3>3, SlotSets
  <2>3. ASSUME phase = "run", NEW s \in Nat, NEW kind \in ObjKind, retype_check(s) = "ok", commit(s, kind)
        PROVE  Kept
    <3> DEFINE x == s + 1
               u == slots[x]
               n == carve(u) + G - u.base
    <3>1. /\ x \in Untypeds /\ Len(slots') = Len(slots) + 1
          /\ \A i \in DOMAIN slots \ {x} : slots'[i] = slots[i]
          /\ slots'[x] = [u EXCEPT !.used = n]
      BY <2>0, <2>3, Committed
    <3>2. u \in [type : {"Untyped"}, base : Nat, size : Nat, used : Nat] /\ ~Exhausted(u)
      BY <2>0, <2>3, <3>1, Slots, Checked
    <3>3. n \in u.used .. u.size
      <4>1. u.base \in Nat /\ u.size \in Nat /\ u.used \in Nat /\ G \in Nat
        BY <3>2, GranuleAssumption
      <4>2. /\ carve(u) \in Nat /\ u.base + u.used <= carve(u) /\ carve(u) + G <= u.base + u.size
        BY <3>2, CarvedGranule DEF end
      <4> QED
        BY <4>1, <4>2
    <3>4. ASSUME NEW i \in Untypeds
          PROVE  \E m \in slots[i].used .. slots[i].size : slots'[i] = [slots[i] EXCEPT !.used = m]
      <4>1. CASE i = x
        BY <3>1, <3>3, <4>1
      <4>2. CASE i # x
        <5>1. /\ slots[i] \in [type : {"Untyped"}, base : Nat, size : Nat, used : Nat]
              /\ slots[i].used <= slots[i].size
          BY <1>1, <2>0, Slots DEF CInv, Marked
        <5>2. slots[i].used \in slots[i].used .. slots[i].size /\ slots[i] = [slots[i] EXCEPT !.used = slots[i].used]
          BY <5>1
        <5>3. slots'[i] = slots[i]
          BY <3>1, <4>2, SlotSets
        <5> QED
          BY <5>2, <5>3
      <4> QED
        BY <4>1, <4>2
    <3>5. \A i \in DOMAIN slots : i \notin Untypeds => slots'[i] = slots[i]
      BY <3>1
    <3>6. Len(slots) <= Len(slots')
      BY <2>0, <3>1
    <3> HIDE DEF x, u, n
    <3> QED
      BY <2>0, <3>4, <3>5, <3>6, SlotSets
  <2>4. ASSUME NEW s \in Nat, set_mapped(s)
        PROVE  Kept
    <3>1. /\ Len(slots') = Len(slots) /\ s + 1 \in Objs
          /\ slots'[s + 1] = [slots[s + 1] EXCEPT !.mapped = TRUE]
          /\ \A i \in DOMAIN slots \ {s + 1} : slots'[i] = slots[i]
      BY <2>0, <2>4, MappedSlots
    <3>2. ASSUME NEW i \in Untypeds
          PROVE  \E m \in slots[i].used .. slots[i].size : slots'[i] = [slots[i] EXCEPT !.used = m]
      <4>1. /\ slots[i] \in [type : {"Untyped"}, base : Nat, size : Nat, used : Nat]
            /\ slots[i].used <= slots[i].size
        BY <1>1, <2>0, Slots DEF CInv, Marked
      <4>2. slots[i].used \in slots[i].used .. slots[i].size /\ slots[i] = [slots[i] EXCEPT !.used = slots[i].used]
        BY <4>1
      <4>3. slots'[i] = slots[i]
        BY <3>1, SlotSets
      <4> QED
        BY <4>2, <4>3
    <3>3. \A i \in Objs : slots'[i] \in {slots[i], [slots[i] EXCEPT !.mapped = TRUE]}
      BY <3>1, SlotSets
    <3>4. \A i \in DOMAIN slots : i \notin Objs => slots'[i] = slots[i]
      BY <3>1
    <3>5. Len(slots) <= Len(slots')
      BY <2>0, <3>1
    <3> QED
      BY <2>0, <3>2, <3>3, <3>4, <3>5
  <2> HIDE DEF Kept
  <2>5. CASE populate \/ push_untypeds
    BY <2>1, <2>5 DEF populate, push_untypeds
  <2>6. CASE CapPark
    BY <2>2, <2>6 DEF CapPark, capvars
  <2>7. ASSUME NEW s \in 0..CNODE_SLOTS, NEW kind \in ObjKind, NEW prep \in BOOLEAN, retype(s, kind, prep)
        PROVE  Kept
    <3>1. s \in Nat /\ phase = "run"
      BY <2>7, CapAssumption DEF retype
    <3>2. CASE retype_check(s) = "ok" /\ prep
      <4>1. commit(s, kind)
        BY <2>7, <3>2 DEF retype
      <4> QED
        BY <2>3, <3>1, <3>2, <4>1
    <3>3. CASE ~(retype_check(s) = "ok" /\ prep)
      BY <2>2, <2>7, <3>3 DEF retype
    <3> QED
      BY <3>2, <3>3
  <2>8. ASSUME NEW s \in 0..CNODE_SLOTS, set_mapped(s)
        PROVE  Kept
    <3>1. s \in Nat
      BY CapAssumption
    <3> QED
      BY <2>4, <2>8, <3>1
  <2> QED
    BY <1>1, <2>5, <2>6, <2>7, <2>8 DEF CapNext
<1>2. CInv /\ CInv' /\ [CapNext]_capvars => [Kept]_capvars
  BY <1>1
<1> HIDE DEF Kept
<1>3. CapSpec => [][Kept]_capvars
  BY <1>2, CapInvariant, PTL DEF CapSpec
<1> QED
  BY <1>3 DEF CapsPersist, Kept
=============================================================================
