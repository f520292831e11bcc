-------------------------- MODULE PageTablesProofs --------------------------
(***************************************************************************)
(* What the walkers of PageTables do to a tree of tables, for any number   *)
(* of entries a table and any tables. A level is assigned to every table in *)
(* use (lev); the tree invariant says that an entry leads one level down,   *)
(* that no table is linked twice, and so that a page is reached at one      *)
(* address only. UserSpace, which spawn_root builds the root task's tables  *)
(* with, carves such a tree out of the frames of the boot window.           *)
(***************************************************************************)
EXTENDS PageTables, WellFoundedInduction, TLAPS

PagePerms == {"text", "ro", "rw", "device", "RO", "RW"}
PTE == [to : Nat, perm : PagePerms \cup {"invalid", "junk", "table"}]
Table == [0..Fan-1 -> PTE]

\* tabs holds a tree below each of the roots, of the tables in DOMAIN lev.
Tree(tabs, lev, roots) ==
  /\ tabs \in [DOMAIN tabs -> Table]
  /\ DOMAIN lev \subseteq DOMAIN tabs /\ lev \in [DOMAIN lev -> 0..3]
  /\ roots \subseteq DOMAIN lev /\ \A t \in DOMAIN lev : lev[t] = 0 <=> t \in roots
  /\ \A t \in DOMAIN lev, i \in 0..Fan-1 : tabs[t][i] # Null =>
       IF lev[t] = 3 THEN tabs[t][i].perm \in PagePerms
       ELSE /\ tabs[t][i].perm = "table"
            /\ tabs[t][i].to \in DOMAIN lev
            /\ lev[tabs[t][i].to] = lev[t] + 1
  /\ \A t, u \in DOMAIN lev, i, j \in 0..Fan-1 :
       lev[t] # 3 /\ lev[u] # 3 /\ tabs[t][i] # Null /\ tabs[t][i] = tabs[u][j] => t = u /\ i = j

\* The entry that leads to level k on the way to va; a page for k = 4.
Hop(tabs, root, va, k) ==
  CASE k = 0 -> Entry(root, "table")
    [] k = 1 -> Look(tabs, Entry(root, "table"), va, 0)
    [] k = 2 -> Look(tabs, Look(tabs, Entry(root, "table"), va, 0), va, 1)
    [] k = 3 -> Look(tabs, Look(tabs, Look(tabs, Entry(root, "table"), va, 0), va, 1), va, 2)
    [] k = 4 -> Translate(tabs, root, va)

-----------------------------------------------------------------------------
(* Addresses *)

\* The quotient is the number with this property.
LEMMA DivUnique ==
  ASSUME NEW F \in Nat, F > 0, NEW a \in Nat, NEW q \in Nat, F * q <= a, a < F * q + F
  PROVE  a \div F = q
<1> DEFINE d == a \div F
<1>1. d \in Nat /\ F * d <= a /\ a < F * d + F
  OBVIOUS
<1> HIDE DEF d
<1>2. ASSUME NEW x \in Nat, NEW y \in Nat, x < y
      PROVE  F * x + F <= F * y
  <2>1. PICK k \in Nat : y = x + 1 + k
    <3>1. y - x - 1 \in Nat /\ y = x + 1 + (y - x - 1)
      BY <1>2
    <3> QED
      BY <3>1, Zenon
  <2>2. F * y = F * x + F + F * k
    BY <2>1
  <2>3. F * k \in Nat /\ F * x \in Nat
    BY <2>1
  <2> QED
    BY <2>2, <2>3
<1>3. ~(d < q) /\ ~(q < d)
  <2>1. F * d \in Nat /\ F * q \in Nat
    BY <1>1
  <2>2. d < q => F * d + F <= F * q
    BY <1>1, <1>2
  <2>3. q < d => F * q + F <= F * d
    BY <1>1, <1>2
  <2> QED
    BY <1>1, <2>1, <2>2, <2>3
<1> QED
  BY <1>1, <1>3 DEF d

\* Two shifts are one.
LEMMA DivDiv ==
  ASSUME NEW b \in Nat, b > 0, NEW c \in Nat, c > 0, NEW a \in Nat
  PROVE  a \div (b * c) = (a \div b) \div c
<1> DEFINE p == a \div b
           q == p \div c
<1>1. p \in Nat /\ b * p <= a /\ a < b * p + b
  OBVIOUS
<1> HIDE DEF p
<1>2. q \in Nat /\ c * q <= p /\ p < c * q + c
  BY <1>1
<1> HIDE DEF q
<1>3. PICK k \in Nat : p = c * q + k /\ k + 1 <= c
  <2>1. c * q \in Nat
    BY <1>2
  <2>2. p - c * q \in Nat /\ p = c * q + (p - c * q) /\ (p - c * q) + 1 <= c
    BY <1>1, <1>2, <2>1
  <2> QED
    BY <2>2, Zenon
<1>4. PICK j \in Nat : c = k + 1 + j
  <2>1. c - (k + 1) \in Nat /\ c = k + 1 + (c - (k + 1))
    BY <1>3
  <2> QED
    BY <2>1, Zenon
<1>5. b * p = (b * c) * q + b * k
  BY <1>1, <1>2, <1>3
<1>6. b * c = b * k + b + b * j
  BY <1>3, <1>4
<1>7. b * k \in Nat /\ b * j \in Nat /\ b * c \in Nat /\ (b * c) * q \in Nat /\ b * p \in Nat
  BY <1>1, <1>2, <1>3, <1>4
<1>8. (b * c) * q <= a /\ a < (b * c) * q + b * c /\ b * c > 0
  BY <1>1, <1>5, <1>6, <1>7
<1>9. a \div (b * c) = q
  <2> DEFINE F == b * c
  <2> HIDE DEF F
  <2> SUFFICES a \div F = q
    BY DEF F
  <2>1. F \in Nat /\ F > 0 /\ F * q <= a /\ a < F * q + F
    BY <1>7, <1>8 DEF F
  <2> QED
    BY <1>2, <2>1, DivUnique
<1> QED
  BY <1>9 DEF p, q

\* The indices are the digits of the page's number.
LEMMA IndexDigits ==
  ASSUME NEW va \in Nat
  PROVE  /\ index(va, 3) = (va \div G) % Fan
         /\ index(va, 2) = ((va \div G) \div Fan) % Fan
         /\ index(va, 1) = (((va \div G) \div Fan) \div Fan) % Fan
         /\ index(va, 0) = ((((va \div G) \div Fan) \div Fan) \div Fan) % Fan0
<1> DEFINE w2 == G * Fan
           w1 == w2 * Fan
           w0 == w1 * Fan
<1>1. Fan \in Nat /\ Fan > 0 /\ G \in Nat /\ G > 0
  BY TableAssumption, GranuleAssumption
<1>2. \A x, y \in Nat : x > 0 /\ y > 0 => x * y \in Nat /\ x * y > 0
  OBVIOUS
<1>3. w2 \in Nat /\ w2 > 0
  BY <1>1, <1>2
<1>4. w1 \in Nat /\ w1 > 0
  <2> HIDE DEF w2
  <2> QED
    BY <1>1, <1>2, <1>3
<1>5. Widths[0+1] = w0 /\ Widths[1+1] = w1 /\ Widths[2+1] = w2 /\ Widths[3+1] = G
  <2>1. w0 = G * Fan * Fan * Fan /\ w1 = G * Fan * Fan /\ w2 = G * Fan
    OBVIOUS
  <2> HIDE DEF w0, w1, w2
  <2> QED
    BY <2>1 DEF Widths
<1>6. va \div w2 = (va \div G) \div Fan
  BY <1>1, DivDiv
<1> HIDE DEF w2
<1>7. va \div w1 = (va \div w2) \div Fan
  BY <1>1, <1>3, DivDiv
<1> HIDE DEF w1
<1>8. va \div w0 = (va \div w1) \div Fan
  BY <1>1, <1>4, DivDiv
<1> HIDE DEF w0
<1> QED
  BY <1>5, <1>6, <1>7, <1>8 DEF index

\* An index is one of a table's.
LEMMA IndexType ==
  ASSUME NEW va \in Nat, NEW level \in 0..3
  PROVE  index(va, level) \in 0..Fan-1
<1>1. Fan \in Nat /\ Fan > 0 /\ G \in Nat /\ G > 0
  BY TableAssumption, GranuleAssumption
<1>2. \A a \in Nat, b \in Nat : b > 0 => a \div b \in Nat
  OBVIOUS
<1>3. \A a \in Nat : a % Fan \in 0..Fan-1 /\ a % Fan0 \in 0..Fan-1
  BY <1>1, TableAssumption
<1> DEFINE p == va \div G
           q == p \div Fan
           r == q \div Fan
           s == r \div Fan
<1>4. p \in Nat /\ q \in Nat /\ r \in Nat /\ s \in Nat
  BY <1>1, <1>2
<1>5. index(va, 3) = p % Fan /\ index(va, 2) = q % Fan /\ index(va, 1) = r % Fan /\ index(va, 0) = s % Fan0
  BY IndexDigits
<1>6. level = 0 \/ level = 1 \/ level = 2 \/ level = 3
  OBVIOUS
<1> HIDE DEF p, q, r, s
<1> QED
  BY <1>3, <1>4, <1>5, <1>6

\* Where something happens at some number, there is a first.
LEMMA FirstOne ==
  ASSUME NEW T \in SUBSET Nat, T # {}
  PROVE  \E x \in T : \A y \in T : x <= y
<1> DEFINE L == OpToRel(<, Nat)
<1>1. L = {p \in Nat \X Nat : p[1] < p[2]}
  BY DEF OpToRel
<1>2. \E x \in T : \A y \in T : <<y, x>> \notin L
  <2>1. IsWellFoundedOn(L, Nat)
    BY NatLessThanWellFounded, Zenon
  <2> HIDE DEF L
  <2> QED
    BY <2>1, WFMin, Zenon
<1> HIDE DEF L
<1>3. \A x, y \in Nat : y < x => <<y, x>> \in L
  BY <1>1
<1>4. PICK x \in T : \A y \in T : <<y, x>> \notin L
  BY <1>2
<1>5. \A y \in T : ~(y < x)
  BY <1>3, <1>4, Zenon
<1> QED
  BY <1>5

\* A number is its quotient and its remainder.
LEMMA SameDigits ==
  ASSUME NEW F \in Nat, F > 0, NEW a \in Nat, NEW b \in Nat, a \div F = b \div F, a % F = b % F
  PROVE  a = b
<1>1. a = F * (a \div F) + (a % F) /\ b = F * (b \div F) + (b % F)
  OBVIOUS
<1> QED
  BY <1>1

\* A quotient is in proportion.
LEMMA DivBound ==
  ASSUME NEW F \in Nat, F > 0, NEW c \in Nat, NEW a \in Nat, a < c * F
  PROVE  a \div F \in Nat /\ a \div F < c
<1> DEFINE q == a \div F
<1>1. q \in Nat /\ F * q <= a
  OBVIOUS
<1> HIDE DEF q
<1>2. c <= q => c * F <= F * q
  <2> SUFFICES ASSUME c <= q
               PROVE  c * F <= F * q
    OBVIOUS
  <2>1. PICK d \in Nat : q = c + d
    <3>1. q - c \in Nat /\ q = c + (q - c)
      BY <1>1
    <3> QED
      BY <3>1, Zenon
  <2>2. F * q = c * F + F * d
    BY <2>1
  <2>3. F * d \in Nat /\ c * F \in Nat
    BY <2>1
  <2> QED
    BY <2>2, <2>3
<1>3. q < c
  BY <1>1, <1>2
<1> QED
  BY <1>1, <1>3 DEF q

\* A page has four indices, and they determine it.
LEMMA PageIndices ==
  ASSUME NEW va \in Pages, NEW vb \in Pages,
         \A k \in 0..3 : index(va, k) = index(vb, k)
  PROVE  va = vb
<1>0. Fan \in Nat /\ Fan > 0 /\ Fan0 \in Nat /\ Fan0 > 0 /\ G \in Nat /\ G > 0
  BY TableAssumption, GranuleAssumption
<1>00. Span \in Nat
  BY <1>0 DEF Span
<1>1. PICK p \in Nat : va = p * G /\ p < Span
  BY <1>00 DEF Pages
<1>2. PICK q \in Nat : vb = q * G /\ q < Span
  BY <1>00 DEF Pages
<1>3. \A a \in Nat : (a * G) \div G = a
  BY <1>0
<1>4. va \div G = p /\ vb \div G = q
  BY <1>1, <1>2, <1>3
<1> DEFINE p1 == p \div Fan
           p2 == p1 \div Fan
           p3 == p2 \div Fan
           q1 == q \div Fan
           q2 == q1 \div Fan
           q3 == q2 \div Fan
<1>45. va \in Nat /\ vb \in Nat
  BY <1>0, <1>1, <1>2
<1>5. index(va, 3) = p % Fan /\ index(va, 2) = p1 % Fan /\ index(va, 1) = p2 % Fan /\ index(va, 0) = p3 % Fan0
  BY <1>4, <1>45, IndexDigits, Zenon
<1>6. index(vb, 3) = q % Fan /\ index(vb, 2) = q1 % Fan /\ index(vb, 1) = q2 % Fan /\ index(vb, 0) = q3 % Fan0
  BY <1>4, <1>45, IndexDigits, Zenon
<1>7. /\ p % Fan = q % Fan /\ p1 % Fan = q1 % Fan /\ p2 % Fan = q2 % Fan /\ p3 % Fan0 = q3 % Fan0
  <2> HIDE DEF p1, p2, p3, q1, q2, q3
  <2> QED
    BY <1>5, <1>6
<1>8. ASSUME NEW x \in Nat, x < Span
      PROVE  /\ x \div Fan \in Nat /\ (x \div Fan) \div Fan \in Nat
             /\ ((x \div Fan) \div Fan) \div Fan \in Nat
             /\ ((x \div Fan) \div Fan) \div Fan < Fan0
  <2>1. x < (Fan0 * Fan * Fan) * Fan /\ Fan0 * Fan * Fan \in Nat
    BY <1>0, <1>8 DEF Span
  <2>2. x \div Fan \in Nat /\ x \div Fan < Fan0 * Fan * Fan
    BY <1>0, <2>1, DivBound
  <2>3. x \div Fan < (Fan0 * Fan) * Fan /\ Fan0 * Fan \in Nat
    BY <1>0, <2>2
  <2>4. (x \div Fan) \div Fan \in Nat /\ (x \div Fan) \div Fan < Fan0 * Fan
    BY <1>0, <2>2, <2>3, DivBound
  <2> QED
    BY <1>0, <2>2, <2>4, DivBound
<1>9. p1 \in Nat /\ p2 \in Nat /\ p3 \in Nat /\ p3 < Fan0
  BY <1>1, <1>8
<1>10. q1 \in Nat /\ q2 \in Nat /\ q3 \in Nat /\ q3 < Fan0
  BY <1>2, <1>8
<1>11. \A a \in Nat : a < Fan0 => a % Fan0 = a
  BY <1>0
<1>12. p3 = q3
  <2> HIDE DEF p3, q3
  <2> QED
    BY <1>7, <1>9, <1>10, <1>11
<1>13. p2 = q2
  BY <1>0, <1>7, <1>9, <1>10, <1>12, SameDigits
<1>14. p1 = q1
  BY <1>0, <1>7, <1>9, <1>10, <1>13, SameDigits
<1>15. p = q
  BY <1>0, <1>1, <1>2, <1>7, <1>14, SameDigits
<1> QED
  BY <1>1, <1>2, <1>15

-----------------------------------------------------------------------------
(* Walks *)

\* Each level of a walk looks into the table that the one before led to.
LEMMA HopStep ==
  ASSUME NEW tabs, NEW root, NEW va
  PROVE  /\ Hop(tabs, root, va, 0) = Entry(root, "table")
         /\ \A k \in 0..3 : Hop(tabs, root, va, k + 1) = Look(tabs, Hop(tabs, root, va, k), va, k)
         /\ Hop(tabs, root, va, 4) = Translate(tabs, root, va)
<1>1. /\ Hop(tabs, root, va, 0) = Entry(root, "table")
      /\ Hop(tabs, root, va, 1) = Look(tabs, Entry(root, "table"), va, 0)
      /\ Hop(tabs, root, va, 2) = Look(tabs, Look(tabs, Entry(root, "table"), va, 0), va, 1)
      /\ Hop(tabs, root, va, 3) = Look(tabs, Look(tabs, Look(tabs, Entry(root, "table"), va, 0), va, 1), va, 2)
      /\ Hop(tabs, root, va, 4) = Translate(tabs, root, va)
  BY DEF Hop
<1>2. Hop(tabs, root, va, 4) = Look(tabs, Hop(tabs, root, va, 3), va, 3)
  BY <1>1 DEF Translate
<1>3. ASSUME NEW k \in 0..3
      PROVE  Hop(tabs, root, va, k + 1) = Look(tabs, Hop(tabs, root, va, k), va, k)
  <2>1. k = 0 \/ k = 1 \/ k = 2 \/ k = 3
    OBVIOUS
  <2> QED
    BY <1>1, <1>2, <2>1
<1> QED
  BY <1>1, <1>3

\* An entry is what it was made of.
LEMMA EntryParts ==
  /\ \A pa, perm : Entry(pa, perm).to = pa /\ Entry(pa, perm).perm = perm
  /\ \A pa, perm : perm # "invalid" => Entry(pa, perm) # Null
  /\ \A e \in PTE : e = Entry(e.to, e.perm)
  /\ Null \in PTE /\ Null.perm = "invalid"
  /\ ZeroTable \in Table /\ JunkTable \in Table
  /\ \A i \in 0..Fan-1 : ZeroTable[i] = Null /\ JunkTable[i] = Junk
  /\ Junk # Null /\ Junk.perm = "junk"
BY DEF Entry, Null, PTE, ZeroTable, JunkTable, Junk, Table

\* A walk follows an entry that links a table.
LEMMA HopTable ==
  ASSUME NEW tabs, NEW root, NEW va, NEW k \in 0..2, NEW t, Hop(tabs, root, va, k) = Entry(t, "table"),
         NEW e \in PTE, e = tabs[t][index(va, k)], e.perm = "table"
  PROVE  Hop(tabs, root, va, k + 1) = Entry(e.to, "table")
<1>1. k \in 0..3
  OBVIOUS
<1>2. Hop(tabs, root, va, k + 1) = Look(tabs, Entry(t, "table"), va, k)
  BY <1>1, HopStep
<1>3. Entry(t, "table") # Null /\ Entry(t, "table").to = t
  BY EntryParts
<1>4. Hop(tabs, root, va, k + 1) = e
  BY <1>2, <1>3, Zenon DEF Look
<1> QED
  BY <1>4, EntryParts, Zenon

\* In a tree, a walk is at a table of level k or has ended.
LEMMA HopLevel ==
  ASSUME NEW tabs, NEW lev, NEW roots, Tree(tabs, lev, roots), NEW root \in roots, NEW va \in Nat
  PROVE  /\ \A k \in 0..3 : LET e == Hop(tabs, root, va, k) IN
              e # Null => /\ e = Entry(e.to, "table")
                          /\ e.to \in DOMAIN lev /\ lev[e.to] = k
         /\ LET e == Translate(tabs, root, va) IN
              e # Null => e \in PTE /\ e.perm \in PagePerms
<1> DEFINE e(k) == Hop(tabs, root, va, k)
           P(k) == e(k) # Null => /\ e(k) = Entry(e(k).to, "table")
                                  /\ e(k).to \in DOMAIN lev /\ lev[e(k).to] = k
<1>1. P(0)
  BY HopStep, EntryParts DEF Tree
<1>2. ASSUME NEW k \in 0..3, P(k), e(k + 1) # Null
      PROVE  /\ e(k) # Null /\ e(k).to \in DOMAIN lev /\ lev[e(k).to] = k
             /\ e(k + 1) = tabs[e(k).to][index(va, k)]
             /\ e(k + 1) \in PTE /\ index(va, k) \in 0..Fan-1
  <2>1. e(k + 1) = Look(tabs, e(k), va, k)
    BY HopStep
  <2>2. e(k) # Null /\ e(k + 1) = tabs[e(k).to][index(va, k)]
    BY <1>2, <2>1 DEF Look
  <2>3. e(k).to \in DOMAIN lev /\ lev[e(k).to] = k
    BY <1>2, <2>2
  <2>4. tabs[e(k).to] \in Table /\ index(va, k) \in 0..Fan-1
    BY <2>3, IndexType DEF Tree
  <2> HIDE DEF e
  <2> QED
    BY <2>2, <2>3, <2>4, Zenon DEF Table
<1> HIDE DEF e
<1>3. ASSUME NEW k \in 0..2, P(k)
      PROVE  P(k + 1)
  <2> SUFFICES ASSUME e(k + 1) # Null
               PROVE  /\ e(k + 1) = Entry(e(k + 1).to, "table")
                      /\ e(k + 1).to \in DOMAIN lev /\ lev[e(k + 1).to] = k + 1
    OBVIOUS
  <2>0. k \in 0..3 /\ k # 3
    OBVIOUS
  <2>1. /\ e(k).to \in DOMAIN lev /\ lev[e(k).to] = k
        /\ e(k + 1) = tabs[e(k).to][index(va, k)]
        /\ e(k + 1) \in PTE /\ index(va, k) \in 0..Fan-1
    BY <1>2, <1>3, <2>0
  <2>2. /\ e(k + 1).perm = "table" /\ e(k + 1).to \in DOMAIN lev /\ lev[e(k + 1).to] = k + 1
    BY <2>0, <2>1 DEF Tree
  <2> QED
    BY <2>1, <2>2, EntryParts
<1>4. P(1) /\ P(2) /\ P(3)
  <2>1. P(0 + 1)
    BY <1>1, <1>3
  <2>2. P(1 + 1)
    BY <1>3, <2>1
  <2>3. P(2 + 1)
    BY <1>3, <2>2
  <2> QED
    BY <2>1, <2>2, <2>3
<1>5. e(4) # Null => e(4) \in PTE /\ e(4).perm \in PagePerms
  <2> SUFFICES ASSUME e(4) # Null
               PROVE  e(4) \in PTE /\ e(4).perm \in PagePerms
    OBVIOUS
  <2>1. /\ e(3).to \in DOMAIN lev /\ lev[e(3).to] = 3
        /\ e(3 + 1) = tabs[e(3).to][index(va, 3)]
        /\ e(3 + 1) \in PTE /\ index(va, 3) \in 0..Fan-1
    BY <1>2, <1>4
  <2> QED
    BY <2>1 DEF Tree
<1>6. \A k \in 0..3 : P(k)
  <2>1. \A k \in 0..3 : k = 0 \/ k = 1 \/ k = 2 \/ k = 3
    OBVIOUS
  <2> HIDE DEF P
  <2> QED
    BY <1>1, <1>4, <2>1
<1>7. e(4) = Translate(tabs, root, va)
  BY HopStep DEF e
<1> QED
  BY <1>5, <1>6, <1>7 DEF e

\* Two walks that come to the same table came the same way.
LEMMA HopOnce ==
  ASSUME NEW tabs, NEW lev, NEW roots, Tree(tabs, lev, roots),
         NEW r \in roots, NEW s \in roots, NEW va \in Nat, NEW vb \in Nat,
         Hop(tabs, r, va, 3) # Null, Hop(tabs, r, va, 3) = Hop(tabs, s, vb, 3)
  PROVE  r = s /\ \A k \in 0..2 : index(va, k) = index(vb, k)
<1> DEFINE e(k) == Hop(tabs, r, va, k)
           f(k) == Hop(tabs, s, vb, k)
<1>1. ASSUME NEW k \in 0..2, e(k + 1) # Null, e(k + 1) = f(k + 1)
      PROVE  e(k) # Null /\ e(k) = f(k) /\ index(va, k) = index(vb, k)
  <2>0. k \in 0..3 /\ k # 3
    OBVIOUS
  <2>1. e(k + 1) = Look(tabs, e(k), va, k) /\ f(k + 1) = Look(tabs, f(k), vb, k)
    BY <2>0, HopStep
  <2>2. /\ e(k) # Null /\ e(k + 1) = tabs[e(k).to][index(va, k)]
        /\ f(k) # Null /\ f(k + 1) = tabs[f(k).to][index(vb, k)]
    BY <1>1, <2>1 DEF Look
  <2>3. /\ e(k) = Entry(e(k).to, "table") /\ e(k).to \in DOMAIN lev /\ lev[e(k).to] = k
        /\ f(k) = Entry(f(k).to, "table") /\ f(k).to \in DOMAIN lev /\ lev[f(k).to] = k
    BY <2>0, <2>2, HopLevel
  <2>4. index(va, k) \in 0..Fan-1 /\ index(vb, k) \in 0..Fan-1
    BY <2>0, IndexType
  <2> HIDE DEF e, f
  <2>5. e(k).to = f(k).to /\ index(va, k) = index(vb, k)
    BY <1>1, <2>0, <2>2, <2>3, <2>4 DEF Tree
  <2> QED
    BY <2>2, <2>3, <2>5
<1> HIDE DEF e, f
<1>2. e(2 + 1) # Null /\ e(2 + 1) = f(2 + 1)
  BY DEF e, f
<1>3. e(1 + 1) # Null /\ e(1 + 1) = f(1 + 1) /\ index(va, 2) = index(vb, 2)
  BY <1>1, <1>2
<1>4. e(0 + 1) # Null /\ e(0 + 1) = f(0 + 1) /\ index(va, 1) = index(vb, 1)
  BY <1>1, <1>3
<1>5. e(0) = f(0) /\ index(va, 0) = index(vb, 0)
  BY <1>1, <1>4
<1>6. r = s
  BY <1>5, HopStep, EntryParts DEF e, f
<1>7. \A k \in 0..2 : k = 0 \/ k = 1 \/ k = 2
  OBVIOUS
<1> QED
  BY <1>3, <1>4, <1>5, <1>6, <1>7

-----------------------------------------------------------------------------
(* Changes to a tree *)

\* An entry above the last level leads to a table one level down.
LEMMA TreeDown ==
  ASSUME NEW tabs, NEW lev, NEW roots, Tree(tabs, lev, roots),
         NEW t \in DOMAIN lev, NEW i \in 0..Fan-1, tabs[t][i] # Null, lev[t] # 3
  PROVE  /\ tabs[t][i] \in PTE /\ tabs[t][i].perm = "table"
         /\ tabs[t][i].to \in DOMAIN lev /\ lev[tabs[t][i].to] = lev[t] + 1
<1>1. tabs[t] \in Table
  BY Zenon DEF Tree
<1>2. tabs[t][i] \in PTE
  BY <1>1, Zenon DEF Table
<1> QED
  BY <1>2, Zenon DEF Tree

\* The tree and its walks are the same in tabs2 as in tabs.
SameWalks(tabs, lev, roots, tabs2) ==
  /\ Tree(tabs2, lev, roots)
  /\ \A r \in roots, va \in Nat : /\ \A k \in 0..3 : Hop(tabs2, r, va, k) = Hop(tabs, r, va, k)
                                  /\ Translate(tabs2, r, va) = Translate(tabs, r, va)

\* What is written outside the tree changes neither it nor any walk.
LEMMA TreeElsewhere ==
  ASSUME NEW tabs, NEW lev, NEW roots, Tree(tabs, lev, roots), NEW tabs2,
         tabs2 \in [DOMAIN tabs -> Table], \A t \in DOMAIN lev : tabs2[t] = tabs[t]
  PROVE  SameWalks(tabs, lev, roots, tabs2)
<1>1. DOMAIN tabs2 = DOMAIN tabs
  OBVIOUS
<1>2. Tree(tabs2, lev, roots)
  BY <1>1 DEF Tree
<1> SUFFICES ASSUME NEW r \in roots, NEW va \in Nat
             PROVE  /\ \A k \in 0..3 : Hop(tabs2, r, va, k) = Hop(tabs, r, va, k)
                    /\ Translate(tabs2, r, va) = Translate(tabs, r, va)
  BY <1>2, Zenon DEF SameWalks
<1> DEFINE P(k) == Hop(tabs2, r, va, k) = Hop(tabs, r, va, k)
<1>3. P(0)
  BY HopStep
<1>4. ASSUME NEW k \in 0..3, P(k)
      PROVE  P(k + 1)
  <2>1. /\ Hop(tabs, r, va, k + 1) = Look(tabs, Hop(tabs, r, va, k), va, k)
        /\ Hop(tabs2, r, va, k + 1) = Look(tabs2, Hop(tabs, r, va, k), va, k)
    BY <1>4, HopStep
  <2>2. Hop(tabs, r, va, k) # Null => Hop(tabs, r, va, k).to \in DOMAIN lev
    BY HopLevel
  <2> QED
    BY <2>1, <2>2 DEF Look
<1> HIDE DEF P
<1>5. P(0 + 1)
  BY <1>3, <1>4
<1>6. P(1 + 1)
  BY <1>4, <1>5
<1>7. P(2 + 1)
  BY <1>4, <1>6
<1>8. P(3 + 1)
  BY <1>4, <1>7
<1>9. \A k \in 0..3 : k = 0 \/ k = 1 \/ k = 2 \/ k = 3
  OBVIOUS
<1>10. \A k \in 0..3 : P(k)
  BY <1>3, <1>5, <1>6, <1>7, <1>9
<1> QED
  BY <1>8, <1>10, HopStep DEF P

\* What the tables hold after an entry is written.
LEMMA PutParts ==
  ASSUME NEW D, NEW tabs \in [D -> Table], NEW t \in D, NEW i \in 0..Fan-1, NEW e \in PTE
  PROVE  /\ Put(tabs, t, i, e) \in [D -> Table] /\ Put(tabs, t, i, e)[t][i] = e
         /\ \A u \in D : u # t => Put(tabs, t, i, e)[u] = tabs[u]
         /\ \A u \in D, j \in 0..Fan-1 : ~(u = t /\ j = i) => Put(tabs, t, i, e)[u][j] = tabs[u][j]
<1> DEFINE tabs2 == Put(tabs, t, i, e)
<1>1. tabs[t] \in Table /\ tabs2 = [tabs EXCEPT ![t] = [tabs[t] EXCEPT ![i] = e]]
  BY DEF Put
<1>2. /\ [tabs[t] EXCEPT ![i] = e] \in Table
      /\ \A j \in 0..Fan-1 : [tabs[t] EXCEPT ![i] = e][j] = IF j = i THEN e ELSE tabs[t][j]
  BY <1>1 DEF Table
<1> HIDE DEF tabs2
<1>3. /\ tabs2 \in [D -> Table] /\ tabs2[t][i] = e
      /\ \A u \in D : u # t => tabs2[u] = tabs[u]
      /\ \A u \in D, j \in 0..Fan-1 : ~(u = t /\ j = i) => tabs2[u][j] = tabs[u][j]
  BY <1>1, <1>2
<1> QED
  BY <1>3 DEF tabs2

\* The tables in D after a write to table t.
Stored(D, tabs, t, tabs2) ==
  /\ tabs2 \in [D -> Table] /\ DOMAIN tabs2 = D
  /\ \A u \in D : u # t => tabs2[u] = tabs[u]

\* Put is such a write.
LEMMA PutStores ==
  ASSUME NEW D, NEW tabs \in [D -> Table], NEW t \in D, NEW i \in 0..Fan-1, NEW e \in PTE,
         NEW tabs2, tabs2 = Put(tabs, t, i, e)
  PROVE  Stored(D, tabs, t, tabs2)
<1>1. tabs2 \in [D -> Table] /\ \A u \in D : u # t => tabs2[u] = tabs[u]
  BY PutParts
<1>2. DOMAIN tabs2 = D
  BY <1>1
<1> QED
  BY <1>1, <1>2, Zenon DEF Stored

\* The levels after table n is linked from a table of level l.
Below(lev, n, l) == [t \in DOMAIN lev \cup {n} |-> IF t = n THEN l + 1 ELSE lev[t]]

\* An empty table is linked into an empty entry: no walk ends elsewhere, and
\* one that came to the entry goes on to the table.
LEMMA TreeLink ==
  ASSUME NEW tabs, NEW lev, NEW roots, Tree(tabs, lev, roots),
         NEW t \in DOMAIN lev, lev[t] # 3, NEW i \in 0..Fan-1, tabs[t][i] = Null,
         NEW n \in DOMAIN tabs, n \in Nat, n \notin DOMAIN lev, tabs[n] = ZeroTable,
         NEW tabs2, tabs2 = Put(tabs, t, i, Entry(n, "table"))
  PROVE  /\ Tree(tabs2, Below(lev, n, lev[t]), roots)
         /\ \A r \in roots, va \in Nat :
              /\ \A k \in 0..3 : Hop(tabs, r, va, k) # Null => Hop(tabs2, r, va, k) = Hop(tabs, r, va, k)
              /\ Hop(tabs, r, va, lev[t]) = Entry(t, "table") /\ index(va, lev[t]) = i =>
                   Hop(tabs2, r, va, lev[t] + 1) = Entry(n, "table")
              /\ Translate(tabs2, r, va) = Translate(tabs, r, va)
<1> DEFINE lev2 == Below(lev, n, lev[t])
           new == Entry(n, "table")
<1>0. /\ tabs \in [DOMAIN tabs -> Table] /\ DOMAIN lev \subseteq DOMAIN tabs /\ lev \in [DOMAIN lev -> 0..3]
      /\ lev[t] \in 0..2
  BY DEF Tree
<1>1. new \in PTE /\ new # Null /\ new.to = n /\ new.perm = "table"
  BY EntryParts DEF PTE, Entry
<1>2. /\ tabs2 \in [DOMAIN tabs -> Table] /\ DOMAIN tabs2 = DOMAIN tabs
      /\ \A u \in DOMAIN tabs \ {t} : tabs2[u] = tabs[u]
      /\ \A j \in 0..Fan-1 : tabs2[t][j] = IF j = i THEN new ELSE tabs[t][j]
  <2>1. tabs[t] \in Table
    BY <1>0
  <2>2. tabs2 = [tabs EXCEPT ![t] = [tabs[t] EXCEPT ![i] = new]]
    BY DEF Put
  <2>3. [tabs[t] EXCEPT ![i] = new] \in Table
    BY <1>1, <2>1 DEF Table
  <2>4. \A j \in 0..Fan-1 : [tabs[t] EXCEPT ![i] = new][j] = IF j = i THEN new ELSE tabs[t][j]
    BY <2>1, Zenon DEF Table
  <2> HIDE DEF new
  <2> QED
    BY <1>0, <2>2, <2>3, <2>4, Zenon
<1>3. /\ DOMAIN lev2 = DOMAIN lev \cup {n} /\ lev2[n] = lev[t] + 1
      /\ \A u \in DOMAIN lev : lev2[u] = lev[u]
  BY DEF Below
<1>4. tabs2[n] = ZeroTable /\ n # t
  BY <1>2
<1> HIDE DEF new, lev2
<1>5. Tree(tabs2, lev2, roots)
  <2>1. /\ lev2 \in [DOMAIN lev2 -> 0..3] /\ DOMAIN lev2 \subseteq DOMAIN tabs2
    BY <1>0, <1>2, <1>3 DEF lev2, Below
  <2>2. roots \subseteq DOMAIN lev2 /\ \A u \in DOMAIN lev2 : lev2[u] = 0 <=> u \in roots
    BY <1>0, <1>3, SMTT(30) DEF Tree
  <2>3. ASSUME NEW u \in DOMAIN lev2, NEW j \in 0..Fan-1, tabs2[u][j] # Null
        PROVE  IF lev2[u] = 3 THEN tabs2[u][j].perm \in PagePerms
               ELSE /\ tabs2[u][j].perm = "table"
                    /\ tabs2[u][j].to \in DOMAIN lev2
                    /\ lev2[tabs2[u][j].to] = lev2[u] + 1
    <3>1. u # n /\ u \in DOMAIN lev
      BY <1>3, <1>4, <2>3, EntryParts, SMTT(30)
    <3>2. CASE u = t /\ j = i
      BY <1>0, <1>1, <1>2, <1>3, <3>1, <3>2, Zenon
    <3>3. CASE ~(u = t /\ j = i)
      <4>1. tabs2[u][j] = tabs[u][j]
        BY <1>0, <1>2, <3>1, <3>3
      <4> QED
        BY <1>3, <2>3, <3>1, <4>1 DEF Tree
    <3> QED
      BY <3>2, <3>3
  <2>4. ASSUME NEW u \in DOMAIN lev2, NEW v \in DOMAIN lev2, NEW j \in 0..Fan-1, NEW k \in 0..Fan-1,
               lev2[u] # 3, lev2[v] # 3, tabs2[u][j] # Null, tabs2[u][j] = tabs2[v][k]
        PROVE  u = v /\ j = k
    <3>1. u # n /\ u \in DOMAIN lev /\ v # n /\ v \in DOMAIN lev
      BY <1>3, <1>4, <2>4, EntryParts
    <3>2. ASSUME NEW w \in DOMAIN lev, NEW l \in 0..Fan-1, lev[w] # 3
          PROVE  tabs[w][l] # new
      BY <1>1, <3>2 DEF Tree
    <3>3. ASSUME NEW w \in DOMAIN lev, NEW l \in 0..Fan-1
          PROVE  tabs2[w][l] = IF w = t /\ l = i THEN new ELSE tabs[w][l]
      BY <1>0, <1>2
    <3>4. lev[u] # 3 /\ lev[v] # 3
      BY <1>3, <2>4, <3>1
    <3> QED
      BY <2>4, <3>1, <3>2, <3>3, <3>4, SMTT(30) DEF Tree
  <2> QED
    BY <1>2, <2>1, <2>2, <2>3, <2>4 DEF Tree
<1>6. ASSUME NEW r \in roots, NEW va \in Nat
      PROVE  /\ \A k \in 0..3 : Hop(tabs, r, va, k) # Null => Hop(tabs2, r, va, k) = Hop(tabs, r, va, k)
             /\ Hop(tabs, r, va, lev[t]) = Entry(t, "table") /\ index(va, lev[t]) = i =>
                  Hop(tabs2, r, va, lev[t] + 1) = new
             /\ Translate(tabs2, r, va) = Translate(tabs, r, va)
  <2> DEFINE e(k) == Hop(tabs, r, va, k)
             f(k) == Hop(tabs2, r, va, k)
             P(k) == \/ f(k) = e(k)
                     \/ e(k) = Null /\ f(k) = new /\ k < 4
  <2>1. e(0) = f(0)
    BY HopStep
  <2>2. ASSUME NEW k \in 0..3, P(k)
        PROVE  P(k + 1) /\ (e(k) = Entry(t, "table") /\ index(va, k) = i => f(k + 1) = new)
    <3>1. e(k + 1) = Look(tabs, e(k), va, k) /\ f(k + 1) = Look(tabs2, f(k), va, k) /\ index(va, k) \in 0..Fan-1
      BY HopStep, IndexType, ZenonT(40)
    <3>2. e(k) # Null => e(k).to \in DOMAIN lev /\ lev[e(k).to] = k
      BY HopLevel
    <3> HIDE DEF e, f
    <3>3. CASE f(k) = e(k) /\ e(k) # Null
      <4>1. e(k + 1) = tabs[e(k).to][index(va, k)] /\ f(k + 1) = tabs2[e(k).to][index(va, k)]
        BY <3>1, <3>3 DEF Look
      <4>2. CASE e(k).to = t /\ index(va, k) = i
        <5>1. e(k + 1) = Null /\ f(k + 1) = new
          BY <1>2, <4>1, <4>2
        <5>2. k + 1 < 4
          BY <1>0, <3>2, <3>3, <4>2
        <5> QED
          BY <5>1, <5>2
      <4>3. CASE ~(e(k).to = t /\ index(va, k) = i)
        <5>1. f(k + 1) = e(k + 1)
          BY <1>0, <1>2, <3>1, <3>2, <3>3, <4>1, <4>3, ZenonT(40)
        <5>2. ~(e(k) = Entry(t, "table") /\ index(va, k) = i)
          BY <4>3, EntryParts
        <5> QED
          BY <5>1, <5>2
      <4> QED
        BY <4>2, <4>3
    <3>4. CASE e(k) = Null
      <4>1. e(k + 1) = Null /\ e(k) # Entry(t, "table")
        BY <3>1, <3>4, EntryParts DEF Look
      <4>2. f(k) = Null => f(k + 1) = Null
        BY <3>1 DEF Look
      <4>3. f(k) = new => f(k + 1) = Null
        BY <1>1, <1>4, <3>1, EntryParts, SMTT(30) DEF Look
      <4> QED
        BY <2>2, <3>4, <4>1, <4>2, <4>3, Zenon
    <3> QED
      BY <2>2, <3>3, <3>4
  <2> HIDE DEF e, f
  <2>3. P(0)
    BY <2>1
  <2>4. P(0 + 1)
    BY <2>2, <2>3
  <2>5. P(1 + 1)
    BY <2>2, <2>4
  <2>6. P(2 + 1)
    BY <2>2, <2>5
  <2>7. P(3 + 1)
    BY <2>2, <2>6
  <2>8. \A k \in 0..3 : P(k)
    <3>1. \A k \in 0..3 : k = 0 \/ k = 1 \/ k = 2 \/ k = 3
      OBVIOUS
    <3> HIDE DEF P
    <3> QED
      BY <2>3, <2>4, <2>5, <2>6, <3>1
  <2>9. f(4) = e(4)
    BY <2>7
  <2>10. lev[t] \in 0..3 /\ (e(lev[t]) = Entry(t, "table") /\ index(va, lev[t]) = i => f(lev[t] + 1) = new)
    <3>1. lev[t] \in 0..3
      BY <1>0
    <3> QED
      BY <2>2, <2>8, <3>1
  <2>11. Translate(tabs2, r, va) = Translate(tabs, r, va)
    BY <2>9, HopStep DEF e, f
  <2> QED
    BY <2>8, <2>10, <2>11 DEF e, f
<1> QED
  BY <1>5, <1>6 DEF new, lev2

\* A page is put into an empty entry of the table that a walk for va comes to:
\* it is reached at va, and nothing else changes at any page or root.
LEMMA TreePage ==
  ASSUME NEW tabs, NEW lev, NEW roots, Tree(tabs, lev, roots),
         NEW root \in roots, NEW va \in Pages, va \in Nat,
         NEW t \in DOMAIN lev, Hop(tabs, root, va, 3) = Entry(t, "table"), tabs[t][index(va, 3)] = Null,
         NEW e \in PTE, e.perm \in PagePerms,
         NEW tabs2, tabs2 = Put(tabs, t, index(va, 3), e)
  PROVE  /\ lev[t] = 3
         /\ Tree(tabs2, lev, roots)
         /\ Translate(tabs, root, va) = Null
         /\ Translate(tabs2, root, va) = e
         /\ \A r \in roots, vb \in Pages : vb \in Nat /\ (r # root \/ vb # va) =>
              Translate(tabs2, r, vb) = Translate(tabs, r, vb)
<1> DEFINE i == index(va, 3)
<1>0. /\ tabs \in [DOMAIN tabs -> Table] /\ DOMAIN lev \subseteq DOMAIN tabs /\ lev \in [DOMAIN lev -> 0..3]
      /\ i \in 0..Fan-1 /\ tabs[t][i] = Null
  BY IndexType DEF Tree
<1>1. lev[t] = 3
  <2>1. Hop(tabs, root, va, 3) # Null /\ Hop(tabs, root, va, 3).to = t
    BY EntryParts
  <2> QED
    BY <2>1, HopLevel
<1>2. /\ tabs2 \in [DOMAIN tabs -> Table] /\ DOMAIN tabs2 = DOMAIN tabs
      /\ \A u \in DOMAIN tabs \ {t} : tabs2[u] = tabs[u]
      /\ \A j \in 0..Fan-1 : tabs2[t][j] = IF j = i THEN e ELSE tabs[t][j]
  <2> HIDE DEF i
  <2>0. tabs2 = [tabs EXCEPT ![t][i] = e]
    BY DEF i, Put
  <2>1. tabs[t] \in Table
    BY <1>0
  <2>2. tabs2 = [tabs EXCEPT ![t] = [tabs[t] EXCEPT ![i] = e]]
    BY <2>0
  <2>3. [tabs[t] EXCEPT ![i] = e] \in Table
    BY <2>1, Zenon DEF Table
  <2>4. \A j \in 0..Fan-1 : [tabs[t] EXCEPT ![i] = e][j] = IF j = i THEN e ELSE tabs[t][j]
    BY <2>1, Zenon DEF Table
  <2> QED
    BY <1>0, <2>2, <2>3, <2>4, Zenon
<1> HIDE DEF i
<1>3. \A u \in DOMAIN lev, j \in 0..Fan-1 : tabs2[u][j] = IF u = t /\ j = i THEN e ELSE tabs[u][j]
  BY <1>0, <1>2, Zenon
<1>4. Tree(tabs2, lev, roots)
  <2>1. ASSUME NEW u \in DOMAIN lev, NEW j \in 0..Fan-1, tabs2[u][j] # Null
        PROVE  IF lev[u] = 3 THEN tabs2[u][j].perm \in PagePerms
               ELSE /\ tabs2[u][j].perm = "table"
                    /\ tabs2[u][j].to \in DOMAIN lev
                    /\ lev[tabs2[u][j].to] = lev[u] + 1
    BY <1>1, <1>3, <2>1 DEF Tree
  <2>2. \A u \in DOMAIN lev, j \in 0..Fan-1 : lev[u] # 3 => tabs2[u][j] = tabs[u][j]
    BY <1>1, <1>3
  <2> QED
    BY <1>0, <1>2, <2>1, <2>2 DEF Tree
<1>5. ASSUME NEW r \in roots, NEW vb \in Nat
      PROVE  /\ Hop(tabs2, r, vb, 3) = Hop(tabs, r, vb, 3)
             /\ Translate(tabs2, r, vb) = IF Hop(tabs, r, vb, 3) = Entry(t, "table") /\ index(vb, 3) = i
                                          THEN e ELSE Translate(tabs, r, vb)
  <2> DEFINE f(k) == Hop(tabs, r, vb, k)
             g(k) == Hop(tabs2, r, vb, k)
  <2>1. ASSUME NEW k \in 0..3
        PROVE  /\ f(k + 1) = Look(tabs, f(k), vb, k) /\ g(k + 1) = Look(tabs2, g(k), vb, k)
               /\ f(k) # Null => f(k) = Entry(f(k).to, "table") /\ f(k).to \in DOMAIN lev /\ lev[f(k).to] = k
               /\ index(vb, k) \in 0..Fan-1
    <3>1. f(k + 1) = Look(tabs, f(k), vb, k) /\ g(k + 1) = Look(tabs2, g(k), vb, k)
      BY HopStep, Zenon
    <3>2. f(k) # Null => f(k) = Entry(f(k).to, "table") /\ f(k).to \in DOMAIN lev /\ lev[f(k).to] = k
      BY HopLevel
    <3>3. index(vb, k) \in 0..Fan-1
      BY IndexType, Zenon
    <3> QED
      BY <3>1, <3>2, <3>3, Zenon
  <2>2. f(0) = g(0)
    BY HopStep
  <2>3. f(4) = Translate(tabs, r, vb) /\ g(4) = Translate(tabs2, r, vb)
    BY HopStep, Zenon
  <2> HIDE DEF f, g
  <2>4. ASSUME NEW k \in 0..2, f(k) = g(k)
        PROVE  f(k + 1) = g(k + 1)
    <3>1. k \in 0..3 /\ k # 3
      OBVIOUS
    <3>2. f(k) # Null => tabs2[f(k).to][index(vb, k)] = tabs[f(k).to][index(vb, k)]
      BY <1>1, <1>3, <2>1, <3>1
    <3> QED
      BY <2>1, <2>4, <3>1, <3>2 DEF Look
  <2>5. f(0 + 1) = g(0 + 1)
    BY <2>2, <2>4
  <2>6. f(1 + 1) = g(1 + 1)
    BY <2>4, <2>5
  <2>7. f(2 + 1) = g(2 + 1)
    BY <2>4, <2>6
  <2>8. f(3) = g(3)
    BY <2>7
  <2>9. g(4) = IF f(3) = Entry(t, "table") /\ index(vb, 3) = i THEN e ELSE f(4)
    <3>1. /\ f(3 + 1) = Look(tabs, f(3), vb, 3) /\ g(3 + 1) = Look(tabs2, f(3), vb, 3)
          /\ f(3) # Null => f(3) = Entry(f(3).to, "table") /\ f(3).to \in DOMAIN lev
          /\ index(vb, 3) \in 0..Fan-1
      BY <2>1, <2>8
    <3>2. CASE f(3) = Null
      BY <3>1, <3>2, EntryParts, SMTT(30) DEF Look
    <3>3. CASE f(3) # Null
      <4>1. f(4) = tabs[f(3).to][index(vb, 3)] /\ g(4) = tabs2[f(3).to][index(vb, 3)]
        BY <3>1, <3>3, SMTT(30) DEF Look
      <4>2. f(3) = Entry(t, "table") <=> f(3).to = t
        BY <3>1, <3>3, EntryParts
      <4> QED
        BY <1>3, <3>1, <3>3, <4>1, <4>2, ZenonT(40)
    <3> QED
      BY <3>2, <3>3
  <2> QED
    BY <2>3, <2>8, <2>9, Zenon DEF f, g
<1>6. Translate(tabs2, root, va) = e
  BY <1>5 DEF i
<1>7. Translate(tabs, root, va) = Null
  <2>1. Hop(tabs, root, va, 3 + 1) = Look(tabs, Hop(tabs, root, va, 3), va, 3)
    BY HopStep
  <2>2. Hop(tabs, root, va, 4) = Null
    BY <1>0, <2>1, EntryParts DEF Look, i
  <2> QED
    BY <2>2, HopStep
<1>8. ASSUME NEW r \in roots, NEW vb \in Pages, vb \in Nat, r # root \/ vb # va
      PROVE  Translate(tabs2, r, vb) = Translate(tabs, r, vb)
  <2>1. SUFFICES ASSUME Hop(tabs, r, vb, 3) = Entry(t, "table"), index(vb, 3) = i
                 PROVE  FALSE
    BY <1>5, <1>8
  <2>2. Hop(tabs, root, va, 3) # Null /\ Hop(tabs, root, va, 3) = Hop(tabs, r, vb, 3)
    BY <2>1, EntryParts
  <2>3. root = r /\ \A k \in 0..2 : index(va, k) = index(vb, k)
    BY <1>8, <2>2, HopOnce
  <2>4. \A k \in 0..3 : index(va, k) = index(vb, k)
    <3>1. \A k \in 0..3 : k \in 0..2 \/ k = 3
      OBVIOUS
    <3> QED
      BY <2>1, <2>3, <3>1 DEF i
  <2> QED
    BY <1>8, <2>3, <2>4, PageIndices
<1> QED
  BY <1>1, <1>4, <1>6, <1>7, <1>8

-----------------------------------------------------------------------------
(* The kernel's pool *)

PoolRoots == {0, 1}

\* The tables handed out are a tree below the two roots; the others are empty.
PoolTree(pool, lev) ==
  /\ pool = [tables |-> pool.tables, used |-> pool.used]
  /\ pool.tables \in [0..POOL_LEN-1 -> Table]
  /\ pool.used \in 0..POOL_LEN
  /\ DOMAIN lev = 0..pool.used-1
  /\ Tree(pool.tables, lev, PoolRoots)
  /\ \A t \in pool.used..POOL_LEN-1 : pool.tables[t] = ZeroTable

\* A walk of map_page at level k: only the links it noted differ from before.
PoolWalk(w, lev, before, root, va, k) ==
  /\ w = [r |-> w.r, t |-> w.t, links |-> w.links, pool |-> w.pool]
  /\ w.r \in {"ok", "OutOfTables"}
  /\ PoolTree(w.pool, lev)
  /\ \A t \in 0..POOL_LEN-1, i \in 0..Fan-1 :
       IF <<t, i>> \in w.links THEN before.tables[t][i] = Null
       ELSE before.tables[t][i] = w.pool.tables[t][i]
  /\ \A r \in PoolRoots, vb \in Nat : Translate(w.pool.tables, r, vb) = Translate(before.tables, r, vb)
  /\ w.r = "ok" => w.t \in DOMAIN lev /\ lev[w.t] = k /\ Hop(w.pool.tables, root, va, k) = Entry(w.t, "table")

\* One level of the walk does nothing after a failure,
LEMMA PoolStepStops ==
  ASSUME NEW w, NEW va, NEW k, w.r # "ok"
  PROVE  PoolStep(w, va, k) = w
BY Zenon DEF PoolStep

\* follows an entry that leads to a table of the pool,
LEMMA PoolStepFollows ==
  ASSUME NEW w, NEW va, NEW k, w.r = "ok", NEW e, e = w.pool.tables[w.t][index(va, k)], e # Null,
         e.perm = "table", e.to < w.pool.used
  PROVE  PoolStep(w, va, k) = [w EXCEPT !.t = e.to]
BY Zenon DEF PoolStep

\* and links a new table at an empty entry, unless none is left.
LEMMA PoolStepEmpty ==
  ASSUME NEW w, NEW va, NEW k, w.r = "ok", NEW i, i = index(va, k), w.pool.tables[w.t][i] = Null,
         NEW n, n = w.pool.used
  PROVE  PoolStep(w, va, k) =
           IF n = POOL_LEN THEN [w EXCEPT !.r = "OutOfTables"]
           ELSE [r |-> "ok", t |-> n, links |-> w.links \cup {<<w.t, i>>},
                 pool |-> [tables |-> Put(w.pool.tables, w.t, i, Entry(n, "table")), used |-> n + 1]]
<1>1. PoolStep(w, va, k) = PoolLink(w, i)
  BY Zenon DEF PoolStep
<1> QED
  BY <1>1, Zenon DEF PoolLink

\* One level of the walk.
LEMMA PoolStepKeeps ==
  ASSUME NEW w, NEW lev, NEW before, NEW root \in PoolRoots, NEW va \in Nat, NEW k \in 0..2,
         PoolWalk(w, lev, before, root, va, k)
  PROVE  \E lev2 : PoolWalk(PoolStep(w, va, k), lev2, before, root, va, k + 1)
<1> DEFINE i == index(va, k)
           tabs == w.pool.tables
           e == tabs[w.t][i]
           n == w.pool.used
<1>0. /\ k \in 0..3 /\ k # 3 /\ i \in 0..Fan-1
      /\ POOL_LEN \in Nat
  BY IndexType, TableAssumption
<1>00. /\ w = [r |-> w.r, t |-> w.t, links |-> w.links, pool |-> w.pool]
       /\ w.pool = [tables |-> tabs, used |-> n]
       /\ tabs \in [0..POOL_LEN-1 -> Table] /\ n \in 0..POOL_LEN /\ DOMAIN lev = 0..n-1
       /\ Tree(tabs, lev, PoolRoots)
       /\ \A t \in n..POOL_LEN-1 : tabs[t] = ZeroTable
       /\ DOMAIN tabs = 0..POOL_LEN-1
  BY DEF PoolWalk, PoolTree
<1>1. CASE w.r # "ok"
  <2>1. PoolStep(w, va, k) = w
    BY <1>1, PoolStepStops
  <2>2. PoolWalk(w, lev, before, root, va, k + 1)
    BY <1>1 DEF PoolWalk
  <2> QED
    BY <2>1, <2>2, ZenonT(40)
<1>2. CASE w.r = "ok" /\ e = Null /\ n = POOL_LEN
  <2> DEFINE v == [w EXCEPT !.r = "OutOfTables"]
  <2>1. PoolStep(w, va, k) = v
    BY <1>2, PoolStepEmpty
  <2>2. v = [r |-> "OutOfTables", t |-> w.t, links |-> w.links, pool |-> w.pool]
    BY <1>00
  <2>3. v.r = "OutOfTables" /\ v.t = w.t /\ v.links = w.links /\ v.pool = w.pool
    BY <2>2
  <2> HIDE DEF v
  <2>4. PoolWalk(v, lev, before, root, va, k + 1)
    BY <2>2, <2>3, ZenonT(40) DEF PoolWalk
  <2> QED
    BY <2>1, <2>4, ZenonT(40)
<1>3. CASE w.r = "ok" /\ e = Null /\ n # POOL_LEN
  <2> DEFINE tabs2 == Put(tabs, w.t, i, Entry(n, "table"))
             lev2 == Below(lev, n, lev[w.t])
             v == [r |-> "ok", t |-> n, links |-> w.links \cup {<<w.t, i>>},
                   pool |-> [tables |-> tabs2, used |-> n + 1]]
  <2>1. PoolStep(w, va, k) = v
    BY <1>3, PoolStepEmpty
  <2>2. w.t \in DOMAIN lev /\ lev[w.t] = k /\ Hop(tabs, root, va, k) = Entry(w.t, "table")
    BY <1>3, Zenon DEF PoolWalk
  <2>3. n \in DOMAIN tabs /\ n \in Nat /\ n \notin DOMAIN lev /\ tabs[n] = ZeroTable /\ w.t \in DOMAIN tabs /\ w.t # n
    BY <1>0, <1>00, <1>3, <2>2, SMTT(30)
  <2>4. /\ Tree(tabs2, lev2, PoolRoots)
        /\ \A r \in PoolRoots, vb \in Nat :
             /\ Hop(tabs, r, vb, k) = Entry(w.t, "table") /\ index(vb, k) = i =>
                  Hop(tabs2, r, vb, k + 1) = Entry(n, "table")
             /\ Translate(tabs2, r, vb) = Translate(tabs, r, vb)
    <3>1. tabs[w.t][i] = Null /\ lev[w.t] # 3
      BY <1>0, <1>3, <2>2
    <3>2. tabs2 = Put(tabs, w.t, i, Entry(n, "table")) /\ lev2 = Below(lev, n, lev[w.t])
      BY Zenon DEF tabs2, lev2
    <3> HIDE DEF tabs, n, i, tabs2, lev2
    <3>3. /\ Tree(tabs2, lev2, PoolRoots)
          /\ \A r \in PoolRoots, vb \in Nat :
               /\ Hop(tabs, r, vb, lev[w.t]) = Entry(w.t, "table") /\ index(vb, lev[w.t]) = i =>
                    Hop(tabs2, r, vb, lev[w.t] + 1) = Entry(n, "table")
               /\ Translate(tabs2, r, vb) = Translate(tabs, r, vb)
      <4> DEFINE t == w.t
      <4>1. /\ Tree(tabs, lev, PoolRoots) /\ t \in DOMAIN lev /\ lev[t] # 3 /\ i \in 0..Fan-1 /\ tabs[t][i] = Null
            /\ n \in DOMAIN tabs /\ n \in Nat /\ n \notin DOMAIN lev /\ tabs[n] = ZeroTable
            /\ tabs2 = Put(tabs, t, i, Entry(n, "table")) /\ lev2 = Below(lev, n, lev[t])
        BY <1>0, <1>00, <2>2, <2>3, <3>1, <3>2, ZenonT(40)
      <4> HIDE DEF t
      <4>2. /\ Tree(tabs2, lev2, PoolRoots)
            /\ \A r \in PoolRoots, vb \in Nat :
               /\ Hop(tabs, r, vb, lev[t]) = Entry(t, "table") /\ index(vb, lev[t]) = i =>
                    Hop(tabs2, r, vb, lev[t] + 1) = Entry(n, "table")
               /\ Translate(tabs2, r, vb) = Translate(tabs, r, vb)
        BY <4>1, TreeLink
      <4> QED
        BY <4>2 DEF t
    <3> QED
      BY <2>2, <3>3
  <2>5. /\ tabs2 \in [0..POOL_LEN-1 -> Table]
        /\ \A t \in 0..POOL_LEN-1, j \in 0..Fan-1 : tabs2[t][j] = IF t = w.t /\ j = i THEN Entry(n, "table") ELSE tabs[t][j]
        /\ \A t \in 0..POOL_LEN-1 : t # w.t => tabs2[t] = tabs[t]
    <3>1. DOMAIN tabs2 = 0..POOL_LEN-1 /\ tabs[w.t] \in Table
      BY <1>00, <2>3, Zenon DEF Put
    <3>2. tabs2 \in [0..POOL_LEN-1 -> Table]
      BY <2>4, <3>1, Zenon DEF Tree
    <3> QED
      BY <1>00, <2>3, <3>1, <3>2, Zenon DEF Table, Put
  <2>6. DOMAIN lev2 = 0..(n + 1)-1 /\ lev2[n] = k + 1 /\ n \in DOMAIN lev2
    BY <1>0, <1>00, <2>2, <2>3, SMTT(30) DEF Below
  <2> HIDE DEF tabs2, lev2
  <2>7. v.r = "ok" /\ v.t = n /\ v.links = w.links \cup {<<w.t, i>>} /\ v.pool.tables = tabs2 /\ v.pool.used = n + 1
    BY Zenon
  <2>8. PoolTree(v.pool, lev2)
    <3>1. \A t \in n+1..POOL_LEN-1 : tabs2[t] = ZeroTable
      BY <1>0, <1>00, <2>2, <2>5
    <3>2. n + 1 \in 0..POOL_LEN
      BY <1>0, <1>00, <1>3, SMTT(30)
    <3> QED
      BY <2>4, <2>5, <2>6, <3>1, <3>2, Zenon DEF PoolTree
  <2>9. ASSUME NEW t \in 0..POOL_LEN-1, NEW j \in 0..Fan-1
        PROVE  IF <<t, j>> \in v.links THEN before.tables[t][j] = Null
               ELSE before.tables[t][j] = v.pool.tables[t][j]
    <3>1. IF <<t, j>> \in w.links THEN before.tables[t][j] = Null
          ELSE before.tables[t][j] = tabs[t][j]
      BY Zenon DEF PoolWalk
    <3>2. CASE t = w.t /\ j = i
      BY <1>3, <2>7, <3>1, <3>2, Zenon
    <3>3. CASE ~(t = w.t /\ j = i)
      <4>1. <<t, j>> \in v.links <=> <<t, j>> \in w.links
        BY <2>7, <3>3
      <4>2. tabs2[t][j] = tabs[t][j]
        BY <2>5, <3>3, Zenon
      <4> QED
        BY <2>7, <3>1, <4>1, <4>2, Zenon
    <3> QED
      BY <3>2, <3>3
  <2>10. \A r \in PoolRoots, vb \in Nat : Translate(v.pool.tables, r, vb) = Translate(before.tables, r, vb)
    BY <2>4, <2>7, Zenon DEF PoolWalk
  <2>11. Hop(v.pool.tables, root, va, k + 1) = Entry(v.t, "table")
    BY <2>2, <2>4, <2>7, Zenon
  <2>12. v = [r |-> v.r, t |-> v.t, links |-> v.links, pool |-> v.pool]
    BY Zenon
  <2> HIDE DEF v
  <2>13. PoolWalk(v, lev2, before, root, va, k + 1)
    BY <2>6, <2>7, <2>8, <2>9, <2>10, <2>11, <2>12, Zenon DEF PoolWalk
  <2> QED
    BY <2>1, <2>13, ZenonT(40)
<1>4. CASE w.r = "ok" /\ e # Null
  <2>1. w.t \in DOMAIN lev /\ lev[w.t] = k /\ Hop(tabs, root, va, k) = Entry(w.t, "table")
    BY <1>4, Zenon DEF PoolWalk
  <2>2. e.perm = "table" /\ e.to \in DOMAIN lev /\ lev[e.to] = k + 1 /\ e \in PTE
    <3>1. tabs[w.t][i] # Null /\ lev[w.t] # 3
      BY <1>0, <1>4, <2>1, Zenon
    <3> HIDE DEF tabs, n, i
    <3> QED
      <4> DEFINE t == w.t
      <4>1. /\ Tree(tabs, lev, PoolRoots) /\ i \in 0..Fan-1
            /\ t \in DOMAIN lev /\ tabs[t][i] # Null /\ lev[t] = k /\ lev[t] # 3
        BY <1>0, <1>00, <2>1, <3>1, Zenon
      <4> HIDE DEF t
      <4>2. /\ tabs[t][i] \in PTE /\ tabs[t][i].perm = "table"
            /\ tabs[t][i].to \in DOMAIN lev /\ lev[tabs[t][i].to] = lev[t] + 1
        BY <4>1, TreeDown
      <4> QED
        BY <4>1, <4>2, Zenon DEF t
  <2>3. e.to < n
    BY <1>0, <1>00, <2>2, SMTT(30)
  <2> DEFINE v == [w EXCEPT !.t = e.to]
  <2>4. PoolStep(w, va, k) = v
    BY <1>4, <2>2, <2>3, PoolStepFollows
  <2>5. v = [r |-> w.r, t |-> e.to, links |-> w.links, pool |-> w.pool]
    BY <1>00
  <2>6. v.r = w.r /\ v.t = e.to /\ v.links = w.links /\ v.pool = w.pool
    BY <2>5, Zenon
  <2>7. Hop(tabs, root, va, k + 1) = Entry(e.to, "table")
    <3> DEFINE t == w.t
               p == e
    <3>1. Hop(tabs, root, va, k) = Entry(t, "table") /\ p = tabs[t][index(va, k)] /\ p \in PTE /\ p.perm = "table"
      BY <2>1, <2>2, Zenon
    <3> HIDE DEF tabs, t, p
    <3>2. Hop(tabs, root, va, k + 1) = Entry(p.to, "table")
      BY <3>1, HopTable, Zenon
    <3> QED
      BY <3>2, Zenon DEF p
  <2> HIDE DEF v
  <2>8. PoolWalk(v, lev, before, root, va, k + 1)
    BY <1>4, <2>2, <2>5, <2>6, <2>7 DEF PoolWalk
  <2> QED
    BY <2>4, <2>8
<1> QED
  BY <1>1, <1>2, <1>3, <1>4

\* A page's address is a number and granule aligned.
LEMMA PageNat ==
  ASSUME NEW va \in Pages
  PROVE  va \in Nat
<1>1. G \in Nat /\ Fan \in Nat /\ Span \in Nat
  BY TableAssumption, GranuleAssumption DEF Span
<1>2. PICK p \in Nat : va = p * G
  BY <1>1 DEF Pages
<1> QED
  BY <1>1, <1>2

\* A failed walk leaves no trace: the links it wrote are cleared.
LEMMA RollbackRestores ==
  ASSUME NEW pool, NEW lev, PoolTree(pool, lev), NEW w, NEW lev2, NEW root, NEW va, NEW k,
         PoolWalk(w, lev2, pool, root, va, k)
  PROVE  Rollback(pool, w) = pool
<1>1. /\ pool = [tables |-> pool.tables, used |-> pool.used]
      /\ pool.tables \in [0..POOL_LEN-1 -> Table]
      /\ w.pool.tables \in [0..POOL_LEN-1 -> Table]
  BY DEF PoolWalk, PoolTree
<1>2. \A t \in 0..POOL_LEN-1, i \in 0..Fan-1 :
        (IF <<t, i>> \in w.links THEN Null ELSE w.pool.tables[t][i]) = pool.tables[t][i]
  BY Zenon DEF PoolWalk
<1>3. \A t \in 0..POOL_LEN-1 :
        [i \in 0..Fan-1 |-> IF <<t, i>> \in w.links THEN Null ELSE w.pool.tables[t][i]] = pool.tables[t]
  <2> SUFFICES ASSUME NEW t \in 0..POOL_LEN-1
               PROVE  [i \in 0..Fan-1 |-> IF <<t, i>> \in w.links THEN Null ELSE w.pool.tables[t][i]] = pool.tables[t]
    OBVIOUS
  <2>1. pool.tables[t] = [i \in 0..Fan-1 |-> pool.tables[t][i]]
    BY <1>1, Zenon DEF Table
  <2> QED
    BY <1>2, <2>1
<1>4. [t \in DOMAIN w.pool.tables |->
        [i \in 0..Fan-1 |-> IF <<t, i>> \in w.links THEN Null ELSE w.pool.tables[t][i]]] = pool.tables
  <2>1. pool.tables = [t \in 0..POOL_LEN-1 |-> pool.tables[t]] /\ DOMAIN w.pool.tables = 0..POOL_LEN-1
    BY <1>1, ZenonT(40)
  <2> QED
    BY <1>3, <2>1
<1> QED
  BY <1>1, <1>4 DEF Rollback

\* What one page changes in the kernel's tables.
PoolGains(pool, pool2, root, va, e) ==
  /\ Translate(pool.tables, root, va) = Null
  /\ Translate(pool2.tables, root, va) = e
  /\ \A r \in PoolRoots, vb \in Pages :
       r # root \/ vb # va => Translate(pool2.tables, r, vb) = Translate(pool.tables, r, vb)

\* map_page maps the page or changes nothing.
LEMMA PoolPage ==
  ASSUME NEW pool, NEW lev, PoolTree(pool, lev), NEW root \in PoolRoots, NEW va \in Pages,
         NEW pa \in Nat, NEW perm \in PagePerms, NEW m, m = pool_map_page(pool, root, va, pa, perm)
  PROVE  /\ m = [r |-> m.r, pool |-> m.pool]
         /\ m.r \in {"ok", "OutOfTables", "Overlap"}
         /\ m.r # "ok" => m.pool = pool
         /\ m.r = "Overlap" => Translate(pool.tables, root, va) # Null
         /\ m.r = "ok" => (\E lev2 : PoolTree(m.pool, lev2)) /\ PoolGains(pool, m.pool, root, va, Entry(pa, perm))
<1> DEFINE start == [r |-> "ok", t |-> root, links |-> {}, pool |-> pool]
           a == PoolStep(start, va, 0)
           b == PoolStep(a, va, 1)
           w == PoolStep(b, va, 2)
           i == index(va, 3)
           r == IF w.r = "ok" /\ w.pool.tables[w.t][i] # Null THEN "Overlap" ELSE w.r
<1>1. va \in Nat /\ i \in 0..Fan-1
  BY PageNat, IndexType
<1>2. PoolWalk(start, lev, pool, root, va, 0)
  <2>1. start.r = "ok" /\ start.t = root /\ start.links = {} /\ start.pool = pool
    OBVIOUS
  <2>2. root \in DOMAIN lev /\ lev[root] = 0
    BY DEF PoolTree, Tree
  <2>3. Hop(pool.tables, root, va, 0) = Entry(root, "table")
    BY HopStep, Zenon
  <2>4. start = [r |-> start.r, t |-> start.t, links |-> start.links, pool |-> start.pool]
    OBVIOUS
  <2> HIDE DEF start
  <2> QED
    BY <2>1, <2>2, <2>3, <2>4 DEF PoolWalk
<1> HIDE DEF start
<1>3. PICK l1 : PoolWalk(a, l1, pool, root, va, 0 + 1)
  BY <1>1, <1>2, PoolStepKeeps
<1> HIDE DEF a
<1>4. PICK l2 : PoolWalk(b, l2, pool, root, va, 1 + 1)
  BY <1>1, <1>3, PoolStepKeeps
<1> HIDE DEF b
<1>5. PICK l3 : PoolWalk(w, l3, pool, root, va, 2 + 1)
  BY <1>1, <1>4, PoolStepKeeps
<1> HIDE DEF w
<1>6. m = [r |-> r, pool |-> IF r = "ok" THEN [w.pool EXCEPT !.tables[w.t][i] = Entry(pa, perm)] ELSE Rollback(pool, w)]
  BY Zenon DEF pool_map_page, PoolLeaf, w, b, a, start
<1>7. w.r \in {"ok", "OutOfTables"} /\ PoolWalk(w, l3, pool, root, va, 3)
  BY <1>5 DEF PoolWalk
<1>8. m.r = r /\ m.pool = (IF r = "ok" THEN [w.pool EXCEPT !.tables[w.t][i] = Entry(pa, perm)] ELSE Rollback(pool, w))
      /\ m = [r |-> m.r, pool |-> m.pool]
  BY <1>6, SMTT(30)
<1>9. r \in {"ok", "OutOfTables", "Overlap"}
  BY <1>7
<1>10. r # "ok" => m.pool = pool
  BY <1>7, <1>8, RollbackRestores, Zenon
<1> DEFINE tabs == w.pool.tables
           t == w.t
<1>11. /\ PoolTree(w.pool, l3)
       /\ w.pool = [tables |-> tabs, used |-> w.pool.used] /\ tabs \in [0..POOL_LEN-1 -> Table]
       /\ Tree(tabs, l3, PoolRoots)
       /\ \A q \in PoolRoots, vb \in Nat : Translate(tabs, q, vb) = Translate(pool.tables, q, vb)
       /\ w.r = "ok" => t \in DOMAIN l3 /\ Hop(tabs, root, va, 3) = Entry(t, "table")
  BY <1>7, Zenon DEF PoolWalk, PoolTree
<1>12. r = "Overlap" => Translate(pool.tables, root, va) # Null
  <2> SUFFICES ASSUME r = "Overlap"
               PROVE  Translate(tabs, root, va) # Null
    BY <1>1, <1>11, Zenon
  <2>1. w.r = "ok" /\ tabs[t][i] # Null
    BY <1>7, Zenon
  <2>2. Hop(tabs, root, va, 3 + 1) = Look(tabs, Entry(t, "table"), va, 3)
    BY <1>11, <2>1, HopStep, SMTT(30)
  <2>3. Hop(tabs, root, va, 4) = tabs[t][i]
    BY <2>2, EntryParts DEF Look
  <2> QED
    BY <2>1, <2>3, HopStep, Zenon
<1>13. r = "ok" => (\E lev2 : PoolTree(m.pool, lev2)) /\ PoolGains(pool, m.pool, root, va, Entry(pa, perm))
  <2> SUFFICES ASSUME r = "ok"
               PROVE  PoolTree(m.pool, l3) /\ PoolGains(pool, m.pool, root, va, Entry(pa, perm))
    BY Zenon
  <2> DEFINE e == Entry(pa, perm)
             tabs2 == Put(tabs, t, i, e)
  <2>1. w.r = "ok" /\ tabs[t][i] = Null
    BY <1>7
  <2>2. e \in PTE /\ e.perm \in PagePerms
    BY DEF Entry, PTE, PagePerms
  <2>3. m.pool = [tables |-> tabs2, used |-> w.pool.used]
    <3>1. m.pool = [w.pool EXCEPT !.tables[t][i] = e]
      BY <1>8, ZenonT(40)
    <3>2. w.pool = [tables |-> tabs, used |-> w.pool.used]
      BY <1>11
    <3> HIDE DEF t, i, e
    <3> QED
      BY <3>1, <3>2, Zenon DEF Put
  <2> HIDE DEF e, tabs, t, i, r
  <2>4. tabs2 = Put(tabs, t, i, e)
    OBVIOUS
  <2> HIDE DEF tabs2
  <2>5. t \in DOMAIN l3 /\ Hop(tabs, root, va, 3) = Entry(t, "table") /\ t \in 0..POOL_LEN-1
    BY <1>11, <2>1, ZenonT(40) DEF Tree
  <2>6. /\ l3[t] = 3 /\ Tree(tabs2, l3, PoolRoots)
        /\ Translate(tabs, root, va) = Null
        /\ Translate(tabs2, root, va) = e
        /\ \A q \in PoolRoots, vb \in Pages : vb \in Nat /\ (q # root \/ vb # va) =>
              Translate(tabs2, q, vb) = Translate(tabs, q, vb)
    <3>1. /\ Tree(tabs, l3, PoolRoots) /\ va \in Nat /\ t \in DOMAIN l3 /\ Hop(tabs, root, va, 3) = Entry(t, "table")
          /\ tabs[t][index(va, 3)] = Null /\ e \in PTE /\ e.perm \in PagePerms
          /\ tabs2 = Put(tabs, t, index(va, 3), e)
      BY <1>1, <1>11, <2>1, <2>2, <2>4, <2>5 DEF i
    <3> QED
      BY <3>1, TreePage, SMTT(30)
  <2>7. tabs2 \in [0..POOL_LEN-1 -> Table] /\ \A u \in 0..POOL_LEN-1 : u # t => tabs2[u] = tabs[u]
    <3> DEFINE D == 0..POOL_LEN-1
    <3>1. tabs \in [D -> Table] /\ t \in D /\ i \in 0..Fan-1 /\ e \in PTE
      BY <1>1, <1>11, <2>2, <2>5, Zenon
    <3> HIDE DEF D
    <3>2. Put(tabs, t, i, e) \in [D -> Table] /\ \A u \in D : u # t => Put(tabs, t, i, e)[u] = tabs[u]
      BY <3>1, PutParts, SMTT(30)
    <3> QED
      BY <2>4, <3>2, Zenon DEF D
  <2>8. m.pool.tables = tabs2 /\ m.pool.used = w.pool.used
    BY <2>3, SMTT(30)
  <2>9. PoolTree(m.pool, l3)
    <3>1. \A u \in w.pool.used..POOL_LEN-1 : tabs2[u] = ZeroTable
      <4> SUFFICES ASSUME NEW u \in w.pool.used..POOL_LEN-1
                   PROVE  tabs2[u] = ZeroTable
        OBVIOUS
      <4>1. u \in 0..POOL_LEN-1 /\ tabs[u] = ZeroTable /\ u # t
        BY <1>11, <2>5, SMTT(30) DEF PoolTree, tabs
      <4> QED
        BY <2>7, <4>1
    <3> QED
      BY <1>11, <2>3, <2>6, <2>7, <2>8, <3>1, Zenon DEF PoolTree
  <2>10. PoolGains(pool, m.pool, root, va, e)
    BY <1>1, <1>11, <2>6, <2>8, PageNat, Zenon DEF PoolGains
  <2> QED
    BY <2>9, <2>10, Zenon DEF e
<1> QED
  BY <1>8, <1>9, <1>10, <1>12, <1>13, Zenon

\* An aligned address is a multiple of the granule.
LEMMA Multiple ==
  ASSUME NEW a \in Nat, a % G = 0
  PROVE  a \div G \in Nat /\ a = (a \div G) * G
<1>1. G \in Nat /\ G > 0
  BY GranuleAssumption
<1>2. a = G * (a \div G) + (a % G) /\ a \div G \in Nat
  BY <1>1
<1> QED
  BY <1>1, <1>2

\* The pages are the aligned addresses below Top.
LEMMA PageOf ==
  ASSUME NEW a \in Nat, a % G = 0, a < Top
  PROVE  a \in Pages
<1>1. G \in Nat /\ G > 0 /\ Fan \in Nat /\ Span \in Nat /\ Top = Span * G
  BY TableAssumption, GranuleAssumption DEF Span, Top
<1>2. a \div G \in Nat /\ a \div G < Span
  BY <1>1, DivBound
<1>3. a = (a \div G) * G
  BY Multiple
<1> QED
  BY <1>1, <1>2, <1>3 DEF Pages

\* ... and no others.
LEMMA PageAligned ==
  ASSUME NEW va \in Pages
  PROVE  va \in Nat /\ va % G = 0 /\ va < Top
<1>1. G \in Nat /\ G > 0 /\ Fan \in Nat /\ Span \in Nat /\ Top = Span * G
  BY TableAssumption, GranuleAssumption DEF Span, Top
<1>2. PICK p \in Nat : va = p * G /\ p < Span
  <2>1. Span \in Nat
    BY <1>1
  <2> QED
    BY <2>1 DEF Pages
<1>3. va \in Nat /\ va % G = 0
  <2>1. \A x \in Nat : (x * G) % G = 0
    BY <1>1
  <2>2. \A x \in Nat : x * G \in Nat
    BY <1>1
  <2> QED
    BY <1>2, <2>1, <2>2
<1>4. PICK d \in Nat : Span = p + 1 + d
  <2>1. Span - p - 1 \in Nat
    BY <1>1, <1>2
  <2> QED
    BY <1>1, <1>2, <2>1
<1>5. Top = p * G + G + d * G /\ d * G \in Nat
  BY <1>1, <1>2, <1>4
<1> QED
  BY <1>1, <1>2, <1>3, <1>5

\* Two aligned addresses less than a granule apart are the same.
LEMMA OneGranule ==
  ASSUME NEW a \in Nat, NEW b \in Nat, a % G = 0, b % G = 0, a <= b, b < a + G
  PROVE  a = b
<1> DEFINE p == a \div G
           q == b \div G
<1>1. p \in Nat /\ q \in Nat /\ a = p * G /\ b = q * G
  BY Multiple
<1> HIDE DEF p, q
<1>2. q < p + 1
  <2> SUFFICES ASSUME p + 1 <= q PROVE FALSE
    BY <1>1
  <2>1. (p + 1) * G <= q * G
    BY <1>1, GranuleAssumption
  <2> QED
    BY <1>1, <2>1, GranuleAssumption
<1>3. p <= q
  <2> SUFFICES ASSUME q + 1 <= p PROVE FALSE
    BY <1>1
  <2>1. (q + 1) * G <= p * G
    BY <1>1, GranuleAssumption
  <2> QED
    BY <1>1, <2>1, GranuleAssumption
<1> QED
  BY <1>1, <1>2, <1>3

\* The n-th granule of a region.
LEMMA Nth ==
  ASSUME NEW pa \in Nat, NEW len \in Nat, NEW n \in Nat, n < len \div G
  PROVE  /\ pa + n * G \in Nat
         /\ pa + (n + 1) * G = pa + n * G + G
         /\ pa + n * G + G <= pa + len
         /\ pa % G = 0 => (pa + n * G) % G = 0
<1>1. G \in Nat /\ G > 0
  BY GranuleAssumption
<1> DEFINE q == len \div G
<1>2. q \in Nat /\ G * q <= len
  BY <1>1
<1>3. n < q
  OBVIOUS
<1> HIDE DEF q
<1>4. PICK d \in Nat : q = n + 1 + d
  <2>1. q - n - 1 \in Nat
    BY <1>2, <1>3
  <2> QED
    BY <1>2, <2>1
<1>5. G * q = n * G + G + d * G /\ d * G \in Nat /\ n * G \in Nat
  BY <1>1, <1>4
<1>6. (n + 1) * G = n * G + G
  BY <1>1
<1>7. ASSUME pa % G = 0 PROVE (pa + n * G) % G = 0
  <2>1. pa \div G \in Nat /\ pa = (pa \div G) * G
    BY <1>7, Multiple
  <2>2. PICK p \in Nat : pa = p * G
    BY <2>1
  <2>3. pa + n * G = (p + n) * G /\ p + n \in Nat
    BY <1>1, <2>2
  <2>4. \A x \in Nat : (x * G) % G = 0
    BY <1>1, SMTT(30)
  <2> QED
    BY <2>3, <2>4
<1> QED
  BY <1>1, <1>2, <1>5, <1>6, <1>7

\* The equations of the loop in map_range.
PoolLoop(done, pool, root, pa, len, perm) ==
  /\ done[0] = [r |-> "ok", pool |-> pool]
  /\ \A n \in 1 .. len \div G :
       done[n] = IF done[n-1].r # "ok" THEN done[n-1]
                 ELSE pool_map_page(done[n-1].pool, root, pa + (n - 1) * G, pa + (n - 1) * G, perm)

\* The recursive function of map_range exists, and is what its equations say.
LEMMA PoolRangeDef ==
  ASSUME NEW pool, NEW root, NEW pa, NEW len \in Nat, NEW perm
  PROVE  PoolLoop(PoolRange(pool, root, pa, len, perm), pool, root, pa, len, perm)
<1> DEFINE n == len \div G
           S(x, k) == IF x.r # "ok" THEN x ELSE pool_map_page(x.pool, root, pa + (k - 1) * G, pa + (k - 1) * G, perm)
           first == [r |-> "ok", pool |-> pool]
           D(f, k) == IF k = 0 THEN first ELSE S(f[k-1], k)
           E(m) == \E f : f = [k \in 0..m |-> D(f, k)]
           T == {m \in 0..n : ~E(m)}
           done == PoolRange(pool, root, pa, len, perm)
<1>0. n \in Nat
  BY GranuleAssumption
<1>1. done = CHOOSE f : f = [k \in 0..n |-> D(f, k)]
  BY DEF PoolRange
<1> HIDE DEF S, first, n
<1>2. T = {}
  <2> SUFFICES ASSUME T # {} PROVE FALSE
    OBVIOUS
  <2>1. PICK m \in T : \A y \in T : m <= y
    <3> HIDE DEF T
    <3>1. T \in SUBSET Nat
      BY <1>0 DEF T
    <3> QED
      BY <3>1, FirstOne
  <2>2. m # 0
    <3>1. [k \in 0..0 |-> first] = [k \in 0..0 |-> D([kk \in 0..0 |-> first], k)]
      OBVIOUS
    <3> QED
      BY <3>1, Zenon
  <2>3. m - 1 \in 0..n /\ m - 1 \notin T /\ m \in 0..n
    <3>1. m \in 0..n
      BY <2>1
    <3>2. m - 1 \notin T
      <4> HIDE DEF T
      <4> QED
        BY <2>1, <3>1
    <3> QED
      BY <1>0, <3>1, <3>2, <2>2
  <2>4. PICK g : g = [k \in 0..m-1 |-> D(g, k)]
    BY <2>3
  <2> DEFINE f == [k \in 0..m |-> IF k < m THEN g[k] ELSE D(g, m)]
  <2>5. ASSUME NEW k \in 0..m
        PROVE  f[k] = D(f, k)
    <3>1. k # 0 => f[k-1] = g[k-1]
      BY <2>3
    <3>2. k < m => g[k] = D(g, k)
      BY <2>3, <2>4
    <3>3. k # 0 /\ k < m => D(f, k) = D(g, k)
      BY <3>1, SMTT(30)
    <3>4. k = m => f[k] = D(g, m) /\ D(f, k) = D(g, m)
      BY <3>1, <2>2, <2>3
    <3>5. k < m => f[k] = g[k]
      OBVIOUS
    <3>6. k = 0 => D(f, k) = first /\ D(g, k) = first
      OBVIOUS
    <3> HIDE DEF D, f
    <3> QED
      BY <3>2, <3>3, <3>4, <3>5, <3>6, <2>3, SMTT(30)
  <2>6. f = [k \in 0..m |-> D(f, k)]
    <3> HIDE DEF D
    <3> QED
      BY <2>5
  <2> QED
    BY <2>6, <2>1, Zenon
<1>3. \E f : f = [k \in 0..n |-> D(f, k)]
  <2> HIDE DEF E
  <2>1. n \in 0..n
    BY <1>0
  <2>2. E(n)
    BY <1>2, <2>1
  <2> QED
    BY <2>2, Zenon DEF E
<1> HIDE DEF done
<1>4. done = [k \in 0..n |-> D(done, k)]
  BY <1>1, <1>3, Zenon
<1>5. \A k \in 0..n : done[k] = D(done, k)
  <2> HIDE DEF D
  <2> QED
    BY <1>4, Zenon
<1>6. done[0] = first /\ \A k \in 1..n : done[k] = S(done[k-1], k)
  BY <1>0, <1>5
<1> QED
  BY <1>6 DEF PoolLoop, done, S, first, n

\* A region, mapped where it lies.
RangeMapped(pool, d, root, pa, len, perm) ==
  d.r = "ok" =>
    /\ \E lev : PoolTree(d.pool, lev)
    /\ \A q \in PoolRoots, vb \in Pages :
         Translate(d.pool.tables, q, vb) =
           IF q = root /\ pa <= vb /\ vb < pa + len THEN Entry(vb, perm) ELSE Translate(pool.tables, q, vb)

\* The loop of map_range has mapped the granules it has been through.
LEMMA PoolRangeMaps ==
  ASSUME NEW pool, NEW lev, PoolTree(pool, lev), NEW root \in PoolRoots, NEW pa \in Nat, pa % G = 0,
         NEW len \in Nat, pa + len <= Top, NEW perm \in PagePerms, NEW n \in 0 .. len \div G
  PROVE  RangeMapped(pool, PoolRange(pool, root, pa, len, perm)[n], root, pa, n * G, perm)
<1> DEFINE N == len \div G
           done == PoolRange(pool, root, pa, len, perm)
           P(k) == RangeMapped(pool, done[k], root, pa, k * G, perm)
           T == {k \in 0..N : ~P(k)}
<1>0. N \in Nat /\ G \in Nat /\ G > 0 /\ Top \in Nat
  BY GranuleAssumption, TableAssumption DEF Top, Span
<1>1. done[0] = [r |-> "ok", pool |-> pool]
  BY PoolRangeDef DEF PoolLoop
<1>2. \A k \in 1..N : done[k] = IF done[k-1].r # "ok" THEN done[k-1]
                                ELSE pool_map_page(done[k-1].pool, root, pa + (k - 1) * G, pa + (k - 1) * G, perm)
  <2>1. PoolLoop(done, pool, root, pa, len, perm)
    BY PoolRangeDef
  <2> HIDE DEF done
  <2> QED
    BY <2>1, Zenon DEF PoolLoop
<1> HIDE DEF done
<1>3. P(0)
  <2>1. done[0].pool = pool /\ 0 * G = 0
    BY <1>0, <1>1
  <2> QED
    BY <2>1, PageNat DEF RangeMapped
<1>4. ASSUME NEW k \in Nat, k < N, P(k)
      PROVE  P(k + 1)
  <2> DEFINE at == pa + k * G
             m == done[k + 1]
             c == done[k]
  <2>1. at \in Nat /\ at % G = 0 /\ pa + (k + 1) * G = at + G /\ at + G <= pa + len
    BY <1>4, Nth
  <2>2. at \in Pages
    <3> HIDE DEF at
    <3>1. at < Top
      BY <1>0, <2>1
    <3> QED
      BY <2>1, <3>1, PageOf
  <2>3. m = IF c.r # "ok" THEN c ELSE pool_map_page(c.pool, root, at, at, perm)
    <3>1. k + 1 \in 1..N /\ (k + 1) - 1 = k
      BY <1>0, <1>4, SMTT(30)
    <3> QED
      BY <1>2, <3>1
  <2> HIDE DEF m, c
  <2>4. SUFFICES ASSUME m.r = "ok"
                 PROVE  /\ \E l : PoolTree(m.pool, l)
                        /\ \A q \in PoolRoots, vb \in Pages :
                             Translate(m.pool.tables, q, vb) =
                               IF q = root /\ pa <= vb /\ vb < at + G THEN Entry(vb, perm) ELSE Translate(pool.tables, q, vb)
    BY <2>1 DEF RangeMapped, m
  <2>5. c.r = "ok" /\ m = pool_map_page(c.pool, root, at, at, perm)
    BY <2>3, <2>4, ZenonT(40)
  <2>6. /\ \E l : PoolTree(c.pool, l)
        /\ \A q \in PoolRoots, vb \in Pages :
             Translate(c.pool.tables, q, vb) =
               IF q = root /\ pa <= vb /\ vb < at THEN Entry(vb, perm) ELSE Translate(pool.tables, q, vb)
    BY <1>4, <2>5 DEF RangeMapped, c
  <2> HIDE DEF at
  <2>7. PICK l : PoolTree(c.pool, l)
    BY <2>6
  <2>8. (\E l2 : PoolTree(m.pool, l2)) /\ PoolGains(c.pool, m.pool, root, at, Entry(at, perm))
    BY <2>1, <2>2, <2>4, <2>5, <2>7, PoolPage, ZenonT(40)
  <2>9. ASSUME NEW q \in PoolRoots, NEW vb \in Pages
        PROVE  Translate(m.pool.tables, q, vb) =
                 IF q = root /\ pa <= vb /\ vb < at + G THEN Entry(vb, perm) ELSE Translate(pool.tables, q, vb)
    <3>1. vb \in Nat /\ vb % G = 0 /\ pa <= at
      BY <1>0, <2>1, PageAligned, SMTT(30) DEF at
    <3>2. CASE q = root /\ vb = at
      <4>1. Translate(m.pool.tables, q, vb) = Entry(at, perm)
        BY <2>8, <3>2, Zenon DEF PoolGains
      <4> QED
        BY <1>0, <2>1, <3>1, <3>2, <4>1, SMTT(30)
    <3>3. CASE ~(q = root /\ vb = at)
      <4>1. Translate(m.pool.tables, q, vb) = Translate(c.pool.tables, q, vb)
        BY <2>8, <3>3 DEF PoolGains
      <4>2. at <= vb /\ vb < at + G => vb = at
        BY <2>1, <3>1, OneGranule
      <4>3. q = root => (vb < at <=> vb < at + G)
        BY <1>0, <2>1, <3>1, <3>3, <4>2
      <4> QED
        BY <2>6, <4>1, <4>3, ZenonT(40)
    <3> QED
      BY <3>2, <3>3
  <2> QED
    BY <2>8, <2>9
<1> HIDE DEF P, N
<1>5. T = {}
  <2> SUFFICES ASSUME T # {} PROVE FALSE
    OBVIOUS
  <2>1. T \in SUBSET Nat
    BY <1>0
  <2>2. PICK k \in T : \A y \in T : k <= y
    <3> HIDE DEF T
    <3> QED
      BY <2>1, FirstOne
  <2>3. k \in 0..N /\ ~P(k) /\ k # 0
    BY <1>3
  <2>4. k - 1 \in Nat /\ k - 1 < N /\ k - 1 \notin T /\ k - 1 \in 0..N
    <3>1. k - 1 \in Nat /\ k - 1 < N /\ k - 1 \in 0..N /\ ~(k <= k - 1)
      BY <1>0, <2>3
    <3> HIDE DEF T
    <3> QED
      BY <2>2, <3>1
  <2>5. P(k - 1)
    BY <2>4
  <2>6. P((k - 1) + 1)
    BY <1>4, <2>4, <2>5
  <2>7. (k - 1) + 1 = k
    BY <1>0, <2>3
  <2> QED
    BY <2>3, <2>6, <2>7
<1>6. n \in 0..N
  BY DEF N
<1>7. P(n)
  BY <1>5, <1>6
<1> QED
  BY <1>7 DEF P, done

\* map_range maps the region or fails.
LEMMA RangeMaps ==
  ASSUME NEW pool, NEW lev, PoolTree(pool, lev), NEW root \in PoolRoots, NEW pa \in Nat,
         NEW len \in Nat, pa + len <= Top, NEW perm \in PagePerms
  PROVE  RangeMapped(pool, pool_map_range(pool, root, pa, len, perm), root, pa, len, perm)
<1> DEFINE d == pool_map_range(pool, root, pa, len, perm)
<1>1. CASE pa % G # 0 \/ len % G # 0
  <2>1. d = [r |-> "Misaligned", pool |-> pool]
    BY <1>1, Zenon DEF pool_map_range
  <2>2. d.r = "Misaligned"
    BY <2>1
  <2> HIDE DEF d
  <2>3. RangeMapped(pool, d, root, pa, len, perm)
    BY <2>2 DEF RangeMapped
  <2> QED
    BY <2>3 DEF d
<1>2. CASE ~(pa % G # 0 \/ len % G # 0)
  <2>1. d = PoolRange(pool, root, pa, len, perm)[len \div G]
    BY <1>2, Zenon DEF pool_map_range
  <2>2. len \div G \in Nat /\ (len \div G) * G = len
    BY <1>2, Multiple
  <2>3. len \div G \in 0 .. len \div G
    BY <2>2
  <2>4. pa % G = 0
    BY <1>2
  <2>5. RangeMapped(pool, PoolRange(pool, root, pa, len, perm)[len \div G], root, pa, (len \div G) * G, perm)
    BY <2>3, <2>4, PoolRangeMaps
  <2> QED
    BY <2>1, <2>2, <2>5
<1> QED
  BY <1>1, <1>2

\* A window of one granule is mapped, or nothing changes.
LEMMA WindowMaps ==
  ASSUME NEW pool, NEW lev, PoolTree(pool, lev), NEW root \in PoolRoots, NEW pa \in Pages,
         NEW m, m = map_kernel_window(pool, root, pa, G)
  PROVE  /\ m.r \in {"ok", "OutOfTables", "Overlap"}
         /\ m.r # "ok" => m.pool = pool
         /\ m.r = "Overlap" => Translate(pool.tables, root, pa) # Null
         /\ m.r = "ok" => (\E lev2 : PoolTree(m.pool, lev2)) /\ PoolGains(pool, m.pool, root, pa, Entry(pa, "rw"))
<1>1. pa \in Nat /\ pa % G = 0 /\ G \in Nat /\ G % G = 0 /\ G \div G = 1 /\ G > 0
  BY PageAligned, GranuleAssumption
<1>2. m = pool_map_range(pool, root, pa, G, "rw")
  <2>1. ~(G <= 0 \/ pa % G # 0 \/ G % G # 0)
    BY <1>1
  <2> QED
    BY <2>1, Zenon DEF map_kernel_window
<1>3. m = PoolRange(pool, root, pa, G, "rw")[G \div G]
  <2>1. ~(pa % G # 0 \/ G % G # 0)
    BY <1>1
  <2> QED
    BY <1>2, <2>1, Zenon DEF pool_map_range
<1> DEFINE done == PoolRange(pool, root, pa, G, "rw")
<1>4. /\ done[0] = [r |-> "ok", pool |-> pool]
      /\ \A k \in 1 .. G \div G : done[k] = IF done[k-1].r # "ok" THEN done[k-1]
                                   ELSE pool_map_page(done[k-1].pool, root, pa + (k - 1) * G, pa + (k - 1) * G, "rw")
  <2>1. PoolLoop(done, pool, root, pa, G, "rw")
    BY <1>1, PoolRangeDef, Zenon
  <2> HIDE DEF done
  <2> QED
    BY <2>1, Zenon DEF PoolLoop
<1> HIDE DEF done
<1>5. done[1] = pool_map_page(pool, root, pa + 0 * G, pa + 0 * G, "rw")
  <2>1. done[1] = IF done[1-1].r # "ok" THEN done[1-1]
                  ELSE pool_map_page(done[1-1].pool, root, pa + (1 - 1) * G, pa + (1 - 1) * G, "rw")
    <3>1. 1 \in 1 .. G \div G
      BY <1>1, SMTT(30)
    <3> QED
      BY <1>4, <3>1
  <2>2. 1 - 1 = 0 /\ done[0].r = "ok" /\ done[0].pool = pool
    BY <1>4
  <2> QED
    BY <2>1, <2>2, ZenonT(40)
<1>6. pa + 0 * G = pa /\ m = done[1]
  BY <1>1, <1>3 DEF done
<1>7. m = pool_map_page(pool, root, pa, pa, "rw") /\ "rw" \in PagePerms
  BY <1>5, <1>6, ZenonT(40) DEF PagePerms
<1> QED
  BY <1>1, <1>7, PoolPage

-----------------------------------------------------------------------------
(* The user's tables *)

\* A walk that has come to level k, or found an empty entry before.
UserAt(tabs, lev, root, va, w, k) ==
  /\ w = [r |-> w.r, t |-> w.t, level |-> w.level]
  /\ w.r \in {"ok", "MissingTable"} /\ w.level \in 0..3
  /\ w.t \in DOMAIN lev /\ lev[w.t] = w.level
  /\ Hop(tabs, root, va, w.level) = Entry(w.t, "table")
  /\ w.r = "ok" => w.level = k
  /\ w.r = "MissingTable" => w.level # 3 /\ tabs[w.t][index(va, w.level)] = Null

\* One level of it.
LEMMA UserStepKeeps ==
  ASSUME NEW tabs, NEW lev, NEW root, Tree(tabs, lev, {root}), NEW va \in Nat, NEW k \in 0..2,
         NEW w, UserAt(tabs, lev, root, va, w, k)
  PROVE  UserAt(tabs, lev, root, va, UserStep(tabs, w, va, k), k + 1)
<1> DEFINE i == index(va, k)
           e == tabs[w.t][i]
           v == UserStep(tabs, w, va, k)
<1>0. k \in 0..3 /\ k # 3 /\ i \in 0..Fan-1 /\ k + 1 \in 0..3
  BY IndexType, SMTT(30)
<1>00. /\ w = [r |-> w.r, t |-> w.t, level |-> w.level]
       /\ w.r \in {"ok", "MissingTable"} /\ w.level \in 0..3
       /\ w.t \in DOMAIN lev /\ lev[w.t] = w.level
       /\ Hop(tabs, root, va, w.level) = Entry(w.t, "table")
       /\ w.r = "ok" => w.level = k
  BY ZenonT(40) DEF UserAt
<1>1. CASE w.r # "ok"
  <2>1. v = w
    BY <1>1, Zenon DEF UserStep
  <2> QED
    BY <1>1, <2>1 DEF UserAt
<1>2. CASE w.r = "ok" /\ e = Null
  <2> DEFINE x == [w EXCEPT !.r = "MissingTable"]
  <2>1. v = x
    BY <1>2, Zenon DEF UserStep
  <2>2. x = [r |-> "MissingTable", t |-> w.t, level |-> w.level]
    BY <1>00
  <2>3. x.r = "MissingTable" /\ x.t = w.t /\ x.level = w.level /\ x = [r |-> x.r, t |-> x.t, level |-> x.level]
    BY <2>2
  <2>4. w.level = k
    BY <1>00, <1>2, ZenonT(40)
  <2> HIDE DEF x, v
  <2>5. UserAt(tabs, lev, root, va, x, k + 1)
    BY <1>0, <1>00, <1>2, <2>3, <2>4 DEF UserAt
  <2>6. v = UserStep(tabs, w, va, k)
    BY Zenon DEF v
  <2> QED
    BY <2>1, <2>5, <2>6
<1>3. CASE w.r = "ok" /\ e # Null
  <2>1. w.t \in DOMAIN lev /\ lev[w.t] = k /\ Hop(tabs, root, va, k) = Entry(w.t, "table")
    BY <1>00, <1>3, Zenon
  <2>2. e.perm = "table" /\ e.to \in DOMAIN lev /\ lev[e.to] = k + 1 /\ e \in PTE
    <3>1. tabs[w.t] \in Table /\ tabs[w.t][i] # Null
      BY <1>3, <2>1, Zenon DEF Tree
    <3> HIDE DEF i
    <3>2. tabs[w.t][i] \in PTE
      BY <1>0, <3>1, ZenonT(40) DEF Table
    <3> QED
      BY <1>0, <2>1, <3>1, <3>2, ZenonT(40) DEF Tree
  <2>3. e # Junk
    BY <2>2 DEF Junk
  <2> DEFINE x == [r |-> "ok", t |-> e.to, level |-> k + 1]
  <2>4. v = x
    BY <1>3, <2>3, ZenonT(40) DEF UserStep
  <2>5. Hop(tabs, root, va, k + 1) = Entry(e.to, "table")
    <3>1. Hop(tabs, root, va, k + 1) = Look(tabs, Entry(w.t, "table"), va, k)
      BY <1>0, <2>1, HopStep, SMTT(30)
    <3>2. Hop(tabs, root, va, k + 1) = e
      BY <3>1, EntryParts, ZenonT(40) DEF Look
    <3> QED
      BY <2>2, <3>2, EntryParts, Zenon
  <2>6. x.r = "ok" /\ x.t = e.to /\ x.level = k + 1 /\ x = [r |-> x.r, t |-> x.t, level |-> x.level]
    BY Zenon
  <2> HIDE DEF x, v
  <2>7. UserAt(tabs, lev, root, va, x, k + 1)
    BY <1>0, <2>2, <2>5, <2>6, Zenon DEF UserAt
  <2>8. v = UserStep(tabs, w, va, k)
    BY DEF v
  <2> QED
    BY <2>4, <2>7, <2>8
<1> QED
  BY <1>1, <1>2, <1>3

\* A walk comes to the table that would hold the page, or to an empty entry;
\* it never finds an entry that is no table.
LEMMA UserWalkEnds ==
  ASSUME NEW tabs, NEW lev, NEW root, Tree(tabs, lev, {root}), NEW va \in Nat,
         NEW w, w = UserWalk(tabs, root, va)
  PROVE  UserAt(tabs, lev, root, va, w, 3)
<1> DEFINE a == [r |-> "ok", t |-> root, level |-> 0]
           b == UserStep(tabs, a, va, 0)
           c == UserStep(tabs, b, va, 1)
           d == UserStep(tabs, c, va, 2)
<1>1. UserAt(tabs, lev, root, va, a, 0)
  <2>1. a.r = "ok" /\ a.t = root /\ a.level = 0 /\ a = [r |-> a.r, t |-> a.t, level |-> a.level]
    OBVIOUS
  <2>2. root \in DOMAIN lev /\ lev[root] = 0
    BY DEF Tree
  <2>3. Hop(tabs, root, va, 0) = Entry(root, "table")
    BY HopStep
  <2> HIDE DEF a
  <2> QED
    BY <2>1, <2>2, <2>3 DEF UserAt
<1> HIDE DEF a
<1>2. UserAt(tabs, lev, root, va, b, 0 + 1)
  BY <1>1, UserStepKeeps
<1> HIDE DEF b
<1>3. UserAt(tabs, lev, root, va, c, 1 + 1)
  BY <1>2, UserStepKeeps, SMTT(30)
<1> HIDE DEF c
<1>4. UserAt(tabs, lev, root, va, d, 2 + 1)
  BY <1>3, UserStepKeeps
<1>5. w = d
  BY DEF UserWalk, a, b, c
<1> QED
  BY <1>4, <1>5, SMTT(30)

\* What one page changes in the user's tables.
UserGains(tabs, tabs2, root, va, e) ==
  /\ Translate(tabs, root, va) = Null
  /\ Translate(tabs2, root, va) = e
  /\ \A vb \in Pages : vb # va => Translate(tabs2, root, vb) = Translate(tabs, root, vb)

\* An entry e written into table t of level l, at which it was empty.
Written(tabs, lev, tabs2, t, l, e) ==
  /\ t \in DOMAIN lev /\ lev[t] = l
  /\ \E i \in 0..Fan-1 : tabs[t][i] = Null /\ tabs2 = Put(tabs, t, i, e)

\* user_map_frame maps the page at its address, or changes nothing.
LEMMA UserMaps ==
  ASSUME NEW tabs, NEW lev, NEW root, Tree(tabs, lev, {root}), NEW va \in Nat, NEW pa \in Nat,
         NEW perm \in PagePerms, NEW m, m = user_map_frame(tabs, root, va, pa, perm)
  PROVE  /\ m.r \in {"ok", "BadVA", "Overlap", "MissingTable"}
         /\ m.r # "ok" => m.tabs = tabs
         /\ m.r = "ok" =>
              /\ va \in Pages
              /\ Tree(m.tabs, lev, {root})
              /\ UserGains(tabs, m.tabs, root, va, Entry(pa, perm))
              /\ \E t : Written(tabs, lev, m.tabs, t, 3, Entry(pa, perm))
<1> DEFINE w == UserWalk(tabs, root, va)
           i == index(va, 3)
           bad == va % G # 0 \/ va < G \/ va + G > Top
           r == IF bad THEN "BadVA"
                ELSE IF w.r = "ok" /\ tabs[w.t][i] # Null THEN "Overlap"
                ELSE w.r
           e == Entry(pa, perm)
<1>1. m = [r |-> r, tabs |-> IF r = "ok" THEN Put(tabs, w.t, i, e) ELSE tabs]
  BY Zenon DEF user_map_frame
<1>2. UserAt(tabs, lev, root, va, w, 3)
  BY UserWalkEnds
<1> HIDE DEF w, bad
<1>3. w.r \in {"ok", "MissingTable"}
  BY <1>2 DEF UserAt
<1>4. r \in {"ok", "BadVA", "Overlap", "MissingTable"}
  BY <1>3, Zenon
<1>5. m.r = r /\ m.tabs = IF r = "ok" THEN Put(tabs, w.t, i, e) ELSE tabs
  BY <1>1
<1>6. ASSUME r = "ok"
      PROVE  /\ va \in Pages
             /\ Tree(m.tabs, lev, {root})
             /\ UserGains(tabs, m.tabs, root, va, e)
             /\ \E t : Written(tabs, lev, m.tabs, t, 3, e)
  <2>1. ~bad /\ w.r = "ok" /\ tabs[w.t][i] = Null
    BY <1>3, <1>6
  <2>2. va \in Pages
    <3>1. Top \in Nat /\ G \in Nat /\ G > 0
      BY GranuleAssumption, TableAssumption, SMTT(30) DEF Top, Span
    <3>2. va % G = 0 /\ va < Top
      BY <2>1, <3>1, SMTT(30) DEF bad
    <3> QED
      BY <3>2, PageOf
  <2>3. w.t \in DOMAIN lev /\ lev[w.t] = 3 /\ Hop(tabs, root, va, 3) = Entry(w.t, "table")
    BY <1>2, <2>1 DEF UserAt
  <2>4. e \in PTE /\ e.perm \in PagePerms
    BY Zenon DEF Entry, PTE, PagePerms
  <2>5. m.tabs = Put(tabs, w.t, i, e)
    BY <1>5, <1>6
  <2> DEFINE t == w.t
             tabs2 == m.tabs
             roots == {root}
  <2>6. /\ Tree(tabs, lev, roots) /\ root \in roots /\ t \in DOMAIN lev /\ Hop(tabs, root, va, 3) = Entry(t, "table")
        /\ tabs[t][index(va, 3)] = Null /\ tabs2 = Put(tabs, t, index(va, 3), e)
    BY <2>1, <2>3, <2>5, ZenonT(40)
  <2> HIDE DEF t, tabs2, roots, e, r
  <2>7. /\ Tree(tabs2, lev, roots)
        /\ Translate(tabs, root, va) = Null
        /\ Translate(tabs2, root, va) = e
        /\ \A q \in roots, vb \in Pages : vb \in Nat /\ (q # root \/ vb # va) =>
             Translate(tabs2, q, vb) = Translate(tabs, q, vb)
    BY <2>2, <2>4, <2>6, TreePage, SMTT(30)
  <2>8. UserGains(tabs, tabs2, root, va, e)
    BY <2>6, <2>7, PageNat DEF UserGains
  <2>9. i \in 0..Fan-1
    BY IndexType, SMTT(30)
  <2>10. Written(tabs, lev, tabs2, t, 3, e)
    BY <2>3, <2>6, <2>9, Zenon DEF Written, t
  <2> QED
    BY <2>2, <2>7, <2>8, <2>10, Zenon DEF tabs2, roots
<1> HIDE DEF r
<1> QED
  BY <1>4, <1>5, <1>6, Zenon DEF e

\* user_install_table links the table n where the walk ended, or changes nothing.
LEMMA UserInstalls ==
  ASSUME NEW tabs, NEW lev, NEW root, Tree(tabs, lev, {root}), NEW va \in Nat,
         NEW n \in DOMAIN tabs, n \in Nat, n \notin DOMAIN lev, tabs[n] = ZeroTable,
         NEW m, m = user_install_table(tabs, root, va, n)
  PROVE  /\ m.r \in {"ok", "BadVA", "Overlap"}
         /\ m.r # "ok" => m.tabs = tabs
         /\ m.r = "ok" => \E t \in DOMAIN lev :
              /\ lev[t] # 3
              /\ Tree(m.tabs, Below(lev, n, lev[t]), {root})
              /\ \A vb \in Pages : Translate(m.tabs, root, vb) = Translate(tabs, root, vb)
              /\ Written(tabs, lev, m.tabs, t, lev[t], Entry(n, "table"))
<1> DEFINE w == UserWalk(tabs, root, va)
           bad == va >= Top
           r == IF bad THEN "BadVA" ELSE IF w.r = "ok" THEN "Overlap" ELSE IF w.r = "MissingTable" THEN "ok" ELSE w.r
           i == index(va, w.level)
           e == Entry(n, "table")
<1>1. m = [r |-> r, tabs |-> IF r = "ok" THEN Put(tabs, w.t, i, e) ELSE tabs]
  BY Zenon DEF user_install_table
<1>2. UserAt(tabs, lev, root, va, w, 3)
  BY UserWalkEnds
<1> HIDE DEF w, bad
<1>3. w.r \in {"ok", "MissingTable"}
  BY <1>2 DEF UserAt
<1>4. r \in {"ok", "BadVA", "Overlap"}
  BY <1>3
<1>5. m.r = r /\ m.tabs = IF r = "ok" THEN Put(tabs, w.t, i, e) ELSE tabs
  BY <1>1
<1>6. ASSUME r = "ok"
      PROVE  \E t \in DOMAIN lev :
               /\ lev[t] # 3
               /\ Tree(m.tabs, Below(lev, n, lev[t]), {root})
               /\ \A vb \in Pages : Translate(m.tabs, root, vb) = Translate(tabs, root, vb)
               /\ Written(tabs, lev, m.tabs, t, lev[t], e)
  <2>1. w.r = "MissingTable"
    BY <1>3, <1>6, Zenon
  <2> DEFINE t == w.t
             tabs2 == m.tabs
             roots == {root}
             lev2 == Below(lev, n, lev[t])
  <2>2. t \in DOMAIN lev /\ lev[t] # 3 /\ i \in 0..Fan-1 /\ tabs[t][i] = Null /\ Tree(tabs, lev, roots)
    BY <1>2, <2>1, IndexType, ZenonT(40) DEF UserAt
  <2>3. tabs2 = Put(tabs, t, i, e) /\ lev2 = Below(lev, n, lev[t])
    BY <1>5, <1>6
  <2>4. e = Entry(n, "table") /\ root \in roots
    BY ZenonT(40)
  <2> HIDE DEF t, tabs2, roots, e, r, i, lev2
  <2>5. /\ Tree(tabs2, lev2, roots)
        /\ \A q \in roots, vb \in Nat : Translate(tabs2, q, vb) = Translate(tabs, q, vb)
    BY <2>2, <2>3, <2>4, TreeLink, SMTT(30)
  <2>6. Written(tabs, lev, tabs2, t, lev[t], e)
    BY <2>2, <2>3 DEF Written
  <2>7. \A vb \in Pages : Translate(tabs2, root, vb) = Translate(tabs, root, vb)
    BY <2>4, <2>5, PageNat
  <2> QED
    BY <2>2, <2>3, <2>5, <2>6, <2>7, Zenon DEF tabs2, roots
<1> HIDE DEF r
<1> QED
  BY <1>4, <1>5, <1>6, ZenonT(40) DEF e

\* Every table of the tree but the root is linked from a table above the last
\* level.
Linked(tabs, lev, root) ==
  \A t \in DOMAIN lev \ {root} : \E u \in DOMAIN lev, i \in 0..Fan-1 : lev[u] # 3 /\ tabs[u][i] = Entry(t, "table")

\* Writing a page keeps the links.
LEMMA LinkedPage ==
  ASSUME NEW tabs, NEW lev, NEW roots, Tree(tabs, lev, roots), NEW root, Linked(tabs, lev, root),
         NEW t, NEW l, NEW e \in PTE, NEW tabs2, Written(tabs, lev, tabs2, t, l, e)
  PROVE  Linked(tabs2, lev, root)
<1> DEFINE D == DOMAIN tabs
<1>1. PICK i \in 0..Fan-1 : tabs[t][i] = Null /\ tabs2 = Put(tabs, t, i, e)
  BY Zenon DEF Written
<1>2. t \in D /\ tabs \in [D -> Table] /\ DOMAIN lev \subseteq D
  BY Zenon DEF Written, Tree
<1> HIDE DEF D
<1>3. \A u \in D, j \in 0..Fan-1 : ~(u = t /\ j = i) => Put(tabs, t, i, e)[u][j] = tabs[u][j]
  BY <1>2, PutParts, SMTT(30)
<1>4. \A u \in DOMAIN lev, j \in 0..Fan-1 : tabs[u][j] # Null => tabs2[u][j] = tabs[u][j]
  BY <1>1, <1>2, <1>3, Zenon
<1>5. \A x : Entry(x, "table") # Null
  BY EntryParts, ZenonT(40)
<1> SUFFICES ASSUME NEW x \in DOMAIN lev \ {root}
             PROVE  \E u \in DOMAIN lev, j \in 0..Fan-1 : lev[u] # 3 /\ tabs2[u][j] = Entry(x, "table")
  BY Zenon DEF Linked
<1>6. PICK u \in DOMAIN lev, j \in 0..Fan-1 : lev[u] # 3 /\ tabs[u][j] = Entry(x, "table")
  BY Zenon DEF Linked
<1>7. tabs2[u][j] = Entry(x, "table")
  BY <1>4, <1>5, <1>6, Zenon
<1> QED
  BY <1>6, <1>7, Zenon

\* Linking a table keeps the links too, and adds the one to it.
LEMMA LinkedTable ==
  ASSUME NEW tabs, NEW lev, NEW roots, Tree(tabs, lev, roots), NEW root, Linked(tabs, lev, root),
         NEW t, NEW l, l # 3, NEW n \in Nat, n \notin DOMAIN lev,
         NEW tabs2, Written(tabs, lev, tabs2, t, l, Entry(n, "table"))
  PROVE  Linked(tabs2, Below(lev, n, l), root)
<1> DEFINE lev2 == Below(lev, n, l)
           D == DOMAIN tabs
           e == Entry(n, "table")
<1>1. /\ DOMAIN lev2 = DOMAIN lev \cup {n}
      /\ \A u \in DOMAIN lev : lev2[u] = lev[u]
  BY DEF Below
<1>2. e \in PTE
  BY DEF Entry, PTE
<1>3. Linked(tabs2, lev, root)
  BY <1>2, LinkedPage, Zenon
<1>4. PICK i \in 0..Fan-1 : tabs2 = Put(tabs, t, i, e)
  BY Zenon DEF Written
<1>5. t \in D /\ tabs \in [D -> Table] /\ t \in DOMAIN lev /\ lev[t] = l
  BY ZenonT(40) DEF Written, Tree
<1> HIDE DEF D, e, lev2
<1>6. Put(tabs, t, i, e)[t][i] = e
  BY <1>2, <1>5, PutParts, SMTT(30)
<1>7. ASSUME NEW x \in DOMAIN lev2 \ {root}
      PROVE  \E u \in DOMAIN lev2, j \in 0..Fan-1 : lev2[u] # 3 /\ tabs2[u][j] = Entry(x, "table")
  <2>1. CASE x = n
    BY <1>1, <1>4, <1>5, <1>6, <2>1, Zenon DEF e
  <2>2. CASE x # n
    <3>1. PICK u \in DOMAIN lev, j \in 0..Fan-1 : lev[u] # 3 /\ tabs2[u][j] = Entry(x, "table")
      BY <1>1, <1>3, <2>2, ZenonT(40) DEF Linked
    <3> QED
      BY <1>1, <3>1, ZenonT(40)
  <2> QED
    BY <2>1, <2>2
<1>8. Linked(tabs2, lev2, root)
  BY <1>7 DEF Linked
<1> QED
  BY <1>8 DEF lev2

-----------------------------------------------------------------------------
(* UserSpace and FrameAlloc *)

\* The address a granule further is aligned too.
LEMMA GranuleAfter ==
  ASSUME NEW a \in Nat, a % G = 0
  PROVE  (a + G) % G = 0
<1> DEFINE p == a \div G
<1>1. p \in Nat /\ a = p * G
  BY Multiple
<1>2. \A q \in Nat : (q * G) % G = 0
  BY GranuleAssumption
<1> HIDE DEF p
<1>3. a + G = (p + 1) * G
  BY <1>1, GranuleAssumption
<1> QED
  BY <1>1, <1>2, <1>3

\* What FrameAlloc and UserSpace keep of a window that starts at lo: the tables
\* of the tree have been handed out, and every other frame is empty or junk.
Built(us, lev, lo) ==
  /\ us = [r |-> us.r, next |-> us.next, end |-> us.end, root |-> us.root, tabs |-> us.tabs]
  /\ us.next \in Nat /\ us.next % G = 0 /\ lo \in Nat /\ lo <= us.next /\ us.end \in Nat /\ us.next <= us.end
  /\ us.tabs \in [DOMAIN us.tabs -> Table]
  /\ \A f \in DOMAIN us.tabs : f \in Nat /\ f % G = 0
  /\ \A f \in Nat : f % G = 0 /\ f < us.end => f \in DOMAIN us.tabs
  /\ DOMAIN lev \subseteq DOMAIN us.tabs
  /\ \A t \in DOMAIN lev : lo <= t /\ t < us.next
  /\ \A t \in DOMAIN us.tabs : t \notin DOMAIN lev => us.tabs[t] \in {ZeroTable, JunkTable}

\* ... and the tables are a tree below the root.
Rooted(us, lev) == Tree(us.tabs, lev, {us.root}) /\ Linked(us.tabs, lev, us.root)

\* The next frame of us has been handed out, cleared.
Allocated(us, v, lev, lo) ==
  /\ us.r = "ok" /\ Built(v, lev, lo)
  /\ v.next = us.next + G /\ v.end = us.end /\ v.root = us.root
  /\ us.next \in DOMAIN us.tabs /\ us.next \notin DOMAIN lev /\ us.next < us.end
  /\ DOMAIN v.tabs = DOMAIN us.tabs /\ v.tabs[us.next] = ZeroTable
  /\ \A t \in DOMAIN lev : v.tabs[t] = us.tabs[t]

\* That is what alloc_contig does, unless it fails.
LEMMA AllocKeeps ==
  ASSUME NEW us, NEW lev, NEW lo, Built(us, lev, lo), NEW v, v = alloc_contig(us, 1), v.r = "ok"
  PROVE  Allocated(us, v, lev, lo)
<1> DEFINE n == us.next
           D == DOMAIN us.tabs
           tabs2 == [f \in D |-> IF n <= f /\ f < n + 1 * G THEN ZeroTable ELSE us.tabs[f]]
           x == [us EXCEPT !.next = @ + 1 * G,
                           !.tabs = [f \in DOMAIN @ |-> IF us.next <= f /\ f < us.next + 1 * G THEN ZeroTable ELSE @[f]]]
<1>0. /\ us = [r |-> us.r, next |-> us.next, end |-> us.end, root |-> us.root, tabs |-> us.tabs]
      /\ n \in Nat /\ n % G = 0 /\ lo \in Nat /\ lo <= n /\ us.end \in Nat /\ n <= us.end
      /\ us.tabs \in [D -> Table]
      /\ \A f \in D : f \in Nat /\ f % G = 0
      /\ \A f \in Nat : f % G = 0 /\ f < us.end => f \in D
      /\ DOMAIN lev \subseteq D
      /\ \A t \in DOMAIN lev : lo <= t /\ t < n
      /\ \A t \in D : t \notin DOMAIN lev => us.tabs[t] \in {ZeroTable, JunkTable}
  BY DEF Built
<1>1. G \in Nat /\ G > 0 /\ 1 * G = G
  BY GranuleAssumption
<1>a. us.r = "ok"
  <2>1. us.r # "ok" => v = us
    BY Zenon DEF alloc_contig
  <2> QED
    BY <2>1
<1>2. CASE us.next + 1 * G > us.end
  <2>1. v = [us EXCEPT !.r = "OutOfFrames"]
    BY <1>a, <1>2, Zenon DEF alloc_contig
  <2>2. v.r = "OutOfFrames"
    BY <1>0, <2>1, Zenon
  <2> QED
    BY <2>2
<1>3. CASE ~(us.next + 1 * G > us.end)
  <2>1. v = x
    BY <1>a, <1>3, Zenon DEF alloc_contig
  <2>2. x = [r |-> us.r, next |-> n + 1 * G, end |-> us.end, root |-> us.root, tabs |-> tabs2]
    <3> DEFINE y == [us EXCEPT !.next = @ + 1 * G]
    <3>1. y = [r |-> us.r, next |-> n + 1 * G, end |-> us.end, root |-> us.root, tabs |-> us.tabs]
      BY <1>0
    <3>2. x = [y EXCEPT !.tabs = [f \in DOMAIN y.tabs |-> IF us.next <= f /\ f < us.next + 1 * G THEN ZeroTable ELSE y.tabs[f]]]
      BY Zenon
    <3> HIDE DEF y
    <3>3. y.tabs = us.tabs
      BY <3>1
    <3>4. x = [y EXCEPT !.tabs = tabs2]
      BY <3>2, <3>3, ZenonT(40)
    <3> HIDE DEF x, tabs2, n
    <3> QED
      BY <3>1, <3>4
  <2> HIDE DEF x
  <2>3. /\ v.r = us.r /\ v.next = n + G /\ v.end = us.end /\ v.root = us.root /\ v.tabs = tabs2
        /\ v = [r |-> v.r, next |-> v.next, end |-> v.end, root |-> v.root, tabs |-> v.tabs]
    BY <1>1, <2>1, <2>2, SMTT(30)
  <2>4. n + G <= us.end /\ n < us.end /\ n \in D /\ n \notin DOMAIN lev
    BY <1>0, <1>1, <1>3, SMTT(30)
  <2>5. \A f \in D : n <= f /\ f < n + G <=> f = n
    <3> SUFFICES ASSUME NEW f \in D
                 PROVE  n <= f /\ f < n + G <=> f = n
      BY Zenon
    <3>1. f \in Nat /\ f % G = 0
      BY <1>0, Zenon
    <3>2. n <= f /\ f < n + G => n = f
      <4> HIDE DEF n
      <4> QED
        BY <1>0, <3>1, OneGranule, Zenon
    <3> QED
      BY <1>0, <1>1, <3>1, <3>2, SMTT(30)
  <2>6. \A f \in D : tabs2[f] = IF f = n THEN ZeroTable ELSE us.tabs[f]
    BY <1>1, <2>5, Zenon
  <2>7. DOMAIN tabs2 = D
    BY Zenon
  <2>8. ZeroTable \in Table
    BY EntryParts, Zenon
  <2>9. tabs2 \in [D -> Table]
    BY <1>0, <2>6, <2>7, <2>8, Zenon
  <2> HIDE DEF tabs2
  <2>10. \A t \in DOMAIN lev : t \in D => tabs2[t] = us.tabs[t]
    BY <2>4, <2>6, Zenon
  <2>11. (n + G) % G = 0 /\ n + G \in Nat /\ lo <= n + G
    BY <1>0, <1>1, GranuleAfter, SMTT(30)
  <2>12. Built(v, lev, lo)
    <3>1. \A t \in D : t \notin DOMAIN lev => tabs2[t] \in {ZeroTable, JunkTable}
      BY <1>0, <2>6, Zenon
    <3>2. \A t \in DOMAIN lev : lo <= t /\ t < n + G
      <4>1. \A t \in DOMAIN lev : t \in Nat /\ lo <= t /\ t < n
        BY <1>0, Zenon
      <4> QED
        BY <1>0, <1>1, <4>1, SMTT(30)
    <3> HIDE DEF D, n
    <3>3. DOMAIN v.tabs = D /\ v.tabs \in [DOMAIN v.tabs -> Table]
      BY <2>3, <2>7, <2>9, ZenonT(40)
    <3> QED
      BY <1>0, <2>3, <2>4, <2>11, <3>1, <3>2, <3>3, Zenon DEF Built
  <2> QED
    BY <1>0, <2>3, <2>4, <2>6, <2>7, <2>10, <2>12, ZenonT(40) DEF Allocated
<1> QED
  BY <1>2, <1>3, ZenonT(40)

\* A walk of UserSpace::map_page that has come to level k; us is where it began.
BuildAt(w, lev, us, lo, va, k) ==
  /\ w = [t |-> w.t, us |-> w.us]
  /\ w.us.r = "ok" /\ Built(w.us, lev, lo) /\ Rooted(w.us, lev)
  /\ w.us.root = us.root /\ w.us.end = us.end /\ us.next <= w.us.next /\ DOMAIN w.us.tabs = DOMAIN us.tabs
  /\ w.t \in DOMAIN lev /\ lev[w.t] = k
  /\ Hop(w.us.tabs, us.root, va, k) = Entry(w.t, "table")
  /\ \A vb \in Nat : Translate(w.us.tabs, us.root, vb) = Translate(us.tabs, us.root, vb)

\* What linking the table n into entry i of the table t does to the tree.
Grown(tabs, lev, roots, t, i, n, tabs2) ==
  /\ Tree(tabs2, Below(lev, n, lev[t]), roots)
  /\ \A r \in roots, va \in Nat :
       /\ Hop(tabs, r, va, lev[t]) = Entry(t, "table") /\ index(va, lev[t]) = i =>
            Hop(tabs2, r, va, lev[t] + 1) = Entry(n, "table")
       /\ Translate(tabs2, r, va) = Translate(tabs, r, va)

\* The frame that BuildStep takes becomes such a table.
LEMMA NewTableGrows ==
  ASSUME NEW tabs, NEW lev, NEW roots, Tree(tabs, lev, roots),
         NEW t \in DOMAIN lev, lev[t] # 3, NEW i \in 0..Fan-1, tabs[t][i] = Null,
         NEW n \in DOMAIN tabs, n \in Nat, n \notin DOMAIN lev, tabs[n] = ZeroTable,
         NEW tabs2, tabs2 = Put(tabs, t, i, Entry(n, "table"))
  PROVE  Grown(tabs, lev, roots, t, i, n, tabs2)
<1>1. /\ Tree(tabs2, Below(lev, n, lev[t]), roots)
      /\ \A r \in roots, va \in Nat :
           /\ \A k \in 0..3 : Hop(tabs, r, va, k) # Null => Hop(tabs2, r, va, k) = Hop(tabs, r, va, k)
           /\ Hop(tabs, r, va, lev[t]) = Entry(t, "table") /\ index(va, lev[t]) = i =>
                Hop(tabs2, r, va, lev[t] + 1) = Entry(n, "table")
           /\ Translate(tabs2, r, va) = Translate(tabs, r, va)
  BY TreeLink
<1> QED
  BY <1>1, Zenon DEF Grown

\* The frames after the table n has been linked into entry i of the table t.
LinkedIn(x, y, lev2, lo, t, i, k) ==
  /\ y.r = "ok" /\ y.next = x.next + G /\ y.end = x.end /\ y.root = x.root /\ DOMAIN y.tabs = DOMAIN x.tabs
  /\ Built(y, lev2, lo) /\ Rooted(y, lev2)
  /\ x.next \in DOMAIN lev2 /\ lev2[x.next] = k + 1
  /\ \A vb \in Nat :
       /\ Hop(x.tabs, x.root, vb, k) = Entry(t, "table") /\ index(vb, k) = i =>
            Hop(y.tabs, x.root, vb, k + 1) = Entry(x.next, "table")
       /\ Translate(y.tabs, x.root, vb) = Translate(x.tabs, x.root, vb)

\* The frame that has become a table is no longer a spare one.
LEMMA LinkBuilt ==
  ASSUME NEW x, NEW lev, NEW lo, NEW k \in 0..2, NEW g, Allocated(x, g, lev, lo), Built(x, lev, lo),
         NEW t \in DOMAIN lev, NEW i \in 0..Fan-1, NEW n, n = x.next, NEW lev2, lev2 = Below(lev, n, k),
         NEW tabs, tabs = g.tabs, NEW tabs2, tabs2 = Put(tabs, t, i, Entry(n, "table")),
         NEW y, y = [r |-> "ok", next |-> g.next, end |-> g.end, root |-> g.root, tabs |-> tabs2]
  PROVE  Built(y, lev2, lo)
<1> DEFINE D == DOMAIN tabs
           next == g.next
           end == g.end
<1>1. /\ next \in Nat /\ next % G = 0 /\ lo \in Nat /\ lo <= next /\ end \in Nat /\ next <= end
      /\ tabs \in [D -> Table]
      /\ \A f \in D : f \in Nat /\ f % G = 0
      /\ \A f \in Nat : f % G = 0 /\ f < end => f \in D
      /\ DOMAIN lev \subseteq D
      /\ \A u \in DOMAIN lev : lo <= u /\ u < next
      /\ \A u \in D : u \notin DOMAIN lev => tabs[u] \in {ZeroTable, JunkTable}
  BY Zenon DEF Allocated, Built
<1>2. next = n + G /\ n \in D /\ n \in Nat /\ lo <= n
  BY Zenon DEF Allocated, Built
<1> HIDE DEF D, next, end
<1>3. n < next
  BY <1>2, GranuleAssumption, SMT
<1>4. t \in D /\ Entry(n, "table") \in PTE
  BY <1>1, <1>2, Zenon DEF Entry, PTE
<1>5. Stored(D, tabs, t, tabs2)
  BY <1>1, <1>4, PutStores, Zenon
<1>6. DOMAIN lev2 = DOMAIN lev \cup {n}
  BY Zenon DEF Below
<1>7. DOMAIN lev2 \subseteq D /\ \A u \in DOMAIN lev2 : lo <= u /\ u < next
  BY <1>1, <1>2, <1>3, <1>6, Zenon
<1>8. \A u \in D : u \notin DOMAIN lev2 => tabs2[u] \in {ZeroTable, JunkTable}
  BY <1>1, <1>5, <1>6, Zenon DEF Stored
<1>9. /\ y.next = next /\ y.end = end /\ y.tabs = tabs2
      /\ y = [r |-> y.r, next |-> y.next, end |-> y.end, root |-> y.root, tabs |-> y.tabs]
  BY Zenon DEF next, end
<1> QED
  BY <1>1, <1>5, <1>7, <1>8, <1>9, ZenonT(40) DEF Built, Stored

\* A frame just handed out is linked into an empty entry of the tree.
LEMMA LinkKeeps ==
  ASSUME NEW x, NEW lev, NEW lo, NEW k \in 0..2, Built(x, lev, lo), Rooted(x, lev),
         NEW t \in DOMAIN lev, lev[t] = k, NEW i \in 0..Fan-1, x.tabs[t][i] = Null,
         NEW g, Allocated(x, g, lev, lo), g.r = "ok", NEW lev2, lev2 = Below(lev, x.next, k),
         NEW y, y = [g EXCEPT !.tabs[t][i] = Entry(x.next, "table")]
  PROVE  LinkedIn(x, y, lev2, lo, t, i, k)
<1> DEFINE n == x.next
           root == x.root
           roots == {root}
           old == x.tabs
           tabs == g.tabs
           tabs2 == Put(tabs, t, i, Entry(n, "table"))
           z == [r |-> "ok", next |-> g.next, end |-> g.end, root |-> g.root, tabs |-> tabs2]
<1>1. /\ Tree(old, lev, roots) /\ Linked(old, lev, root) /\ root \in roots
      /\ tabs \in [DOMAIN old -> Table] /\ DOMAIN tabs = DOMAIN old /\ \A u \in DOMAIN lev : tabs[u] = old[u]
  BY Zenon DEF Rooted, Allocated, Built
<1>2. n \in Nat /\ n \in DOMAIN tabs /\ n \notin DOMAIN lev /\ tabs[n] = ZeroTable /\ lev[t] # 3 /\ tabs[t][i] = Null
  <2>1. k # 3
    OBVIOUS
  <2> QED
    BY <2>1, Zenon DEF Allocated, Built
<1>3. g = [r |-> "ok", next |-> g.next, end |-> g.end, root |-> g.root, tabs |-> tabs]
  BY Zenon DEF Allocated, Built
<1>4. y = z
  <2> DEFINE entry == Entry(n, "table")
  <2>1. y = [g EXCEPT !.tabs[t][i] = entry] /\ tabs2 = Put(tabs, t, i, entry)
    BY Zenon
  <2> HIDE DEF tabs, tabs2, entry
  <2> QED
    BY <1>3, <2>1 DEF Put
<1>5. Built(z, lev2, lo)
  <2> HIDE DEF z, tabs2, tabs, n
  <2>1. /\ n = x.next /\ lev2 = Below(lev, n, k) /\ tabs = g.tabs /\ tabs2 = Put(tabs, t, i, Entry(n, "table"))
        /\ z = [r |-> "ok", next |-> g.next, end |-> g.end, root |-> g.root, tabs |-> tabs2]
    BY Zenon DEF z, tabs2, tabs, n
  <2> QED
    BY <2>1, LinkBuilt, Zenon
<1>6. z.r = "ok" /\ z.next = n + G /\ z.end = x.end /\ z.root = root /\ z.tabs = tabs2
  BY Zenon DEF Allocated
<1>7. DOMAIN tabs2 = DOMAIN old /\ tabs2 = Put(tabs, t, i, Entry(n, "table")) /\ lev2 = Below(lev, n, lev[t])
  BY <1>1, Zenon DEF Put
<1> HIDE DEF z, tabs2, tabs, old, roots, root, n
<1>8. SameWalks(old, lev, roots, tabs)
  BY <1>1, TreeElsewhere, Zenon
<1>9. Grown(tabs, lev, roots, t, i, n, tabs2)
  BY <1>2, <1>7, <1>8, NewTableGrows, Zenon DEF SameWalks
<1>10. Linked(tabs2, lev2, root)
  <2>1. Written(tabs, lev, tabs2, t, k, Entry(n, "table"))
    BY <1>2, <1>7, Zenon DEF Written
  <2>2. Linked(tabs, lev, root)
    BY <1>1 DEF Linked
  <2>3. Tree(tabs, lev, roots) /\ k \in 0..3 /\ k # 3
    BY <1>8 DEF SameWalks
  <2>4. Linked(tabs2, Below(lev, n, k), root)
    BY <1>2, <2>1, <2>2, <2>3, LinkedTable, Zenon
  <2> QED
    BY <1>7, <2>4, Zenon
<1>11. Rooted(z, lev2)
  BY <1>6, <1>7, <1>9, <1>10, Zenon DEF Rooted, Grown, roots
<1>12. n \in DOMAIN lev2 /\ lev2[n] = k + 1
  BY <1>7, Zenon DEF Below
<1>13. ASSUME NEW vb \in Nat
       PROVE  /\ Hop(old, root, vb, k) = Entry(t, "table") /\ index(vb, k) = i =>
                   Hop(tabs2, root, vb, k + 1) = Entry(n, "table")
              /\ Translate(tabs2, root, vb) = Translate(old, root, vb)
  <2>1. k \in 0..3
    OBVIOUS
  <2>2. Hop(tabs, root, vb, k) = Hop(old, root, vb, k) /\ Translate(tabs, root, vb) = Translate(old, root, vb)
    BY <1>1, <1>8, <2>1, Zenon DEF SameWalks
  <2> QED
    BY <1>1, <1>9, <2>2, Zenon DEF Grown
<1> HIDE <1>13
<1> QED
  BY <1>4, <1>5, <1>6, <1>7, <1>11, <1>12, <1>13, Zenon DEF LinkedIn, n, root, old

\* One level of it: the table that is there ...
LEMMA BuildStepFollows ==
  ASSUME NEW us, NEW lo, NEW va \in Nat, NEW k \in 0..2, NEW w, NEW lev, BuildAt(w, lev, us, lo, va, k),
         NEW e, e = w.us.tabs[w.t][index(va, k)], e # Null
  PROVE  BuildAt(BuildStep(w, va, k), lev, us, lo, va, k + 1)
<1> DEFINE x == w.us
           t == w.t
           tabs == x.tabs
           i == index(va, k)
<1>0. k # 3 /\ i \in 0..Fan-1
  BY IndexType
<1>1. Tree(tabs, lev, {x.root}) /\ t \in DOMAIN lev /\ lev[t] = k /\ tabs[t][i] = e
  BY Zenon DEF BuildAt, Rooted
<1>a. w = [t |-> t, us |-> x] /\ x.r = "ok"
  BY Zenon DEF BuildAt
<1>b. Hop(tabs, us.root, va, k) = Entry(t, "table")
  BY Zenon DEF BuildAt
<1>2. BuildStep(w, va, k) = IF e = Junk THEN [w EXCEPT !.us.r = "BadTable"] ELSE [w EXCEPT !.t = e.to]
  BY <1>a, Zenon DEF BuildStep
<1> HIDE DEF tabs, i, x, t
<1>3. e \in PTE /\ e.perm = "table" /\ e.to \in DOMAIN lev /\ lev[e.to] = k + 1
  <2>1. tabs[t] \in Table
    BY <1>1, Zenon DEF Tree
  <2>2. e \in PTE
    BY <1>0, <1>1, <2>1, Zenon DEF Table
  <2>3. tabs[t][i] # Null /\ lev[t] # 3
    BY <1>0, <1>1, Zenon
  <2>4. tabs[t][i].perm = "table" /\ tabs[t][i].to \in DOMAIN lev /\ lev[tabs[t][i].to] = lev[t] + 1
    BY <1>0, <1>1, <2>3, Zenon DEF Tree
  <2> QED
    BY <1>1, <2>2, <2>4, Zenon
<1>4. e # Junk
  <2>1. Junk.perm = "junk"
    BY EntryParts
  <2> QED
    BY <1>3, <2>1
<1>5. BuildStep(w, va, k) = [t |-> e.to, us |-> x]
  <2>1. [w EXCEPT !.t = e.to] = [t |-> e.to, us |-> x]
    BY <1>a
  <2> QED
    BY <1>2, <1>4, <2>1, Zenon
<1>6. Hop(tabs, us.root, va, k + 1) = Entry(e.to, "table")
  <2>1. e = tabs[t][index(va, k)]
    BY <1>1, Zenon DEF i
  <2> QED
    BY <1>b, <1>3, <2>1, HopTable
<1> DEFINE v == [t |-> e.to, us |-> x]
<1>7. v.t = e.to /\ v.us = x /\ v = [t |-> v.t, us |-> v.us]
  BY Zenon
<1> HIDE DEF v
<1>8. BuildAt(v, lev, us, lo, va, k + 1)
  BY <1>3, <1>6, <1>7, Zenon DEF BuildAt, x, tabs
<1> QED
  BY <1>5, <1>8, Zenon DEF v

\* ... or a new one.
LEMMA BuildStepGrows ==
  ASSUME NEW us, us.next \in Nat, NEW lo, NEW va \in Nat, NEW k \in 0..2,
         NEW w, NEW lev, BuildAt(w, lev, us, lo, va, k), w.us.tabs[w.t][index(va, k)] = Null,
         NEW v, v = BuildStep(w, va, k), v.us.r = "ok"
  PROVE  BuildAt(v, Below(lev, w.us.next, k), us, lo, va, k + 1)
<1> DEFINE x == w.us
           t == w.t
           n == x.next
           i == index(va, k)
           g == alloc_contig(x, 1)
           y == [g EXCEPT !.tabs[t][i] = Entry(n, "table")]
           lev2 == Below(lev, n, k)
<1>0. i \in 0..Fan-1
  <2>1. k \in 0..3
    OBVIOUS
  <2> QED
    BY <2>1, IndexType, Zenon
<1>1. /\ w = [t |-> t, us |-> x]
      /\ x.r = "ok" /\ Built(x, lev, lo) /\ Rooted(x, lev)
      /\ x.root = us.root /\ x.end = us.end /\ us.next <= x.next /\ DOMAIN x.tabs = DOMAIN us.tabs
      /\ t \in DOMAIN lev /\ lev[t] = k /\ x.tabs[t][i] = Null
      /\ Hop(x.tabs, us.root, va, k) = Entry(t, "table")
      /\ \A vb \in Nat : Translate(x.tabs, us.root, vb) = Translate(us.tabs, us.root, vb)
  BY Zenon DEF BuildAt
<1>2. v = IF g.r # "ok" THEN [w EXCEPT !.us = g] ELSE [t |-> n, us |-> y]
  BY <1>1, Zenon DEF BuildStep
<1>3. g = alloc_contig(x, 1) /\ y = [g EXCEPT !.tabs[t][i] = Entry(x.next, "table")] /\ lev2 = Below(lev, x.next, k)
  BY Zenon
<1> HIDE DEF g, y, lev2, i, x
<1>4. g.r = "ok" /\ v = [t |-> n, us |-> y]
  <2>1. g.r # "ok" => v.us = g
    BY <1>1, <1>2
  <2> QED
    BY <1>2, <2>1, Zenon
<1>5. Allocated(x, g, lev, lo)
  BY <1>1, <1>3, <1>4, AllocKeeps, Zenon
<1>6. LinkedIn(x, y, lev2, lo, t, i, k)
  BY <1>0, <1>1, <1>3, <1>4, <1>5, LinkKeeps, Zenon
<1>7. v.t = n /\ v.us = y /\ v = [t |-> v.t, us |-> v.us]
  BY <1>4
<1>8. us.next <= n + G
  <2>1. n \in Nat /\ us.next <= n
    BY <1>1, Zenon DEF Built
  <2> HIDE DEF n
  <2> QED
    BY <2>1, GranuleAssumption, SMT
<1>9. Hop(y.tabs, us.root, va, k + 1) = Entry(n, "table")
  BY <1>1, <1>6, Zenon DEF LinkedIn, i
<1>10. BuildAt(v, lev2, us, lo, va, k + 1)
  BY <1>1, <1>6, <1>7, <1>8, <1>9, ZenonT(40) DEF BuildAt, LinkedIn
<1> QED
  BY <1>10, Zenon DEF lev2, x

\* Either way the walk has come one level further.
LEMMA BuildStepKeeps ==
  ASSUME NEW us, us.next \in Nat, NEW lo, NEW va \in Nat, NEW k \in 0..2,
         NEW w, NEW lev, BuildAt(w, lev, us, lo, va, k),
         NEW v, v = BuildStep(w, va, k), v.us.r = "ok"
  PROVE  \E lev2 : BuildAt(v, lev2, us, lo, va, k + 1)
<1>1. CASE w.us.tabs[w.t][index(va, k)] = Null
  BY <1>1, BuildStepGrows, Zenon
<1>2. CASE w.us.tabs[w.t][index(va, k)] # Null
  BY <1>2, BuildStepFollows, Zenon
<1> QED
  BY <1>1, <1>2, Zenon

\* A walk that has failed stays so.
LEMMA BuildStepStops ==
  ASSUME NEW w, NEW va, NEW k, BuildStep(w, va, k).us.r = "ok"
  PROVE  w.us.r = "ok"
<1>1. w.us.r # "ok" => BuildStep(w, va, k) = w
  BY ZenonT(40) DEF BuildStep
<1> QED
  BY <1>1, Zenon

\* From us to m the page e has been mapped at va, with tables as needed.
UserMapped(us, m, lo, va, e) ==
  /\ us.r = "ok"
  /\ \E lev : Built(m, lev, lo) /\ Rooted(m, lev)
  /\ m.root = us.root /\ m.end = us.end /\ us.next <= m.next /\ DOMAIN m.tabs = DOMAIN us.tabs
  /\ UserGains(us.tabs, m.tabs, us.root, va, e)

\* The page e has been added to the tree at va below root.
PageAdded(tabs, lev, roots, root, va, e, tabs2) ==
  /\ Tree(tabs2, lev, roots)
  /\ Translate(tabs, root, va) = Null
  /\ Translate(tabs2, root, va) = e
  /\ \A q \in roots, vb \in Pages : vb \in Nat /\ (q # root \/ vb # va) =>
       Translate(tabs2, q, vb) = Translate(tabs, q, vb)

\* The entry written by UserSpace::map_page is such a page.
LEMMA EntryAddsPage ==
  ASSUME NEW tabs, NEW lev, NEW roots, Tree(tabs, lev, roots),
         NEW root \in roots, NEW va \in Pages, va \in Nat,
         NEW t \in DOMAIN lev, Hop(tabs, root, va, 3) = Entry(t, "table"), tabs[t][index(va, 3)] = Null,
         NEW e \in PTE, e.perm \in PagePerms,
         NEW tabs2, tabs2 = Put(tabs, t, index(va, 3), e)
  PROVE  PageAdded(tabs, lev, roots, root, va, e, tabs2)
<1>1. /\ Tree(tabs2, lev, roots)
      /\ Translate(tabs, root, va) = Null
      /\ Translate(tabs2, root, va) = e
      /\ \A q \in roots, vb \in Pages : vb \in Nat /\ (q # root \/ vb # va) =>
           Translate(tabs2, q, vb) = Translate(tabs, q, vb)
  BY TreePage
<1> QED
  BY <1>1, Zenon DEF PageAdded

\* That is what UserSpace::map_page does, unless it fails.
LEMMA BuildPage ==
  ASSUME NEW us, NEW lev, NEW lo, Built(us, lev, lo), Rooted(us, lev), NEW va \in Pages, NEW pa \in Nat,
         NEW perm \in PagePerms, NEW m, m = us_map_page(us, va, pa, perm), m.r = "ok"
  PROVE  UserMapped(us, m, lo, va, Entry(pa, perm))
<1> DEFINE a == [t |-> us.root, us |-> us]
           b == BuildStep(a, va, 0)
           c == BuildStep(b, va, 1)
           w == BuildStep(c, va, 2)
           i == index(va, 3)
           e == Entry(pa, perm)
           x == w.us
           t == w.t
           tabs == x.tabs
<1>0. va \in Nat /\ i \in 0..Fan-1 /\ us.next \in Nat /\ 0 \in 0..2 /\ 1 \in 0..2 /\ 2 \in 0..2
  BY PageNat, IndexType DEF Built
<1>1. m = IF x.r # "ok" THEN x
          ELSE IF tabs[t][i] # Null THEN [x EXCEPT !.r = "Overlap"]
          ELSE [x EXCEPT !.tabs[t][i] = e]
  BY Zenon DEF us_map_page, UserLeaf
<1> HIDE DEF w
<1>2. x.r = "ok"
  <2> HIDE DEF x
  <2> QED
    BY <1>1, Zenon
<1>3. w.us.r = "ok" /\ c.us.r = "ok" /\ b.us.r = "ok" /\ a.us.r = "ok"
  <2>1. w.us.r = "ok"
    BY <1>2, Zenon
  <2> HIDE DEF c
  <2>2. c.us.r = "ok"
    BY <2>1, BuildStepStops, Zenon DEF w
  <2> USE DEF c
  <2> HIDE DEF b
  <2>3. b.us.r = "ok"
    BY <2>2, BuildStepStops, Zenon
  <2> USE DEF b
  <2> HIDE DEF a
  <2>4. a.us.r = "ok"
    BY <2>3, BuildStepStops, Zenon
  <2> QED
    BY <2>1, <2>2, <2>3, <2>4, ZenonT(40)
<1>4. BuildAt(a, lev, us, lo, va, 0) /\ us.r = "ok"
  <2>1. a.us = us /\ a.t = us.root /\ a = [t |-> a.t, us |-> a.us]
    OBVIOUS
  <2>2. us.root \in DOMAIN lev /\ lev[us.root] = 0
    BY DEF Rooted, Tree
  <2>3. Hop(us.tabs, us.root, va, 0) = Entry(us.root, "table")
    BY HopStep
  <2> HIDE DEF a
  <2> QED
    BY <1>0, <1>3, <2>1, <2>2, <2>3, SMTT(30) DEF BuildAt
<1>5. b = BuildStep(a, va, 0) /\ c = BuildStep(b, va, 1) /\ w = BuildStep(c, va, 2)
  BY Zenon DEF w
<1>a. 0 + 1 = 1 /\ 1 + 1 = 2
  OBVIOUS
<1> HIDE DEF a, b, c
<1>6. PICK l1 : BuildAt(b, l1, us, lo, va, 0 + 1)
  BY <1>0, <1>3, <1>4, <1>5, BuildStepKeeps, Zenon
<1>7. PICK l2 : BuildAt(c, l2, us, lo, va, 1 + 1)
  BY <1>0, <1>a, <1>3, <1>5, <1>6, BuildStepKeeps, Zenon
<1>8. PICK l3 : BuildAt(w, l3, us, lo, va, 2 + 1)
  BY <1>0, <1>a, <1>3, <1>5, <1>7, BuildStepKeeps, Zenon
<1>9. /\ Built(x, l3, lo) /\ Tree(tabs, l3, {x.root}) /\ Linked(tabs, l3, x.root)
      /\ x.root = us.root /\ x.end = us.end /\ us.next <= x.next /\ DOMAIN tabs = DOMAIN us.tabs
      /\ t \in DOMAIN l3 /\ l3[t] = 3
      /\ Hop(tabs, us.root, va, 3) = Entry(t, "table")
      /\ \A vb \in Nat : Translate(tabs, us.root, vb) = Translate(us.tabs, us.root, vb)
  <2>1. 2 + 1 = 3
    OBVIOUS
  <2> QED
    BY <1>8, <2>1 DEF BuildAt, Rooted
<1>10. tabs[t][i] = Null /\ m = [x EXCEPT !.tabs[t][i] = e]
  <2>1. CASE tabs[t][i] # Null
    <3>1. m = [x EXCEPT !.r = "Overlap"]
      BY <1>1, <1>2, <2>1, Zenon
    <3>2. x = [r |-> x.r, next |-> x.next, end |-> x.end, root |-> x.root, tabs |-> x.tabs]
      BY <1>9 DEF Built
    <3>3. m.r = "Overlap"
      <4> HIDE DEF x
      <4> QED
        BY <3>1, <3>2
    <3> QED
      BY <3>3
  <2>2. CASE tabs[t][i] = Null
    BY <1>1, <1>2, <2>2, Zenon
  <2> QED
    BY <2>1, <2>2
<1> DEFINE roots == {us.root}
           tabs2 == Put(tabs, t, i, e)
<1>11. e \in PTE /\ e.perm \in PagePerms
  BY DEF Entry, PTE, PagePerms
<1> HIDE DEF x, t, i, e
<1>12. m = [r |-> "ok", next |-> x.next, end |-> x.end, root |-> us.root, tabs |-> tabs2]
  <2>1. x = [r |-> "ok", next |-> x.next, end |-> x.end, root |-> us.root, tabs |-> tabs]
    BY <1>2, <1>9, Zenon DEF Built
  <2> QED
    BY <1>10, <2>1, SMTT(30) DEF Put
<1>13. /\ m.next = x.next /\ m.end = x.end /\ m.root = us.root /\ m.tabs = tabs2
       /\ m = [r |-> m.r, next |-> m.next, end |-> m.end, root |-> m.root, tabs |-> m.tabs]
  BY <1>12
<1> HIDE DEF tabs
<1>14. /\ Tree(tabs, l3, roots) /\ us.root \in roots /\ t \in DOMAIN l3 /\ Hop(tabs, us.root, va, 3) = Entry(t, "table")
       /\ tabs[t][index(va, 3)] = Null /\ tabs2 = Put(tabs, t, index(va, 3), e)
  BY <1>9, <1>10, Zenon DEF i
<1> HIDE DEF tabs2, roots
<1>15. PageAdded(tabs, l3, roots, us.root, va, e, tabs2)
  BY <1>0, <1>11, <1>14, EntryAddsPage, Zenon
<1>16. UserGains(us.tabs, m.tabs, us.root, va, e)
  BY <1>0, <1>9, <1>13, <1>14, <1>15, PageNat, Zenon DEF UserGains, PageAdded
<1>17. Written(tabs, l3, tabs2, t, 3, e)
  BY <1>0, <1>9, <1>10 DEF Written, tabs2
<1>18. Linked(tabs2, l3, us.root)
  BY <1>9, <1>11, <1>17, LinkedPage
<1>19. Rooted(m, l3)
  BY <1>13, <1>15, <1>18, Zenon DEF Rooted, PageAdded, roots
<1>20. Built(m, l3, lo)
  <2> DEFINE D == DOMAIN tabs
  <2>1. tabs \in [D -> Table] /\ t \in D
    BY <1>9, Zenon DEF Built, tabs
  <2> HIDE DEF D
  <2>2. Stored(D, tabs, t, tabs2)
    BY <1>0, <1>11, <2>1, PutStores, Zenon DEF tabs2
  <2>3. tabs2 \in [D -> Table] /\ DOMAIN tabs2 = D /\ \A u \in D : u \notin DOMAIN l3 => tabs2[u] = tabs[u]
    BY <1>9, <2>2, Zenon DEF Stored
  <2> QED
    BY <1>9, <1>13, <2>3, Zenon DEF Built, D, tabs
<1>21. DOMAIN m.tabs = DOMAIN us.tabs
  BY <1>9, <1>13, Zenon DEF tabs2, Put, tabs
<1> QED
  BY <1>4, <1>9, <1>13, <1>16, <1>19, <1>20, <1>21, Zenon DEF UserMapped, e

\* The equations of the loop in UserSpace::map_range.
UserLoop(done, us, va, pa, len, perm) ==
  /\ done[0] = us
  /\ \A n \in 1 .. len \div G :
       done[n] = IF done[n-1].r # "ok" THEN done[n-1]
                 ELSE us_map_page(done[n-1], va + (n - 1) * G, pa + (n - 1) * G, perm)

\* The recursive function of that loop exists, and is what its equations say.
LEMMA UserRangeDef ==
  ASSUME NEW us, NEW va, NEW pa, NEW len \in Nat, NEW perm
  PROVE  UserLoop(UserRange(us, va, pa, len, perm), us, va, pa, len, perm)
<1> DEFINE n == len \div G
           S(x, k) == IF x.r # "ok" THEN x ELSE us_map_page(x, va + (k - 1) * G, pa + (k - 1) * G, perm)
           D(f, k) == IF k = 0 THEN us ELSE S(f[k-1], k)
           E(m) == \E f : f = [k \in 0..m |-> D(f, k)]
           T == {m \in 0..n : ~E(m)}
           done == UserRange(us, va, pa, len, perm)
<1>0. n \in Nat
  BY GranuleAssumption
<1>1. done = CHOOSE f : f = [k \in 0..n |-> D(f, k)]
  BY DEF UserRange
<1> HIDE DEF S, n
<1>2. T = {}
  <2> SUFFICES ASSUME T # {} PROVE FALSE
    OBVIOUS
  <2>1. PICK m \in T : \A y \in T : m <= y
    <3> HIDE DEF T
    <3>1. T \in SUBSET Nat
      BY <1>0 DEF T
    <3> QED
      BY <3>1, FirstOne
  <2>2. m # 0
    <3>1. [k \in 0..0 |-> us] = [k \in 0..0 |-> D([kk \in 0..0 |-> us], k)]
      OBVIOUS
    <3> QED
      BY <3>1, Zenon
  <2>3. m - 1 \in 0..n /\ m - 1 \notin T /\ m \in 0..n
    <3>1. m \in 0..n
      BY <2>1
    <3>2. m - 1 \notin T
      <4> HIDE DEF T
      <4> QED
        BY <2>1, <3>1
    <3> QED
      BY <1>0, <3>1, <3>2, <2>2
  <2>4. PICK g : g = [k \in 0..m-1 |-> D(g, k)]
    BY <2>3, Zenon
  <2> DEFINE f == [k \in 0..m |-> IF k < m THEN g[k] ELSE D(g, m)]
  <2>5. ASSUME NEW k \in 0..m
        PROVE  f[k] = D(f, k)
    <3>1. k # 0 => f[k-1] = g[k-1]
      BY <2>3, SMTT(30)
    <3>2. k < m => g[k] = D(g, k)
      BY <2>3, <2>4, SMTT(30)
    <3>3. k # 0 /\ k < m => D(f, k) = D(g, k)
      BY <3>1, SMTT(30)
    <3>4. k = m => f[k] = D(g, m) /\ D(f, k) = D(g, m)
      BY <3>1, <2>2, <2>3, SMTT(30)
    <3>5. k < m => f[k] = g[k]
      OBVIOUS
    <3>6. k = 0 => D(f, k) = us /\ D(g, k) = us
      OBVIOUS
    <3> HIDE DEF D, f
    <3> QED
      BY <3>2, <3>3, <3>4, <3>5, <3>6, <2>3, SMTT(30)
  <2>6. f = [k \in 0..m |-> D(f, k)]
    <3> HIDE DEF D
    <3> QED
      BY <2>5
  <2> QED
    BY <2>6, <2>1, Zenon
<1>3. \E f : f = [k \in 0..n |-> D(f, k)]
  <2> HIDE DEF E
  <2>1. n \in 0..n
    BY <1>0
  <2>2. E(n)
    BY <1>2, <2>1
  <2> QED
    BY <2>2, Zenon DEF E
<1> HIDE DEF done
<1>4. done = [k \in 0..n |-> D(done, k)]
  BY <1>1, <1>3, Zenon
<1>5. \A k \in 0..n : done[k] = D(done, k)
  <2> HIDE DEF D
  <2> QED
    BY <1>4, Zenon
<1>6. done[0] = us /\ \A k \in 1..n : done[k] = S(done[k-1], k)
  BY <1>0, <1>5
<1> QED
  BY <1>6 DEF UserLoop, done, S, n

\* UserSpace::map_range of a single granule.
LEMMA BuildGranule ==
  ASSUME NEW us, NEW lev, NEW lo, Built(us, lev, lo), Rooted(us, lev), NEW va \in Nat, NEW pa \in Nat,
         NEW perm \in PagePerms, NEW m, m = us_map_range(us, va, pa, G, perm), m.r = "ok"
  PROVE  va \in Pages /\ UserMapped(us, m, lo, va, Entry(pa, perm))
<1> DEFINE bad == va % G # 0 \/ pa % G # 0 \/ G % G # 0 \/ G = 0
           done == UserRange(us, va, pa, G, perm)
<1>0. G \in Nat /\ G > 0 /\ G \div G = 1 /\ Top \in Nat
  BY GranuleAssumption, TableAssumption, SMTT(30) DEF Top, Span
<1>1. us = [r |-> us.r, next |-> us.next, end |-> us.end, root |-> us.root, tabs |-> us.tabs]
  BY DEF Built
<1>2. m = IF us.r # "ok" THEN us ELSE IF bad THEN [us EXCEPT !.r = "Misaligned"]
          ELSE IF va < G THEN [us EXCEPT !.r = "NullPage"]
          ELSE IF va + G > Top THEN [us EXCEPT !.r = "Misaligned"]
          ELSE done[G \div G]
  BY Zenon DEF us_map_range
<1>3. [us EXCEPT !.r = "Misaligned"].r = "Misaligned" /\ [us EXCEPT !.r = "NullPage"].r = "NullPage"
  BY <1>1, Zenon
<1> DEFINE mis == [us EXCEPT !.r = "Misaligned"]
           nul == [us EXCEPT !.r = "NullPage"]
           low == va < G
           high == va + G > Top
           last == done[G \div G]
<1>4. us.r = "ok" /\ ~bad /\ ~high /\ m = done[G \div G]
  <2>1. m = IF us.r # "ok" THEN us ELSE IF bad THEN mis ELSE IF low THEN nul ELSE IF high THEN mis ELSE last
    BY <1>2
  <2>2. mis.r = "Misaligned" /\ nul.r = "NullPage"
    BY <1>3, Zenon
  <2> HIDE DEF bad, low, high, mis, nul, last
  <2>3. us.r = "ok" /\ ~bad /\ ~high /\ m = last
    BY <2>1, <2>2, ZenonT(40)
  <2> QED
    BY <2>3, Zenon DEF last
<1>5. va % G = 0 /\ va < Top
  BY <1>0, <1>4, SMTT(30)
<1>6. va \in Pages
  BY <1>5, PageOf, Zenon
<1>7. UserLoop(done, us, va, pa, G, perm)
  BY <1>0, UserRangeDef
<1> HIDE DEF done
<1>8. done[0] = us /\ \A k \in 1 .. G \div G : done[k] = IF done[k-1].r # "ok" THEN done[k-1]
                        ELSE us_map_page(done[k-1], va + (k - 1) * G, pa + (k - 1) * G, perm)
  BY <1>7, ZenonT(40) DEF UserLoop
<1>9. done[1] = us_map_page(us, va + 0 * G, pa + 0 * G, perm)
  <2>1. 1 \in 1 .. G \div G
    BY <1>0, SMTT(30)
  <2>2. done[1] = IF done[1-1].r # "ok" THEN done[1-1]
                  ELSE us_map_page(done[1-1], va + (1 - 1) * G, pa + (1 - 1) * G, perm)
    BY <1>8, <2>1, Zenon
  <2>3. 1 - 1 = 0
    OBVIOUS
  <2> QED
    BY <1>4, <1>8, <2>2, <2>3, Zenon
<1>10. va + 0 * G = va /\ pa + 0 * G = pa
  BY <1>0, SMTT(30)
<1>11. m = us_map_page(us, va, pa, perm)
  BY <1>0, <1>4, <1>9, <1>10, Zenon
<1> QED
  BY <1>6, <1>11, BuildPage, ZenonT(40)

\* The levels before there is any table.
NoTables == [t \in {} |-> 0]

\* alloc_contig keeps the shape of the allocator, and a failure.
LEMMA AllocShape ==
  ASSUME NEW us, us = [r |-> us.r, next |-> us.next, end |-> us.end, root |-> us.root, tabs |-> us.tabs],
         NEW v, v = alloc_contig(us, 1)
  PROVE  /\ v = [r |-> v.r, next |-> v.next, end |-> v.end, root |-> v.root, tabs |-> v.tabs]
         /\ v.r = "ok" => us.r = "ok"
<1> DEFINE full == us.next + 1 * G > us.end
           tabs2 == [f \in DOMAIN us.tabs |-> IF us.next <= f /\ f < us.next + 1 * G THEN ZeroTable ELSE us.tabs[f]]
           y == [us EXCEPT !.next = @ + 1 * G]
           x == [us EXCEPT !.next = @ + 1 * G,
                           !.tabs = [f \in DOMAIN @ |-> IF us.next <= f /\ f < us.next + 1 * G THEN ZeroTable ELSE @[f]]]
<1>1. v = IF us.r # "ok" THEN us ELSE IF full THEN [us EXCEPT !.r = "OutOfFrames"] ELSE x
  BY Zenon DEF alloc_contig
<1>2. y = [r |-> us.r, next |-> us.next + 1 * G, end |-> us.end, root |-> us.root, tabs |-> us.tabs]
  OBVIOUS
<1>3. x = [y EXCEPT !.tabs = [f \in DOMAIN y.tabs |-> IF us.next <= f /\ f < us.next + 1 * G THEN ZeroTable ELSE y.tabs[f]]]
  OBVIOUS
<1> HIDE DEF x, full, y
<1>4. y.tabs = us.tabs
  BY <1>2
<1>5. x = [y EXCEPT !.tabs = tabs2]
  BY <1>3, <1>4
<1> HIDE DEF tabs2
<1>6. x = [r |-> us.r, next |-> us.next + 1 * G, end |-> us.end, root |-> us.root, tabs |-> tabs2]
  BY <1>2, <1>5
<1>7. [us EXCEPT !.r = "OutOfFrames"] = [r |-> "OutOfFrames", next |-> us.next, end |-> us.end, root |-> us.root, tabs |-> us.tabs]
  OBVIOUS
<1>8. CASE us.r # "ok"
  <2>1. v = us
    BY <1>1, <1>8
  <2> QED
    BY <1>8, <2>1
<1>9. CASE us.r = "ok" /\ full
  <2>1. v = [r |-> "OutOfFrames", next |-> us.next, end |-> us.end, root |-> us.root, tabs |-> us.tabs]
    BY <1>1, <1>7, <1>9
  <2> QED
    BY <1>9, <2>1
<1>10. CASE us.r = "ok" /\ ~full
  <2>1. v = [r |-> us.r, next |-> us.next + 1 * G, end |-> us.end, root |-> us.root, tabs |-> tabs2]
    BY <1>1, <1>6, <1>10
  <2> QED
    BY <1>10, <2>1
<1> QED
  BY <1>8, <1>9, <1>10, Zenon

\* A failure is final.
LEMMA FailureStays ==
  ASSUME NEW us
  PROVE  /\ alloc_contig(us, 1).r = "ok" => us.r = "ok"
         /\ \A va, pa, perm : us_map_range(us, va, pa, G, perm).r = "ok" => us.r = "ok"
<1>1. us.r # "ok" => alloc_contig(us, 1) = us
  BY Zenon DEF alloc_contig
<1>2. ASSUME NEW va, NEW pa, NEW perm, us.r # "ok"
      PROVE  us_map_range(us, va, pa, G, perm) = us
  BY <1>2, Zenon DEF us_map_range
<1> QED
  BY <1>1, <1>2, ZenonT(40)

WithRoot(us, root) == [us EXCEPT !.root = root]

\* UserSpace::new: the frame handed out last becomes an empty root table.
LEMMA NewRoot ==
  ASSUME NEW us, NEW lo, NEW x, Allocated(us, x, NoTables, lo), x.r = "ok", us.next \in Nat, lo <= us.next,
         NEW v, v = WithRoot(x, us.next)
  PROVE  /\ v.r = "ok" /\ v.root = us.next /\ v.next = us.next + G /\ v.end = us.end /\ DOMAIN v.tabs = DOMAIN us.tabs
         /\ \E lev : Built(v, lev, lo) /\ Rooted(v, lev)
         /\ \A va \in Pages : Translate(v.tabs, us.next, va) = Null
<1> DEFINE n == us.next
           none == NoTables
           lev == [t \in {n} |-> 0]
           tabs == x.tabs
<1>1. DOMAIN none = {} /\ DOMAIN lev = {n} /\ lev[n] = 0 /\ lev \in [{n} -> 0..3]
  BY DEF NoTables
<1>2. /\ Built(x, none, lo) /\ x.next = n + G /\ x.end = us.end /\ x.root = us.root /\ n \in DOMAIN us.tabs
      /\ DOMAIN tabs = DOMAIN us.tabs /\ tabs[n] = ZeroTable
  BY DEF Allocated
<1> HIDE DEF none, lev
<1>3. /\ x = [r |-> x.r, next |-> x.next, end |-> x.end, root |-> x.root, tabs |-> x.tabs]
      /\ x.next \in Nat /\ x.next % G = 0 /\ lo \in Nat /\ lo <= x.next /\ x.end \in Nat /\ x.next <= x.end
      /\ tabs \in [DOMAIN tabs -> Table]
      /\ \A f \in DOMAIN tabs : f \in Nat /\ f % G = 0
      /\ \A f \in Nat : f % G = 0 /\ f < x.end => f \in DOMAIN tabs
      /\ \A t \in DOMAIN tabs : tabs[t] \in {ZeroTable, JunkTable}
  BY <1>1, <1>2 DEF Built
<1>4. v = [r |-> "ok", next |-> x.next, end |-> x.end, root |-> n, tabs |-> tabs]
  <2> HIDE DEF n, tabs
  <2>1. x = [r |-> "ok", next |-> x.next, end |-> x.end, root |-> x.root, tabs |-> tabs]
    BY <1>3 DEF tabs
  <2> QED
    BY <2>1 DEF n, WithRoot
<1>5. /\ v.r = "ok" /\ v.next = x.next /\ v.end = x.end /\ v.root = n /\ v.tabs = tabs
      /\ v = [r |-> v.r, next |-> v.next, end |-> v.end, root |-> v.root, tabs |-> v.tabs]
  BY <1>4
<1>6. lo <= n /\ n < x.next
  BY <1>2, GranuleAssumption, SMTT(30)
<1> HIDE DEF n, tabs
<1>7. Built(v, lev, lo)
  BY <1>1, <1>2, <1>3, <1>5, <1>6, Zenon DEF Built
<1>8. \A i \in 0..Fan-1 : tabs[n][i] = Null
  BY <1>2, EntryParts, Zenon
<1>9. Tree(tabs, lev, {n})
  BY <1>1, <1>2, <1>3, <1>8, Zenon DEF Tree
<1>10. Linked(tabs, lev, n)
  BY <1>1, ZenonT(40) DEF Linked
<1>11. ASSUME NEW va \in Pages
       PROVE  Translate(tabs, n, va) = Null
  <2>1. index(va, 0) \in 0..Fan-1
    BY PageNat, IndexType, SMTT(30)
  <2>2. Look(tabs, Entry(n, "table"), va, 0) = Null
    BY <1>8, <2>1, EntryParts, SMTT(30) DEF Look
  <2> QED
    BY <2>2, Zenon DEF Translate, Look
<1> QED
  BY <1>2, <1>5, <1>7, <1>9, <1>10, <1>11, ZenonT(40) DEF Rooted, n

\* A page entry is not an empty one.
LEMMA PageEntry ==
  ASSUME NEW a, NEW perm \in PagePerms
  PROVE  Entry(a, perm).to = a /\ Entry(a, perm) # Null
<1>1. Entry(a, perm).perm = perm /\ Null.perm = "invalid" /\ Entry(a, perm).to = a
  BY DEF Entry, Null
<1>2. perm # "invalid"
  BY DEF PagePerms
<1> QED
  BY <1>1, <1>2
=============================================================================
