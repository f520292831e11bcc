----------------------------- MODULE FdtProofs ------------------------------
(***************************************************************************)
(* The parser returns what the tree says, for streams of any length, names, *)
(* values, numbers of cells and limits. The invariant ties the parser's     *)
(* depth, flags, cells and lists to the path of open nodes and to the reg   *)
(* values read so far at every token, not only at the end.                  *)
(***************************************************************************)
EXTENDS FdtTree, WellFoundedInduction, TLAPS

Word == 0..B-1
Counts == (1..2) \X (1..2)   \* the numbers of cells that parse_reg takes
Usable == {r \in Region : r.base + r.size < Limit}
NoName == ""
Phases == {"header", "memreserve", "struct", "done"} \cup Errors

\* Lists, cells and flags have their types, and the lists fit their arrays.
FType ==
  /\ phase \in Phases
  /\ regions \in Seq(Usable) /\ Len(regions) <= MAX_MEM_REGIONS
  /\ reserved \in Seq(Usable) /\ Len(reserved) <= MAX_RSV_REGIONS
  /\ entropy_len \in 0..MAX_ENTROPY
  /\ addr_cells \in Word /\ size_cells \in Word
  /\ depth \in Nat /\ memory_depth \in Nat /\ chosen_depth \in Nat
  /\ rsv_node \in BOOLEAN /\ rsv_addr_cells \in Word /\ rsv_size_cells \in Word
  /\ phase = "done" => regions # << >>

\* The same of the tree. Only the structure block opens nodes, an open node's
\* parent has had a subnode, and the first node open has no name.
TType ==
  /\ path \in Seq(NodeNames) /\ conforms \in BOOLEAN /\ hasChild \subseteq Nat
  /\ memRegs \in Seq(Seq(Word)) /\ rsvRegs \in Seq(Seq(Word)) /\ wantReserved \in Seq(Usable)
  /\ cellsOf \in [root : Word \X Word, rsv : Word \X Word]
  /\ phase # "struct" => path = << >>
  /\ path # << >> => path[1] = NoName
  /\ \A k \in 0 .. Len(path) - 1 : k \in hasChild

\* The flags follow the path in every phase.
Flags ==
  /\ depth = Len(path)
  /\ memory_depth = IF Len(path) >= 2 /\ path[2] = "memory" THEN 2 ELSE 0
  /\ chosen_depth = IF Len(path) >= 2 /\ path[2] = "chosen" THEN 2 ELSE 0
  /\ rsv_node <=> Len(path) >= 2 /\ path[2] = "reserved-memory"

\* What has been read is what the tree says so far. Cells that were used to
\* read a reg value do not change any more: the node they belong to has had a
\* subnode.
Reads ==
  /\ entropy_len = offered
  /\ rsvRegs # << >> => Len(path) >= 2 /\ path[2] = "reserved-memory"
  /\ conforms =>
       /\ cellsOf.root = <<addr_cells, size_cells>>
       /\ cellsOf.rsv = <<rsv_addr_cells, rsv_size_cells>>
       /\ regions = DecodeAll(memRegs, cellsOf.root)
       /\ reserved = wantReserved \o DecodeAll(rsvRegs, cellsOf.rsv)
       /\ memRegs # << >> => 0 \in hasChild /\ 1 \in hasChild /\ cellsOf.root \in Counts
       /\ rsvRegs # << >> => 2 \in hasChild /\ cellsOf.rsv \in Counts

FInv == FType /\ TType /\ Flags /\ Reads

-----------------------------------------------------------------------------
(* Loops *)

\* A set of numbers that is not empty has a least one.
LEMMA LeastOne ==
  ASSUME NEW M \in SUBSET Nat, M # {}
  PROVE  \E x \in M : \A y \in M : x <= y
<1> DEFINE L == OpToRel(<, Nat)
<1>1. L = {p \in Nat \X Nat : p[1] < p[2]}
  BY DEF OpToRel
<1>2. IsWellFoundedOn(L, Nat)
  BY NatLessThanWellFounded, Zenon
<1> HIDE DEF L
<1>3. PICK x \in M : \A y \in M : <<y, x>> \notin L
  BY <1>2, WFMin, Zenon
<1>4. \A y \in M : ~(y < x)
  <2>1. \A u, v \in Nat : v < u => <<v, u>> \in L
    BY <1>1
  <2> QED
    BY <1>3, <2>1, Zenon
<1> QED
  BY <1>4

\* What holds before a loop and is kept by each turn holds after any number.
LEMMA TurnByTurn ==
  ASSUME NEW N \in Nat, NEW T, 0 \in T, \A k \in 0..N-1 : k \in T => k + 1 \in T
  PROVE  \A k \in 0..N : k \in T
<1> DEFINE M == {k \in 0..N : k \notin T}
<1> SUFFICES ASSUME M # {} PROVE FALSE
  OBVIOUS
<1>1. PICK x \in M : \A y \in M : x <= y
  <2>1. M \in SUBSET Nat
    OBVIOUS
  <2> HIDE DEF M
  <2> QED
    BY <2>1, LeastOne
<1>2. x \in Nat /\ x # 0 /\ x <= N
  OBVIOUS
<1>3. x - 1 \in 0..N-1 /\ ~(x <= x - 1)
  BY <1>2
<1>4. x - 1 \in T
  <2>1. x - 1 \notin M
    BY <1>1, <1>3, Zenon
  <2>2. x - 1 \in 0..N
    BY <1>3
  <2> QED
    BY <2>1, <2>2
<1> QED
  BY <1>2, <1>3, <1>4

\* f is what the turns S leave, from first on.
Loop(f, N, X, first, S) == f \in [0..N -> X] /\ f[0] = first /\ \A k \in 1..N : f[k] = S[k][f[k-1]]

\* A loop whose turns stay in X leaves a value after each of its turns.
LEMMA LoopExists ==
  ASSUME NEW N \in Nat, NEW X, NEW first \in X, NEW S \in [1..N -> [X -> X]]
  PROVE  \E f : Loop(f, N, X, first, S)
<1> DEFINE E(m) == \E f \in [0..m -> X] : f[0] = first /\ \A k \in 1..m : f[k] = S[k][f[k-1]]
           T == {m \in 0..N : E(m)}
<1>1. 0 \in T
  <2>1. [k \in 0..0 |-> first] \in [0..0 -> X] /\ [k \in 0..0 |-> first][0] = first
    OBVIOUS
  <2>2. 1..0 = {}
    OBVIOUS
  <2>3. E(0)
    BY <2>1, <2>2, Zenon
  <2> QED
    BY <2>3
<1>2. ASSUME NEW m \in 0..N-1, m \in T
      PROVE  m + 1 \in T
  <2>1. PICK f \in [0..m -> X] : f[0] = first /\ \A k \in 1..m : f[k] = S[k][f[k-1]]
    BY <1>2
  <2> DEFINE g == [k \in 0..m+1 |-> IF k <= m THEN f[k] ELSE S[m + 1][f[m]]]
  <2>2. m \in 0..m /\ f[m] \in X /\ m + 1 \in 1..N
    OBVIOUS
  <2>3. S[m + 1][f[m]] \in X
    BY <2>2
  <2>4. g \in [0..m+1 -> X]
    <3>1. \A k \in 0..m+1 : (IF k <= m THEN f[k] ELSE S[m + 1][f[m]]) \in X
      <4> HIDE DEF T, E
      <4> QED
        BY <2>3
    <3> HIDE DEF T, E
    <3> QED
      BY <3>1, Zenon
  <2>5. g[0] = first
    BY <2>1
  <2>6. ASSUME NEW k \in 1..m+1
        PROVE  g[k] = S[k][g[k-1]]
    <3>1. k - 1 \in 0..m /\ g[k-1] = f[k-1]
      OBVIOUS
    <3>2. CASE k <= m
      BY <2>1, <3>1, <3>2
    <3>3. CASE k = m + 1
      <4>1. k - 1 = m /\ m + 1 \in 0..m+1 /\ ~(m + 1 <= m)
        BY <3>3
      <4>2. g[m + 1] = S[m + 1][f[m]]
        BY <4>1, Zenon
      <4> HIDE DEF g
      <4> QED
        BY <3>1, <3>3, <4>1, <4>2, Zenon
    <3> QED
      BY <3>2, <3>3
  <2>7. E(m + 1)
    <3> HIDE DEF g
    <3> QED
      BY <2>4, <2>5, <2>6
  <2> QED
    BY <2>2, <2>7
<1>3. N \in T
  <2> HIDE DEF T
  <2>1. \A k \in 0..N : k \in T
    BY <1>1, <1>2, TurnByTurn, Zenon
  <2> QED
    BY <2>1
<1> QED
  BY <1>3, Zenon DEF Loop

-----------------------------------------------------------------------------
(* Values *)

\* The second number of an entry follows the first.
LEMMA SecondNumber ==
  ASSUME NEW a \in Nat, NEW l \in Nat, NEW x \in 1..2, NEW y \in 1..2, a + (x + y) <= l
  PROVE  a + x \in Nat /\ a + x + y <= l
OBVIOUS

\* Numbers from two on.
LEMMA FromTwo ==
  ASSUME NEW k \in Nat, k >= 2
  PROVE  k # 0 /\ k # 1 /\ (k = 2 => k # 3)
OBVIOUS

\* Two words make a number below Limit.
LEMMA TwoWords ==
  ASSUME NEW x \in Word, NEW y \in Word
  PROVE  x * B + y \in 0..Limit-1 /\ x \in 0..Limit-1 /\ Limit \in Nat
<1>1. B \in Nat /\ B > 2 /\ x \in 0..B-1 /\ y \in 0..B-1
  BY FdtAssumption DEF Word
<1>2. B * B = (x * B + B) + (B - 1 - x) * B
  BY <1>1
<1>3. (B - 1 - x) * B \in Nat /\ x * B \in Nat /\ B * B \in Nat
  BY <1>1
<1>4. x <= x * B
  BY <1>1
<1> QED
  BY <1>1, <1>2, <1>3, <1>4 DEF Limit

\* read_cells of one word, and of two.
LEMMA ReadCells ==
  ASSUME NEW words \in Seq(Word)
  PROVE  /\ Len(words) = 1 => read_cells(words) = words[1]
         /\ Len(words) = 2 => read_cells(words) = words[1] * B + words[2]
<1> DEFINE N == Len(words)
           S == [k \in 1..N |-> [x \in Nat |-> x * B + words[k]]]
           acc == CHOOSE f : f = [n \in 0..N |-> IF n = 0 THEN 0 ELSE f[n - 1] * B + words[n]]
<1>1. N \in Nat /\ B \in Nat /\ \A n \in 1..N : words[n] \in Nat
  BY FdtAssumption DEF Word
<1>2. S \in [1..N -> [Nat -> Nat]] /\ 0 \in Nat
  BY <1>1
<1>3. PICK f : Loop(f, N, Nat, 0, S)
  <2> HIDE DEF S, N
  <2> QED
    BY <1>1, <1>2, LoopExists, Zenon
<1>4. f = [n \in 0..N |-> IF n = 0 THEN 0 ELSE f[n - 1] * B + words[n]]
  <2>1. ASSUME NEW k \in 1..N
        PROVE  f[k] = f[k-1] * B + words[k]
    <3>1. k - 1 \in 0..N
      BY <1>1
    <3>2. f[k-1] \in Nat /\ f[k] = S[k][f[k-1]]
      BY <1>3, <3>1, Zenon DEF Loop
    <3> QED
      BY <3>2, Zenon
  <2>2. \A n \in 0..N : n # 0 => n \in 1..N
    BY <1>1
  <2>3. \A n \in 0..N : f[n] = IF n = 0 THEN 0 ELSE f[n - 1] * B + words[n]
    BY <1>3, <2>1, <2>2, Zenon DEF Loop
  <2> QED
    BY <1>3, <2>3, Zenon DEF Loop
<1>5. acc = [n \in 0..N |-> IF n = 0 THEN 0 ELSE acc[n - 1] * B + words[n]]
  BY <1>4, Zenon
<1>6. read_cells(words) = acc[N]
  BY DEF read_cells
<1> HIDE DEF acc
<1>7. acc[0] = 0 /\ \A k \in 1..N : acc[k] = acc[k-1] * B + words[k]
  <2>1. 0 \in 0..N /\ \A k \in 1..N : k \in 0..N /\ k # 0
    BY <1>1
  <2> HIDE DEF N
  <2> QED
    BY <1>5, <2>1, Zenon
<1>8. N = 1 => acc[1] = words[1]
  <2>1. N = 1 => acc[1] = acc[1-1] * B + words[1] /\ words[1] \in Nat
    BY <1>1, <1>7
  <2> QED
    BY <1>1, <1>7, <2>1
<1>9. N = 2 => acc[2] = words[1] * B + words[2]
  <2>1. N = 2 => acc[1] = acc[1-1] * B + words[1] /\ words[1] \in Nat
    BY <1>1, <1>7
  <2>2. N = 2 => acc[2] = acc[2-1] * B + words[2]
    BY <1>1, <1>7
  <2> QED
    BY <1>1, <1>7, <2>1, <2>2
<1> QED
  BY <1>6, <1>8, <1>9, Zenon

\* read_cells on a part of a value is the number there.
LEMMA ReadNumber ==
  ASSUME NEW value \in Seq(Word), NEW at \in Nat, NEW n \in 1..2, at + n <= Len(value)
  PROVE  /\ read_cells(SubSeq(value, at + 1, at + n)) = Number(value, at + 1, n)
         /\ Number(value, at + 1, n) \in 0..Limit-1
<1> DEFINE words == SubSeq(value, at + 1, at + n)
<1>1. words \in Seq(Word) /\ Len(words) = n
  OBVIOUS
<1>2. words[1] = value[at + 1] /\ value[at + 1] \in Word
  OBVIOUS
<1>3. n = 2 => words[2] = value[at + 1 + 1] /\ value[at + 1 + 1] \in Word
  OBVIOUS
<1> HIDE DEF words
<1>4. CASE n = 1
  <2>1. read_cells(words) = words[1]
    BY <1>1, <1>4, ReadCells
  <2>2. Number(value, at + 1, n) = value[at + 1]
    BY <1>4 DEF Number
  <2> QED
    BY <1>2, <2>1, <2>2, TwoWords, Zenon DEF words
<1>5. CASE n = 2
  <2>1. read_cells(words) = words[1] * B + words[2]
    BY <1>1, <1>5, ReadCells
  <2>2. Number(value, at + 1, n) = value[at + 1] * B + value[at + 1 + 1]
    BY <1>5 DEF Number
  <2> QED
    BY <1>2, <1>3, <1>5, <2>1, <2>2, TwoWords, Zenon DEF words
<1> QED
  BY <1>4, <1>5

\* The entries of a value lie within it, and are pairs of numbers.
LEMMA EntryFits ==
  ASSUME NEW value \in Seq(Word), NEW c \in Counts, NEW k \in 1 .. Len(value) \div (c[1] + c[2])
  PROVE  /\ (k - 1) * (c[1] + c[2]) \in Nat
         /\ (k - 1) * (c[1] + c[2]) + (c[1] + c[2]) <= Len(value)
         /\ Entry(value, c, k) = [base |-> Entry(value, c, k).base, size |-> Entry(value, c, k).size]
         /\ Entry(value, c, k).base \in 0..Limit-1 /\ Entry(value, c, k).size \in 0..Limit-1
<1> DEFINE n == c[1] + c[2]
           at == (k - 1) * n
           q == Len(value) \div n
<1>1. c[1] \in 1..2 /\ c[2] \in 1..2 /\ n \in 2..4 /\ Len(value) \in Nat
  BY DEF Counts
<1>2. q \in Nat /\ n * q <= Len(value) /\ k \in 1..q
  <2>1. k \in 1..q
    OBVIOUS
  <2> HIDE DEF n
  <2>2. q \in Nat /\ n * q <= Len(value)
    BY <1>1
  <2> QED
    BY <2>1, <2>2
<1>3. at \in Nat /\ at + n <= Len(value)
  <2> HIDE DEF n, q
  <2>1. PICK d \in Nat : q = k + d
    <3>1. q - k \in Nat /\ q = k + (q - k)
      BY <1>2
    <3> QED
      BY <3>1, Zenon
  <2>2. n * q = n * k + n * d
    <3>1. n \in Nat /\ k \in Nat
      BY <1>1, <1>2
    <3> QED
      BY <2>1, <3>1
  <2>3. at = n * k - n
    <3>1. n \in Nat /\ k \in Nat
      BY <1>1, <1>2
    <3> QED
      BY <3>1
  <2>4. n * d \in Nat /\ at \in Nat
    BY <1>1, <1>2, <2>1
  <2> QED
    BY <1>1, <1>2, <2>2, <2>3, <2>4
<1>4. Number(value, at + 1, c[1]) \in 0..Limit-1
  <2> HIDE DEF at
  <2>1. at + c[1] <= Len(value)
    BY <1>1, <1>3
  <2> QED
    BY <1>1, <1>3, <2>1, ReadNumber
<1>5. Number(value, at + c[1] + 1, c[2]) \in 0..Limit-1
  <2> HIDE DEF at
  <2>1. at + c[1] \in Nat /\ at + c[1] + c[2] <= Len(value)
    BY <1>1, <1>3, SecondNumber, Zenon
  <2> QED
    BY <1>1, <1>3, <2>1, ReadNumber
<1>6. Entry(value, c, k) = [base |-> Number(value, at + 1, c[1]), size |-> Number(value, at + c[1] + 1, c[2])]
  BY Zenon DEF Entry
<1> HIDE DEF at
<1>7. /\ Entry(value, c, k).base = Number(value, at + 1, c[1])
      /\ Entry(value, c, k).size = Number(value, at + c[1] + 1, c[2])
  BY <1>6
<1> QED
  BY <1>3, <1>4, <1>5, <1>6, <1>7, Zenon DEF at

\* some[k] holds the entries among the first k of value that are not empty.
Decoding(some, value, c) ==
  /\ some \in [0 .. Len(value) \div (c[1] + c[2]) -> Seq(Region)]
  /\ some[0] = << >>
  /\ \A k \in 1 .. Len(value) \div (c[1] + c[2]) :
       some[k] = IF Entry(value, c, k).size = 0 THEN some[k-1] ELSE Append(some[k-1], Entry(value, c, k))

\* Decode collects the entries that are not empty, in their order.
LEMMA DecodeDef ==
  ASSUME NEW value \in Seq(Word), NEW c \in Counts
  PROVE  /\ \E some : Decoding(some, value, c) /\ Decode(value, c) = some[Len(value) \div (c[1] + c[2])]
         /\ Len(value) \div (c[1] + c[2]) \in Nat
<1> DEFINE N == Len(value) \div (c[1] + c[2])
           D(x, k) == IF Entry(value, c, k).size = 0 THEN x ELSE Append(x, Entry(value, c, k))
           X == Seq(Region)
           S == [k \in 1..N |-> [x \in X |-> D(x, k)]]
           some == CHOOSE f : f = [k \in 0..N |-> IF k = 0 THEN << >> ELSE D(f[k-1], k)]
<1>1. N \in Nat
  <2>1. c[1] \in 1..2 /\ c[2] \in 1..2 /\ c[1] + c[2] \in 2..4 /\ Len(value) \in Nat
    BY DEF Counts
  <2> DEFINE n == c[1] + c[2]
  <2> HIDE DEF n
  <2>2. Len(value) \div n \in Nat
    BY <2>1 DEF n
  <2> QED
    BY <2>2 DEF n
<1>2. Decode(value, c) = some[N]
  BY Zenon DEF Decode
<1>3. ASSUME NEW k \in 1..N, NEW x \in X
      PROVE  D(x, k) \in X
  <2> DEFINE e == Entry(value, c, k)
  <2>1. e = [base |-> e.base, size |-> e.size] /\ e.base \in 0..Limit-1 /\ e.size \in 0..Limit-1
    BY EntryFits, Zenon
  <2> HIDE DEF e
  <2>2. e.size # 0 => e \in Region
    BY <2>1 DEF Region
  <2>3. e.size # 0 => Append(x, e) \in X
    BY <2>2
  <2> QED
    BY <2>3, Zenon DEF e
<1> HIDE DEF D, X
<1>4. S \in [1..N -> [X -> X]] /\ << >> \in X
  <2>1. << >> \in X
    BY DEF X
  <2> QED
    BY <1>3, <2>1
<1>5. PICK f : Loop(f, N, X, << >>, S)
  <2> HIDE DEF S, N
  <2> QED
    BY <1>1, <1>4, LoopExists, Zenon
<1>6. f = [k \in 0..N |-> IF k = 0 THEN << >> ELSE D(f[k-1], k)]
  <2>1. ASSUME NEW k \in 1..N
        PROVE  f[k] = D(f[k-1], k)
    <3>1. k - 1 \in 0..N
      BY <1>1
    <3>2. f[k-1] \in X /\ f[k] = S[k][f[k-1]]
      BY <1>5, <3>1, Zenon DEF Loop
    <3> QED
      BY <3>2, Zenon
  <2>2. \A k \in 0..N : k # 0 => k \in 1..N
    BY <1>1
  <2>3. \A k \in 0..N : f[k] = IF k = 0 THEN << >> ELSE D(f[k-1], k)
    BY <1>5, <2>1, <2>2, Zenon DEF Loop
  <2> QED
    BY <1>5, <2>3, Zenon DEF Loop
<1>7. some = [k \in 0..N |-> IF k = 0 THEN << >> ELSE D(some[k-1], k)]
  BY <1>6, Zenon
<1> HIDE DEF some
<1>8. some[0] = << >> /\ \A k \in 1..N : some[k] = D(some[k-1], k)
  <2>1. 0 \in 0..N /\ \A k \in 1..N : k \in 0..N /\ k # 0
    BY <1>1
  <2> HIDE DEF N
  <2> QED
    BY <1>7, <2>1, Zenon
<1>9. \A k \in 0..N : some[k] \in X
  <2> DEFINE T == {k \in 0..N : some[k] \in X}
  <2>1. 0 \in T
    BY <1>1, <1>4, <1>8
  <2>2. ASSUME NEW k \in 0..N-1, k \in T
        PROVE  k + 1 \in T
    <3>1. k + 1 \in 1..N /\ k + 1 \in 0..N /\ (k + 1) - 1 = k /\ some[k] \in X
      BY <1>1, <2>2
    <3>2. some[k + 1] = D(some[k], k + 1)
      BY <1>8, <3>1, Zenon
    <3> QED
      BY <1>3, <3>1, <3>2, Zenon
  <2> HIDE DEF T
  <2>3. \A k \in 0..N : k \in T
    BY <1>1, <2>1, <2>2, TurnByTurn, Zenon
  <2> QED
    BY <2>3 DEF T
<1>10. some \in [0..N -> X]
  <2> HIDE DEF N
  <2> QED
    BY <1>7, <1>9, Zenon
<1>11. Decoding(some, value, c)
  BY <1>8, <1>10, Zenon DEF Decoding, D, X
<1> QED
  BY <1>1, <1>2, <1>11, Zenon

-----------------------------------------------------------------------------
(* parse_reg *)

\* What the turns of parse_reg's loop leave: a list that fits, or an error.
NoError == ""
Outcomes == {NoError, "BadReg", "TooManyRegions"}
RegOut(max) == {o \in [list : Seq(Usable), error : Outcomes] : Len(o.list) <= max}

\* Whether a turn is left at once, and whether it has come without an error.
Over(o, size) == o.error # "" \/ size = 0
Fine(o) == o.error = ""

\* A turn adds its entry unless that is empty, and never recovers from an error.
LEMMA RegTurn ==
  ASSUME NEW max \in Nat, NEW o \in RegOut(max), NEW base \in 0..Limit-1, NEW size \in 0..Limit-1
  PROVE  /\ RegEntry(o, max, base, size) \in RegOut(max)
         /\ Fine(RegEntry(o, max, base, size)) =>
              /\ Fine(o)
              /\ RegEntry(o, max, base, size).list =
                   IF size = 0 THEN o.list ELSE Append(o.list, [base |-> base, size |-> size])
<1> DEFINE e == [base |-> base, size |-> size]
           o2 == RegEntry(o, max, base, size)
<1>1. /\ o.list \in Seq(Usable) /\ Len(o.list) <= max /\ o.error \in Outcomes
      /\ o = [list |-> o.list, error |-> o.error]
  BY DEF RegOut
<1>2. Limit \in Int
  BY FdtAssumption DEF Limit
<1>3. NoError \in Outcomes /\ "BadReg" \in Outcomes /\ "TooManyRegions" \in Outcomes
  BY Zenon DEF Outcomes
<1>4. \A x : Fine(x) <=> x.error = NoError
  BY Zenon DEF Fine, NoError
<1>5. ~("BadReg" = NoError) /\ ~("TooManyRegions" = NoError)
  BY Zenon DEF NoError
<1>6. ~Over(o, size) => Fine(o) /\ size # 0
  BY Zenon DEF Over, Fine
<1>7. CASE Over(o, size)
  <2>1. o2 = o
    BY <1>7, Zenon DEF RegEntry, Over
  <2> QED
    BY <1>7, <2>1, Zenon DEF Over, Fine
<1>8. CASE ~Over(o, size) /\ base + size >= Limit
  <2>1. o2 = [o EXCEPT !.error = "BadReg"]
    BY <1>8, Zenon DEF RegEntry, Over
  <2> HIDE DEF o2
  <2>2. o2 = [list |-> o.list, error |-> "BadReg"]
    BY <1>1, <2>1
  <2>3. o2.list = o.list /\ o2.error = "BadReg"
    BY <2>2
  <2>4. o2 \in RegOut(max)
    BY <1>1, <1>3, <2>2, <2>3 DEF RegOut
  <2> QED
    BY <1>4, <1>5, <2>3, <2>4, Zenon DEF o2
<1>9. CASE ~Over(o, size) /\ ~(base + size >= Limit) /\ Len(o.list) = max
  <2>1. o2 = [o EXCEPT !.error = "TooManyRegions"]
    BY <1>9, Zenon DEF RegEntry, Over
  <2> HIDE DEF o2
  <2>2. o2 = [list |-> o.list, error |-> "TooManyRegions"]
    BY <1>1, <2>1
  <2>3. o2.list = o.list /\ o2.error = "TooManyRegions"
    BY <2>2
  <2>4. o2 \in RegOut(max)
    BY <1>1, <1>3, <2>2, <2>3 DEF RegOut
  <2> QED
    BY <1>4, <1>5, <2>3, <2>4, Zenon DEF o2
<1>10. CASE ~Over(o, size) /\ ~(base + size >= Limit) /\ Len(o.list) # max
  <2>1. o2 = [o EXCEPT !.list = Append(o.list, e)]
    BY <1>10, Zenon DEF RegEntry, Over
  <2>2. Fine(o) /\ size # 0 /\ o.error = NoError
    BY <1>4, <1>6, <1>10, Zenon
  <2>3. size \in 1..Limit-1 /\ base + size < Limit
    BY <1>2, <1>10, <2>2
  <2>4. e \in Usable
    BY <2>3 DEF Usable, Region
  <2> HIDE DEF e, o2
  <2>5. o2 = [list |-> Append(o.list, e), error |-> NoError]
    BY <1>1, <2>1, <2>2, Zenon
  <2>6. o2.list = Append(o.list, e) /\ o2.error = NoError
    BY <2>5
  <2>7. Append(o.list, e) \in Seq(Usable) /\ Len(Append(o.list, e)) <= max
    BY <1>1, <1>10, <2>4
  <2>8. o2 \in RegOut(max)
    BY <1>3, <2>5, <2>6, <2>7 DEF RegOut
  <2> QED
    BY <2>2, <2>6, <2>8, Zenon DEF e, o2
<1> QED
  BY <1>7, <1>8, <1>9, <1>10, Zenon

\* out[k] is what the first k turns leave, the entries being the tree's.
Turning(out, value, c, list, max) ==
  /\ out \in [0 .. Len(value) \div (c[1] + c[2]) -> RegOut(max)]
  /\ out[0] = [list |-> list, error |-> NoError]
  /\ \A k \in 1 .. Len(value) \div (c[1] + c[2]) :
       out[k] = RegEntry(out[k-1], max, Entry(value, c, k).base, Entry(value, c, k).size)

\* The loop of parse_reg reads the entries that the tree has.
LEMMA RegLoopDef ==
  ASSUME NEW value \in Seq(Word), NEW c \in Counts, NEW max \in Nat,
         NEW list \in Seq(Usable), Len(list) <= max
  PROVE  Turning(RegLoop(value, c[1], c[2], list, max), value, c, list, max)
<1> DEFINE N == Len(value) \div (c[1] + c[2])
           R(x, k) == RegEntry(x, max, Entry(value, c, k).base, Entry(value, c, k).size)
           Q(x, k) == RegEntry(x, max,
                        read_cells(SubSeq(value, (k - 1) * (c[1] + c[2]) + 1, (k - 1) * (c[1] + c[2]) + c[1])),
                        read_cells(SubSeq(value, (k - 1) * (c[1] + c[2]) + c[1] + 1,
                                                 (k - 1) * (c[1] + c[2]) + (c[1] + c[2]))))
           X == RegOut(max)
           first == [list |-> list, error |-> NoError]
           S == [k \in 1..N |-> [x \in X |-> R(x, k)]]
           out == CHOOSE f : f = [k \in 0..N |-> IF k = 0 THEN first ELSE Q(f[k-1], k)]
<1>1. N \in Nat
  BY DecodeDef, Zenon
<1>2. RegLoop(value, c[1], c[2], list, max) = out
  BY Zenon DEF RegLoop, NoError
<1>3. ASSUME NEW k \in 1..N, NEW x
      PROVE  Q(x, k) = R(x, k)
  <2> DEFINE n == c[1] + c[2]
             at == (k - 1) * n
  <2>1. c[1] \in 1..2 /\ c[2] \in 1..2 /\ n \in 2..4 /\ Len(value) \in Nat
    BY DEF Counts
  <2>2. at \in Nat /\ at + n <= Len(value)
    BY EntryFits, Zenon
  <2>3. /\ Entry(value, c, k).base = Number(value, at + 1, c[1])
        /\ Entry(value, c, k).size = Number(value, at + c[1] + 1, c[2])
    <3>1. Entry(value, c, k) = [base |-> Number(value, at + 1, c[1]), size |-> Number(value, at + c[1] + 1, c[2])]
      BY Zenon DEF Entry
    <3> HIDE DEF at
    <3> QED
      BY <3>1
  <2>4. read_cells(SubSeq(value, at + 1, at + c[1])) = Number(value, at + 1, c[1])
    <3> HIDE DEF at
    <3>1. at + c[1] <= Len(value)
      BY <2>1, <2>2
    <3> QED
      BY <2>1, <2>2, <3>1, ReadNumber
  <2>5. read_cells(SubSeq(value, at + c[1] + 1, at + n)) = Number(value, at + c[1] + 1, c[2])
    <3>1. n = c[1] + c[2]
      OBVIOUS
    <3> HIDE DEF at, n, N
    <3>2. at + c[1] \in Nat /\ at + c[1] + c[2] <= Len(value) /\ at + n = at + c[1] + c[2]
      <4>1. at + (c[1] + c[2]) <= Len(value) /\ at + n = at + (c[1] + c[2])
        BY <2>2, <3>1, Zenon
      <4>2. at + c[1] \in Nat /\ at + c[1] + c[2] <= Len(value)
        BY <2>1, <2>2, <4>1, SecondNumber, Zenon
      <4>3. at + (c[1] + c[2]) = at + c[1] + c[2]
        BY <2>1, <2>2
      <4> QED
        BY <4>1, <4>2, <4>3, Zenon
    <3> QED
      BY <2>1, <3>2, ReadNumber
  <2> HIDE DEF at
  <2> QED
    BY <2>3, <2>4, <2>5, Zenon DEF at
<1>4. ASSUME NEW k \in 1..N, NEW x \in X
      PROVE  R(x, k) \in X
  <2>1. Entry(value, c, k).base \in 0..Limit-1 /\ Entry(value, c, k).size \in 0..Limit-1
    BY EntryFits, Zenon
  <2> QED
    BY <2>1, RegTurn, Zenon
<1>5. first \in X
  <2>1. NoError \in Outcomes
    BY Zenon DEF Outcomes
  <2> QED
    BY <2>1 DEF RegOut
<1> HIDE DEF Q, R, X, first
<1>6. S \in [1..N -> [X -> X]]
  BY <1>4
<1>7. PICK f : Loop(f, N, X, first, S)
  <2> HIDE DEF S, N
  <2> QED
    BY <1>1, <1>5, <1>6, LoopExists, Zenon
<1>8. f = [k \in 0..N |-> IF k = 0 THEN first ELSE Q(f[k-1], k)]
  <2>1. ASSUME NEW k \in 1..N
        PROVE  f[k] = Q(f[k-1], k)
    <3>1. k - 1 \in 0..N
      BY <1>1
    <3>2. f[k-1] \in X /\ f[k] = S[k][f[k-1]]
      BY <1>7, <3>1, Zenon DEF Loop
    <3>3. f[k] = R(f[k-1], k)
      BY <3>2, Zenon
    <3> QED
      BY <1>3, <3>3, Zenon
  <2>2. \A k \in 0..N : k # 0 => k \in 1..N
    BY <1>1
  <2>3. \A k \in 0..N : f[k] = IF k = 0 THEN first ELSE Q(f[k-1], k)
    BY <1>7, <2>1, <2>2, Zenon DEF Loop
  <2> QED
    BY <1>7, <2>3, Zenon DEF Loop
<1>9. out = [k \in 0..N |-> IF k = 0 THEN first ELSE Q(out[k-1], k)]
  BY <1>8, Zenon
<1> HIDE DEF out
<1>10. out[0] = first /\ \A k \in 1..N : out[k] = R(out[k-1], k)
  <2>1. 0 \in 0..N /\ \A k \in 1..N : k \in 0..N /\ k # 0
    BY <1>1
  <2>2. out[0] = first /\ \A k \in 1..N : out[k] = Q(out[k-1], k)
    <3> HIDE DEF N
    <3> QED
      BY <1>9, <2>1, Zenon
  <2> QED
    BY <1>3, <2>2, Zenon
<1>11. \A k \in 0..N : out[k] \in X
  <2> DEFINE T == {k \in 0..N : out[k] \in X}
  <2>1. 0 \in T
    BY <1>1, <1>5, <1>10
  <2>2. ASSUME NEW k \in 0..N-1, k \in T
        PROVE  k + 1 \in T
    <3>1. k + 1 \in 1..N /\ k + 1 \in 0..N /\ (k + 1) - 1 = k /\ out[k] \in X
      BY <1>1, <2>2
    <3>2. out[k + 1] = R(out[k], k + 1)
      BY <1>10, <3>1, Zenon
    <3> QED
      BY <1>4, <3>1, <3>2, Zenon
  <2> HIDE DEF T
  <2>3. \A k \in 0..N : k \in T
    BY <1>1, <2>1, <2>2, TurnByTurn, Zenon
  <2> QED
    BY <2>3 DEF T
<1>12. out \in [0..N -> X]
  <2> HIDE DEF N
  <2> QED
    BY <1>9, <1>11, Zenon
<1> QED
  BY <1>2, <1>10, <1>12, Zenon DEF Turning, R, X, first

\* Joining sequences keeps their type, and joining nothing changes nothing.
LEMMA JoinType ==
  ASSUME NEW X, NEW s \in Seq(X), NEW t \in Seq(X)
  PROVE  s \o t \in Seq(X) /\ s \o << >> = s /\ << >> \o s = s
OBVIOUS

\* o is what the loop leaves when it has read the value.
HasRead(o, value, c, list, max) == o \in RegOut(max) /\ (Fine(o) => o.list = list \o Decode(value, c))

\* Without an error the loop has added the entries of the value that are not
\* empty, in their order.
LEMMA LoopReads ==
  ASSUME NEW value \in Seq(Word), NEW c \in Counts, NEW max \in Nat,
         NEW list \in Seq(Usable), Len(list) <= max
  PROVE  HasRead(RegLoop(value, c[1], c[2], list, max)[Len(value) \div (c[1] + c[2])], value, c, list, max)
<1> DEFINE N == Len(value) \div (c[1] + c[2])
           out == RegLoop(value, c[1], c[2], list, max)
           E(k) == Entry(value, c, k)
<1>1. N \in Nat
  BY DecodeDef, Zenon
<1>2. PICK some : Decoding(some, value, c) /\ Decode(value, c) = some[N]
  BY DecodeDef, Zenon
<1>3. /\ some \in [0..N -> Seq(Region)] /\ some[0] = << >>
      /\ \A k \in 1..N : some[k] = IF E(k).size = 0 THEN some[k-1] ELSE Append(some[k-1], E(k))
  BY <1>2, Zenon DEF Decoding
<1>4. /\ out \in [0..N -> RegOut(max)] /\ out[0] = [list |-> list, error |-> NoError]
      /\ \A k \in 1..N : out[k] = RegEntry(out[k-1], max, E(k).base, E(k).size)
  BY RegLoopDef, Zenon DEF Turning
<1>5. list \in Seq(Region)
  BY DEF Usable
<1> HIDE DEF out, N
<1> DEFINE Joined(k) == Fine(out[k]) => out[k].list = list \o some[k]
           T == {k \in 0..N : Joined(k)}
<1>6. 0 \in T
  <2>1. out[0].list = list
    BY <1>4
  <2>2. 0 \in 0..N /\ list \o some[0] = list
    BY <1>1, <1>3, <1>5
  <2> QED
    BY <2>1, <2>2, Zenon
<1>7. ASSUME NEW k \in 0..N-1, k \in T
      PROVE  k + 1 \in T
  <2>1. k \in 0..N /\ k + 1 \in 1..N /\ k + 1 \in 0..N /\ (k + 1) - 1 = k
    BY <1>1
  <2> DEFINE e == E(k + 1)
  <2>2. e = [base |-> e.base, size |-> e.size] /\ e.base \in 0..Limit-1 /\ e.size \in 0..Limit-1
    BY <2>1, EntryFits, Zenon DEF N
  <2>3. out[k + 1] = RegEntry(out[k], max, e.base, e.size) /\ out[k] \in RegOut(max)
    BY <1>4, <2>1, Zenon
  <2>4. some[k + 1] = (IF e.size = 0 THEN some[k] ELSE Append(some[k], e)) /\ some[k] \in Seq(Region)
    BY <1>3, <2>1, Zenon
  <2> HIDE DEF e
  <2>5. SUFFICES ASSUME Fine(out[k + 1])
                 PROVE  out[k + 1].list = list \o some[k + 1]
    <3>1. Joined(k + 1) => k + 1 \in T
      <4> HIDE DEF Joined
      <4> QED
        BY <2>1
    <3> HIDE DEF T
    <3> QED
      BY <3>1, Zenon
  <2>6. /\ Fine(out[k])
        /\ out[k + 1].list = IF e.size = 0 THEN out[k].list ELSE Append(out[k].list, e)
    <3>1. Fine(RegEntry(out[k], max, e.base, e.size)) =>
            /\ Fine(out[k])
            /\ RegEntry(out[k], max, e.base, e.size).list =
                 IF e.size = 0 THEN out[k].list ELSE Append(out[k].list, [base |-> e.base, size |-> e.size])
      BY <2>2, <2>3, RegTurn
    <3>2. Append(out[k].list, [base |-> e.base, size |-> e.size]) = Append(out[k].list, e)
      BY <2>2, Zenon
    <3> QED
      BY <2>3, <2>5, <3>1, <3>2, Zenon
  <2>7. out[k].list = list \o some[k]
    <3>1. Joined(k)
      <4> HIDE DEF Joined
      <4> QED
        BY <1>7
    <3> QED
      BY <2>6, <3>1, Zenon
  <2>8. e.size # 0 => list \o Append(some[k], e) = Append(list \o some[k], e)
    <3>1. e.size # 0 => e \in Region
      BY <2>2 DEF Region
    <3>2. ASSUME e \in Region
          PROVE  list \o Append(some[k], e) = Append(list \o some[k], e)
      <4> DEFINE t == some[k]
      <4>1. t \in Seq(Region)
        BY <2>4, Zenon
      <4> HIDE DEF t
      <4>2. list \o Append(t, e) = Append(list \o t, e)
        BY <1>5, <3>2, <4>1
      <4> QED
        BY <4>2, Zenon DEF t
    <3> QED
      BY <3>1, <3>2, Zenon
  <2> QED
    BY <2>4, <2>6, <2>7, <2>8, Zenon
<1> HIDE DEF T
<1>8. \A k \in 0..N : k \in T
  BY <1>1, <1>6, <1>7, TurnByTurn, Zenon
<1>9. N \in 0..N
  BY <1>1
<1>10. HasRead(out[N], value, c, list, max)
  BY <1>2, <1>4, <1>8, <1>9, Zenon DEF T, HasRead
<1> QED
  BY <1>10, Zenon DEF out, N

\* o is the list with the entries of the value added, or an error.
Parsed(o, value, c, list, max) ==
  /\ Fine(o) \/ o.error \in Errors
  /\ Fine(o) => /\ c \in Counts
                /\ o.list \in Seq(Usable) /\ Len(o.list) <= max
                /\ o.list = list \o Decode(value, c)

\* parse_reg adds exactly the entries of the value to its list, or fails with
\* one of the parser's errors.
LEMMA ParseReg ==
  ASSUME NEW value \in Seq(Word), NEW ac \in Word, NEW sc \in Word, NEW max \in Nat,
         NEW list \in Seq(Usable), Len(list) <= max
  PROVE  Parsed(parse_reg(value, ac, sc, list, max), value, <<ac, sc>>, list, max)
<1> DEFINE o == parse_reg(value, ac, sc, list, max)
<1> SUFFICES /\ Fine(o) \/ o.error \in Errors
             /\ Fine(o) => /\ <<ac, sc>> \in Counts
                           /\ o.list \in Seq(Usable) /\ Len(o.list) <= max
                           /\ o.list = list \o Decode(value, <<ac, sc>>)
  BY Zenon DEF Parsed
<1>0. o = parse_reg(value, ac, sc, list, max)
  OBVIOUS
<1> HIDE DEF o
<1>1. /\ "UnsupportedCells" \in Errors /\ "BadReg" \in Errors /\ "TooManyRegions" \in Errors
      /\ "UnsupportedCells" # NoError /\ "BadReg" # NoError
  BY Zenon DEF Errors, NoError
<1>2. \A x : Fine(x) <=> x.error = NoError
  BY Zenon DEF Fine, NoError
<1>3. CASE ac \notin 1..2 \/ sc \notin 1..2
  <2>1. o = [list |-> list, error |-> "UnsupportedCells"]
    BY <1>0, <1>3 DEF parse_reg
  <2>2. o.error = "UnsupportedCells"
    BY <2>1
  <2> QED
    BY <1>1, <1>2, <2>2, Zenon
<1>4. CASE ~(ac \notin 1..2 \/ sc \notin 1..2) /\ (value = << >> \/ Len(value) % (ac + sc) # 0)
  <2>1. o = [list |-> list, error |-> "BadReg"]
    BY <1>0, <1>4, Zenon DEF parse_reg
  <2>2. o.error = "BadReg"
    BY <2>1
  <2> QED
    BY <1>1, <1>2, <2>2, Zenon
<1>5. CASE ~(ac \notin 1..2 \/ sc \notin 1..2) /\ ~(value = << >> \/ Len(value) % (ac + sc) # 0)
  <2> DEFINE c == <<ac, sc>>
  <2>1. c \in Counts /\ c[1] = ac /\ c[2] = sc
    BY <1>5 DEF Counts
  <2>2. o = RegLoop(value, ac, sc, list, max)[Len(value) \div (ac + sc)]
    BY <1>0, <1>5, Zenon DEF parse_reg
  <2> HIDE DEF c
  <2>3. o = RegLoop(value, c[1], c[2], list, max)[Len(value) \div (c[1] + c[2])]
    BY <2>1, <2>2, Zenon
  <2>4. o \in RegOut(max) /\ (Fine(o) => o.list = list \o Decode(value, c))
    <3>1. HasRead(o, value, c, list, max)
      BY <2>1, <2>3, LoopReads, Zenon
    <3> QED
      BY <3>1, Zenon DEF HasRead
  <2>5. o.list \in Seq(Usable) /\ Len(o.list) <= max /\ o.error \in Outcomes
    BY <2>4 DEF RegOut
  <2> QED
    BY <1>1, <1>2, <2>1, <2>4, <2>5, Zenon DEF c, Outcomes
<1> QED
  BY <1>3, <1>4, <1>5, Zenon

-----------------------------------------------------------------------------
(* Several values *)

\* all[k] holds the entries of the first k values.
Collecting(all, values, c) ==
  /\ all \in [0..Len(values) -> Seq(Region)]
  /\ all[0] = << >>
  /\ \A k \in 1..Len(values) : all[k] = all[k-1] \o Decode(values[k], c)

\* The entries of a value are regions.
LEMMA DecodeType ==
  ASSUME NEW value \in Seq(Word), NEW c \in Counts
  PROVE  Decode(value, c) \in Seq(Region)
<1> DEFINE N == Len(value) \div (c[1] + c[2])
<1>1. PICK some : Decoding(some, value, c) /\ Decode(value, c) = some[N]
  BY DecodeDef, Zenon
<1>2. N \in Nat
  BY DecodeDef, Zenon
<1>3. some \in [0..N -> Seq(Region)]
  BY <1>1, Zenon DEF Decoding
<1> HIDE DEF N
<1>4. N \in 0..N
  BY <1>2
<1> QED
  BY <1>1, <1>3, <1>4, Zenon

\* DecodeAll joins the entries of the values in their order.
LEMMA DecodeAllDef ==
  ASSUME NEW values \in Seq(Seq(Word)), NEW c \in Counts
  PROVE  \E all : Collecting(all, values, c) /\ DecodeAll(values, c) = all[Len(values)]
<1> DEFINE N == Len(values)
           D(x, k) == x \o Decode(values[k], c)
           X == Seq(Region)
           S == [k \in 1..N |-> [x \in X |-> D(x, k)]]
           all == CHOOSE f : f = [k \in 0..N |-> IF k = 0 THEN << >> ELSE D(f[k-1], k)]
<1>1. N \in Nat
  OBVIOUS
<1>2. DecodeAll(values, c) = all[N]
  BY Zenon DEF DecodeAll
<1>3. ASSUME NEW k \in 1..N, NEW x \in X
      PROVE  D(x, k) \in X
  <2>1. values[k] \in Seq(Word)
    OBVIOUS
  <2>2. Decode(values[k], c) \in X
    BY <2>1, DecodeType, Zenon
  <2> QED
    BY <2>2, JoinType, Zenon
<1> HIDE DEF D
<1>4. << >> \in X
  OBVIOUS
<1> HIDE DEF X
<1>5. S \in [1..N -> [X -> X]]
  BY <1>3
<1> HIDE DEF N
<1>6. PICK f : Loop(f, N, X, << >>, S)
  <2> HIDE DEF S
  <2> QED
    BY <1>1, <1>4, <1>5, LoopExists, Zenon
<1>7. f = [k \in 0..N |-> IF k = 0 THEN << >> ELSE D(f[k-1], k)]
  <2>1. ASSUME NEW k \in 1..N
        PROVE  f[k] = D(f[k-1], k)
    <3>1. k - 1 \in 0..N
      BY <1>1
    <3>2. f[k-1] \in X /\ f[k] = S[k][f[k-1]]
      BY <1>6, <3>1, Zenon DEF Loop
    <3> QED
      BY <3>2, Zenon
  <2>2. \A k \in 0..N : k # 0 => k \in 1..N
    BY <1>1
  <2>3. \A k \in 0..N : f[k] = IF k = 0 THEN << >> ELSE D(f[k-1], k)
    BY <1>6, <2>1, <2>2, Zenon DEF Loop
  <2> QED
    BY <1>6, <2>3, Zenon DEF Loop
<1>8. all = [k \in 0..N |-> IF k = 0 THEN << >> ELSE D(all[k-1], k)]
  BY <1>7, Zenon
<1> HIDE DEF all
<1>9. all[0] = << >> /\ \A k \in 1..N : all[k] = D(all[k-1], k)
  <2>1. 0 \in 0..N /\ \A k \in 1..N : k \in 0..N /\ k # 0
    BY <1>1
  <2> QED
    BY <1>8, <2>1, Zenon
<1>10. \A k \in 0..N : all[k] \in X
  <2> DEFINE T == {k \in 0..N : all[k] \in X}
  <2>1. 0 \in T
    BY <1>1, <1>4, <1>9
  <2>2. ASSUME NEW k \in 0..N-1, k \in T
        PROVE  k + 1 \in T
    <3>1. k + 1 \in 1..N /\ k + 1 \in 0..N /\ (k + 1) - 1 = k /\ all[k] \in X
      BY <1>1, <2>2
    <3>2. all[k + 1] = D(all[k], k + 1)
      BY <1>9, <3>1, Zenon
    <3> QED
      BY <1>3, <3>1, <3>2, Zenon
  <2> HIDE DEF T
  <2>3. \A k \in 0..N : k \in T
    BY <1>1, <2>1, <2>2, TurnByTurn, Zenon
  <2> QED
    BY <2>3 DEF T
<1>11. all \in [0..N -> X]
  BY <1>8, <1>10, Zenon
<1>12. Collecting(all, values, c)
  BY <1>9, <1>11, Zenon DEF Collecting, D, X, N
<1> QED
  BY <1>2, <1>12, Zenon DEF N

\* No values have no entries, whatever the cells.
LEMMA DecodeAllNone ==
  ASSUME NEW c
  PROVE  DecodeAll(<< >>, c) = << >>
<1> DEFINE D(x, k) == x \o Decode(<< >>[k], c)
           all == CHOOSE f : f = [k \in 0..Len(<< >>) |-> IF k = 0 THEN << >> ELSE D(f[k-1], k)]
           g == [k \in 0..0 |-> << >>]
<1>1. Len(<< >>) = 0 /\ \A k \in 0..0 : k = 0
  OBVIOUS
<1>2. DecodeAll(<< >>, c) = all[0]
  BY <1>1, Zenon DEF DecodeAll
<1> HIDE DEF D
<1>3. g = [k \in 0..Len(<< >>) |-> IF k = 0 THEN << >> ELSE D(g[k-1], k)]
  BY <1>1, Zenon
<1> HIDE DEF g
<1>4. all = [k \in 0..Len(<< >>) |-> IF k = 0 THEN << >> ELSE D(all[k-1], k)]
  BY <1>3, Zenon
<1> HIDE DEF all
<1>5. 0 \in 0..Len(<< >>)
  OBVIOUS
<1>6. all[0] = << >>
  BY <1>4, <1>5, Zenon
<1> QED
  BY <1>2, <1>6

\* One more value adds its entries at the end.
LEMMA DecodeAllAppend ==
  ASSUME NEW values \in Seq(Seq(Word)), NEW v \in Seq(Word), NEW c \in Counts
  PROVE  /\ DecodeAll(values \o <<v>>, c) = DecodeAll(values, c) \o Decode(v, c)
         /\ DecodeAll(values, c) \in Seq(Region)
<1> DEFINE more == values \o <<v>>
           N == Len(values)
<1>1. /\ more \in Seq(Seq(Word)) /\ N \in Nat /\ Len(more) = N + 1
      /\ more[N + 1] = v /\ \A k \in 1..N : more[k] = values[k]
  OBVIOUS
<1> HIDE DEF more, N
<1>2. PICK f : Collecting(f, values, c) /\ DecodeAll(values, c) = f[N]
  BY DecodeAllDef, Zenon DEF N
<1>3. PICK g : Collecting(g, more, c) /\ DecodeAll(more, c) = g[N + 1]
  BY <1>1, DecodeAllDef, Zenon
<1>4. f[0] = << >> /\ \A k \in 1..N : f[k] = f[k-1] \o Decode(values[k], c)
  BY <1>2, Zenon DEF Collecting, N
<1>5. g[0] = << >> /\ \A k \in 1..N+1 : g[k] = g[k-1] \o Decode(more[k], c)
  BY <1>1, <1>3, Zenon DEF Collecting
<1> DEFINE T == {k \in 0..N : f[k] = g[k]}
<1>6. 0 \in T
  BY <1>1, <1>4, <1>5
<1>7. ASSUME NEW k \in 0..N-1, k \in T
      PROVE  k + 1 \in T
  <2>1. k + 1 \in 1..N /\ k + 1 \in 1..N+1 /\ k + 1 \in 0..N /\ (k + 1) - 1 = k
    BY <1>1
  <2>2. f[k] = g[k]
    BY <1>7
  <2>3. f[k + 1] = f[k] \o Decode(values[k + 1], c) /\ g[k + 1] = g[k] \o Decode(more[k + 1], c)
    BY <1>4, <1>5, <2>1, Zenon
  <2>4. f[k + 1] = g[k + 1]
    BY <1>1, <2>1, <2>2, <2>3, Zenon
  <2> QED
    BY <2>1, <2>4
<1> HIDE DEF T
<1>8. \A k \in 0..N : k \in T
  BY <1>1, <1>6, <1>7, TurnByTurn, Zenon
<1>9. N \in 0..N /\ N + 1 \in 1..N+1 /\ (N + 1) - 1 = N
  BY <1>1
<1>10. f[N] = g[N]
  BY <1>8, <1>9 DEF T
<1>11. g[N + 1] = g[N] \o Decode(v, c)
  BY <1>1, <1>5, <1>9, Zenon
<1>12. f[N] \in Seq(Region)
  BY <1>2, <1>9, Zenon DEF Collecting, N
<1> QED
  BY <1>2, <1>3, <1>10, <1>11, <1>12, Zenon DEF more

-----------------------------------------------------------------------------
(* Steps *)

\* The paths that matter, by their length and their second name.
LEMMA PathIs ==
  ASSUME NEW s \in Seq(NodeNames), s # << >> => s[1] = NoName
  PROVE  /\ s = Root <=> Len(s) = 1
         /\ \A x : s = <<"", x>> <=> Len(s) = 2 /\ s[2] = x
         /\ Len(s) = 3 => (Parent(s) = Rsv <=> s[2] = "reserved-memory")
         /\ \A x : Append(s, x) = Rsv <=> Len(s) = 1 /\ x = "reserved-memory"
<1>1. Root = <<NoName>> /\ Rsv = <<NoName, "reserved-memory">> /\ \A x : <<"", x>> = <<NoName, x>>
  BY Zenon DEF Root, Rsv, NoName
<1>2. s = <<NoName>> <=> Len(s) = 1
  OBVIOUS
<1>3. ASSUME NEW x
      PROVE  s = <<NoName, x>> <=> Len(s) = 2 /\ s[2] = x
  OBVIOUS
<1>4. ASSUME Len(s) = 3
      PROVE  Parent(s) = <<NoName, "reserved-memory">> <=> s[2] = "reserved-memory"
  <2> DEFINE t == Parent(s)
  <2>1. t \in Seq(NodeNames) /\ Len(t) = 2 /\ t[1] = s[1] /\ t[2] = s[2]
    BY <1>4 DEF Parent
  <2>2. s[1] = NoName
    BY <1>4
  <2> HIDE DEF t
  <2>3. t = <<NoName, "reserved-memory">> <=> t[2] = "reserved-memory"
    BY <2>1, <2>2
  <2> QED
    BY <2>1, <2>3 DEF t
<1>5. ASSUME NEW x
      PROVE  Append(s, x) = <<NoName, "reserved-memory">> <=> Len(s) = 1 /\ x = "reserved-memory"
  <2> DEFINE t == Append(s, x)
             Y == NodeNames \cup {x}
  <2>1. t \in Seq(Y) /\ Len(t) = Len(s) + 1 /\ t[Len(s) + 1] = x /\ Len(s) \in Nat
    OBVIOUS
  <2>2. Len(s) = 1 => t[1] = s[1] /\ s[1] = NoName
    OBVIOUS
  <2> HIDE DEF t, Y
  <2>3. t = <<NoName, "reserved-memory">> <=> Len(t) = 2 /\ t[1] = NoName /\ t[2] = "reserved-memory"
    BY <2>1
  <2>4. t = <<NoName, "reserved-memory">> <=> Len(s) = 1 /\ x = "reserved-memory"
    <3>1. \A n \in Nat : n + 1 = 2 <=> n = 1
      OBVIOUS
    <3> QED
      BY <2>1, <2>2, <2>3, <3>1, Zenon
  <2> QED
    BY <2>4, Zenon DEF t
<1> QED
  BY <1>1, <1>2, <1>3, <1>4, <1>5, Zenon

\* The cells a node has without the properties are words.
LEMMA DefaultCellsType == DefaultCells \in [root : Word \X Word, rsv : Word \X Word]
BY FdtAssumption DEF DefaultCells, Word

\* A rejected stream leaves nothing behind.
LEMMA Rejected ==
  ASSUME NEW e \in Errors, Reject(e), DropTree
  PROVE  FInv'
<1>1. 1 \in Word /\ 2 \in Word /\ 0 \in 0..MAX_ENTROPY /\ 0 <= MAX_MEM_REGIONS /\ 0 <= MAX_RSV_REGIONS
  BY FdtAssumption DEF Word
<1>2. e \in Phases /\ e # "struct" /\ e # "done"
  BY DEF Phases, Errors
<1>3. FType'
  <2>1. rsv_node' \in BOOLEAN
    BY Zenon DEF Reject
  <2>2. /\ regions' \in Seq(Usable) /\ Len(regions') <= MAX_MEM_REGIONS
        /\ reserved' \in Seq(Usable) /\ Len(reserved') <= MAX_RSV_REGIONS
    BY <1>1 DEF Reject
  <2> QED
    BY <1>1, <1>2, <2>1, <2>2 DEF FType, Reject
<1>4. TType'
  BY <1>1, <1>2 DEF TType, DropTree, Reject, DefaultCells
<1>5. Flags'
  <2>1. ~rsv_node' /\ path' = << >>
    BY Zenon DEF Reject, DropTree
  <2>2. Len(path') = 0 /\ ~(Len(path') >= 2)
    BY <2>1
  <2>3. depth' = 0 /\ memory_depth' = 0 /\ chosen_depth' = 0
    BY Zenon DEF Reject
  <2> QED
    BY <2>1, <2>2, <2>3 DEF Flags
<1>6. Reads'
  <2>1. DecodeAll(<< >>, cellsOf.root)' = << >> /\ DecodeAll(<< >>, cellsOf.rsv)' = << >>
    BY DecodeAllNone
  <2> QED
    BY <2>1 DEF Reads, Reject, DropTree, DefaultCells
<1> QED
  BY <1>3, <1>4, <1>5, <1>6 DEF FInv

\* A step that only moves to another phase keeps the invariant.
LEMMA Moved ==
  ASSUME FInv, UNCHANGED <<info, cells, depth, memory_depth, chosen_depth, rsv>>, UNCHANGED treevars,
         phase' \in Phases, phase' # "struct" => path = << >>, phase' = "done" => regions # << >>
  PROVE  FInv'
<1> USE DEF info, cells, rsv, treevars
<1>1. FType'
  BY DEF FInv, FType
<1>2. TType'
  BY DEF FInv, TType
<1>3. Flags'
  BY DEF FInv, Flags
<1>4. Reads'
  BY DEF FInv, Reads
<1> QED
  BY <1>1, <1>2, <1>3, <1>4 DEF FInv

\* No phase is an error.
LEMMA NoErrors ==
  \A x \in {"header", "memreserve", "struct", "done"} : x \notin Errors
BY Zenon DEF Errors

\* What the tree does about a step that rejects.
LEMMA Dropped ==
  ASSUME NEW e \in Errors, Reject(e), phase' \in Errors => DropTree
  PROVE  FInv'
<1>1. phase' = e
  BY DEF Reject
<1> QED
  BY <1>1, Rejected

\* An entry of the reservation block keeps the invariant.
LEMMA ReserveStep ==
  ASSUME FInv, NEW base \in 0..Limit-1, NEW size \in 0..Limit-1,
         memreserve(base, size), Follow(TreeReserve(base, size))
  PROVE  FInv'
<1> DEFINE r == [base |-> base, size |-> size]
<1>1. phase = "memreserve" /\ "BadReg" \in Errors /\ "TooManyRegions" \in Errors /\ "struct" \in Phases /\ Limit \in Int
  BY FdtAssumption DEF memreserve, Errors, Phases, Limit
<1>2. CASE Reject("BadReg") \/ Reject("TooManyRegions")
  BY <1>1, <1>2, Dropped, Zenon DEF Follow
<1>3. CASE /\ base = 0 /\ size = 0
           /\ phase' = "struct"
           /\ UNCHANGED <<info, cells, depth, memory_depth, chosen_depth, rsv>>
  <2>1. TreeReserve(base, size)
    BY <1>3, NoErrors, Zenon DEF Follow
  <2>2. UNCHANGED treevars
    BY <1>3, <2>1 DEF TreeReserve, treevars
  <2> QED
    BY <1>1, <1>3, <2>2, Moved
<1>4. CASE base # 0 /\ size = 0 /\ UNCHANGED fdtvars
  <2>1. phase' = phase /\ UNCHANGED <<info, cells, depth, memory_depth, chosen_depth, rsv>>
    BY <1>4, Zenon DEF fdtvars
  <2>2. TreeReserve(base, size)
    BY <1>1, <2>1, NoErrors, Zenon DEF Follow
  <2>3. UNCHANGED treevars
    BY <1>4, <2>2 DEF TreeReserve, treevars
  <2>4. phase' \in Phases /\ phase' # "done" /\ (phase' # "struct" => path = << >>)
    BY <1>1, <2>1 DEF FInv, TType, Phases
  <2> QED
    BY <2>1, <2>3, <2>4, Moved, Zenon
<1>5. CASE /\ size # 0 /\ base + size < Limit
           /\ Len(reserved) < MAX_RSV_REGIONS
           /\ reserved' = Append(reserved, r)
           /\ UNCHANGED <<phase, regions, entropy_len, cells, depth, memory_depth, chosen_depth, rsv>>
  <2>1. phase' = phase /\ reserved' = Append(reserved, r)
    BY <1>5, Zenon
  <2>2. TreeReserve(base, size)
    BY <1>1, <2>1, NoErrors, Zenon DEF Follow
  <2>3. /\ wantReserved' = Append(wantReserved, r)
        /\ UNCHANGED <<path, hasChild, conforms, cellsOf, memRegs, rsvRegs, offered>>
    BY <1>5, <2>2, Zenon DEF TreeReserve
  <2>4. size \in 1..Limit-1 /\ base + size < Limit
    BY <1>1, <1>5
  <2>5. r \in Usable
    BY <2>4 DEF Usable, Region
  <2> HIDE DEF r
  <2>6. UNCHANGED <<regions, entropy_len, addr_cells, size_cells, depth, memory_depth, chosen_depth,
                    rsv_node, rsv_addr_cells, rsv_size_cells>>
    BY <1>5, Zenon DEF cells, rsv
  <2>7. FType'
    <3>1. reserved' \in Seq(Usable) /\ Len(reserved') <= MAX_RSV_REGIONS
      BY <1>5, <2>1, <2>5, FdtAssumption DEF FInv, FType
    <3> QED
      BY <2>1, <2>6, <3>1 DEF FInv, FType
  <2>8. TType'
    <3>1. wantReserved' \in Seq(Usable)
      BY <2>3, <2>5 DEF FInv, TType
    <3> QED
      BY <2>1, <2>3, <3>1 DEF FInv, TType
  <2>9. Flags'
    BY <2>3, <2>6 DEF FInv, Flags
  <2>10. Reads'
    <3>1. path = << >>
      BY <1>1 DEF FInv, TType
    <3>2. rsvRegs = << >>
      BY <3>1 DEF FInv, Reads
    <3>3. DecodeAll(rsvRegs, cellsOf.rsv) = << >>
      BY <3>2, DecodeAllNone, Zenon
    <3>4. wantReserved \in Seq(Usable) /\ Append(wantReserved, r) \in Seq(Usable)
      BY <2>5 DEF FInv, TType
    <3>5. wantReserved \o << >> = wantReserved /\ Append(wantReserved, r) \o << >> = Append(wantReserved, r)
      BY <3>4, JoinType, Zenon
    <3>6. conforms => reserved' = wantReserved' \o DecodeAll(rsvRegs, cellsOf.rsv)
      BY <2>1, <2>3, <3>3, <3>5, Zenon DEF FInv, Reads
    <3> QED
      BY <2>3, <2>6, <3>6 DEF FInv, Reads
  <2> QED
    BY <2>7, <2>8, <2>9, <2>10 DEF FInv
<1> QED
  BY <1>2, <1>3, <1>4, <1>5, Zenon DEF memreserve

\* Opening a node keeps the invariant.
LEMMA BeginStep ==
  ASSUME FInv, NEW name \in NodeNames, begin_node(name), Follow(TreeBegin(name))
  PROVE  FInv'
<1>1. phase = "struct" /\ "TooDeep" \in Errors /\ "BadStructure" \in Errors
  BY Zenon DEF begin_node, Errors
<1>2. CASE Reject("TooDeep") \/ Reject("BadStructure")
  BY <1>1, <1>2, Dropped, Zenon DEF Follow
<1>3. CASE ~(Reject("TooDeep") \/ Reject("BadStructure"))
  <2> DEFINE n == Len(path)
  <2>1. /\ depth = 0 => name = NoName
        /\ depth' = depth + 1
        /\ memory_depth' = MemoryDepth(name)
        /\ chosen_depth' = IF depth + 1 = 2 /\ name = "chosen" THEN depth + 1 ELSE chosen_depth
        /\ IF depth + 1 = 2 /\ name = "reserved-memory"
           THEN rsv_node' = TRUE /\ rsv_addr_cells' = addr_cells /\ rsv_size_cells' = size_cells
           ELSE UNCHANGED rsv
        /\ UNCHANGED <<phase, info, cells>>
    BY <1>3, Zenon DEF begin_node, NoName
  <2>2. phase' = phase
    BY <2>1, Zenon
  <2>3. TreeBegin(name)
    BY <1>1, <2>2, NoErrors, Zenon DEF Follow
  <2>4. UNCHANGED <<regions, reserved, entropy_len, addr_cells, size_cells>>
    BY <2>1, Zenon DEF info, cells
  <2>5. path \in Seq(NodeNames) /\ n \in Nat /\ depth = n
    BY DEF FInv, TType, Flags
  <2>6. Append(path, name) = Rsv <=> n = 1 /\ name = "reserved-memory"
    BY <2>5, PathIs, Zenon DEF FInv, TType
  <2>7. path' = Append(path, name)
    BY <2>3, Zenon DEF TreeBegin
  <2>8. /\ path' \in Seq(NodeNames) /\ Len(path') = n + 1
        /\ n = 0 => path'[1] = name
        /\ n > 0 => path'[1] = path[1]
        /\ n = 1 => path'[2] = name
        /\ n > 1 => path'[2] = path[2]
    BY <2>5, <2>7
  <2>9. hasChild' = (hasChild \cup {n}) \ {n + 1}
    BY <2>3, Zenon DEF TreeBegin
  <2>10. /\ conforms' <=> (conforms /\ (path = << >> => 0 \notin hasChild))
         /\ conforms' \in BOOLEAN
    BY <2>3, Zenon DEF TreeBegin
  <2>11. cellsOf' = IF ~conforms' THEN DefaultCells
                    ELSE IF Append(path, name) = Rsv THEN [cellsOf EXCEPT !.rsv = cellsOf.root]
                    ELSE cellsOf
    BY <2>3, Zenon DEF TreeBegin
  <2>12. /\ memRegs' = IF conforms' THEN memRegs ELSE << >>
         /\ wantReserved' = IF conforms' THEN wantReserved ELSE << >>
    <3>1. memRegs \o << >> = memRegs /\ wantReserved \o << >> = wantReserved
      BY JoinType, Zenon DEF FInv, TType
    <3> QED
      BY <2>3, <3>1, Zenon DEF TreeBegin, Collect
  <2>13. rsvRegs' = rsvRegs /\ offered' = offered
    BY <2>3, Zenon DEF TreeBegin
  <2>14. path = << >> <=> n = 0
    BY <2>5
  <2> HIDE DEF n
  <2>15. /\ n = 1 /\ name = "reserved-memory" =>
             rsv_node' = TRUE /\ rsv_addr_cells' = addr_cells /\ rsv_size_cells' = size_cells
         /\ ~(n = 1 /\ name = "reserved-memory") => UNCHANGED <<rsv_node, rsv_addr_cells, rsv_size_cells>>
    <3>1. \A k \in Nat : k + 1 = 2 <=> k = 1
      OBVIOUS
    <3> QED
      BY <2>1, <2>5, <3>1, Zenon DEF rsv
  <2>16. /\ memory_depth' = IF n = 1 /\ name = "memory" THEN 2 ELSE memory_depth
         /\ chosen_depth' = IF n = 1 /\ name = "chosen" THEN 2 ELSE chosen_depth
         /\ depth' = n + 1
    BY <2>1, <2>5 DEF MemoryDepth
  <2>17. FType'
    <3>1. rsv_node' \in BOOLEAN /\ rsv_addr_cells' \in Word /\ rsv_size_cells' \in Word
      BY <2>15, Zenon DEF FInv, FType
    <3>2. depth' \in Nat /\ memory_depth' \in Nat /\ chosen_depth' \in Nat
      BY <2>5, <2>16 DEF FInv, FType
    <3> QED
      BY <2>2, <2>4, <3>1, <3>2 DEF FInv, FType
  <2>18. TType'
    <3>1. memRegs' \in Seq(Seq(Word)) /\ wantReserved' \in Seq(Usable)
      BY <2>12 DEF FInv, TType
    <3>2. cellsOf' \in [root : Word \X Word, rsv : Word \X Word]
      BY <2>11, DefaultCellsType, Zenon DEF FInv, TType
    <3>3. hasChild' \subseteq Nat /\ \A k \in 0 .. Len(path') - 1 : k \in hasChild'
      <4>1. hasChild \subseteq Nat /\ \A k \in 0..n-1 : k \in hasChild
        BY Zenon DEF FInv, TType, n
      <4>2. hasChild' \subseteq Nat
        BY <2>5, <2>9, <4>1
      <4>3. \A k \in 0 .. (n + 1) - 1 : k \in hasChild'
        BY <2>5, <2>9, <4>1
      <4> QED
        BY <2>8, <4>2, <4>3, Zenon
    <3>4. path'[1] = NoName
      <4>1. n > 0 => path[1] = NoName
        BY <2>5, <2>14 DEF FInv, TType
      <4> QED
        BY <2>1, <2>5, <2>8, <4>1
    <3> QED
      BY <1>1, <2>2, <2>8, <2>10, <2>13, <3>1, <3>2, <3>3, <3>4 DEF FInv, TType
  <2>19. Flags'
    <3>1. /\ memory_depth = IF n >= 2 /\ path[2] = "memory" THEN 2 ELSE 0
          /\ chosen_depth = IF n >= 2 /\ path[2] = "chosen" THEN 2 ELSE 0
          /\ rsv_node <=> n >= 2 /\ path[2] = "reserved-memory"
      BY Zenon DEF FInv, Flags, n
    <3>2. memory_depth' = IF n + 1 >= 2 /\ path'[2] = "memory" THEN 2 ELSE 0
      BY <2>5, <2>8, <2>16, <3>1
    <3>3. chosen_depth' = IF n + 1 >= 2 /\ path'[2] = "chosen" THEN 2 ELSE 0
      BY <2>5, <2>8, <2>16, <3>1
    <3>4. rsv_node' <=> n + 1 >= 2 /\ path'[2] = "reserved-memory"
      <4>1. CASE n = 1
        <5>1. n + 1 >= 2 /\ ~(n >= 2)
          BY <4>1
        <5> QED
          BY <2>8, <2>15, <3>1, <4>1, <5>1, Zenon
      <4>2. CASE n # 1
        <5>1. (n + 1 >= 2 <=> n >= 2) /\ (n >= 2 => n > 1)
          BY <2>5, <4>2
        <5> QED
          BY <2>8, <2>15, <3>1, <4>2, <5>1, Zenon
      <4> QED
        BY <4>1, <4>2
    <3> QED
      BY <2>8, <2>16, <3>2, <3>3, <3>4, Zenon DEF Flags
  <2>20. Reads'
    <3>1. entropy_len' = offered'
      BY <2>4, <2>13, Zenon DEF FInv, Reads
    <3>2. rsvRegs # << >> => n >= 2 /\ path[2] = "reserved-memory"
      BY Zenon DEF FInv, Reads, n
    <3>3. rsvRegs' # << >> => Len(path') >= 2 /\ path'[2] = "reserved-memory"
      BY <2>5, <2>8, <2>13, <3>2
    <3>4. SUFFICES ASSUME conforms'
                   PROVE  /\ cellsOf'.root = <<addr_cells', size_cells'>>
                          /\ cellsOf'.rsv = <<rsv_addr_cells', rsv_size_cells'>>
                          /\ regions' = DecodeAll(memRegs', cellsOf'.root)
                          /\ reserved' = wantReserved' \o DecodeAll(rsvRegs', cellsOf'.rsv)
                          /\ memRegs' # << >> => 0 \in hasChild' /\ 1 \in hasChild' /\ cellsOf'.root \in Counts
                          /\ rsvRegs' # << >> => 2 \in hasChild' /\ cellsOf'.rsv \in Counts
      BY <3>1, <3>3, Zenon DEF Reads
    <3>5. /\ n = 0 => 0 \notin hasChild
          /\ cellsOf.root = <<addr_cells, size_cells>>
          /\ cellsOf.rsv = <<rsv_addr_cells, rsv_size_cells>>
          /\ regions = DecodeAll(memRegs, cellsOf.root)
          /\ reserved = wantReserved \o DecodeAll(rsvRegs, cellsOf.rsv)
          /\ memRegs # << >> => 0 \in hasChild /\ 1 \in hasChild /\ cellsOf.root \in Counts
          /\ rsvRegs # << >> => 2 \in hasChild /\ cellsOf.rsv \in Counts
      BY <2>10, <2>14, <3>4, Zenon DEF FInv, Reads
    <3>6. /\ cellsOf'.root = cellsOf.root
          /\ cellsOf'.rsv = IF n = 1 /\ name = "reserved-memory" THEN cellsOf.root ELSE cellsOf.rsv
      <4>1. cellsOf \in [root : Word \X Word, rsv : Word \X Word]
        BY DEF FInv, TType
      <4> QED
        BY <2>6, <2>11, <3>4, <4>1
    <3>7. cellsOf'.rsv = <<rsv_addr_cells', rsv_size_cells'>>
      BY <2>15, <3>5, <3>6, Zenon
    <3>8. memRegs' = memRegs /\ wantReserved' = wantReserved
      BY <2>12, <3>4, Zenon
    <3>9. DecodeAll(rsvRegs', cellsOf'.rsv) = DecodeAll(rsvRegs, cellsOf.rsv)
      <4>1. CASE n = 1
        <5>1. rsvRegs = << >>
          BY <3>2, <4>1
        <5> QED
          BY <2>13, <5>1, DecodeAllNone, Zenon
      <4>2. CASE n # 1
        BY <2>13, <3>6, <4>2, Zenon
      <4> QED
        BY <4>1, <4>2
    <3>10. memRegs' # << >> => 0 \in hasChild' /\ 1 \in hasChild' /\ cellsOf'.root \in Counts
      BY <2>5, <2>9, <3>5, <3>6, <3>8
    <3>11. rsvRegs' # << >> => 2 \in hasChild' /\ cellsOf'.rsv \in Counts
      BY <2>5, <2>9, <2>13, <3>2, <3>5, <3>6
    <3> QED
      BY <2>4, <3>5, <3>6, <3>7, <3>8, <3>9, <3>10, <3>11, Zenon
  <2> QED
    BY <2>17, <2>18, <2>19, <2>20 DEF FInv
<1> QED
  BY <1>2, <1>3

\* Closing a node keeps the invariant: what /reserved-memory says is settled
\* when it closes.
LEMMA EndStep ==
  ASSUME FInv, end_node, Follow(TreeEnd)
  PROVE  FInv'
<1>1. phase = "struct" /\ "BadStructure" \in Errors
  BY Zenon DEF end_node, Errors
<1>2. CASE Reject("BadStructure")
  BY <1>1, <1>2, Dropped, Zenon DEF Follow
<1>3. CASE ~Reject("BadStructure")
  <2> DEFINE n == Len(path)
  <2>1. /\ depth > 0
        /\ memory_depth' = IF memory_depth = depth THEN 0 ELSE memory_depth
        /\ chosen_depth' = IF chosen_depth = depth THEN 0 ELSE chosen_depth
        /\ rsv_node' = (rsv_node /\ depth # 2)
        /\ depth' = depth - 1
        /\ UNCHANGED <<phase, info, cells, rsv_addr_cells, rsv_size_cells>>
    BY <1>3, Zenon DEF end_node
  <2>2. phase' = phase
    BY <2>1, Zenon
  <2>3. TreeEnd
    BY <1>1, <2>2, NoErrors, Zenon DEF Follow
  <2>4. UNCHANGED <<regions, reserved, entropy_len, addr_cells, size_cells, rsv_addr_cells, rsv_size_cells>>
    BY <2>1, Zenon DEF info, cells
  <2>5. path \in Seq(NodeNames) /\ n \in Nat /\ depth = n
    BY DEF FInv, TType, Flags
  <2>6. path = Rsv <=> n = 2 /\ path[2] = "reserved-memory"
    <3>1. path = <<"", "reserved-memory">> <=> n = 2 /\ path[2] = "reserved-memory"
      BY <2>5, PathIs, Zenon DEF FInv, TType
    <3> QED
      BY <3>1, Zenon DEF Rsv
  <2>7. path' = Parent(path)
    BY <2>3, Zenon DEF TreeEnd
  <2>8. /\ path' \in Seq(NodeNames) /\ Len(path') = n - 1
        /\ \A k \in 1..n-1 : path'[k] = path[k]
    BY <2>1, <2>5, <2>7 DEF Parent
  <2>9. UNCHANGED <<hasChild, conforms, cellsOf, memRegs, offered>>
    BY <2>3, Zenon DEF TreeEnd
  <2>10. /\ path = Rsv => /\ wantReserved' = IF conforms' THEN wantReserved \o DecodeAll(rsvRegs, cellsOf.rsv) ELSE << >>
                          /\ rsvRegs' = << >>
         /\ path # Rsv => wantReserved' = wantReserved /\ rsvRegs' = rsvRegs
    BY <2>3, Zenon DEF TreeEnd, Collect
  <2> HIDE DEF n
  <2>11. FType'
    <3>1. rsv_node' \in BOOLEAN
      BY <2>1, Zenon
    <3>2. depth' \in Nat /\ memory_depth' \in Nat /\ chosen_depth' \in Nat
      BY <2>1, <2>5 DEF FInv, FType
    <3> QED
      BY <2>2, <2>4, <3>1, <3>2 DEF FInv, FType
  <2>12. conforms' => reserved = wantReserved \o DecodeAll(rsvRegs, cellsOf.rsv)
    BY <2>9, Zenon DEF FInv, Reads
  <2>13. TType'
    <3>1. << >> \in Seq(Usable) /\ << >> \in Seq(Seq(Word))
      OBVIOUS
    <3>2. wantReserved' \in Seq(Usable)
      BY <2>10, <2>12, <3>1, Zenon DEF FInv, FType, TType
    <3>3. rsvRegs' \in Seq(Seq(Word))
      BY <2>10, <3>1, Zenon DEF FInv, TType
    <3>4. path' # << >> => path'[1] = NoName
      <4>1. path # << >> => path[1] = NoName
        BY Zenon DEF FInv, TType
      <4>2. path' # << >> => n > 1
        BY <2>1, <2>5, <2>8
      <4>3. n > 1 => path # << >> /\ path'[1] = path[1]
        BY <2>5, <2>8 DEF n
      <4> QED
        BY <4>1, <4>2, <4>3, Zenon
    <3>5. \A k \in 0 .. Len(path') - 1 : k \in hasChild'
      <4>1. \A k \in 0..n-1 : k \in hasChild
        BY Zenon DEF FInv, TType, n
      <4>2. \A k \in 0..(n - 1)-1 : k \in 0..n-1
        BY <2>5
      <4> QED
        BY <2>8, <2>9, <4>1, <4>2, Zenon
    <3> QED
      BY <1>1, <2>2, <2>8, <2>9, <3>2, <3>3, <3>4, <3>5, Zenon DEF FInv, TType
  <2>14. Flags'
    <3>1. /\ memory_depth = IF n >= 2 /\ path[2] = "memory" THEN 2 ELSE 0
          /\ chosen_depth = IF n >= 2 /\ path[2] = "chosen" THEN 2 ELSE 0
          /\ rsv_node <=> n >= 2 /\ path[2] = "reserved-memory"
      BY Zenon DEF FInv, Flags, n
    <3>2. n - 1 >= 2 => path'[2] = path[2]
      BY <2>5, <2>8
    <3>3. memory_depth' = IF n - 1 >= 2 /\ path'[2] = "memory" THEN 2 ELSE 0
      BY <2>1, <2>5, <3>1, <3>2
    <3>4. chosen_depth' = IF n - 1 >= 2 /\ path'[2] = "chosen" THEN 2 ELSE 0
      BY <2>1, <2>5, <3>1, <3>2
    <3>5. rsv_node' <=> n - 1 >= 2 /\ path'[2] = "reserved-memory"
      <4>1. n >= 2 /\ n # 2 <=> n - 1 >= 2
        BY <2>5
      <4> QED
        BY <2>1, <2>5, <3>1, <3>2, <4>1, Zenon
    <3> QED
      BY <2>1, <2>5, <2>8, <3>3, <3>4, <3>5, Zenon DEF Flags
  <2>15. Reads'
    <3>1. entropy_len' = offered'
      BY <2>4, <2>9, Zenon DEF FInv, Reads
    <3>2. rsvRegs' # << >> => n - 1 >= 2 /\ path'[2] = "reserved-memory"
      <4>1. rsvRegs # << >> => n >= 2 /\ path[2] = "reserved-memory"
        BY Zenon DEF FInv, Reads, n
      <4>2. n >= 2 /\ n # 2 => n - 1 >= 2 /\ path'[2] = path[2]
        BY <2>5, <2>8
      <4> QED
        BY <2>6, <2>10, <4>1, <4>2, Zenon
    <3>3. conforms' => reserved' = wantReserved' \o DecodeAll(rsvRegs', cellsOf'.rsv)
      <4>1. CASE path = Rsv
        <5>1. DecodeAll(rsvRegs', cellsOf'.rsv) = << >>
          BY <2>10, <4>1, DecodeAllNone, Zenon
        <5>2. conforms' => wantReserved' = reserved
          BY <2>10, <2>12, <4>1, Zenon
        <5>3. reserved \o << >> = reserved
          BY JoinType, Zenon DEF FInv, FType
        <5> QED
          BY <2>4, <5>1, <5>2, <5>3, Zenon
      <4>2. CASE path # Rsv
        BY <2>4, <2>9, <2>10, <2>12, <4>2, Zenon
      <4> QED
        BY <4>1, <4>2
    <3>4. rsvRegs' # << >> => rsvRegs # << >>
      BY <2>10, Zenon
    <3> QED
      BY <2>4, <2>8, <2>9, <3>1, <3>2, <3>3, <3>4, Zenon DEF FInv, Reads
  <2> QED
    BY <2>11, <2>13, <2>14, <2>15 DEF FInv
<1> QED
  BY <1>2, <1>3

\* What a property is taken for is decided by the path, although the parser
\* only looks at its depth and flags.
LEMMA UseMeans ==
  ASSUME FInv, NEW name, NEW n, n = Len(path)
  PROVE  /\ Use(name) = "cells" <=> IsCells(name) /\ (n = 1 \/ (n = 2 /\ path[2] = "reserved-memory"))
         /\ Use(name) = "memory" <=> name = "reg" /\ n = 2 /\ path[2] = "memory"
         /\ Use(name) = "reserved" <=> name = "reg" /\ n = 3 /\ path[2] = "reserved-memory"
         /\ Use(name) = "entropy" <=> name = "seed" /\ n = 2 /\ path[2] = "chosen"
<1>1. n \in Nat /\ depth = n
  BY DEF FInv, TType, Flags
<1>2. /\ memory_depth = IF n >= 2 /\ path[2] = "memory" THEN 2 ELSE 0
      /\ chosen_depth = IF n >= 2 /\ path[2] = "chosen" THEN 2 ELSE 0
      /\ rsv_node <=> n >= 2 /\ path[2] = "reserved-memory"
  BY Zenon DEF FInv, Flags
<1> DEFINE m == memory_depth = depth
           c == chosen_depth = depth
<1>3. n >= 2 => /\ m <=> n = 2 /\ path[2] = "memory"
                /\ c <=> n = 2 /\ path[2] = "chosen"
  BY <1>1, <1>2
<1>4. IsCells(name) => name # "reg" /\ name # "seed"
  BY DEF IsCells
<1> HIDE DEF m, c
<1>5. Use(name) = IF depth = 0 THEN "outside"
                  ELSE IF depth = 1 THEN IF IsCells(name) THEN "cells" ELSE "none"
                  ELSE IF m /\ name = "reg" THEN "memory"
                  ELSE IF rsv_node /\ depth = 2 THEN IF IsCells(name) THEN "cells" ELSE "none"
                  ELSE IF rsv_node /\ depth = 3 /\ name = "reg" THEN "reserved"
                  ELSE IF c /\ name = "seed" THEN "entropy"
                  ELSE "none"
  BY Zenon DEF Use, m, c
<1>6. CASE n = 0 \/ n = 1
  <2>1. n = 0 => Use(name) = "outside"
    BY <1>1, <1>5, Zenon
  <2>2. n = 1 => Use(name) = IF IsCells(name) THEN "cells" ELSE "none"
    <3>1. 1 # 0
      OBVIOUS
    <3> QED
      BY <1>1, <1>5, <3>1, Zenon
  <2>3. n # 2 /\ n # 3 /\ ~(n = 0 /\ n = 1)
    BY <1>6
  <2>4. CASE n = 0
    <3>1. ~(Use(name) \in {"cells", "memory", "reserved", "entropy"}) /\ n # 1
      BY <2>1, <2>4
    <3> QED
      BY <2>3, <3>1, Zenon
  <2>5. CASE n = 1
    <3>1. /\ Use(name) # "memory" /\ Use(name) # "reserved" /\ Use(name) # "entropy"
          /\ Use(name) = "cells" <=> IsCells(name)
      BY <2>2, <2>5, Zenon
    <3> QED
      BY <2>3, <2>5, <3>1, Zenon
  <2> QED
    BY <1>6, <2>4, <2>5
<1>7. CASE n >= 2
  <2>1. n # 0 /\ n # 1 /\ (n = 2 => n # 3)
    BY <1>1, <1>7, FromTwo, Zenon
  <2>2. Use(name) = IF n = 2 /\ path[2] = "memory" /\ name = "reg" THEN "memory"
                    ELSE IF path[2] = "reserved-memory" /\ n = 2 THEN IF IsCells(name) THEN "cells" ELSE "none"
                    ELSE IF path[2] = "reserved-memory" /\ n = 3 /\ name = "reg" THEN "reserved"
                    ELSE IF n = 2 /\ path[2] = "chosen" /\ name = "seed" THEN "entropy"
                    ELSE "none"
    BY <1>1, <1>2, <1>3, <1>5, <1>7, <2>1, Zenon
  <2> QED
    BY <1>4, <2>1, <2>2, Zenon
<1>8. n = 0 \/ n = 1 \/ n >= 2
  BY <1>1
<1> QED
  BY <1>6, <1>7, <1>8, Zenon

\* What the tree does about a property, by what the parser takes it for.
LEMMA PropTree ==
  ASSUME FInv, NEW name, NEW value \in Seq(Word), TreeProp(name, value)
  PROVE  /\ conforms' <=> conforms /\ (Use(name) = "cells" => Len(path) \notin hasChild)
         /\ conforms' \in BOOLEAN
         /\ cellsOf' = IF ~conforms' THEN DefaultCells
                       ELSE IF ~(Use(name) = "cells") THEN cellsOf
                       ELSE IF Len(path) = 1 THEN [cellsOf EXCEPT !.root = SetCell(cellsOf.root, name, value[1])]
                       ELSE [cellsOf EXCEPT !.rsv = SetCell(cellsOf.rsv, name, value[1])]
         /\ memRegs' = IF conforms' THEN IF Use(name) = "memory" THEN memRegs \o <<value>> ELSE memRegs ELSE << >>
         /\ rsvRegs' = IF conforms' THEN IF Use(name) = "reserved" THEN rsvRegs \o <<value>> ELSE rsvRegs ELSE << >>
         /\ wantReserved' = IF conforms' THEN wantReserved ELSE << >>
         /\ offered' = IF ~(Use(name) = "entropy") THEN offered
                       ELSE IF offered + Len(value) < MAX_ENTROPY THEN offered + Len(value) ELSE MAX_ENTROPY
         /\ path' = path /\ hasChild' = hasChild
<1> DEFINE n == Len(path)
<1>1. path \in Seq(NodeNames) /\ (path # << >> => path[1] = NoName) /\ n \in Nat
  BY DEF FInv, TType
<1>2. /\ path = Root <=> n = 1
      /\ path = Rsv <=> n = 2 /\ path[2] = "reserved-memory"
      /\ path = <<"", "memory">> <=> n = 2 /\ path[2] = "memory"
      /\ path = <<"", "chosen">> <=> n = 2 /\ path[2] = "chosen"
      /\ n = 3 => (Parent(path) = Rsv <=> path[2] = "reserved-memory")
  BY <1>1, PathIs, Zenon DEF Rsv
<1>3. /\ IsCells(name) /\ path \in {Root, Rsv} <=> Use(name) = "cells"
      /\ name = "reg" /\ path = <<"", "memory">> <=> Use(name) = "memory"
      /\ name = "reg" /\ n = 3 /\ Parent(path) = Rsv <=> Use(name) = "reserved"
      /\ name # "seed" \/ path # <<"", "chosen">> <=> ~(Use(name) = "entropy")
  <2>1. /\ Use(name) = "cells" <=> IsCells(name) /\ (n = 1 \/ (n = 2 /\ path[2] = "reserved-memory"))
        /\ Use(name) = "memory" <=> name = "reg" /\ n = 2 /\ path[2] = "memory"
        /\ Use(name) = "reserved" <=> name = "reg" /\ n = 3 /\ path[2] = "reserved-memory"
        /\ Use(name) = "entropy" <=> name = "seed" /\ n = 2 /\ path[2] = "chosen"
    BY UseMeans, Zenon
  <2> HIDE DEF n
  <2>2. IsCells(name) /\ path \in {Root, Rsv} <=> Use(name) = "cells"
    <3>1. path \in {Root, Rsv} <=> (n = 1 \/ (n = 2 /\ path[2] = "reserved-memory"))
      BY <1>2, Zenon
    <3> QED
      BY <2>1, <3>1, Zenon
  <2>3. name = "reg" /\ path = <<"", "memory">> <=> Use(name) = "memory"
    BY <1>2, <2>1, Zenon
  <2>4. name = "reg" /\ n = 3 /\ Parent(path) = Rsv <=> Use(name) = "reserved"
    BY <1>2, <2>1, Zenon
  <2>5. name # "seed" \/ path # <<"", "chosen">> <=> ~(Use(name) = "entropy")
    BY <1>2, <2>1, Zenon
  <2> QED
    BY <2>2, <2>3, <2>4, <2>5, Zenon
<1>4. memRegs \o << >> = memRegs /\ rsvRegs \o << >> = rsvRegs /\ wantReserved \o << >> = wantReserved
  BY JoinType, Zenon DEF FInv, TType
<1>5. /\ conforms' = (conforms /\ (IsCells(name) /\ path \in {Root, Rsv} => n \notin hasChild))
      /\ cellsOf' = IF ~conforms' THEN DefaultCells
                    ELSE IF ~(IsCells(name) /\ path \in {Root, Rsv}) THEN cellsOf
                    ELSE IF path = Root THEN [cellsOf EXCEPT !.root = SetCell(cellsOf.root, name, value[1])]
                    ELSE [cellsOf EXCEPT !.rsv = SetCell(cellsOf.rsv, name, value[1])]
      /\ memRegs' = IF conforms' THEN memRegs \o (IF name = "reg" /\ path = <<"", "memory">> THEN <<value>> ELSE << >>)
                    ELSE << >>
      /\ rsvRegs' = IF conforms' THEN rsvRegs \o (IF name = "reg" /\ n = 3 /\ Parent(path) = Rsv THEN <<value>> ELSE << >>)
                    ELSE << >>
      /\ wantReserved' = IF conforms' THEN wantReserved \o << >> ELSE << >>
      /\ offered' = IF name # "seed" \/ path # <<"", "chosen">> THEN offered
                    ELSE IF offered + Len(value) < MAX_ENTROPY THEN offered + Len(value) ELSE MAX_ENTROPY
      /\ path' = path /\ hasChild' = hasChild
  BY Zenon DEF TreeProp, Collect
<1> HIDE DEF n
<1>6. conforms' \in BOOLEAN /\ (conforms' <=> conforms /\ (Use(name) = "cells" => n \notin hasChild))
  BY <1>3, <1>5, Zenon
<1>7. cellsOf' = IF ~conforms' THEN DefaultCells
                 ELSE IF ~(Use(name) = "cells") THEN cellsOf
                 ELSE IF n = 1 THEN [cellsOf EXCEPT !.root = SetCell(cellsOf.root, name, value[1])]
                 ELSE [cellsOf EXCEPT !.rsv = SetCell(cellsOf.rsv, name, value[1])]
  BY <1>2, <1>3, <1>5, Zenon
<1>8. memRegs' = IF conforms' THEN IF Use(name) = "memory" THEN memRegs \o <<value>> ELSE memRegs ELSE << >>
  BY <1>3, <1>4, <1>5, Zenon
<1>9. rsvRegs' = IF conforms' THEN IF Use(name) = "reserved" THEN rsvRegs \o <<value>> ELSE rsvRegs ELSE << >>
  BY <1>3, <1>4, <1>5, Zenon
<1>10. wantReserved' = IF conforms' THEN wantReserved ELSE << >>
  BY <1>4, <1>5, Zenon
<1>11. offered' = IF ~(Use(name) = "entropy") THEN offered
                  ELSE IF offered + Len(value) < MAX_ENTROPY THEN offered + Len(value) ELSE MAX_ENTROPY
  BY <1>3, <1>5, Zenon
<1> QED
  BY <1>5, <1>6, <1>7, <1>8, <1>9, <1>10, <1>11, Zenon DEF n

\* The parts of the invariant that a property can only disturb by its cells,
\* its list or its entropy.
LEMMA PropKeeps ==
  ASSUME FInv, NEW name, NEW value \in Seq(Word), TreeProp(name, value), phase = "struct",
         Use(name) = "cells" => Len(value) = 1,
         UNCHANGED <<phase, depth, memory_depth, chosen_depth, rsv_node>>
  PROVE  /\ TType' /\ Flags'
         /\ rsvRegs' # << >> => Len(path') >= 2 /\ path'[2] = "reserved-memory"
<1>1. << >> \in Seq(Usable) /\ << >> \in Seq(Seq(Word)) /\ <<value>> \in Seq(Seq(Word))
  OBVIOUS
<1>2. memRegs \o <<value>> \in Seq(Seq(Word)) /\ rsvRegs \o <<value>> \in Seq(Seq(Word))
  BY <1>1, JoinType, Zenon DEF FInv, TType
<1>3. memRegs' \in Seq(Seq(Word))
  BY <1>1, <1>2, PropTree, Zenon DEF FInv, TType
<1>4. rsvRegs' \in Seq(Seq(Word))
  BY <1>1, <1>2, PropTree, Zenon DEF FInv, TType
<1>5. wantReserved' \in Seq(Usable)
  BY <1>1, PropTree, Zenon DEF FInv, TType
<1>6. cellsOf' \in [root : Word \X Word, rsv : Word \X Word]
  <2> DEFINE C == [root : Word \X Word, rsv : Word \X Word]
  <2>1. cellsOf \in C
    BY DEF FInv, TType
  <2>2. Len(value) = 1 => value[1] \in Word
    OBVIOUS
  <2>3. ASSUME NEW v \in Word, NEW p \in Word \X Word
        PROVE  SetCell(p, name, v) \in Word \X Word
    BY DEF SetCell
  <2>4. ASSUME NEW p \in Word \X Word
        PROVE  [cellsOf EXCEPT !.root = p] \in C /\ [cellsOf EXCEPT !.rsv = p] \in C
    BY <2>1
  <2>5. cellsOf.root \in Word \X Word /\ cellsOf.rsv \in Word \X Word
    BY <2>1
  <2> HIDE DEF C
  <2>6. Use(name) = "cells" => /\ [cellsOf EXCEPT !.root = SetCell(cellsOf.root, name, value[1])] \in C
                               /\ [cellsOf EXCEPT !.rsv = SetCell(cellsOf.rsv, name, value[1])] \in C
    BY <2>2, <2>3, <2>4, <2>5, Zenon
  <2>7. \/ cellsOf' \in {cellsOf, DefaultCells}
        \/ /\ Use(name) = "cells"
           /\ \/ cellsOf' = [cellsOf EXCEPT !.root = SetCell(cellsOf.root, name, value[1])]
              \/ cellsOf' = [cellsOf EXCEPT !.rsv = SetCell(cellsOf.rsv, name, value[1])]
    BY PropTree, Zenon
  <2> QED
    BY <2>1, <2>6, <2>7, DefaultCellsType, Zenon DEF C
<1>7. path' = path /\ hasChild' = hasChild /\ conforms' \in BOOLEAN
  BY PropTree, Zenon
<1>8. TType'
  BY <1>3, <1>4, <1>5, <1>6, <1>7, Zenon DEF FInv, TType
<1>9. Flags'
  BY <1>7, Zenon DEF FInv, Flags
<1>10. rsvRegs' # << >> => Len(path) >= 2 /\ path[2] = "reserved-memory"
  <2>1. Use(name) = "reserved" => Len(path) = 3 /\ path[2] = "reserved-memory"
    BY UseMeans, Zenon
  <2>2. Len(path) = 3 => Len(path) >= 2
    OBVIOUS
  <2>3. Use(name) # "reserved" => rsvRegs' = << >> \/ rsvRegs' = rsvRegs
    BY PropTree, Zenon
  <2> QED
    BY <2>1, <2>2, <2>3, Zenon DEF FInv, Reads
<1> QED
  BY <1>7, <1>8, <1>9, <1>10, Zenon

\* Setting cells: as long as the stream conforms they have not been used.
LEMMA CellsStep ==
  ASSUME FInv, NEW name, NEW value \in Seq(Word), TreeProp(name, value), phase = "struct",
         Use(name) = "cells", Len(value) = 1, cell_prop(name, value)
  PROVE  FInv'
<1> DEFINE n == Len(path)
           v == value[1]
<1>1. /\ addr_cells' = IF depth = 1 /\ name = "#address-cells" THEN v ELSE addr_cells
      /\ size_cells' = IF depth = 1 /\ name = "#size-cells" THEN v ELSE size_cells
      /\ rsv_addr_cells' = IF ~(depth = 1) /\ name = "#address-cells" THEN v ELSE rsv_addr_cells
      /\ rsv_size_cells' = IF ~(depth = 1) /\ name = "#size-cells" THEN v ELSE rsv_size_cells
      /\ UNCHANGED <<phase, info, depth, memory_depth, chosen_depth, rsv_node>>
  BY Zenon DEF cell_prop, RootCells
<1>2. UNCHANGED <<phase, regions, reserved, entropy_len, depth, memory_depth, chosen_depth, rsv_node>>
  BY <1>1, Zenon DEF info
<1>3. v \in Word /\ depth = n /\ n \in Nat
  <2>1. v \in Word
    OBVIOUS
  <2>2. path \in Seq(NodeNames) /\ depth = n
    BY Zenon DEF FInv, TType, Flags
  <2> QED
    BY <2>1, <2>2
<1>4. IsCells(name) /\ (n = 1 \/ (n = 2 /\ path[2] = "reserved-memory"))
  <2>1. \A x : Use(x) = "cells" <=> IsCells(x) /\ (n = 1 \/ (n = 2 /\ path[2] = "reserved-memory"))
    BY UseMeans, Zenon
  <2> QED
    BY <2>1, Zenon
<1>5. name = "#address-cells" \/ (name # "#address-cells" /\ name = "#size-cells")
  BY <1>4, Zenon DEF IsCells
<1>6. /\ TType' /\ Flags'
      /\ rsvRegs' # << >> => Len(path') >= 2 /\ path'[2] = "reserved-memory"
  BY <1>2, PropKeeps, Zenon
<1> HIDE DEF v, n
<1>7. FType'
  <2>1. addr_cells' \in Word /\ size_cells' \in Word /\ rsv_addr_cells' \in Word /\ rsv_size_cells' \in Word
    BY <1>1, <1>3, Zenon DEF FInv, FType
  <2> QED
    BY <1>2, <2>1, Zenon DEF FInv, FType
<1>8. Reads'
  <2>1. entropy_len' = offered'
    <3>1. offered' = offered
      BY PropTree, Zenon
    <3> QED
      BY <1>2, <3>1, Zenon DEF FInv, Reads
  <2>2. SUFFICES ASSUME conforms'
                 PROVE  /\ cellsOf'.root = <<addr_cells', size_cells'>>
                        /\ cellsOf'.rsv = <<rsv_addr_cells', rsv_size_cells'>>
                        /\ regions' = DecodeAll(memRegs', cellsOf'.root)
                        /\ reserved' = wantReserved' \o DecodeAll(rsvRegs', cellsOf'.rsv)
                        /\ memRegs' # << >> => 0 \in hasChild' /\ 1 \in hasChild' /\ cellsOf'.root \in Counts
                        /\ rsvRegs' # << >> => 2 \in hasChild' /\ cellsOf'.rsv \in Counts
    BY <1>6, <2>1, Zenon DEF Reads
  <2>3. conforms /\ n \notin hasChild
    BY <2>2, PropTree, Zenon DEF n
  <2>4. /\ cellsOf.root = <<addr_cells, size_cells>>
        /\ cellsOf.rsv = <<rsv_addr_cells, rsv_size_cells>>
        /\ regions = DecodeAll(memRegs, cellsOf.root)
        /\ reserved = wantReserved \o DecodeAll(rsvRegs, cellsOf.rsv)
        /\ memRegs # << >> => 0 \in hasChild /\ 1 \in hasChild /\ cellsOf.root \in Counts
        /\ rsvRegs # << >> => 2 \in hasChild /\ cellsOf.rsv \in Counts
    BY <2>3, Zenon DEF FInv, Reads
  <2>5. memRegs' = memRegs /\ rsvRegs' = rsvRegs /\ wantReserved' = wantReserved /\ hasChild' = hasChild
    BY <2>2, PropTree, Zenon
  <2>6. cellsOf' = IF n = 1 THEN [cellsOf EXCEPT !.root = SetCell(cellsOf.root, name, v)]
                   ELSE [cellsOf EXCEPT !.rsv = SetCell(cellsOf.rsv, name, v)]
    BY <2>2, PropTree, Zenon DEF n, v
  <2>7. cellsOf \in [root : Word \X Word, rsv : Word \X Word]
    BY DEF FInv, TType
  <2>8. CASE n = 1
    <3>1. /\ cellsOf'.root = SetCell(<<addr_cells, size_cells>>, name, v)
          /\ cellsOf'.rsv = cellsOf.rsv
      BY <2>4, <2>6, <2>7, <2>8
    <3>2. SetCell(<<addr_cells, size_cells>>, name, v) = <<addr_cells', size_cells'>>
      BY <1>1, <1>3, <1>5, <2>8 DEF SetCell
    <3>3. rsv_addr_cells' = rsv_addr_cells /\ rsv_size_cells' = rsv_size_cells
      BY <1>1, <1>3, <2>8, Zenon
    <3>4. memRegs = << >>
      BY <2>3, <2>4, <2>8, Zenon
    <3>5. regions' = DecodeAll(memRegs', cellsOf'.root)
      BY <1>2, <2>4, <2>5, <3>4, DecodeAllNone, Zenon
    <3> QED
      BY <1>2, <2>4, <2>5, <3>1, <3>2, <3>3, <3>4, <3>5, Zenon
  <2>9. CASE n # 1
    <3>1. /\ cellsOf'.rsv = SetCell(<<rsv_addr_cells, rsv_size_cells>>, name, v)
          /\ cellsOf'.root = cellsOf.root
      BY <2>4, <2>6, <2>7, <2>9
    <3>2. SetCell(<<rsv_addr_cells, rsv_size_cells>>, name, v) = <<rsv_addr_cells', rsv_size_cells'>>
      BY <1>1, <1>3, <1>5, <2>9 DEF SetCell
    <3>3. addr_cells' = addr_cells /\ size_cells' = size_cells
      BY <1>1, <1>3, <2>9, Zenon
    <3>4. rsvRegs = << >>
      BY <1>4, <2>3, <2>4, <2>9, Zenon DEF n
    <3>5. DecodeAll(rsvRegs', cellsOf'.rsv) = DecodeAll(rsvRegs, cellsOf.rsv)
      BY <2>5, <3>4, DecodeAllNone, Zenon
    <3> QED
      BY <1>2, <2>4, <2>5, <3>1, <3>2, <3>3, <3>4, <3>5, Zenon
  <2> QED
    BY <2>8, <2>9
<1> QED
  BY <1>6, <1>7, <1>8 DEF FInv

\* A reg property of /memory adds its entries to the regions.
LEMMA MemoryStep ==
  ASSUME FInv, NEW name, NEW value \in Seq(Word), Follow(TreeProp(name, value)), phase = "struct",
         Use(name) = "memory", push_regions(value)
  PROVE  FInv'
<1> DEFINE o == parse_reg(value, addr_cells, size_cells, regions, MAX_MEM_REGIONS)
           c == <<addr_cells, size_cells>>
<1>1. /\ addr_cells \in Word /\ size_cells \in Word /\ MAX_MEM_REGIONS \in Nat
      /\ regions \in Seq(Usable) /\ Len(regions) <= MAX_MEM_REGIONS
  BY FdtAssumption, Zenon DEF FInv, FType
<1>2. /\ Fine(o) \/ o.error \in Errors
      /\ Fine(o) => /\ c \in Counts
                    /\ o.list \in Seq(Usable) /\ Len(o.list) <= MAX_MEM_REGIONS
                    /\ o.list = regions \o Decode(value, c)
  <2>1. Parsed(o, value, c, regions, MAX_MEM_REGIONS)
    BY <1>1, ParseReg, Zenon
  <2> HIDE DEF o, c
  <2> QED
    BY <2>1, Zenon DEF Parsed
<1>3. /\ ~Fine(o) => Reject(o.error)
      /\ Fine(o) => /\ regions' = o.list
                    /\ UNCHANGED <<phase, reserved, entropy_len, cells, depth, memory_depth, chosen_depth, rsv>>
  BY Zenon DEF push_regions, Fine
<1> HIDE DEF o
<1>4. CASE ~Fine(o)
  BY <1>2, <1>3, <1>4, Dropped, Zenon DEF Follow
<1>5. CASE Fine(o)
  <2>1. UNCHANGED <<phase, reserved, entropy_len, addr_cells, size_cells, depth, memory_depth, chosen_depth,
                    rsv_node, rsv_addr_cells, rsv_size_cells>>
    BY <1>3, <1>5, Zenon DEF cells, rsv
  <2>2. TreeProp(name, value)
    BY <2>1, NoErrors, Zenon DEF Follow
  <2>3. "memory" # "cells" /\ "memory" # "reserved" /\ "memory" # "entropy"
    OBVIOUS
  <2>4. /\ TType' /\ Flags'
        /\ rsvRegs' # << >> => Len(path') >= 2 /\ path'[2] = "reserved-memory"
    BY <2>1, <2>2, <2>3, PropKeeps, Zenon
  <2>5. FType'
    <3>1. regions' \in Seq(Usable) /\ Len(regions') <= MAX_MEM_REGIONS /\ phase' # "done"
      BY <1>2, <1>3, <1>5, <2>1, Zenon
    <3> QED
      BY <2>1, <3>1, Zenon DEF FInv, FType
  <2>6. /\ conforms' => conforms
        /\ offered' = offered /\ hasChild' = hasChild
        /\ conforms' => cellsOf' = cellsOf
        /\ conforms' => memRegs' = memRegs \o <<value>> /\ rsvRegs' = rsvRegs /\ wantReserved' = wantReserved
    BY <2>2, <2>3, PropTree, Zenon
  <2>7. Reads'
    <3>1. entropy_len' = offered'
      BY <2>1, <2>6, Zenon DEF FInv, Reads
    <3>2. memRegs \in Seq(Seq(Word)) /\ 0 \in hasChild /\ 1 \in hasChild
      <4>1. \A x : Use(x) = "memory" => Len(path) = 2
        BY UseMeans, Zenon
      <4>2. Len(path) = 2
        BY <4>1, Zenon
      <4>3. 0 \in 0 .. Len(path) - 1 /\ 1 \in 0 .. Len(path) - 1
        BY <4>2
      <4> QED
        BY <4>3, Zenon DEF FInv, TType
    <3>3. conforms' => regions' = DecodeAll(memRegs', cellsOf'.root) /\ cellsOf'.root \in Counts
      <4>1. SUFFICES ASSUME conforms'
                     PROVE  regions' = DecodeAll(memRegs', cellsOf'.root) /\ cellsOf'.root \in Counts
        BY Zenon
      <4>2. cellsOf.root = c /\ regions = DecodeAll(memRegs, c) /\ c \in Counts
        BY <1>2, <1>5, <2>6, <4>1, Zenon DEF FInv, Reads
      <4>3. DecodeAll(memRegs \o <<value>>, c) = DecodeAll(memRegs, c) \o Decode(value, c)
        BY <3>2, <4>2, DecodeAllAppend, Zenon
      <4>4. regions' = regions \o Decode(value, c)
        BY <1>2, <1>3, <1>5, Zenon
      <4> HIDE DEF c
      <4> QED
        BY <2>6, <4>1, <4>2, <4>3, <4>4, Zenon
    <3>4. conforms' => /\ cellsOf.root = <<addr_cells, size_cells>>
                       /\ cellsOf.rsv = <<rsv_addr_cells, rsv_size_cells>>
                       /\ reserved = wantReserved \o DecodeAll(rsvRegs, cellsOf.rsv)
                       /\ rsvRegs # << >> => 2 \in hasChild /\ cellsOf.rsv \in Counts
      BY <2>6, Zenon DEF FInv, Reads
    <3> QED
      BY <2>1, <2>4, <2>6, <3>1, <3>2, <3>3, <3>4, Zenon DEF Reads
  <2> QED
    BY <2>4, <2>5, <2>7 DEF FInv
<1> QED
  BY <1>4, <1>5

\* A reg property of a child of /reserved-memory adds its entries to the
\* reservations, read with the cells of /reserved-memory.
LEMMA ReservedStep ==
  ASSUME FInv, NEW name, NEW value \in Seq(Word), Follow(TreeProp(name, value)), phase = "struct",
         Use(name) = "reserved", push_reserved_regions(value)
  PROVE  FInv'
<1> DEFINE o == parse_reg(value, rsv_addr_cells, rsv_size_cells, reserved, MAX_RSV_REGIONS)
           c == <<rsv_addr_cells, rsv_size_cells>>
<1>1. /\ rsv_addr_cells \in Word /\ rsv_size_cells \in Word /\ MAX_RSV_REGIONS \in Nat
      /\ reserved \in Seq(Usable) /\ Len(reserved) <= MAX_RSV_REGIONS
  BY FdtAssumption, Zenon DEF FInv, FType
<1>2. /\ Fine(o) \/ o.error \in Errors
      /\ Fine(o) => /\ c \in Counts
                    /\ o.list \in Seq(Usable) /\ Len(o.list) <= MAX_RSV_REGIONS
                    /\ o.list = reserved \o Decode(value, c)
  <2>1. Parsed(o, value, c, reserved, MAX_RSV_REGIONS)
    BY <1>1, ParseReg, Zenon
  <2> HIDE DEF o, c
  <2> QED
    BY <2>1, Zenon DEF Parsed
<1>3. /\ ~Fine(o) => Reject(o.error)
      /\ Fine(o) => /\ reserved' = o.list
                    /\ UNCHANGED <<phase, regions, entropy_len, cells, depth, memory_depth, chosen_depth, rsv>>
  BY Zenon DEF push_reserved_regions, Fine
<1> HIDE DEF o
<1>4. CASE ~Fine(o)
  BY <1>2, <1>3, <1>4, Dropped, Zenon DEF Follow
<1>5. CASE Fine(o)
  <2>1. UNCHANGED <<phase, regions, entropy_len, addr_cells, size_cells, depth, memory_depth, chosen_depth,
                    rsv_node, rsv_addr_cells, rsv_size_cells>>
    BY <1>3, <1>5, Zenon DEF cells, rsv
  <2>2. TreeProp(name, value)
    BY <2>1, NoErrors, Zenon DEF Follow
  <2>3. "reserved" # "cells" /\ "reserved" # "memory" /\ "reserved" # "entropy"
    OBVIOUS
  <2>4. /\ TType' /\ Flags'
        /\ rsvRegs' # << >> => Len(path') >= 2 /\ path'[2] = "reserved-memory"
    BY <2>1, <2>2, <2>3, PropKeeps, Zenon
  <2>5. FType'
    <3>1. reserved' \in Seq(Usable) /\ Len(reserved') <= MAX_RSV_REGIONS
      BY <1>2, <1>3, <1>5, Zenon
    <3> QED
      BY <2>1, <3>1, Zenon DEF FInv, FType
  <2>6. /\ conforms' => conforms
        /\ offered' = offered /\ hasChild' = hasChild
        /\ conforms' => cellsOf' = cellsOf
        /\ conforms' => memRegs' = memRegs /\ rsvRegs' = rsvRegs \o <<value>> /\ wantReserved' = wantReserved
    BY <2>2, <2>3, PropTree, Zenon
  <2>7. Reads'
    <3>1. entropy_len' = offered'
      BY <2>1, <2>6, Zenon DEF FInv, Reads
    <3>2. rsvRegs \in Seq(Seq(Word)) /\ 2 \in hasChild
      <4>1. \A x : Use(x) = "reserved" => Len(path) = 3
        BY UseMeans, Zenon
      <4>2. Len(path) = 3
        BY <4>1, Zenon
      <4>3. 2 \in 0 .. Len(path) - 1
        BY <4>2
      <4> QED
        BY <4>3, Zenon DEF FInv, TType
    <3>3. conforms' => reserved' = wantReserved' \o DecodeAll(rsvRegs', cellsOf'.rsv) /\ cellsOf'.rsv \in Counts
      <4>1. SUFFICES ASSUME conforms'
                     PROVE  reserved' = wantReserved' \o DecodeAll(rsvRegs', cellsOf'.rsv) /\ cellsOf'.rsv \in Counts
        BY Zenon
      <4>2. cellsOf.rsv = c /\ reserved = wantReserved \o DecodeAll(rsvRegs, c) /\ c \in Counts
        BY <1>2, <1>5, <2>6, <4>1, Zenon DEF FInv, Reads
      <4> DEFINE d == DecodeAll(rsvRegs, c)
                 e == Decode(value, c)
      <4>3. DecodeAll(rsvRegs \o <<value>>, c) = d \o e /\ d \in Seq(Region)
        BY <3>2, <4>2, DecodeAllAppend, Zenon
      <4>4. reserved' = reserved \o e
        BY <1>2, <1>3, <1>5, Zenon
      <4>5. e \in Seq(Region)
        BY <4>2, DecodeType, Zenon
      <4>6. wantReserved \in Seq(Region)
        BY DEF FInv, TType, Usable
      <4> HIDE DEF c, d, e
      <4>7. (wantReserved \o d) \o e = wantReserved \o (d \o e)
        BY <4>3, <4>5, <4>6
      <4> QED
        BY <2>6, <4>1, <4>2, <4>3, <4>4, <4>7, Zenon DEF d
    <3>4. conforms' => /\ cellsOf.root = <<addr_cells, size_cells>>
                       /\ cellsOf.rsv = <<rsv_addr_cells, rsv_size_cells>>
                       /\ regions = DecodeAll(memRegs, cellsOf.root)
                       /\ memRegs # << >> => 0 \in hasChild /\ 1 \in hasChild /\ cellsOf.root \in Counts
      BY <2>6, Zenon DEF FInv, Reads
    <3> QED
      BY <2>1, <2>4, <2>6, <3>1, <3>2, <3>3, <3>4, Zenon DEF Reads
  <2> QED
    BY <2>4, <2>5, <2>7 DEF FInv
<1> QED
  BY <1>4, <1>5

\* A seed of /chosen is taken up to the limit, and a property that is not used
\* changes nothing.
LEMMA QuietStep ==
  ASSUME FInv, NEW name, NEW value \in Seq(Word), Follow(TreeProp(name, value)), phase = "struct",
         \/ Use(name) = "entropy" /\ push_entropy(value)
         \/ Use(name) = "none" /\ UNCHANGED fdtvars
  PROVE  FInv'
<1> DEFINE u == Use(name)
<1>1. UNCHANGED <<phase, regions, reserved, addr_cells, size_cells, depth, memory_depth, chosen_depth,
                  rsv_node, rsv_addr_cells, rsv_size_cells>>
  BY Zenon DEF push_entropy, fdtvars, info, cells, rsv
<1>2. TreeProp(name, value)
  BY <1>1, NoErrors, Zenon DEF Follow
<1>3. u # "cells" /\ u # "memory" /\ u # "reserved"
  BY Zenon
<1>4. /\ TType' /\ Flags'
      /\ rsvRegs' # << >> => Len(path') >= 2 /\ path'[2] = "reserved-memory"
  BY <1>1, <1>2, <1>3, PropKeeps, Zenon
<1>5. /\ conforms' => conforms
      /\ hasChild' = hasChild /\ (conforms' => cellsOf' = cellsOf)
      /\ conforms' => memRegs' = memRegs /\ rsvRegs' = rsvRegs /\ wantReserved' = wantReserved
      /\ offered' = IF ~(u = "entropy") THEN offered
                    ELSE IF offered + Len(value) < MAX_ENTROPY THEN offered + Len(value) ELSE MAX_ENTROPY
  BY <1>2, <1>3, PropTree, Zenon
<1>6. entropy_len' = offered' /\ entropy_len' \in 0..MAX_ENTROPY
  <2>1. entropy_len = offered /\ entropy_len \in 0..MAX_ENTROPY /\ MAX_ENTROPY \in Nat /\ Len(value) \in Nat
    BY FdtAssumption DEF FInv, FType, Reads
  <2>2. CASE u = "entropy" /\ push_entropy(value)
    <3>1. entropy_len' = entropy_len + Taken(Len(value))
      BY <2>2, Zenon DEF push_entropy
    <3>2. offered' = IF offered + Len(value) < MAX_ENTROPY THEN offered + Len(value) ELSE MAX_ENTROPY
      BY <1>5, <2>2, Zenon
    <3> HIDE DEF u
    <3> QED
      BY <2>1, <3>1, <3>2 DEF Taken
  <2>3. CASE u = "none" /\ UNCHANGED fdtvars
    <3>1. entropy_len' = entropy_len
      BY <2>3, Zenon DEF fdtvars, info
    <3>2. offered' = offered
      BY <1>5, <2>3, Zenon
    <3> QED
      BY <2>1, <3>1, <3>2, Zenon
  <2> QED
    BY <2>2, <2>3, Zenon
<1>7. FType'
  BY <1>1, <1>6, Zenon DEF FInv, FType
<1>8. Reads'
  <2>1. conforms' => /\ cellsOf.root = <<addr_cells, size_cells>>
                     /\ cellsOf.rsv = <<rsv_addr_cells, rsv_size_cells>>
                     /\ regions = DecodeAll(memRegs, cellsOf.root)
                     /\ reserved = wantReserved \o DecodeAll(rsvRegs, cellsOf.rsv)
                     /\ memRegs # << >> => 0 \in hasChild /\ 1 \in hasChild /\ cellsOf.root \in Counts
                     /\ rsvRegs # << >> => 2 \in hasChild /\ cellsOf.rsv \in Counts
    BY <1>5, Zenon DEF FInv, Reads
  <2> HIDE DEF u
  <2>2. hasChild' = hasChild /\ (conforms' => cellsOf' = cellsOf)
    BY <1>5, Zenon
  <2>3. conforms' => memRegs' = memRegs /\ rsvRegs' = rsvRegs /\ wantReserved' = wantReserved
    BY <1>5, Zenon
  <2> QED
    BY <1>1, <1>4, <1>6, <2>1, <2>2, <2>3, Zenon DEF Reads
<1> QED
  BY <1>4, <1>7, <1>8 DEF FInv

\* A property keeps the invariant, whatever it is taken for.
LEMMA PropStep ==
  ASSUME FInv, NEW name, NEW value \in Seq(Word), prop(name, value), Follow(TreeProp(name, value))
  PROVE  FInv'
<1>1. phase = "struct" /\ "BadStructure" \in Errors /\ "UnsupportedCells" \in Errors
  BY Zenon DEF prop, Errors
<1>2. CASE Reject("BadStructure")
  BY <1>1, <1>2, Dropped, Zenon DEF Follow
<1>3. CASE Use(name) = "cells" /\ cell_prop(name, value)
  <2>1. CASE Len(value) # 1
    <3>1. Reject("UnsupportedCells")
      BY <1>3, <2>1, Zenon DEF cell_prop
    <3> QED
      BY <1>1, <3>1, Dropped, Zenon DEF Follow
  <2>2. CASE Len(value) = 1
    <3>1. phase' = phase
      BY <1>3, <2>2, Zenon DEF cell_prop
    <3>2. TreeProp(name, value)
      BY <1>1, <3>1, NoErrors, Zenon DEF Follow
    <3> QED
      BY <1>1, <1>3, <2>2, <3>2, CellsStep, Zenon
  <2> QED
    BY <2>1, <2>2
<1>4. CASE Use(name) = "memory" /\ push_regions(value)
  BY <1>1, <1>4, MemoryStep, Zenon
<1>5. CASE Use(name) = "reserved" /\ push_reserved_regions(value)
  BY <1>1, <1>5, ReservedStep, Zenon
<1>6. CASE \/ Use(name) = "entropy" /\ push_entropy(value)
           \/ Use(name) = "none" /\ UNCHANGED fdtvars
  BY <1>1, <1>6, QuietStep, Zenon
<1> QED
  BY <1>2, <1>3, <1>4, <1>5, <1>6, Zenon DEF prop

-----------------------------------------------------------------------------
(* Theorems *)

\* The invariant holds before the first token and after every one, and after
\* the stream has been rejected.
THEOREM ParserFollowsDocument == TreeSpec => []FInv
<1>1. TreeInit => FInv
  <2> SUFFICES ASSUME TreeInit PROVE FInv
    OBVIOUS
  <2>1. 1 \in Word /\ 2 \in Word /\ 0 \in 0..MAX_ENTROPY /\ 0 <= MAX_MEM_REGIONS /\ 0 <= MAX_RSV_REGIONS
    BY FdtAssumption DEF Word
  <2>2. FType
    <3>1. rsv_node \in BOOLEAN
      BY Zenon DEF TreeInit, FdtInit
    <3>2. /\ regions \in Seq(Usable) /\ Len(regions) <= MAX_MEM_REGIONS
          /\ reserved \in Seq(Usable) /\ Len(reserved) <= MAX_RSV_REGIONS
      BY <2>1 DEF TreeInit, FdtInit
    <3> QED
      BY <2>1, <3>1, <3>2 DEF FType, TreeInit, FdtInit, Phases
  <2>3. TType
    BY <2>1 DEF TType, TreeInit, FdtInit, DefaultCells
  <2>4. Flags
    <3>1. ~rsv_node /\ path = << >> /\ depth = 0 /\ memory_depth = 0 /\ chosen_depth = 0
      BY Zenon DEF TreeInit, FdtInit
    <3>2. Len(path) = 0 /\ ~(Len(path) >= 2)
      BY <3>1
    <3> QED
      BY <3>1, <3>2 DEF Flags
  <2>5. Reads
    <3>1. DecodeAll(<< >>, cellsOf.root) = << >> /\ DecodeAll(<< >>, cellsOf.rsv) = << >>
      BY DecodeAllNone, Zenon
    <3> QED
      BY <3>1 DEF Reads, TreeInit, FdtInit, DefaultCells
  <2> QED
    BY <2>2, <2>3, <2>4, <2>5 DEF FInv
<1>2. FInv /\ [TreeNext]_<<fdtvars, treevars>> => FInv'
  <2> SUFFICES ASSUME FInv, [TreeNext]_<<fdtvars, treevars>>
               PROVE  FInv'
    OBVIOUS
  <2>1. CASE UNCHANGED <<fdtvars, treevars>>
    <3>1. phase' = phase /\ UNCHANGED <<info, cells, depth, memory_depth, chosen_depth, rsv>> /\ UNCHANGED treevars
      BY <2>1, Zenon DEF fdtvars
    <3>2. phase \in Phases /\ (phase # "struct" => path = << >>) /\ (phase = "done" => regions # << >>)
      BY Zenon DEF FInv, FType, TType
    <3> QED
      BY <3>1, <3>2, Moved, Zenon
  <2>2. CASE parse /\ Follow(UNCHANGED treevars)
    <3>1. "Malformed" \in Errors /\ "memreserve" \in Phases /\ phase = "header"
      BY <2>2, Zenon DEF Errors, Phases, parse
    <3>2. CASE Reject("Malformed")
      BY <2>2, <3>1, <3>2, Dropped, Zenon DEF Follow
    <3>3. CASE phase' = "memreserve" /\ UNCHANGED <<info, cells, depth, memory_depth, chosen_depth, rsv>>
      <4>1. UNCHANGED treevars
        BY <2>2, <3>3, NoErrors, Zenon DEF Follow
      <4>2. path = << >>
        BY <3>1 DEF FInv, TType
      <4> QED
        BY <3>1, <3>3, <4>1, <4>2, Moved
    <3> QED
      BY <2>2, <3>2, <3>3, Zenon DEF parse
  <2>3. CASE Malformed /\ DropTree
    <3>1. "Malformed" \in Errors
      BY Zenon DEF Errors
    <3> QED
      BY <2>3, <3>1, Rejected, Zenon DEF Malformed
  <2>4. ASSUME NEW e \in Entries, memreserve(e[1], e[2]), Follow(TreeReserve(e[1], e[2]))
        PROVE  FInv'
    <3>1. e[1] \in 0..Limit-1 /\ e[2] \in 0..Limit-1
      BY FdtAssumption, Zenon
    <3> QED
      BY <2>4, <3>1, ReserveStep, Zenon
  <2>5. ASSUME NEW name \in NodeNames, begin_node(name), Follow(TreeBegin(name))
        PROVE  FInv'
    BY <2>5, BeginStep, Zenon
  <2>6. CASE end_node /\ Follow(TreeEnd)
    BY <2>6, EndStep, Zenon
  <2>7. ASSUME NEW p \in Props, prop(p[1], p[2]), Follow(TreeProp(p[1], p[2]))
        PROVE  FInv'
    <3>1. p[2] \in Seq(Word)
      BY FdtAssumption, Zenon DEF Word
    <3> QED
      BY <2>7, <3>1, PropStep, Zenon
  <2>8. CASE fdt_end /\ Follow(UNCHANGED treevars)
    <3>1. "BadStructure" \in Errors /\ "NoMemory" \in Errors /\ "done" \in Phases
      BY Zenon DEF Errors, Phases
    <3>2. CASE Reject("BadStructure") \/ Reject("NoMemory")
      BY <2>8, <3>1, <3>2, Dropped, Zenon DEF Follow
    <3>3. CASE /\ depth = 0 /\ regions # << >>
               /\ phase' = "done"
               /\ UNCHANGED <<info, cells, depth, memory_depth, chosen_depth, rsv>>
      <4>1. UNCHANGED treevars
        BY <2>8, <3>3, NoErrors, Zenon DEF Follow
      <4>2. path = << >>
        <5>1. Len(path) = 0 /\ path \in Seq(NodeNames)
          BY <3>3, Zenon DEF FInv, TType, Flags
        <5> QED
          BY <5>1
      <4> QED
        BY <3>1, <3>3, <4>1, <4>2, Moved
    <3> QED
      BY <2>8, <3>2, <3>3, Zenon DEF fdt_end
  <2> QED
    BY <2>1, <2>2, <2>3, <2>4, <2>5, <2>6, <2>7, <2>8, Zenon DEF TreeNext
<1> QED
  BY <1>1, <1>2, PTL DEF TreeSpec

\* parse always knows which nodes are open, however deep the names it looks for
\* are repeated.
THEOREM ParserKnowsItsPlace == TreeSpec => []FlagsFollowPath
<1>1. FInv => FlagsFollowPath
  <2> SUFFICES ASSUME FInv PROVE FlagsFollowPath
    OBVIOUS
  <2>1. rsv_node = (Len(path) >= 2 /\ path[2] = "reserved-memory")
    BY Zenon DEF FInv, FType, Flags
  <2> QED
    BY <2>1, Zenon DEF FInv, Flags, FlagsFollowPath
<1> QED
  BY <1>1, ParserFollowsDocument, PTL

\* What parse returns for a tree that conforms is what the tree says, for any
\* number of nodes, properties, entries and cells.
THEOREM ParserReturnsDocument == TreeSpec => []ResultIsDocument
<1>1. FInv => ResultIsDocument
  <2> SUFFICES ASSUME FInv, phase = "done"
               PROVE  /\ path = << >>
                      /\ conforms => /\ regions = DecodeAll(memRegs, cellsOf.root)
                                     /\ reserved = wantReserved
                      /\ entropy_len = offered
    BY Zenon DEF ResultIsDocument
  <2>1. path = << >>
    BY DEF FInv, TType
  <2>2. rsvRegs = << >>
    BY <2>1 DEF FInv, Reads
  <2>3. wantReserved \o DecodeAll(rsvRegs, cellsOf.rsv) = wantReserved
    BY <2>2, DecodeAllNone, JoinType, Zenon DEF FInv, TType
  <2> QED
    BY <2>1, <2>3, Zenon DEF FInv, Reads
<1> QED
  BY <1>1, ParserFollowsDocument, PTL

\* The regions that parse returns fit their arrays, are not empty and do not
\* pass the end of the address space.
THEOREM ParserReturnsUsableRegions == TreeSpec => []RegionsUsable
<1>1. FInv => RegionsUsable
  <2> SUFFICES ASSUME FInv PROVE RegionsUsable
    OBVIOUS
  <2>1. entropy_len <= MAX_ENTROPY
    <3>1. entropy_len \in 0..MAX_ENTROPY
      BY Zenon DEF FInv, FType
    <3> QED
      BY <3>1, FdtAssumption
  <2>2. ASSUME NEW list \in Seq(Usable), NEW i \in DOMAIN list
        PROVE  list[i] \in Region /\ list[i].base + list[i].size < Limit
    <3>1. list[i] \in Usable
      OBVIOUS
    <3> QED
      BY <3>1, Zenon DEF Usable
  <2>3. regions \in Seq(Usable) /\ reserved \in Seq(Usable)
    BY Zenon DEF FInv, FType
  <2> QED
    BY <2>1, <2>2, <2>3, Zenon DEF FInv, FType, RegionsUsable
<1> QED
  BY <1>1, ParserFollowsDocument, PTL

=============================================================================
