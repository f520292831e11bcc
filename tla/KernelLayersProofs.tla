------------------------- MODULE KernelLayersProofs -------------------------
(***************************************************************************)
(* The layer below Kernel and the one above it, for any set of tasks,      *)
(* endpoints and register files: the intrusive lists that represent its    *)
(* queues (KernelLinks) and the exception entry that calls its handlers    *)
(* (Traps). Both proofs use Linked, the invariant of KernelProofs.         *)
(***************************************************************************)
EXTENDS KernelLinks, Traps, KernelProofs

-----------------------------------------------------------------------------
(* The intrusive lists. Push and Pop are right for any family of disjoint   *)
(* queues that share Tcb.next; Linked says that the queues are disjoint at  *)
(* every point of every handler where one of them is called.                *)

Opt == Tasks \cup {NoTask}

LinkType(l) == l \in [next : [Tasks -> Opt], head : [Queues -> Opt], tail : [Queues -> Opt]]

SpellsAll(l, sq) == \A r \in Queues : Spells(l, r, sq[r])

Disjoint(sq) ==
  /\ \A r \in Queues : NoRepeats(sq[r])
  /\ \A r, p \in Queues : \A t \in Tasks : In(t, sq[r]) /\ In(t, sq[p]) => r = p

-----------------------------------------------------------------------------
(* push and pop on disjoint queues *)

\* Only the empty queue has length 0.
LEMMA EmptyLen ==
  ASSUME NEW s \in Seq(Tasks)
  PROVE  Len(s) \in Nat /\ (s = <<>> <=> Len(s) = 0)
OBVIOUS

\* push: the task goes to the tail of its queue and no other queue changes.
LEMMA PushSpells ==
  ASSUME NEW l, LinkType(l), NEW sq \in [Queues -> Seq(Tasks)], Disjoint(sq), SpellsAll(l, sq),
         NEW r \in Queues, NEW t \in Tasks, \A p \in Queues : ~In(t, sq[p])
  PROVE  LinkType(push(l, r, t)) /\ SpellsAll(push(l, r, t), [sq EXCEPT ![r] = Append(@, t)])
<1> DEFINE m == push(l, r, t)
           s == sq[r]
           a == Append(s, t)
<1>1. s \in Seq(Tasks) /\ Len(s) \in Nat /\ a \in Seq(Tasks) /\ Len(a) = Len(s) + 1 /\ a[Len(s) + 1] = t
      /\ (\A i \in 1..Len(s) : a[i] = s[i]) /\ a # <<>>
  OBVIOUS
<1>2. NoTask \notin Tasks /\ l.next \in [Tasks -> Opt] /\ l.head \in [Queues -> Opt] /\ l.tail \in [Queues -> Opt]
  BY KernelAssumption DEF LinkType
<1>3. /\ l.tail[r] = IF s = <<>> THEN NoTask ELSE s[Len(s)]
      /\ l.head[r] = IF s = <<>> THEN NoTask ELSE s[1]
      /\ \A i \in 1..Len(s) : l.next[s[i]] = IF i = Len(s) THEN NoTask ELSE s[i + 1]
  BY DEF SpellsAll, Spells
<1>4. \A p \in Queues : \A i \in 1..Len(sq[p]) : sq[p][i] \in Tasks /\ sq[p][i] # t
  BY DEF In
<1>5. CASE s = <<>>
  <2>1. l.tail[r] = NoTask /\ Len(s) = 0
    BY <1>3, <1>5
  <2>2. m = [next |-> [l.next EXCEPT ![t] = NoTask], head |-> [l.head EXCEPT ![r] = t],
             tail |-> [l.tail EXCEPT ![r] = t]]
    BY <2>1 DEF push
  <2>3. LinkType(m)
    BY <1>2, <2>2 DEF LinkType, Opt
  <2>7. /\ \A u \in Tasks : m.next[u] = IF u = t THEN NoTask ELSE l.next[u]
        /\ m.head[r] = t /\ m.tail[r] = t
    BY <1>2, <2>2
  <2>4. Spells(m, r, a)
    <3> HIDE DEF m, s, a
    <3>1. Len(a) = 1 /\ a[1] = t /\ a # <<>>
      <4>1. Len(s) + 1 = 1
        BY <2>1
      <4>2. Len(a) = 1 /\ a[1] = t /\ a \in Seq(Tasks)
        BY <1>1, <4>1
      <4>3. QED
        BY <1>1, <4>2
    <3>2. QED
      BY <2>7, <3>1 DEF Spells
  <2>5. ASSUME NEW p \in Queues, p # r PROVE Spells(m, p, sq[p])
    <3>1. m.head[p] = l.head[p] /\ m.tail[p] = l.tail[p]
      BY <1>2, <2>2, <2>5
    <3>2. \A i \in 1..Len(sq[p]) : m.next[sq[p][i]] = l.next[sq[p][i]]
      BY <1>4, <2>7
    <3>3. QED
      BY <3>1, <3>2 DEF SpellsAll, Spells
  <2>6. QED
    BY <2>3, <2>4, <2>5 DEF SpellsAll
<1>6. CASE s # <<>>
  <2> DEFINE z == s[Len(s)]
  <2>1. Len(s) >= 1 /\ Len(s) \in 1..Len(s) /\ z \in Tasks /\ z # t /\ l.tail[r] = z /\ In(z, s)
    BY <1>1, <1>3, <1>4, <1>6 DEF In
  <2>2. m = [next |-> [[l.next EXCEPT ![t] = NoTask] EXCEPT ![z] = t], head |-> l.head,
             tail |-> [l.tail EXCEPT ![r] = t]]
    BY <1>2, <2>1, Zenon DEF push
  <2>3. LinkType(m)
    BY <1>2, <2>1, <2>2 DEF LinkType, Opt
  <2>4. \A u \in Tasks : m.next[u] = IF u = z THEN t ELSE IF u = t THEN NoTask ELSE l.next[u]
    BY <1>2, <2>1, <2>2
  <2>5. Spells(m, r, a)
    <3>1. m.head[r] = a[1] /\ m.tail[r] = a[Len(a)] /\ a # <<>>
      BY <1>1, <1>2, <1>3, <1>6, <2>1, <2>2
    <3>2. ASSUME NEW i \in 1..Len(a) PROVE m.next[a[i]] = IF i = Len(a) THEN NoTask ELSE a[i + 1]
      <4>1. CASE i = Len(a)
        BY <1>1, <2>1, <2>4, <4>1
      <4>2. CASE i = Len(s)
        BY <1>1, <2>1, <2>4, <4>2
      <4>3. CASE i < Len(s)
        <5>1. i \in 1..Len(s) /\ i + 1 \in 1..Len(s) /\ a[i] = s[i] /\ a[i + 1] = s[i + 1]
          BY <1>1, <4>3
        <5>2. s[i] # z
          BY <2>1, <4>3, <5>1 DEF Disjoint, NoRepeats
        <5>3. QED
          BY <1>1, <1>3, <1>4, <2>4, <4>3, <5>1, <5>2
      <4>4. QED
        BY <1>1, <4>1, <4>2, <4>3
    <3>3. QED
      BY <3>1, <3>2 DEF Spells
  <2>6. ASSUME NEW p \in Queues, p # r PROVE Spells(m, p, sq[p])
    <3>1. m.head[p] = l.head[p] /\ m.tail[p] = l.tail[p]
      BY <1>2, <2>2, <2>6
    <3>2. \A i \in 1..Len(sq[p]) : sq[p][i] # z
      BY <2>1, <2>6 DEF Disjoint, In
    <3>3. \A i \in 1..Len(sq[p]) : m.next[sq[p][i]] = l.next[sq[p][i]]
      BY <1>4, <2>4, <3>2
    <3>4. QED
      BY <3>1, <3>3 DEF SpellsAll, Spells
  <2>7. QED
    BY <2>3, <2>5, <2>6 DEF SpellsAll
<1>7. QED
  BY <1>5, <1>6

\* pop: the head of the queue leaves it and no other queue changes.
LEMMA PopSpells ==
  ASSUME NEW l, LinkType(l), NEW sq \in [Queues -> Seq(Tasks)], Disjoint(sq), SpellsAll(l, sq),
         NEW r \in Queues, sq[r] # <<>>
  PROVE  /\ LinkType(pop(l, r))
         /\ SpellsAll(pop(l, r), [sq EXCEPT ![r] = Tail(@)])
<1> DEFINE m == pop(l, r)
           s == sq[r]
           h == s[1]
           nx == l.next[h]
           b == Tail(s)
<1>0. s \in Seq(Tasks) /\ s # <<>>
  OBVIOUS
<1>1. s \in Seq(Tasks) /\ Len(s) \in Nat /\ Len(s) >= 1 /\ b \in Seq(Tasks) /\ Len(b) = Len(s) - 1
      /\ (\A i \in 1..Len(b) : b[i] = s[i + 1]) /\ (b = <<>> <=> Len(s) = 1)
  <2> HIDE DEF s
  <2>1. Len(s) \in Nat /\ Len(s) >= 1 /\ b \in Seq(Tasks) /\ Len(b) = Len(s) - 1
    BY <1>0
  <2>2. \A i \in 1..Len(b) : b[i] = s[i + 1]
    BY <1>0
  <2>3. b = <<>> <=> Len(b) = 0
    BY <2>1, EmptyLen, Zenon
  <2>4. QED
    BY <1>0, <2>1, <2>2, <2>3
<1>2. NoTask \notin Tasks /\ l.next \in [Tasks -> Opt] /\ l.head \in [Queues -> Opt] /\ l.tail \in [Queues -> Opt]
  BY KernelAssumption DEF LinkType
<1>3. /\ l.tail[r] = s[Len(s)]
      /\ l.head[r] = h
      /\ \A i \in 1..Len(s) : l.next[s[i]] = IF i = Len(s) THEN NoTask ELSE s[i + 1]
  BY DEF SpellsAll, Spells
<1>4. \A p \in Queues : \A i \in 1..Len(sq[p]) : sq[p][i] \in Tasks
  OBVIOUS
<1>5. h \in Tasks /\ In(h, s) /\ nx = (IF Len(s) = 1 THEN NoTask ELSE s[2]) /\ (nx = NoTask <=> Len(s) = 1)
  <2> HIDE DEF s
  <2>1. 1 \in 1..Len(s) /\ (Len(s) # 1 => 2 \in 1..Len(s))
    BY <1>1
  <2>2. h \in Tasks /\ (Len(s) # 1 => s[2] \in Tasks)
    BY <1>1, <2>1
  <2>3. nx = IF Len(s) = 1 THEN NoTask ELSE s[2]
    <3>1. l.next[s[1]] = IF 1 = Len(s) THEN NoTask ELSE s[1 + 1]
      BY <1>3, <2>1
    <3>2. QED
      BY <3>1
  <2>4. QED
    BY <1>2, <2>1, <2>2, <2>3 DEF In
<1>6. m = [next |-> [l.next EXCEPT ![h] = NoTask], head |-> [l.head EXCEPT ![r] = nx],
           tail |-> IF nx = NoTask THEN [l.tail EXCEPT ![r] = NoTask] ELSE l.tail]
  BY <1>2, <1>3, <1>5 DEF pop
<1>7. LinkType(m)
  BY <1>2, <1>5, <1>6 DEF LinkType, Opt
<1>8. Spells(m, r, b)
  <2>1. m.head[r] = IF b = <<>> THEN NoTask ELSE b[1]
    BY <1>1, <1>2, <1>5, <1>6
  <2>2. m.tail[r] = IF b = <<>> THEN NoTask ELSE b[Len(b)]
    <3>1. m.tail[r] = IF nx = NoTask THEN NoTask ELSE l.tail[r]
      BY <1>2, <1>6
    <3> HIDE DEF m, s, nx, b
    <3>2. CASE Len(s) = 1
      BY <1>1, <1>5, <3>1, <3>2
    <3>3. CASE Len(s) # 1
      <4>1. Len(b) \in 1..Len(b) /\ b[Len(b)] = s[Len(s)]
        BY <1>1, <3>3
      <4>2. QED
        BY <1>1, <1>3, <1>5, <3>1, <3>3, <4>1
    <3>4. QED
      BY <3>2, <3>3
  <2>3. ASSUME NEW i \in 1..Len(b) PROVE m.next[b[i]] = IF i = Len(b) THEN NoTask ELSE b[i + 1]
    <3>1. i + 1 \in 1..Len(s) /\ b[i] = s[i + 1] /\ s[i + 1] \in Tasks
      BY <1>1, <1>4
    <3>2. s[i + 1] # h
      BY <1>1, <3>1 DEF Disjoint, NoRepeats
    <3>3. m.next[b[i]] = l.next[s[i + 1]]
      BY <1>2, <1>6, <3>1, <3>2
    <3> HIDE DEF m, s, b
    <3>4. l.next[s[i + 1]] = IF i + 1 = Len(s) THEN NoTask ELSE s[i + 2]
      BY <1>1, <1>3, <3>1
    <3>5. i # Len(b) => i + 1 \in 1..Len(b) /\ b[i + 1] = s[i + 2]
      BY <1>1
    <3>6. QED
      BY <1>1, <3>3, <3>4, <3>5
  <2>4. QED
    BY <2>1, <2>2, <2>3, Zenon DEF Spells
<1>9. ASSUME NEW p \in Queues, p # r PROVE Spells(m, p, sq[p])
  <2>1. m.head[p] = l.head[p] /\ m.tail[p] = l.tail[p]
    BY <1>2, <1>6, <1>9
  <2>2. \A i \in 1..Len(sq[p]) : sq[p][i] # h
    BY <1>5, <1>9 DEF Disjoint, In
  <2>3. \A i \in 1..Len(sq[p]) : m.next[sq[p][i]] = l.next[sq[p][i]]
    BY <1>2, <1>4, <1>6, <2>2
  <2>4. QED
    BY <2>1, <2>3 DEF SpellsAll, Spells
<1>10. QED
  BY <1>7, <1>8, <1>9 DEF SpellsAll

-----------------------------------------------------------------------------
(* push and pop on the queues of the kernel *)

SeqOf(q, wq) == [r \in Queues |-> IF r = READY THEN q ELSE wq[r]]

Rep(l, q, wq) == LinkType(l) /\ SpellsAll(l, SeqOf(q, wq))

\* Where states and queues fit together, the queues are disjoint, and a task
\* in an unlisted state is in none: what push asks of its caller.
LEMMA SeqOfFits ==
  ASSUME NEW st, NEW q, NEW wq, NEW rt, Linked(st, q, wq, rt)
  PROVE  /\ SeqOf(q, wq) \in [Queues -> Seq(Tasks)]
         /\ Disjoint(SeqOf(q, wq))
         /\ \A t \in Tasks : st[t] \in Unlisted => \A p \in Queues : ~In(t, SeqOf(q, wq)[p])
<1>1. q \in Seq(Tasks) /\ wq \in [Endpoints -> Seq(Tasks)] /\ ListsFit(st, q, wq)
  BY DEF Linked, Typed
<1>2. READY \notin Endpoints /\ Queues = Endpoints \cup {READY}
  BY ReadyAssumption DEF Queues
<1>3. \A p \in Queues : SeqOf(q, wq)[p] = IF p = READY THEN q ELSE wq[p]
  BY DEF SeqOf
<1>4. SeqOf(q, wq) \in [Queues -> Seq(Tasks)]
  BY <1>1, <1>2 DEF SeqOf
<1>5. Disjoint(SeqOf(q, wq))
  <2>1. \A p \in Queues : NoRepeats(SeqOf(q, wq)[p])
    BY <1>1, <1>2, <1>3 DEF ListsFit
  <2>2. \A p, r \in Queues : \A t \in Tasks : In(t, SeqOf(q, wq)[p]) /\ In(t, SeqOf(q, wq)[r]) => p = r
    BY <1>1, <1>2, <1>3 DEF ListsFit, Queued
  <2>3. QED
    BY <2>1, <2>2 DEF Disjoint
<1>6. \A t \in Tasks : st[t] \in Unlisted => \A p \in Queues : ~In(t, SeqOf(q, wq)[p])
  BY <1>1, <1>2, <1>3 DEF ListsFit, Unlisted
<1>7. QED
  BY <1>4, <1>5, <1>6

\* enqueue of an unlisted task.
LEMMA RepWake ==
  ASSUME NEW st, NEW q, NEW wq, NEW rt, Linked(st, q, wq, rt), NEW l, Rep(l, q, wq),
         NEW t \in Tasks, st[t] \in Unlisted
  PROVE  Rep(push(l, READY, t), Append(q, t), wq)
<1>1. READY \in Queues
  BY DEF Queues
<1>2. [SeqOf(q, wq) EXCEPT ![READY] = Append(@, t)] = SeqOf(Append(q, t), wq)
  BY <1>1, Zenon DEF SeqOf
<1> DEFINE sq == SeqOf(q, wq)
<1>3. sq \in [Queues -> Seq(Tasks)] /\ Disjoint(sq) /\ \A p \in Queues : ~In(t, sq[p])
  BY SeqOfFits
<1>4. LinkType(l) /\ SpellsAll(l, sq)
  BY DEF Rep
<1> HIDE DEF sq
<1>5. LinkType(push(l, READY, t)) /\ SpellsAll(push(l, READY, t), [sq EXCEPT ![READY] = Append(@, t)])
  BY <1>1, <1>3, <1>4, PushSpells, Zenon
<1>6. QED
  BY <1>2, <1>5, Zenon DEF Rep, sq

\* Endpoint::push of an unlisted task.
LEMMA RepEpPush ==
  ASSUME NEW st, NEW q, NEW wq, NEW rt, Linked(st, q, wq, rt), NEW l, Rep(l, q, wq),
         NEW t \in Tasks, st[t] \in Unlisted, NEW e \in Endpoints
  PROVE  Rep(push(l, e, t), q, [wq EXCEPT ![e] = Append(@, t)])
<1>1. e \in Queues /\ e # READY /\ wq \in [Endpoints -> Seq(Tasks)]
  BY ReadyAssumption DEF Queues, Linked, Typed
<1>2. [SeqOf(q, wq) EXCEPT ![e] = Append(@, t)] = SeqOf(q, [wq EXCEPT ![e] = Append(@, t)])
  BY <1>1, Zenon DEF SeqOf, Queues
<1> DEFINE sq == SeqOf(q, wq)
<1>3. sq \in [Queues -> Seq(Tasks)] /\ Disjoint(sq) /\ \A p \in Queues : ~In(t, sq[p])
  BY SeqOfFits
<1>4. LinkType(l) /\ SpellsAll(l, sq)
  BY DEF Rep
<1> HIDE DEF sq
<1>5. LinkType(push(l, e, t)) /\ SpellsAll(push(l, e, t), [sq EXCEPT ![e] = Append(@, t)])
  BY <1>1, <1>3, <1>4, PushSpells, Zenon
<1>6. QED
  BY <1>2, <1>5 DEF Rep, sq

\* Endpoint::pop of a queue that is not empty.
LEMMA RepEpPop ==
  ASSUME NEW st, NEW q, NEW wq, NEW rt, Linked(st, q, wq, rt), NEW l, Rep(l, q, wq),
         NEW e \in Endpoints, wq[e] # <<>>
  PROVE  Rep(pop(l, e), q, [wq EXCEPT ![e] = Tail(@)])
<1>1. e \in Queues /\ e # READY /\ wq \in [Endpoints -> Seq(Tasks)]
  BY ReadyAssumption DEF Queues, Linked, Typed
<1>2. [SeqOf(q, wq) EXCEPT ![e] = Tail(@)] = SeqOf(q, [wq EXCEPT ![e] = Tail(@)])
  BY <1>1, Zenon DEF SeqOf, Queues
<1>3. SeqOf(q, wq)[e] # <<>>
  BY <1>1 DEF SeqOf
<1> DEFINE sq == SeqOf(q, wq)
<1>4. sq \in [Queues -> Seq(Tasks)] /\ Disjoint(sq) /\ sq[e] # <<>>
  BY <1>3, SeqOfFits
<1>5. LinkType(l) /\ SpellsAll(l, sq)
  BY DEF Rep
<1> HIDE DEF sq
<1>6. LinkType(pop(l, e)) /\ SpellsAll(pop(l, e), [sq EXCEPT ![e] = Tail(@)])
  BY <1>1, <1>4, <1>5, PopSpells, Zenon
<1>7. QED
  BY <1>2, <1>6 DEF Rep, sq

\* What the head field of an endpoint says.
LEMMA RepHead ==
  ASSUME NEW q, NEW wq \in [Endpoints -> Seq(Tasks)], NEW l, Rep(l, q, wq), NEW e \in Endpoints
  PROVE  l.head[e] = IF wq[e] = <<>> THEN NoTask ELSE Head(wq[e])
<1>1. e \in Queues /\ e # READY
  BY ReadyAssumption DEF Queues
<1>2. SeqOf(q, wq)[e] = wq[e]
  BY <1>1 DEF SeqOf
<1>3. l.head[e] = IF wq[e] = <<>> THEN NoTask ELSE wq[e][1]
  BY <1>1, <1>2 DEF Rep, SpellsAll, Spells
<1>4. QED
  BY <1>3

\* The pop of block_and_switch and exit_current.
LEMMA RepSwitch ==
  ASSUME NEW st, NEW q, NEW reason, Linked(st, q, waitq', reply_to'), NEW l, Rep(l, q, waitq'),
         switch_or_park(st, q, reason)
  PROVE  Rep(sched_pop(l), ready', waitq')
<1>1. READY \in Queues /\ SeqOf(q, waitq')[READY] = q
  BY DEF Queues, SeqOf
<1>2. CASE q = <<>>
  <2>1. l.head[READY] = NoTask
    BY <1>1, <1>2 DEF Rep, SpellsAll, Spells
  <2>2. QED
    BY <1>2, <2>1 DEF switch_or_park, sched_pop, pop
<1>3. CASE q # <<>>
  <2>1. [SeqOf(q, waitq') EXCEPT ![READY] = Tail(@)] = SeqOf(Tail(q), waitq')
    BY <1>1, Zenon DEF SeqOf
  <2> DEFINE sq == SeqOf(q, waitq')
  <2>2. sq \in [Queues -> Seq(Tasks)] /\ Disjoint(sq) /\ sq[READY] # <<>>
    BY <1>1, <1>3, SeqOfFits
  <2>3. LinkType(l) /\ SpellsAll(l, sq)
    BY DEF Rep
  <2> HIDE DEF sq
  <2>4. LinkType(pop(l, READY)) /\ SpellsAll(pop(l, READY), [sq EXCEPT ![READY] = Tail(@)])
    BY <1>1, <2>2, <2>3, PopSpells, Zenon
  <2>5. Rep(pop(l, READY), Tail(q), waitq')
    BY <2>1, <2>4, Zenon DEF Rep, sq
  <2>6. QED
    BY <1>3, <2>5, Zenon DEF switch_or_park, sched_pop
<1>4. QED
  BY <1>2, <1>3

\* abort_reply and the reply phase: the caller h owes a reply is enqueued.
LEMMA RepWakeCaller ==
  ASSUME NEW st, NEW q, NEW wq, NEW rt, Linked(st, q, wq, rt), NEW l, Rep(l, q, wq), NEW h \in Tasks
  PROVE  Rep(sched_push(l, rt[h]), enqueue(q, rt[h]), wq)
<1>1. CASE rt[h] = NoTask
  BY <1>1 DEF sched_push, enqueue
<1>2. CASE rt[h] # NoTask
  <2>1. rt[h] \in Tasks /\ st[rt[h]] \in Unlisted
    BY <1>2 DEF Linked, Typed, RepliesFit, Unlisted, TaskState, Queued
  <2>2. Rep(push(l, READY, rt[h]), Append(q, rt[h]), wq)
    BY <2>1, RepWake
  <2>3. QED
    BY <1>2, <2>2 DEF sched_push, enqueue
<1>3. QED
  BY <1>1, <1>2

-----------------------------------------------------------------------------
(* The handlers *)

LInv == IInv /\ Rep(links, ready, waitq)

\* YIELD and the timer tick: pop the next task, push the current one.
LEMMA LinkSwitchKeeps ==
  ASSUME LInv, LinkSwitch
  PROVE  Rep(links', ready', waitq')
<1>1. Runs /\ rotate /\ waitq' = waitq /\ links' = rotate_links
  BY DEF LinkSwitch, sys_yield, k0_preempt
<1>2. READY \in Queues /\ SeqOf(ready, waitq)[READY] = ready /\ ready \in Seq(Tasks)
  BY DEF Queues, SeqOf, LInv, IInv, Linked, Typed
<1>3. links.head[READY] = IF ready = <<>> THEN NoTask ELSE ready[1]
  BY <1>2 DEF LInv, Rep, SpellsAll, Spells
<1>4. CASE ready = <<>>
  BY <1>1, <1>3, <1>4 DEF rotate, rotate_links, LInv
<1>5. CASE ready # <<>>
  <2> DEFINE st == [state EXCEPT ![Head(ready)] = "Running"]
  <2>1. ready[1] \in Tasks /\ NoTask \notin Tasks
    BY <1>2, <1>5, KernelAssumption
  <2>2. links' = push(sched_pop(links), READY, current) /\ ready' = Append(Tail(ready), current)
    <3>1. current # NoTask
      BY <1>1, <2>1, OnlyCurrent DEF LInv
    <3>2. QED
      BY <1>1, <1>3, <1>5, <2>1, <3>1 DEF rotate, rotate_links, sched_push
  <2>3. Linked(st, Tail(ready), waitq, reply_to) /\ Head(ready) \in Tasks /\ state[Head(ready)] = "Ready"
    BY <1>5, PopReady DEF LInv, IInv
  <2>4. current \in Tasks /\ st[current] \in Unlisted
    <3>1. current \in Tasks /\ state[current] = "Running" /\ state \in [Tasks -> TaskState]
      BY <1>1, OnlyCurrent DEF LInv, IInv, Linked, Typed
    <3>2. st[current] = "Running"
      BY <2>3, <3>1
    <3>3. QED
      BY <3>1, <3>2 DEF Unlisted, TaskState, Queued
  <2>5. Rep(sched_pop(links), Tail(ready), waitq)
    <3> DEFINE sq == SeqOf(ready, waitq)
    <3>1. [sq EXCEPT ![READY] = Tail(@)] = SeqOf(Tail(ready), waitq)
      BY <1>2, Zenon DEF SeqOf
    <3>2. sq \in [Queues -> Seq(Tasks)] /\ Disjoint(sq) /\ sq[READY] # <<>> /\ LinkType(links) /\ SpellsAll(links, sq)
      BY <1>2, <1>5, SeqOfFits DEF LInv, IInv, Rep
    <3> HIDE DEF sq
    <3>3. LinkType(pop(links, READY)) /\ SpellsAll(pop(links, READY), [sq EXCEPT ![READY] = Tail(@)])
      BY <1>2, <3>2, PopSpells, Zenon
    <3>4. QED
      BY <3>1, <3>3, Zenon DEF Rep, sched_pop
  <2> HIDE DEF st
  <2>6. Rep(push(sched_pop(links), READY, current), Append(Tail(ready), current), waitq)
    BY <2>3, <2>4, <2>5, RepWake
  <2>7. QED
    BY <1>1, <2>2, <2>6
<1>6. QED
  BY <1>4, <1>5

\* The end of a task: its caller is enqueued, then the next task is popped.
LEMMA LinkKillKeeps ==
  ASSUME LInv, LinkKill
  PROVE  Rep(links', ready', waitq')
<1> DEFINE c == reply_to[current]
           st == enqueue_state(state, c)
           q == enqueue(ready, c)
           rt == [reply_to EXCEPT ![current] = NoTask]
           nx == [st EXCEPT ![current] = "Dead"]
<1>1. Runs /\ reply_to' = rt /\ waitq' = waitq /\ switch_or_park(nx, q, "all tasks exited")
      /\ links' = sched_pop(sched_push(links, c))
  BY Zenon DEF LinkKill, kill_current, exit_current
<1>2. current \in Tasks /\ state[current] = "Running" /\ Linked(state, ready, waitq, reply_to) /\ Rep(links, ready, waitq)
  BY <1>1, OnlyCurrent, Zenon DEF LInv, IInv
<1>3. Rep(sched_push(links, c), q, waitq)
  BY <1>2, RepWakeCaller
<1>4. Linked(st, q, waitq, rt) /\ (c # NoTask => c \in Tasks /\ state[c] = "BlockedReply")
  BY ONLY <1>2, WakeCaller
<1>5. st[current] = "Running" /\ rt[current] = NoTask
  BY <1>2, <1>4 DEF enqueue_state, Linked, Typed
<1>6. "Dead" \in Unlisted \ {"BlockedReply"} /\ st[current] \in Unlisted \ {"BlockedReply"}
  BY <1>5 DEF Unlisted, TaskState, Queued
<1> HIDE DEF st, q, rt
<1>7. Linked(nx, q, waitq, rt)
  BY <1>2, <1>4, <1>5, <1>6, Idle
<1> HIDE DEF nx
<1>8. QED
  BY <1>1, <1>3, <1>7, RepSwitch, Zenon

\* TCB_RESUME.
LEMMA LinkResumeKeeps ==
  ASSUME LInv, NEW t, LinkResume(t)
  PROVE  Rep(links', ready', waitq')
<1>0. NoTask \notin Tasks /\ waitq' = waitq
  BY KernelAssumption DEF LinkResume, sys_tcb_resume, return
<1>1. CASE t \in Tasks /\ state[t] = "Stopped"
  <2>1. links' = push(links, READY, t) /\ state[t] \in Unlisted
    BY <1>0, <1>1 DEF LinkResume, sched_push, Unlisted, TaskState, Queued
  <2>2. t \notin TcbErrors
    BY <1>1, KernelAssumption
  <2>3. ready' = Append(ready, t)
    BY <1>0, <1>1, <2>2 DEF LinkResume, sys_tcb_resume, enqueue
  <2>4. QED
    BY <1>0, <1>1, <2>1, <2>3, RepWake DEF LInv, IInv
<1>2. CASE ~(t \in Tasks /\ state[t] = "Stopped")
  BY <1>0, <1>2 DEF LinkResume, sys_tcb_resume, return, LInv
<1>3. QED
  BY <1>1, <1>2

\* A call that blocks: push on the endpoint, then pop of the ready queue.
LEMMA LinkWaitKeeps ==
  ASSUME LInv, Runs, NEW e \in Endpoints, NEW as \in Queued, NEW st, NEW q,
         Linked(st, q, waitq, reply_to'), st[current] = "Running",
         \A u \in Tasks : In(u, waitq[e]) => (st[u] = "BlockedRecv" <=> as = "BlockedRecv"),
         wait_on(e, as, st, q), NEW l, Rep(l, q, waitq)
  PROVE  Rep(wait_links(l, e), ready', waitq')
<1> DEFINE nx == [st EXCEPT ![current] = as]
<1>1. waitq' = [waitq EXCEPT ![e] = Append(@, current)] /\ switch_or_park(nx, q, "all tasks blocked")
  BY Zenon DEF wait_on, block_and_switch
<1>2. current \in Tasks /\ st[current] \in Unlisted \ {"BlockedReply"}
  BY OnlyCurrent DEF LInv, Unlisted, TaskState, Queued
<1>3. Linked(nx, q, [waitq EXCEPT ![e] = Append(@, current)], reply_to')
  BY <1>2, PushEp, Zenon
<1>4. Rep(push(l, e, current), q, [waitq EXCEPT ![e] = Append(@, current)])
  BY <1>2, RepEpPush
<1> HIDE DEF nx
<1>5. Linked(nx, q, waitq', reply_to') /\ Rep(push(l, e, current), q, waitq')
  BY <1>1, <1>3, <1>4, Zenon
<1>6. QED
  BY <1>1, <1>5, RepSwitch, Zenon DEF wait_links

\* The test of a handler on the head field is the test on the queue.
LEMMA HeadAgrees ==
  ASSUME LInv, NEW e \in Endpoints, NEW l, NEW q, Rep(l, q, waitq)
  PROVE  /\ HeadState(l, e) = "BlockedRecv" <=> ReceiverWaits(e)
         /\ HeadState(l, e) \in {"BlockedSend", "BlockedCall"} <=> SenderWaits(e)
         /\ waitq[e] # <<>> => l.head[e] = Head(waitq[e]) /\ HeadState(l, e) = state[Head(waitq[e])]
<1>1. waitq \in [Endpoints -> Seq(Tasks)] /\ NoTask \notin Tasks
  BY KernelAssumption DEF LInv, IInv, Linked, Typed
<1>2. l.head[e] = IF waitq[e] = <<>> THEN NoTask ELSE Head(waitq[e])
  BY <1>1, RepHead
<1>3. CASE waitq[e] = <<>>
  BY <1>2, <1>3 DEF HeadState, ReceiverWaits, SenderWaits
<1>4. CASE waitq[e] # <<>>
  <2>1. Head(waitq[e]) \in Tasks /\ state[Head(waitq[e])] \in Queued
    BY <1>4, PopEp, Zenon DEF LInv, IInv
  <2>2. HeadState(l, e) = state[Head(waitq[e])]
    BY <1>1, <1>2, <1>4, <2>1 DEF HeadState
  <2>3. QED
    BY <1>2, <1>4, <2>1, <2>2 DEF ReceiverWaits, SenderWaits, Queued
<1>5. QED
  BY <1>3, <1>4

\* SEND.
LEMMA LinkSendKeeps ==
  ASSUME LInv, NEW ep, NEW nonblock \in BOOLEAN, NEW m, LinkSend(ep, nonblock, m)
  PROVE  Rep(links', ready', waitq')
<1>0. Runs /\ sys_send(ep, nonblock, m) /\ Rep(links, ready, waitq) /\ IInv
  BY DEF LinkSend, sys_send, LInv
<1>1. CASE ep \notin Endpoints
  BY <1>0, <1>1 DEF LinkSend, sys_send, return
<1>2. CASE ep \in Endpoints
  <2>0. links' = send_links(ep, nonblock) /\ ep \notin EpErrors
    BY <1>2, KernelAssumption DEF LinkSend
  <2>1. CASE ReceiverWaits(ep)
    <3> DEFINE r == Head(waitq[ep])
               st == [state EXCEPT ![r] = "Running"]
               w == [waitq EXCEPT ![ep] = Tail(@)]
    <3>1. waitq[ep] # <<>> /\ HeadState(links, ep) = "BlockedRecv" /\ links.head[ep] = r
      BY <1>0, <1>2, <2>1, HeadAgrees DEF ReceiverWaits
    <3>2. r \in Tasks /\ Linked(st, ready, w, reply_to)
      BY <1>0, <1>2, <3>1, PopEp DEF IInv
    <3>3. st[r] \in Unlisted
      BY <1>0, <3>2 DEF IInv, Linked, Typed, Unlisted, TaskState, Queued
    <3>4. Rep(pop(links, ep), ready, w)
      BY <1>0, <1>2, <3>1, RepEpPop, ZenonT(40) DEF IInv
    <3>5. waitq' = w /\ ready' = Append(ready, r) /\ links' = push(pop(links, ep), READY, r)
      BY <1>0, <1>2, <2>0, <2>1, <3>1, <3>2, KernelAssumption, Zenon
         DEF sys_send, return, enqueue, send_links, sched_push
    <3> HIDE DEF r, st, w
    <3>6. Rep(push(pop(links, ep), READY, r), Append(ready, r), w)
      BY <3>2, <3>3, <3>4, RepWake, ZenonT(40)
    <3>7. QED
      BY <3>5, <3>6
  <2>2. CASE ~ReceiverWaits(ep) /\ nonblock
    BY <1>0, <1>2, <2>0, <2>2, HeadAgrees DEF sys_send, return, send_links
  <2>3. CASE ~ReceiverWaits(ep) /\ ~nonblock
    <3>1. wait_on(ep, "BlockedSend", state, ready) /\ reply_to' = reply_to /\ links' = wait_links(links, ep)
      BY <1>0, <1>2, <2>0, <2>3, HeadAgrees DEF sys_send, send_links
    <3>2. \A u \in Tasks : In(u, waitq[ep]) => state[u] # "BlockedRecv"
      BY <1>0, <1>2, <2>3, HeadTells
    <3>3. "BlockedSend" \in Queued /\ state[current] = "Running" /\ Linked(state, ready, waitq, reply_to')
      BY <1>0, <3>1, OnlyCurrent DEF Queued, IInv
    <3>4. QED
      BY <1>0, <1>2, <3>1, <3>2, <3>3, LinkWaitKeeps, ZenonT(40)
  <2>4. QED
    BY <2>1, <2>2, <2>3
<1>3. QED
  BY <1>1, <1>2

\* CALL: the receiver is popped, its old caller and then the receiver itself
\* are enqueued, and the next ready task is popped.
LEMMA LinkCallKeeps ==
  ASSUME LInv, NEW ep, NEW nonblock \in BOOLEAN, NEW m, LinkCall(ep, nonblock, m)
  PROVE  Rep(links', ready', waitq')
<1>0. Runs /\ sys_call(ep, nonblock, m) /\ Rep(links, ready, waitq) /\ IInv
  BY DEF LinkCall, sys_call, LInv
<1>1. CASE ep \notin Endpoints
  BY <1>0, <1>1 DEF LinkCall, sys_call, return
<1>2. CASE ep \in Endpoints
  <2>0. links' = call_links(ep, nonblock) /\ ep \notin EpErrors
    BY <1>2, KernelAssumption DEF LinkCall
  <2>1. CASE ReceiverWaits(ep)
    <3> DEFINE r == Head(waitq[ep])
               old == reply_to[r]
               st1 == [state EXCEPT ![r] = "Running"]
               w == [waitq EXCEPT ![ep] = Tail(@)]
               st2 == enqueue_state(st1, old)
               q2 == enqueue(ready, old)
               rt2 == [reply_to EXCEPT ![r] = NoTask]
               l1 == pop(links, ep)
               l2 == sched_push(l1, old)
               stf == enqueue_state([enqueue_state(state, old) EXCEPT ![current] = "BlockedReply"], r)
    <3>1. waitq[ep] # <<>> /\ HeadState(links, ep) = "BlockedRecv" /\ links.head[ep] = r
      BY <1>0, <1>2, <2>1, HeadAgrees DEF ReceiverWaits
    <3>2. r \in Tasks /\ Linked(st1, ready, w, reply_to)
      BY <1>0, <1>2, <3>1, PopEp DEF IInv
    <3>3. r # NoTask /\ st1[r] = "Running" /\ st1 \in [Tasks -> TaskState]
      BY <1>0, <3>2, KernelAssumption DEF IInv, Linked, Typed, TaskState
    <3>4. Rep(l1, ready, w)
      BY <1>0, <1>2, <3>1, RepEpPop DEF IInv
    <3>5. /\ waitq' = w
          /\ reply_to' = [reply_to EXCEPT ![r] = current]
          /\ switch_or_park(stf, enqueue(q2, r), "all tasks blocked")
          /\ links' = sched_pop(sched_push(l2, r))
      BY <1>0, <1>2, <2>0, <2>1, <3>1, ZenonT(40) DEF sys_call, call_links, block_and_switch
    <3>6. Linked(stf, enqueue(q2, r), waitq', reply_to')
      BY <1>0, <1>2, <3>1, <3>5, CallMeets, Zenon
    <3> HIDE DEF r, st1, w, l1
    <3>7. Rep(l2, q2, w)
      BY <3>2, <3>4, RepWakeCaller
    <3>8. Linked(st2, q2, w, rt2) /\ (old # NoTask => old \in Tasks /\ st1[old] = "BlockedReply")
      BY ONLY <3>2, WakeCaller DEF st2, q2, rt2, old
    <3>9. st2[r] \in Unlisted
      <4>1. st2[r] = "Running"
        BY <3>2, <3>3, <3>8 DEF enqueue_state
      <4>2. QED
        BY <4>1 DEF Unlisted, TaskState, Queued
    <3> HIDE DEF st2, q2, rt2, l2, stf, old
    <3>10. Rep(push(l2, READY, r), Append(q2, r), w)
      BY <3>2, <3>7, <3>8, <3>9, RepWake
    <3>11. Rep(sched_push(l2, r), enqueue(q2, r), waitq')
      BY <3>3, <3>5, <3>10, Zenon DEF sched_push, enqueue
    <3>12. QED
      BY <3>5, <3>6, <3>11, RepSwitch, ZenonT(40)
  <2>2. CASE ~ReceiverWaits(ep) /\ nonblock
    BY <1>0, <1>2, <2>0, <2>2, HeadAgrees DEF sys_call, return, call_links
  <2>3. CASE ~ReceiverWaits(ep) /\ ~nonblock
    <3>1. wait_on(ep, "BlockedCall", state, ready) /\ reply_to' = reply_to /\ links' = wait_links(links, ep)
      BY <1>0, <1>2, <2>0, <2>3, HeadAgrees DEF sys_call, call_links
    <3>2. \A u \in Tasks : In(u, waitq[ep]) => state[u] # "BlockedRecv"
      BY <1>0, <1>2, <2>3, HeadTells
    <3>3. "BlockedCall" \in Queued /\ state[current] = "Running" /\ Linked(state, ready, waitq, reply_to')
      BY <1>0, <3>1, OnlyCurrent, ZenonT(40) DEF Queued, IInv
    <3>4. QED
      BY <1>0, <1>2, <3>1, <3>2, <3>3, LinkWaitKeeps
  <2>4. QED
    BY <2>1, <2>2, <2>3
<1>3. QED
  BY <1>1, <1>2

\* The receive phase, after a reply phase that left st, q, rt and the links l.
LEMMA LinkRecvInner ==
  ASSUME LInv, Runs, NEW e \in Endpoints, NEW nonblock \in BOOLEAN,
         NEW st, NEW q, NEW rt, NEW x, NEW rg, NEW l, Linked(st, q, waitq, rt), Rep(l, q, waitq),
         \A u \in Tasks : state[u] # "BlockedReply" => st[u] = state[u],
         recv_inner(e, nonblock, st, q, rt, x, rg)
  PROVE  Rep(recv_links(l, e, nonblock, rt[current]), ready', waitq')
<1> DEFINE snd == Head(waitq[e])
           st1 == [st EXCEPT ![snd] = "Running"]
           w == [waitq EXCEPT ![e] = Tail(@)]
<1>1. current \in Tasks /\ st[current] = "Running" /\ st \in [Tasks -> TaskState] /\ IInv
  BY OnlyCurrent, ZenonT(40) DEF LInv, Linked, Typed
<1>2. CASE SenderWaits(e)
  <2>1. waitq[e] # <<>> /\ l.head[e] = snd /\ HeadState(l, e) = state[snd]
        /\ HeadState(l, e) \in {"BlockedSend", "BlockedCall"}
    BY <1>2, HeadAgrees DEF SenderWaits
  <2>2. snd \in Tasks /\ st[snd] = state[snd] /\ Linked(st1, q, w, rt)
    BY <1>1, <2>1, Partner, Zenon
  <2>3. Rep(pop(l, e), q, w)
    BY <2>1, RepEpPop
  <2>4. waitq' = w
    BY <1>2 DEF recv_inner
  <2>5. CASE state[snd] = "BlockedCall"
    <3>1. ready' = enqueue(q, rt[current]) /\ recv_links(l, e, nonblock, rt[current]) = sched_push(pop(l, e), rt[current])
      BY <1>2, <2>1, <2>2, <2>5, ZenonT(40) DEF recv_inner, recv_links
    <3> HIDE DEF st1, w
    <3>2. Rep(sched_push(pop(l, e), rt[current]), enqueue(q, rt[current]), w)
      BY <1>1, <2>2, <2>3, RepWakeCaller
    <3>3. QED
      BY <2>4, <3>1, <3>2
  <2>6. CASE state[snd] = "BlockedSend"
    <3>1. snd # NoTask
      BY <2>2, KernelAssumption
    <3>2. ready' = Append(q, snd)
      BY <1>2, <2>2, <2>6, <3>1 DEF recv_inner, enqueue
    <3>3. recv_links(l, e, nonblock, rt[current]) = push(pop(l, e), READY, snd)
      BY <2>1, <2>6, <3>1 DEF recv_links, sched_push
    <3>4. st1[snd] \in Unlisted
      BY <1>1, <2>2 DEF Unlisted, TaskState, Queued
    <3> HIDE DEF snd, st1, w
    <3>5. Rep(push(pop(l, e), READY, snd), Append(q, snd), w)
      BY <2>2, <2>3, <3>4, RepWake
    <3>6. QED
      BY <2>4, <3>2, <3>3, <3>5
  <2>7. QED
    BY <2>1, <2>5, <2>6, ZenonT(40)
<1>3. CASE ~SenderWaits(e)
  <2>1. recv_links(l, e, nonblock, rt[current]) = IF nonblock THEN l ELSE wait_links(l, e)
    BY <1>3, HeadAgrees DEF recv_links
  <2>2. CASE nonblock
    BY <1>3, <2>1, <2>2 DEF recv_inner
  <2>3. CASE ~nonblock
    <3>1. wait_on(e, "BlockedRecv", st, q) /\ reply_to' = rt
      BY <1>3, <2>3 DEF recv_inner
    <3>2. \A u \in Tasks : In(u, waitq[e]) => state[u] = "BlockedRecv"
      BY <1>1, <1>3, HeadTells
    <3>3. \A u \in Tasks : In(u, waitq[e]) => st[u] = "BlockedRecv"
      BY <3>2
    <3>4. "BlockedRecv" \in Queued /\ Linked(st, q, waitq, reply_to')
      BY <3>1 DEF Queued
    <3>5. Rep(wait_links(l, e), ready', waitq')
      BY <1>1, <3>1, <3>3, <3>4, LinkWaitKeeps
    <3>6. QED
      BY <2>1, <2>3, <3>5
  <2>4. QED
    BY <2>2, <2>3
<1>4. QED
  BY <1>2, <1>3

\* RECV.
LEMMA LinkRecvKeeps ==
  ASSUME LInv, NEW ep, NEW nonblock \in BOOLEAN, LinkRecv(ep, nonblock)
  PROVE  Rep(links', ready', waitq')
<1>0. Runs /\ sys_recv(ep, nonblock) /\ Rep(links, ready, waitq) /\ Linked(state, ready, waitq, reply_to)
  BY DEF LinkRecv, sys_recv, LInv, IInv
<1>1. CASE ep \notin Endpoints
  BY <1>0, <1>1 DEF LinkRecv, sys_recv, return
<1>2. CASE ep \in Endpoints
  <2>1. recv_inner(ep, nonblock, state, ready, reply_to, x0, mr)
        /\ links' = recv_links(links, ep, nonblock, reply_to[current])
    BY <1>0, <1>2, KernelAssumption DEF LinkRecv, sys_recv
  <2>2. QED
    BY <1>0, <1>2, <2>1, LinkRecvInner
<1>3. QED
  BY <1>1, <1>2

\* REPLY_RECV: the caller is enqueued before the receive phase.
LEMMA LinkReplyRecvKeeps ==
  ASSUME LInv, NEW ep, NEW nonblock \in BOOLEAN, NEW m, LinkReplyRecv(ep, nonblock, m)
  PROVE  Rep(links', ready', waitq')
<1> DEFINE caller == reply_to[current]
           st == enqueue_state(state, caller)
           q == enqueue(ready, caller)
           rt == [reply_to EXCEPT ![current] = NoTask]
           x == IF caller = NoTask THEN x0 ELSE [x0 EXCEPT ![caller] = "ok"]
           y == deliver([mr EXCEPT ![current] = m], current, caller)
           l == sched_push(links, caller)
<1>0. Runs /\ sys_reply_recv(ep, nonblock, m) /\ Rep(links, ready, waitq) /\ IInv
  BY ZenonT(40) DEF LinkReplyRecv, sys_reply_recv, LInv
<1>1. CASE ep \notin Endpoints
  BY <1>0, <1>1, Zenon DEF LinkReplyRecv, sys_reply_recv, return
<1>2. CASE ep \in Endpoints
  <2>1. recv_inner(ep, nonblock, st, q, rt, x, y) /\ links' = recv_links(l, ep, nonblock, NoTask)
    BY <1>0, <1>2, KernelAssumption DEF LinkReplyRecv, sys_reply_recv
  <2>2. current \in Tasks /\ Linked(state, ready, waitq, reply_to)
    BY <1>0 DEF IInv
  <2>3. Linked(st, q, waitq, rt) /\ (caller # NoTask => caller \in Tasks /\ state[caller] = "BlockedReply")
    BY ONLY <2>2, WakeCaller
  <2>4. Rep(l, q, waitq)
    BY <1>0, <2>2, RepWakeCaller
  <2>5. \A u \in Tasks : state[u] # "BlockedReply" => st[u] = state[u]
    BY <2>2, <2>3 DEF Linked, Typed, enqueue_state
  <2>6. rt[current] = NoTask
    BY <2>2, ZenonT(40) DEF Linked, Typed
  <2> HIDE DEF st, q, rt, x, y, l
  <2>7. Rep(recv_links(l, ep, nonblock, rt[current]), ready', waitq')
    BY <1>0, <1>2, <2>1, <2>3, <2>4, <2>5, LinkRecvInner, ZenonT(40)
  <2>8. QED
    BY <2>1, <2>6, <2>7
<1>3. QED
  BY <1>1, <1>2

-----------------------------------------------------------------------------
(* The theorem *)

\* A step with links is a step of Kernel.
LEMMA LinkNextIsNext ==
  ASSUME LinkNext
  PROVE  Next
BY DEF LinkNext, LinkSwitch, LinkKill, LinkObject, LinkPark, LinkResume, LinkSend, LinkCall,
       LinkRecv, LinkReplyRecv, Next, k0_syscall

\* Every trap keeps the links in step with the queues.
LEMMA LinkNextKeeps ==
  ASSUME LInv, [LinkNext]_lvars
  PROVE  LInv'
<1>1. [Next]_vars
  BY LinkNextIsNext DEF lvars
<1>2. IInv'
  BY <1>1, NextIInv DEF LInv
<1>3. Rep(links', ready', waitq')
  <2>1. CASE UNCHANGED lvars
    BY <2>1 DEF lvars, vars, LInv
  <2>2. CASE LinkObject \/ LinkPark
    BY <2>2 DEF LinkObject, LinkPark, park, vars, sys_object, sys_tcb_configure, return, LInv
  <2>3. CASE LinkNext /\ ~(LinkObject \/ LinkPark)
    BY <2>3, LinkSwitchKeeps, LinkKillKeeps, LinkResumeKeeps, LinkSendKeeps, LinkCallKeeps,
       LinkRecvKeeps, LinkReplyRecvKeeps DEF LinkNext
  <2>4. QED
    BY <2>1, <2>2, <2>3
<1>4. QED
  BY <1>2, <1>3 DEF LInv

\* The link fields spell the ready queue and every endpoint queue, in order,
\* in every reachable state: the shared Tcb.next is never corrupted.
THEOREM LinksRepresent == LinkSpec => []Represents
<1>1. LinkInit => LInv
  <2> SUFFICES ASSUME LinkInit PROVE LInv
    OBVIOUS
  <2>1. IInv
    BY InitIInv DEF LinkInit
  <2>2. LinkType(links)
    BY DEF LinkInit, LinkType, Opt
  <2>3. SpellsAll(links, SeqOf(ready, waitq))
    BY DEF LinkInit, Init, SpellsAll, Spells, SeqOf, Queues
  <2>4. QED
    BY <2>1, <2>2, <2>3 DEF LInv, Rep
<1>2. LInv => Represents
  <2>1. READY \in Queues /\ \A e \in Endpoints : e \in Queues /\ e # READY
    BY ReadyAssumption DEF Queues
  <2>2. QED
    BY <2>1 DEF LInv, Rep, SpellsAll, SeqOf, Represents
<1>3. QED
  BY <1>1, <1>2, LinkNextKeeps, PTL DEF LinkSpec

-----------------------------------------------------------------------------
(* Traps implements Kernel, and its safety properties hold. The invariant   *)
(* says in each phase of a trap where the registers of every task are.      *)

Handling == Sync \cup Dispatching \cup {"preempt"}

\* What the core executes, an interrupt of EL1 apart.
At == IF resume = "user" THEN phase ELSE resume

\* Nothing has run at EL0 yet.
NotYetRun == current = Root /\ ready = <<>> /\ own = [t \in Tasks |-> 0]

TTypes ==
  /\ phase \in Phases
  /\ resume \in {"user", "main"} \cup Restoring
  /\ masked \in BOOLEAN
  /\ ctx \in [Tasks -> File]
  /\ own \in [Tasks -> File]
  /\ regs \in File

\* Where the registers of the tasks are.
Placed ==
  /\ At \in Booting \cup {"main"} => NotYetRun
  /\ At \in Booting \cup {"main"} \cup Restoring => \A t \in Tasks : ctx[t] = own[t]
  /\ At = "eret" => elr \in {ctx[current], KernelPc}
  /\ At = "user" => regs = own[current]
  /\ At \in {"user"} \cup Handling => \A t \in Tasks \ {current} : ctx[t] = own[t]
  /\ At \in Handling => own[current] = IF At = "wfx" THEN advance(ctx[current]) ELSE ctx[current]

\* Interrupts are masked from a trap to its eret; only on the way to the first
\* task can one come in between.
Shielded ==
  /\ phase \in Handling => masked
  /\ resume # "user" => phase \in Dispatching /\ NotYetRun
  /\ phase \in Restoring /\ ~masked => NotYetRun
  /\ At = "eret" /\ elr = KernelPc => NotYetRun
  /\ phase = "astray" => NotYetRun

\* A tick of EL0 that has re-armed the timer and has yet to preempt.
Owed == IF phase \in {"eoi", "preempt"} /\ resume = "user" THEN 1 ELSE 0

\* Only the dispatcher has an interrupt active, and nothing re-arms the timer
\* before the tick; each expiration is pending or owed, until it is answered.
Timed ==
  /\ active => phase \in {"tick", "eoi"} /\ platform = "virt"
  /\ phase \in Booting => timer = "off"
  /\ phase \in {"main", "user"} \cup Restoring \cup Handling => timer \in {"armed", "fired"}
  /\ phase \in {"timer", "tick"} => timer = "fired"
  /\ due = Pending + Owed

TInv ==
  /\ IInv
  /\ TTypes
  /\ phase \in Booting \cup {"main", "user"} \cup Restoring \cup Handling => parked = "no"
  /\ At \in {"user"} \cup Restoring \cup Handling => cur_ctx = current
  /\ Placed /\ Shielded /\ Timed

-----------------------------------------------------------------------------

\* The phases are different from each other.
LEMMA PhasesApart ==
  /\ Handling \cap (Booting \cup {"main", "user", "halted", "astray"} \cup Restoring) = {}
  /\ Booting \cap ({"main", "user", "halted", "astray"} \cup Restoring) = {}
  /\ Restoring \cap {"main", "user", "halted", "astray"} = {}
  /\ Sync \cap Dispatching = {}
  /\ "preempt" \notin Dispatching \cup Sync
  /\ Interrupts \cap {"tick", "eoi"} = {}
  /\ {"user", "main", "halted", "astray"} \cup Handling \cup Restoring \cup Booting \subseteq Phases
BY TrapsAssumption DEF Handling, Booting, Restoring, Sync, Dispatching, Interrupts, Phases

\* The phases behind the boot.
LEMMA BootBehind ==
  \A p \in {"main", "user", "halted", "astray", "tick", "eoi", "preempt"} \cup Restoring : p \notin Booting
BY DEF Booting, Restoring

\* Every step of Traps is a trap of Kernel, or Kernel does not move.
LEMMA TrapIsKernelStep ==
  ASSUME [TNext]_allvars
  PROVE  [Next]_vars
<1>1. CASE UNCHANGED allvars
  BY <1>1 DEF allvars
<1>2. CASE gicv3_init \/ init \/ handoff \/ user_restore \/ eret \/ el0_wfx \/ timer_fires
           \/ exception_fatal \/ user_step \/ stopped
  BY <1>2 DEF gicv3_init, poll, init, handoff, user_restore, eret, el0_wfx, timer_fires,
              exception_fatal, user_step, stopped, allvars
<1>3. CASE \E i \in Interrupts : irq_current(i)
  BY <1>3 DEF irq_current
<1>4. CASE (\E cause \in Sync : lower_common(cause)) \/ lower_irq
  BY <1>4 DEF lower_common, lower_irq
<1>5. CASE el0_sync
  BY <1>5 DEF el0_sync, Next
<1>6. CASE irq_lower
  BY <1>6 DEF irq_lower, Next
<1>7. CASE Dispatch
  BY <1>7, Zenon DEF Dispatch, ack, timer_tick, eoi
<1>8. QED
  BY <1>1, <1>2, <1>3, <1>4, <1>5, <1>6, <1>7 DEF TNext, KernelSteps, Handlers

\* Advancing the program counter gives a register file.
LEMMA FilesAdvance ==
  ASSUME NEW f \in File
  PROVE  advance(f) \in File
BY TrapsAssumption DEF File, advance

\* The invariant holds when the kernel starts.
LEMMA InitTInv ==
  ASSUME TInit
  PROVE  TInv
<1>1. IInv /\ current = Root /\ ready = <<>> /\ parked = "no"
  BY InitIInv DEF TInit, Init
<1>2. phase \in Booting /\ resume = "user"
  BY DEF TInit, Booting
<1>3. 0 \in File
  BY TrapsAssumption DEF File
<1>4. TTypes /\ NotYetRun /\ \A t \in Tasks : ctx[t] = own[t]
  BY <1>1, <1>2, <1>3, PhasesApart, ZenonT(40) DEF TInit, TTypes, NotYetRun
<1>5. At = phase /\ phase \notin {"user", "eret", "astray", "main"} \cup Restoring \cup Handling
  BY <1>2, PhasesApart DEF At, Booting
<1>6. Timed
  BY <1>2, <1>5, PhasesApart DEF TInit, Timed, Pending, Owed, Booting
<1>7. QED
  BY <1>1, <1>2, <1>4, <1>5, <1>6 DEF TInv, Placed, Shielded

\* Steps of the boot, before the hand-off.
LEMMA BootKeeps ==
  ASSUME TInv, IInv', gicv3_init \/ init
  PROVE  TInv'
<1>1. phase \in Booting /\ phase' \in Booting \cup {"main", "halted"}
      /\ UNCHANGED <<vars, active, resume, due, cur_ctx, ctx, elr, regs, own>>
      /\ masked' \in BOOLEAN /\ (phase' = "main" => timer' = "armed") /\ timer' \in {timer, "armed"}
  BY ZenonT(40) DEF gicv3_init, poll, init, Booting, TInv, TTypes, irqvars
<1>2. resume = "user" /\ resume' = "user" /\ At = phase /\ At' = phase'
  BY <1>1, PhasesApart DEF TInv, Shielded, At, Handling
<1>3. TTypes'
  BY <1>1, PhasesApart DEF TInv, TTypes
<1>4. NotYetRun' /\ \A t \in Tasks : ctx'[t] = own'[t]
  BY <1>1, <1>2 DEF TInv, Placed, NotYetRun, vars
<1>5. parked' = "no"
  BY <1>1 DEF TInv, vars
<1>6. phase' \notin Restoring \cup Handling \cup {"user", "astray", "eret"}
  BY <1>1, PhasesApart DEF Booting, Restoring
<1>7. Timed'
  <2>1. ~active' /\ phase \notin {"eoi", "preempt"} /\ phase' \notin {"eoi", "preempt", "timer", "tick"}
    BY <1>1, <1>6 DEF TInv, Timed, Booting, Handling, Dispatching, Interrupts
  <2>2. timer = "off" /\ due' = 0
    BY <1>1, <2>1 DEF TInv, Timed, Pending, Owed
  <2>3. phase' \in Booting => timer' = "off"
    BY <2>2 DEF gicv3_init, poll, init, irqvars, Booting
  <2>4. QED
    BY <1>1, <1>6, <2>1, <2>2, <2>3 DEF Timed, Pending, Owed
<1>8. QED
  BY <1>2, <1>3, <1>4, <1>5, <1>6, <1>7 DEF TInv, Placed, Shielded

\* The timer expires.
LEMMA FiresKeeps ==
  ASSUME TInv, IInv', timer_fires
  PROVE  TInv'
<1>1. /\ UNCHANGED <<vars, platform, phase, masked, active, resume, cur_ctx, ctx, elr, regs, own>>
      /\ timer = "armed" /\ timer' = "fired" /\ due' = due + 1
  BY DEF timer_fires
<1>2. Timed'
  BY <1>1 DEF TInv, Timed, Pending, Owed
<1>3. QED
  BY <1>1, <1>2 DEF TInv, TTypes, Placed, Shielded, NotYetRun, At, vars

\* An exception that ends the kernel.
LEMMA FatalKeeps ==
  ASSUME TInv, IInv', exception_fatal
  PROVE  TInv'
<1>1. /\ UNCHANGED <<vars, irqvars, cur_ctx, ctx, regs, own>> /\ ~masked /\ masked' /\ phase' = "halted"
  BY DEF exception_fatal, TInv, TTypes
<1>2. phase \notin Handling /\ resume = "user" /\ resume' = "user" /\ At' = "halted"
  BY <1>1, PhasesApart DEF TInv, Shielded, Handling, At, irqvars
<1>3. Timed'
  BY <1>1, <1>2, PhasesApart DEF TInv, Timed, Pending, Owed, irqvars, Handling, Dispatching
<1>4. QED
  BY <1>1, <1>2, <1>3, PhasesApart DEF TInv, TTypes, Placed, Shielded, Booting, Restoring

\* An interrupt is taken in the kernel: the code it leaves stays where it is.
LEMMA CurrentKeeps ==
  ASSUME TInv, IInv', NEW i \in Interrupts, irq_current(i)
  PROVE  TInv'
<1>1. /\ UNCHANGED <<vars, platform, timer, active, due, cur_ctx, ctx, regs, own>>
      /\ phase \in {"main"} \cup Restoring /\ ~masked /\ Signalled(i)
      /\ phase' = i /\ resume' = phase /\ masked' /\ elr' = KernelPc /\ masked' \in BOOLEAN
  BY DEF irq_current, InKernel
<1>2. phase \notin Handling /\ resume = "user" /\ At = phase /\ At' = phase /\ i \in Dispatching
  BY <1>1, PhasesApart DEF TInv, Shielded, Handling, At, Dispatching, Restoring
<1>3. NotYetRun /\ NotYetRun'
  BY <1>1, <1>2 DEF TInv, Placed, Shielded, NotYetRun, vars
<1>4. /\ TTypes' /\ i \notin {"user", "eret", "astray", "main"} \cup Restoring \cup Booting
      /\ i \notin {"tick", "eoi", "preempt"}
  BY <1>1, <1>2, PhasesApart DEF TInv, TTypes, Handling, Restoring, Dispatching
<1>5. Timed'
  BY <1>1, <1>2, <1>4 DEF TInv, Timed, Pending, Owed, Signalled, Handling, Dispatching
<1>6. parked' = "no" /\ current' = current
  BY <1>1, Zenon DEF TInv, vars
<1>7. Placed'
  BY <1>1, <1>2, <1>3, <1>4, <1>6, PhasesApart DEF TInv, Placed, Restoring
<1>8. Shielded'
  BY <1>1, <1>2, <1>3, <1>4 DEF Shielded
<1>9. QED
  BY <1>1, <1>2, <1>4, <1>5, <1>6, <1>7, <1>8 DEF TInv

\* The task computes.
LEMMA UserKeeps ==
  ASSUME TInv, IInv', user_step
  PROVE  TInv'
<1>1. PICK f \in File : /\ regs' = f /\ own' = [own EXCEPT ![current] = f] /\ phase = "user" /\ phase' = "user"
                        /\ UNCHANGED <<vars, platform, masked, irqvars, cur_ctx, ctx>>
  BY ZenonT(40) DEF user_step
<1>2. current \in Tasks /\ current' = current /\ parked' = parked
  BY <1>1 DEF TInv, IInv, vars
<1>3. resume = "user" /\ resume' = "user" /\ At' = "user" /\ At = "user"
  BY <1>1, PhasesApart DEF TInv, Shielded, At, Handling, irqvars
<1>4. Timed'
  BY <1>1, <1>3 DEF TInv, Timed, Pending, Owed, irqvars
<1>5. QED
  BY <1>1, <1>2, <1>3, <1>4, PhasesApart DEF TInv, TTypes, Placed, Shielded, Restoring, Booting

\* The exception: the registers go to the context of the current task.
LEMMA EntryKeeps ==
  ASSUME TInv, IInv', NEW cause \in Sync \cup Interrupts, lower_common(cause),
         cause = "timer" => Signalled("timer")
  PROVE  TInv'
<1> DEFINE left == IF cause = "svc" THEN advance(regs) ELSE regs
<1>1. /\ phase = "user" /\ phase' = cause /\ masked' /\ masked' \in BOOLEAN
      /\ current' = current /\ parked' = parked /\ UNCHANGED <<platform, irqvars, cur_ctx, regs>>
  BY DEF lower_common, vars
<1>2. /\ resume = "user" /\ resume' = "user" /\ At = "user" /\ At' = cause
      /\ cause \in Handling /\ cause \notin {"tick", "eoi", "preempt"}
  BY <1>1, PhasesApart DEF TInv, Shielded, At, Handling, irqvars, Dispatching, Sync
<1>3. /\ cur_ctx = current /\ ctx' = [ctx EXCEPT ![current] = left]
      /\ own' = [own EXCEPT ![current] = IF cause = "wfx" THEN advance(left) ELSE left]
  BY <1>2 DEF lower_common, TInv
<1>4. left \in File /\ advance(left) \in File /\ current \in Tasks
  BY FilesAdvance DEF TInv, TTypes, IInv
<1>5. TTypes'
  BY <1>1, <1>2, <1>3, <1>4, PhasesApart DEF TInv, TTypes
<1>6. Placed'
  <2>1. ctx'[current] = left /\ own'[current] = IF cause = "wfx" THEN advance(left) ELSE left
    BY <1>3, <1>4 DEF TInv, TTypes
  <2>2. \A t \in Tasks \ {current} : ctx'[t] = own'[t]
    BY <1>2, <1>3, <1>4 DEF TInv, TTypes, Placed
  <2> HIDE DEF left
  <2>3. QED
    BY <1>1, <1>2, <2>1, <2>2, PhasesApart DEF Placed, Restoring
<1>7. Shielded'
  BY <1>1, <1>2, PhasesApart DEF Shielded, Restoring
<1>8. Timed'
  BY <1>1, <1>2, PhasesApart DEF TInv, Timed, Pending, Owed, Signalled, irqvars
<1>9. QED
  BY <1>1, <1>2, <1>3, <1>5, <1>6, <1>7, <1>8, PhasesApart DEF TInv

\* What holds of a handler that comes back, or goes on in the same trap: the
\* task that runs next restores its own context.
LEMMA HandlerKeeps ==
  ASSUME TInv, IInv', phase \in Handling, resume = "user", resume' = "user",
         \/ phase' = "halted"
         \/ phase' \in {"restore", "tick", "eoi", "preempt"} /\ parked' = "no" /\ cur_ctx' = current',
         UNCHANGED <<masked, regs, own>>, ctx' \in [Tasks -> File],
         \A t \in Tasks : ctx'[t] = own'[t],
         Timed'
  PROVE  TInv'
<1>1. masked /\ masked'
  BY DEF TInv, Shielded
<1>2. At' = phase' /\ current' \in Tasks
  BY DEF At, IInv
<1>3. phase' \in Phases /\ phase' \notin Booting \cup {"main", "user", "astray", "wfx", "eret"}
  BY PhasesApart DEF Restoring, Booting, Handling, Dispatching
<1>4. TTypes'
  BY <1>3, ZenonT(40) DEF TInv, TTypes
<1>5. Placed'
  BY <1>2, <1>3, ZenonT(40) DEF Placed
<1>6. Shielded'
  BY <1>1, <1>2, <1>3 DEF Shielded
<1>7. QED
  BY <1>2, <1>3, <1>4, <1>5, <1>6, PhasesApart DEF TInv, Booting

\* What a handler of EL0 starts from.
LEMMA HandlerStarts ==
  ASSUME TInv, phase \in Handling, resume = "user"
  PROVE  /\ cur_ctx = current /\ current \in Tasks /\ parked = "no" /\ ctx \in [Tasks -> File]
         /\ \A t \in Tasks \ {current} : ctx[t] = own[t]
         /\ own[current] = IF phase = "wfx" THEN advance(ctx[current]) ELSE ctx[current]
BY DEF TInv, Placed, TTypes, IInv, At

\* The timer and the controller, when a handler that is no dispatcher returns.
LEMMA LeavesTimed ==
  ASSUME TInv, phase \in Sync \cup {"preempt"}, resume = "user", phase' \in {"restore", "halted"},
         UNCHANGED <<platform, timer, active, resume>>,
         due' = IF phase = "preempt" THEN due - 1 ELSE due
  PROVE  Timed'
<1>1. /\ phase \in Handling /\ phase \notin {"tick", "eoi"}
      /\ phase' \notin {"tick", "eoi", "preempt", "timer"} /\ phase' \notin Booting
  BY PhasesApart, BootBehind DEF Handling, Dispatching, Restoring
<1>2. ~active' /\ timer' \in {"armed", "fired"}
  BY <1>1 DEF TInv, Timed
<1>3. due' = Pending' + Owed'
  BY <1>1, PhasesApart DEF TInv, Timed, Pending, Owed, Sync
<1>4. QED
  BY <1>1, <1>2, <1>3 DEF Timed

\* The handlers of traps at EL0, and the preemption.
LEMMA TrapsKeep ==
  ASSUME TInv, IInv', el0_sync \/ el0_wfx \/ irq_lower
  PROVE  TInv'
<1>1. /\ phase \in Sync \cup {"preempt"} /\ phase \in Handling
      /\ UNCHANGED <<platform, masked, timer, active, resume, regs, own>>
  BY DEF el0_sync, el0_wfx, irq_lower, Handling, Sync, irqvars
<1>2. resume = "user" /\ resume' = "user"
  BY <1>1, PhasesApart DEF TInv, Shielded
<1>3. CASE el0_sync
  <2>1. phase \in {"svc", "fault"} /\ UNCHANGED <<due, ctx>> /\ cur_ctx' = current'
        /\ (phase' = "halted" \/ (phase' = "restore" /\ parked' = "no"))
    BY <1>3 DEF el0_sync, set_current, leave_handler, irqvars
  <2>2. Timed'
    BY <1>1, <1>2, <2>1, LeavesTimed
  <2>3. ctx' \in [Tasks -> File] /\ \A t \in Tasks : ctx'[t] = own'[t]
    BY <1>1, <1>2, <2>1, HandlerStarts
  <2>4. QED
    BY <1>1, <1>2, <2>1, <2>2, <2>3, HandlerKeeps
<1>4. CASE el0_wfx
  <2>1. /\ phase = "wfx" /\ phase' = "restore" /\ ctx' = [ctx EXCEPT ![cur_ctx] = advance(ctx[cur_ctx])]
        /\ UNCHANGED <<due, cur_ctx>> /\ current' = current /\ parked' = parked
    BY <1>4 DEF el0_wfx, vars, irqvars
  <2>2. advance(ctx[current]) \in File
    BY <1>1, <1>2, HandlerStarts, FilesAdvance
  <2>3. ctx' \in [Tasks -> File] /\ \A t \in Tasks : ctx'[t] = own'[t]
    BY <1>1, <1>2, <2>1, <2>2, HandlerStarts
  <2>4. cur_ctx' = current' /\ parked' = "no"
    BY <1>1, <1>2, <2>1, HandlerStarts
  <2>5. Timed'
    BY <1>1, <1>2, <2>1, LeavesTimed
  <2>6. QED
    BY <1>1, <1>2, <2>1, <2>3, <2>4, <2>5, HandlerKeeps
<1>5. CASE irq_lower
  <2>1. /\ phase = "preempt" /\ phase' = "restore" /\ UNCHANGED ctx /\ due' = due - 1
        /\ cur_ctx' = current' /\ parked' = parked
    BY <1>5 DEF irq_lower, set_current, k0_preempt
  <2>2. ctx' \in [Tasks -> File] /\ \A t \in Tasks : ctx'[t] = own'[t]
    BY <1>1, <1>2, <2>1, HandlerStarts
  <2>3. parked' = "no"
    BY <1>1, <1>2, <2>1, HandlerStarts
  <2>4. Timed'
    BY <1>1, <1>2, <2>1, LeavesTimed
  <2>5. QED
    BY <1>1, <1>2, <2>1, <2>2, <2>3, <2>4, HandlerKeeps
<1>6. QED
  BY <1>3, <1>4, <1>5

-----------------------------------------------------------------------------

\* Where the dispatcher goes: on, back to the code it interrupted, or nowhere.
LEMMA DispatchGoes ==
  ASSUME TInv, Dispatch
  PROVE  /\ phase \in Dispatching
         /\ UNCHANGED <<vars, platform, cur_ctx, ctx, elr, regs, own>>
         /\ \/ phase' \in {"tick", "eoi"} /\ UNCHANGED <<masked, resume>>
            \/ phase' = "halted" /\ resume' = "user" /\ UNCHANGED masked
            \/ resume = "user" /\ phase' \in {"preempt", "restore"} /\ UNCHANGED <<masked, resume>>
            \/ resume # "user" /\ phase' = resume /\ masked' = FALSE /\ resume' = "user"
<1>1. CASE \E i \in Interrupts : ack(i)
  <2>1. PICK i \in Interrupts : ack(i)
    BY <1>1
  <2>2. QED
    BY <2>1 DEF ack, dispatched, Dispatching
<1>2. CASE timer_tick \/ eoi
  BY <1>2, Zenon DEF timer_tick, eoi, dispatched, Dispatching
<1>3. QED
  BY <1>1, <1>2, Zenon DEF Dispatch

\* The timer and the controller in the steps of the dispatcher: what is
\* acknowledged is completed before the dispatcher returns.
LEMMA DispatchTimed ==
  ASSUME TInv, Dispatch
  PROVE  Timed'
<1>1. /\ phase \in Dispatching /\ phase \in Handling /\ UNCHANGED platform
      /\ resume \in {"user", "main"} \cup Restoring /\ timer \in {"armed", "fired"}
  BY DispatchGoes, Zenon DEF TInv, TTypes, Handling, Timed
<1>2. /\ {"main", "user", "halted", "restore", "preempt"} \cap {"tick", "eoi", "timer"} = {}
      /\ Restoring \cap {"tick", "eoi", "timer", "preempt"} = {}
      /\ {"halted", "restore"} \cap {"preempt"} = {}
  BY DEF Restoring
<1>3. CASE \E i \in Interrupts : ack(i)
  <2>1. PICK i \in Interrupts : ack(i)
    BY <1>3
  <2>2. phase = i /\ ~active /\ phase \notin {"tick", "eoi", "preempt"} /\ UNCHANGED <<timer, due>>
    BY <2>1, PhasesApart DEF ack, TInv, Timed, Dispatching
  <2>3. CASE acknowledged(i) = "timer"
    <3>1. phase' = "tick" /\ (active' <=> platform = "virt") /\ UNCHANGED resume
      BY <2>1, <2>2, <2>3, TrapsAssumption, Zenon DEF ack
    <3>2. timer = "fired"
      BY <2>2, <2>3 DEF acknowledged, Signalled, TInv, Timed
    <3>3. QED
      BY <1>1, <2>2, <3>1, <3>2, BootBehind DEF TInv, Timed, Pending, Owed
  <2>4. CASE acknowledged(i) # "timer"
    <3>1. ~active' /\ phase' \in {"halted", "restore", resume} /\ phase' # "user"
          /\ (phase' = resume => resume # "user")
      BY <2>1, <2>2, <2>4, Zenon DEF ack, dispatched
    <3>2. phase' \notin {"tick", "eoi", "preempt", "timer"} /\ phase' \notin Booting
      BY <1>1, <1>2, <3>1, BootBehind DEF Restoring
    <3>3. QED
      BY <1>1, <2>2, <3>1, <3>2 DEF TInv, Timed, Pending, Owed
  <2>5. QED
    BY <2>3, <2>4
<1>4. CASE timer_tick
  <2>1. /\ phase = "tick" /\ timer = "fired" /\ timer' = "armed" /\ UNCHANGED active
        /\ due' = IF resume = "user" THEN due ELSE due - 1
    BY <1>4 DEF timer_tick, TInv, Timed
  <2>2. CASE platform = "virt"
    <3>1. phase' = "eoi" /\ UNCHANGED resume
      BY <1>4, <2>2 DEF timer_tick
    <3>2. QED
      BY <1>1, <2>1, <2>2, <3>1, BootBehind DEF TInv, Timed, Pending, Owed
  <2>3. CASE platform # "virt"
    <3>1. ~active /\ active' = active /\ dispatched(TRUE)
      BY <1>4, <2>1, <2>3, Zenon DEF timer_tick, TInv, Timed
    <3>2. \/ resume = "user" /\ phase' = "preempt" /\ resume' = "user"
          \/ resume # "user" /\ phase' = resume /\ resume' = "user"
      BY <3>1 DEF dispatched
    <3>3. phase' \notin {"tick", "eoi", "timer"} /\ phase' \notin Booting /\ (resume # "user" => phase' # "preempt")
      BY <1>1, <1>2, <3>2, BootBehind
    <3>4. QED
      BY <1>1, <2>1, <3>1, <3>2, <3>3 DEF TInv, Timed, Pending, Owed
  <2>4. QED
    BY <2>2, <2>3
<1>5. CASE eoi
  <2>1. phase = "eoi" /\ ~active' /\ UNCHANGED <<timer, due>> /\ dispatched(TRUE)
    BY <1>5, Zenon DEF eoi
  <2>2. \/ resume = "user" /\ phase' = "preempt" /\ resume' = "user"
        \/ resume # "user" /\ phase' = resume /\ resume' = "user"
    BY <2>1 DEF dispatched
  <2>3. phase' \notin {"tick", "eoi", "timer"} /\ phase' \notin Booting /\ (resume # "user" => phase' # "preempt")
    BY <1>1, <1>2, <2>2, BootBehind
  <2>4. QED
    BY <1>1, <2>1, <2>2, <2>3 DEF TInv, Timed, Pending, Owed
<1>6. QED
  BY <1>3, <1>4, <1>5 DEF Dispatch

\* The dispatcher at EL0 and at EL1.
LEMMA DispatchKeeps ==
  ASSUME TInv, IInv', Dispatch
  PROVE  TInv'
<1>1. /\ phase \in Dispatching /\ phase \in Handling /\ phase # "wfx"
      /\ UNCHANGED <<vars, cur_ctx, ctx, elr, regs, own>> /\ parked' = parked /\ current' = current
      /\ parked = "no" /\ masked /\ masked' \in BOOLEAN
  BY DispatchGoes, PhasesApart, Zenon DEF TInv, TTypes, Shielded, Handling, vars, Sync
<1>2. Timed'
  BY DispatchTimed
<1>3. CASE resume = "user"
  <2>1. /\ \/ phase' = "halted"
           \/ phase' \in {"restore", "tick", "eoi", "preempt"}
        /\ resume' = "user" /\ UNCHANGED masked
    BY <1>3, DispatchGoes
  <2>2. ctx' \in [Tasks -> File] /\ (\A t \in Tasks : ctx'[t] = own'[t]) /\ cur_ctx' = current'
    BY <1>1, <1>3, HandlerStarts
  <2>3. QED
    BY <1>1, <1>2, <1>3, <2>1, <2>2, HandlerKeeps
<1>4. CASE resume # "user"
  <2>1. /\ \/ phase' \in {"tick", "eoi"} /\ UNCHANGED <<masked, resume>>
           \/ phase' = "halted" /\ resume' = "user"
           \/ phase' = resume /\ resume' = "user"
        /\ NotYetRun' /\ resume \in {"main"} \cup Restoring /\ At = resume
    BY <1>1, <1>4, DispatchGoes, Zenon DEF TInv, TTypes, Shielded, NotYetRun, At, vars
  <2>2. At' \in {At, "halted"} /\ phase' \in {"tick", "eoi", "halted", At} /\ At \in {"main"} \cup Restoring
    BY <1>4, <2>1 DEF At
  <2>3. TTypes'
    BY <1>1, <2>1, PhasesApart, Zenon DEF TInv, TTypes, Handling, Dispatching
  <2>4. Placed'
    BY <1>1, <2>1, <2>2, PhasesApart, Zenon DEF TInv, Placed, Restoring, Booting
  <2>5. Shielded'
    <3>1. phase' \in Handling => masked'
      BY <1>1, <2>1, PhasesApart, Zenon
    <3>2. resume' # "user" => phase' \in Dispatching
      BY <2>1 DEF Dispatching
    <3>3. QED
      BY <2>1, <3>1, <3>2 DEF Shielded
  <2>6. cur_ctx' = current' \/ At' \in {"main", "halted"}
    BY <1>1, <2>2 DEF TInv
  <2>7. QED
    BY <1>1, <1>2, <2>3, <2>4, <2>5, <2>6, PhasesApart DEF TInv
<1>5. QED
  BY <1>3, <1>4

-----------------------------------------------------------------------------

\* Where the phases on the way to EL0 belong.
LEMMA PhasesPlain ==
  /\ \A p \in {"restore", "eret"} : p \in Restoring /\ p \in Phases /\ p \notin Handling /\ p \notin Booting
  /\ \A p \in {"user", "astray"} : p \in Phases /\ p \notin Handling /\ p \notin Booting /\ p \notin Restoring
BY PhasesApart DEF Restoring

\* On the way to EL0 the timer and the controller rest.
LEMMA RestsTimed ==
  ASSUME TInv, phase \in {"main", "restore", "eret"}, phase' \in {"restore", "eret", "user", "astray"},
         UNCHANGED <<platform, irqvars>>
  PROVE  Timed' /\ resume = "user" /\ resume' = "user" /\ At = phase /\ At' = phase'
<1>1. phase \notin Handling /\ phase \in {"main"} \cup Restoring
  BY PhasesApart DEF Restoring
<1>2. resume = "user" /\ resume' = "user" /\ At = phase /\ At' = phase'
  BY <1>1 DEF TInv, Shielded, Handling, At, irqvars
<1>3. ~active' /\ timer' \in {"armed", "fired"} /\ due' = Pending' + Owed'
  BY <1>1 DEF TInv, Timed, Pending, Owed, irqvars
<1>4. phase' \notin {"timer", "tick"} /\ phase' \notin Booting
  BY BootBehind DEF Restoring
<1>5. QED
  BY <1>2, <1>3, <1>4 DEF Timed

\* The hand-off to the root task.
LEMMA HandoffKeeps ==
  ASSUME TInv, IInv', handoff
  PROVE  TInv'
<1>1. /\ current' = current /\ parked' = parked /\ ready' = ready /\ UNCHANGED <<platform, irqvars, ctx, own>>
      /\ phase = "main" /\ phase' = "restore" /\ cur_ctx' = Root /\ UNCHANGED <<masked, regs>>
  BY Zenon DEF handoff, vars
<1>2. Timed' /\ resume = "user" /\ resume' = "user" /\ At = phase /\ At' = phase'
  BY <1>1, RestsTimed
<1>3. NotYetRun /\ NotYetRun' /\ cur_ctx' = current' /\ parked' = "no" /\ \A t \in Tasks : ctx'[t] = own'[t]
  BY <1>1, <1>2, Zenon DEF TInv, Placed, NotYetRun
<1>4. TTypes'
  BY <1>1, <1>2, PhasesPlain, Zenon DEF TInv, TTypes
<1>5. Placed'
  BY <1>1, <1>2, <1>3, PhasesPlain, Zenon DEF Placed
<1>6. Shielded'
  BY <1>1, <1>2, <1>3, PhasesPlain, Zenon DEF Shielded
<1>7. QED
  BY <1>2, <1>3, <1>4, <1>5, <1>6, Zenon DEF TInv

\* ELR_EL1 is loaded from the context of the task that runs next.
LEMMA LoadKeeps ==
  ASSUME TInv, IInv', user_restore
  PROVE  TInv'
<1>1. /\ current' = current /\ parked' = parked /\ ready' = ready /\ UNCHANGED <<platform, irqvars, ctx, own>>
      /\ phase = "restore" /\ phase' = "eret" /\ elr' = ctx[cur_ctx] /\ UNCHANGED <<masked, regs, cur_ctx>>
  BY Zenon DEF user_restore, vars
<1>2. Timed' /\ resume = "user" /\ resume' = "user" /\ At = phase /\ At' = phase'
  BY <1>1, RestsTimed
<1>3. cur_ctx = current /\ parked = "no" /\ \A t \in Tasks : ctx[t] = own[t]
  BY <1>1, <1>2, PhasesPlain, Zenon DEF TInv, Placed
<1>4. elr' = ctx'[current'] /\ elr' # KernelPc
  <2>1. ctx[current] \in File
    BY Zenon DEF TInv, TTypes, IInv
  <2>2. QED
    BY <1>1, <1>3, <2>1, TrapsAssumption DEF File
<1>5. masked \/ NotYetRun'
  BY <1>1, PhasesPlain, Zenon DEF TInv, Shielded, NotYetRun
<1>6. TTypes'
  BY <1>1, <1>2, PhasesPlain, Zenon DEF TInv, TTypes
<1>7. Placed'
  BY <1>1, <1>2, <1>3, <1>4, PhasesPlain, Zenon DEF Placed
<1>8. Shielded'
  BY <1>1, <1>2, <1>4, <1>5, PhasesPlain, Zenon DEF Shielded
<1>9. QED
  BY <1>1, <1>2, <1>3, <1>6, <1>7, <1>8, Zenon DEF TInv

\* The eret goes to the task, or astray if an interrupt came in between.
LEMMA EretKeeps ==
  ASSUME TInv, IInv', eret
  PROVE  TInv'
<1>1. /\ current' = current /\ parked' = parked /\ ready' = ready
      /\ UNCHANGED <<platform, irqvars, ctx, own, elr, cur_ctx>>
      /\ phase = "eret"
      /\ elr = KernelPc => phase' = "astray" /\ UNCHANGED <<masked, regs>>
      /\ elr # KernelPc => phase' = "user" /\ regs' = elr /\ masked' = FALSE
  BY Zenon DEF eret, vars
<1>2. Timed' /\ resume = "user" /\ resume' = "user" /\ At = phase /\ At' = phase'
  BY <1>1, RestsTimed
<1>3. /\ cur_ctx = current /\ parked = "no" /\ \A t \in Tasks : ctx[t] = own[t]
      /\ elr \in {ctx[current], KernelPc} /\ current \in Tasks
  BY <1>1, <1>2, PhasesPlain, Zenon DEF TInv, Placed, IInv
<1>4. phase' = "astray" => NotYetRun'
  BY <1>1, <1>2, Zenon DEF TInv, Shielded, NotYetRun
<1>5. phase' \in {"user", "astray"} /\ (phase' = "user" => regs' = ctx'[current'])
  BY <1>1, <1>3, Zenon
<1>6. masked' \in BOOLEAN /\ regs' \in File
  BY <1>1, <1>3, Zenon DEF TInv, TTypes
<1>7. TTypes'
  BY <1>1, <1>2, <1>5, <1>6, PhasesPlain, Zenon DEF TInv, TTypes
<1>8. Placed'
  BY <1>1, <1>2, <1>3, <1>5, PhasesPlain, Zenon DEF Placed
<1>9. Shielded'
  BY <1>2, <1>4, <1>5, PhasesPlain, Zenon DEF Shielded
<1>10. QED
  BY <1>1, <1>2, <1>3, <1>7, <1>8, <1>9, Zenon DEF TInv

\* Every step keeps the invariant.
LEMMA NextTInv ==
  ASSUME TInv, [TNext]_allvars
  PROVE  TInv'
<1>1. IInv'
  BY TrapIsKernelStep, NextIInv, ZenonT(40) DEF TInv
<1>2. CASE UNCHANGED allvars
  <2>1. /\ current' = current /\ ready' = ready /\ parked' = parked
        /\ UNCHANGED <<platform, phase, masked, timer, active, resume, due, cur_ctx, ctx, elr, regs, own>>
    BY <1>2, Zenon DEF allvars, tvars, vars, irqvars
  <2>2. At' = At /\ (NotYetRun' <=> NotYetRun)
    BY <2>1, Zenon DEF At, NotYetRun
  <2>3. TTypes'
    BY <2>1, Zenon DEF TInv, TTypes
  <2>4. Placed'
    BY <2>1, <2>2, Zenon DEF TInv, Placed
  <2>5. Shielded'
    BY <2>1, <2>2, Zenon DEF TInv, Shielded
  <2>6. Timed'
    BY <2>1, Zenon DEF TInv, Timed, Pending, Owed
  <2>7. QED
    BY <1>1, <2>1, <2>2, <2>3, <2>4, <2>5, <2>6, Zenon DEF TInv
<1>3. CASE stopped
  BY <1>1, <1>2, <1>3 DEF stopped
<1>4. CASE \E cause \in Sync : lower_common(cause)
  <2>1. PICK cause \in Sync : lower_common(cause)
    BY <1>4
  <2>2. cause # "timer"
    BY <2>1 DEF Sync
  <2>3. QED
    BY <1>1, <2>1, <2>2, EntryKeeps
<1>5. CASE lower_irq
  <2>1. PICK i \in Interrupts : Signalled(i) /\ lower_common(i)
    BY <1>5 DEF lower_irq
  <2>2. QED
    BY <1>1, <2>1, EntryKeeps
<1>6. CASE Handlers
  BY <1>1, <1>6, TrapsKeep, DispatchKeeps DEF Handlers
<1>7. CASE \E i \in Interrupts : irq_current(i)
  BY <1>1, <1>7, CurrentKeeps
<1>8. QED
  BY <1>1, <1>2, <1>3, <1>4, <1>5, <1>6, <1>7, BootKeeps, FiresKeeps, FatalKeeps, UserKeeps,
     HandoffKeeps, LoadKeeps, EretKeeps DEF TNext, KernelSteps

\* The invariant holds in every reachable state.
LEMMA AlwaysTInv == TSpec => []TInv
<1>1. TInit => TInv
  BY InitTInv
<1>2. TInv /\ [TNext]_allvars => TInv'
  BY NextTInv
<1>3. QED
  BY <1>1, <1>2, PTL DEF TSpec

-----------------------------------------------------------------------------

\* Traps implements Kernel: from the vector to the eret every exception and
\* interrupt is at most one step of the kernel's handlers (vectors.S, usermode.rs).
THEOREM TrapsRefineKernel == TSpec => Spec
<1>1. TInit => Init
  BY DEF TInit
<1>2. [TNext]_allvars => [Next]_vars
  BY TrapIsKernelStep
<1>3. QED
  BY <1>1, <1>2, PTL DEF TSpec, Spec

\* No task loses or mixes up registers, however traps, ticks and switches
\* interleave (__lower_common, set_current, __user_restore).
THEOREM ContextsAlwaysKept == TSpec => []ContextsKept
<1>1. TInv => ContextsKept
  <2> SUFFICES ASSUME TInv, phase = "user"
               PROVE  /\ cur_ctx = current /\ state[current] = "Running"
                      /\ regs = own[current]
                      /\ \A t \in Tasks \ {current} : ctx[t] = own[t]
    BY DEF ContextsKept
  <2>1. At = "user" /\ IInv /\ parked = "no" /\ cur_ctx = current
    BY PhasesApart DEF TInv, Shielded, Handling, At
  <2>2. state[current] = "Running"
    BY <2>1, OnlyCurrent DEF Runs
  <2>3. QED
    BY <2>1, <2>2 DEF TInv, Placed
<1>2. QED
  BY <1>1, AlwaysTInv, PTL

\* Every acknowledged interrupt is completed, and every expiration of the timer
\* served by one tick, before a task or interrupted kernel code goes on
\* (dispatch_irq, dispatch_fiq, timer_tick, gicv3::ack, gicv3::eoi).
THEOREM InterruptsComplete == TSpec => []NothingLeftActive
<1>1. TInv => NothingLeftActive
  <2> SUFFICES ASSUME TInv, phase \in {"main", "user"} \cup Restoring
               PROVE  ~active /\ timer # "off" /\ due = Pending
    BY DEF NothingLeftActive
  <2>1. phase \notin {"tick", "eoi", "preempt"}
    BY DEF Restoring
  <2>2. QED
    BY <2>1 DEF TInv, Timed, Pending, Owed
<1>2. QED
  BY <1>1, AlwaysTInv, PTL

\* Once a task has run, every eret of __user_restore reaches a task.
THEOREM NeverRunsAstray == TSpec => []NeverAstray
<1>1. TInv => NeverAstray
  BY DEF TInv, Shielded, NotYetRun, NeverAstray
<1>2. QED
  BY <1>1, AlwaysTInv, PTL

\* Only a tick that interrupted EL0 preempts, and each only once (irq_lower,
\* fiq_lower, irq_current, dispatch_irq).
THEOREM TicksPreempt == TSpec => OnlyTicksPreempt
<1> DEFINE Allowed == phase \in {"svc", "fault"} \/ (due' = due - 1 /\ due' >= Pending)
<1>1. TInv /\ [TNext]_allvars => [current' # current => Allowed]_allvars
  <2> SUFFICES ASSUME TInv, TNext, current' # current
               PROVE  Allowed
    BY ZenonT(40)
  <2>1. el0_sync \/ irq_lower
    BY Zenon DEF TNext, KernelSteps, Handlers, Dispatch, gicv3_init, poll, init, handoff, user_restore, eret,
           timer_fires, irq_current, exception_fatal, user_step, lower_common, lower_irq, stopped, allvars, vars,
           el0_wfx, ack, timer_tick, eoi
  <2>2. CASE el0_sync
    BY <2>2 DEF el0_sync
  <2>3. CASE irq_lower
    <3>1. phase = "preempt" /\ due' = due - 1 /\ resume = "user"
      BY <2>3, PhasesApart DEF irq_lower, TInv, Shielded
    <3>2. QED
      BY <3>1 DEF TInv, Timed, Pending, Owed
  <2>4. QED
    BY <2>1, <2>2, <2>3
<1>2. QED
  BY <1>1, AlwaysTInv, PTL DEF TSpec, OnlyTicksPreempt

=============================================================================
