---------------------------- MODULE KernelProofs ----------------------------
(***************************************************************************)
(* Proofs about Kernel, for any set of tasks, endpoints and messages.      *)
(*                                                                         *)
(* A handler is a chain of list operations, and between two of them a task *)
(* may be in no list. Linked says that states, queues and reply rights fit *)
(* together, with such a task counted as "Running"; every primitive below  *)
(* preserves it, and every handler is a composition of primitives.         *)
(***************************************************************************)
EXTENDS Kernel, TLAPS

Live == TaskState \ {"Inactive", "Stopped", "Dead"}

\* The conjuncts of OneListPerTask and OneDirection, for given values.
ListsFit(st, q, wq) ==
  /\ NoRepeats(q)
  /\ \A t \in Tasks : In(t, q) <=> st[t] = "Ready"
  /\ \A e \in Endpoints : NoRepeats(wq[e])
  /\ \A t \in Tasks : st[t] \in Queued => \E e \in Endpoints : In(t, wq[e])
  /\ \A e \in Endpoints : \A t \in Tasks : In(t, wq[e]) => st[t] \in Queued
  /\ \A e, f \in Endpoints : \A t \in Tasks : In(t, wq[e]) /\ In(t, wq[f]) => e = f
  /\ \A e \in Endpoints : \A t, u \in Tasks :
       In(t, wq[e]) /\ In(u, wq[e]) /\ st[t] = "BlockedRecv" => st[u] = "BlockedRecv"

\* The conjuncts of NoOrphanedCaller and NoReplyCycle, for given values.
RepliesFit(st, rt) ==
  /\ \A h \in Tasks : rt[h] # NoTask => st[rt[h]] = "BlockedReply" /\ st[h] \in Live
  /\ \A c \in Tasks : st[c] = "BlockedReply" => \E h \in Tasks : rt[h] = c
  /\ \A g, h \in Tasks : rt[g] = rt[h] /\ rt[g] # NoTask => g = h
  /\ \A S \in SUBSET Tasks : S # {} => \E c \in S : \A h \in S : rt[h] # c

Typed(st, q, wq, rt) ==
  /\ st \in [Tasks -> TaskState]
  /\ q \in Seq(Tasks)
  /\ wq \in [Endpoints -> Seq(Tasks)]
  /\ rt \in [Tasks -> Tasks \cup {NoTask}]

Linked(st, q, wq, rt) == Typed(st, q, wq, rt) /\ ListsFit(st, q, wq) /\ RepliesFit(st, rt)

-----------------------------------------------------------------------------
(* Sequences as queues *)

\* Appending a task adds it to the members of a queue.
LEMMA InAppend ==
  ASSUME NEW q \in Seq(Tasks), NEW t \in Tasks, NEW u \in Tasks
  PROVE  /\ Append(q, t) \in Seq(Tasks)
         /\ In(u, Append(q, t)) <=> In(u, q) \/ u = t
BY DEF In

\* Appending a task that is not a member keeps a queue free of repetitions.
LEMMA NoRepeatsAppend ==
  ASSUME NEW q \in Seq(Tasks), NEW t \in Tasks, NoRepeats(q), ~In(t, q)
  PROVE  NoRepeats(Append(q, t))
BY DEF In, NoRepeats

\* Popping the head of a queue without repetitions removes just that task.
LEMMA InTail ==
  ASSUME NEW q \in Seq(Tasks), q # <<>>, NoRepeats(q), NEW u \in Tasks
  PROVE  /\ Head(q) \in Tasks
         /\ In(Head(q), q)
         /\ Tail(q) \in Seq(Tasks)
         /\ NoRepeats(Tail(q))
         /\ In(u, Tail(q)) <=> In(u, q) /\ u # Head(q)
<1>1. Head(q) \in Tasks /\ Tail(q) \in Seq(Tasks) /\ Len(q) \in Nat /\ Len(q) >= 1 /\ Len(Tail(q)) = Len(q) - 1
  OBVIOUS
<1>2. \A i \in 1..Len(Tail(q)) : Tail(q)[i] = q[i + 1]
  OBVIOUS
<1>3. Head(q) = q[1]
  OBVIOUS
<1>4. In(Head(q), q)
  BY <1>1, <1>3 DEF In
<1>5. NoRepeats(Tail(q))
  BY <1>1, <1>2 DEF NoRepeats
<1>6. ASSUME In(u, Tail(q)) PROVE In(u, q) /\ u # Head(q)
  BY <1>1, <1>2, <1>3, <1>6 DEF In, NoRepeats
<1>7. ASSUME In(u, q), u # Head(q) PROVE In(u, Tail(q))
  <2>1. PICK i \in 1..Len(q) : q[i] = u
    BY <1>7 DEF In
  <2>2. i - 1 \in 1..Len(Tail(q)) /\ Tail(q)[i - 1] = u
    BY <1>1, <1>2, <1>3, <1>7, <2>1
  <2>3. QED
    BY <2>2 DEF In
<1>8. QED
  BY <1>1, <1>4, <1>5, <1>6, <1>7

-----------------------------------------------------------------------------
(* Primitives on the lists *)

Unlisted == TaskState \ (Queued \cup {"Ready"})

\* A state change between two unlisted states disturbs no list.
LEMMA ListsIdle ==
  ASSUME NEW st \in [Tasks -> TaskState], NEW q \in Seq(Tasks), NEW wq \in [Endpoints -> Seq(Tasks)],
         NEW t \in Tasks, NEW s \in Unlisted, ListsFit(st, q, wq), st[t] \in Unlisted
  PROVE  ListsFit([st EXCEPT ![t] = s], q, wq)
BY DEF ListsFit, Unlisted, Queued

\* Sched push: an unlisted task goes to the tail of the ready queue.
LEMMA ListsWake ==
  ASSUME NEW st \in [Tasks -> TaskState], NEW q \in Seq(Tasks), NEW wq \in [Endpoints -> Seq(Tasks)],
         NEW t \in Tasks, ListsFit(st, q, wq), st[t] \in Unlisted
  PROVE  ListsFit([st EXCEPT ![t] = "Ready"], Append(q, t), wq)
<1>1. ~In(t, q)
  BY DEF ListsFit, Unlisted
<1>2. NoRepeats(Append(q, t))
  BY <1>1, NoRepeatsAppend DEF ListsFit
<1>3. \A u \in Tasks : In(u, Append(q, t)) <=> In(u, q) \/ u = t
  BY InAppend
<1>4. \A e \in Endpoints : ~In(t, wq[e])
  BY DEF ListsFit, Unlisted
<1>5. QED
  BY <1>2, <1>3, <1>4 DEF ListsFit, Unlisted, Queued

\* Sched pop: the head of the ready queue leaves it for an unlisted state.
LEMMA ListsReadyPop ==
  ASSUME NEW st \in [Tasks -> TaskState], NEW q \in Seq(Tasks), NEW wq \in [Endpoints -> Seq(Tasks)],
         NEW s \in Unlisted, ListsFit(st, q, wq), q # <<>>
  PROVE  ListsFit([st EXCEPT ![Head(q)] = s], Tail(q), wq)
<1> DEFINE h == Head(q)
<1>0. NoRepeats(q)
  BY DEF ListsFit
<1>1. h \in Tasks /\ In(h, q) /\ NoRepeats(Tail(q))
  BY <1>0, InTail
<1>2. \A u \in Tasks : In(u, Tail(q)) <=> In(u, q) /\ u # h
  BY <1>0, InTail
<1>3. st[h] = "Ready"
  BY <1>1 DEF ListsFit
<1>4. \A e \in Endpoints : ~In(h, wq[e])
  BY <1>1, <1>3 DEF ListsFit, Queued
<1> HIDE DEF h
<1>5. ListsFit([st EXCEPT ![h] = s], Tail(q), wq)
  BY <1>1, <1>2, <1>3, <1>4 DEF ListsFit, Unlisted, Queued
<1>6. QED
  BY <1>5 DEF h

\* Endpoint::pop: the head of an endpoint queue leaves it for an unlisted state.
LEMMA ListsEpPop ==
  ASSUME NEW st \in [Tasks -> TaskState], NEW q \in Seq(Tasks), NEW wq \in [Endpoints -> Seq(Tasks)],
         NEW e \in Endpoints, NEW s \in Unlisted, ListsFit(st, q, wq), wq[e] # <<>>
  PROVE  /\ Head(wq[e]) \in Tasks
         /\ st[Head(wq[e])] \in Queued
         /\ [wq EXCEPT ![e] = Tail(@)] \in [Endpoints -> Seq(Tasks)]
         /\ ListsFit([st EXCEPT ![Head(wq[e])] = s], q, [wq EXCEPT ![e] = Tail(@)])
<1> DEFINE h == Head(wq[e])
           w == [wq EXCEPT ![e] = Tail(@)]
           n == [st EXCEPT ![h] = s]
<1>0. NoRepeats(wq[e]) /\ wq[e] \in Seq(Tasks)
  BY DEF ListsFit
<1>1. h \in Tasks /\ In(h, wq[e]) /\ NoRepeats(Tail(wq[e])) /\ Tail(wq[e]) \in Seq(Tasks)
  BY <1>0, InTail
<1>2. \A u \in Tasks : In(u, Tail(wq[e])) <=> In(u, wq[e]) /\ u # h
  BY <1>0, InTail
<1>3. st[h] \in Queued /\ \A f \in Endpoints : In(h, wq[f]) => f = e
  BY <1>1 DEF ListsFit
<1>4. w \in [Endpoints -> Seq(Tasks)] /\ \A f \in Endpoints : f # e => w[f] = wq[f]
  BY <1>1
<1>5. w[e] = Tail(wq[e])
  OBVIOUS
<1>6. \A f \in Endpoints : \A u \in Tasks : In(u, w[f]) <=> In(u, wq[f]) /\ u # h
  BY <1>2, <1>3, <1>4, <1>5
<1>7. \A f \in Endpoints : NoRepeats(w[f])
  BY <1>1, <1>4, <1>5 DEF ListsFit
<1>8. n \in [Tasks -> TaskState] /\ n[h] = s /\ \A u \in Tasks : u # h => n[u] = st[u]
  BY <1>1 DEF Unlisted
<1> HIDE DEF h, w, n
<1>9. ListsFit(n, q, w)
  BY <1>1, <1>3, <1>6, <1>7, <1>8 DEF ListsFit, Unlisted, Queued
<1>10. QED
  BY <1>1, <1>3, <1>4, <1>9 DEF h, w, n

\* Endpoint::push: an unlisted task goes to the tail of a queue of its direction.
LEMMA ListsEpPush ==
  ASSUME NEW st \in [Tasks -> TaskState], NEW q \in Seq(Tasks), NEW wq \in [Endpoints -> Seq(Tasks)],
         NEW e \in Endpoints, NEW t \in Tasks, NEW s \in Queued,
         ListsFit(st, q, wq), st[t] \in Unlisted,
         \A u \in Tasks : In(u, wq[e]) => (st[u] = "BlockedRecv" <=> s = "BlockedRecv")
  PROVE  /\ [wq EXCEPT ![e] = Append(@, t)] \in [Endpoints -> Seq(Tasks)]
         /\ ListsFit([st EXCEPT ![t] = s], q, [wq EXCEPT ![e] = Append(@, t)])
<1> DEFINE w == [wq EXCEPT ![e] = Append(@, t)]
           n == [st EXCEPT ![t] = s]
<1>1. ~In(t, q) /\ \A f \in Endpoints : ~In(t, wq[f])
  BY DEF ListsFit, Unlisted
<1>2. wq[e] \in Seq(Tasks) /\ Append(wq[e], t) \in Seq(Tasks)
  BY InAppend
<1>3. w \in [Endpoints -> Seq(Tasks)] /\ w[e] = Append(wq[e], t)
      /\ \A f \in Endpoints : f # e => w[f] = wq[f]
  BY <1>2
<1>4. \A u \in Tasks : In(u, Append(wq[e], t)) <=> In(u, wq[e]) \/ u = t
  BY <1>2, InAppend
<1>5. NoRepeats(Append(wq[e], t))
  BY <1>1, <1>2, NoRepeatsAppend DEF ListsFit
<1>6. \A f \in Endpoints : \A u \in Tasks : In(u, w[f]) <=> In(u, wq[f]) \/ (u = t /\ f = e)
  BY <1>3, <1>4
<1>7. \A f \in Endpoints : NoRepeats(w[f])
  BY <1>3, <1>5 DEF ListsFit
<1>8. n \in [Tasks -> TaskState] /\ n[t] = s /\ \A u \in Tasks : u # t => n[u] = st[u]
  BY DEF Queued, TaskState
<1> HIDE DEF w, n
<1>9. \A u \in Tasks : n[u] \in Queued => \E f \in Endpoints : In(u, w[f])
  BY <1>6, <1>8 DEF ListsFit
<1>10. \A f \in Endpoints : \A u, v \in Tasks :
         In(u, w[f]) /\ In(v, w[f]) /\ n[u] = "BlockedRecv" => n[v] = "BlockedRecv"
  BY <1>1, <1>6, <1>8 DEF ListsFit
<1>11. \A u \in Tasks : In(u, q) <=> n[u] = "Ready"
  BY <1>1, <1>8 DEF ListsFit, Unlisted, Queued
<1>12. \A f \in Endpoints : \A u \in Tasks : In(u, w[f]) => n[u] \in Queued
  BY <1>6, <1>8 DEF ListsFit
<1>13. \A f, g \in Endpoints : \A u \in Tasks : In(u, w[f]) /\ In(u, w[g]) => f = g
  BY <1>1, <1>6 DEF ListsFit
<1>14. ListsFit(n, q, w)
  BY <1>7, <1>9, <1>10, <1>11, <1>12, <1>13 DEF ListsFit
<1>15. QED
  BY <1>3, <1>14 DEF w, n

-----------------------------------------------------------------------------
(* Primitives on the reply rights *)

\* A state change that has nothing to do with replies disturbs no right.
LEMMA RepliesKeep ==
  ASSUME NEW st \in [Tasks -> TaskState], NEW rt \in [Tasks -> Tasks \cup {NoTask}],
         NEW t \in Tasks, NEW s \in TaskState \ {"BlockedReply"}, RepliesFit(st, rt),
         st[t] # "BlockedReply", s \in Live \/ rt[t] = NoTask
  PROVE  RepliesFit([st EXCEPT ![t] = s], rt)
BY DEF RepliesFit

\* Consuming or aborting the right of h wakes the caller it names.
LEMMA RepliesTake ==
  ASSUME NEW st \in [Tasks -> TaskState], NEW rt \in [Tasks -> Tasks \cup {NoTask}],
         NEW h \in Tasks, NEW s \in Live \ {"BlockedReply"}, RepliesFit(st, rt), rt[h] # NoTask
  PROVE  RepliesFit([st EXCEPT ![rt[h]] = s], [rt EXCEPT ![h] = NoTask])
<1> DEFINE c == rt[h]
           n == [st EXCEPT ![c] = s]
           r == [rt EXCEPT ![h] = NoTask]
<1>1. c \in Tasks /\ st[c] = "BlockedReply" /\ NoTask \notin Tasks
  BY KernelAssumption DEF RepliesFit
<1>2. n[c] = s /\ \A u \in Tasks : u # c => n[u] = st[u]
  BY <1>1
<1>3. r[h] = NoTask /\ \A u \in Tasks : u # h => r[u] = rt[u]
  OBVIOUS
<1> HIDE DEF n, r
<1>4. \A g \in Tasks : r[g] # NoTask => n[r[g]] = "BlockedReply" /\ n[g] \in Live
  BY <1>1, <1>2, <1>3 DEF RepliesFit
<1>5. \A d \in Tasks : n[d] = "BlockedReply" => \E g \in Tasks : r[g] = d
  BY <1>1, <1>2, <1>3 DEF RepliesFit
<1>6. \A f, g \in Tasks : r[f] = r[g] /\ r[f] # NoTask => f = g
  BY <1>1, <1>3 DEF RepliesFit
<1>7. \A S \in SUBSET Tasks : S # {} => \E d \in S : \A g \in S : r[g] # d
  BY <1>1, <1>3 DEF RepliesFit
<1>8. QED
  BY <1>4, <1>5, <1>6, <1>7 DEF RepliesFit, n, r

\* Recording t as the caller of h, which runs or is about to run: since h
\* waits for nobody, the new edge closes no cycle.
LEMMA RepliesGrant ==
  ASSUME NEW st \in [Tasks -> TaskState], NEW rt \in [Tasks -> Tasks \cup {NoTask}],
         NEW h \in Tasks, NEW t \in Tasks, RepliesFit(st, rt),
         rt[h] = NoTask, h # t, st[h] \in Live \ {"BlockedReply"}, st[t] \in Live \ {"BlockedReply"}
  PROVE  RepliesFit([st EXCEPT ![t] = "BlockedReply"], [rt EXCEPT ![h] = t])
<1> DEFINE n == [st EXCEPT ![t] = "BlockedReply"]
           r == [rt EXCEPT ![h] = t]
<1>1. n[t] = "BlockedReply" /\ \A u \in Tasks : u # t => n[u] = st[u]
  OBVIOUS
<1>2. r[h] = t /\ \A u \in Tasks : u # h => r[u] = rt[u]
  OBVIOUS
<1>3. NoTask \notin Tasks /\ (\A g \in Tasks : rt[g] # t /\ rt[g] # h) /\ n[t] \in Live
  BY <1>1, KernelAssumption DEF RepliesFit, Live, TaskState
<1> HIDE DEF n, r
<1>4. \A g \in Tasks : r[g] # NoTask => n[r[g]] = "BlockedReply" /\ n[g] \in Live
  BY <1>1, <1>2, <1>3 DEF RepliesFit
<1>5. \A d \in Tasks : n[d] = "BlockedReply" => \E g \in Tasks : r[g] = d
  BY <1>1, <1>2, <1>3 DEF RepliesFit
<1>6. \A f, g \in Tasks : r[f] = r[g] /\ r[f] # NoTask => f = g
  BY <1>2, <1>3 DEF RepliesFit
<1>7. ASSUME NEW S \in SUBSET Tasks, S # {} PROVE \E d \in S : \A g \in S : r[g] # d
  <2>1. CASE h \in S
    BY <1>2, <1>3, <2>1
  <2>2. CASE h \notin S
    BY <1>2, <1>7, <2>2 DEF RepliesFit
  <2>3. QED
    BY <2>1, <2>2
<1>8. QED
  BY <1>4, <1>5, <1>6, <1>7 DEF RepliesFit, n, r

-----------------------------------------------------------------------------
(* Primitives on both *)

\* A task outside every list changes to another such state.
LEMMA Idle ==
  ASSUME NEW st, NEW q, NEW wq, NEW rt, Linked(st, q, wq, rt),
         NEW t \in Tasks, NEW s \in Unlisted \ {"BlockedReply"},
         st[t] \in Unlisted \ {"BlockedReply"}, s \in Live \/ rt[t] = NoTask
  PROVE  Linked([st EXCEPT ![t] = s], q, wq, rt)
BY ListsIdle, RepliesKeep DEF Linked, Typed, Unlisted

\* k0_sched::enqueue of a task that is in no list.
LEMMA Wake ==
  ASSUME NEW st, NEW q, NEW wq, NEW rt, Linked(st, q, wq, rt),
         NEW t \in Tasks, st[t] \in Unlisted \ {"BlockedReply"}
  PROVE  Linked([st EXCEPT ![t] = "Ready"], Append(q, t), wq, rt)
<1>1. "Ready" \in TaskState \ {"BlockedReply"} /\ "Ready" \in Live
  BY DEF TaskState, Live
<1>2. QED
  BY <1>1, ListsWake, RepliesKeep, InAppend DEF Linked, Typed

\* The head of the ready queue starts to run.
LEMMA PopReady ==
  ASSUME NEW st, NEW q, NEW wq, NEW rt, Linked(st, q, wq, rt), q # <<>>
  PROVE  /\ Head(q) \in Tasks
         /\ st[Head(q)] = "Ready"
         /\ Linked([st EXCEPT ![Head(q)] = "Running"], Tail(q), wq, rt)
<1>1. "Running" \in Unlisted /\ "Running" \in TaskState \ {"BlockedReply"} /\ "Running" \in Live
  BY DEF TaskState, Live, Unlisted, Queued
<1>2. Head(q) \in Tasks /\ Tail(q) \in Seq(Tasks) /\ In(Head(q), q)
  BY InTail DEF Linked, Typed, ListsFit
<1>3. st[Head(q)] = "Ready"
  BY <1>2 DEF Linked, ListsFit
<1>4. QED
  BY <1>1, <1>2, <1>3, ListsReadyPop, RepliesKeep DEF Linked, Typed

\* The head of an endpoint queue leaves it and is in the hands of the handler.
LEMMA PopEp ==
  ASSUME NEW st, NEW q, NEW wq, NEW rt, Linked(st, q, wq, rt), NEW e \in Endpoints, wq[e] # <<>>
  PROVE  /\ Head(wq[e]) \in Tasks
         /\ st[Head(wq[e])] \in Queued
         /\ Linked([st EXCEPT ![Head(wq[e])] = "Running"], q, [wq EXCEPT ![e] = Tail(@)], rt)
<1>1. "Running" \in Unlisted /\ "Running" \in TaskState \ {"BlockedReply"} /\ "Running" \in Live
  BY DEF TaskState, Live, Unlisted, Queued
<1>2. /\ Head(wq[e]) \in Tasks
      /\ st[Head(wq[e])] \in Queued
      /\ [wq EXCEPT ![e] = Tail(@)] \in [Endpoints -> Seq(Tasks)]
      /\ ListsFit([st EXCEPT ![Head(wq[e])] = "Running"], q, [wq EXCEPT ![e] = Tail(@)])
  BY <1>1, ListsEpPop DEF Linked, Typed
<1>3. RepliesFit([st EXCEPT ![Head(wq[e])] = "Running"], rt)
  BY <1>1, <1>2, RepliesKeep DEF Linked, Typed, Queued
<1>4. QED
  BY <1>1, <1>2, <1>3 DEF Linked, Typed

\* A task joins an endpoint queue of its direction.
LEMMA PushEp ==
  ASSUME NEW st, NEW q, NEW wq, NEW rt, Linked(st, q, wq, rt), NEW e \in Endpoints,
         NEW t \in Tasks, NEW s \in Queued, st[t] \in Unlisted \ {"BlockedReply"},
         \A u \in Tasks : In(u, wq[e]) => (st[u] = "BlockedRecv" <=> s = "BlockedRecv")
  PROVE  Linked([st EXCEPT ![t] = s], q, [wq EXCEPT ![e] = Append(@, t)], rt)
<1>1. s \in TaskState \ {"BlockedReply"} /\ s \in Live
  BY DEF Queued, TaskState, Live
<1>2. /\ [wq EXCEPT ![e] = Append(@, t)] \in [Endpoints -> Seq(Tasks)]
      /\ ListsFit([st EXCEPT ![t] = s], q, [wq EXCEPT ![e] = Append(@, t)])
  BY ListsEpPush DEF Linked, Typed
<1>3. RepliesFit([st EXCEPT ![t] = s], rt)
  BY <1>1, RepliesKeep DEF Linked, Typed
<1>4. QED
  BY <1>1, <1>2, <1>3 DEF Linked, Typed

\* t becomes the caller that h owes a reply.
LEMMA Grant ==
  ASSUME NEW st, NEW q, NEW wq, NEW rt, Linked(st, q, wq, rt),
         NEW h \in Tasks, NEW t \in Tasks, rt[h] = NoTask, h # t,
         st[h] \in Live \ {"BlockedReply"}, st[t] = "Running"
  PROVE  Linked([st EXCEPT ![t] = "BlockedReply"], q, wq, [rt EXCEPT ![h] = t])
<1>1. "BlockedReply" \in Unlisted /\ st[t] \in Unlisted /\ st[t] \in Live \ {"BlockedReply"}
      /\ "BlockedReply" \in TaskState
  BY DEF TaskState, Live, Unlisted, Queued
<1>2. ListsFit([st EXCEPT ![t] = "BlockedReply"], q, wq)
  BY <1>1, ListsIdle DEF Linked, Typed
<1>3. RepliesFit([st EXCEPT ![t] = "BlockedReply"], [rt EXCEPT ![h] = t])
  BY <1>1, RepliesGrant DEF Linked, Typed
<1>4. QED
  BY <1>1, <1>2, <1>3 DEF Linked, Typed

\* abort_reply and the reply phase of REPLY_RECV: the caller h owes a reply,
\* if there is one, becomes ready, and h owes nothing any more.
LEMMA WakeCaller ==
  ASSUME NEW st, NEW q, NEW wq, NEW rt, Linked(st, q, wq, rt), NEW h \in Tasks
  PROVE  /\ Linked(enqueue_state(st, rt[h]), enqueue(q, rt[h]), wq, [rt EXCEPT ![h] = NoTask])
         /\ rt[h] # NoTask => rt[h] \in Tasks /\ st[rt[h]] = "BlockedReply"
         /\ \A u \in Tasks : st[u] # "BlockedReply" => enqueue_state(st, rt[h])[u] = st[u]
         /\ \A u \in Tasks : enqueue_state(st, rt[h])[u] \in {st[u], "Ready"}
<1>1. CASE rt[h] = NoTask
  <2>1. [rt EXCEPT ![h] = NoTask] = rt
    BY <1>1 DEF Linked, Typed
  <2>2. QED
    BY <1>1, <2>1 DEF enqueue_state, enqueue
<1>2. CASE rt[h] # NoTask
  <2> DEFINE c == rt[h]
             n == [st EXCEPT ![c] = "Ready"]
             r == [rt EXCEPT ![h] = NoTask]
  <2>1. c \in Tasks /\ st[c] = "BlockedReply"
    BY <1>2, KernelAssumption DEF Linked, Typed, RepliesFit
  <2>2. "Ready" \in Live \ {"BlockedReply"} /\ "Ready" \in TaskState /\ st[c] \in Unlisted
    BY <2>1 DEF Live, TaskState, Unlisted, Queued
  <2>3. ListsFit(n, Append(q, c), wq)
    BY <2>1, <2>2, ListsWake DEF Linked, Typed
  <2>4. RepliesFit(n, r)
    BY <1>2, <2>2, RepliesTake DEF Linked, Typed
  <2>5. Typed(n, Append(q, c), wq, r)
    BY <2>1, <2>2, InAppend DEF Linked, Typed
  <2>6. enqueue_state(st, c) = n /\ enqueue(q, c) = Append(q, c)
    BY <1>2 DEF enqueue_state, enqueue
  <2>7. \A u \in Tasks : n[u] = IF u = c THEN "Ready" ELSE st[u]
    BY <2>1 DEF Linked, Typed
  <2>8. QED
    BY <1>2, <2>1, <2>3, <2>4, <2>5, <2>6, <2>7 DEF Linked
<1>3. QED
  BY <1>1, <1>2

-----------------------------------------------------------------------------
(* The inductive invariant, and the handlers *)

ParkReasons == {"all tasks blocked", "all tasks exited"}

\* The lists and rights fit together, and Sched.current is in step with them.
IInv ==
  /\ Linked(state, ready, waitq, reply_to)
  /\ CurrentRuns
  /\ current \in Tasks
  /\ parked \in {"no"} \cup ParkReasons

\* While the system runs, the current task is the only running one.
LEMMA OnlyCurrent ==
  ASSUME IInv, Runs
  PROVE  /\ current \in Tasks
         /\ state[current] = "Running"
         /\ \A t \in Tasks : state[t] = "Running" => t = current
BY DEF IInv, CurrentRuns, Runs

\* block_and_switch and exit_current, once the current task has been dealt with.
LEMMA Switch ==
  ASSUME NEW st, NEW q, NEW reason \in ParkReasons, IInv, Runs,
         Linked(st, q, waitq', reply_to'), \A t \in Tasks : st[t] # "Running",
         switch_or_park(st, q, reason)
  PROVE  IInv'
<1>1. CASE q = <<>>
  <2>1. state' = st /\ ready' = q /\ parked' = reason /\ current' = current
    BY <1>1 DEF switch_or_park
  <2>2. \A t \in Tasks : ~In(t, q)
    BY <1>1 DEF In
  <2>3. \A t \in Tasks : state'[t] \notin {"Ready", "Running"}
    BY <2>1, <2>2 DEF Linked, ListsFit
  <2>4. QED
    BY <2>1, <2>3 DEF IInv, CurrentRuns, ParkReasons
<1>2. CASE q # <<>>
  <2>1. state' = [st EXCEPT ![Head(q)] = "Running"] /\ ready' = Tail(q)
        /\ current' = Head(q) /\ parked' = parked
    BY <1>2 DEF switch_or_park
  <2>2. Head(q) \in Tasks /\ Linked(state', ready', waitq', reply_to')
    BY <1>2, <2>1, PopReady
  <2>3. \A t \in Tasks : state'[t] = "Running" <=> t = Head(q)
    BY <2>1, <2>2 DEF Linked, Typed
  <2>4. QED
    BY <2>1, <2>2, <2>3 DEF IInv, CurrentRuns, Runs
<1>3. QED
  BY <1>1, <1>2

\* YIELD and the timer tick.
LEMMA RotateKeeps ==
  ASSUME IInv, Runs, rotate, UNCHANGED <<waitq, reply_to, parked>>
  PROVE  IInv'
<1>1. CASE ready = <<>>
  BY <1>1 DEF rotate, IInv, CurrentRuns
<1>2. CASE ready # <<>>
  <2> DEFINE h == Head(ready)
             st == [state EXCEPT ![h] = "Running"]
  <2>1. state' = [state EXCEPT ![current] = "Ready", ![h] = "Running"]
        /\ ready' = Append(Tail(ready), current) /\ current' = h
    BY <1>2 DEF rotate
  <2>2. h \in Tasks /\ state[h] = "Ready" /\ Linked(st, Tail(ready), waitq, reply_to)
    BY <1>2, PopReady DEF IInv
  <2>3. h # current /\ st[current] = "Running" /\ state \in [Tasks -> TaskState] /\ current \in Tasks
    BY <2>2, OnlyCurrent DEF IInv, Linked, Typed
  <2>4. Linked([st EXCEPT ![current] = "Ready"], ready', waitq, reply_to)
    <3>1. st[current] \in Unlisted \ {"BlockedReply"}
      BY <2>3 DEF Unlisted, TaskState, Queued
    <3>2. QED
      BY <2>1, <2>2, <2>3, <3>1, Wake
  <2>5. state' = [st EXCEPT ![current] = "Ready"]
    BY <2>1, <2>2, <2>3
  <2>6. \A t \in Tasks : state'[t] = "Running" <=> t = h
    BY <2>1, <2>2, <2>3, OnlyCurrent
  <2>7. QED
    BY <2>1, <2>2, <2>4, <2>5, <2>6 DEF IInv, CurrentRuns, Runs
<1>3. QED
  BY <1>1, <1>2

\* A call that only writes its result.
LEMMA ReturnKeeps ==
  ASSUME IInv, NEW status, return(status)
  PROVE  IInv'
BY DEF IInv, return, CurrentRuns

\* EXIT, an unknown call number and a fault, before the switch.
LEMMA KillLinked ==
  ASSUME IInv, kill_current
  PROVE  LET n == [enqueue_state(state, reply_to[current]) EXCEPT ![current] = "Dead"]
         IN  /\ Linked(n, enqueue(ready, reply_to[current]), waitq', reply_to')
             /\ \A t \in Tasks : n[t] # "Running"
<1> DEFINE c == reply_to[current]
           st == enqueue_state(state, c)
           q == enqueue(ready, c)
<1>1. Runs /\ reply_to' = [reply_to EXCEPT ![current] = NoTask] /\ waitq' = waitq
      /\ switch_or_park([st EXCEPT ![current] = "Dead"], q, "all tasks exited")
  BY DEF kill_current, exit_current
<1>2. current \in Tasks /\ state[current] = "Running" /\ \A t \in Tasks : state[t] = "Running" => t = current
  BY <1>1, OnlyCurrent
<1>3. /\ Linked(st, q, waitq, reply_to')
      /\ st[current] = "Running"
      /\ \A u \in Tasks : st[u] \in {state[u], "Ready"}
  <2>1. /\ Linked(st, q, waitq, [reply_to EXCEPT ![current] = NoTask])
        /\ \A u \in Tasks : state[u] # "BlockedReply" => st[u] = state[u]
        /\ \A u \in Tasks : st[u] \in {state[u], "Ready"}
    BY <1>2, WakeCaller DEF IInv
  <2>2. QED
    BY <1>1, <1>2, <2>1
<1> HIDE DEF st, q
<1>4. reply_to'[current] = NoTask
  BY <1>1, <1>2 DEF IInv, Linked, Typed
<1>5. Linked([st EXCEPT ![current] = "Dead"], q, waitq', reply_to')
  <2>1. "Dead" \in Unlisted \ {"BlockedReply"} /\ st[current] \in Unlisted \ {"BlockedReply"}
    BY <1>3 DEF Unlisted, TaskState, Queued
  <2>2. QED
    BY <1>1, <1>2, <1>3, <1>4, <2>1, Idle
<1>6. \A t \in Tasks : [st EXCEPT ![current] = "Dead"][t] # "Running"
  BY <1>2, <1>3 DEF Linked, Typed
<1>7. QED
  BY <1>5, <1>6 DEF st, q

\* EXIT, an unknown call number and a fault.
LEMMA KillKeeps ==
  ASSUME IInv, kill_current
  PROVE  IInv'
<1> DEFINE n == [enqueue_state(state, reply_to[current]) EXCEPT ![current] = "Dead"]
<1>1. Linked(n, enqueue(ready, reply_to[current]), waitq', reply_to') /\ \A t \in Tasks : n[t] # "Running"
  BY KillLinked
<1>2. Runs /\ switch_or_park(n, enqueue(ready, reply_to[current]), "all tasks exited")
  BY DEF kill_current, exit_current
<1> HIDE DEF n
<1>3. QED
  BY <1>1, <1>2, Switch DEF ParkReasons

\* TCB_CONFIGURE.
LEMMA ConfigureKeeps ==
  ASSUME IInv, NEW t, sys_tcb_configure(t)
  PROVE  IInv'
<1>1. CASE UNCHANGED <<state, current, ready, waitq, reply_to, parked>>
  BY <1>1 DEF IInv, CurrentRuns
<1>2. CASE /\ t \in Tasks /\ state[t] = "Inactive" /\ state' = [state EXCEPT ![t] = "Stopped"]
           /\ UNCHANGED <<current, ready, waitq, reply_to, parked>>
  <2>1. "Stopped" \in Unlisted \ {"BlockedReply"} /\ state[t] \in Unlisted \ {"BlockedReply"}
        /\ state[t] \notin Live
    BY <1>2 DEF Unlisted, TaskState, Queued, Live
  <2>2. reply_to[t] = NoTask
    BY <1>2, <2>1 DEF IInv, Linked, RepliesFit
  <2>3. Linked(state', ready, waitq, reply_to)
    BY <1>2, <2>1, <2>2, Idle DEF IInv
  <2>4. CurrentRuns'
    BY <1>2 DEF IInv, CurrentRuns, Linked, Typed
  <2>5. QED
    BY <1>2, <2>3, <2>4 DEF IInv
<1>3. QED
  BY <1>1, <1>2 DEF sys_tcb_configure, return

\* TCB_RESUME.
LEMMA ResumeKeeps ==
  ASSUME IInv, NEW t, sys_tcb_resume(t)
  PROVE  IInv'
<1>1. CASE UNCHANGED <<state, current, ready, waitq, reply_to, parked>>
  BY <1>1 DEF IInv, CurrentRuns
<1>2. CASE /\ Runs /\ t \in Tasks /\ state[t] = "Stopped"
           /\ state' = [state EXCEPT ![t] = "Ready"] /\ ready' = Append(ready, t)
           /\ UNCHANGED <<current, waitq, reply_to, parked>>
  <2>1. state[t] \in Unlisted \ {"BlockedReply"}
    BY <1>2 DEF Unlisted, TaskState, Queued
  <2>2. Linked(state', ready', waitq, reply_to)
    BY <1>2, <2>1, Wake DEF IInv
  <2>3. CurrentRuns'
    BY <1>2 DEF IInv, CurrentRuns, Linked, Typed, Runs
  <2>4. QED
    BY <1>2, <2>2, <2>3 DEF IInv
<1>3. \A s \in Tasks : enqueue_state(state, s) = [state EXCEPT ![s] = "Ready"]
                     /\ enqueue(ready, s) = Append(ready, s)
  BY KernelAssumption DEF enqueue_state, enqueue
<1>4. QED
  BY <1>1, <1>2, <1>3 DEF sys_tcb_resume, return

-----------------------------------------------------------------------------
(* The IPC handlers *)

\* The state of the head of an endpoint queue tells the direction of all of it.
LEMMA HeadTells ==
  ASSUME IInv, NEW e \in Endpoints
  PROVE  /\ ~ReceiverWaits(e) => \A u \in Tasks : In(u, waitq[e]) => state[u] # "BlockedRecv"
         /\ ~SenderWaits(e) => \A u \in Tasks : In(u, waitq[e]) => state[u] = "BlockedRecv"
<1>1. waitq[e] \in Seq(Tasks) /\ NoRepeats(waitq[e])
  BY DEF IInv, Linked, Typed, ListsFit
<1>2. CASE waitq[e] = <<>>
  <2>1. \A u \in Tasks : ~In(u, waitq[e])
    BY <1>2 DEF In
  <2>2. QED
    BY <2>1
<1>3. CASE waitq[e] # <<>>
  <2>1. Head(waitq[e]) \in Tasks /\ In(Head(waitq[e]), waitq[e])
    BY <1>1, <1>3, InTail
  <2>2. QED
    BY <1>3, <2>1 DEF ReceiverWaits, SenderWaits, IInv, Linked, ListsFit
<1>4. QED
  BY <1>2, <1>3

\* The caller blocks in an endpoint queue, after a reply phase that left st
\* and q and woke nobody but a caller; before the switch.
LEMMA WaitLinked ==
  ASSUME IInv, Runs, NEW e \in Endpoints, NEW as \in Queued, NEW st, NEW q,
         Linked(st, q, waitq, reply_to'),
         \A u \in Tasks : state[u] # "BlockedReply" => st[u] = state[u],
         \A u \in Tasks : st[u] \in {state[u], "Ready"},
         \A u \in Tasks : In(u, waitq[e]) => (state[u] = "BlockedRecv" <=> as = "BlockedRecv"),
         wait_on(e, as, st, q)
  PROVE  /\ Linked([st EXCEPT ![current] = as], q, waitq', reply_to')
         /\ \A t \in Tasks : [st EXCEPT ![current] = as][t] # "Running"
<1> DEFINE n == [st EXCEPT ![current] = as]
<1>1. waitq' = [waitq EXCEPT ![e] = Append(@, current)]
      /\ switch_or_park(n, q, "all tasks blocked")
  BY DEF wait_on, block_and_switch
<1>2. current \in Tasks /\ state[current] = "Running" /\ \A t \in Tasks : state[t] = "Running" => t = current
  BY OnlyCurrent
<1>3. st[current] \in Unlisted \ {"BlockedReply"}
  BY <1>2 DEF Unlisted, TaskState, Queued
<1>4. \A u \in Tasks : In(u, waitq[e]) => (st[u] = "BlockedRecv" <=> as = "BlockedRecv")
  <2>1. \A u \in Tasks : In(u, waitq[e]) => state[u] \in Queued
    BY DEF IInv, Linked, ListsFit
  <2>2. QED
    BY <2>1 DEF Queued
<1>5. Linked(n, q, waitq', reply_to')
  BY <1>1, <1>2, <1>3, <1>4, PushEp
<1>6. \A t \in Tasks : n[t] # "Running"
  BY <1>2 DEF Linked, Typed, Queued
<1>7. QED
  BY <1>5, <1>6

\* The caller blocks in an endpoint queue.
LEMMA WaitKeeps ==
  ASSUME IInv, Runs, NEW e \in Endpoints, NEW as \in Queued, NEW st, NEW q,
         Linked(st, q, waitq, reply_to'),
         \A u \in Tasks : state[u] # "BlockedReply" => st[u] = state[u],
         \A u \in Tasks : st[u] \in {state[u], "Ready"},
         \A u \in Tasks : In(u, waitq[e]) => (state[u] = "BlockedRecv" <=> as = "BlockedRecv"),
         wait_on(e, as, st, q)
  PROVE  IInv'
<1> DEFINE n == [st EXCEPT ![current] = as]
<1>1. Linked(n, q, waitq', reply_to') /\ \A t \in Tasks : n[t] # "Running"
  BY WaitLinked
<1>2. switch_or_park(n, q, "all tasks blocked")
  BY DEF wait_on, block_and_switch
<1> HIDE DEF n
<1>3. QED
  BY <1>1, <1>2, Switch DEF ParkReasons

\* What a rendezvous starts with: the partner leaves the endpoint queue.
LEMMA Partner ==
  ASSUME IInv, Runs, NEW e \in Endpoints, waitq[e] # <<>>, NEW st, NEW q, NEW rt,
         Linked(st, q, waitq, rt),
         \A u \in Tasks : state[u] # "BlockedReply" => st[u] = state[u]
  PROVE  /\ Head(waitq[e]) \in Tasks \ {current}
         /\ st[Head(waitq[e])] = state[Head(waitq[e])]
         /\ state[Head(waitq[e])] \in Queued
         /\ Linked([st EXCEPT ![Head(waitq[e])] = "Running"], q, [waitq EXCEPT ![e] = Tail(@)], rt)
<1>1. Head(waitq[e]) \in Tasks /\ st[Head(waitq[e])] \in Queued
      /\ Linked([st EXCEPT ![Head(waitq[e])] = "Running"], q, [waitq EXCEPT ![e] = Tail(@)], rt)
  BY PopEp
<1>2. state[Head(waitq[e])] \in Queued
  BY PopEp DEF IInv
<1>3. QED
  BY <1>1, <1>2, OnlyCurrent DEF Queued

\* SEND.
LEMMA SendKeeps ==
  ASSUME IInv, NEW ep, NEW nonblock \in BOOLEAN, NEW m, sys_send(ep, nonblock, m)
  PROVE  IInv'
<1>0. Runs
  BY DEF sys_send
<1>1. CASE \E status : return(status)
  BY <1>1, ReturnKeeps
<1>2. CASE ep \in Endpoints /\ ReceiverWaits(ep) /\ UNCHANGED <<current, reply_to, parked>>
           /\ waitq' = [waitq EXCEPT ![ep] = Tail(@)]
           /\ state' = enqueue_state(state, Head(waitq[ep]))
           /\ ready' = enqueue(ready, Head(waitq[ep]))
  <2> DEFINE r == Head(waitq[ep])
             st == [state EXCEPT ![r] = "Running"]
  <2>1. r \in Tasks \ {current} /\ Linked(st, ready, waitq', reply_to)
    BY <1>0, <1>2, Partner DEF IInv, ReceiverWaits
  <2>2. st[r] = "Running" /\ st[r] \in Unlisted \ {"BlockedReply"} /\ state \in [Tasks -> TaskState]
    BY <2>1 DEF Unlisted, TaskState, Queued, IInv, Linked, Typed
  <2>3. Linked([st EXCEPT ![r] = "Ready"], Append(ready, r), waitq', reply_to)
    BY <2>1, <2>2, Wake
  <2>4. state' = [st EXCEPT ![r] = "Ready"] /\ ready' = Append(ready, r)
    BY <1>2, <2>1, <2>2, KernelAssumption DEF enqueue_state, enqueue
  <2>5. \A t \in Tasks : state'[t] = "Running" <=> t = current
    BY <1>0, <2>1, <2>2, <2>4, OnlyCurrent
  <2>6. QED
    BY <1>0, <1>2, <2>3, <2>4, <2>5 DEF IInv, CurrentRuns, Runs
<1>3. CASE ep \in Endpoints /\ ~ReceiverWaits(ep) /\ wait_on(ep, "BlockedSend", state, ready)
           /\ UNCHANGED reply_to
  <2>1. \A u \in Tasks : In(u, waitq[ep]) => (state[u] = "BlockedRecv" <=> "BlockedSend" = "BlockedRecv")
    BY <1>3, HeadTells
  <2>2. "BlockedSend" \in Queued /\ Linked(state, ready, waitq, reply_to')
    BY <1>3 DEF Queued, IInv
  <2>3. QED
    BY <1>0, <1>3, <2>1, <2>2, WaitKeeps
<1>4. QED
  BY <1>1, <1>2, <1>3 DEF sys_send

\* CALL that meets a receiver: the receiver's old caller, if it owes one a
\* reply, is woken; then the receiver owes the running task a reply.
LEMMA CallMeets ==
  ASSUME IInv, Runs, NEW e \in Endpoints, waitq[e] # <<>>,
         waitq' = [waitq EXCEPT ![e] = Tail(@)],
         reply_to' = [reply_to EXCEPT ![Head(waitq[e])] = current]
  PROVE  LET rcv == Head(waitq[e])
             old == reply_to[rcv]
             st  == enqueue_state([enqueue_state(state, old) EXCEPT ![current] = "BlockedReply"], rcv)
         IN  /\ Linked(st, enqueue(enqueue(ready, old), rcv), waitq', reply_to')
             /\ \A t \in Tasks : st[t] # "Running"
<1> DEFINE rcv == Head(waitq[e])
           old == reply_to[rcv]
           st1 == [state EXCEPT ![rcv] = "Running"]
           st2 == enqueue_state(st1, old)
           q2  == enqueue(ready, old)
           rt2 == [reply_to EXCEPT ![rcv] = NoTask]
           st3 == [st2 EXCEPT ![current] = "BlockedReply"]
           st4 == [st3 EXCEPT ![rcv] = "Ready"]
           st  == enqueue_state([enqueue_state(state, old) EXCEPT ![current] = "BlockedReply"], rcv)
<1>1. rcv \in Tasks \ {current} /\ Linked(st1, ready, waitq', reply_to)
  BY Partner DEF IInv
<1>2. current \in Tasks /\ state[current] = "Running" /\ \A t \in Tasks : state[t] = "Running" => t = current
  BY OnlyCurrent
<1>3. state \in [Tasks -> TaskState] /\ reply_to \in [Tasks -> Tasks \cup {NoTask}] /\ NoTask \notin Tasks
  BY KernelAssumption DEF IInv, Linked, Typed
<1>4. st1[rcv] = "Running" /\ st1[current] = "Running"
  BY <1>1, <1>2, <1>3
<1>5. /\ Linked(st2, q2, waitq', rt2)
      /\ old # NoTask => old \in Tasks /\ st1[old] = "BlockedReply"
      /\ \A u \in Tasks : st1[u] # "BlockedReply" => st2[u] = st1[u]
  <2>1. rcv \in Tasks /\ Linked(st1, ready, waitq', reply_to)
    BY <1>1
  <2> HIDE DEF st1, rcv
  <2>2. Linked(st2, q2, waitq', rt2)
    BY ONLY <2>1, WakeCaller DEF st2, q2, rt2, old
  <2>3. old # NoTask => old \in Tasks /\ st1[old] = "BlockedReply"
    BY ONLY <2>1, WakeCaller DEF old
  <2>4. \A u \in Tasks : st1[u] # "BlockedReply" => st2[u] = st1[u]
    BY ONLY <2>1, <2>3 DEF st2, enqueue_state, Linked, Typed
  <2>5. QED
    BY <2>2, <2>3, <2>4
<1>6. old # NoTask => old \in Tasks /\ old # rcv /\ old # current
  BY <1>4, <1>5
<1>7. st2[rcv] = "Running" /\ st2[current] = "Running" /\ st2 \in [Tasks -> TaskState]
  BY <1>1, <1>2, <1>4, <1>5 DEF Linked, Typed
<1>8. rt2[rcv] = NoTask /\ reply_to' = [rt2 EXCEPT ![rcv] = current]
  BY <1>1, <1>2, <1>3
<1>9. Linked(st3, q2, waitq', reply_to')
  <2>1. "Running" \in Live \ {"BlockedReply"}
    BY DEF Live, TaskState
  <2>2. rcv \in Tasks /\ rcv # current /\ st2[rcv] \in Live \ {"BlockedReply"}
    BY <1>1, <1>7, <2>1
  <2> HIDE DEF st2, rt2, q2, rcv
  <2>3. Linked(st3, q2, waitq', [rt2 EXCEPT ![rcv] = current])
    BY <1>2, <1>5, <1>7, <1>8, <2>2, Grant
  <2>4. QED
    BY <1>8, <2>3
<1>10. st3[rcv] = "Running"
  <2> HIDE DEF st2, rcv
  <2>1. QED
    BY <1>1, <1>2, <1>7
<1>11. Linked(st4, Append(q2, rcv), waitq', reply_to')
  <2>1. st3[rcv] \in Unlisted \ {"BlockedReply"}
    BY <1>10 DEF Unlisted, TaskState, Queued
  <2> HIDE DEF st3, q2, rcv
  <2>2. QED
    BY <1>1, <1>9, <2>1, Wake
<1>12. st = st4
  <2>1. CASE old = NoTask
    BY <1>1, <1>2, <1>3, <2>1 DEF enqueue_state
  <2>2. CASE old # NoTask
    BY <1>1, <1>2, <1>3, <1>6, <2>2 DEF enqueue_state
  <2>3. QED
    BY <2>1, <2>2
<1>13. enqueue(enqueue(ready, old), rcv) = Append(q2, rcv)
  BY <1>1, <1>3 DEF enqueue
<1>14. \A t \in Tasks : st4[t] # "Running"
  <2>1. \A t \in Tasks : st2[t] \in {st1[t], "Ready"}
    BY <1>1, WakeCaller
  <2>2. \A t \in Tasks : st2[t] = "Running" => t \in {rcv, current}
    BY <1>1, <1>2, <1>3, <2>1
  <2> HIDE DEF st2, rcv
  <2>3. QED
    BY <1>1, <1>2, <1>7, <2>2
<1>15. QED
  BY <1>11, <1>12, <1>13, <1>14

\* CALL.
LEMMA CallKeeps ==
  ASSUME IInv, NEW ep, NEW nonblock \in BOOLEAN, NEW m, sys_call(ep, nonblock, m)
  PROVE  IInv'
<1>0. Runs
  BY DEF sys_call
<1>1. CASE \E status : return(status)
  BY <1>1, ReturnKeeps
<1>2. CASE /\ ep \in Endpoints /\ ReceiverWaits(ep)
           /\ LET rcv == Head(waitq[ep])
                  old == reply_to[rcv]
                  st  == [enqueue_state(state, old) EXCEPT ![current] = "BlockedReply"]
              IN  /\ waitq' = [waitq EXCEPT ![ep] = Tail(@)]
                  /\ reply_to' = [reply_to EXCEPT ![rcv] = current]
                  /\ block_and_switch(enqueue_state(st, rcv), enqueue(enqueue(ready, old), rcv))
  <2>1. waitq[ep] # <<>>
    BY <1>2 DEF ReceiverWaits
  <2>2. "all tasks blocked" \in ParkReasons
    BY DEF ParkReasons
  <2>3. QED
    BY <1>0, <1>2, <2>1, <2>2, CallMeets, Switch DEF block_and_switch
<1>3. CASE ep \in Endpoints /\ ~ReceiverWaits(ep) /\ wait_on(ep, "BlockedCall", state, ready)
           /\ UNCHANGED reply_to
  <2>1. \A u \in Tasks : In(u, waitq[ep]) => (state[u] = "BlockedRecv" <=> "BlockedCall" = "BlockedRecv")
    BY <1>3, HeadTells
  <2>2. "BlockedCall" \in Queued /\ Linked(state, ready, waitq, reply_to')
    BY <1>3 DEF Queued, IInv
  <2>3. QED
    BY <1>0, <1>3, <2>1, <2>2, WaitKeeps
<1>4. QED
  BY <1>1, <1>2, <1>3 DEF sys_call

\* The receive phase meets a caller: the running task's old caller, if any, is
\* woken, and the running task owes the new one a reply.
LEMMA ReceiveCall ==
  ASSUME NEW st, NEW q, NEW wq, NEW rt, Linked(st, q, wq, rt),
         NEW cur \in Tasks, NEW snd \in Tasks, cur # snd,
         st[cur] = "Running", st[snd] \in Queued,
         NEW w, Linked([st EXCEPT ![snd] = "Running"], q, w, rt)
  PROVE  Linked([enqueue_state(st, rt[cur]) EXCEPT ![snd] = "BlockedReply"], enqueue(q, rt[cur]),
                w, [rt EXCEPT ![cur] = snd])
<1> DEFINE old == rt[cur]
           st1 == [st EXCEPT ![snd] = "Running"]
           st2 == enqueue_state(st1, old)
           rt2 == [rt EXCEPT ![cur] = NoTask]
           st3 == [st2 EXCEPT ![snd] = "BlockedReply"]
           n   == [enqueue_state(st, old) EXCEPT ![snd] = "BlockedReply"]
<1>1. st \in [Tasks -> TaskState] /\ rt \in [Tasks -> Tasks \cup {NoTask}]
  BY DEF Linked, Typed
<1>2. st1 \in [Tasks -> TaskState] /\ st1[cur] = "Running" /\ st1[snd] = "Running"
  BY <1>1 DEF TaskState
<1>3. Linked(st2, enqueue(q, old), w, rt2) /\ (old # NoTask => old \in Tasks /\ st1[old] = "BlockedReply")
  <2> HIDE DEF st1
  <2>1. Linked(st1, q, w, rt)
    BY DEF st1
  <2>2. QED
    BY ONLY <2>1, cur \in Tasks, WakeCaller DEF st2, rt2, old
<1>4. old # NoTask => old \in Tasks /\ old # snd /\ old # cur
  BY <1>2, <1>3
<1>5. st2 \in [Tasks -> TaskState] /\ st2[cur] = "Running" /\ st2[snd] = "Running"
  <2> HIDE DEF st1
  <2>1. QED
    BY <1>2, <1>3, <1>4 DEF enqueue_state, TaskState
<1>6. rt2[cur] = NoTask /\ [rt EXCEPT ![cur] = snd] = [rt2 EXCEPT ![cur] = snd]
  BY <1>1
<1>7. Linked(st3, enqueue(q, old), w, [rt EXCEPT ![cur] = snd])
  <2>1. "Running" \in Live \ {"BlockedReply"}
    BY DEF Live, TaskState
  <2>2. st2[cur] \in Live \ {"BlockedReply"}
    BY <1>5, <2>1
  <2> HIDE DEF st2, rt2
  <2>3. Linked(st3, enqueue(q, old), w, [rt2 EXCEPT ![cur] = snd])
    BY <1>3, <1>5, <1>6, <2>2, Grant
  <2>4. QED
    BY <1>6, <2>3
<1>8. st3 = n
  <2>1. CASE old = NoTask
    BY <1>1, <2>1 DEF enqueue_state
  <2>2. CASE old # NoTask
    BY <1>1, <1>4, <2>2 DEF enqueue_state
  <2>3. QED
    BY <2>1, <2>2
<1>9. QED
  BY <1>7, <1>8

\* The receive phase, after a reply phase that left st, q and rt.
LEMMA RecvKeeps ==
  ASSUME IInv, Runs, NEW e \in Endpoints, NEW nonblock \in BOOLEAN,
         NEW st, NEW q, NEW rt, NEW x, NEW regs, Linked(st, q, waitq, rt),
         \A u \in Tasks : state[u] # "BlockedReply" => st[u] = state[u],
         \A u \in Tasks : st[u] \in {state[u], "Ready"},
         recv_inner(e, nonblock, st, q, rt, x, regs)
  PROVE  IInv'
<1> DEFINE snd == Head(waitq[e])
           st1 == [st EXCEPT ![snd] = "Running"]
<1>1. current \in Tasks /\ st[current] = "Running" /\ \A t \in Tasks : st[t] = "Running" => t = current
  BY OnlyCurrent
<1>2. CASE SenderWaits(e)
  <2>1. waitq' = [waitq EXCEPT ![e] = Tail(@)] /\ UNCHANGED <<current, parked>>
    BY <1>2 DEF recv_inner, wait_on
  <2>2. snd \in Tasks /\ snd # current /\ st[snd] \in Queued /\ Linked(st1, q, waitq', rt)
    BY <1>2, <2>1, Partner DEF SenderWaits
  <2>3. st \in [Tasks -> TaskState]
    BY DEF Linked, Typed
  <2>4. CASE /\ state' = [enqueue_state(st, rt[current]) EXCEPT ![snd] = "BlockedReply"]
             /\ ready' = enqueue(q, rt[current])
             /\ reply_to' = [rt EXCEPT ![current] = snd]
    <3> HIDE DEF snd
    <3> DEFINE n == [enqueue_state(st, rt[current]) EXCEPT ![snd] = "BlockedReply"]
    <3>1. Linked(n, enqueue(q, rt[current]), waitq', [rt EXCEPT ![current] = snd])
      BY <1>1, <2>2, ReceiveCall
    <3>2. \A t \in Tasks : n[t] = "Running" <=> st[t] = "Running"
      <4>1. CASE rt[current] = NoTask
        BY <2>2, <2>3, <4>1 DEF enqueue_state, Queued
      <4>2. CASE rt[current] # NoTask
        <5>1. rt[current] \in Tasks /\ st[rt[current]] = "BlockedReply"
          BY <1>1, <4>2 DEF Linked, Typed, RepliesFit
        <5>2. QED
          BY <2>2, <2>3, <4>2, <5>1 DEF enqueue_state, Queued
      <4>3. QED
        BY <4>1, <4>2
    <3>3. QED
      BY <1>1, <2>1, <2>4, <3>1, <3>2 DEF IInv, CurrentRuns, Runs
  <2>5. CASE state' = enqueue_state(st, snd) /\ ready' = enqueue(q, snd) /\ reply_to' = rt
    <3> HIDE DEF snd
    <3>1. st1[snd] \in Unlisted \ {"BlockedReply"}
      BY <2>2, <2>3 DEF Unlisted, TaskState, Queued
    <3>2. state' = [st EXCEPT ![snd] = "Ready"] /\ ready' = Append(q, snd)
      BY <2>2, <2>5, KernelAssumption DEF enqueue_state, enqueue
    <3>3. state' = [st1 EXCEPT ![snd] = "Ready"]
      BY <2>2, <2>3, <3>2
    <3>4. Linked(state', ready', waitq', reply_to')
      <4> HIDE DEF st1
      <4>1. Linked([st1 EXCEPT ![snd] = "Ready"], Append(q, snd), waitq', rt)
        BY <2>2, <3>1, Wake
      <4>2. QED
        BY <2>5, <3>2, <3>3, <4>1
    <3>5. \A t \in Tasks : state'[t] = "Running" <=> t = current
      BY <1>1, <2>2, <2>3, <3>2 DEF Queued
    <3>6. QED
      BY <1>1, <2>1, <3>4, <3>5 DEF IInv, CurrentRuns, Runs
  <2>6. QED
    BY <1>2, <2>4, <2>5 DEF recv_inner
<1>3. CASE ~SenderWaits(e) /\ nonblock
  <2>1. state' = st /\ ready' = q /\ reply_to' = rt /\ UNCHANGED <<current, waitq, parked>>
    BY <1>3 DEF recv_inner
  <2>2. QED
    BY <1>1, <2>1 DEF IInv, CurrentRuns, Runs
<1>4. CASE ~SenderWaits(e) /\ ~nonblock
  <2>1. wait_on(e, "BlockedRecv", st, q) /\ reply_to' = rt
    BY <1>4 DEF recv_inner
  <2>2. "BlockedRecv" \in Queued
    BY DEF Queued
  <2>3. \A u \in Tasks : In(u, waitq[e]) => state[u] = "BlockedRecv"
    BY <1>4, HeadTells
  <2>4. QED
    BY <2>1, <2>2, <2>3, WaitKeeps
<1>5. QED
  BY <1>2, <1>3, <1>4

\* RECV.
LEMMA ReceiveKeeps ==
  ASSUME IInv, NEW ep, NEW nonblock \in BOOLEAN, sys_recv(ep, nonblock)
  PROVE  IInv'
<1>1. CASE return(ep)
  BY <1>1, ReturnKeeps
<1>2. CASE ep \in Endpoints /\ recv_inner(ep, nonblock, state, ready, reply_to, x0, mr)
  <2>1. Runs /\ Linked(state, ready, waitq, reply_to)
    BY DEF sys_recv, IInv
  <2>2. QED
    BY <1>2, <2>1, RecvKeeps
<1>3. QED
  BY <1>1, <1>2 DEF sys_recv

\* REPLY_RECV: the reply phase wakes the caller, then the receive phase runs.
LEMMA ReplyRecvKeeps ==
  ASSUME IInv, NEW ep, NEW nonblock \in BOOLEAN, NEW m, sys_reply_recv(ep, nonblock, m)
  PROVE  IInv'
<1> DEFINE caller == reply_to[current]
           st == enqueue_state(state, caller)
           q == enqueue(ready, caller)
           rt == [reply_to EXCEPT ![current] = NoTask]
           x == IF caller = NoTask THEN x0 ELSE [x0 EXCEPT ![caller] = "ok"]
           y == deliver([mr EXCEPT ![current] = m], current, caller)
<1>0. Runs
  BY DEF sys_reply_recv
<1>1. CASE return(ep)
  BY <1>1, ReturnKeeps
<1>2. CASE ep \in Endpoints /\ recv_inner(ep, nonblock, st, q, rt, x, y)
  <2>1. current \in Tasks /\ Linked(state, ready, waitq, reply_to)
    BY DEF IInv
  <2>2. /\ Linked(st, q, waitq, rt)
        /\ caller # NoTask => caller \in Tasks /\ state[caller] = "BlockedReply"
    BY ONLY <2>1, WakeCaller
  <2>3. \A u \in Tasks : (state[u] # "BlockedReply" => st[u] = state[u]) /\ st[u] \in {state[u], "Ready"}
    BY <2>1, <2>2 DEF Linked, Typed, enqueue_state
  <2> HIDE DEF st, q, rt, x, y
  <2>4. QED
    BY <1>0, <1>2, <2>2, <2>3, RecvKeeps
<1>3. QED
  BY <1>1, <1>2 DEF sys_reply_recv

-----------------------------------------------------------------------------
(* Init and Next *)

\* After handoff only the root task is set up, and it runs.
LEMMA InitIInv ==
  ASSUME Init
  PROVE  IInv
<1>1. Root \in Tasks /\ NoTask \notin Tasks
  BY KernelAssumption
<1>2. \A t : ~In(t, <<>>)
  BY DEF In
<1>3. NoRepeats(<<>>)
  BY DEF NoRepeats
<1>4. Typed(state, ready, waitq, reply_to)
  BY <1>1 DEF Init, Typed, TaskState
<1>5. ListsFit(state, ready, waitq)
  BY <1>1, <1>2, <1>3 DEF Init, ListsFit, Queued
<1>6. RepliesFit(state, reply_to)
  BY <1>1 DEF Init, RepliesFit
<1>7. QED
  BY <1>1, <1>4, <1>5, <1>6 DEF Init, IInv, Linked, CurrentRuns

\* Every trap keeps the inductive invariant.
LEMMA NextIInv ==
  ASSUME IInv, [Next]_vars
  PROVE  IInv'
<1>1. CASE UNCHANGED vars
  BY <1>1 DEF vars, IInv, CurrentRuns
<1>2. CASE sys_yield
  BY <1>2, RotateKeeps DEF sys_yield
<1>3. CASE k0_preempt
  BY <1>3, RotateKeeps DEF k0_preempt
<1>4. CASE kill_current
  BY <1>4, KillKeeps
<1>5. CASE \E status \in {"ok"} \cup EpErrors : sys_object(status)
  BY <1>5, ReturnKeeps DEF sys_object
<1>6. CASE \E t \in (Tasks \ {Root}) \cup TcbErrors : sys_tcb_configure(t) \/ sys_tcb_resume(t)
  BY <1>6, ConfigureKeeps, ResumeKeeps
<1>7. ASSUME NEW ep \in Endpoints \cup EpErrors, NEW nonblock \in BOOLEAN, NEW m \in Msgs,
             \/ sys_send(ep, nonblock, m)
             \/ sys_recv(ep, nonblock)
             \/ sys_call(ep, nonblock, m)
             \/ sys_reply_recv(ep, nonblock, m)
      PROVE  IInv'
  BY <1>7, SendKeeps, ReceiveKeeps, CallKeeps, ReplyRecvKeeps
<1>8. QED
  BY <1>1, <1>2, <1>3, <1>4, <1>5, <1>6, <1>7 DEF Next, k0_syscall, k0_fault, park

-----------------------------------------------------------------------------
(* The message and result registers *)

RegsOK == x0 \in [Tasks -> Status] /\ mr \in [Tasks -> Msgs]

\* The receive phase writes statuses and messages only.
LEMMA RecvRegs ==
  ASSUME IInv, NEW e \in Endpoints, NEW nonblock \in BOOLEAN,
         NEW st, NEW q, NEW rt, NEW x \in [Tasks -> Status], NEW regs \in [Tasks -> Msgs],
         recv_inner(e, nonblock, st, q, rt, x, regs)
  PROVE  RegsOK'
<1>1. {"ok", "slot", "NO_REPLY", "WOULD_BLOCK"} \subseteq Status
  BY DEF Status
<1>2. current \in Tasks
  BY DEF IInv
<1>3. CASE SenderWaits(e)
  <2>1. Head(waitq[e]) \in Tasks
    BY <1>3, PopEp DEF IInv, SenderWaits
  <2> DEFINE snd == Head(waitq[e])
  <2> HIDE DEF snd
  <2>2. mr' = [regs EXCEPT ![current] = regs[snd]]
    BY <1>2, <1>3, KernelAssumption DEF recv_inner, deliver, snd
  <2>3. mr' \in [Tasks -> Msgs]
    BY <1>2, <2>1, <2>2 DEF snd
  <2>4. \/ x0' = [t \in Tasks |-> CASE t = rt[current] -> "NO_REPLY"
                                   [] t = current -> "ok"
                                   [] OTHER -> x[t]]
        \/ x0' = [x EXCEPT ![current] = "ok", ![snd] = "ok"]
    BY <1>3 DEF recv_inner, snd
  <2>5. x0' \in [Tasks -> Status]
    BY <1>1, <1>2, <2>1, <2>4 DEF snd
  <2>6. QED
    BY <2>3, <2>5 DEF RegsOK
<1>4. CASE ~SenderWaits(e)
  <2>1. mr' = regs /\ (x0' = [x EXCEPT ![current] = "WOULD_BLOCK"] \/ x0' = [x EXCEPT ![current] = "slot"])
    BY <1>4 DEF recv_inner
  <2>2. QED
    BY <1>1, <2>1 DEF RegsOK
<1>5. QED
  BY <1>3, <1>4

\* Every trap writes statuses and messages only.
LEMMA NextRegs ==
  ASSUME IInv, RegsOK, [Next]_vars
  PROVE  RegsOK'
<1>0. {"ok", "slot", "NO_REPLY", "WOULD_BLOCK", "BAD_STATE"} \cup EpErrors \cup TcbErrors \subseteq Status
  BY DEF Status
<1>00. ZeroMsg \in Msgs /\ NoTask \notin Tasks
  BY KernelAssumption
<1>01. current \in Tasks
  BY DEF IInv
<1>1. CASE UNCHANGED <<x0, mr>>
  BY <1>1 DEF RegsOK
<1>2. ASSUME NEW status \in Status, return(status) PROVE RegsOK'
  BY <1>2 DEF RegsOK, return
<1>3. CASE sys_yield
  BY <1>0, <1>3 DEF RegsOK, sys_yield
<1>4. CASE kill_current
  BY <1>0, <1>4 DEF RegsOK, kill_current
<1>5. CASE \E t : sys_tcb_configure(t) \/ sys_tcb_resume(t)
  BY <1>0, <1>00, <1>2, <1>5 DEF RegsOK, sys_tcb_configure, sys_tcb_resume
<1>6. ASSUME NEW ep, NEW nonblock \in BOOLEAN, NEW m \in Msgs, sys_send(ep, nonblock, m) PROVE RegsOK'
  BY <1>0, <1>01, <1>2, <1>6 DEF RegsOK, sys_send, deliver
<1>7. ASSUME NEW ep, NEW nonblock \in BOOLEAN, NEW m \in Msgs, sys_call(ep, nonblock, m) PROVE RegsOK'
  BY <1>0, <1>01, <1>2, <1>7 DEF RegsOK, sys_call, deliver
<1>8. ASSUME NEW ep, NEW nonblock \in BOOLEAN, sys_recv(ep, nonblock) PROVE RegsOK'
  BY <1>0, <1>2, <1>8, RecvRegs DEF RegsOK, sys_recv
<1>9. ASSUME NEW ep, NEW nonblock \in BOOLEAN, NEW m \in Msgs, sys_reply_recv(ep, nonblock, m) PROVE RegsOK'
  <2> DEFINE caller == reply_to[current]
             x == IF caller = NoTask THEN x0 ELSE [x0 EXCEPT ![caller] = "ok"]
             y == deliver([mr EXCEPT ![current] = m], current, caller)
  <2>1. x \in [Tasks -> Status] /\ y \in [Tasks -> Msgs]
    BY <1>0, <1>01 DEF RegsOK, deliver
  <2> HIDE DEF x, y
  <2>2. CASE ep \in EpErrors /\ return(ep)
    BY <1>0, <1>2, <2>2
  <2>3. CASE ep \in Endpoints /\ recv_inner(ep, nonblock, enqueue_state(state, caller), enqueue(ready, caller),
                                            [reply_to EXCEPT ![current] = NoTask], x, y)
    BY <2>1, <2>3, RecvRegs
  <2>4. QED
    BY <1>9, <2>2, <2>3 DEF sys_reply_recv, x, y
<1>10. CASE \E status \in {"ok"} \cup EpErrors : sys_object(status)
  BY <1>0, <1>2, <1>10 DEF sys_object
<1>11. QED
  BY <1>1, <1>3, <1>4, <1>5, <1>6, <1>7, <1>8, <1>9, <1>10 DEF Next, k0_syscall, k0_fault, k0_preempt, park, vars

-----------------------------------------------------------------------------
(* The ways through the task states *)

\* The states from which a wake-up leads to the ready queue.
Wakeable == {"Ready", "BlockedSend", "BlockedRecv", "BlockedReply"}

\* The steps that Lifecycle allows, spelt out.
Move(a, b) ==
  \/ a = b
  \/ a = "Inactive" /\ b = "Stopped"
  \/ a = "Stopped" /\ b = "Ready"
  \/ a = "Running" /\ b \in {"Ready", "Dead", "BlockedReply"} \cup Queued
  \/ a \in Wakeable /\ b \in {"Ready", "Running"}
  \/ a = "BlockedCall" /\ b = "BlockedReply"

\* A handler has dealt with the current task and woken some, not yet switched.
Halfway(st) == \A t \in Tasks : Move(state[t], st[t]) /\ (st[t] = "Ready" => state[t] \in Wakeable)

Moved == \A t \in Tasks : Move(state[t], state'[t])

\* The switch takes a ready task, which may run.
LEMMA SwitchMoves ==
  ASSUME NEW st, NEW q, NEW wq, NEW rt, NEW reason, Linked(st, q, wq, rt), Halfway(st),
         switch_or_park(st, q, reason)
  PROVE  Moved
<1>1. CASE q = <<>>
  BY <1>1 DEF switch_or_park, Halfway, Moved
<1>2. CASE q # <<>>
  <2>1. Head(q) \in Tasks /\ st[Head(q)] = "Ready" /\ state' = [st EXCEPT ![Head(q)] = "Running"]
    BY <1>2, PopReady DEF switch_or_park
  <2>2. st \in [Tasks -> TaskState]
    BY DEF Linked, Typed
  <2>3. state[Head(q)] \in Wakeable
    BY <2>1 DEF Halfway
  <2>4. QED
    BY <2>1, <2>2, <2>3 DEF Halfway, Moved, Move
<1>3. QED
  BY <1>1, <1>2

\* YIELD and the timer tick exchange the running task for a ready one.
LEMMA RotateMoves ==
  ASSUME IInv, Runs, rotate
  PROVE  Moved
<1>1. CASE ready = <<>>
  BY <1>1 DEF rotate, Moved, Move
<1>2. CASE ready # <<>>
  <2>1. Head(ready) \in Tasks /\ state[Head(ready)] = "Ready"
    BY <1>2, PopReady DEF IInv
  <2>2. state' = [state EXCEPT ![current] = "Ready", ![Head(ready)] = "Running"]
        /\ state \in [Tasks -> TaskState]
    BY <1>2 DEF rotate, IInv, Linked, Typed
  <2>3. QED
    BY <2>1, <2>2, OnlyCurrent DEF Moved, Move, Wakeable
<1>3. QED
  BY <1>1, <1>2

\* A wake-up of the caller that a task owes a reply is a move halfway.
LEMMA AbortMoves ==
  ASSUME IInv, NEW h \in Tasks
  PROVE  Halfway(enqueue_state(state, reply_to[h]))
<1>1. /\ reply_to[h] # NoTask => reply_to[h] \in Tasks /\ state[reply_to[h]] = "BlockedReply"
      /\ state \in [Tasks -> TaskState]
  BY WakeCaller DEF IInv, Linked, Typed
<1>2. QED
  BY <1>1 DEF Halfway, Move, Wakeable, enqueue_state

\* What the handler then does to the running task keeps it so.
LEMMA LeaveMoves ==
  ASSUME IInv, Runs, NEW st \in [Tasks -> TaskState], Halfway(st),
         NEW b \in {"Dead", "BlockedReply"} \cup Queued
  PROVE  Halfway([st EXCEPT ![current] = b])
BY OnlyCurrent DEF Halfway, Move, Queued

\* EXIT, an unknown call number and a fault.
LEMMA KillMoves ==
  ASSUME IInv, kill_current
  PROVE  Moved
<1> DEFINE st == enqueue_state(state, reply_to[current])
           n == [st EXCEPT ![current] = "Dead"]
<1>1. Runs /\ current \in Tasks /\ switch_or_park(n, enqueue(ready, reply_to[current]), "all tasks exited")
  BY DEF kill_current, exit_current, IInv
<1>2. Linked(n, enqueue(ready, reply_to[current]), waitq', reply_to')
  BY KillLinked
<1>3. Halfway(st) /\ st \in [Tasks -> TaskState]
  BY <1>1, AbortMoves, WakeCaller DEF IInv, Linked, Typed
<1> HIDE DEF st
<1>4. Halfway(n)
  BY <1>1, <1>3, LeaveMoves
<1> HIDE DEF n
<1>5. QED
  BY <1>1, <1>2, <1>4, SwitchMoves

\* The running task blocks in an endpoint queue.
LEMMA WaitMoves ==
  ASSUME IInv, Runs, NEW e \in Endpoints, NEW as \in Queued, NEW st, NEW q,
         Linked(st, q, waitq, reply_to'), Halfway(st),
         \A u \in Tasks : state[u] # "BlockedReply" => st[u] = state[u],
         \A u \in Tasks : st[u] \in {state[u], "Ready"},
         \A u \in Tasks : In(u, waitq[e]) => (state[u] = "BlockedRecv" <=> as = "BlockedRecv"),
         wait_on(e, as, st, q)
  PROVE  Moved
<1> DEFINE n == [st EXCEPT ![current] = as]
<1>1. Linked(n, q, waitq', reply_to')
  BY WaitLinked
<1>2. switch_or_park(n, q, "all tasks blocked")
  BY DEF wait_on, block_and_switch
<1>3. Halfway(n)
  BY LeaveMoves DEF Linked, Typed
<1> HIDE DEF n
<1>4. QED
  BY <1>1, <1>2, <1>3, SwitchMoves

\* SEND and CALL that find no receiver.
LEMMA OfferMoves ==
  ASSUME IInv, Runs, NEW e \in Endpoints, ~ReceiverWaits(e), NEW as \in {"BlockedSend", "BlockedCall"},
         wait_on(e, as, state, ready), UNCHANGED reply_to
  PROVE  Moved
<1>1. as \in Queued /\ as # "BlockedRecv" /\ Linked(state, ready, waitq, reply_to')
  BY DEF Queued, IInv
<1>2. \A u \in Tasks : In(u, waitq[e]) => (state[u] = "BlockedRecv" <=> as = "BlockedRecv")
  BY <1>1, HeadTells
<1>3. Halfway(state)
  BY DEF Halfway, Move, Wakeable
<1>4. QED
  BY <1>1, <1>2, <1>3, WaitMoves

\* SEND.
LEMMA SendMoves ==
  ASSUME IInv, NEW ep, NEW nonblock \in BOOLEAN, NEW m, sys_send(ep, nonblock, m)
  PROVE  Moved
<1>1. CASE UNCHANGED state
  BY <1>1 DEF Moved, Move
<1>2. CASE ep \in Endpoints /\ ReceiverWaits(ep) /\ state' = enqueue_state(state, Head(waitq[ep]))
  <2>1. Head(waitq[ep]) \in Tasks /\ state[Head(waitq[ep])] = "BlockedRecv" /\ state \in [Tasks -> TaskState]
    BY <1>2, PopEp DEF IInv, ReceiverWaits, Linked, Typed
  <2>2. QED
    BY <1>2, <2>1 DEF enqueue_state, Moved, Move, Wakeable
<1>3. CASE ep \in Endpoints /\ ~ReceiverWaits(ep) /\ wait_on(ep, "BlockedSend", state, ready) /\ UNCHANGED reply_to
  BY <1>3, OfferMoves DEF sys_send
<1>4. QED
  BY <1>1, <1>2, <1>3 DEF sys_send, return

\* CALL: the receiver and its old caller wake up, the running task waits.
LEMMA CallMoves ==
  ASSUME IInv, NEW ep, NEW nonblock \in BOOLEAN, NEW m, sys_call(ep, nonblock, m)
  PROVE  Moved
<1>0. Runs
  BY DEF sys_call
<1>1. CASE UNCHANGED state
  BY <1>1 DEF Moved, Move
<1>2. CASE /\ ep \in Endpoints /\ ReceiverWaits(ep)
           /\ LET rcv == Head(waitq[ep])
                  old == reply_to[rcv]
                  st  == [enqueue_state(state, old) EXCEPT ![current] = "BlockedReply"]
              IN  /\ waitq' = [waitq EXCEPT ![ep] = Tail(@)]
                  /\ reply_to' = [reply_to EXCEPT ![rcv] = current]
                  /\ block_and_switch(enqueue_state(st, rcv), enqueue(enqueue(ready, old), rcv))
  <2> DEFINE rcv == Head(waitq[ep])
             old == reply_to[rcv]
             st1 == enqueue_state(state, old)
             st2 == [st1 EXCEPT ![current] = "BlockedReply"]
             n   == enqueue_state(st2, rcv)
  <2>1. rcv \in Tasks /\ state[rcv] = "BlockedRecv"
    BY <1>2, PopEp DEF IInv, ReceiverWaits
  <2>2. Linked(n, enqueue(enqueue(ready, old), rcv), waitq', reply_to')
    BY <1>0, <1>2, CallMeets DEF ReceiverWaits
  <2>3. switch_or_park(n, enqueue(enqueue(ready, old), rcv), "all tasks blocked")
    BY <1>2 DEF block_and_switch
  <2>4. Halfway(st1) /\ st1 \in [Tasks -> TaskState]
    BY <2>1, AbortMoves, WakeCaller DEF IInv, Linked, Typed
  <2>5. Halfway(st2) /\ st2 \in [Tasks -> TaskState]
    <3> HIDE DEF st1
    <3>1. QED
      BY <1>0, <2>4, LeaveMoves DEF TaskState
  <2>6. Halfway(n)
    <3> HIDE DEF st2, rcv
    <3>1. QED
      BY <2>1, <2>5 DEF Halfway, Move, Wakeable, enqueue_state
  <2> HIDE DEF n
  <2>7. QED
    BY <2>2, <2>3, <2>6, SwitchMoves
<1>3. CASE ep \in Endpoints /\ ~ReceiverWaits(ep) /\ wait_on(ep, "BlockedCall", state, ready) /\ UNCHANGED reply_to
  BY <1>0, <1>3, OfferMoves
<1>4. QED
  BY <1>1, <1>2, <1>3 DEF sys_call, return

\* The receive phase, after a reply phase that left st, q and rt.
LEMMA RecvMoves ==
  ASSUME IInv, Runs, NEW e \in Endpoints, NEW nonblock \in BOOLEAN,
         NEW st, NEW q, NEW rt, NEW x, NEW regs, Linked(st, q, waitq, rt), Halfway(st),
         \A u \in Tasks : state[u] # "BlockedReply" => st[u] = state[u],
         \A u \in Tasks : st[u] \in {state[u], "Ready"},
         recv_inner(e, nonblock, st, q, rt, x, regs)
  PROVE  Moved
<1> DEFINE snd == Head(waitq[e])
<1>1. current \in Tasks /\ st \in [Tasks -> TaskState]
  BY DEF IInv, Linked, Typed
<1>2. CASE SenderWaits(e)
  <2>1. snd \in Tasks /\ st[snd] = state[snd] /\ state[snd] \in {"BlockedSend", "BlockedCall"}
    BY <1>2, Partner DEF SenderWaits, Queued
  <2>2. rt[current] # NoTask => rt[current] \in Tasks /\ st[rt[current]] = "BlockedReply"
    BY <1>1 DEF Linked, Typed, RepliesFit
  <2> HIDE DEF snd
  <2>3. CASE st[snd] = "BlockedCall" /\ state' = [enqueue_state(st, rt[current]) EXCEPT ![snd] = "BlockedReply"]
    <3>1. rt[current] # NoTask => state[rt[current]] = "BlockedReply"
      BY <2>2
    <3>2. QED
      BY <1>1, <2>1, <2>2, <2>3, <3>1 DEF Halfway, Moved, Move, Wakeable, enqueue_state
  <2>4. CASE st[snd] # "BlockedCall" /\ state' = enqueue_state(st, snd)
    BY <1>1, <2>1, <2>4 DEF Halfway, Moved, Move, Wakeable, enqueue_state
  <2>5. QED
    BY <1>2, <2>3, <2>4 DEF recv_inner, snd
<1>3. CASE state' = st
  BY <1>3 DEF Halfway, Moved
<1>4. CASE ~SenderWaits(e) /\ wait_on(e, "BlockedRecv", st, q) /\ reply_to' = rt
  <2>1. "BlockedRecv" \in Queued /\ \A u \in Tasks : In(u, waitq[e]) => state[u] = "BlockedRecv"
    BY <1>4, HeadTells DEF Queued
  <2>2. QED
    BY <1>4, <2>1, WaitMoves
<1>5. QED
  BY <1>2, <1>3, <1>4 DEF recv_inner

\* RECV and REPLY_RECV.
LEMMA ReceiveMoves ==
  ASSUME IInv, NEW ep, NEW nonblock \in BOOLEAN, NEW m,
         sys_recv(ep, nonblock) \/ sys_reply_recv(ep, nonblock, m)
  PROVE  Moved
<1> DEFINE caller == reply_to[current]
           st == enqueue_state(state, caller)
           q == enqueue(ready, caller)
           rt == [reply_to EXCEPT ![current] = NoTask]
           x == IF caller = NoTask THEN x0 ELSE [x0 EXCEPT ![caller] = "ok"]
           y == deliver([mr EXCEPT ![current] = m], current, caller)
<1>0. Runs /\ current \in Tasks /\ Linked(state, ready, waitq, reply_to)
  BY DEF sys_recv, sys_reply_recv, IInv
<1>1. CASE return(ep)
  BY <1>1 DEF return, Moved, Move
<1>2. CASE ep \in Endpoints /\ recv_inner(ep, nonblock, state, ready, reply_to, x0, mr)
  <2>1. Halfway(state)
    BY DEF Halfway, Move, Wakeable
  <2>2. QED
    BY <1>0, <1>2, <2>1, RecvMoves
<1>3. CASE ep \in Endpoints /\ recv_inner(ep, nonblock, st, q, rt, x, y)
  <2>1. Halfway(st)
    BY <1>0, AbortMoves
  <2>2. /\ Linked(st, q, waitq, rt)
        /\ \A u \in Tasks : state[u] # "BlockedReply" => st[u] = state[u]
        /\ \A u \in Tasks : st[u] \in {state[u], "Ready"}
    BY ONLY <1>0, WakeCaller
  <2> HIDE DEF st, q, rt, x, y
  <2>3. QED
    BY <1>0, <1>3, <2>1, <2>2, RecvMoves
<1>4. QED
  BY <1>1, <1>2, <1>3 DEF sys_recv, sys_reply_recv

\* Every trap moves every task along an allowed way.
LEMMA NextMoves ==
  ASSUME IInv, [Next]_vars
  PROVE  Moved
<1>1. CASE UNCHANGED state
  BY <1>1 DEF Moved, Move
<1>2. CASE sys_yield \/ k0_preempt
  BY <1>2, RotateMoves DEF sys_yield, k0_preempt
<1>3. CASE kill_current
  BY <1>3, KillMoves
<1>4. CASE \E t : sys_tcb_configure(t) \/ sys_tcb_resume(t)
  <2>1. PICK t : sys_tcb_configure(t) \/ sys_tcb_resume(t)
    BY <1>4
  <2>2. state \in [Tasks -> TaskState]
    BY DEF IInv, Linked, Typed
  <2>3. \/ UNCHANGED state
        \/ t \in Tasks /\ state[t] = "Inactive" /\ state' = [state EXCEPT ![t] = "Stopped"]
        \/ t \in Tasks /\ state[t] = "Stopped" /\ state' = [state EXCEPT ![t] = "Ready"]
    BY <2>1, KernelAssumption DEF sys_tcb_configure, sys_tcb_resume, return, enqueue_state
  <2>4. QED
    BY <2>2, <2>3 DEF Moved, Move
<1>5. ASSUME NEW ep, NEW nonblock \in BOOLEAN, NEW m,
             \/ sys_send(ep, nonblock, m) \/ sys_call(ep, nonblock, m)
             \/ sys_recv(ep, nonblock) \/ sys_reply_recv(ep, nonblock, m)
      PROVE  Moved
  BY <1>5, SendMoves, CallMoves, ReceiveMoves
<1>6. CASE \E status : sys_object(status)
  BY <1>6 DEF sys_object, return, Moved, Move
<1>7. QED
  BY <1>1, <1>2, <1>3, <1>4, <1>5, <1>6 DEF Next, k0_syscall, k0_fault, park, vars

-----------------------------------------------------------------------------
(* The theorems *)

\* The inductive invariant holds in every reachable state.
LEMMA AlwaysIInv == Spec => []IInv
BY InitIInv, NextIInv, PTL DEF Spec

\* Every state keeps the types of TCBs, queues and registers.
THEOREM TypeCorrect == Spec => []TypeOK
<1>1. Init => RegsOK
  BY KernelAssumption DEF Init, RegsOK, Status
<1>2. IInv /\ RegsOK /\ [Next]_vars => RegsOK'
  BY NextRegs
<1>3. IInv /\ RegsOK => TypeOK
  BY DEF IInv, RegsOK, TypeOK, Linked, Typed, ParkReasons
<1>4. QED
  BY <1>1, <1>2, <1>3, AlwaysIInv, PTL DEF Spec

\* Tcb.next is never claimed by two lists at once: push is only ever called
\* with a task that is in no queue, which its safety contract asks for.
THEOREM QueuesExclusive == Spec => []OneListPerTask
<1>1. IInv => OneListPerTask
  BY DEF IInv, Linked, ListsFit, OneListPerTask
<1>2. QED
  BY <1>1, AlwaysIInv, PTL

\* The head of an endpoint queue tells the direction of the whole queue.
THEOREM QueuesOneWay == Spec => []OneDirection
<1>1. IInv => OneDirection
  <2> SUFFICES ASSUME IInv, NEW e \in Endpoints, NEW i \in 1..Len(waitq[e]), NEW j \in 1..Len(waitq[e]),
                      state[waitq[e][i]] = "BlockedRecv"
               PROVE  state[waitq[e][j]] = "BlockedRecv"
    BY DEF OneDirection
  <2>1. waitq[e] \in Seq(Tasks)
    BY DEF IInv, Linked, Typed
  <2>2. waitq[e][i] \in Tasks /\ waitq[e][j] \in Tasks
    BY <2>1
  <2>3. In(waitq[e][i], waitq[e]) /\ In(waitq[e][j], waitq[e])
    BY DEF In
  <2>4. QED
    BY <2>2, <2>3 DEF IInv, Linked, ListsFit
<1>2. QED
  BY <1>1, AlwaysIInv, PTL

\* A task that waits for a reply is owed it by exactly one live task.
THEOREM CallersHaveServers == Spec => []NoOrphanedCaller
<1>1. IInv => NoOrphanedCaller
  BY DEF IInv, Linked, RepliesFit, NoOrphanedCaller, Live
<1>2. QED
  BY <1>1, AlwaysIInv, PTL

\* However CALLs nest, callers never wait for each other in a circle.
THEOREM RepliesAcyclic == Spec => []NoReplyCycle
<1>1. IInv => NoReplyCycle
  BY DEF IInv, Linked, RepliesFit, NoReplyCycle
<1>2. QED
  BY <1>1, AlwaysIInv, PTL

\* Sched.current is the one running task, and the core parks only when no
\* task is runnable.
THEOREM SchedulerInStep == Spec => []CurrentRuns
<1>1. IInv => CurrentRuns
  BY DEF IInv
<1>2. QED
  BY <1>1, AlwaysIInv, PTL
\* A dead task never comes back, a blocked one is never cut short, and only
\* TCB_CONFIGURE and then TCB_RESUME bring a new one to life.
THEOREM TaskStatesFollowLifecycle == Spec => Lifecycle
<1>1. IInv /\ [Next]_vars =>
        [\A t \in Tasks : state'[t] # state[t] =>
           <<state[t], state'[t]>> \in
             ({"Inactive"} \X {"Stopped"}) \cup ({"Stopped"} \X {"Ready"})
             \cup ({"Running"} \X ({"Ready", "Dead", "BlockedReply"} \cup Queued))
             \cup ({"Ready", "BlockedSend", "BlockedRecv", "BlockedReply"} \X {"Ready", "Running"})
             \cup ({"BlockedCall"} \X {"BlockedReply"})]_vars
  <2> SUFFICES ASSUME IInv, [Next]_vars, NEW t \in Tasks, state'[t] # state[t]
               PROVE  <<state[t], state'[t]>> \in
             ({"Inactive"} \X {"Stopped"}) \cup ({"Stopped"} \X {"Ready"})
             \cup ({"Running"} \X ({"Ready", "Dead", "BlockedReply"} \cup Queued))
             \cup ({"Ready", "BlockedSend", "BlockedRecv", "BlockedReply"} \X {"Ready", "Running"})
             \cup ({"BlockedCall"} \X {"BlockedReply"})
    OBVIOUS
  <2>1. Move(state[t], state'[t])
    BY NextMoves DEF Moved
  <2>2. QED
    BY <2>1 DEF Move, Wakeable
<1>2. QED
  BY <1>1, AlwaysIInv, PTL DEF Spec, Lifecycle

-----------------------------------------------------------------------------
(* Result registers *)

Waits == Queued \cup {"BlockedReply"}

\* ResultWritten, for given values.
Told(st, x) == \A t \in Tasks : x[t] = "slot" <=> st[t] \in Waits

\* The switch takes a ready task, whose result is written.
LEMMA SwitchTells ==
  ASSUME NEW st, NEW q, NEW wq, NEW rt, NEW reason, NEW x, Linked(st, q, wq, rt), Told(st, x),
         switch_or_park(st, q, reason)
  PROVE  Told(state', x)
<1>1. CASE q = <<>>
  BY <1>1 DEF switch_or_park
<1>2. CASE q # <<>>
  <2>1. Head(q) \in Tasks /\ st[Head(q)] = "Ready" /\ state' = [st EXCEPT ![Head(q)] = "Running"]
    BY <1>2, PopReady DEF switch_or_park
  <2>2. st \in [Tasks -> TaskState]
    BY DEF Linked, Typed
  <2> QED
    BY <2>1, <2>2 DEF Told, Waits, Queued
<1> QED
  BY <1>1, <1>2

\* A task is woken and its result, which is none of its arguments, written.
LEMMA WakeTells ==
  ASSUME NEW st \in [Tasks -> TaskState], NEW x \in [Tasks -> Status], Told(st, x),
         NEW t \in Tasks, NEW r \in Status \ {"slot"}
  PROVE  /\ Told(enqueue_state(st, t), [x EXCEPT ![t] = r])
         /\ enqueue_state(st, t) \in [Tasks -> TaskState]
         /\ [x EXCEPT ![t] = r] \in [Tasks -> Status]
<1>1. enqueue_state(st, t) = [st EXCEPT ![t] = "Ready"]
  BY KernelAssumption DEF enqueue_state
<1> QED
  BY <1>1 DEF Told, Waits, Queued, TaskState

\* A task goes on waiting, or begins to, with its argument in the register.
LEMMA BlockTells ==
  ASSUME NEW st \in [Tasks -> TaskState], NEW x \in [Tasks -> Status], Told(st, x),
         NEW t \in Tasks, NEW as \in Waits
  PROVE  Told([st EXCEPT ![t] = as], [x EXCEPT ![t] = "slot"])
BY DEF Told

\* A result for a task that does not wait changes nothing.
LEMMA ReturnTells ==
  ASSUME NEW st \in [Tasks -> TaskState], NEW x \in [Tasks -> Status], Told(st, x),
         NEW t \in Tasks, st[t] \notin Waits, NEW r \in Status \ {"slot"}
  PROVE  Told(st, [x EXCEPT ![t] = r])
BY DEF Told

\* abort_reply and the reply phase: the caller that h owes a reply, if any.
LEMMA CallerTold ==
  ASSUME NEW st, NEW q, NEW wq, NEW rt, Linked(st, q, wq, rt), NEW x \in [Tasks -> Status], Told(st, x),
         NEW h \in Tasks, NEW r \in Status \ {"slot"}
  PROVE  LET y == IF rt[h] = NoTask THEN x ELSE [x EXCEPT ![rt[h]] = r]
         IN  Told(enqueue_state(st, rt[h]), y) /\ y \in [Tasks -> Status]
<1>1. st \in [Tasks -> TaskState] /\ rt[h] \in Tasks \cup {NoTask}
  BY DEF Linked, Typed
<1>2. CASE rt[h] = NoTask
  BY <1>2 DEF enqueue_state
<1>3. CASE rt[h] # NoTask
  BY <1>1, <1>3, WakeTells
<1> QED
  BY <1>2, <1>3

\* YIELD and the timer tick exchange two tasks that do not wait.
LEMMA RotateTells ==
  ASSUME IInv, Runs, rotate, NEW x, Told(state, x)
  PROVE  Told(state', x)
<1>1. CASE ready = <<>>
  BY <1>1 DEF rotate
<1>2. CASE ready # <<>>
  <2>1. Head(ready) \in Tasks /\ state[Head(ready)] = "Ready"
    BY <1>2, PopReady DEF IInv
  <2>2. state' = [state EXCEPT ![current] = "Ready", ![Head(ready)] = "Running"]
        /\ state \in [Tasks -> TaskState]
    BY <1>2 DEF rotate, IInv, Linked, Typed
  <2> QED
    BY <2>1, <2>2, OnlyCurrent DEF Told, Waits, Queued
<1> QED
  BY <1>1, <1>2

\* EXIT, an unknown call number and a fault.
LEMMA KillTells ==
  ASSUME IInv, RegsOK, ResultWritten, kill_current
  PROVE  Told(state', x0')
<1> DEFINE st == enqueue_state(state, reply_to[current])
           n == [st EXCEPT ![current] = "Dead"]
<1>1. Runs /\ current \in Tasks /\ switch_or_park(n, enqueue(ready, reply_to[current]), "all tasks exited")
  BY DEF kill_current, exit_current, IInv
<1>2. Linked(n, enqueue(ready, reply_to[current]), waitq', reply_to')
  BY KillLinked
<1>3. Told(state, x0) /\ x0 \in [Tasks -> Status] /\ "NO_REPLY" \in Status \ {"slot"}
  BY DEF ResultWritten, Told, Waits, RegsOK, Status
<1>4. Told(st, x0') /\ x0' \in [Tasks -> Status]
  BY <1>1, <1>3, CallerTold DEF IInv, kill_current
<1>5. st \in [Tasks -> TaskState] /\ st[current] = "Running"
  <2>1. current \in Tasks /\ state[current] = "Running" /\ Linked(state, ready, waitq, reply_to)
    BY <1>1, OnlyCurrent DEF IInv
  <2>2. /\ Linked(st, enqueue(ready, reply_to[current]), waitq, [reply_to EXCEPT ![current] = NoTask])
        /\ \A u \in Tasks : state[u] # "BlockedReply" => st[u] = state[u]
    BY ONLY <2>1, WakeCaller
  <2> QED
    BY <2>1, <2>2 DEF Linked, Typed
<1>6. Told(n, x0')
  <2> HIDE DEF st
  <2> QED
    BY <1>1, <1>4, <1>5 DEF Told, Waits, Queued
<1> HIDE DEF n, st
<1> QED
  BY <1>1, <1>2, <1>6, SwitchTells

\* The running task blocks in an endpoint queue.
LEMMA WaitTells ==
  ASSUME IInv, Runs, NEW e \in Endpoints, NEW as \in Queued, NEW st, NEW q,
         NEW x \in [Tasks -> Status], Told(st, x),
         Linked(st, q, waitq, reply_to'),
         \A u \in Tasks : state[u] # "BlockedReply" => st[u] = state[u],
         \A u \in Tasks : st[u] \in {state[u], "Ready"},
         \A u \in Tasks : In(u, waitq[e]) => (state[u] = "BlockedRecv" <=> as = "BlockedRecv"),
         wait_on(e, as, st, q), x0' = [x EXCEPT ![current] = "slot"]
  PROVE  Told(state', x0')
<1> DEFINE n == [st EXCEPT ![current] = as]
<1>1. Linked(n, q, waitq', reply_to')
  BY WaitLinked
<1>2. switch_or_park(n, q, "all tasks blocked")
  BY DEF wait_on, block_and_switch
<1>3. Told(n, x0')
  BY BlockTells DEF Linked, Typed, Waits, IInv
<1> HIDE DEF n
<1> QED
  BY <1>1, <1>2, <1>3, SwitchTells

\* SEND and CALL that find no receiver.
LEMMA OfferTells ==
  ASSUME IInv, Runs, RegsOK, ResultWritten, NEW e \in Endpoints, ~ReceiverWaits(e),
         NEW as \in {"BlockedSend", "BlockedCall"},
         wait_on(e, as, state, ready), x0' = [x0 EXCEPT ![current] = "slot"], UNCHANGED reply_to
  PROVE  Told(state', x0')
<1>1. as \in Queued /\ as # "BlockedRecv" /\ Linked(state, ready, waitq, reply_to')
  BY DEF Queued, IInv
<1>2. \A u \in Tasks : In(u, waitq[e]) => (state[u] = "BlockedRecv" <=> as = "BlockedRecv")
  BY <1>1, HeadTells
<1>3. Told(state, x0) /\ x0 \in [Tasks -> Status]
  BY DEF ResultWritten, Told, Waits, RegsOK
<1> QED
  BY <1>1, <1>2, <1>3, WaitTells

\* Any result of the running task.
LEMMA CurrentTold ==
  ASSUME IInv, Runs, RegsOK, ResultWritten, NEW r \in Status \ {"slot"}
  PROVE  Told(state, [x0 EXCEPT ![current] = r]) /\ [x0 EXCEPT ![current] = r] \in [Tasks -> Status]
<1>1. Told(state, x0) /\ x0 \in [Tasks -> Status] /\ state \in [Tasks -> TaskState]
  BY DEF ResultWritten, Told, Waits, RegsOK, IInv, Linked, Typed
<1>2. current \in Tasks /\ state[current] \notin Waits
  BY OnlyCurrent DEF Waits, Queued
<1> QED
  BY <1>1, <1>2, ReturnTells

\* SEND.
LEMMA SendTells ==
  ASSUME IInv, RegsOK, ResultWritten, NEW ep, NEW nonblock \in BOOLEAN, NEW m, sys_send(ep, nonblock, m)
  PROVE  Told(state', x0')
<1>0. Runs /\ {"ok", "WOULD_BLOCK"} \cup EpErrors \subseteq Status \ {"slot"}
  BY DEF sys_send, Status, EpErrors
<1>1. ASSUME NEW r \in Status \ {"slot"}, return(r)
      PROVE  Told(state', x0')
  BY <1>0, <1>1, CurrentTold DEF return
<1>2. CASE /\ ep \in Endpoints /\ ReceiverWaits(ep) /\ state' = enqueue_state(state, Head(waitq[ep]))
           /\ x0' = [x0 EXCEPT ![current] = "ok", ![Head(waitq[ep])] = "ok"]
  <2> DEFINE x == [x0 EXCEPT ![current] = "ok"]
             rcv == Head(waitq[ep])
  <2>1. rcv \in Tasks /\ state \in [Tasks -> TaskState]
    BY <1>2, PopEp DEF IInv, ReceiverWaits, Linked, Typed
  <2>2. Told(state, x) /\ x \in [Tasks -> Status]
    BY <1>0, CurrentTold
  <2>3. x0' = [x EXCEPT ![rcv] = "ok"]
    BY <1>2
  <2>4. state' = enqueue_state(state, rcv) /\ "ok" \in Status \ {"slot"}
    BY <1>0, <1>2
  <2> HIDE DEF x, rcv
  <2> QED
    BY <2>1, <2>2, <2>3, <2>4, WakeTells
<1>3. CASE /\ ep \in Endpoints /\ ~ReceiverWaits(ep) /\ wait_on(ep, "BlockedSend", state, ready)
           /\ x0' = [x0 EXCEPT ![current] = "slot"] /\ UNCHANGED reply_to
  BY <1>0, <1>3, OfferTells
<1> QED
  BY <1>0, <1>1, <1>2, <1>3 DEF sys_send

\* CALL: the receiver and its old caller get a result, the running task waits.
LEMMA CallTells ==
  ASSUME IInv, RegsOK, ResultWritten, NEW ep, NEW nonblock \in BOOLEAN, NEW m, sys_call(ep, nonblock, m)
  PROVE  Told(state', x0')
<1>0. Runs /\ {"ok", "WOULD_BLOCK", "NO_REPLY"} \cup EpErrors \subseteq Status \ {"slot"}
  BY DEF sys_call, Status, EpErrors
<1>1. ASSUME NEW r \in Status \ {"slot"}, return(r)
      PROVE  Told(state', x0')
  BY <1>0, <1>1, CurrentTold DEF return
<1>2. CASE /\ ep \in Endpoints /\ ReceiverWaits(ep)
           /\ LET rcv == Head(waitq[ep])
                  old == reply_to[rcv]
                  st  == [enqueue_state(state, old) EXCEPT ![current] = "BlockedReply"]
              IN  /\ waitq' = [waitq EXCEPT ![ep] = Tail(@)]
                  /\ x0' = [t \in Tasks |-> CASE t = old -> "NO_REPLY"
                                              [] t = rcv -> "ok"
                                              [] t = current -> "slot"
                                              [] OTHER -> x0[t]]
                  /\ reply_to' = [reply_to EXCEPT ![rcv] = current]
                  /\ block_and_switch(enqueue_state(st, rcv), enqueue(enqueue(ready, old), rcv))
  <2> DEFINE rcv == Head(waitq[ep])
             old == reply_to[rcv]
             st1 == enqueue_state(state, old)
             x1  == IF old = NoTask THEN x0 ELSE [x0 EXCEPT ![old] = "NO_REPLY"]
             st2 == [st1 EXCEPT ![current] = "BlockedReply"]
             x2  == [x1 EXCEPT ![current] = "slot"]
             n   == enqueue_state(st2, rcv)
             x3  == [x2 EXCEPT ![rcv] = "ok"]
  <2>1. rcv \in Tasks /\ state[rcv] = "BlockedRecv" /\ Linked(state, ready, waitq, reply_to)
    BY <1>2, PopEp DEF IInv, ReceiverWaits
  <2>2. Linked(n, enqueue(enqueue(ready, old), rcv), waitq', reply_to')
    BY <1>0, <1>2, CallMeets DEF ReceiverWaits
  <2>3. switch_or_park(n, enqueue(enqueue(ready, old), rcv), "all tasks blocked")
    BY <1>2 DEF block_and_switch
  <2>4. Told(state, x0) /\ x0 \in [Tasks -> Status] /\ "NO_REPLY" \in Status \ {"slot"}
        /\ "ok" \in Status \ {"slot"} /\ "slot" \in Status
    BY <1>0 DEF ResultWritten, Told, Waits, RegsOK, Status
  <2>5. Told(st1, x1) /\ x1 \in [Tasks -> Status]
    BY <2>1, <2>4, CallerTold
  <2>6. st1 \in [Tasks -> TaskState]
    BY <2>1, WakeCaller DEF Linked, Typed
  <2>7. current \in Tasks /\ state[current] = "Running"
    BY <1>0, OnlyCurrent
  <2>8. old # NoTask => old \in Tasks /\ state[old] = "BlockedReply"
    BY <2>1 DEF Linked, Typed, RepliesFit
  <2>9. Told(st2, x2) /\ st2 \in [Tasks -> TaskState] /\ x2 \in [Tasks -> Status]
    <3> HIDE DEF st1, x1
    <3>1. "BlockedReply" \in Waits /\ "BlockedReply" \in TaskState
      BY DEF Waits, TaskState
    <3> QED
      BY <2>4, <2>5, <2>6, <2>7, <3>1, BlockTells
  <2>10. Told(n, x3)
    <3> HIDE DEF st2, x2, rcv
    <3> QED
      BY <2>1, <2>4, <2>9, WakeTells
  <2>11. \A t \in Tasks : x0'[t] = x3[t]
    <3>1. rcv # current /\ old # rcv /\ old # current
      BY <2>1, <2>7, <2>8, KernelAssumption
    <3>2. x0' = [t \in Tasks |-> CASE t = old -> "NO_REPLY"
                                   [] t = rcv -> "ok"
                                   [] t = current -> "slot"
                                   [] OTHER -> x0[t]]
      BY <1>2
    <3> HIDE DEF old, rcv
    <3>3. \A t \in Tasks : x1[t] = IF t = old THEN "NO_REPLY" ELSE x0[t]
      BY <2>4, <2>8, KernelAssumption
    <3>4. x1 \in [Tasks -> Status]
      BY <2>5
    <3> HIDE DEF x1
    <3>5. \A t \in Tasks : x3[t] = IF t = rcv THEN "ok" ELSE IF t = current THEN "slot" ELSE x1[t]
      BY <2>1, <2>7, <3>4
    <3> HIDE DEF x3
    <3> QED
      BY <3>1, <3>2, <3>3, <3>5
  <2>12. Told(n, x0')
    BY <2>10, <2>11 DEF Told
  <2> HIDE DEF n
  <2> QED
    BY <2>2, <2>3, <2>12, SwitchTells
<1>3. CASE /\ ep \in Endpoints /\ ~ReceiverWaits(ep) /\ wait_on(ep, "BlockedCall", state, ready)
           /\ x0' = [x0 EXCEPT ![current] = "slot"] /\ UNCHANGED reply_to
  BY <1>0, <1>3, OfferTells
<1> QED
  BY <1>0, <1>1, <1>2, <1>3 DEF sys_call

\* The receive phase, after a reply phase that left st, q, rt and x.
LEMMA RecvTells ==
  ASSUME IInv, Runs, NEW e \in Endpoints, NEW nonblock \in BOOLEAN,
         NEW st, NEW q, NEW rt, NEW x \in [Tasks -> Status], NEW regs, Linked(st, q, waitq, rt), Told(st, x),
         \A u \in Tasks : state[u] # "BlockedReply" => st[u] = state[u],
         \A u \in Tasks : st[u] \in {state[u], "Ready"},
         recv_inner(e, nonblock, st, q, rt, x, regs)
  PROVE  Told(state', x0')
<1> DEFINE snd == Head(waitq[e])
           old == rt[current]
<1>1. st \in [Tasks -> TaskState] /\ {"ok", "WOULD_BLOCK", "NO_REPLY"} \subseteq Status \ {"slot"}
  BY DEF Linked, Typed, Status, EpErrors
<1>2. current \in Tasks /\ st[current] = "Running"
  BY OnlyCurrent
<1>3. st[current] \notin Waits
  BY <1>2 DEF Waits, Queued
<1>4. CASE SenderWaits(e)
  <2>1. snd \in Tasks /\ st[snd] = state[snd] /\ state[snd] \in {"BlockedSend", "BlockedCall"}
    BY <1>4, Partner DEF SenderWaits, Queued
  <2>2. CASE /\ st[snd] = "BlockedCall" /\ state' = [enqueue_state(st, old) EXCEPT ![snd] = "BlockedReply"]
             /\ x0' = [t \in Tasks |-> CASE t = old -> "NO_REPLY"
                                         [] t = current -> "ok"
                                         [] OTHER -> x[t]]
    <3> DEFINE st1 == enqueue_state(st, old)
               x1 == IF old = NoTask THEN x ELSE [x EXCEPT ![old] = "NO_REPLY"]
    <3>1. Told(st1, x1) /\ x1 \in [Tasks -> Status]
      BY <1>1, <1>2, CallerTold
    <3>2. /\ old # NoTask => old \in Tasks /\ st[old] = "BlockedReply"
          /\ \A u \in Tasks : st[u] # "BlockedReply" => st1[u] = st[u]
      <4>1. old # NoTask => old \in Tasks /\ st[old] = "BlockedReply"
        BY <1>2 DEF Linked, Typed, RepliesFit
      <4> HIDE DEF old
      <4> QED
        BY <1>1, <4>1 DEF enqueue_state
    <3>3. st1 \in [Tasks -> TaskState]
      BY <1>2, WakeCaller DEF Linked, Typed
    <3>4. st1[current] = "Running" /\ st1[snd] = "BlockedCall"
      BY <1>2, <2>1, <2>2, <3>2
    <3>5. \A t \in Tasks : x1[t] = IF t = old THEN "NO_REPLY" ELSE x[t]
      BY <1>1, <3>2, KernelAssumption
    <3>6. \A t \in Tasks : x0'[t] = IF t = current THEN "ok" ELSE x1[t]
      <4>1. old # current
        BY <1>2, <3>2, KernelAssumption
      <4> HIDE DEF old, x1
      <4> QED
        BY <2>2, <3>5, <4>1
    <3>7. state' = [st1 EXCEPT ![snd] = "BlockedReply"]
      BY <2>2
    <3> HIDE DEF st1, x1, snd, old
    <3>8. \A t \in Tasks : state'[t] \in Waits <=> st1[t] \in Waits
      BY <2>1, <3>3, <3>4, <3>7 DEF Waits, Queued
    <3>9. "Running" \notin Waits
      BY DEF Waits, Queued
    <3> QED
      BY <1>2, <3>1, <3>4, <3>6, <3>8, <3>9 DEF Told
  <2>3. CASE /\ st[snd] # "BlockedCall" /\ state' = enqueue_state(st, snd)
             /\ x0' = [x EXCEPT ![current] = "ok", ![snd] = "ok"]
    <3> DEFINE y == [x EXCEPT ![current] = "ok"]
    <3>1. Told(st, y) /\ y \in [Tasks -> Status]
      BY <1>1, <1>2, <1>3, ReturnTells
    <3>2. x0' = [y EXCEPT ![snd] = "ok"] /\ state' = enqueue_state(st, snd)
      BY <2>3
    <3> HIDE DEF y, snd
    <3> QED
      BY <1>1, <2>1, <3>1, <3>2, WakeTells
  <2> QED
    BY <1>4, <2>2, <2>3 DEF recv_inner
<1>5. CASE state' = st /\ x0' = [x EXCEPT ![current] = "WOULD_BLOCK"]
  BY <1>1, <1>2, <1>3, <1>5, ReturnTells
<1>6. CASE ~SenderWaits(e) /\ wait_on(e, "BlockedRecv", st, q) /\ reply_to' = rt /\ x0' = [x EXCEPT ![current] = "slot"]
  <2>1. "BlockedRecv" \in Queued /\ \A u \in Tasks : In(u, waitq[e]) => state[u] = "BlockedRecv"
    BY <1>6, HeadTells DEF Queued
  <2> QED
    BY <1>6, <2>1, WaitTells
<1> QED
  BY <1>4, <1>5, <1>6 DEF recv_inner

\* RECV and REPLY_RECV.
LEMMA ReceiveTells ==
  ASSUME IInv, RegsOK, ResultWritten, NEW ep, NEW nonblock \in BOOLEAN, NEW m,
         sys_recv(ep, nonblock) \/ sys_reply_recv(ep, nonblock, m)
  PROVE  Told(state', x0')
<1> DEFINE caller == reply_to[current]
           st == enqueue_state(state, caller)
           q == enqueue(ready, caller)
           rt == [reply_to EXCEPT ![current] = NoTask]
           x == IF caller = NoTask THEN x0 ELSE [x0 EXCEPT ![caller] = "ok"]
           y == deliver([mr EXCEPT ![current] = m], current, caller)
<1>0. Runs /\ current \in Tasks /\ Linked(state, ready, waitq, reply_to)
  BY DEF sys_recv, sys_reply_recv, IInv
<1>1. Told(state, x0) /\ x0 \in [Tasks -> Status] /\ "ok" \in Status \ {"slot"} /\ EpErrors \subseteq Status \ {"slot"}
  BY DEF ResultWritten, Told, Waits, RegsOK, Status, EpErrors
<1>2. CASE ep \in EpErrors /\ return(ep)
  BY <1>0, <1>1, <1>2, CurrentTold DEF return
<1>3. CASE ep \in Endpoints /\ recv_inner(ep, nonblock, state, ready, reply_to, x0, mr)
  BY <1>0, <1>1, <1>3, RecvTells
<1>4. CASE ep \in Endpoints /\ recv_inner(ep, nonblock, st, q, rt, x, y)
  <2>1. /\ Linked(st, q, waitq, rt)
        /\ \A u \in Tasks : state[u] # "BlockedReply" => st[u] = state[u]
        /\ \A u \in Tasks : st[u] \in {state[u], "Ready"}
    BY ONLY <1>0, WakeCaller
  <2>2. Told(st, x) /\ x \in [Tasks -> Status]
    BY <1>0, <1>1, CallerTold
  <2> HIDE DEF st, q, rt, x, y
  <2> QED
    BY <1>0, <1>4, <2>1, <2>2, RecvTells
<1> QED
  BY <1>2, <1>3, <1>4 DEF sys_recv, sys_reply_recv

\* TCB_CONFIGURE and TCB_RESUME: a new task starts with a result.
LEMMA TcbTells ==
  ASSUME IInv, RegsOK, ResultWritten, NEW t, sys_tcb_configure(t) \/ sys_tcb_resume(t)
  PROVE  Told(state', x0')
<1>0. Runs /\ {"ok", "BAD_STATE"} \cup TcbErrors \subseteq Status \ {"slot"}
  BY DEF sys_tcb_configure, sys_tcb_resume, Status, TcbErrors
<1>1. ASSUME NEW r \in Status \ {"slot"}, return(r)
      PROVE  Told(state', x0')
  BY <1>0, <1>1, CurrentTold DEF return
<1> DEFINE x == [x0 EXCEPT ![current] = "ok"]
<1>2. Told(state, x0) /\ Told(state, x) /\ x0 \in [Tasks -> Status] /\ state \in [Tasks -> TaskState] /\ current \in Tasks
  BY <1>0, CurrentTold DEF ResultWritten, Told, Waits, RegsOK, IInv, Linked, Typed
<1>3. CASE /\ t \in Tasks /\ state[t] = "Inactive" /\ state' = [state EXCEPT ![t] = "Stopped"]
           /\ x0' = [x0 EXCEPT ![t] = "ok", ![current] = "ok"]
  BY <1>2, <1>3 DEF Told, Waits, Queued
<1>4. CASE /\ t \in Tasks /\ state[t] = "Stopped" /\ state' = enqueue_state(state, t) /\ x0' = x
  <2>1. state' = [state EXCEPT ![t] = "Ready"]
    BY <1>4, KernelAssumption DEF enqueue_state
  <2> HIDE DEF x
  <2> QED
    BY <1>2, <1>4, <2>1 DEF Told, Waits, Queued
<1>5. CASE \E r \in Status \ {"slot"} : return(r)
  BY <1>1, <1>5
<1> HIDE DEF x
<1> QED
  BY <1>0, <1>3, <1>4, <1>5 DEF sys_tcb_configure, sys_tcb_resume, x

\* Every trap that ends a wait writes the result.
LEMMA NextTells ==
  ASSUME IInv, RegsOK, ResultWritten, [Next]_vars
  PROVE  ResultWritten'
<1> SUFFICES Told(state', x0')
  BY DEF Told, ResultWritten, Waits
<1>0. Told(state, x0) /\ {"ok"} \cup EpErrors \subseteq Status \ {"slot"}
  BY DEF ResultWritten, Told, Waits, Status, EpErrors
<1>1. CASE UNCHANGED <<state, x0>>
  BY <1>0, <1>1
<1>2. CASE k0_preempt
  BY <1>0, <1>2, RotateTells DEF k0_preempt
<1>3. CASE sys_yield
  BY <1>0, <1>3, RotateTells, CurrentTold DEF sys_yield
<1>4. CASE kill_current
  BY <1>4, KillTells
<1>5. CASE \E t : sys_tcb_configure(t) \/ sys_tcb_resume(t)
  BY <1>5, TcbTells
<1>6. ASSUME NEW ep, NEW nonblock \in BOOLEAN, NEW m,
             \/ sys_send(ep, nonblock, m) \/ sys_call(ep, nonblock, m)
             \/ sys_recv(ep, nonblock) \/ sys_reply_recv(ep, nonblock, m)
      PROVE  Told(state', x0')
  BY <1>6, SendTells, CallTells, ReceiveTells
<1>7. CASE \E status \in {"ok"} \cup EpErrors : sys_object(status)
  BY <1>0, <1>7, CurrentTold DEF sys_object, return
<1> QED
  BY <1>1, <1>2, <1>3, <1>4, <1>5, <1>6, <1>7 DEF Next, k0_syscall, k0_fault, park, vars

\* A task that blocked in a call goes on with the status that whoever ended
\* its wait has written, never with its own argument: each of send, call, recv,
\* reply and abort_reply writes it.
THEOREM ResultsAlwaysWritten == Spec => []ResultWritten
<1>1. Init => RegsOK /\ ResultWritten
  BY KernelAssumption DEF Init, RegsOK, ResultWritten, Status, Queued
<1>2. IInv /\ RegsOK /\ ResultWritten /\ [Next]_vars => RegsOK' /\ ResultWritten'
  BY NextRegs, NextTells
<1> QED
  BY <1>1, <1>2, AlwaysIInv, PTL DEF Spec

-----------------------------------------------------------------------------
(* Order of service *)

\* r is q with some tasks added at its tail.
Longer(q, r) == r \in Seq(Tasks) /\ Len(q) <= Len(r) /\ \A i \in 1..Len(q) : r[i] = q[i]

\* What a step does to the queue of an endpoint.
EpStep(e) == \/ waitq'[e] \in {waitq[e], Append(waitq[e], current)}
             \/ waitq[e] # <<>> /\ waitq'[e] = Tail(waitq[e])

Ordered == FifoStep(ready, ready') /\ \A e \in Endpoints : EpStep(e)

\* enqueue adds at the tail.
LEMMA LongerEnqueue ==
  ASSUME NEW q \in Seq(Tasks), NEW r, Longer(q, r), NEW c \in Tasks \cup {NoTask}
  PROVE  Longer(q, enqueue(r, c))
<1>1. CASE c = NoTask
  BY <1>1 DEF enqueue
<1>2. CASE c # NoTask
  <2>1. enqueue(r, c) = Append(r, c) /\ c \in Tasks /\ r \in Seq(Tasks)
    BY <1>2 DEF enqueue, Longer
  <2>2. /\ Append(r, c) \in Seq(Tasks) /\ Len(Append(r, c)) = Len(r) + 1
        /\ \A i \in 1..Len(r) : Append(r, c)[i] = r[i]
    BY <2>1
  <2>3. Len(q) \in Nat /\ Len(r) \in Nat
    BY <2>1
  <2> QED
    BY <2>1, <2>2, <2>3 DEF Longer
<1> QED
  BY <1>1, <1>2

\* Tasks that only join keep the order.
LEMMA LongerServes ==
  ASSUME NEW q \in Seq(Tasks), NEW r, Longer(q, r)
  PROVE  FifoStep(q, r)
<1>1. Len(q) \in Nat /\ Len(r) \in Nat /\ Len(q) <= Len(r)
  BY DEF Longer
<1>2. \A i \in 1..Len(q) - 0 : r[i] = q[i + 0]
  BY <1>1 DEF Longer
<1>3. 0 \in 0..1 /\ 0 <= Len(q) /\ Len(q) - 0 <= Len(r)
  BY <1>1
<1> QED
  BY <1>2, <1>3 DEF FifoStep

\* The head leaves after the others have joined.
LEMMA TailServes ==
  ASSUME NEW q \in Seq(Tasks), NEW r, Longer(q, r), r # <<>>
  PROVE  FifoStep(q, Tail(r))
<1>1. Len(q) \in Nat /\ Len(r) \in Nat /\ Len(q) <= Len(r) /\ Len(Tail(r)) = Len(r) - 1 /\ Len(r) # 0
  BY DEF Longer
<1>2. \A i \in 1..Len(r) - 1 : Tail(r)[i] = r[i + 1]
  BY <1>1 DEF Longer
<1>3. CASE Len(q) = 0
  <2>1. 0 \in 0..1 /\ 0 <= Len(q) /\ Len(q) - 0 <= Len(Tail(r))
    BY <1>1, <1>3
  <2>2. \A i \in 1..Len(q) - 0 : Tail(r)[i] = q[i + 0]
    BY <1>3
  <2> QED
    BY <2>1, <2>2 DEF FifoStep
<1>4. CASE Len(q) # 0
  <2>1. 1 \in 0..1 /\ 1 <= Len(q) /\ Len(q) - 1 <= Len(Tail(r))
    BY <1>1, <1>4
  <2>2. ASSUME NEW i \in 1..Len(q) - 1
        PROVE  Tail(r)[i] = q[i + 1]
    <3>1. i + 1 \in 1..Len(q) /\ i \in 1..Len(r) - 1
      BY <1>1
    <3> QED
      BY <1>2, <3>1 DEF Longer
  <2> QED
    BY <2>1, <2>2 DEF FifoStep
<1> QED
  BY <1>3, <1>4

\* The switch takes the head, after those the handler has woken joined.
LEMMA SwitchServes ==
  ASSUME NEW st, NEW q, NEW reason, ready \in Seq(Tasks), Longer(ready, q), switch_or_park(st, q, reason)
  PROVE  FifoStep(ready, ready')
<1>1. ready' = q \/ (q # <<>> /\ ready' = Tail(q))
  BY DEF switch_or_park
<1> QED
  BY <1>1, LongerServes, TailServes

\* YIELD and the timer tick: the running task joins, the head leaves.
LEMMA RotateServes ==
  ASSUME IInv, rotate
  PROVE  FifoStep(ready, ready')
<1>0. ready \in Seq(Tasks) /\ current \in Tasks
  BY DEF IInv, Linked, Typed
<1>1. Longer(ready, ready)
  BY <1>0 DEF Longer
<1>2. CASE ready = <<>>
  BY <1>0, <1>1, <1>2, LongerServes DEF rotate
<1>3. CASE ready # <<>>
  <2>1. ready' = Append(Tail(ready), current)
    BY <1>3 DEF rotate
  <2>2. Tail(ready) \in Seq(Tasks) /\ Len(ready) \in Nat /\ Len(ready) # 0 /\ Len(Tail(ready)) = Len(ready) - 1
    BY <1>0, <1>3
  <2>3. Len(ready') = Len(ready) /\ \A i \in 1..Len(ready) - 1 : ready'[i] = Tail(ready)[i]
    BY <1>0, <2>1, <2>2
  <2>4. \A i \in 1..Len(ready) - 1 : ready'[i] = ready[i + 1]
    BY <1>0, <2>2, <2>3
  <2>5. 1 \in 0..1 /\ 1 <= Len(ready) /\ Len(ready) - 1 <= Len(ready')
    BY <2>2, <2>3
  <2> QED
    BY <2>4, <2>5 DEF FifoStep
<1> QED
  BY <1>2, <1>3

\* A step that takes a task from an endpoint queue, or adds the running one.
LEMMA EpSteps ==
  ASSUME IInv,
         \/ UNCHANGED waitq
         \/ \E e \in Endpoints : waitq' = [waitq EXCEPT ![e] = Append(@, current)]
         \/ \E e \in Endpoints : waitq[e] # <<>> /\ waitq' = [waitq EXCEPT ![e] = Tail(@)]
  PROVE  \A e \in Endpoints : EpStep(e)
<1>1. waitq \in [Endpoints -> Seq(Tasks)]
  BY DEF IInv, Linked, Typed
<1> QED
  BY <1>1 DEF EpStep

\* The receive phase, after a reply phase that left q and rt.
LEMMA RecvOrdered ==
  ASSUME IInv, NEW e \in Endpoints, NEW nonblock \in BOOLEAN, NEW st, NEW q, NEW rt \in [Tasks -> Tasks \cup {NoTask}],
         NEW x, NEW regs, Longer(ready, q), recv_inner(e, nonblock, st, q, rt, x, regs)
  PROVE  Ordered
<1>0. ready \in Seq(Tasks) /\ current \in Tasks /\ rt[current] \in Tasks \cup {NoTask}
  BY DEF IInv, Linked, Typed
<1>1. CASE SenderWaits(e)
  <2>1. waitq[e] # <<>> /\ Head(waitq[e]) \in Tasks
    BY <1>1, PopEp DEF SenderWaits, IInv
  <2>2. waitq' = [waitq EXCEPT ![e] = Tail(@)]
        /\ (ready' = enqueue(q, rt[current]) \/ ready' = enqueue(q, Head(waitq[e])))
    BY <1>1 DEF recv_inner
  <2>3. FifoStep(ready, ready')
    BY <1>0, <2>1, <2>2, LongerEnqueue, LongerServes
  <2> QED
    BY <2>1, <2>2, <2>3, EpSteps DEF Ordered
<1>2. CASE UNCHANGED waitq /\ ready' = q
  BY <1>0, <1>2, LongerServes, EpSteps DEF Ordered
<1>3. CASE wait_on(e, "BlockedRecv", st, q)
  <2>1. /\ waitq' = [waitq EXCEPT ![e] = Append(@, current)]
        /\ switch_or_park([st EXCEPT ![current] = "BlockedRecv"], q, "all tasks blocked")
    BY <1>3 DEF wait_on, block_and_switch
  <2>2. FifoStep(ready, ready')
    BY <1>0, <2>1, SwitchServes
  <2> QED
    BY <2>1, <2>2, EpSteps DEF Ordered
<1> QED
  BY <1>1, <1>2, <1>3 DEF recv_inner

\* SEND and CALL.
LEMMA SendOrdered ==
  ASSUME IInv, NEW ep, NEW nonblock \in BOOLEAN, NEW m, sys_send(ep, nonblock, m) \/ sys_call(ep, nonblock, m)
  PROVE  Ordered
<1>0. ready \in Seq(Tasks) /\ Longer(ready, ready) /\ reply_to \in [Tasks -> Tasks \cup {NoTask}]
  BY DEF IInv, Linked, Typed, Longer
<1>1. CASE UNCHANGED <<ready, waitq>>
  BY <1>0, <1>1, LongerServes, EpSteps DEF Ordered
<1>2. CASE ep \in Endpoints /\ ReceiverWaits(ep)
  <2> DEFINE rcv == Head(waitq[ep])
             old == reply_to[rcv]
  <2>1. waitq[ep] # <<>> /\ rcv \in Tasks /\ old \in Tasks \cup {NoTask}
    BY <1>0, <1>2, PopEp DEF ReceiverWaits, IInv
  <2>2. waitq' = [waitq EXCEPT ![ep] = Tail(@)]
        /\ \/ ready' = enqueue(ready, rcv)
           \/ \E st : switch_or_park(st, enqueue(enqueue(ready, old), rcv), "all tasks blocked")
    BY <1>2, KernelAssumption DEF sys_send, sys_call, block_and_switch
  <2>3. Longer(ready, enqueue(ready, rcv)) /\ Longer(ready, enqueue(enqueue(ready, old), rcv))
    <3> HIDE DEF old, rcv
    <3> QED
      BY <1>0, <2>1, LongerEnqueue
  <2>4. FifoStep(ready, ready')
    <3> HIDE DEF old, rcv
    <3> QED
      BY <1>0, <2>2, <2>3, LongerServes, SwitchServes
  <2> QED
    BY <1>2, <2>1, <2>2, <2>4, EpSteps DEF Ordered
<1>3. CASE ep \in Endpoints /\ \E as : wait_on(ep, as, state, ready)
  <2>1. PICK as : wait_on(ep, as, state, ready)
    BY <1>3
  <2>2. /\ waitq' = [waitq EXCEPT ![ep] = Append(@, current)]
        /\ switch_or_park([state EXCEPT ![current] = as], ready, "all tasks blocked")
    BY <2>1 DEF wait_on, block_and_switch
  <2>3. FifoStep(ready, ready')
    BY <1>0, <2>2, SwitchServes
  <2> QED
    BY <1>3, <2>2, <2>3, EpSteps DEF Ordered
<1> QED
  BY <1>1, <1>2, <1>3 DEF sys_send, sys_call, return

\* RECV and REPLY_RECV.
LEMMA ReceiveOrdered ==
  ASSUME IInv, NEW ep, NEW nonblock \in BOOLEAN, NEW m, sys_recv(ep, nonblock) \/ sys_reply_recv(ep, nonblock, m)
  PROVE  Ordered
<1> DEFINE caller == reply_to[current]
           st == enqueue_state(state, caller)
           q == enqueue(ready, caller)
           rt == [reply_to EXCEPT ![current] = NoTask]
           x == IF caller = NoTask THEN x0 ELSE [x0 EXCEPT ![caller] = "ok"]
           y == deliver([mr EXCEPT ![current] = m], current, caller)
<1>0. /\ ready \in Seq(Tasks) /\ Longer(ready, ready) /\ reply_to \in [Tasks -> Tasks \cup {NoTask}]
      /\ current \in Tasks
  BY DEF IInv, Linked, Typed, Longer
<1>1. CASE return(ep)
  BY <1>0, <1>1, LongerServes, EpSteps DEF Ordered, return
<1>2. CASE ep \in Endpoints /\ recv_inner(ep, nonblock, state, ready, reply_to, x0, mr)
  BY <1>0, <1>2, RecvOrdered
<1>3. CASE ep \in Endpoints /\ recv_inner(ep, nonblock, st, q, rt, x, y)
  <2>1. Longer(ready, q) /\ rt \in [Tasks -> Tasks \cup {NoTask}]
    BY <1>0, LongerEnqueue
  <2> HIDE DEF st, q, rt, x, y
  <2> QED
    BY <1>3, <2>1, RecvOrdered
<1> QED
  BY <1>1, <1>2, <1>3 DEF sys_recv, sys_reply_recv

\* Every trap keeps the order of every queue.
LEMMA NextOrdered ==
  ASSUME IInv, [Next]_vars
  PROVE  Ordered
<1>0. ready \in Seq(Tasks) /\ Longer(ready, ready) /\ reply_to[current] \in Tasks \cup {NoTask}
  BY DEF IInv, Linked, Typed, Longer
<1>1. CASE UNCHANGED <<ready, waitq>>
  BY <1>0, <1>1, LongerServes, EpSteps DEF Ordered
<1>2. CASE sys_yield \/ k0_preempt
  BY <1>2, RotateServes, EpSteps DEF Ordered, sys_yield, k0_preempt
<1>3. CASE kill_current
  <2>1. UNCHANGED waitq /\ \E st : switch_or_park(st, enqueue(ready, reply_to[current]), "all tasks exited")
    BY <1>3 DEF kill_current, exit_current
  <2>2. FifoStep(ready, ready')
    BY <1>0, <2>1, LongerEnqueue, SwitchServes
  <2> QED
    BY <2>1, <2>2, EpSteps DEF Ordered
<1>4. CASE \E t : sys_tcb_configure(t) \/ sys_tcb_resume(t)
  <2>1. PICK t : sys_tcb_configure(t) \/ sys_tcb_resume(t)
    BY <1>4
  <2>2. UNCHANGED waitq /\ (UNCHANGED ready \/ (t \in Tasks /\ ready' = enqueue(ready, t)))
    <3>1. CASE sys_tcb_configure(t)
      BY <3>1 DEF sys_tcb_configure, return
    <3>2. CASE sys_tcb_resume(t)
      BY <3>2 DEF sys_tcb_resume, return
    <3> QED
      BY <2>1, <3>1, <3>2
  <2>3. FifoStep(ready, ready')
    BY <1>0, <2>2, LongerEnqueue, LongerServes
  <2> QED
    BY <2>2, <2>3, EpSteps DEF Ordered
<1>5. ASSUME NEW ep, NEW nonblock \in BOOLEAN, NEW m,
             \/ sys_send(ep, nonblock, m) \/ sys_call(ep, nonblock, m)
             \/ sys_recv(ep, nonblock) \/ sys_reply_recv(ep, nonblock, m)
      PROVE  Ordered
  BY <1>5, SendOrdered, ReceiveOrdered
<1>6. CASE \E status : sys_object(status)
  BY <1>1, <1>6 DEF sys_object, return
<1> QED
  BY <1>1, <1>2, <1>3, <1>4, <1>5, <1>6 DEF Next, k0_syscall, k0_fault, park, vars

\* No trap lets a task overtake another in the ready queue or at an endpoint:
\* push adds at the tail and pop takes the head, once at most for each queue.
THEOREM NobodyOvertakes == Spec => FirstComeFirstServed
<1> DEFINE Fifo == /\ FifoStep(ready, ready')
                   /\ \A e \in Endpoints :
                        \/ waitq'[e] \in {waitq[e], Append(waitq[e], current)}
                        \/ waitq[e] # <<>> /\ waitq'[e] = Tail(waitq[e])
<1>1. IInv /\ [Next]_vars => [Fifo]_vars
  BY NextOrdered DEF Ordered, EpStep
<1> HIDE DEF Fifo
<1>2. Spec => [][Fifo]_vars
  BY <1>1, AlwaysIInv, PTL DEF Spec
<1> QED
  BY <1>2 DEF FirstComeFirstServed, Fifo
=============================================================================
