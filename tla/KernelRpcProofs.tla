--------------------------- MODULE KernelRpcProofs ---------------------------
(***************************************************************************)
(* The proof that Kernel implements Rpc, for any set of tasks, endpoints   *)
(* and messages. What a task waits for is read off its state and its queue *)
(* (wants); the lemmas say what it is before and after each trap.          *)
(***************************************************************************)
EXTENDS KernelRpc, KernelProofs

Kinds == [s \in Queued |-> CASE s = "BlockedSend" -> "send"
                             [] s = "BlockedCall" -> "call"
                             [] s = "BlockedRecv" -> "recv"]

OnTasks(f) == f = [t \in Tasks |-> f[t]]

\* The head leaves the queue of e.
Popped(wq, w, e) == w = [wq EXCEPT ![e] = Tail(@)]

\* The waits without an endpoint.
LEMMA WantsPlain ==
  ASSUME NEW st, NEW wq, NEW t \in Tasks
  PROVE  /\ st[t] \in {"Ready", "Running"} => wants(st, wq)[t] = <<"free">>
         /\ st[t] \in {"Inactive", "Stopped"} => wants(st, wq)[t] = <<"unborn">>
         /\ st[t] = "Dead" => wants(st, wq)[t] = <<"dead">>
         /\ st[t] = "BlockedReply" => wants(st, wq)[t] = <<"reply">>
BY DEF wants, want_of

\* A queued task waits at the endpoint whose queue it is in.
LEMMA WantsQueued ==
  ASSUME NEW st, NEW q, NEW wq, NEW rt, Linked(st, q, wq, rt),
         NEW t \in Tasks, NEW e \in Endpoints, In(t, wq[e])
  PROVE  wants(st, wq)[t] = <<Kinds[st[t]], e>>
<1>1. st[t] \in Queued /\ \A f \in Endpoints : In(t, wq[f]) => f = e
  BY DEF Linked, ListsFit
<1>2. at(wq, t) = e
  BY <1>1 DEF at
<1>3. QED
  BY <1>1, <1>2 DEF wants, want_of, Kinds, Queued

\* Who waits to receive or to send at e is in the queue of e.
LEMMA WantsTell ==
  ASSUME NEW st, NEW q, NEW wq, NEW rt, Linked(st, q, wq, rt), NEW t \in Tasks, NEW e \in Endpoints
  PROVE  /\ wants(st, wq)[t] = <<"recv", e>> => In(t, wq[e]) /\ st[t] = "BlockedRecv"
         /\ wants(st, wq)[t] = <<"send", e>> => In(t, wq[e]) /\ st[t] = "BlockedSend"
         /\ wants(st, wq)[t] = <<"call", e>> => In(t, wq[e]) /\ st[t] = "BlockedCall"
<1>1. CASE st[t] \in Queued
  <2>1. PICK f \in Endpoints : In(t, wq[f])
    BY <1>1 DEF Linked, ListsFit
  <2>2. wants(st, wq)[t] = <<Kinds[st[t]], f>>
    BY <2>1, WantsQueued
  <2>3. QED
    BY <1>1, <2>1, <2>2 DEF Kinds, Queued
<1>2. CASE st[t] \notin Queued
  <2>1. st[t] \in TaskState
    BY DEF Linked, Typed
  <2>2. wants(st, wq)[t] \in {<<"free">>, <<"unborn">>, <<"dead">>, <<"reply">>}
    BY <1>2, <2>1, WantsPlain DEF TaskState, Queued
  <2>3. QED
    BY <2>2
<1>3. QED
  BY <1>1, <1>2

\* A task that keeps its state and its place waits for the same.
LEMMA WantsSame ==
  ASSUME NEW st, NEW q, NEW wq, NEW rt, Linked(st, q, wq, rt),
         NEW n, NEW p, NEW w, NEW r, Linked(n, p, w, r), NEW t \in Tasks, n[t] = st[t],
         \A e \in Endpoints : In(t, wq[e]) => In(t, w[e])
  PROVE  wants(n, w)[t] = wants(st, wq)[t]
<1>1. CASE st[t] \in Queued
  <2>1. PICK e \in Endpoints : In(t, wq[e])
    BY <1>1 DEF Linked, ListsFit
  <2>2. QED
    BY <2>1, WantsQueued
<1>2. CASE st[t] \notin Queued
  <2>1. st[t] \in TaskState
    BY DEF Linked, Typed
  <2>2. QED
    BY <1>2, <2>1, WantsPlain DEF TaskState, Queued
<1>3. QED
  BY <1>1, <1>2

\* wants is a function on Tasks.
LEMMA WantsFun ==
  ASSUME NEW st, NEW wq
  PROVE  OnTasks(wants(st, wq))
BY DEF wants, OnTasks

\* A function on Tasks is wants if it has the same values.
LEMMA WantsExt ==
  ASSUME NEW st, NEW wq, NEW f, OnTasks(f), \A t \in Tasks : wants(st, wq)[t] = f[t]
  PROVE  wants(st, wq) = f
<1> DEFINE v == wants(st, wq)
<1>1. v = [t \in Tasks |-> v[t]] /\ \A t \in Tasks : v[t] = f[t]
  BY WantsFun DEF OnTasks
<1> HIDE DEF v
<1>2. v = f
  BY <1>1 DEF OnTasks
<1>3. QED
  BY <1>2 DEF v

\* Which ready task runs is invisible.
LEMMA SwitchSeen ==
  ASSUME NEW st, NEW q, NEW reason, Linked(st, q, waitq', reply_to'), switch_or_park(st, q, reason)
  PROVE  wants(state', waitq') = wants(st, waitq')
<1>1. CASE q = <<>>
  BY <1>1 DEF switch_or_park
<1>2. CASE q # <<>>
  <2>1. Head(q) \in Tasks /\ st[Head(q)] = "Ready" /\ state' = [st EXCEPT ![Head(q)] = "Running"]
        /\ Linked(state', Tail(q), waitq', reply_to')
    BY <1>2, PopReady DEF switch_or_park
  <2>2. \A t \in Tasks : state'[t] = IF t = Head(q) THEN "Running" ELSE st[t]
    BY <2>1 DEF Linked, Typed
  <2>3. ASSUME NEW t \in Tasks, t # Head(q)
        PROVE  wants(state', waitq')[t] = wants(st, waitq')[t]
    <3>1. state'[t] = st[t]
      BY <2>2, <2>3
    <3>2. QED
      BY <3>1 DEF wants
  <2>4. wants(state', waitq')[Head(q)] = wants(st, waitq')[Head(q)]
    <3>1. state'[Head(q)] = "Running" /\ st[Head(q)] = "Ready" /\ Head(q) \in Tasks
      BY <2>1, <2>2
    <3> HIDE DEF switch_or_park
    <3>2. wants(state', waitq')[Head(q)] = <<"free">>
      BY <3>1, WantsPlain
    <3>3. wants(st, waitq')[Head(q)] = <<"free">>
      BY <3>1, WantsPlain
    <3>4. QED
      BY <3>2, <3>3
  <2>5. QED
    BY <2>3, <2>4, WantsFun, WantsExt
<1>3. QED
  BY <1>1, <1>2

-----------------------------------------------------------------------------
(* Traps that are not IPC *)

\* The task that traps waits for nothing.
LEMMA CurrentFree ==
  ASSUME IInv, Runs
  PROVE  current \in Tasks /\ wants(state, waitq)[current] = R!Free
BY OnlyCurrent, WantsPlain DEF R!Free

\* A call that only writes its result.
LEMMA LocalStep ==
  ASSUME IInv, RegsOK, Runs, NEW status \in Status, return(status)
  PROVE  R!Step(current)
<1>1. /\ wants(state', waitq') = wants(state, waitq) /\ reply_to' = reply_to /\ mr' = mr
      /\ x0' = [x0 EXCEPT ![current] = status]
  BY DEF return
<1>2. mr'[current] \in Msgs /\ mr' = [mr EXCEPT ![current] = mr'[current]]
  BY <1>1, CurrentFree DEF RegsOK
<1>3. x0'[current] \in Status /\ x0' = [x0 EXCEPT ![current] = x0'[current]]
  BY <1>1, CurrentFree DEF RegsOK
<1>4. R!Local(current)
  BY <1>1, <1>2, <1>3 DEF R!Local
<1>5. QED
  BY <1>4, CurrentFree DEF R!Step

\* Nobody sees who gives way to whom: YIELD and the tick.
LEMMA RotateSeen ==
  ASSUME IInv, Runs, rotate, UNCHANGED waitq
  PROVE  wants(state', waitq') = wants(state, waitq)
<1>1. CASE ready = <<>>
  BY <1>1 DEF rotate
<1>2. CASE ready # <<>>
  <2>1. state' = [state EXCEPT ![current] = "Ready", ![Head(ready)] = "Running"]
    BY <1>2 DEF rotate
  <2>2. Head(ready) \in Tasks /\ state[Head(ready)] = "Ready"
    BY <1>2, PopReady DEF IInv
  <2>3. current \in Tasks /\ state[current] = "Running" /\ state \in [Tasks -> TaskState]
    BY OnlyCurrent DEF IInv, Linked, Typed
  <2>4. ASSUME NEW t \in Tasks PROVE wants(state', waitq')[t] = wants(state, waitq)[t]
    <3>1. CASE state[t] \in {"Ready", "Running"}
      <4>1. state'[t] \in {"Ready", "Running"}
        BY <2>1, <2>2, <2>3, <3>1
      <4>2. QED
        BY <3>1, <4>1, WantsPlain
    <3>2. CASE state[t] \notin {"Ready", "Running"}
      <4>1. state'[t] = state[t]
        BY <2>1, <2>2, <2>3, <3>2
      <4>2. QED
        BY <4>1 DEF wants
    <3>3. QED
      BY <3>1, <3>2
  <2>5. QED
    BY <2>4, WantsFun, WantsExt
<1>3. QED
  BY <1>1, <1>2

\* YIELD only writes its result.
LEMMA YieldStep ==
  ASSUME IInv, RegsOK, sys_yield
  PROVE  R!Step(current)
<1>1. Runs /\ reply_to' = reply_to /\ mr' = mr /\ x0' = [x0 EXCEPT ![current] = "ok"]
      /\ wants(state', waitq') = wants(state, waitq)
  BY RotateSeen DEF sys_yield
<1>2. mr'[current] \in Msgs /\ mr' = [mr EXCEPT ![current] = mr'[current]]
  BY <1>1, CurrentFree DEF RegsOK
<1>3. x0'[current] \in Status /\ x0' = [x0 EXCEPT ![current] = x0'[current]]
  BY <1>1, CurrentFree DEF RegsOK, Status
<1>4. R!Local(current)
  BY <1>1, <1>2, <1>3 DEF R!Local
<1>5. QED
  BY <1>1, <1>4, CurrentFree DEF R!Step

\* EXIT and faults.
LEMMA KillStep ==
  ASSUME IInv, kill_current
  PROVE  R!Step(current)
<1> DEFINE c == reply_to[current]
           st == enqueue_state(state, c)
           n == [st EXCEPT ![current] = "Dead"]
           W == wants(state, waitq)
<1>1. /\ Runs /\ reply_to' = [reply_to EXCEPT ![current] = NoTask] /\ waitq' = waitq /\ mr' = mr
      /\ x0' = IF c = NoTask THEN x0 ELSE [x0 EXCEPT ![c] = "NO_REPLY"]
      /\ switch_or_park(n, enqueue(ready, c), "all tasks exited")
  BY DEF kill_current, exit_current
<1>2. wants(state', waitq') = wants(n, waitq)
  BY <1>1, KillLinked, SwitchSeen
<1>3. current \in Tasks /\ state[current] = "Running" /\ state \in [Tasks -> TaskState]
  BY <1>1, OnlyCurrent DEF IInv, Linked, Typed
<1>4. c # NoTask => c \in Tasks /\ state[c] = "BlockedReply"
  BY <1>3 DEF IInv, Linked, Typed, RepliesFit
<1>5. n = [t \in Tasks |-> IF t = current THEN "Dead" ELSE IF t = c THEN "Ready" ELSE state[t]]
  <2>1. CASE c = NoTask
    BY <1>3, <2>1, KernelAssumption DEF enqueue_state
  <2>2. CASE c # NoTask
    BY <1>3, <1>4, <2>2 DEF enqueue_state
  <2>3. QED
    BY <2>1, <2>2
<1> DEFINE f == [R!woken(W, c) EXCEPT ![current] = R!Dead]
<1>6. f = [t \in Tasks |-> IF t = current THEN R!Dead ELSE IF t = c THEN R!Free ELSE W[t]]
  <2>1. W = [t \in Tasks |-> W[t]]
    BY WantsFun DEF OnTasks
  <2> HIDE DEF W
  <2>2. CASE c = NoTask
    BY <1>3, <2>1, <2>2, KernelAssumption DEF R!woken
  <2>3. CASE c # NoTask
    BY <1>3, <1>4, <2>1, <2>3 DEF R!woken
  <2>4. QED
    BY <2>2, <2>3
<1>7. ASSUME NEW t \in Tasks PROVE wants(n, waitq)[t] = f[t]
  <2> HIDE DEF n, f
  <2>1. CASE t = current
    BY <1>5, <1>6, <2>1, WantsPlain DEF R!Dead
  <2>2. CASE t # current /\ t = c
    BY <1>5, <1>6, <2>2, WantsPlain DEF R!Free
  <2>3. CASE t # current /\ t # c
    <3>1. n[t] = state[t]
      BY <1>5, <2>3
    <3>2. QED
      BY <1>6, <2>3, <3>1 DEF wants
  <2>4. QED
    BY <2>1, <2>2, <2>3
<1>8. wants(state', waitq') = f
  <2> HIDE DEF n, f
  <2>1. OnTasks(f)
    BY <1>6 DEF OnTasks
  <2>2. QED
    BY <1>2, <1>7, <2>1, WantsExt
<1>9. R!Die(current)
  BY <1>1, <1>8 DEF R!Die, R!told
<1>10. QED
  BY <1>1, <1>9, CurrentFree DEF R!Step

\* TCB_CONFIGURE.
LEMMA ConfigureStep ==
  ASSUME IInv, RegsOK, NEW u, sys_tcb_configure(u)
  PROVE  R!Step(current)
<1>0. Runs
  BY DEF sys_tcb_configure
<1>1. CASE \E status \in Status : return(status)
  BY <1>0, <1>1, LocalStep
<1>2. CASE /\ u \in Tasks /\ state[u] = "Inactive" /\ state' = [state EXCEPT ![u] = "Stopped"]
           /\ x0' = [x0 EXCEPT ![u] = "ok", ![current] = "ok"] /\ mr' = [mr EXCEPT ![u] = ZeroMsg]
           /\ UNCHANGED <<current, ready, waitq, reply_to, parked>>
  <2>1. wants(state, waitq)[u] = R!Unborn
    BY <1>2, WantsPlain DEF R!Unborn
  <2>2. state \in [Tasks -> TaskState]
    BY DEF IInv, Linked, Typed
  <2>3. ASSUME NEW t \in Tasks PROVE wants(state', waitq')[t] = wants(state, waitq)[t]
    <3>1. CASE t = u
      <4>1. state'[t] = "Stopped" /\ state[t] = "Inactive"
        BY <1>2, <2>2, <3>1
      <4>2. QED
        BY <4>1, WantsPlain
    <3>2. CASE t # u
      <4>1. state'[t] = state[t]
        BY <1>2, <2>2, <3>2
      <4>2. QED
        BY <1>2, <4>1 DEF wants
    <3>3. QED
      BY <3>1, <3>2
  <2>4. wants(state', waitq') = wants(state, waitq)
    BY <2>3, WantsFun, WantsExt
  <2>5. mr'[u] \in Msgs /\ mr' = [mr EXCEPT ![u] = mr'[u]]
    BY <1>2, KernelAssumption DEF RegsOK
  <2>6. R!Prepare(current, u)
    BY <1>2, <2>1, <2>4, <2>5 DEF R!Prepare
  <2>7. QED
    BY <1>0, <1>2, <2>6, CurrentFree DEF R!Step
<1>3. QED
  BY <1>1, <1>2 DEF sys_tcb_configure, Status

\* TCB_RESUME.
LEMMA ResumeStep ==
  ASSUME IInv, RegsOK, NEW u, sys_tcb_resume(u)
  PROVE  R!Step(current)
<1>0. Runs
  BY DEF sys_tcb_resume
<1>1. CASE \E status \in Status : return(status)
  BY <1>0, <1>1, LocalStep
<1>2. CASE /\ u \in Tasks /\ state[u] = "Stopped" /\ state' = enqueue_state(state, u)
           /\ x0' = [x0 EXCEPT ![current] = "ok"]
           /\ UNCHANGED <<current, waitq, reply_to, mr, parked>>
  <2>1. wants(state, waitq)[u] = R!Unborn
    BY <1>2, WantsPlain DEF R!Unborn
  <2>2. state \in [Tasks -> TaskState] /\ state' = [state EXCEPT ![u] = "Ready"]
    BY <1>2, KernelAssumption DEF IInv, Linked, Typed, enqueue_state
  <2> DEFINE W == wants(state, waitq)
             f == [W EXCEPT ![u] = R!Free]
  <2>3. f = [t \in Tasks |-> IF t = u THEN R!Free ELSE W[t]]
    <3>1. W = [t \in Tasks |-> W[t]]
      BY WantsFun DEF OnTasks
    <3> HIDE DEF W
    <3>2. QED
      BY <1>2, <3>1
  <2>4. ASSUME NEW t \in Tasks PROVE wants(state', waitq')[t] = f[t]
    <3> HIDE DEF f
    <3>1. CASE t = u
      <4>1. state'[t] = "Ready"
        BY <2>2, <3>1
      <4>2. wants(state', waitq')[t] = <<"free">>
        BY <4>1, WantsPlain
      <4>3. QED
        BY <2>3, <3>1, <4>2 DEF R!Free
    <3>2. CASE t # u
      <4>1. state'[t] = state[t]
        BY <2>2, <3>2
      <4>2. QED
        BY <1>2, <2>3, <3>2, <4>1 DEF wants
    <3>3. QED
      BY <3>1, <3>2
  <2>5. wants(state', waitq') = f
    <3>1. OnTasks(f)
      BY <2>3 DEF OnTasks
    <3> HIDE DEF f
    <3>2. QED
      BY <2>4, <3>1, WantsExt
  <2>6. R!Start(current, u)
    BY <1>2, <2>1, <2>5 DEF R!Start
  <2>7. QED
    BY <1>0, <1>2, <2>6, CurrentFree DEF R!Step
<1>3. QED
  BY <1>1, <1>2 DEF sys_tcb_resume, Status

-----------------------------------------------------------------------------
(* IPC *)

\* Whoever blocks in the queue of e waits there.
LEMMA WaitSeen ==
  ASSUME IInv, Runs, NEW e \in Endpoints, NEW as \in Queued, NEW st, NEW q,
         Linked(st, q, waitq, reply_to'),
         \A u \in Tasks : state[u] # "BlockedReply" => st[u] = state[u],
         \A u \in Tasks : st[u] \in {state[u], "Ready"},
         \A u \in Tasks : In(u, waitq[e]) => (state[u] = "BlockedRecv" <=> as = "BlockedRecv"),
         wait_on(e, as, st, q)
  PROVE  wants(state', waitq') = [wants(st, waitq) EXCEPT ![current] = <<Kinds[as], e>>]
<1> DEFINE n == [st EXCEPT ![current] = as]
           W == wants(st, waitq)
           f == [W EXCEPT ![current] = <<Kinds[as], e>>]
<1>1. Linked(n, q, waitq', reply_to')
  BY WaitLinked
<1>2. waitq' = [waitq EXCEPT ![e] = Append(@, current)] /\ switch_or_park(n, q, "all tasks blocked")
  BY DEF wait_on, block_and_switch
<1>3. current \in Tasks /\ st \in [Tasks -> TaskState] /\ waitq \in [Endpoints -> Seq(Tasks)]
  BY OnlyCurrent DEF Linked, Typed
<1>4. n[current] = as /\ \A t \in Tasks : t # current => n[t] = st[t]
  BY <1>3
<1>5. f = [t \in Tasks |-> IF t = current THEN <<Kinds[as], e>> ELSE W[t]]
  <2>1. W = [t \in Tasks |-> W[t]]
    BY WantsFun DEF OnTasks
  <2> HIDE DEF W
  <2>2. QED
    BY <1>3, <2>1
<1> HIDE DEF n, f
<1>6. wants(state', waitq') = wants(n, waitq')
  BY <1>1, <1>2, SwitchSeen
<1>7. \A g \in Endpoints : \A t \in Tasks : In(t, waitq[g]) => In(t, waitq'[g])
  <2>1. \A t \in Tasks : In(t, Append(waitq[e], current)) <=> In(t, waitq[e]) \/ t = current
    BY <1>3, InAppend
  <2>2. QED
    BY <1>2, <1>3, <2>1
<1>8. In(current, waitq'[e])
  <2>1. waitq'[e] = Append(waitq[e], current)
    BY <1>2, <1>3
  <2>2. QED
    BY <1>3, <2>1, InAppend
<1>9. ASSUME NEW t \in Tasks PROVE wants(n, waitq')[t] = f[t]
  <2>1. CASE t = current
    <3>1. wants(n, waitq')[current] = <<Kinds[n[current]], e>>
      BY <1>1, <1>3, <1>8, WantsQueued
    <3>2. QED
      BY <1>4, <1>5, <2>1, <3>1
  <2>2. CASE t # current
    <3>1. n[t] = st[t]
      BY <1>4, <2>2
    <3>2. wants(n, waitq')[t] = W[t]
      BY <1>1, <1>7, <3>1, WantsSame
    <3>3. QED
      BY <1>5, <2>2, <3>2
  <2>3. QED
    BY <2>1, <2>2
<1>10. OnTasks(f)
  BY <1>5 DEF OnTasks
<1>11. wants(state', waitq') = f
  BY <1>6, <1>9, <1>10, WantsExt
<1>12. QED
  BY <1>11 DEF f

\* Who is not the head of the queue keeps its place when the head leaves it.
LEMMA PopSeen ==
  ASSUME NEW st, NEW q, NEW wq, NEW rt, Linked(st, q, wq, rt), NEW e \in Endpoints, wq[e] # <<>>,
         NEW n, NEW p, NEW w, NEW r, Linked(n, p, w, r), Popped(wq, w, e),
         NEW t \in Tasks, t # Head(wq[e]), n[t] = st[t]
  PROVE  wants(n, w)[t] = wants(st, wq)[t]
<1>1. wq \in [Endpoints -> Seq(Tasks)] /\ NoRepeats(wq[e])
  BY DEF Linked, Typed, ListsFit
<1>2. In(t, wq[e]) => In(t, Tail(wq[e]))
  BY <1>1, InTail
<1>3. \A g \in Endpoints : In(t, wq[g]) => In(t, w[g])
  BY <1>1, <1>2 DEF Popped
<1>4. QED
  BY <1>3, WantsSame

\* What the tasks wait for after a rendezvous at e.
LEMMA MeetSeen ==
  ASSUME NEW st, NEW q, NEW wq, NEW rt, Linked(st, q, wq, rt), NEW e \in Endpoints, wq[e] # <<>>,
         NEW n, NEW p, NEW w, NEW r, Linked(n, p, w, r), Popped(wq, w, e),
         NEW f, OnTasks(f),
         \A t \in Tasks : \/ n[t] = "Ready" /\ f[t] = <<"free">>
                          \/ n[t] = "BlockedReply" /\ f[t] = <<"reply">>
                          \/ n[t] = st[t] /\ t # Head(wq[e]) /\ f[t] = wants(st, wq)[t]
  PROVE  wants(n, w) = f
<1>1. ASSUME NEW t \in Tasks PROVE wants(n, w)[t] = f[t]
  <2>1. CASE n[t] = "Ready" /\ f[t] = <<"free">>
    BY <2>1, WantsPlain
  <2>2. CASE n[t] = "BlockedReply" /\ f[t] = <<"reply">>
    BY <2>2, WantsPlain
  <2>3. CASE n[t] = st[t] /\ t # Head(wq[e]) /\ f[t] = wants(st, wq)[t]
    BY <2>3, PopSeen
  <2>4. QED
    BY <2>1, <2>2, <2>3
<1>2. QED
  BY <1>1, WantsExt

\* A receiver at the head of the queue of e.
LEMMA ReceiverSeen ==
  ASSUME IInv, Runs, NEW e \in Endpoints, ReceiverWaits(e)
  PROVE  /\ waitq[e] # <<>> /\ Head(waitq[e]) \in Tasks /\ Head(waitq[e]) # current
         /\ wants(state, waitq)[Head(waitq[e])] = <<"recv", e>>
         /\ state[Head(waitq[e])] = "BlockedRecv"
<1> DEFINE r == Head(waitq[e])
<1>1. Linked(state, ready, waitq, reply_to) /\ waitq[e] # <<>> /\ state[r] = "BlockedRecv"
  BY DEF IInv, ReceiverWaits
<1>2. r \in Tasks /\ In(r, waitq[e]) /\ r # current
  BY <1>1, InTail, OnlyCurrent DEF Linked, Typed, ListsFit
<1>3. wants(state, waitq)[r] = <<Kinds[state[r]], e>>
  BY <1>1, <1>2, WantsQueued
<1>4. QED
  BY <1>1, <1>2, <1>3 DEF Kinds, Queued

\* One value of a function on Tasks is changed.
LEMMA UpdateFun ==
  ASSUME NEW f, OnTasks(f), NEW r \in Tasks, NEW v
  PROVE  /\ OnTasks([f EXCEPT ![r] = v])
         /\ \A t \in Tasks : [f EXCEPT ![r] = v][t] = IF t = r THEN v ELSE f[t]
BY DEF OnTasks

\* A caller is woken and told, if there is one.
LEMMA WokenFun ==
  ASSUME NEW f, OnTasks(f), NEW c \in Tasks \cup {NoTask}, NEW v
  PROVE  /\ OnTasks(R!woken(f, c))
         /\ \A t \in Tasks : R!woken(f, c)[t] = IF t = c THEN R!Free ELSE f[t]
         /\ OnTasks(R!told(f, c, v))
         /\ \A t \in Tasks : R!told(f, c, v)[t] = IF t = c THEN v ELSE f[t]
<1>1. CASE c = NoTask
  BY <1>1, KernelAssumption DEF R!woken, R!told
<1>2. CASE c # NoTask
  BY <1>2 DEF R!woken, R!told, OnTasks
<1>3. QED
  BY <1>1, <1>2

\* Functions on Tasks are equal if their values are.
LEMMA SameFun ==
  ASSUME NEW f, NEW g, OnTasks(f), OnTasks(g), \A t \in Tasks : f[t] = g[t]
  PROVE  f = g
BY DEF OnTasks

\* SEND that meets a receiver.
LEMMA SendMeets ==
  ASSUME IInv, IInv', RegsOK, Runs, NEW e \in Endpoints, NEW m \in Msgs, ReceiverWaits(e),
         waitq' = [waitq EXCEPT ![e] = Tail(@)],
         mr' = deliver([mr EXCEPT ![current] = m], current, Head(waitq[e])),
         x0' = [x0 EXCEPT ![current] = "ok", ![Head(waitq[e])] = "ok"],
         state' = enqueue_state(state, Head(waitq[e])),
         UNCHANGED reply_to
  PROVE  R!Give(current, e, m, "send")
<1> DEFINE r == Head(waitq[e])
           W == wants(state, waitq)
           f == [W EXCEPT ![r] = R!Free]
<1>1. /\ Linked(state, ready, waitq, reply_to) /\ Linked(state', ready', waitq', reply_to')
      /\ waitq[e] # <<>> /\ r \in Tasks /\ r # current /\ W[r] = <<"recv", e>>
  BY ReceiverSeen DEF IInv
<1>2. state \in [Tasks -> TaskState] /\ NoTask \notin Tasks /\ current \in Tasks
  BY KernelAssumption DEF IInv, Linked, Typed
<1>3. state' = [state EXCEPT ![r] = "Ready"]
  BY <1>1, <1>2 DEF enqueue_state
<1>4. OnTasks(f) /\ \A t \in Tasks : f[t] = IF t = r THEN R!Free ELSE W[t]
  BY <1>1, WantsFun, UpdateFun
<1>5. \A t \in Tasks : \/ state'[t] = "Ready" /\ f[t] = <<"free">>
                       \/ state'[t] = state[t] /\ t # Head(waitq[e]) /\ f[t] = W[t]
  <2> HIDE DEF f, W
  <2>1. QED
    BY <1>1, <1>2, <1>3, <1>4 DEF R!Free
<1>6. Popped(waitq, waitq', e)
  BY DEF Popped
<1>7. wants(state', waitq') = f
  <2> HIDE DEF f
  <2>1. QED
    BY ONLY <1>1, <1>4, <1>5, <1>6, e \in Endpoints, MeetSeen, Z3T(30)
<1>8. mr' = [mr EXCEPT ![current] = m, ![r] = m] /\ x0' = [x0 EXCEPT ![current] = "ok", ![r] = "ok"]
  BY <1>1, <1>2 DEF deliver, RegsOK
<1> HIDE DEF r
<1>9. QED
  BY <1>1, <1>7, <1>8 DEF R!Give, R!Receiver

\* CALL that meets a receiver.
LEMMA CallGives ==
  ASSUME IInv, RegsOK, Runs, NEW e \in Endpoints, NEW m \in Msgs, ReceiverWaits(e),
         NEW rcv, rcv = Head(waitq[e]), NEW old, old = reply_to[rcv],
         waitq' = [waitq EXCEPT ![e] = Tail(@)],
         mr' = deliver([mr EXCEPT ![current] = m], current, rcv),
         x0' = [t \in Tasks |-> CASE t = old -> "NO_REPLY"
                                  [] t = rcv -> "ok"
                                  [] t = current -> "slot"
                                  [] OTHER -> x0[t]],
         reply_to' = [reply_to EXCEPT ![rcv] = current],
         block_and_switch(enqueue_state([enqueue_state(state, old) EXCEPT ![current] = "BlockedReply"], rcv),
                          enqueue(enqueue(ready, old), rcv))
  PROVE  R!Give(current, e, m, "call")
<1> DEFINE st == enqueue_state([enqueue_state(state, old) EXCEPT ![current] = "BlockedReply"], rcv)
           W == wants(state, waitq)
           f == [R!woken(W, old) EXCEPT ![rcv] = R!Free, ![current] = R!Reply]
           g == [R!told(x0, old, "NO_REPLY") EXCEPT ![rcv] = "ok", ![current] = "slot"]
<1>1. /\ Linked(state, ready, waitq, reply_to) /\ waitq[e] # <<>> /\ rcv \in Tasks /\ rcv # current
      /\ W[rcv] = <<"recv", e>> /\ state[rcv] = "BlockedRecv"
  BY ReceiverSeen DEF IInv
<1>2. current \in Tasks /\ state[current] = "Running" /\ state \in [Tasks -> TaskState] /\ NoTask \notin Tasks
  BY OnlyCurrent, KernelAssumption DEF IInv, Linked, Typed
<1>3. old \in Tasks \cup {NoTask} /\ (old # NoTask => state[old] = "BlockedReply")
  BY <1>1 DEF Linked, Typed, RepliesFit
<1>4. old # rcv /\ old # current
  BY <1>1, <1>2, <1>3
<1>5. Linked(st, enqueue(enqueue(ready, old), rcv), waitq', reply_to')
  BY <1>1, CallMeets
<1>6. wants(state', waitq') = wants(st, waitq')
  BY <1>5, SwitchSeen DEF block_and_switch
<1>7. \A t \in Tasks : st[t] = IF t = rcv THEN "Ready" ELSE IF t = current THEN "BlockedReply"
                               ELSE IF t = old THEN "Ready" ELSE state[t]
  <2>1. CASE old = NoTask
    BY <1>1, <1>2, <2>1 DEF enqueue_state
  <2>2. CASE old # NoTask
    BY <1>1, <1>2, <1>3, <1>4, <2>2 DEF enqueue_state
  <2>3. QED
    BY <2>1, <2>2
<1>8. OnTasks(f) /\ \A t \in Tasks : f[t] = IF t = current THEN R!Reply ELSE IF t = rcv THEN R!Free
                                            ELSE IF t = old THEN R!Free ELSE W[t]
  <2> DEFINE a == R!woken(W, old)
  <2>1. OnTasks(W)
    BY WantsFun
  <2> HIDE DEF W
  <2>2. OnTasks(a) /\ \A t \in Tasks : a[t] = IF t = old THEN R!Free ELSE W[t]
    BY ONLY <1>3, <2>1, WokenFun
  <2> HIDE DEF a
  <2>3. /\ OnTasks([a EXCEPT ![rcv] = R!Free, ![current] = R!Reply])
        /\ \A t \in Tasks : [a EXCEPT ![rcv] = R!Free, ![current] = R!Reply][t] =
             IF t = current THEN R!Reply ELSE IF t = rcv THEN R!Free ELSE a[t]
    BY ONLY <1>1, <1>2, <2>2 DEF OnTasks
  <2>4. f = [a EXCEPT ![rcv] = R!Free, ![current] = R!Reply]
    BY DEF a
  <2> HIDE DEF f
  <2>5. QED
    BY ONLY <2>2, <2>3, <2>4
<1>9. x0' = g
  <2> DEFINE a == R!told(x0, old, "NO_REPLY")
  <2>1. OnTasks(x0)
    BY DEF RegsOK, OnTasks
  <2>2. OnTasks(a) /\ \A t \in Tasks : a[t] = IF t = old THEN "NO_REPLY" ELSE x0[t]
    BY ONLY <1>3, <2>1, WokenFun
  <2> HIDE DEF a
  <2>3. g = [a EXCEPT ![rcv] = "ok", ![current] = "slot"]
    BY DEF a
  <2> HIDE DEF g
  <2>4. OnTasks(g) /\ \A t \in Tasks : g[t] = IF t = current THEN "slot" ELSE IF t = rcv THEN "ok" ELSE a[t]
    BY ONLY <1>1, <1>2, <2>2, <2>3 DEF OnTasks
  <2>5. OnTasks(x0') /\ \A t \in Tasks : x0'[t] = g[t]
    <3>1. OnTasks(x0')
      BY DEF OnTasks
    <3>2. \A t \in Tasks : x0'[t] = IF t = old THEN "NO_REPLY" ELSE IF t = rcv THEN "ok"
                                    ELSE IF t = current THEN "slot" ELSE x0[t]
      BY <1>1, <1>4
    <3>3. QED
      BY ONLY <1>1, <1>4, <2>2, <2>4, <3>1, <3>2
  <2>6. QED
    BY ONLY <2>4, <2>5, SameFun
<1>10. Popped(waitq, waitq', e)
  BY DEF Popped
<1>11. wants(state', waitq') = f
  <2> HIDE DEF f, st
  <2>1. \A t \in Tasks : \/ st[t] = "Ready" /\ f[t] = <<"free">>
                         \/ st[t] = "BlockedReply" /\ f[t] = <<"reply">>
                         \/ st[t] = state[t] /\ t # Head(waitq[e]) /\ f[t] = W[t]
    <3> HIDE DEF W
    <3>1. QED
      BY <1>1, <1>7, <1>8 DEF R!Free, R!Reply
  <2>2. wants(st, waitq') = f
    BY ONLY <1>1, <1>5, <1>8, <1>10, <2>1, e \in Endpoints, MeetSeen, Z3T(30)
  <2>3. QED
    BY <1>6, <2>2
<1>12. mr' = [mr EXCEPT ![current] = m, ![rcv] = m]
  BY <1>1, <1>2 DEF deliver, RegsOK
<1> HIDE DEF g, f, st
<1>13. wants(state', waitq') = [R!woken(W, reply_to[rcv]) EXCEPT ![rcv] = R!Free, ![current] = R!Reply]
       /\ x0' = [R!told(x0, reply_to[rcv], "NO_REPLY") EXCEPT ![rcv] = "ok", ![current] = "slot"]
  BY <1>9, <1>11 DEF f, g
<1>14. QED
  BY <1>1, <1>12, <1>13 DEF R!Give, R!Receiver

\* SEND and CALL without a receiver.
LEMMA OfferStep ==
  ASSUME IInv, Runs, NEW e \in Endpoints, NEW m, NEW as \in {"BlockedSend", "BlockedCall"},
         ~ReceiverWaits(e), wait_on(e, as, state, ready), UNCHANGED reply_to,
         x0' = [x0 EXCEPT ![current] = "slot"], mr' = [mr EXCEPT ![current] = m]
  PROVE  R!Offer(current, e, m, Kinds[as])
<1>1. Linked(state, ready, waitq, reply_to) /\ Linked(state, ready, waitq, reply_to') /\ as \in Queued
  BY DEF IInv, Queued
<1>2. \A u \in Tasks : In(u, waitq[e]) => state[u] # "BlockedRecv"
  BY HeadTells
<1>3. wants(state', waitq') = [wants(state, waitq) EXCEPT ![current] = <<Kinds[as], e>>]
  BY <1>1, <1>2, WaitSeen
<1>4. \A r \in Tasks : wants(state, waitq)[r] # <<"recv", e>>
  BY ONLY <1>1, <1>2, e \in Endpoints, WantsTell
<1>5. QED
  BY <1>3, <1>4 DEF R!Offer, R!Receiver

\* SEND.
LEMMA SendStep ==
  ASSUME IInv, RegsOK, NEW ep, NEW nonblock \in BOOLEAN, NEW m \in Msgs, sys_send(ep, nonblock, m)
  PROVE  R!Step(current)
<1>0. Runs
  BY DEF sys_send
<1>1. CASE \E status \in Status : return(status)
  BY <1>0, <1>1, LocalStep
<1>2. CASE /\ ep \in Endpoints /\ ReceiverWaits(ep)
           /\ waitq' = [waitq EXCEPT ![ep] = Tail(@)]
           /\ mr' = deliver([mr EXCEPT ![current] = m], current, Head(waitq[ep]))
           /\ x0' = [x0 EXCEPT ![current] = "ok", ![Head(waitq[ep])] = "ok"]
           /\ state' = enqueue_state(state, Head(waitq[ep]))
           /\ UNCHANGED reply_to
  <2>1. R!Give(current, ep, m, "send")
    BY <1>0, <1>2, SendKeeps, SendMeets
  <2>2. QED
    BY <1>0, <1>2, <2>1, CurrentFree DEF R!Step
<1>3. CASE /\ ep \in Endpoints /\ ~ReceiverWaits(ep) /\ wait_on(ep, "BlockedSend", state, ready)
           /\ x0' = [x0 EXCEPT ![current] = "slot"] /\ mr' = [mr EXCEPT ![current] = m]
           /\ UNCHANGED reply_to
  <2>1. R!Offer(current, ep, m, Kinds["BlockedSend"])
    BY <1>0, <1>3, OfferStep
  <2>2. Kinds["BlockedSend"] = "send"
    BY DEF Kinds, Queued
  <2>3. QED
    BY <1>0, <1>3, <2>1, <2>2, CurrentFree DEF R!Step
<1>4. QED
  BY <1>1, <1>2, <1>3 DEF sys_send, Status

\* CALL.
LEMMA CallStep ==
  ASSUME IInv, RegsOK, NEW ep, NEW nonblock \in BOOLEAN, NEW m \in Msgs, sys_call(ep, nonblock, m)
  PROVE  R!Step(current)
<1>0. Runs
  BY DEF sys_call
<1>1. CASE \E status \in Status : return(status)
  BY <1>0, <1>1, LocalStep
<1>2. CASE /\ ep \in Endpoints /\ ReceiverWaits(ep)
           /\ LET rcv == Head(waitq[ep])
                  old == reply_to[rcv]
                  st  == [enqueue_state(state, old) EXCEPT ![current] = "BlockedReply"]
              IN
              /\ waitq' = [waitq EXCEPT ![ep] = Tail(@)]
              /\ mr' = deliver([mr EXCEPT ![current] = m], current, rcv)
              /\ x0' = [t \in Tasks |-> CASE t = old -> "NO_REPLY"
                                          [] t = rcv -> "ok"
                                          [] t = current -> "slot"
                                          [] OTHER -> x0[t]]
              /\ reply_to' = [reply_to EXCEPT ![rcv] = current]
              /\ block_and_switch(enqueue_state(st, rcv), enqueue(enqueue(ready, old), rcv))
  <2>1. R!Give(current, ep, m, "call")
    BY <1>0, <1>2, CallGives
  <2>2. QED
    BY <1>0, <1>2, <2>1, CurrentFree DEF R!Step
<1>3. CASE /\ ep \in Endpoints /\ ~ReceiverWaits(ep) /\ wait_on(ep, "BlockedCall", state, ready)
           /\ x0' = [x0 EXCEPT ![current] = "slot"] /\ mr' = [mr EXCEPT ![current] = m]
           /\ UNCHANGED reply_to
  <2>1. R!Offer(current, ep, m, Kinds["BlockedCall"])
    BY <1>0, <1>3, OfferStep
  <2>2. Kinds["BlockedCall"] = "call"
    BY DEF Kinds, Queued
  <2>3. QED
    BY <1>0, <1>3, <2>1, <2>2, CurrentFree DEF R!Step
<1>4. QED
  BY <1>1, <1>2, <1>3 DEF sys_call, Status

\* The receive phase of RECV and REPLY_RECV.
LEMMA ReceivePhase ==
  ASSUME IInv, RegsOK, Runs, NEW e \in Endpoints, NEW nonblock \in BOOLEAN,
         NEW st, NEW q, NEW rt, NEW x \in [Tasks -> Status], NEW regs \in [Tasks -> Msgs],
         Linked(st, q, waitq, rt),
         \A u \in Tasks : state[u] # "BlockedReply" => st[u] = state[u],
         \A u \in Tasks : st[u] \in {state[u], "Ready"},
         recv_inner(e, nonblock, st, q, rt, x, regs)
  PROVE  R!Receive(current, e, wants(st, waitq), rt, x, regs)
<1> DEFINE snd == Head(waitq[e])
           W == wants(st, waitq)
           old == rt[current]
<1>1. /\ current \in Tasks /\ st[current] = "Running" /\ NoTask \notin Tasks
      /\ st \in [Tasks -> TaskState] /\ rt \in [Tasks -> Tasks \cup {NoTask}]
  BY OnlyCurrent, KernelAssumption DEF Linked, Typed
<1>2. Linked(state', ready', waitq', reply_to')
  BY RecvKeeps DEF IInv
<1>3. OnTasks(W) /\ OnTasks(x)
  BY WantsFun DEF OnTasks
<1>4. CASE SenderWaits(e)
  <2>1. /\ waitq[e] # <<>> /\ snd \in Tasks /\ snd # current /\ In(snd, waitq[e])
        /\ st[snd] = state[snd] /\ st[snd] \in {"BlockedSend", "BlockedCall"}
    <3>1. waitq[e] # <<>> /\ state[snd] # "BlockedRecv"
      BY <1>4 DEF SenderWaits
    <3>2. snd \in Tasks \ {current} /\ st[snd] = state[snd] /\ state[snd] \in Queued
      BY <3>1, Partner
    <3>3. In(snd, waitq[e])
      BY <3>1, InTail DEF Linked, Typed, ListsFit
    <3>4. QED
      BY <3>1, <3>2, <3>3 DEF Queued
  <2>2. W[snd] = <<Kinds[st[snd]], e>>
    <3> HIDE DEF snd
    <3>1. QED
      BY ONLY <2>1, Linked(st, q, waitq, rt), e \in Endpoints, WantsQueued, ZenonT(40)
  <2>3. waitq' = [waitq EXCEPT ![e] = Tail(@)] /\ mr' = [regs EXCEPT ![current] = regs[snd]]
    BY <1>1, <1>4 DEF recv_inner, deliver
  <2>4. Popped(waitq, waitq', e)
    BY <2>3 DEF Popped
  <2>5. CASE st[snd] = "BlockedCall"
    <3> DEFINE f == [R!woken(W, old) EXCEPT ![snd] = R!Reply]
    <3>1. /\ state' = [enqueue_state(st, old) EXCEPT ![snd] = "BlockedReply"]
          /\ x0' = [t \in Tasks |-> CASE t = old -> "NO_REPLY"
                                      [] t = current -> "ok"
                                      [] OTHER -> x[t]]
          /\ reply_to' = [rt EXCEPT ![current] = snd]
      BY <1>4, <2>5 DEF recv_inner
    <3>2. old \in (Tasks \cup {NoTask}) \ {snd, current}
      BY <1>1, <2>1, <2>5, Z3T(30) DEF Linked, RepliesFit
    <3>3. W[snd] = <<"call", e>>
      BY <2>2, <2>5 DEF Kinds, Queued
    <3> HIDE DEF W, snd, old
    <3>4. /\ OnTasks(f)
          /\ \A t \in Tasks : f[t] = IF t = snd THEN R!Reply ELSE IF t = old THEN R!Free ELSE W[t]
          /\ \A t \in Tasks : state'[t] = IF t = snd THEN "BlockedReply" ELSE IF t = old THEN "Ready" ELSE st[t]
          /\ x0' = [R!told(x, old, "NO_REPLY") EXCEPT ![current] = "ok"]
      <4>1. CASE old = NoTask
        <5>1. R!woken(W, old) = W /\ R!told(x, old, "NO_REPLY") = x /\ enqueue_state(st, old) = st
          BY ONLY <4>1 DEF R!woken, R!told, enqueue_state
        <5>2. OnTasks(f)
              /\ \A t \in Tasks : f[t] = IF t = snd THEN R!Reply ELSE IF t = old THEN R!Free ELSE W[t]
          BY ONLY <1>1, <1>3, <2>1, <4>1, <5>1 DEF OnTasks
        <5>3. \A t \in Tasks : state'[t] = IF t = snd THEN "BlockedReply" ELSE IF t = old THEN "Ready" ELSE st[t]
          BY ONLY <1>1, <2>1, <3>1, <4>1, <5>1
        <5>4. x0' = [R!told(x, old, "NO_REPLY") EXCEPT ![current] = "ok"]
          BY ONLY <1>1, <1>3, <3>1, <4>1, <5>1 DEF OnTasks
        <5>5. QED
          BY ONLY <5>2, <5>3, <5>4
      <4>2. CASE old # NoTask
        <5>1. /\ R!woken(W, old) = [W EXCEPT ![old] = R!Free]
              /\ R!told(x, old, "NO_REPLY") = [x EXCEPT ![old] = "NO_REPLY"]
              /\ enqueue_state(st, old) = [st EXCEPT ![old] = "Ready"]
          BY ONLY <4>2 DEF R!woken, R!told, enqueue_state
        <5>2. OnTasks(f)
              /\ \A t \in Tasks : f[t] = IF t = snd THEN R!Reply ELSE IF t = old THEN R!Free ELSE W[t]
          BY ONLY <1>3, <2>1, <3>2, <4>2, <5>1 DEF OnTasks
        <5>3. \A t \in Tasks : state'[t] = IF t = snd THEN "BlockedReply" ELSE IF t = old THEN "Ready" ELSE st[t]
          BY ONLY <1>1, <2>1, <3>1, <3>2, <4>2, <5>1
        <5>4. x0' = [R!told(x, old, "NO_REPLY") EXCEPT ![current] = "ok"]
          BY ONLY <1>1, <1>3, <3>1, <3>2, <4>2, <5>1 DEF OnTasks
        <5>5. QED
          BY ONLY <5>2, <5>3, <5>4
      <4>3. QED
        BY ONLY <4>1, <4>2
    <3> HIDE DEF f
    <3>5. \A t \in Tasks : \/ state'[t] = "Ready" /\ f[t] = <<"free">>
                           \/ state'[t] = "BlockedReply" /\ f[t] = <<"reply">>
                           \/ state'[t] = st[t] /\ t # Head(waitq[e]) /\ f[t] = W[t]
      BY <3>4 DEF R!Free, R!Reply, snd
    <3>6. wants(state', waitq') = f
      <4>1. waitq[e] # <<>> /\ OnTasks(f)
        BY ONLY <2>1, <3>4
      <4>2. \A t \in Tasks : \/ state'[t] = "Ready" /\ f[t] = <<"free">>
                             \/ state'[t] = "BlockedReply" /\ f[t] = <<"reply">>
                             \/ state'[t] = st[t] /\ t # Head(waitq[e]) /\ f[t] = wants(st, waitq)[t]
        BY ONLY <3>5 DEF W
      <4>3. QED
        BY ONLY <1>2, <2>4, <4>1, <4>2, Linked(st, q, waitq, rt), e \in Endpoints, MeetSeen, Z3T(30)
    <3>7. QED
      BY <2>1, <2>3, <3>1, <3>3, <3>4, <3>6 DEF R!Receive, R!Sender, f, old, W
  <2>6. CASE st[snd] = "BlockedSend"
    <3> DEFINE f == [W EXCEPT ![snd] = R!Free]
    <3>1. /\ state' = [st EXCEPT ![snd] = "Ready"]
          /\ x0' = [x EXCEPT ![current] = "ok", ![snd] = "ok"]
          /\ reply_to' = rt
      BY <1>1, <1>4, <2>1, <2>6 DEF recv_inner, enqueue_state
    <3>2. W[snd] = <<"send", e>>
      BY <2>2, <2>6 DEF Kinds, Queued
    <3> HIDE DEF W, snd
    <3>3. OnTasks(f) /\ \A t \in Tasks : f[t] = IF t = snd THEN R!Free ELSE W[t]
      BY ONLY <1>3, <2>1 DEF OnTasks
    <3>4. \A t \in Tasks : state'[t] = IF t = snd THEN "Ready" ELSE st[t]
      BY <1>1, <2>1, <3>1
    <3>5. x0' = [x EXCEPT ![snd] = "ok", ![current] = "ok"]
      BY <1>1, <2>1, <3>1
    <3> HIDE DEF f
    <3>6. \A t \in Tasks : \/ state'[t] = "Ready" /\ f[t] = <<"free">>
                           \/ state'[t] = st[t] /\ t # Head(waitq[e]) /\ f[t] = W[t]
      BY <3>3, <3>4 DEF R!Free, snd
    <3>7. wants(state', waitq') = f
      <4>1. waitq[e] # <<>> /\ OnTasks(f)
        BY ONLY <2>1, <3>3
      <4>2. \A t \in Tasks : \/ state'[t] = "Ready" /\ f[t] = <<"free">>
                             \/ state'[t] = "BlockedReply" /\ f[t] = <<"reply">>
                             \/ state'[t] = st[t] /\ t # Head(waitq[e]) /\ f[t] = wants(st, waitq)[t]
        BY ONLY <3>6 DEF W
      <4>3. QED
        BY ONLY <1>2, <2>4, <4>1, <4>2, Linked(st, q, waitq, rt), e \in Endpoints, MeetSeen, Z3T(30)
    <3>8. QED
      BY <2>1, <2>3, <3>1, <3>2, <3>5, <3>7 DEF R!Receive, R!Sender, f, W
  <2>7. QED
    BY <2>1, <2>5, <2>6
<1>5. CASE ~SenderWaits(e)
  <2>1. \A u \in Tasks : In(u, waitq[e]) => state[u] = "BlockedRecv" /\ st[u] = "BlockedRecv"
    BY <1>5, HeadTells
  <2>2. \A s \in Tasks : W[s] \notin {<<"send", e>>, <<"call", e>>}
    BY ONLY <2>1, Linked(st, q, waitq, rt), e \in Endpoints, WantsTell
  <2>3. CASE nonblock
    <3>1. state' = st /\ waitq' = waitq /\ reply_to' = rt /\ mr' = regs
          /\ x0' = [x EXCEPT ![current] = "WOULD_BLOCK"]
      BY <1>5, <2>3 DEF recv_inner
    <3>2. QED
      BY <2>2, <3>1 DEF R!Receive, R!Sender
  <2>4. CASE ~nonblock
    <3>1. wait_on(e, "BlockedRecv", st, q) /\ reply_to' = rt /\ mr' = regs
          /\ x0' = [x EXCEPT ![current] = "slot"] /\ Linked(st, q, waitq, reply_to')
      BY <1>5, <2>4 DEF recv_inner
    <3>2. wants(state', waitq') = [W EXCEPT ![current] = <<Kinds["BlockedRecv"], e>>]
      BY <2>1, <3>1, WaitSeen DEF Queued
    <3>3. Kinds["BlockedRecv"] = "recv"
      BY DEF Kinds, Queued
    <3>4. QED
      BY <2>2, <3>1, <3>2, <3>3 DEF R!Receive, R!Sender
  <2>5. QED
    BY <2>3, <2>4
<1>6. QED
  BY <1>4, <1>5

\* RECV.
LEMMA RecvStep ==
  ASSUME IInv, RegsOK, NEW ep, NEW nonblock \in BOOLEAN, sys_recv(ep, nonblock)
  PROVE  R!Step(current)
<1>0. Runs
  BY DEF sys_recv
<1>1. CASE ep \in EpErrors /\ return(ep)
  BY <1>0, <1>1, LocalStep DEF Status
<1>2. CASE ep \in Endpoints /\ recv_inner(ep, nonblock, state, ready, reply_to, x0, mr)
  <2>1. Linked(state, ready, waitq, reply_to) /\ x0 \in [Tasks -> Status] /\ mr \in [Tasks -> Msgs]
    BY DEF IInv, RegsOK
  <2>2. R!Receive(current, ep, wants(state, waitq), reply_to, x0, mr)
    BY <1>0, <1>2, <2>1, ReceivePhase
  <2>3. QED
    BY <1>0, <1>2, <2>2, CurrentFree DEF R!Step
<1>3. QED
  BY <1>1, <1>2 DEF sys_recv

\* REPLY_RECV.
LEMMA ReplyRecvStep ==
  ASSUME IInv, RegsOK, NEW ep, NEW nonblock \in BOOLEAN, NEW m \in Msgs, sys_reply_recv(ep, nonblock, m)
  PROVE  R!Step(current)
<1> DEFINE caller == reply_to[current]
           st == enqueue_state(state, caller)
           q == enqueue(ready, caller)
           rt == [reply_to EXCEPT ![current] = NoTask]
           x == IF caller = NoTask THEN x0 ELSE [x0 EXCEPT ![caller] = "ok"]
           y == deliver([mr EXCEPT ![current] = m], current, caller)
           W == wants(state, waitq)
<1>0. Runs
  BY DEF sys_reply_recv
<1>1. CASE ep \in EpErrors /\ return(ep)
  BY <1>0, <1>1, LocalStep DEF Status
<1>2. CASE ep \in Endpoints /\ recv_inner(ep, nonblock, st, q, rt, x, y)
  <2>1. current \in Tasks /\ Linked(state, ready, waitq, reply_to) /\ NoTask \notin Tasks
        /\ state \in [Tasks -> TaskState] /\ caller \in Tasks \cup {NoTask}
    BY KernelAssumption DEF IInv, Linked, Typed
  <2>2. /\ Linked(st, q, waitq, rt)
        /\ \A u \in Tasks : state[u] # "BlockedReply" => st[u] = state[u]
        /\ \A u \in Tasks : st[u] \in {state[u], "Ready"}
    BY <2>1, WakeCaller, ZenonT(40)
  <2>3. x \in [Tasks -> Status] /\ y \in [Tasks -> Msgs]
    BY <2>1 DEF RegsOK, deliver, Status
  <2>4. R!Receive(current, ep, wants(st, waitq), rt, x, y)
    <3> HIDE DEF st, q, rt, x, y
    <3>1. QED
      BY <1>0, <1>2, <2>2, <2>3, ReceivePhase
  <2>5. wants(st, waitq) = R!woken(W, caller)
    <3> DEFINE f == R!woken(W, caller)
    <3>1. OnTasks(f) /\ \A t \in Tasks : f[t] = IF t = caller THEN R!Free ELSE W[t]
      BY <2>1, WantsFun, WokenFun
    <3>2. \A t \in Tasks : st[t] = IF t = caller THEN "Ready" ELSE state[t]
      BY <2>1 DEF enqueue_state
    <3> HIDE DEF f, st, caller
    <3>3. ASSUME NEW t \in Tasks PROVE wants(st, waitq)[t] = f[t]
      <4>1. CASE t = caller
        <5>1. st[t] = "Ready"
          BY <3>2, <4>1
        <5>2. wants(st, waitq)[t] = <<"free">>
          BY <5>1, WantsPlain
        <5>3. QED
          BY <3>1, <4>1, <5>2 DEF R!Free
      <4>2. CASE t # caller
        <5>1. st[t] = state[t]
          BY <3>2, <4>2
        <5>2. QED
          BY <3>1, <4>2, <5>1 DEF wants
      <4>3. QED
        BY <4>1, <4>2
    <3>4. wants(st, waitq) = f
      BY <3>1, <3>3, WantsExt
    <3>5. QED
      BY <3>4 DEF f
  <2>6. x = R!told(x0, caller, "ok")
    BY DEF R!told
  <2>7. y = IF caller = NoTask THEN [mr EXCEPT ![current] = m]
            ELSE [[mr EXCEPT ![current] = m] EXCEPT ![caller] = m]
    BY <2>1 DEF deliver, RegsOK
  <2>8. R!ReplyReceive(current, ep, m)
    <3> HIDE DEF st, x, y
    <3>1. QED
      BY <2>4, <2>5, <2>6, <2>7 DEF R!ReplyReceive
  <2>9. QED
    BY <1>0, <1>2, <2>8, CurrentFree DEF R!Step
<1>3. QED
  BY <1>1, <1>2 DEF sys_reply_recv

-----------------------------------------------------------------------------

\* The root task runs, the others are not born.
LEMMA InitSeen ==
  ASSUME Init
  PROVE  R!RpcInit
<1> DEFINE f == [t \in Tasks |-> IF t = Root THEN R!Free ELSE R!Unborn]
<1>1. ASSUME NEW t \in Tasks PROVE wants(state, waitq)[t] = f[t]
  <2>1. CASE t = Root
    <3>1. state[t] = "Running"
      BY <2>1 DEF Init
    <3>2. QED
      BY <2>1, <3>1, WantsPlain DEF R!Free
  <2>2. CASE t # Root
    <3>1. state[t] = "Inactive"
      BY <2>2 DEF Init
    <3>2. QED
      BY <2>2, <3>1, WantsPlain DEF R!Unborn
  <2>3. QED
    BY <2>1, <2>2
<1>2. OnTasks(f)
  BY DEF OnTasks
<1> HIDE DEF f
<1>3. wants(state, waitq) = f
  BY <1>1, <1>2, WantsExt
<1>4. ZeroMsg \in Msgs /\ mr = [t \in Tasks |-> ZeroMsg] /\ x0 = [t \in Tasks |-> "ok"]
      /\ reply_to = [t \in Tasks |-> NoTask]
  BY KernelAssumption DEF Init
<1>5. QED
  BY <1>3, <1>4 DEF R!RpcInit, f

\* Every trap is a step of Rpc or is not seen.
LEMMA NextSeen ==
  ASSUME IInv, RegsOK, [Next]_vars
  PROVE  [R!RpcNext]_(R!rpcvars)
<1> SUFFICES R!Step(current) \/ UNCHANGED <<wants(state, waitq), reply_to, mr, x0>>
  BY DEF R!RpcNext, R!rpcvars, IInv
<1>1. CASE UNCHANGED vars
  BY <1>1 DEF vars
<1>2. CASE sys_yield
  BY <1>2, YieldStep
<1>3. CASE k0_preempt
  BY <1>3, RotateSeen DEF k0_preempt
<1>4. CASE kill_current
  BY <1>4, KillStep
<1>5. CASE \E status \in {"ok"} \cup EpErrors : sys_object(status)
  BY <1>5, LocalStep DEF sys_object, Status
<1>6. CASE \E t \in (Tasks \ {Root}) \cup TcbErrors : sys_tcb_configure(t) \/ sys_tcb_resume(t)
  BY <1>6, ConfigureStep, ResumeStep
<1>7. ASSUME NEW ep \in Endpoints \cup EpErrors, NEW nonblock \in BOOLEAN, NEW m \in Msgs,
             \/ sys_send(ep, nonblock, m)
             \/ sys_recv(ep, nonblock)
             \/ sys_call(ep, nonblock, m)
             \/ sys_reply_recv(ep, nonblock, m)
      PROVE  R!Step(current)
  BY <1>7, SendStep, RecvStep, CallStep, ReplyRecvStep
<1>8. QED
  BY <1>1, <1>2, <1>3, <1>4, <1>5, <1>6, <1>7 DEF Next, k0_syscall, k0_fault, park

\* The kernel keeps what Rpc promises to programs: SEND, RECV, CALL and
\* REPLY_RECV deliver, block, wake and abort as specified there, for any number
\* of tasks, endpoints and messages (k0-ipc, kill_current, k0-sched).
THEOREM KernelRefinesRpc == Spec => ImplementsRpc
<1>1. Init => R!RpcInit
  BY InitSeen
<1>2. Init => RegsOK
  BY KernelAssumption DEF Init, RegsOK, Status
<1>3. IInv /\ RegsOK /\ [Next]_vars => RegsOK'
  BY NextRegs
<1>4. IInv /\ RegsOK /\ [Next]_vars => [R!RpcNext]_(R!rpcvars)
  BY NextSeen
<1>5. QED
  BY <1>1, <1>2, <1>3, <1>4, AlwaysIInv, PTL DEF Spec, ImplementsRpc, R!RpcSpec
==============================================================================
