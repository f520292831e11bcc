------------------------------- MODULE Kernel -------------------------------
(***************************************************************************)
(* Tasks, the round-robin scheduler and synchronous rendezvous IPC of k0:  *)
(* crates/k0-task (TCB, Endpoint), crates/k0-sched, crates/k0-ipc and the   *)
(* dispatch in kernel/src/main.rs.                                         *)
(*                                                                         *)
(* One core, and exceptions are taken with interrupts masked, so a trap    *)
(* from EL0 runs its handler to the end: every action is one whole trap.   *)
(* The intrusive lists are sequences here; module KernelLinks adds the     *)
(* link fields and shows that they represent these sequences.              *)
(*                                                                         *)
(* Operators named ..._mutant are wrong on purpose: each is a plausible    *)
(* mistake in the definition it precedes, and breaks a property below.     *)
(***************************************************************************)
EXTENDS Naturals, Sequences

CONSTANTS
  Tasks,      \* the TCBs: the static root TCB and the retyped ones
  Root,       \* ROOT_TCB
  NoTask,     \* the null link, 0 in the code
  Endpoints,  \* the retyped Endpoint objects
  Msgs,       \* contents of the message registers x2-x5
  ZeroMsg     \* the contents of a zeroed context

EpErrors == {"BAD_SLOT", "BAD_CAP"}
TcbErrors == {"BAD_VA", "BAD_SLOT", "BAD_CAP"}

ASSUME KernelAssumption ==
  /\ Root \in Tasks
  /\ NoTask \notin Tasks
  /\ ZeroMsg \in Msgs
  /\ Endpoints \cap EpErrors = {}
  /\ Tasks \cap TcbErrors = {}

VARIABLES
  state,     \* Tcb.state
  current,   \* Sched.current
  ready,     \* Sched.head .. Sched.tail
  waitq,     \* Endpoint.head .. Endpoint.tail, for every endpoint
  reply_to,  \* Tcb.reply_to
  x0,        \* ctx.x[0] of every task as the kernel last left it
  mr,        \* ctx.x[2..5] of every task as last passed to or by the kernel
  parked     \* "no" while the system runs, else what park() was called for

vars == <<state, current, ready, waitq, reply_to, x0, mr, parked>>

TaskState == {"Inactive", "Stopped", "Ready", "Running", "Dead",
              "BlockedSend", "BlockedRecv", "BlockedReply", "BlockedCall"}

\* The states in which a task is linked into an endpoint queue.
Queued == {"BlockedSend", "BlockedRecv", "BlockedCall"}

\* x0: a result of the call, or still the slot argument of a call that blocked.
Status == {"ok", "slot", "WOULD_BLOCK", "NO_REPLY", "BAD_STATE"}
            \cup EpErrors \cup TcbErrors

-----------------------------------------------------------------------------
(* Scheduler *)

\* enqueue(c): the state and the ready queue after it; nothing for a null c.
enqueue_state(st, c) == IF c = NoTask THEN st ELSE [st EXCEPT ![c] = "Ready"]
enqueue(q, c) == IF c = NoTask THEN q ELSE Append(q, c)

\* Without s.current = next.
switch_or_park_mutant(st, q, reason) ==
  /\ state' = IF q = <<>> THEN st ELSE [st EXCEPT ![Head(q)] = "Running"]
  /\ ready' = IF q = <<>> THEN q ELSE Tail(q)
  /\ parked' = IF q = <<>> THEN reason ELSE parked
  /\ UNCHANGED current

\* pop followed by switch_to, from the states st and the ready queue q. With
\* nothing ready the caller parks, for the reason it prints.
switch_or_park(st, q, reason) ==
  \/ /\ q = <<>>
     /\ state' = st
     /\ ready' = q
     /\ parked' = reason
     /\ UNCHANGED current
  \/ /\ q # <<>>
     /\ state' = [st EXCEPT ![Head(q)] = "Running"]
     /\ ready' = Tail(q)
     /\ current' = Head(q)
     /\ UNCHANGED parked

block_and_switch(st, q) == switch_or_park(st, q, "all tasks blocked")
exit_current(st, q) ==
  switch_or_park([st EXCEPT ![current] = "Dead"], q, "all tasks exited")

\* The preempted task goes to the head of the queue.
rotate_mutant ==
  IF ready = <<>> THEN UNCHANGED <<state, current, ready>>
  ELSE /\ state' = [state EXCEPT ![current] = "Ready", ![Head(ready)] = "Running"]
       /\ ready' = <<current>> \o Tail(ready)
       /\ current' = Head(ready)

rotate ==
  \/ /\ ready = <<>>
     /\ UNCHANGED <<state, current, ready>>
  \/ /\ ready # <<>>
     /\ state' = [state EXCEPT ![current] = "Ready", ![Head(ready)] = "Running"]
     /\ ready' = Append(Tail(ready), current)
     /\ current' = Head(ready)

-----------------------------------------------------------------------------
(* System calls of the running task *)

Runs == parked = "no"

\* A call that changes nothing but the caller's result register.
return(status) ==
  /\ x0' = [x0 EXCEPT ![current] = status]
  /\ UNCHANGED <<state, current, ready, waitq, reply_to, mr, parked>>

ReceiverWaits(e) == waitq[e] # <<>> /\ state[Head(waitq[e])] = "BlockedRecv"

\* Takes only SEND for a sender.
SenderWaits_mutant(e) == waitq[e] # <<>> /\ state[Head(waitq[e])] = "BlockedSend"
SenderWaits(e) == waitq[e] # <<>> /\ state[Head(waitq[e])] # "BlockedRecv"

sys_yield ==
  /\ Runs
  /\ rotate
  /\ x0' = [x0 EXCEPT ![current] = "ok"]
  /\ UNCHANGED <<waitq, reply_to, mr, parked>>

\* The timer tick, taken at EL0: k0_preempt.
k0_preempt ==
  /\ Runs
  /\ rotate
  /\ UNCHANGED <<waitq, reply_to, x0, mr, parked>>

\* Without abort_reply.
kill_current_mutant ==
  /\ Runs
  /\ exit_current(state, ready)
  /\ UNCHANGED <<waitq, reply_to, x0, mr>>

\* abort_reply that wakes the caller but leaves its x0.
kill_current_silent_mutant ==
  LET caller == reply_to[current] IN
  /\ Runs
  /\ reply_to' = [reply_to EXCEPT ![current] = NoTask]
  /\ exit_current(enqueue_state(state, caller), enqueue(ready, caller))
  /\ UNCHANGED <<waitq, x0, mr>>

\* A dying server whose caller sees success.
kill_current_ok_mutant ==
  LET caller == reply_to[current] IN
  /\ Runs
  /\ reply_to' = [reply_to EXCEPT ![current] = NoTask]
  /\ x0' = IF caller = NoTask THEN x0 ELSE [x0 EXCEPT ![caller] = "ok"]
  /\ exit_current(enqueue_state(state, caller), enqueue(ready, caller))
  /\ UNCHANGED <<waitq, mr>>

\* abort_reply wakes the caller that the dying task owes a reply, then
\* exit_current leaves the task.
kill_current ==
  LET caller == reply_to[current] IN
  /\ Runs
  /\ reply_to' = [reply_to EXCEPT ![current] = NoTask]
  /\ x0' = IF caller = NoTask THEN x0 ELSE [x0 EXCEPT ![caller] = "NO_REPLY"]
  /\ exit_current(enqueue_state(state, caller), enqueue(ready, caller))
  /\ UNCHANGED <<waitq, mr>>

\* A fault of the running task, FP/SIMD traps included, ends that task only.
k0_fault == kill_current

\* DEBUG_PUTC, RETYPE and MAP leave tasks and queues alone and return at once.
sys_object(status) == Runs /\ return(status)

\* t is the TCB the slots name, or the first check that fails.
sys_tcb_configure(t) ==
  /\ Runs
  /\ \/ t \in TcbErrors /\ return(t)
     \/ t \in Tasks /\ state[t] # "Inactive" /\ return("BAD_STATE")
     \/ /\ t \in Tasks
        /\ state[t] = "Inactive"
        /\ state' = [state EXCEPT ![t] = "Stopped"]
        /\ x0' = [x0 EXCEPT ![t] = "ok", ![current] = "ok"]
        /\ mr' = [mr EXCEPT ![t] = ZeroMsg]
        /\ UNCHANGED <<current, ready, waitq, reply_to, parked>>

\* Without the Stopped test.
sys_tcb_resume_mutant(t) ==
  /\ Runs
  /\ t \in Tasks /\ state[t] # "Inactive"
  /\ state' = enqueue_state(state, t)
  /\ ready' = enqueue(ready, t)
  /\ UNCHANGED <<current, waitq, reply_to, x0, mr, parked>>

sys_tcb_resume(t) ==
  /\ Runs
  /\ \/ t \in TcbErrors \ {"BAD_VA"} /\ return(t)
     \/ t \in Tasks /\ state[t] # "Stopped" /\ return("BAD_STATE")
     \/ /\ t \in Tasks
        /\ state[t] = "Stopped"
        /\ state' = enqueue_state(state, t)
        /\ ready' = enqueue(ready, t)
        /\ x0' = [x0 EXCEPT ![current] = "ok"]
        /\ UNCHANGED <<current, waitq, reply_to, mr, parked>>

-----------------------------------------------------------------------------
(* IPC. ep is what ep_of(slot) gives: an endpoint or an error; m is the      *)
(* content of x2-x5 at the call.                                            *)

\* Copies the receiver's registers to the sender.
deliver_mutant(regs, src, dst) ==
  IF dst = NoTask THEN regs ELSE [regs EXCEPT ![src] = regs[dst]]

\* The message registers after src's are copied to dst; null tests included.
deliver(regs, src, dst) ==
  IF dst = NoTask THEN regs ELSE [regs EXCEPT ![dst] = regs[src]]

\* Joins the queue at its head.
wait_on_mutant(e, as, st, q) ==
  /\ waitq' = [waitq EXCEPT ![e] = <<current>> \o @]
  /\ block_and_switch([st EXCEPT ![current] = as], q)

\* The caller waits in the queue of e, and the next ready task runs.
wait_on(e, as, st, q) ==
  /\ waitq' = [waitq EXCEPT ![e] = Append(@, current)]
  /\ block_and_switch([st EXCEPT ![current] = as], q)

sys_send(ep, nonblock, m) ==
  /\ Runs
  /\ \/ ep \in EpErrors /\ return(ep)
     \/ /\ ep \in Endpoints
        /\ ReceiverWaits(ep)
        /\ LET rcv == Head(waitq[ep]) IN
           /\ waitq' = [waitq EXCEPT ![ep] = Tail(@)]
           /\ mr' = deliver([mr EXCEPT ![current] = m], current, rcv)
           /\ x0' = [x0 EXCEPT ![current] = "ok", ![rcv] = "ok"]
           /\ state' = enqueue_state(state, rcv)
           /\ ready' = enqueue(ready, rcv)
        /\ UNCHANGED <<current, reply_to, parked>>
     \/ /\ ep \in Endpoints
        /\ ~ReceiverWaits(ep)
        /\ nonblock
        /\ return("WOULD_BLOCK")
     \/ /\ ep \in Endpoints
        /\ ~ReceiverWaits(ep)
        /\ ~nonblock
        /\ wait_on(ep, "BlockedSend", state, ready)
        /\ x0' = [x0 EXCEPT ![current] = "slot"]
        /\ mr' = [mr EXCEPT ![current] = m]
        /\ UNCHANGED reply_to

\* A CALL that grants the reply right but goes on running.
sys_call_mutant(ep, nonblock, m) ==
  /\ Runs
  /\ ep \in Endpoints /\ ReceiverWaits(ep)
  /\ LET rcv == Head(waitq[ep]) IN
     /\ waitq' = [waitq EXCEPT ![ep] = Tail(@)]
     /\ reply_to' = [reply_to EXCEPT ![rcv] = current]
     /\ state' = enqueue_state(state, rcv)
     /\ ready' = enqueue(ready, rcv)
  /\ UNCHANGED <<current, x0, mr, parked>>

sys_call(ep, nonblock, m) ==
  /\ Runs
  /\ \/ ep \in EpErrors /\ return(ep)
     \/ /\ ep \in Endpoints
        /\ ReceiverWaits(ep)
        /\ LET rcv == Head(waitq[ep])
               old == reply_to[rcv]
               st  == [enqueue_state(state, old) EXCEPT ![current] = "BlockedReply"]
           IN
           /\ waitq' = [waitq EXCEPT ![ep] = Tail(@)]
           /\ mr' = deliver([mr EXCEPT ![current] = m], current, rcv)
           /\ x0' = [t \in Tasks |-> CASE t = old -> "NO_REPLY"
                                       [] t = rcv -> "ok"
                                       [] t = current -> "slot"
                                       [] OTHER -> x0[t]]
           /\ reply_to' = [reply_to EXCEPT ![rcv] = current]
           /\ block_and_switch(enqueue_state(st, rcv), enqueue(enqueue(ready, old), rcv))
     \/ /\ ep \in Endpoints
        /\ ~ReceiverWaits(ep)
        /\ nonblock
        /\ return("WOULD_BLOCK")
     \/ /\ ep \in Endpoints
        /\ ~ReceiverWaits(ep)
        /\ ~nonblock
        /\ wait_on(ep, "BlockedCall", state, ready)
        /\ x0' = [x0 EXCEPT ![current] = "slot"]
        /\ mr' = [mr EXCEPT ![current] = m]
        /\ UNCHANGED reply_to

\* The receive phase of RECV and REPLY_RECV, from what the reply phase left.
recv_inner(e, nonblock, st, q, rt, x, regs) ==
  \/ /\ SenderWaits(e)
     /\ LET snd == Head(waitq[e]) IN
        /\ waitq' = [waitq EXCEPT ![e] = Tail(@)]
        /\ mr' = deliver(regs, snd, current)
        /\ \/ /\ st[snd] = "BlockedCall"
              /\ LET old == rt[current] IN
                 /\ x0' = [t \in Tasks |-> CASE t = old -> "NO_REPLY"
                                             [] t = current -> "ok"
                                             [] OTHER -> x[t]]
                 /\ state' = [enqueue_state(st, old) EXCEPT ![snd] = "BlockedReply"]
                 /\ ready' = enqueue(q, old)
                 /\ reply_to' = [rt EXCEPT ![current] = snd]
           \/ /\ st[snd] # "BlockedCall"
              /\ x0' = [x EXCEPT ![current] = "ok", ![snd] = "ok"]
              /\ state' = enqueue_state(st, snd)
              /\ ready' = enqueue(q, snd)
              /\ reply_to' = rt
     /\ UNCHANGED <<current, parked>>
  \/ /\ ~SenderWaits(e)
     /\ nonblock
     /\ x0' = [x EXCEPT ![current] = "WOULD_BLOCK"]
     /\ state' = st
     /\ ready' = q
     /\ reply_to' = rt
     /\ mr' = regs
     /\ UNCHANGED <<current, waitq, parked>>
  \/ /\ ~SenderWaits(e)
     /\ ~nonblock
     /\ wait_on(e, "BlockedRecv", st, q)
     /\ x0' = [x EXCEPT ![current] = "slot"]
     /\ reply_to' = rt
     /\ mr' = regs

sys_recv(ep, nonblock) ==
  /\ Runs
  /\ \/ ep \in EpErrors /\ return(ep)
     \/ ep \in Endpoints /\ recv_inner(ep, nonblock, state, ready, reply_to, x0, mr)

sys_reply_recv(ep, nonblock, m) ==
  /\ Runs
  /\ \/ ep \in EpErrors /\ return(ep)
     \/ /\ ep \in Endpoints
        /\ LET caller == reply_to[current] IN
           recv_inner(ep, nonblock,
                enqueue_state(state, caller), enqueue(ready, caller),
                [reply_to EXCEPT ![current] = NoTask],
                IF caller = NoTask THEN x0 ELSE [x0 EXCEPT ![caller] = "ok"],
                deliver([mr EXCEPT ![current] = m], current, caller))

-----------------------------------------------------------------------------

\* handoff(root): the root task runs, nothing else is configured.
Init ==
  /\ state = [t \in Tasks |-> IF t = Root THEN "Running" ELSE "Inactive"]
  /\ current = Root
  /\ ready = <<>>
  /\ waitq = [e \in Endpoints |-> <<>>]
  /\ reply_to = [t \in Tasks |-> NoTask]
  /\ x0 = [t \in Tasks |-> "ok"]
  /\ mr = [t \in Tasks |-> ZeroMsg]
  /\ parked = "no"

\* park() waits for events for ever.
park ==
  /\ ~Runs
  /\ UNCHANGED vars

\* The dispatch on x8. EXIT and an unknown number kill the caller.
k0_syscall ==
  \/ sys_yield
  \/ kill_current
  \/ \E status \in {"ok"} \cup EpErrors : sys_object(status)
  \/ \E t \in (Tasks \ {Root}) \cup TcbErrors :
       sys_tcb_configure(t) \/ sys_tcb_resume(t)
  \/ \E ep \in Endpoints \cup EpErrors, nonblock \in BOOLEAN, m \in Msgs :
       \/ sys_send(ep, nonblock, m)
       \/ sys_recv(ep, nonblock)
       \/ sys_call(ep, nonblock, m)
       \/ sys_reply_recv(ep, nonblock, m)

Next == k0_syscall \/ k0_fault \/ k0_preempt \/ park

Spec == Init /\ [][Next]_vars

\* The timer is re-armed at every tick and EL0 runs with interrupts unmasked,
\* so a tick keeps coming whatever the running task does.
FairSpec == Spec /\ WF_vars(k0_preempt)
-----------------------------------------------------------------------------
(* What the kernel promises *)

TypeOK ==
  /\ state \in [Tasks -> TaskState]
  /\ current \in Tasks
  /\ ready \in Seq(Tasks)
  /\ waitq \in [Endpoints -> Seq(Tasks)]
  /\ reply_to \in [Tasks -> Tasks \cup {NoTask}]
  /\ x0 \in [Tasks -> Status]
  /\ mr \in [Tasks -> Msgs]
  /\ parked \in {"no", "all tasks blocked", "all tasks exited"}

In(t, q) == \E i \in 1..Len(q) : q[i] = t
NoRepeats(q) == \A i, j \in 1..Len(q) : q[i] = q[j] => i = j

\* Tcb.next is one field for all lists: the state of a task says which single
\* list it is linked into, and it is linked there once. A task outside every
\* list is the running one, waits for a reply, or cannot run at all.
OneListPerTask ==
  /\ NoRepeats(ready)
  /\ \A t \in Tasks : In(t, ready) <=> state[t] = "Ready"
  /\ \A e \in Endpoints : NoRepeats(waitq[e])
  /\ \A t \in Tasks : (\E e \in Endpoints : In(t, waitq[e])) <=> state[t] \in Queued
  /\ \A e, f \in Endpoints : \A t \in Tasks : In(t, waitq[e]) /\ In(t, waitq[f]) => e = f

\* An endpoint queue holds senders or receivers, never both, so the state of
\* its head tells the direction of all of it: the test in sys_send, sys_call
\* and recv_inner.
OneDirection ==
  \A e \in Endpoints : \A i, j \in 1..Len(waitq[e]) :
    state[waitq[e][i]] = "BlockedRecv" => state[waitq[e][j]] = "BlockedRecv"

\* A caller that waits for a reply is recorded in reply_to of exactly one
\* task, one that can still run, and reply_to names only such callers: no
\* caller is orphaned when its server dies, blocks or takes another call.
NoOrphanedCaller ==
  /\ \A h \in Tasks : reply_to[h] # NoTask =>
       state[reply_to[h]] = "BlockedReply" /\ state[h] \notin {"Inactive", "Stopped", "Dead"}
  /\ \A c \in Tasks : state[c] = "BlockedReply" => \E h \in Tasks : reply_to[h] = c
  /\ \A g, h \in Tasks : reply_to[g] = reply_to[h] /\ reply_to[g] # NoTask => g = h

\* Among any tasks, one does not wait for a reply owed by another of them:
\* CALLs never close a cycle of callers that wait for each other.
NoReplyCycle ==
  \A S \in SUBSET Tasks :
    S # {} => \E c \in S : \A h \in S : reply_to[h] # c

\* switch_to, rotate and the parking paths keep Sched.current and the states
\* in step: the current task is the one that runs, and the core parks only
\* when nothing at all is runnable.
CurrentRuns ==
  /\ parked = "no" => \A t \in Tasks : state[t] = "Running" <=> t = current
  /\ parked # "no" => \A t \in Tasks : state[t] \notin {"Ready", "Running"}

\* The result register of a blocked call is written by whoever wakes the
\* task: no task ever runs again with its slot argument as the result.
ResultWritten ==
  \A t \in Tasks : x0[t] = "slot" <=> state[t] \in Queued \cup {"BlockedReply"}

\* Some tasks were added at the tail and at most one was taken from the head.
FifoStep(q, r) == \E k \in 0..1 : k <= Len(q) /\ Len(q) - k <= Len(r)
                    /\ \A i \in 1..Len(q) - k : r[i] = q[i + k]

\* Waiting tasks are served first come, first served: no step lets a task
\* overtake one that queued before it, in the ready queue or at an endpoint.
FirstComeFirstServed ==
  [][/\ FifoStep(ready, ready')
     /\ \A e \in Endpoints :
          \/ waitq'[e] \in {waitq[e], Append(waitq[e], current)}
          \/ waitq[e] # <<>> /\ waitq'[e] = Tail(waitq[e])]_vars

\* A dead task never comes back and a blocked one is never cut short: the
\* only ways through the task states.
Lifecycle ==
  [][\A t \in Tasks : state'[t] # state[t] =>
       <<state[t], state'[t]>> \in
         ({"Inactive"} \X {"Stopped"}) \cup ({"Stopped"} \X {"Ready"})
         \cup ({"Running"} \X ({"Ready", "Dead", "BlockedReply"} \cup Queued))
         \cup ({"Ready", "BlockedSend", "BlockedRecv", "BlockedReply"} \X {"Ready", "Running"})
         \cup ({"BlockedCall"} \X {"BlockedReply"})]_vars

\* Round robin with a timer starves nobody: a ready task gets the core.
ReadyTaskRuns == \A t \in Tasks : state[t] = "Ready" ~> state[t] = "Running"

\* exit_current reports false "마지막 태스크였다면" (if it was the last task),
\* and kill_current prints "all tasks exited".
LastTaskExited ==
  parked = "all tasks exited" =>
    \A t \in Tasks : state[t] \in {"Inactive", "Stopped", "Dead"}

\* design/ipc.md: "A caller therefore always wakes up, either with a reply or
\* with NO_REPLY, as long as the system keeps running."
CallerAlwaysWakes ==
  \A t \in Tasks : state[t] = "BlockedReply" ~> state[t] # "BlockedReply" \/ ~Runs
=============================================================================
