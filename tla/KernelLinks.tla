----------------------------- MODULE KernelLinks -----------------------------
(***************************************************************************)
(* The intrusive lists under Kernel: Tcb.next, shared by the ready queue   *)
(* and every endpoint queue, with Sched.head/tail and Endpoint.head/tail.  *)
(*                                                                         *)
(* Every trap of Kernel is taken together with the pushes and pops that    *)
(* its handler makes, in the handler's order and decided by what the links *)
(* say. The sequences ready and waitq are then the history of those        *)
(* operations, and Represents says that the links are these sequences.     *)
(***************************************************************************)
EXTENDS Kernel

CONSTANT READY   \* the ready queue, as a queue next to the endpoints

ASSUME ReadyAssumption == READY \notin Endpoints

Queues == Endpoints \cup {READY}

VARIABLE links   \* Tcb.next of every task, head and tail of every queue

lvars == <<vars, links>>

-----------------------------------------------------------------------------
(* Endpoint::push and pop, and the same of Sched *)

push(l, q, t) ==
  LET cleared == [l.next EXCEPT ![t] = NoTask] IN
  [next |-> IF l.tail[q] = NoTask THEN cleared ELSE [cleared EXCEPT ![l.tail[q]] = t],
   head |-> IF l.tail[q] = NoTask THEN [l.head EXCEPT ![q] = t] ELSE l.head,
   tail |-> [l.tail EXCEPT ![q] = t]]

\* Leaves the tail when the queue runs empty.
pop_mutant(l, q) ==
  LET h == l.head[q] IN
  IF h = NoTask THEN l
  ELSE [l EXCEPT !.next[h] = NoTask, !.head[q] = l.next[h]]

pop(l, q) ==
  LET h == l.head[q]
      n == l.next[h]
  IN  IF h = NoTask THEN l
      ELSE [next |-> [l.next EXCEPT ![h] = NoTask],
            head |-> [l.head EXCEPT ![q] = n],
            tail |-> IF n = NoTask THEN [l.tail EXCEPT ![q] = NoTask] ELSE l.tail]

sched_push(l, t) == IF t = NoTask THEN l ELSE push(l, READY, t)
sched_pop(l) == pop(l, READY)

-----------------------------------------------------------------------------
(* The list operations of the handlers *)

rotate_links ==
  IF links.head[READY] = NoTask THEN links ELSE sched_push(sched_pop(links), current)

\* push(cur) on the endpoint, then the pop of block_and_switch.
wait_links(l, e) == sched_pop(push(l, e, current))

\* (*head).state, for a head that is not null.
HeadState(l, e) == IF l.head[e] = NoTask THEN "null" ELSE state[l.head[e]]

send_links(e, nonblock) ==
  IF HeadState(links, e) = "BlockedRecv" THEN sched_push(pop(links, e), links.head[e])
  ELSE IF nonblock THEN links ELSE wait_links(links, e)

call_links(e, nonblock) ==
  LET rcv == links.head[e] IN
  IF HeadState(links, e) = "BlockedRecv"
  THEN sched_pop(sched_push(sched_push(pop(links, e), reply_to[rcv]), rcv))
  ELSE IF nonblock THEN links ELSE wait_links(links, e)

\* old is the caller that the receiving task still owes a reply.
recv_links(l, e, nonblock, old) ==
  CASE HeadState(l, e) = "BlockedCall" -> sched_push(pop(l, e), old)
    [] HeadState(l, e) = "BlockedSend" -> sched_push(pop(l, e), l.head[e])
    [] OTHER -> IF nonblock THEN l ELSE wait_links(l, e)

-----------------------------------------------------------------------------

LinkInit ==
  /\ Init
  /\ links = [next |-> [t \in Tasks |-> NoTask],
              head |-> [q \in Queues |-> NoTask],
              tail |-> [q \in Queues |-> NoTask]]

LinkSwitch ==
  /\ sys_yield \/ k0_preempt
  /\ links' = rotate_links

LinkKill ==
  /\ kill_current
  /\ links' = sched_pop(sched_push(links, reply_to[current]))

LinkObject ==
  /\ \/ \E status \in {"ok"} \cup EpErrors : sys_object(status)
     \/ \E t \in (Tasks \ {Root}) \cup TcbErrors : sys_tcb_configure(t)
  /\ UNCHANGED links

LinkResume(t) ==
  /\ sys_tcb_resume(t)
  /\ links' = IF t \in Tasks /\ state[t] = "Stopped" THEN sched_push(links, t) ELSE links

LinkSend(ep, nonblock, m) ==
  /\ sys_send(ep, nonblock, m)
  /\ links' = IF ep \in Endpoints THEN send_links(ep, nonblock) ELSE links

LinkCall(ep, nonblock, m) ==
  /\ sys_call(ep, nonblock, m)
  /\ links' = IF ep \in Endpoints THEN call_links(ep, nonblock) ELSE links

LinkRecv(ep, nonblock) ==
  /\ sys_recv(ep, nonblock)
  /\ links' = IF ep \in Endpoints THEN recv_links(links, ep, nonblock, reply_to[current]) ELSE links

LinkReplyRecv(ep, nonblock, m) ==
  /\ sys_reply_recv(ep, nonblock, m)
  /\ links' = IF ep \in Endpoints
              THEN recv_links(sched_push(links, reply_to[current]), ep, nonblock, NoTask)
              ELSE links

LinkPark == park /\ UNCHANGED links

LinkNext ==
  \/ LinkSwitch \/ LinkKill \/ LinkObject \/ LinkPark
  \/ \E t \in (Tasks \ {Root}) \cup TcbErrors : LinkResume(t)
  \/ \E ep \in Endpoints \cup EpErrors, nonblock \in BOOLEAN, m \in Msgs :
       \/ LinkSend(ep, nonblock, m)
       \/ LinkCall(ep, nonblock, m)
       \/ LinkRecv(ep, nonblock)
       \/ LinkReplyRecv(ep, nonblock, m)

LinkSpec == LinkInit /\ [][LinkNext]_lvars

-----------------------------------------------------------------------------

\* The links of queue q spell the sequence s.
Spells(l, q, s) ==
  /\ l.head[q] = IF s = <<>> THEN NoTask ELSE s[1]
  /\ l.tail[q] = IF s = <<>> THEN NoTask ELSE s[Len(s)]
  /\ \A i \in 1..Len(s) : l.next[s[i]] = IF i = Len(s) THEN NoTask ELSE s[i + 1]

\* Although all queues share Tcb.next, the links always spell the queues in
\* order: no push, pop or pair of them in one handler loses a task, crosses
\* two queues or leaves a stale tail.
Represents ==
  /\ Spells(links, READY, ready)
  /\ \A e \in Endpoints : Spells(links, e, waitq[e])
=============================================================================
