--------------------------------- MODULE Rpc ---------------------------------
(***************************************************************************)
(* What the IPC of k0 promises to the tasks that use it: messages and      *)
(* remote calls between tasks that wait for each other, without queues,    *)
(* scheduler or task control blocks. Which of several waiting partners is  *)
(* served, and when a task runs, is left open. Module Kernel implements    *)
(* this specification (module KernelRpc).                                  *)
(***************************************************************************)
EXTENDS Naturals

CONSTANTS Tasks, NoTask, Endpoints, Msgs, Results, Root

VARIABLES
  want,   \* what each task waits for
  holds,  \* the caller to which each task owes a reply
  msg,    \* the message registers of each task
  got     \* the result of each task's last call, "slot" while there is none

rpcvars == <<want, holds, msg, got>>

\* A wait for a partner at an endpoint, or for none.
Waits == {"send", "call", "recv"} \X Endpoints
Unborn == <<"unborn">>
Free == <<"free">>
Reply == <<"reply">>
Dead == <<"dead">>
Wants == Waits \cup {Unborn, Free, Reply, Dead}

Receiver(w, r, e) == w[r] = <<"recv", e>>
Sender(w, s, e) == w[s] \in {<<"send", e>>, <<"call", e>>}

\* A caller goes on, told the result of its call; nothing if there is none.
woken(w, c) == IF c = NoTask THEN w ELSE [w EXCEPT ![c] = Free]
told(g, c, r) == IF c = NoTask THEN g ELSE [g EXCEPT ![c] = r]

\* The task computes, or calls something that is not IPC.
Local(t) ==
  /\ UNCHANGED <<want, holds>>
  /\ msg'[t] \in Msgs /\ msg' = [msg EXCEPT ![t] = msg'[t]]
  /\ got'[t] \in Results /\ got' = [got EXCEPT ![t] = got'[t]]

\* The task sets the registers of a new one.
Prepare(t, u) ==
  /\ want[u] = Unborn
  /\ msg'[u] \in Msgs /\ msg' = [msg EXCEPT ![u] = msg'[u]]
  /\ got' = [got EXCEPT ![u] = "ok", ![t] = "ok"]
  /\ UNCHANGED <<want, holds>>

\* The task starts a new one.
Start(t, u) ==
  /\ want[u] = Unborn
  /\ want' = [want EXCEPT ![u] = Free]
  /\ got' = [got EXCEPT ![t] = "ok"]
  /\ UNCHANGED <<holds, msg>>

\* The task ends. A caller that it owes a reply is told so.
Die(t) ==
  /\ want' = [woken(want, holds[t]) EXCEPT ![t] = Dead]
  /\ got' = told(got, holds[t], "NO_REPLY")
  /\ holds' = [holds EXCEPT ![t] = NoTask]
  /\ UNCHANGED msg

\* A message to a receiver that waits. A call makes the receiver owe a reply;
\* the one it owed before will never come, and its caller is told so.
Give(t, e, m, kind) ==
  \E r \in Tasks :
    /\ Receiver(want, r, e)
    /\ msg' = [msg EXCEPT ![t] = m, ![r] = m]
    /\ \/ /\ kind = "send"
          /\ want' = [want EXCEPT ![r] = Free]
          /\ got' = [got EXCEPT ![t] = "ok", ![r] = "ok"]
          /\ UNCHANGED holds
       \/ /\ kind = "call"
          /\ want' = [woken(want, holds[r]) EXCEPT ![r] = Free, ![t] = Reply]
          /\ got' = [told(got, holds[r], "NO_REPLY") EXCEPT ![r] = "ok", ![t] = "slot"]
          /\ holds' = [holds EXCEPT ![r] = t]

\* With no receiver the message is offered.
Offer(t, e, m, kind) ==
  /\ \A r \in Tasks : ~Receiver(want, r, e)
  /\ want' = [want EXCEPT ![t] = <<kind, e>>]
  /\ msg' = [msg EXCEPT ![t] = m]
  /\ got' = [got EXCEPT ![t] = "slot"]
  /\ UNCHANGED holds

\* The task receives at e, or waits, or does not care to wait. The arguments
\* are the state that a reply just before has left.
Receive(t, e, w, h, g, regs) ==
  \/ \E s \in Tasks :
       /\ Sender(w, s, e)
       /\ msg' = [regs EXCEPT ![t] = regs[s]]
       /\ \/ /\ w[s] = <<"send", e>>
             /\ want' = [w EXCEPT ![s] = Free]
             /\ got' = [g EXCEPT ![s] = "ok", ![t] = "ok"]
             /\ holds' = h
          \/ /\ w[s] = <<"call", e>>
             /\ want' = [woken(w, h[t]) EXCEPT ![s] = Reply]
             /\ got' = [told(g, h[t], "NO_REPLY") EXCEPT ![t] = "ok"]
             /\ holds' = [h EXCEPT ![t] = s]
  \/ /\ \A s \in Tasks : ~Sender(w, s, e)
     /\ \/ want' = [w EXCEPT ![t] = <<"recv", e>>] /\ got' = [g EXCEPT ![t] = "slot"]
        \/ want' = w /\ got' = [g EXCEPT ![t] = "WOULD_BLOCK"]
     /\ msg' = regs
     /\ holds' = h

\* The reply m reaches the caller, and the task goes on to receive.
ReplyReceive(t, e, m) ==
  LET c == holds[t]
      sent == [msg EXCEPT ![t] = m]
  IN Receive(t, e, woken(want, c), [holds EXCEPT ![t] = NoTask], told(got, c, "ok"),
             IF c = NoTask THEN sent ELSE [sent EXCEPT ![c] = m])

RpcInit ==
  /\ want = [t \in Tasks |-> IF t = Root THEN Free ELSE Unborn]
  /\ holds = [t \in Tasks |-> NoTask]
  /\ \E m \in Msgs : msg = [t \in Tasks |-> m]
  /\ got = [t \in Tasks |-> "ok"]

Step(t) ==
  /\ want[t] = Free
  /\ \/ Local(t)
     \/ \E u \in Tasks : Prepare(t, u) \/ Start(t, u)
     \/ Die(t)
     \/ \E e \in Endpoints, m \in Msgs, kind \in {"send", "call"} :
          Give(t, e, m, kind) \/ Offer(t, e, m, kind)
     \/ \E e \in Endpoints : Receive(t, e, want, holds, got, msg)
     \/ \E e \in Endpoints, m \in Msgs : ReplyReceive(t, e, m)

RpcNext == \E t \in Tasks : Step(t)

RpcSpec == RpcInit /\ [][RpcNext]_rpcvars
==============================================================================
