------------------------------ MODULE KernelRpc ------------------------------
(***************************************************************************)
(* Kernel implements Rpc: the refinement mapping.                          *)
(***************************************************************************)
EXTENDS Kernel

\* The endpoint at which a queued task waits.
at(wq, t) == CHOOSE e \in Endpoints : In(t, wq[e])

\* What a task in state s waits for, at e if it is queued.
want_of(s, e) ==
  CASE s \in {"Inactive", "Stopped"} -> <<"unborn">>
    [] s \in {"Ready", "Running"} -> <<"free">>
    [] s = "Dead" -> <<"dead">>
    [] s = "BlockedReply" -> <<"reply">>
    [] s = "BlockedSend" -> <<"send", e>>
    [] s = "BlockedCall" -> <<"call", e>>
    [] s = "BlockedRecv" -> <<"recv", e>>

wants(st, wq) == [t \in Tasks |-> want_of(st[t], at(wq, t))]

R == INSTANCE Rpc WITH
       Results <- Status,
       want <- wants(state, waitq),
       holds <- reply_to,
       msg <- mr,
       got <- x0

\* Every trap is a step of Rpc, or invisible to the programs: SEND, RECV, CALL
\* and REPLY_RECV keep their promises whatever the interleaving of tasks, the
\* order of the queues, and the deaths and faults in between.
ImplementsRpc == R!RpcSpec
==============================================================================
