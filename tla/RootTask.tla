------------------------------ MODULE RootTask ------------------------------
(***************************************************************************)
(* The self test of userspace/root-task/src/main.rs as a client of Kernel: *)
(* the root task and the seven tasks it starts, preempted anywhere.        *)
(*                                                                         *)
(* A step of a task is one system call or one access to the statics that   *)
(* the tasks share. The calls about memory (RETYPE, MAP, DEBUG_PUTC) touch *)
(* no task and are left out, and so are the thread pointers; modules       *)
(* Objects and Traps have them.                                            *)
(***************************************************************************)
EXTENDS Kernel

CONSTANTS
  tcb_exit, tcb_srv, tcb_cl, tcb_cl2, tcb_fault, tcb_fp, tcb_busy,
  ep, ep2,            \* the two endpoints
  CHILD_EXIT_TARGET   \* where the exiting child stops counting

VARIABLES
  pc,      \* for every task, the step it is at: for the root, an index of Program
  back,    \* the root is back from the call of this step and looks at the result
  mem,     \* the shared statics
  failed,  \* the step of the first check that failed, "none" before
  ticked   \* history: a tick has come outside the child that only a tick interrupts

rvars == <<pc, back, mem, failed>>
allvars == <<vars, rvars, ticked>>

\* A message and its transform. xform changes each word reversibly, and no
\* message of the test is the transform of another.
Message(name) == <<name, 0>>
xform(m) == <<m[1], m[2] + 1>>
Names == {"m0", "m1", "m2", "m3", "m4", "m5", "m6", "m7", "die", "CM_FIFO_A", "CM_FIFO_B", "CM_CALL"}

ASSUME RootTaskAssumption ==
  /\ Tasks = {Root, tcb_exit, tcb_srv, tcb_cl, tcb_cl2, tcb_fault, tcb_fp, tcb_busy}
  /\ Endpoints = {ep, ep2}
  /\ Msgs = Names \X (0..1)
  /\ ZeroMsg = Message("m0")

-----------------------------------------------------------------------------
(* The program of the root task: its steps in order, named as in the code. *)

configure(step, t, want) == [step |-> step, op |-> "configure", task |-> t, want |-> want]
resume(step, t, want) == [step |-> step, op |-> "resume", task |-> t, want |-> want]
ipc(step, op, e, nb, m, want, reply) ==
  [step |-> step, op |-> op, ep |-> e, nb |-> nb, m |-> m, want |-> want, reply |-> reply]
\* A call whose registers are not looked at afterwards.
ipc_status(step, op, e, nb, m, want) == ipc(step, op, e, nb, m, want, Msgs)
\* while the static is not one of the values: YIELD.
await(var, until) == [op |-> "await", var |-> var, until |-> until]
\* recv(ep2, nb), repeated after a YIELD as long as it would block.
poll(step, m) == ipc(step, "poll", ep2, TRUE, ZeroMsg, "ok", {m})
verify(step, var, is) == [step |-> step, op |-> "check", var |-> var, is |-> is]
store(var, val) == [op |-> "store", var |-> var, val |-> val]
yield == [step |-> "yield", op |-> "yield", want |-> "ok"]
spawn(step, t) == <<configure(step, t, "ok"), resume(step, t, "ok")>>

\* The scheduler: refusals, then a child that counts and exits.
ExitTest ==
  <<resume("resume unconfigured", tcb_busy, "BAD_STATE"),
    configure("configure bad tcb", "BAD_CAP", "BAD_CAP"),
    configure("configure bad aspace", "BAD_CAP", "BAD_CAP"),
    configure("configure bad stack", "BAD_VA", "BAD_VA"),
    configure("configure tcb exit", tcb_exit, "ok"),
    configure("configure twice", tcb_exit, "BAD_STATE"),
    resume("resume tcb exit", tcb_exit, "ok"),
    resume("resume twice", tcb_exit, "BAD_STATE"),
    await("exit", {CHILD_EXIT_TARGET})>>

\* Empty queues, refusals, then a server: SEND before and after its RECV, CALL.
ServerTest ==
  <<ipc_status("send nb empty", "send", ep, TRUE, Message("m1"), "WOULD_BLOCK"),
    ipc_status("recv nb empty", "recv", ep, TRUE, ZeroMsg, "WOULD_BLOCK"),
    ipc_status("call nb empty", "call", ep, TRUE, Message("m1"), "WOULD_BLOCK"),
    ipc_status("reply_recv nb empty", "reply_recv", ep, TRUE, ZeroMsg, "WOULD_BLOCK"),
    ipc_status("send bad cap", "send", "BAD_CAP", FALSE, ZeroMsg, "BAD_CAP"),
    ipc_status("send bad slot", "send", "BAD_SLOT", FALSE, ZeroMsg, "BAD_SLOT")>>
  \o spawn("tcb srv", tcb_srv) \o
  <<ipc_status("send first", "send", ep, FALSE, Message("m1"), "ok"),
    await("srv_count", 1..8),
    verify("send first data", "srv_mr", Message("m1")),
    ipc_status("send to waiting nb", "send", ep, TRUE, Message("m2"), "ok"),
    await("srv_count", 2..8),
    verify("send waiting data", "srv_mr", Message("m2")),
    ipc("call", "call", ep, FALSE, Message("m3"), "ok", {xform(Message("m3"))}),
    verify("call count", "srv_count", 3),
    ipc_status("send before call", "send", ep, FALSE, Message("m4"), "ok"),
    ipc("queued call", "call", ep, FALSE, Message("m5"), "ok", {xform(Message("m5"))}),
    verify("queued call count", "srv_count", 5),
    ipc("call again nb", "call", ep, TRUE, Message("m6"), "ok", {xform(Message("m6"))})>>

\* Two clients queue at ep2; one then calls the server, which holds the reply
\* until a call of the root overwrites it; the server dies in the next call.
ClientTest ==
  <<store("srv_hold", 1),
    configure("configure client", tcb_cl, "ok"),
    configure("configure client 2", tcb_cl2, "ok"),
    resume("resume client", tcb_cl, "ok"),
    resume("resume client 2", tcb_cl2, "ok"),
    poll("fifo first", Message("CM_FIFO_A")),
    poll("fifo second", Message("CM_FIFO_B")),
    await("srv_count", 7..8),
    verify("held call data", "srv_mr", Message("CM_CALL")),
    verify("client still held", "client", "waiting"),
    ipc("overwrite call", "call", ep, FALSE, Message("m7"), "ok", {xform(Message("m7"))}),
    verify("old caller aborted", "client", "NO_REPLY"),
    verify("overwrite count", "srv_count", 8),
    store("srv_die", 1),
    ipc_status("call no reply", "call", ep, FALSE, Message("die"), "NO_REPLY"),
    verify("no reply count", "srv_count", 8)>>

\* Two children that fault, then one that never gives up the core.
FaultTest ==
  <<configure("configure misaligned entry", "BAD_VA", "BAD_VA")>>
  \o spawn("tcb fault", tcb_fault) \o
  <<await("stage", 1..2), yield, yield, yield, yield,
    verify("fault child killed", "survived", 0),
    resume("dead tcb resume", tcb_fault, "BAD_STATE")>>
  \o spawn("tcb fp", tcb_fp) \o
  <<await("stage", {2}), yield, yield, yield, yield,
    verify("fp child killed", "survived", 0)>>
  \o spawn("tcb busy", tcb_busy) \o
  <<await("busy", {1})>>

Program == ExitTest \o ServerTest \o ClientTest \o FaultTest

-----------------------------------------------------------------------------

Executes(t) == Runs /\ current = t
Op == Program[pc[Root]]
InTest == pc[Root] <= Len(Program)

goto(t, l) == pc' = [pc EXCEPT ![t] = l]

\* fail(step): the task prints and exits.
fail(step) ==
  /\ failed' = IF failed = "none" THEN step ELSE failed
  /\ kill_current
  /\ UNCHANGED <<pc, back, mem>>

\* The system call of the step.
root_call ==
  /\ Executes(Root) /\ InTest /\ ~back
  /\ \/ Op.op = "configure" /\ sys_tcb_configure(Op.task)
     \/ Op.op = "resume" /\ sys_tcb_resume(Op.task)
     \/ Op.op = "send" /\ sys_send(Op.ep, Op.nb, Op.m)
     \/ Op.op \in {"recv", "poll"} /\ sys_recv(Op.ep, Op.nb)
     \/ Op.op = "call" /\ sys_call(Op.ep, Op.nb, Op.m)
     \/ Op.op = "reply_recv" /\ sys_reply_recv(Op.ep, Op.nb, Op.m)
     \/ Op.op = "yield" /\ sys_yield
  /\ back' = TRUE
  /\ UNCHANGED <<pc, mem, failed>>

\* check(step, ...) of the result; the two loops around recv(ep2, nb).
root_result ==
  /\ Executes(Root) /\ back
  /\ LET again == Op.op = "poll" /\ x0[Root] = "WOULD_BLOCK"
         right == x0[Root] = Op.want /\ ("reply" \in DOMAIN Op => mr[Root] \in Op.reply)
     IN \/ again /\ sys_yield /\ back' = FALSE /\ UNCHANGED <<pc, mem, failed>>
        \/ ~again /\ right /\ goto(Root, pc[Root] + 1) /\ back' = FALSE
           /\ UNCHANGED <<vars, mem, failed>>
        \/ ~again /\ ~right /\ fail(Op.step)

\* The steps on shared statics. A loop that finds its condition false yields.
root_memory ==
  /\ Executes(Root) /\ InTest
  /\ \/ /\ Op.op = "await"
        /\ IF mem[Op.var] \in Op.until THEN goto(Root, pc[Root] + 1) /\ UNCHANGED vars
           ELSE sys_yield /\ UNCHANGED pc
        /\ UNCHANGED <<back, mem, failed>>
     \/ /\ Op.op = "check"
        /\ IF mem[Op.var] = Op.is
           THEN goto(Root, pc[Root] + 1) /\ UNCHANGED <<vars, back, mem, failed>>
           ELSE fail(Op.step)
     \/ /\ Op.op = "store"
        /\ mem' = [mem EXCEPT ![Op.var] = Op.val]
        /\ goto(Root, pc[Root] + 1)
        /\ UNCHANGED <<vars, back, failed>>

\* The end: YIELD for ever.
root_end ==
  /\ Executes(Root) /\ ~InTest
  /\ sys_yield
  /\ UNCHANGED rvars

-----------------------------------------------------------------------------
(* The other tasks. *)

\* Task t at label l performs a call and goes on at label k.
syscall(t, l, k, call) ==
  /\ Executes(t) /\ pc[t] = l
  /\ call
  /\ goto(t, k)
  /\ UNCHANGED <<back, mem, failed>>

\* Task t at label l writes a static.
write(t, l, k, var, val) ==
  /\ Executes(t) /\ pc[t] = l
  /\ mem' = [mem EXCEPT ![var] = val]
  /\ goto(t, k)
  /\ UNCHANGED <<vars, back, failed>>

\* Task t at label l calls fail if its last call did not succeed.
failing(t, l, step) == Executes(t) /\ pc[t] = l /\ x0[t] # "ok" /\ fail(step)
succeeded(t) == x0[t] = "ok"

child_exit_entry ==
  \/ mem.exit < CHILD_EXIT_TARGET /\ write(tcb_exit, "start", "start", "exit", mem.exit + 1)
  \/ mem.exit = CHILD_EXIT_TARGET /\ syscall(tcb_exit, "start", "done", kill_current)

child_busy_entry == write(tcb_busy, "start", "start", "busy", 1)

server_entry ==
  \/ syscall(tcb_srv, "start", "received", sys_recv(ep, FALSE))
  \/ failing(tcb_srv, "received", "server recv")
  \/ succeeded(tcb_srv) /\ mem.srv_die # 0 /\ syscall(tcb_srv, "received", "done", kill_current)
  \/ succeeded(tcb_srv) /\ mem.srv_die = 0
     /\ write(tcb_srv, "received", "recorded", "srv_mr", mr[tcb_srv])
  \/ write(tcb_srv, "recorded", "counted", "srv_count", mem.srv_count + 1)
  \/ write(tcb_srv, "counted", IF mem.srv_hold # 0 THEN "hold" ELSE "reply", "srv_hold", 0)
  \/ syscall(tcb_srv, "hold", "received", sys_recv(ep, FALSE))
  \/ syscall(tcb_srv, "reply", "received", sys_reply_recv(ep, FALSE, xform(mr[tcb_srv])))

client_entry ==
  \/ syscall(tcb_cl, "start", "sent", sys_send(ep2, FALSE, Message("CM_FIFO_A")))
  \/ failing(tcb_cl, "sent", "client send")
  \/ succeeded(tcb_cl) /\ syscall(tcb_cl, "sent", "called", sys_call(ep, FALSE, Message("CM_CALL")))
  \/ write(tcb_cl, "called", "exit", "client", x0[tcb_cl])
  \/ syscall(tcb_cl, "exit", "done", kill_current)

client2_entry ==
  \/ syscall(tcb_cl2, "start", "sent", sys_send(ep2, FALSE, Message("CM_FIFO_B")))
  \/ failing(tcb_cl2, "sent", "client2 send")
  \/ succeeded(tcb_cl2) /\ syscall(tcb_cl2, "sent", "done", kill_current)

\* The stores of a child that faults: the stage it has come to and, should it
\* ever run on after the fault, that it survived.
fault_stores(stage) ==
  {[at |-> "start", to |-> "staged", var |-> "stage", val |-> stage],
   [at |-> "faulted", to |-> "loop", var |-> "survived", val |-> mem.survived + 1]}

child_fault_entry ==
  \/ \E s \in fault_stores(1) : write(tcb_fault, s.at, s.to, s.var, s.val)
  \/ \E s \in {<<"staged", "yielded">>, <<"loop", "loop">>} :
       syscall(tcb_fault, s[1], s[2], sys_yield)
  \/ syscall(tcb_fault, "yielded", "faulted", k0_fault)

child_fp_entry ==
  \/ \E s \in fault_stores(2) : write(tcb_fp, s.at, s.to, s.var, s.val)
  \/ \E s \in {<<"staged", "faulted">>, <<"loop", "loop">>} :
       syscall(tcb_fp, s[1], s[2], IF s[1] = "staged" THEN k0_fault ELSE sys_yield)

-----------------------------------------------------------------------------

RInit ==
  /\ Init
  /\ pc = [t \in Tasks |-> IF t = Root THEN 1 ELSE "start"]
  /\ back = FALSE
  /\ mem = [exit |-> 0, busy |-> 0, srv_count |-> 0, srv_die |-> 0, srv_hold |-> 0,
            srv_mr |-> ZeroMsg, client |-> "waiting", stage |-> 0, survived |-> 0]
  /\ failed = "none"
  /\ ticked = FALSE

root == root_call \/ root_result \/ root_memory \/ root_end
children == \/ child_exit_entry \/ child_busy_entry \/ server_entry \/ client_entry
            \/ client2_entry \/ child_fault_entry \/ child_fp_entry

tick ==
  /\ k0_preempt
  /\ ticked' = (ticked \/ current # tcb_busy)
  /\ UNCHANGED rvars
stop == park /\ UNCHANGED rvars

\* The timer may tick at any point of any task.
RNext == tick \/ ((root \/ children \/ stop) /\ UNCHANGED ticked)

\* A task that is ready again and again executes, however often it is preempted:
\* a tick comes once a second. Of the ticks only those are counted on that end
\* the busy child's turn.
RFairSpec ==
  /\ RInit /\ [][RNext]_allvars
  /\ SF_<<vars, rvars>>(root)
  /\ SF_<<vars, rvars>>(current = tcb_busy /\ tick)
  /\ SF_<<vars, rvars>>(child_exit_entry)
  /\ SF_<<vars, rvars>>(child_busy_entry)
  /\ SF_<<vars, rvars>>(server_entry)
  /\ SF_<<vars, rvars>>(client_entry)
  /\ SF_<<vars, rvars>>(client2_entry)
  /\ SF_<<vars, rvars>>(child_fault_entry)
  /\ SF_<<vars, rvars>>(child_fp_entry)

-----------------------------------------------------------------------------
(* Properties *)

\* The checks that a tick at the wrong moment makes fail: the server has counted
\* a message but is not back in RECV, the second client sends before the first,
\* the aborted client has not yet stored its result.
Racy == {"send to waiting nb", "fifo first", "old caller aborted"}

\* Preempted anywhere, the self test fails in no check but these three, and in
\* these only after a tick outside the busy child: every other result, message,
\* count and order that it checks is the kernel's promise, and holds under every
\* schedule.
OnlyRacesFail == failed # "none" => failed \in Racy /\ ticked

\* The test never hangs: preempted anywhere, the root task comes to the end of
\* it or to a check that fails. No await spins for ever, and no SEND or CALL
\* of the test is left blocked. Without such a tick it comes to the end, for
\* then no check fails.
TestEnds == <>(~InTest \/ (failed # "none" /\ ticked))
=============================================================================
