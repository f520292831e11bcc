------------------------------- MODULE Traps --------------------------------
(***************************************************************************)
(* Exception entry and exit, interrupts and the timer around Kernel:       *)
(* crates/k0-arch (vectors.S, usermode.rs, irq.rs) and the hardware half   *)
(* of switch_to and handoff in crates/k0-sched.                            *)
(*                                                                         *)
(* A trap of Kernel is here the exception, which saves the registers       *)
(* through __current_context, the handler, and __user_restore in two       *)
(* steps. An interrupt is acknowledged, served and completed in steps of   *)
(* their own, between which the timer may expire again. The kernel's       *)
(* variables keep their values from Kernel's Init until the hand-off to    *)
(* the root task.                                                          *)
(*                                                                         *)
(* A register file stands for what Context holds besides x0-x5: the other  *)
(* registers, SP, the program counter, the status and the two thread       *)
(* pointers. It is a number; advance(f) is f with the program counter at   *)
(* the next instruction, and 0 is the file a task starts with.             *)
(***************************************************************************)
EXTENDS Kernel

CONSTANTS
  Files,      \* the number of register files
  Platforms,  \* features of the build: "virt" (GICv3) or "apple" (timer FIQ)
  POLL_LIMIT, \* how often gicv3::init reads a busy bit
  Strays,     \* exceptions the design excludes: "intid", "line", "serror"
  KernelPc    \* an address of the kernel, with the status of EL1

ASSUME TrapsAssumption ==
  /\ Files \in Nat \ {0}
  /\ POLL_LIMIT \in Nat
  /\ Strays \subseteq {"intid", "line", "serror"}
  /\ KernelPc \notin 0..Files - 1

VARIABLES
  platform,   \* the build
  phase,      \* what the core executes
  masked,     \* PSTATE.I (F on apple) and A
  n,          \* the poll counter of gicv3::init
  timer,      \* "off", "armed" or "fired": the level of the timer interrupt
  active,     \* TIMER_INTID is acknowledged and not completed
  resume,     \* the phase an interrupt of EL1 goes back to, otherwise "user"
  cur_ctx,    \* __current_context
  ctx,        \* Tcb.ctx of every task
  elr,        \* ELR_EL1 and SPSR_EL1: of a task's file, or KernelPc
  regs,       \* the registers of the core while it is at EL0
  own,        \* history: the file each task left, or was given, last
  due         \* history: expirations of the timer no tick has answered yet

irqvars == <<timer, active, resume, due>>
tvars == <<platform, phase, masked, n, irqvars, cur_ctx, ctx, elr, regs, own>>
allvars == <<vars, tvars>>

File == 0..Files - 1
advance(f) == (f + 1) % Files

\* The causes of an exception taken at EL0, while its handler runs.
Sync == {"svc", "wfx", "fault"}
Interrupts == {"timer", "spurious"} \cup (Strays \ {"serror"})
Dispatching == Interrupts \cup {"tick", "eoi"}
Booting == {"gicd", "gicr", "arm"}
Restoring == {"restore", "eret"}
Phases == Booting \cup {"main", "user", "halted", "astray", "preempt"} \cup Restoring \cup Sync \cup Dispatching

\* Phases at EL1 in which a task has not trapped: interrupts go to irq_current.
InKernel == phase \in {"main"} \cup Restoring

-----------------------------------------------------------------------------
(* Interrupt controller and timer *)

\* A busy bit is read until it clears, or more than POLL_LIMIT times.
poll(here, next) ==
  /\ phase = here
  /\ \/ phase' = next /\ n' = 0
     \/ n' = n + 1 /\ phase' = IF n' > POLL_LIMIT THEN "halted" ELSE here
  /\ UNCHANGED <<vars, platform, masked, irqvars, cur_ctx, ctx, elr, regs, own>>

\* The distributor, then the redistributor; then only TIMER_INTID is enabled.
gicv3_init == poll("gicd", "gicr") \/ poll("gicr", "arm")

\* The end of irq::init: the timer starts and interrupts are unmasked.
init ==
  /\ phase = "arm"
  /\ timer' = "armed"
  /\ masked' = FALSE
  /\ phase' = "main"
  /\ UNCHANGED <<vars, platform, n, active, resume, due, cur_ctx, ctx, elr, regs, own>>

\* The counter reaches the compare value: the level is raised until re-armed.
timer_fires ==
  /\ timer = "armed"
  /\ timer' = "fired"
  /\ due' = due + 1
  /\ UNCHANGED <<vars, platform, phase, masked, n, active, resume, cur_ctx, ctx, elr, regs, own>>

\* The GIC does not signal an interrupt again before its completion.
Signalled(i) ==
  CASE i = "timer" -> timer = "fired" /\ ~active
    [] i = "spurious" -> platform = "virt"
    [] OTHER -> i = "intid" => platform = "virt"

-----------------------------------------------------------------------------
(* dispatch_irq and dispatch_fiq, for both exception levels *)

\* Preempts whatever the interrupt was.
dispatched_mutant(tick) ==
  IF resume = "user" THEN phase' = "preempt" /\ UNCHANGED <<masked, resume>>
  ELSE phase' = resume /\ masked' = FALSE /\ resume' = "user"

\* The dispatcher returns. At EL1 __exc_restore goes back to the interrupted
\* instruction, tick or not; irq_lower and fiq_lower preempt after a tick.
dispatched(tick) ==
  IF resume = "user"
  THEN phase' = (IF tick THEN "preempt" ELSE "restore") /\ UNCHANGED <<masked, resume>>
  ELSE phase' = resume /\ masked' = FALSE /\ resume' = "user"

\* ICC_IAR1_EL1 has the number of what is pending when it is read: the timer
\* may have expired since the exception.
acknowledged(i) == IF i = "spurious" /\ Signalled("timer") THEN "timer" ELSE i

\* gicv3::ack makes the interrupt active; the spurious number is not. The FIQ
\* of apple needs no acknowledgement. What the design excludes stops the core.
ack(i) ==
  LET id == acknowledged(i) IN
  /\ phase = i
  /\ active' = (active \/ (id = "timer" /\ platform = "virt"))
  /\ \/ id = "timer" /\ phase' = "tick" /\ UNCHANGED <<masked, resume>>
     \/ id = "spurious" /\ dispatched(FALSE)
     \/ id \in Strays /\ phase' = "halted" /\ resume' = "user" /\ UNCHANGED masked
  /\ UNCHANGED <<vars, platform, n, timer, due, cur_ctx, ctx, elr, regs, own>>

\* The tick is counted and the timer armed again, which lowers the level. At
\* EL1 nothing else answers the tick.
timer_tick ==
  /\ phase = "tick"
  /\ timer' = "armed"
  /\ due' = IF resume = "user" THEN due ELSE due - 1
  /\ IF platform = "virt" THEN phase' = "eoi" /\ UNCHANGED <<masked, resume>>
     ELSE dispatched(TRUE)
  /\ UNCHANGED <<vars, platform, n, active, cur_ctx, ctx, elr, regs, own>>

\* Returns without completing the interrupt.
eoi_mutant ==
  /\ phase = "eoi"
  /\ dispatched(TRUE)
  /\ UNCHANGED <<vars, platform, n, timer, active, due, cur_ctx, ctx, elr, regs, own>>

\* gicv3::eoi completes the interrupt: the GIC may signal it again.
eoi ==
  /\ phase = "eoi"
  /\ active' = FALSE
  /\ dispatched(TRUE)
  /\ UNCHANGED <<vars, platform, n, timer, due, cur_ctx, ctx, elr, regs, own>>

\* An interrupt taken at EL1: the hardware overwrites ELR_EL1 and SPSR_EL1.
irq_current(i) ==
  /\ InKernel
  /\ ~masked
  /\ Signalled(i)
  /\ phase' = i
  /\ resume' = phase
  /\ masked' = TRUE
  /\ elr' = KernelPc
  /\ UNCHANGED <<vars, platform, n, timer, active, due, cur_ctx, ctx, regs, own>>

\* A vector without a handler: exception_fatal prints and parks.
exception_fatal ==
  /\ "serror" \in Strays
  /\ ~masked
  /\ phase' = "halted"
  /\ masked' = TRUE
  /\ UNCHANGED <<vars, platform, n, irqvars, cur_ctx, ctx, elr, regs, own>>

-----------------------------------------------------------------------------
(* EL0: the running task, and how it is left *)

\* The task computes.
user_step ==
  /\ phase = "user"
  /\ \E f \in File : regs' = f /\ own' = [own EXCEPT ![current] = f]
  /\ UNCHANGED <<vars, platform, phase, masked, n, irqvars, cur_ctx, ctx, elr>>

\* Leaves interrupts unmasked.
lower_common_mutant(cause) ==
  /\ phase = "user"
  /\ phase' = cause
  /\ ctx' = [ctx EXCEPT ![cur_ctx] = regs]
  /\ elr' = regs
  /\ own' = [own EXCEPT ![current] = regs]
  /\ UNCHANGED <<vars, platform, masked, n, irqvars, cur_ctx, regs>>

\* __lower_common: all registers go to the context that __current_context
\* names. The hardware leaves the program counter behind an svc, and at the
\* instruction that trapped or was interrupted otherwise.
lower_common(cause) ==
  LET left == IF cause = "svc" THEN advance(regs) ELSE regs IN
  /\ phase = "user"
  /\ phase' = cause
  /\ masked' = TRUE
  /\ ctx' = [ctx EXCEPT ![cur_ctx] = left]
  /\ elr' = left
  /\ own' = [own EXCEPT ![current] = IF cause = "wfx" THEN advance(left) ELSE left]
  /\ UNCHANGED <<vars, platform, n, irqvars, cur_ctx, regs>>

-----------------------------------------------------------------------------
(* Handlers. A handler that parks does not come back. *)

\* Forgets the context of the task it switches to.
set_current_mutant == UNCHANGED cur_ctx

\* switch_to points __current_context to the task that runs next.
set_current == cur_ctx' = current'

leave_handler == phase' = IF parked' = "no" THEN "restore" ELSE "halted"

\* el0_sync: an svc, or a fault that kills the task.
el0_sync ==
  /\ \/ phase = "svc" /\ k0_syscall
     \/ phase = "fault" /\ k0_fault
  /\ set_current
  /\ leave_handler
  /\ UNCHANGED <<platform, masked, n, irqvars, ctx, elr, regs, own>>

\* A trapped WFI or WFE: the task goes on behind it.
el0_wfx ==
  /\ phase = "wfx"
  /\ ctx' = [ctx EXCEPT ![cur_ctx] = advance(@)]
  /\ phase' = "restore"
  /\ UNCHANGED <<vars, platform, masked, n, irqvars, cur_ctx, elr, regs, own>>

\* irq_lower and fiq_lower after a tick.
irq_lower ==
  /\ phase = "preempt"
  /\ k0_preempt
  /\ set_current
  /\ due' = due - 1
  /\ phase' = "restore"
  /\ UNCHANGED <<platform, masked, n, timer, active, resume, ctx, elr, regs, own>>

-----------------------------------------------------------------------------
(* The way to EL0 *)

\* kernel_main ends: the root task's context is set, enter_user jumps to
\* __user_restore.
handoff ==
  /\ phase = "main"
  /\ cur_ctx' = Root
  /\ phase' = "restore"
  /\ UNCHANGED <<vars, platform, masked, n, irqvars, ctx, elr, regs, own>>

\* The first half of __user_restore: ELR_EL1 and SPSR_EL1 are loaded.
user_restore ==
  /\ phase = "restore"
  /\ elr' = ctx[cur_ctx]
  /\ phase' = "eret"
  /\ UNCHANGED <<vars, platform, masked, n, irqvars, cur_ctx, ctx, regs, own>>

\* The rest of the registers, and eret. If an interrupt came in between, eret
\* goes back to where it was taken, at EL1, with the task's registers: from
\* there the code faults or repeats the eret.
eret ==
  /\ phase = "eret"
  /\ IF elr = KernelPc THEN phase' = "astray" /\ UNCHANGED <<regs, masked>>
     ELSE phase' = "user" /\ regs' = elr /\ masked' = FALSE
  /\ UNCHANGED <<vars, platform, n, irqvars, cur_ctx, ctx, elr, own>>

-----------------------------------------------------------------------------

TInit ==
  /\ Init
  /\ platform \in Platforms
  /\ phase = IF platform = "virt" THEN "gicd" ELSE "arm"
  /\ masked = TRUE
  /\ n = 0
  /\ timer = "off"
  /\ active = FALSE
  /\ resume = "user"
  /\ due = 0
  /\ cur_ctx = NoTask
  /\ ctx = [t \in Tasks |-> 0]
  /\ elr = KernelPc
  /\ regs = 0
  /\ own = [t \in Tasks |-> 0]

\* The kernel parks, or runs astray.
stopped == phase \in {"halted", "astray"} /\ UNCHANGED allvars

lower_irq == \E i \in Interrupts : Signalled(i) /\ lower_common(i)
Dispatch == timer_tick \/ eoi \/ \E i \in Interrupts : ack(i)
Handlers == el0_sync \/ el0_wfx \/ irq_lower \/ Dispatch
KernelSteps == gicv3_init \/ init \/ handoff \/ user_restore \/ eret \/ Handlers

TNext ==
  \/ KernelSteps
  \/ timer_fires
  \/ \E i \in Interrupts : irq_current(i)
  \/ exception_fatal
  \/ user_step
  \/ \E cause \in Sync : lower_common(cause)
  \/ lower_irq
  \/ stopped

TSpec == TInit /\ [][TNext]_allvars

\* The core executes kernel code, the counter counts, and a pending interrupt
\* is taken in the end although the task traps by itself again and again. The
\* task need not do anything.
TFairSpec ==
  /\ TSpec
  /\ WF_allvars(KernelSteps)
  /\ WF_allvars(timer_fires)
  /\ SF_allvars(Signalled("timer") /\ lower_common("timer"))

-----------------------------------------------------------------------------
(* Properties *)

\* A task never sees that it was interrupted: whenever it runs, the scheduler
\* and __current_context agree on it, and its registers are those it left, or
\* behind the instruction that trapped; the others' are saved.
ContextsKept ==
  phase = "user" =>
    /\ cur_ctx = current /\ state[current] = "Running"
    /\ regs = own[current]
    /\ \A t \in Tasks \ {current} : ctx[t] = own[t]

\* The level of the timer interrupt, as an expiration still to be served.
Pending == IF timer = "fired" THEN 1 ELSE 0

\* A preemption answers one expiration of the timer, and never one that is
\* still to be signalled: so neither a spurious interrupt preempts, nor a tick
\* that the kernel itself was interrupted by, nor one tick twice.
OnlyTicksPreempt ==
  [][current' # current =>
       phase \in {"svc", "fault"} \/ (due' = due - 1 /\ due' >= Pending)]_allvars

\* Whenever a task runs, or kernel code goes on that was interrupted, every
\* acknowledged interrupt has been completed, the timer runs, and every
\* expiration was served by exactly one tick, except the one that raises the
\* level now; also when the timer expires again before the completion.
NothingLeftActive ==
  phase \in {"main", "user"} \cup Restoring => ~active /\ timer # "off" /\ due = Pending

\* After the hand-off the core never leaves the kernel to anywhere but a task.
NeverAstray ==
  phase = "astray" => current = Root /\ ready = <<>> /\ own = [t \in Tasks |-> 0]

\* What Kernel assumes of the timer: a tick keeps coming while tasks are ready,
\* whatever they do, and every trap is one step of Kernel.
ImplementsKernel == FairSpec

\* "현재 컨텍스트를 복원해 EL0로 진입하는 함수입니다" (usermode.rs, enter_user: it
\* restores the current context and enters EL0).
EnterUserEnters == phase # "astray"
=============================================================================
