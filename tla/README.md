# k0 in TLA+

A model of the k0 microkernel, checked with TLC and, for tasks, IPC, exceptions,
capabilities, page tables, the device tree and the boot, proved with TLAPS. Paths below are
relative to the repository root (`src/` in `PROJECT.json`). `PROJECT.json` maps
each definition to the lines it models.

## The system

k0 is a single-core microkernel for AArch64 without a heap. It boots, checks
the memory map, loads one verified root task, gives it all free memory as
capabilities, and then runs only when a task traps. Interrupts are masked while
the kernel handles a trap, so it is handled to its end before anything else
happens: **one trap is one step** in every module but Traps, which takes a trap
apart and shows that this is sound. Concurrency is that of tasks: a blocked call
is finished by traps of other tasks, in any order.

| part | source | module | state of the model |
|---|---|---|---|
| tasks (TCBs), `spawn_root` | `crates/k0-task` | Kernel, Image, Objects | modelled |
| scheduler | `crates/k0-sched` | Kernel, KernelLinks, Traps | modelled |
| endpoint IPC | `crates/k0-ipc` | Kernel, KernelLinks, Rpc, KernelRpc | modelled, refines Rpc |
| system calls, faults | `kernel/src/main.rs` | Kernel, Objects | modelled |
| capabilities | `crates/k0-cap` | Capabilities, Objects, Boot | modelled |
| kernel page tables | `crates/k0-mm/src/paging.rs` | PageTables, Objects | control modelled, no attribute bits, no TLB |
| user address spaces | `crates/k0-mm/src/user.rs` | PageTables, Objects, Image | same; page permissions in Image |
| device tree parser | `crates/k0-boot/src/fdt.rs` | Fdt, FdtTree | tokens, not bytes |
| `kernel_main`, boot window | `kernel/src/main.rs` | Boot | stages; hardware stages may only park |
| root task image | `crates/k0-boot/build.rs`, `roottask.rs` | Image | modelled; SHA-256 is injective |
| timer, interrupts | `crates/k0-arch/src/irq.rs` | Traps | modelled, both platforms |
| vectors, user context | `vectors.S`, `vectors.rs`, `usermode.rs` of `crates/k0-arch` | Traps | modelled; registers as one value |
| root task | `userspace/root-task` | RootTask | the tests of tasks, IPC and faults; not those of memory |
| PAC keys | `crates/k0-boot/src/entropy.rs` | - | not modelled: a hash, no state |
| hardening, console, boot assembly | `crates/k0-arch`, `boot.S` | - | not modelled: register writes and output |
| bootinfo page | `write_bootinfo` | - | not modelled: formats a page |

## Modules

**Kernel** - tasks, scheduler, IPC and the system call dispatch. `state`,
`reply_to`, `x0` and `mr` are the TCB fields; `ready` is the list from
`Sched.head`, `waitq[e]` the one from `Endpoint.head`; `parked` tells whether
`park()` was called and after which message. Each handler is an action:
`sys_send`, `sys_recv`, `sys_call`, `sys_reply_recv`, `sys_tcb_configure`,
`sys_tcb_resume`, `sys_yield`, `kill_current` (EXIT, unknown numbers and, as
`k0_fault`, faults), `sys_object` (DEBUG_PUTC, RETYPE and MAP, which touch no
task) and `k0_preempt`. The slot argument is an endpoint or TCB, or the error
that the lookup returns. A message is the content of x2-x5 as one value. `x0`
holds `"slot"` as long as a blocked call has no result. What it relies on, that
the vectors save the registers of the running task and that ticks keep coming,
is what Traps shows.

**Rpc** - what IPC promises, without queues, scheduler or TCBs: a task waits to
send, to call, to receive or for a reply; a message goes to one waiting partner;
a call ends with a reply or with NO_REPLY. Which of several partners is served
is left open. It is written from the point of view of a program and models no
code by itself. **KernelRpc** - the refinement mapping: `want` from the task's
state and the queue it is in, `holds` from `reply_to`, `msg` and `got` from the
registers. `ImplementsRpc` is Rpc's specification under this mapping.

**KernelLinks** - the same traps with the intrusive lists they operate on. The
variable `links` holds `Tcb.next`, one field for all lists, and the heads and
tails. Each action does the pushes and pops of its handler, decided by what the
links say; `Represents` relates them to the sequences of Kernel.

**Traps** - Kernel with the processor around it. `phase` is what the core
executes: the set-up of the interrupt controller (`gicv3_init` with its poll
limit, `init`), user code, the handler of a cause (`svc`, `wfx`, `fault`, an
interrupt), or one of the two halves of `__user_restore`, which are split where
ELR_EL1 and SPSR_EL1 have been loaded. An interrupt takes the steps of
`dispatch_irq`: `ack` reads the number of what is pending by then and makes it
active, `timer_tick` re-arms the timer, `eoi` completes, and `dispatched` returns,
to `irq_lower` and its preemption after a tick at EL0, or to the interrupted code
of EL1 (`resume`). The timer may expire between any two of these steps, and
`due`, which is history, counts the expirations not yet answered. `ctx` holds the saved registers of every
task, `cur_ctx` is `__current_context`, `timer` and `active` the level of the
timer interrupt and whether it is acknowledged and not completed. The handler of
a trap, and the preemption after a tick, is one action of Kernel
together with `set_current`. `own` is history: what each task should find in its
registers. Interrupts may be spurious, and in the `traps` run also of the kinds
that the design excludes, for which the kernel must stop. `switch_to` also
compares TTBR0; there is one address space, so that is left out.

**RootTask** - the self test of the root task as eight clients of Kernel. `Program`
is the list of its steps with the results it checks, the children are written
out label by label, and `mem` holds the statics they share. A task does one
system call or one access to `mem` per step, and a tick may come anywhere.

**Capabilities** (with **Granule**) - the root CNode. `populate` and one turn of
the loop of `push_untypeds` are the boot; `retype` and `set_mapped` (the flag
behind `cap_mut`) are the operations after it. Addresses are small numbers,
`G` is the granule and `Limit` stands for 2^64, where sums overflow.

**PageTables** - the table walkers as operators: `Pool::map_page` with its
rollback, `map_range`, `map_kernel_window`, the boot-time `UserSpace` over
`FrameAlloc`, and `user_map_frame` and `user_install_table`. Tables have the
four levels of the code with `Fan` entries each, of which addresses of 48 bits
select `Fan0` at level 0 (all 512 with pages of 4 KiB, two of 2048 with 16 KiB). A
granule that nobody cleared
holds `Junk`.

**Objects** - Capabilities composed with PageTables: a boot up to the CNode, then
any sequence of `sys_retype` and `sys_map` with all their error paths. The five
image segments are one here, and so are the devices; the root task has one
granule each of image, stack and bootinfo.

**Boot** - `kernel_main` composed with Capabilities: `check_memory_map`, one turn
of `pick_window`'s loop per step, the list of reservations, `bootstrap`. Image
verification, interrupt setup, page mapping and the final permission check
succeed or park here; Image and Traps have them in detail.

**Image** - from the ELF file of the root task to its first instruction: the checks
of `parse_elf` and of the layout, flattening, a possible damage of the embedded
image, `verify_root_task`, `spawn_root` on the tables of PageTables, and
`check_user_wx`. A byte of the file is represented by its offset, so that a byte
in the wrong place shows.

**Fdt** - `parse_blob`, one token per action over a stream that may hold any token
next. **FdtTree** adds the path of open nodes and what the document says by the
device tree specification; these variables never influence the parser.
Header errors and truncation are one error, `Malformed`, possible at each token.

**KernelProofs**, **KernelLayersProofs** (KernelLinks and Traps),
**KernelRpcProofs**, **CapabilitiesProofs**, **PageTablesProofs**,
**ObjectsProofs**, **BootProofs**, **FdtProofs** (Fdt and FdtTree) - theorems. **MC...** - instances for TLC.

Operators named `..._mutant` are plausible mistakes in the operator they stand
before. Each breaks a property, which shows that the property depends on that
code. They are used by no specification.

## Runs

| run | what it checks | distinct states |
|---|---|---|
| kernel | 3 tasks, 2 endpoints, 2 messages, symmetric: queues and the lists under them, reply rights, results, order of service, `ImplementsRpc` | 51,198 |
| traps | 2 tasks, 3 register files, both platforms, excluded interrupts too | 156,103 |
| traps_live | 3 tasks, both platforms, fair timer: `ImplementsKernel`, fairness included, and `ReadyTaskRuns` | 331,173 |
| root_task | the self test, a tick anywhere: `OnlyRacesFail`, `TestEnds` | 8,453 |
| image | ELF files of up to 4 of 23 program headers, 3 entry points | 1,058,568 |
| capabilities | 8 memory maps, all lists of up to 2 of 24 reservations | 50,696 |
| objects | RETYPE and MAP until the CNode is full or the table pool runs out | 18,519 |
| boot | 6 memory maps, 4 DTB places, all lists of up to 2 of 16 reservations | 75,457 |
| fdt | token streams of any length, 3 levels deep | 786,250 |
| kernel_exit, kernel_caller, traps_enter | three sentences of the documentation, all refuted (see Findings) | |

What they show:

- *Tasks and IPC.* A task is in one list at most, the one its state names, which
  is what makes the shared link field sound (`OneListPerTask`, `Represents`). An
  endpoint queue has one direction (`OneDirection`). A caller that waits for a
  reply is held by exactly one living server (`NoOrphanedCaller`), and callers
  never wait in a circle (`NoReplyCycle`). Waiters are served in the order of
  arrival (`FirstComeFirstServed`). No task resumes without a result
  (`ResultWritten`). The core parks only when no task can run (`CurrentRuns`).
  What programs see is Rpc (`ImplementsRpc`): a message reaches its partner and
  nobody else; a call ends once, with a reply from its server or with NO_REPLY
  and the registers untouched; a dead task stays dead.
- *Exceptions.* A task never notices that it was interrupted: its registers are
  those it left, whatever ran in between (`ContextsKept`). When the
  core leaves an interrupt, at EL0 or EL1, it is completed, the timer is armed and
  every expiration but a pending one has been answered (`NothingLeftActive`). A
  preemption answers one expiration, and each at most once (`OnlyTicksPreempt`),
  and a return from a trap goes to a task (`NeverAstray`; the first entry is a
  finding). With the timer's hardware fair, all of this implements Kernel with
  its fair tick (`ImplementsKernel`), and no ready task starves
  (`ReadyTaskRuns`).
- *Self test.* Of the results that the root task checks, three depend on where
  ticks fall, and fail only after a tick; the others hold under every schedule
  (`OnlyRacesFail`). It never hangs (`TestEnds`). Together: it passes to the end
  if no tick comes but in the child that never yields.
  The three (`Racy`) are races of the test and not of the kernel. It sends
  without blocking to a server of which it has only seen the counter, which is
  incremented before the server receives again; it expects the first client to
  send before the second; and it looks for the aborted client's result before
  that client may have stored it.
- *Image.* When the root task starts, its memory is byte for byte what its ELF
  file says, with the permissions of the segments, and nothing else is mapped
  (`MemoryIsTheProgram`). An image that was built is refused at boot only if it
  was damaged or lies on the stack, its guard, bootinfo, the null page or the
  kernel's address, and then always (`BuiltImageBoots`).
- *Memory.* Untyped memory is exactly the free memory (`UntypedIsFreeMemory`),
  untypeds and objects are disjoint, no granule is lost between them, and
  capabilities persist in a CNode that never outgrows its slots
  (`CapsPersist`). User tables reach the root task's pages and mapped
  frames only, each at one address (`UserReachesFramesOnly`); a table is linked
  once; a failed call changes nothing, also when the pool runs out within a walk
  (`FailureChangesNothing`, `KernelMapsObjects`); `mmu_err` never has to park
  (`NeverCorrupt`).
- *Boot.* The window is the lowest that fits (`LowestWindow`, `NothingSkipped`),
  each obstacle or region costs one turn of the search at most (`TurnsSuffice`:
  17 turns of the 64 allowed), and bootstrap needs one slot per region and per
  reservation at most (`SlotsSuffice`: 4 + 8 + 11 of 32). Nothing that is owned
  becomes untyped. The parser returns what the tree says (`ResultIsDocument`)
  and regions that later code may add without a check, in arrays that are never
  overrun (`RegionsUsable`).

### Bounds

- Three tasks are a client, a server and a third that takes, aborts or overtakes
  either. The invariants of Kernel, `Represents` and `ImplementsRpc` are proved
  for any number; the model checker confirms them on these three and shows that
  each of them can be broken.
  Queues are bounded by the tasks, so no other bound is needed. Two endpoints
  let a task leave one queue for another; two messages tell a delivered one from
  a stale one.
- `G = 2` has aligned and unaligned addresses. Capabilities has maps that start
  or end unaligned, overlap, are empty, overflow, or reach the last address, and
  a CNode of 8 slots that fills both in the boot and by RETYPE.
- `Fan = Fan0 = 2` gives 16 pages: walks that share all, some or no tables.
  `POOL_LEN = 21` leaves one or two tables after the boot, by the place of the
  DTB: enough for the tables of some objects, or for half a walk, the case that
  needs the rollback. Of the nine slots a boot leaves two or three for objects,
  by the reservations. The invariants of Objects are proved for any fan-out, pool,
  CNode and memory map; this instance has every error path of the walkers.
- Boot searches in 32 units with a window of two granules, so that two
  reservations, the DTB and gaps between regions move it several times.
  `ROUNDS = 8` exceeds what `TurnsSuffice` allows for these instances. The
  safety properties of Boot are proved for any map, list and window.
- Fdt has words below 3, so that two-cell sums overflow; room for two regions,
  two reservations and two words of seed, so that each limit is hit; three
  levels, which is where the parser looks. `MaxRegs = 2` bounds the `reg` properties
  that the document has of each kind: one or two nodes of memory, whose regions add
  up to more than there is room for. The parser is not told, and a stream that no
  longer conforms keeps no document and is not bounded at all. What is proved of the parser holds for any word
  size, limit and stream.
- Traps needs two tasks to confuse their registers and three files, so that a
  file left behind, one stepped over and one kept by mistake differ;
  `POLL_LIMIT = 2` has a success in each poll, and a failure. traps_live has
  three tasks, one of which can starve the others, and a single file, because
  registers do not influence what runs.
- RootTask is a fixed program. `CHILD_EXIT_TARGET = 2` has a tick before, between
  and after the counts. Its state space is small because there is one program
  and the tick is the only choice.
- Image has granules of two bytes and segments aligned to two of them, as 4 KiB
  pages and 16 KiB segments are (on the 16 KiB platform the two are equal).
  Headers have a bss within and beyond the last page of the file, overlap,
  touch, come in any order, and lie on each forbidden place; entry points are
  inside and outside of text. The window has room for the largest image, so
  that `BuiltImageBoots` says that its 28 frames suffice here; for the real
  sizes (1 MiB of image, 64 KiB of stack) the budget is the same sum.

Addresses are taken to lie below 2^48, as the alias at `KERNEL_VA_OFFSET`
requires.

### Fairness

- `FairSpec` has weak fairness of `k0_preempt` and of nothing else: the tick
  re-arms the timer (`timer_tick` in `irq.rs`) and tasks run with interrupts
  unmasked, so a tick keeps coming whatever tasks do.
- `TFairSpec` justifies that: weak fairness of kernel code and of the counter
  that makes the timer fire, strong fairness of taking a pending timer interrupt
  in user mode (strong, because a task may trap by itself again and again, with
  interrupts masked meanwhile; the interrupt stays pending). A task need not do
  anything.
- `RFairSpec` has strong fairness of each task's steps: a tick comes once a
  second, so a task that runs again and again executes in between. Of the tick it
  asks only that it comes in the child that never yields.
- `BootSpec` has weak fairness of the boot code, which runs alone and waits for
  nobody.
- The parser run has no liveness property. It may stop (`CHECK_DEADLOCK FALSE`):
  a parse that is done takes no further token.

## Findings

- `kernel_exit`: `exit_current` is documented to return false if it was the last
  task, and the kernel then prints "all tasks exited". It returns false when no
  task is *ready*: the others may be blocked, and are then lost with a message
  that says they exited.
- `kernel_caller`: `design/ipc.md` says that a caller always wakes up as long as
  the system keeps running. A server that keeps running and neither replies nor
  receives leaves it waiting for ever.
- `traps_enter`: `irq::init` unmasks interrupts, and nothing masks them before
  `handoff`. If the first tick comes after `__user_restore` has loaded ELR_EL1
  and SPSR_EL1 and before its `eret`, the interrupt overwrites them and the
  `eret` returns into the kernel, where the core is then executing with the
  task's registers. `enter_user` is documented to enter EL0. The window is a few
  instructions once per boot; on every later return interrupts are masked.

The first two are differences between wording and code; in the third the code
should mask interrupts before the first entry.

## Proofs

For every set of tasks, endpoints and messages, from `KernelAssumption` (the
root is a task, the null link is none, names do not clash) and, for Traps,
`TrapsAssumption` (there is a register file, and a kernel address is none). For
the capabilities: for every memory map, list of reservations, granule and size of
the CNode, from `GranuleAssumption` (a granule is not empty) and `CapAssumption`
(maps and reservations are lists of regions, the address space ends at a
granule, the CNode has room for the four fixed capabilities).

For the page tables and their users: for every fan-out and size of the pool
(`TableAssumption`: a table has entries, and 48 bits select some of level 0), from `ObjAssumption` (the pool has the two
roots; image, device, window, DTB and memory lie below `Top`, which is 2^48;
addresses are numbers) and the `BootAssumption` of Objects (the kernel's
reservations come first, and the mappings of the boot succeeded: otherwise the
kernel parks before there is a task).

For the boot: from the `BootAssumption` of Boot (the image, the DTB and the
firmware's regions are not empty and do not overflow, as the parser ensures; the
DTB does not lie on the image; the window is a number of granules) and
`RoundsAssumption` (the loop of `pick_window` has more turns than there are
obstacles and regions, which is 17 against 64).

For the parser: for every set of node names and properties, every limit and every
size of a word, from `FdtAssumption` (a word is a number below `B`, which is more
than 2; the numbers of the reservation block are 64 bits wide, below `Limit`).

| theorem | states |
|---|---|
| `TypeCorrect` | `TypeOK` |
| `QueuesExclusive` | `OneListPerTask` |
| `QueuesOneWay` | `OneDirection` |
| `CallersHaveServers` | `NoOrphanedCaller` |
| `RepliesAcyclic` | `NoReplyCycle` |
| `SchedulerInStep` | `CurrentRuns` |
| `TaskStatesFollowLifecycle` | `Lifecycle`: a task changes its state only along the arrows of its life |
| `ResultsAlwaysWritten` (KernelProofs) | `ResultWritten` |
| `NobodyOvertakes` (KernelProofs) | `FirstComeFirstServed` |
| `LinksRepresent` (KernelLayersProofs) | `Represents` |
| `KernelRefinesRpc` (KernelRpcProofs) | `ImplementsRpc` |
| `TrapsRefineKernel` (KernelLayersProofs) | Traps implements Kernel, step by step |
| `ContextsAlwaysKept` (KernelLayersProofs) | `ContextsKept` |
| `InterruptsComplete` (KernelLayersProofs) | `NothingLeftActive` |
| `NeverRunsAstray` (KernelLayersProofs) | `NeverAstray` |
| `TicksPreempt` (KernelLayersProofs) | `OnlyTicksPreempt` |
| `FreeMemoryHandedOut` (CapabilitiesProofs) | `UntypedIsFreeMemory` |
| `UntypedsNeverOverlap` (CapabilitiesProofs) | `UntypedsDisjoint` |
| `ObjectsNeverOverlap` (CapabilitiesProofs) | `ObjectsDisjoint` |
| `GranulesAccountedFor` (CapabilitiesProofs) | `NoGranuleLost` |
| `CapabilitiesPersist` (CapabilitiesProofs) | `CapsPersist` |
| `ObjectsRefineCapabilities` (ObjectsProofs) | Objects implements Capabilities |
| `ObjectsNeverOverlapInUse` (ObjectsProofs) | `ObjectsDisjoint`, of Objects |
| `UserTablesSound` (ObjectsProofs) | `NeverCorrupt` |
| `UserIsolated` (ObjectsProofs) | `UserReachesFramesOnly` |
| `TablesLinkedOnce` (ObjectsProofs) | `TableLinkedOnce` |
| `KernelSeesObjects` (ObjectsProofs) | `KernelMapsObjects` |
| `FailuresLeaveNoTrace` (ObjectsProofs) | `FailureChangesNothing` |
| `TranslationsPersist` (ObjectsProofs) | `TranslationsStay` |
| `WindowIsLowest` (BootProofs) | `LowestWindow` |
| `NoWindowSkipped` (BootProofs) | `NothingSkipped` |
| `TurnsBounded` (BootProofs) | `TurnsSuffice` |
| `OwnedMemoryKept` (BootProofs) | `NothingOwnedIsUntyped` |
| `SlotsBounded` (BootProofs) | `SlotsSuffice` |
| `ParserFollowsDocument` (FdtProofs) | `FInv`, the inductive invariant of the parser |
| `ParserKnowsItsPlace` (FdtProofs) | `FlagsFollowPath` |
| `ParserReturnsDocument` (FdtProofs) | `ResultIsDocument` |
| `ParserReturnsUsableRegions` (FdtProofs) | `RegionsUsable` |

None of the properties of Kernel is inductive alone. That a woken task may be appended
to the ready queue needs that it is not there yet, which follows from its state
only by `OneListPerTask`; that a reply wakes a task in no list needs
`NoOrphanedCaller`; that a new reply right closes no cycle needs that the caller
was running, hence `CurrentRuns`. The inductive invariant `IInv` is their
conjunction with the types.

A handler is a chain of list operations, and in between a task may be in no list
at all. The proof therefore states the invariant as `Linked(st, q, wq, rt)`, on
values and not on variables, where a task between two lists counts as Running.
Each primitive (wake, pop, wait, grant and drop of a reply right) preserves
`Linked`, by a lemma of its own, and each action is a composition of primitives.

`ResultsAlwaysWritten` follows the handlers in the same way, with `Told(st, x)` on
values: to wake a task and to write its result go together at each primitive.
That the switch takes a task whose result is written needs `IInv`, by which a
task in the ready queue does not wait. `NobodyOvertakes` needs only that each
handler leaves the ready queue longer (`Longer`) before it pops at most once.

`LinksRepresent` uses that `push` and `pop` are right on any family of disjoint
queues with a shared link field, and that `Linked` gives the disjointness at
each point of each handler where one is called. It needs `ReadyAssumption`
besides: the ready queue is not an endpoint.

`KernelRefinesRpc` maps each trap to a step of Rpc. The mapping looks a queued
task up in the queues (`at`), so each lemma says what an operation on the queues
changes in `wants`: a push sets the wish of one task, a pop removes one, waking
and switching change none but that of the task woken. With `Linked`, a task is
found in one queue only, and the head of a queue is a partner that Rpc may
choose.

`TrapsRefineKernel` and the other theorems on Traps rest on one invariant,
`TInv`. It says for each phase of a trap where the registers of every task are
(`Placed`), that interrupts are masked from the trap to its eret unless nothing
has run yet (`Shielded`), and what the timer does (`Timed`), and holds `IInv` of
Kernel, which comes with the refinement. An interrupt of EL1 interrupts a phase that
is finished later, so `Placed` looks at the phase to come back to (`At`). `Timed`
accounts for every expiration: those `due` are the pending one, if the level is
high, and the one that the running dispatcher still owes an answer (`Owed`); at the
end of the interrupt it owes none, which is `NothingLeftActive`, and the preemption
pays for one that is no longer pending, which is `OnlyTicksPreempt`. The refinement proves the safety part
of `ImplementsKernel`; its fairness is model-checked.

CapabilitiesProofs has the inductive invariant `CInv`. During the scan, the
untypeds hold exactly the free addresses that the scan has passed (`Scanned`,
`Covered`); a cut at the lowest reservation ahead passes free addresses below it
and reserved ones up to its end, whatever the order and the overlaps of the
list. At the end everything is passed, which is `UntypedIsFreeMemory`. From then
on, each object lies in the consumed part of an untyped (`Carved`, `Marked`), so a
granule carved above a watermark meets no object of this untyped, and by
`UntypedsDisjoint` none of another. In ObjectsProofs, `sys_retype` is a `retype`
whose preparation succeeds or fails by the page tables, and `sys_map` a
`set_mapped` or no step, so the theorems hold of the composition too.

The tables need an invariant that none of the properties states. `Tree(tabs, lev,
roots)` gives every table in use a level: an entry leads one level down, at the
last level to a page, and no table is linked twice. So a walk never meets an entry
that it cannot follow, and two walks that meet have come the same way
(`HopOnce`), so that an entry written for one page changes the translation of no
other (`TreePage`, `TreeLink`). PageTablesProofs shows of each walker that it
maps what it was asked to or changes nothing (`PoolPage`, `UserMaps`,
`UserInstalls`); for the pool, that clearing the links of a failed walk restores
every table (`RollbackRestores`); for `UserSpace`, that it builds a tree out of the
frames of the window (`BuildGranule`). ObjectsProofs follows the boot through
`enable_paging` and `spawn_root` to the first state of `OInv`, the inductive
invariant of Objects: `CInv`, the kernel's tables show exactly what it holds
(`Shows`), and the user's are a tree of frames of the boot window and installed
PageTable objects, of which those not installed are empty (`UserTree`). The last
needs `ObjectsDisjoint`: a granule that were two objects at once could be a table
and a page, and one retyped twice would not be empty. RETYPE and MAP are then
taken through it, with every error of the walkers.

In BootProofs, a pass over the obstacles moves the start of the window up and past
no start that would do (`PassKeeps`), and each turn that does not end the search
leaves an obstacle or the base of a region behind for good (`Turns`). Counting
what is behind bounds the turns. With the window known to lie apart from every
obstacle, `OwnedMemoryKept` is `FreeMemoryHandedOut` for the list of
reservations that `kernel_main` makes. `SlotsBounded` rests on `Cut`: an untyped ends
where its region does or where a reservation begins, and no two end at one place.

FdtProofs compares a parser that decodes each `reg` at once, with the cells it has
seen so far, with a document that is decoded when the stream has ended, with the
cells that hold then. `ResultIsDocument` speaks of the end only. The invariant
`FInv` says at every token that the lists hold what the `reg` properties seen
until now decode to with the cells as they are now (`Reads`), and that depth and
flags are those of the open path (`Flags`). A later change of cells would
break `Reads`: that it cannot come, in a stream that conforms, is the point of the
proof. A node whose `reg` has been taken is a subnode of the one whose cells it
was read with, and a property after a subnode makes the stream one that does not
conform; so `Reads` also says that the root, and an open `/reserved-memory`, have
had a subnode once a list holds anything of theirs. When `/reserved-memory`
closes, what it has collected moves to the document's list, and at the end no
node is open, so that nothing is left uncollected. `ParseReg` shows that the loop
of `parse_reg`, on any value that it accepts, adds the entries that are not empty
in their order, and that `read_cells` of one or two words is the number that the
specification defines; `ParserReturnsUsableRegions` needs in addition that a turn
adds nothing that overflows or that the array has no room for.

The loops of the code are recursive functions (`PoolRange`, `UserRange`, `Pass`,
`RegLoop`), and what they compute is proved by taking the first turn that would
break it (`PoolRangeDef`, `PassDef`, `RegLoopDef` show that the functions exist).

Only model-checked: the liveness properties (`ReadyTaskRuns`, the fairness part
of `ImplementsKernel`, `TestEnds`, `BootEnds`), which are out of the prover's reach;
the image (`MemoryIsTheProgram`, `BuiltImageBoots`), which is sorted with the
library's `SortSeq` and mapped by a fold over the segments, about which the prover
has no facts; and the self test (`OnlyRacesFail`), a fixed program with finitely
many states, for which TLC's answer is complete but for the length of one count
(`CHILD_EXIT_TARGET`).

Type correctness and `Lifecycle` are theorems and in no run. That a call ends
once and that a rendezvous delivers to its partner only are parts of
`ImplementsRpc`. The bounds of the CNode and of the parser's arrays are conjuncts
of `CapsPersist` and `RegionsUsable`. That the scan of `push_untypeds` ends is
checked by `BootEnds`, on the memory maps of the boot run.

## Not modelled

- TLB and cache maintenance, the translation registers and the choice of TTBR0,
  the attribute bits of descriptors other than a page's permission, the check
  of the kernel's own mappings (`check_wx`) and of PAN: hardware effects that no
  module's state shows.
- Hardening, early console and boot assembly: register writes and output.
- Byte offsets of the parser. That each token advances, so that parsing ends, is
  left out with them.
- Console output and the bootinfo page; memory contents except in Image.
- The memory part of the self test. Objects allows every sequence of these calls.
- PAC key derivation, and SHA-256 itself.

## Plan

Next, in this order:

1. The memory part of the self test, with the bootinfo page, as a client of
   Objects.
2. Proofs about Image, with the sorting and the loop over the segments written as
   recursive functions, as those of the parser are.
