# A verification project for RVOS on VisionFive 2

The repository holds three near-copies of a small RISC-V kernel (tasks, a
round-robin scheduler, a timer tick with software timers, a page allocator, a
UART console, system calls, and, in the newest copy, a virtio disk):

| directory | what it is |
|---|---|
| `src/src/rvos` | M-mode port: CLINT registers for tick and software interrupt |
| `src/src/rvos_s` | S-mode port on an SBI firmware |
| `src/src/rvos_s_exp` | S-mode, with the generalized system call and virtio |

The models follow `rvos_s_exp`, the newest, except `MachineKernel` (`rvos`) and
`ExternalIrq`, whose handler is that of `rvos_s`. `page.c` and all of `printf.c` but
`panic` are the same in all three (`HeapLayout` and `Vsnprintf` are mapped to the copies
of `rvos_s`); `timer.c`, `sched.c`, `lock.c`, `entry.S` and `trap.c` differ in register
names and in what is said below.

## 1. Inventory

| component | state | operations | interacts with |
|---|---|---|---|
| boot: `start.S`, `kernel.c` | `tp`, `sstatus`, `sie`, `.bss` | `entry`, `start_kernel` | calls every `*_init`, `os_main`, `schedule` |
| trap path: `entry.S`, `trap.c` | `sscratch`, `sepc`, the current context | `trap_vector`, `trap_handler`, `switch_to` | every interrupt and `ecall` enters here; calls the timer, PLIC, system calls, scheduler |
| scheduler: `sched.c` | `ctx_tasks`, `_top`, `_current` | `task_create`, `schedule`, `task_yield` | `schedule` ends in `switch_to` and never returns; `task_yield` sets SSIP |
| lock: `lock.c` | `sstatus.SIE` | `spin_lock`, `spin_unlock` | used by `timer.c` |
| timer: `timer.c` | `_tick`, `timer_list`, the firmware's deadline | `timer_load`, `timer_create`, `timer_delete`, `timer_check`, `timer_handler` | callbacks are task code run by the handler |
| system calls: `syscall.c`, `usys.S` | the caller's context | `gethid`, function 0x2 | may call `task_yield` |
| page allocator: `page.c` | descriptors, `_num_pages`, `_alloc_start` | `page_init`, `page_alloc`, `page_free` | memory map of the linker scripts |
| PLIC: `plic.c` | gateways, enable bits, priorities, threshold | `plic_init`, `plic_claim`, `plic_complete` | UART and disk raise, `external_interrupt_handler` claims |
| UART: `uart.c` | device FIFOs | `uart_putc`, `uart_getc`, `uart_isr` | console of everything |
| console: `printf.c` | `out_buf` | `printf`, `panic` | shared by tasks and kernel |
| disk: `virtio.c` | `intr_type`, request, buffer, status, rings | `virtio_init`, `virtio_cmd`, `disk_isr` | device by DMA and interrupt |

There is one hart, one kernel entry and one level of trap context. What is hard:

- *interleaving*: a trap between any two instructions of a task, found through
  registers that belong to the task; device interrupts, ticks and yields pending
  together; a tick between two steps of `timer_create`;
- *control that does not return*: `schedule` abandons the handler's frame, so
  everything the next trap needs must already be set;
- *ordering*: SSIP cleared before `schedule`, the next tick loaded before it, one
  expired timer served per tick, the fired slot cleared after its callback;
- *limits*: full task table, full timer list, exact fits in the heap, requests
  larger than it, a descriptor table of fixed size, 32- and 16-bit counters, the
  least number in `%d`;
- *initial state left by the firmware*: `sstatus`, `sie`, the enable registers of the PLIC,
  the contents of RAM.

What makes each part correct: a task never notices that it was interrupted (its
registers and its program counter are its own); the hart goes round the tasks
in order of creation, a yield takes effect at once and only once, a task that
holds the lock is not descheduled, the tick never stops, and every task runs
again and again; the allocator hands out disjoint blocks inside the heap and
refuses only when it must; a software timer fires once, not early, not after it
was deleted; what `printf` prints is what its format says, and stays in its buffer.
`PROJECT.json` lists the places where these can go wrong
("hazards") with the properties that cover each.

## 2. Modules

`TaskImage` - what a task is: program counter and registers, and the code image
(`Instr`, `Exec`, `Entry` are constants, so every theorem holds for every
program). Four registers stand for the thirty `reg_save` stores: `sp` (ordinary),
`a0` (argument and result of a call, and scratch of `trap_vector`), `t5` and `t6`
(base pointers of `trap_vector`). `tp` is not a task register: `entry.S:5-6`.

`FifoTasks` - the abstract specification: every task is a machine of its own, the
processor goes round a queue, a yield relinquishes it, a lock keeps it. No traps,
no contexts, no interrupts. It is written from what `sched.c`, `lock.c` and
`syscall.c` promise their callers.

`Kernel` - the control core. `at` is the place the hart executes; an action is
one piece of kernel code that runs with `sstatus.SIE` clear (that nothing can
strike inside such a piece is not assumed: the `Interrupt` action is enabled
wherever the hart would take one, and `NoNestedTrap` is checked and proved), or
one instruction of a task.

| actions | code |
|---|---|
| `StartS`, `StartKernel`, `PlicInit`, `TimerInit`, `SchedInit`, `TaskCreate`, `OsMainReturns` | `start.S`, `start_kernel` and what it calls, in order |
| `Compute`, `Ecall`, `Fault`, `TaskYield`, `SpinLock`, `SpinUnlock` | one instruction (or one CSR write) of the running task |
| `Interrupt`, `Trap`, `Sret`, `TimerExpires`, `DeviceRaises` | the hart, the firmware timer and the PLIC (external: RISC-V privileged architecture) |
| `TrapVector`, `TrapReturn` | `trap_vector` before and after the call of `trap_handler` |
| `SoftwareInterrupt`, `TimerInterrupt`, `ExternalInterrupt`, `Syscall`, `Oops` | the cases of `trap_handler`, each with everything it calls |
| `Schedule`, `SwitchTo` | `schedule`, `switch_to` |

The variables are the code's (`_top`, `_current`, `ctx_tasks`) and the hart's CSRs.
`TrapVector` is one action, since nothing can come in between, but `ContextStored`, what
it leaves in the context, follows `entry.S:96-107` instruction by instruction: `t6` swapped
with `sscratch`, `reg_save`, then `t5` taking over the address, `t6` read back, `a0` used for
`sepc`. A register saved after it was overwritten reaches the context and breaks
`ImplementsFifoTasks` (the run's mutant moves `t5` first).
`reg' \in KernelRegs` in `TrapVector` says that C code leaves anything in the
registers. The refinement mapping (`Virt`, `Waiting`, `Yielding`, `HoldsLock`, at
the end of the module) gives the tasks' view: a task's state is in the registers
while it runs, spread over `sepc` and the registers during trap entry, in its
context otherwise.

`SoftTimer` - `timer.c`'s list. Tasks are in S-mode (in U-mode `spin_lock` is an
illegal instruction; `Kernel` shows what happens then). Creation is cut at every
store to the list, because without the lock a tick could strike there; slot
`MAX_TIMER` is the memory behind the array, which `timer_create` reads, and uses when it
holds NULL. The calls are not bounded, only the timers that are being created or in use
at one time (`Names`): the name of one that is gone is given to a new one. A task may
delete the timer it means (`DeleteCall`), or use the handle of one that fired or was
deleted before (`DeleteOld`, of the slots in `kept`). `_tick` counts modulo `TickSpan`. Three
variables only serve the properties: `left` (how many ticks remain), `crossed` (which
timers met the wrap) and `waited` (ticks at which a timer was due and not served, since a
timer was last created in a lower slot). `SoftTimerRearm` composes the list with the trap path:
a callback that calls `timer_create`, the trap its `spin_unlock` lets in, the one
context per task that this trap overwrites (`ctx`), and the handler that goes on from
there when the task's turn comes.

`HeapLayout` - `page_init` on the memory a linker script describes.

`BlockAlloc`, `PageAlloc` - what the allocator promises (first fit, disjoint blocks),
and `HeapLayout` composed with `page_alloc` and `page_free`, loop iteration by loop
iteration: `page_init` clears the descriptors it has counted, of a table that holds
anything before, and the calls work on what it leaves. Descriptor -1 is the byte before
the table, which `page_alloc(0)` writes when page 0 is free.

`MachineKernel` - the M-mode port, `src/rvos`. The scheduler, the trap entry and the
switch are the same code on other CSRs, so most actions are `Kernel`'s under the
name of the place in `rvos` they stand for; what differs is written out: the boot,
which clears neither `mie` nor `mstatus.MIE` and finds `mtimecmp` as reset left it,
the completed claim, `gethid` as the only system call, `task_yield` through
`mhartid`. `FifoTasks` is its specification too. `KernelPorts` has both ports side by
side, each from its own initial states and with its own next-state relation, so that
one run asks the same questions of both.

`ExternalIrq` - input and output around the external interrupt: `uart_init`, `plic_init`
on enable bits, priorities and a threshold of any value, the UART's receive FIFO and its
level-triggered line, other devices that raise theirs as they like, the PLIC with a
gateway per source and the claim by priority, the handler step by step (claim, each
`uart_getc`, the two polls and writes of the echo, completion) and tasks preempted
inside `uart_putc`. `COMPLETES` tells `rvos_s` from `rvos_s_exp`. It is the build for the
board; with `QEMU` defined the disk is enabled too, and its interrupts are `Virtio`'s.

`Printf` - the two passes of `_vsnprintf` over the one `out_buf`, byte by byte, with
preemption between any two bytes and kernel messages in between. A text is its
length; a byte of the buffer is NUL or says who wrote it.

`Vsnprintf` - one call of `printf`, character of the format by character, in both passes:
what `_vsnprintf` finds in a format (the `format` flag stays set over letters it does not
know), which argument `va_arg` gives it, what it writes, where it ends. `Reference` is
what the author of a well-formed format expects, computed from the items of the format
and not from its characters: for each position the set of characters that may stand
there. It is one character except where the code does not keep what the format says,
which `PrintsReference` states as part of the promise: the least number (after its sign each
digit stands as it is, or as far below '0' as it should be above), and a conversion of another kind
after `%c` (where the text is right as far as it is shown, but may be cut). A number taken
for the pointer of a `%s` reads some text or faults. An item is text without `%`, or `%`, any number of `l` and
the letter of its kind (`Written`), or something bad. `BYTES`-byte numbers, so that the
least one is an argument.

`DiskService`, `Virtio` - what `virtio_cmd` and `disk_isr` promise, and the driver
with the device. The hart's stores go to `stores` and reach `mem` in any order
(`Drain`); `__sync_synchronize` waits until all have (`Fenced`). The device reads and
writes `mem` on its own and may look at the ring before it is notified. In
`rvos_s_exp` the only command is the one of the boot and no claim is completed
(`completes` is FALSE); to see the driver beyond that, the module also follows a caller
that issues the next command when `intr_type` is 0 again, and the handler of `rvos_s`,
which completes. Both handlers are initial states of the one run.

The `*MC` modules give the constants their values for TLC, the `*Proofs` hold the
theorems. Operators commented
"Mutant" are variants of the definition below them with a plausible bug; they are not
part of any specification and serve to see that each property can fail.

## 3. Model checking

| run | question | states |
|---|---|---|
| `kernel_user` | both ports as built, tasks in U-mode: types, no nested trap, own context, no stale yield, tick chain, refinement of `FifoTasks`; they stop only when a task faults, and every task runs until then | 1006056 |
| `kernel_supervisor` | both ports without `CONFIG_SYSCALL`, tasks in the kernel's mode with the interrupt lock; every task runs | 711936 |
| `page_alloc` | `page_init` for every alignment of the image, then all sequences of allocation and release | 402371 |
| `page_oversize` | violation: a request for more pages than there are | |
| `heap_layout_board` | violation: the descriptors do not fit below the pool with the RAM of `os.ld` | |
| `soft_timer` | timers of two tasks that call for ever, under preemption, old handles, a full list, the wrap of `_tick` | 1474710 |
| `soft_timer_rearm` | violation: a callback that sets the next timer is called again for the old one | |
| `external_irq` | `rvos_s` from `uart_init` on: only the UART interrupts, every byte is read, the transmitter's load is bounded | 255488 |
| `external_irq_exp` | violation: input of `rvos_s_exp` after the first interrupt | |
| `printf` | the shared buffer under preemption | 25300 |
| `vsnprintf` | every format of up to three items, with all its arguments | 435035 |
| `virtio` | commands in sequence, stores in any order, with and without completion at the PLIC | 57428 |

**Bounds, and why they are enough.** *Kernel, MachineKernel*: three slots and four
`task_create` calls, so the table fills and one call is refused; three programs that
between them execute every kind of instruction. In `kernel_user` one task gets to a lock
operation, which a U-mode task may not execute, and in `rvos` another to a yield, which it
may not either: the others run for any number of rounds before that, the tick being
able to come before it every time, and the behaviours in which it never is reached are
those of fault-free tasks; `CHECK_DEADLOCK FALSE` because the kernel stops in `panic`.
There are two PLIC sources (`rvos` enables one of them), so that one can be pending
while the other is served. Nothing is cut off: the state space is finite and
explored whole.

*PageAlloc*: image ends on both sides of a page border leave pools of five pages and
less, and requests of none to five give every pattern of free and taken runs in which a
scan can skip, restart, or end; the descriptor after the last one is one that
`page_init` does not clear, and RAM starts with any flags in it. In the RAM of `qemu.ld`,
with 31000 pages, only `page_init` is followed (`MaxPages`), hence `CHECK_DEADLOCK FALSE`.

*SoftTimer*: two slots and three names, for two tasks that call as often as they
like: the list fills up and a call is refused while it is full, slots are reused under the
eyes of somebody with an old handle, two timers expire together, short timers are set again and
again in the lower slot; `TickSpan` = 4 with timeouts of one and three, so that timers are
set across the wrap, live through it and wait through it. `left` does not tell a timer
from one that is late by a round of `_tick` more (`OneLess`), and `waited` stops at
`MAX_TIMER`, above any value allowed.

*ExternalIrq*: a FIFO of two and four bytes, so that input arrives while it drains,
fills it, and comes again after the handler has found it empty; three tasks that can
all stand between poll and write; three sources: the UART, one in the same enable
register and the last one of the board, in the last register that `plic_init` clears.
*Printf*: a buffer of five bytes with texts that are empty, fit, fit exactly and do not
fit. *Vsnprintf*: three items reach a conversion measured with the wrong argument before
and after one measured with the right one, texts that fit, fit exactly and do not. *Virtio*:
three commands with an index of two values, so that it wraps; it needs `CHECK_DEADLOCK
FALSE` because the machine is idle once the commands are served. *HeapLayout*, *Vsnprintf*
end by themselves.

**Fairness.** `WF(PortHartStep)`, the hart goes on executing, and `WF(PortTimerExpires)`,
time goes on and the deadline that was set is delivered. Devices owe nothing. On the
board that is enough for `TasksRun`, because a source that was claimed stays silent in
`rvos_s_exp`; a device that interrupts for ever could starve the tick (external
interrupts come first), and in `rvos`, which completes, such a device is in the model:
there `TasksRun` says what is left, that every task runs (or the kernel panics) if no
device interrupts from some time on. For the allocator: `page_init` and a call once
entered run on. For `SoftTimer`: a call once entered and the handler run on, and a tick
that stays pending while SIE is set again and again is taken (strong fairness: a task
with the lock only delays it). For `ExternalIrq`: the hart boots, takes and serves what
is pending, the transmitter sends, the UART's gateway forwards; nobody has to type. For
`Virtio`: the hart runs, its stores reach memory, a device that was notified or is busy
goes on; no caller has to call.

**What the violated runs show.** (1) `spin_unlock` sets SIE instead of restoring it,
so `timer_create` in a callback enables interrupts inside `timer_check`, which
`timer.c:106` rules out; the tick is still pending, and the trap it causes calls the
same callback again before its slot is cleared. (2) The eight reserved pages hold the descriptors of 128 MB;
`os.ld` has 8 GB, so the descriptors lie in the pool. (3) `rvos_s_exp` claims external
interrupts and never completes them: after the first one, input stays in the FIFO.
(4) `_num_pages - npages` in `page_alloc` is unsigned: a request for more pages than there
are scans on, and gets a block that reaches outside the heap where the bytes after the
descriptors look free; `page.c:20` calls `_num_pages` the maximum "we can allocate".

**Seen while modelling, without a run of their own.** `timer_create` on a full list
reads one element past `timer_list` and, if it is NULL, writes the timer there: its caller
gets a handle and the timer never fires (status "stray" of `SoftTimer`). A timer set across
the wrap of `_tick` fires at once, one that waits through it waits for a round
(`crossed`). `page_alloc(0)` answers the first free page without taking it, and sets
PAGE_LAST on the descriptor before it: where that page is taken it is the last of its
block and has the flag already, where page 0 is free it is the byte before the table. One timer is served per tick, the one in the lowest
slot: tasks that set short timers in lower slots for ever keep a timer in a higher slot
from ever firing (`timer.c:109-119`). `EveryTimerEnds` therefore has that exception, and
`LateByOthersOnly` bounds the waiting by the slots below, counted anew whenever a timer is
created in one of them; no bound on the calls hides either. `timer_delete` goes by the slot: with
the handle of a timer that is gone it removes whatever timer has the slot by now, and a
timer can fire between the call and its `spin_lock`, so that a caller who did nothing wrong
removes another's (`DeletesItsOwn` says exactly when not). `%c` takes its argument only
where it writes: the first pass does not, and measures a conversion of another kind after
it with the wrong argument; what is printed may be cut, but stays in the buffer
(`InsideBuffer`; `Aligned` marks the formats without this; `PrintsReference` claims the
length for those only). `"%%"` prints nothing and the
conversion goes on. The least number prints as digits below '0' (the exception in `Reference`). The comments at the
two `sret` say that it enables interrupts; with `CONFIG_SYSCALL` nothing sets SPIE, which
is harmless, tasks being in U-mode. `disk_isr` goes by `intr_type`, not by
INTERRUPT_STATUS: a configuration change of the device would be reported as the
completion of the command under way.

## 4. Proofs

| module | for every | what is proved |
|---|---|---|
| `KernelProofs` | number of tasks, code image, set of devices | `TypeOK`, `NoNestedTrap`, `TrapContextValid`, `NoStaleYield`, `TickAlwaysComes`, `HaltsOnlyOnPanic`, `ImplementsFifoTasks` (of `Kernel`) |
| `KernelPortsProofs` | the same, and both ports | the same, as the runs check them |
| `PageAllocProofs` | image, RAM, number of pages, sequence of calls | `PoolFillsRam`, `TableBelowPool` (up to 128 MB); `TypeOK`, `BlocksDisjoint`, `FlagsTellBlocks`, `ImplementsBlockAlloc` |
| `SoftTimerProofs` | number of tasks, slots, timers, values of `_tick`, sequence of calls | `TypeOK`, `LiveTimersIntact`, `FiresOnce`, `LateByOthersOnly`, `FiresWhenDue`, `DeletesItsOwn` |
| `ExternalIrqProofs` | number of tasks, FIFO depth, set of devices | `TypeOK`, `TransmitterBound`, `NoUnexpectedIrq` |
| `PrintfProofs` | number of tasks, buffer, lengths of texts | `TypeOK`, `PutsWillEnd` |
| `VsnprintfProofs` | format, arguments, buffer, size of a long | `TypeOK`, `InsideBuffer`, `PassesAgree`, `PrintsReference` |
| `VirtioProofs` | set of sectors and of data, ring size, number of commands | `TypeOK`, `NoSpurious`, `ReportAfterUse`, `ImplementsDiskService` |

`KernelProofs`. `KernelInv` is the inductive invariant; `TypeOK` alone says nothing of
which interrupts can be taken, and without that the trap could save through a
NULL `sscratch` or into the wrong slot. `KernelInv` adds, per location: which bits of
`sie` are set (they come one by one during boot), that SIE is clear everywhere
outside tasks, that `sscratch` is NULL until the first `switch_to` and equals
`_current` after it except in `schedule`/`switch_to`, that a deadline is ahead or STIP
set from `timer_init` on, except in the tick handler itself, and what `scause` and
`sepc` hold on the way.

For `Spec => ImplementsFifoTasks`, `RefInv` adds what the mapping needs: untouched
slots are blank, saved program counters are task code, a pending yield belongs to
the running task. Each action is one lemma: most stutter, `TaskCreate` is `Create`,
`Schedule` is `Dispatch`, `Syscall` is `Gethid`, `BadCall` or `Yield`, the task's
instructions are themselves. `NothingOverwritten` is the lemma about `trap_vector`: after
its instructions, in their order, the context holds every register as the task had it.

`KernelPortsProofs`. The same for `PortSpec`, that is for both
ports, as the runs check them. `KernelInv` does not hold when `rvos` starts: `mie` and
MTIP may be set. `MachineReset` (MIE clear, in M-mode, no software interrupt) holds
there, the timer cannot disturb it, and `start.S` turns it into `KernelInv`. From then on
`BareMachineSteps` shows each step of the M-mode port to be one of `Kernel`, so that the
lemmas of `KernelProofs` apply, except two: `MachineFault`
(`task_yield` and the lock executed in U-mode) and `MachineExternal` (a claim that is
completed), which keep the invariants and are stutters of `FifoTasks` by proofs of their
own.

`PageAllocProofs`. For `page_init`: the pool fills RAM for every image end and RAM size;
the descriptors fit below it in every RAM of at most 128 MB; the division the code
writes is the model's. For the calls, `FlagsTellBlocks` holds between calls only, so
`PageInv` says what the loops know in the middle of one. `Looking`: behind the page
`page_alloc` is at, nothing fits (which makes it *first* fit, and the answer of
`BlockAlloc`), and from there to `j` all is free. `Marking`: the block being marked is
taken up to `k`, disjoint from the others, and the flags agree with the blocks held
everywhere else. `Walking`: what `page_free` has not reached yet of its block is still
marked, up to its last page. The comparison of `i` with `_num_pages - npages` is where
this ends for a request that is too large: the difference wraps, the scan leaves the
table, and nothing of this holds, as the run `page_oversize` shows. The theorems about
the calls therefore assume `~OVERSIZE`: no caller asks for more pages than there
are. `PoolStays` does not need that. (`TableBelowPool`, violated with the RAM of `os.ld`, is a
theorem with the condition that the run drops.)

`SoftTimerProofs`. A slot may hold a timer that is live, one that `timer_create` is just
writing, one the handler is just firing, or the garbage behind the array; `Owned`
says for each filled slot which of these it is, `Creators` and `OneInside` that a call
writes a timer of its own and is alone inside the lock (with interrupts off, in the
task that runs), `Writing` what it has written so far. From these follow
`LiveTimersIntact` and `FiresOnce`, and with `Firing` and `DueThisRound` that no timer
fires early but across the wrap. For `LateByOthersOnly`, which is not inductive by itself,
`PassedOver` counts: the ticks a timer has waited and the live timers in the slots below
its own are together no more than those slots, since each tick that passes it over
takes one of them away, and a creation there starts the count again. `Handles` and
`Meant` (a timer that a call means is gone or still where its handle says) give
`DeletesItsOwn`.

`ExternalIrqProofs`. `TransmitterBound` for every number of tasks: the invariant counts
who stands between poll and write; a byte goes to the transmitter only from such a
place, and none is entered while the transmitter is busy. `NoUnexpectedIrq` for every
set of devices whose ids lie in the five registers `plic_init` clears: after it only the
UART is enabled. Type correctness, for the FIFO among others.

`PrintfProofs`. `PutsWillEnd` and the buffer bounds for every number of tasks, every
buffer and all lengths. What makes it inductive: the last byte of `out_buf` is never
written, because `res+1 >= sizeof(out_buf)` gives up one byte early; so it is NUL from
`.bss` on, whatever mixture the tasks leave before it.

`VsnprintfProofs`. All four invariants of the run, for formats of any length. The model
defines by recursion what `_vsnprintf` has found after n characters (`Found`), the number
after k divisions (`Tenths`) and how a number is written (`Decimal`). What such a function
is comes from `Recursion`, which builds a function of the kind step by step; what holds of
all its values from `Induction`. Both speak of sets and functions where the library's
theorems take an operator, so that the provers can instantiate them.
- `InsideBuffer`, also where the two passes go different ways: `BufferInv` assumes nothing
  of the texts but that they have a length. Behind `n = res + 1` nothing is written because
  each byte is compared, and the overflow check leaves room for the terminator.
- `TypeOK`: `LocalInv` says that `format` is what the characters before `s` make it and that
  `arg` is at most one behind the conversions found there (`Taken`), so `va_arg` finds an
  argument whenever a letter asks for one.
- `PassesAgree`: `Shown` is what each character makes `printf` write when its conversion gets
  its own argument, `Printed` the text of the first n. `MeasureInv`: `pos` is the length of
  `Printed` before `s`. In the second pass every conversion gets its own argument; in the
  first those up to the first `%c` do, and only `%c` follows, each one character long
  (`Aligned`). The least number, whichever way its negation overflows, has as many digits
  either way (`NegatedLength`), hence no exception for it here.
- `PrintsReference`: `PrintInv`, `out_buf` holds `Printed` as far as `res`, `Aligned` or not,
  as in the second pass every conversion has its own argument. `Printed` is a text of sets of
  characters, like `Reference` (`Meant`), so that the least number is covered too
  (`LeastDigits`). That the two are the same is an induction over the items (`FormatPrinted`): between two items no
  conversion is open and as many arguments are taken as the items before ask for. Decimal
  digits from the last one up are the number as it is written (`DecimalPrinted`, by
  induction over the number; `3 * BYTES` divisions leave nothing, `TenthsEnd`); shifting and
  masking a negative number gives the digits of the unsigned one (`HexPrinted`).

`VirtioProofs`. `VirtioInv` says where the one command is: its stores on their way to
memory (`Preparing`: each field is there or still in `stores`, and nothing else is), complete
with the store of the index on its way (`Published`), visible to the device,
in the device's hands (`Performing`), used, or reported. `intr_type` is not 0 until
`disk_isr` has run, so the next command cannot begin before the device has let go of
the request, the buffer and the status. That the device only ever sees a complete
request is due to the fence before the index moves. The interrupt is
forwarded only when the buffer is used, and again only after the completion, when
INTERRUPT_STATUS has been acknowledged; that gives `NoSpurious`. In the refinement
`Prepare` is `Submit`, the transfer `Read`, `Write` or `Fail`, `DiskIsr` is `Report`, and
everything else stutters.

The proofs rest on the named ASSUMEs of the modules: sizes are positive, the code
image stays inside `PC`, calls and lock operations have a next instruction,
`KernelRegs` is not empty; the word behind `timer_list` is NULL or a pointer that is no
callback of a timer (`Beyond`); `None` is neither a command nor data nor a status; strings are
sequences of characters, items are written as their kind says, numbers fit a long. TLC evaluates them on the instances.

Only model-checked, and why. What holds under fairness (`TasksRun`, `CallsReturn`,
`EveryTimerEnds`, `EveryByteRead`, `CommandReported`): the prover does not do liveness.
Every other property of the passing runs is a theorem.

## 5. Not modelled, and why

The floating-point registers, which no
context saves: `user.c` does not use them. Machine code other than by its effect on
the state a property reads. Feature bits, geometry and the used ring of the disk:
the driver only prints or masks them. Calls of `virtio_cmd` while one is outstanding:
nothing in the driver prevents them, nothing in the repository makes them; its
configuration changes, which nothing in the repository causes (the hazard at
`virtio.c:169`, which no property covers). Nor does one cover `rvos/sched.c:69`: a U-mode task that
yields stops the kernel there, which `HaltsOnlyOnPanic` allows. The enable bits of the UART
other than the receive bit: `uart_init` keeps what the firmware left in them, `UartInit` and
its line know received data only. Two callers inside
`page.c` at a time: no task calls it. A caller that frees the address `page_alloc(0)` gave
it, after somebody else got that page. `rvos_s`
as a system of its own: it is `rvos_s_exp` without the generalized call, the disk and
the missing completion. The parked harts of `rvos`, and the 64-bit store of
`task_yield` that also clears the next hart's MSIP. Build files, section layout.

## 6. Plan

1. *Done*: `Kernel` with `FifoTasks`, `MachineKernel` and `KernelPorts`, `HeapLayout`,
   `PageAlloc` with `BlockAlloc`, `SoftTimer`, `ExternalIrq`, `Printf`, `Vsnprintf`, `Virtio`
   with `DiskService`; proofs of the safety properties of all of them (section 4), with the
   refinements of `FifoTasks`, `BlockAlloc` and `DiskService`.
2. Open: composition of `ExternalIrq` with `Kernel`.
