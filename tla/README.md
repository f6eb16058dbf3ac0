# Verification of the gravel kernel

TLA+ models, TLC runs and TLAPS proofs for the small ARM kernel in this
repository (CMU 18-349 laboratory 4: a fixed-priority kernel for the PXA255
with mutexes and periodic "logical devices"). Source paths are relative to the
repository root.

## 1. The system

### Parts

| part | source | state | operations |
|---|---|---|---|
| run queue | `kernel/sched/run_queue.c` | `run_list[64]`, `run_bits[8]`, `group_run_bits` | `runqueue_init`, `runqueue_add`, `runqueue_remove`, `highest_prio` |
| tasks | `kernel/sched/sched.c`, `kernel/include/task.h` | `system_tcb[64]` | `sched_init`, `init_task`, `allocate_tasks`, `idle` |
| dispatcher | `kernel/sched/ctx_switch.c`, `ctx_switch_asm.S` | `cur_tcb`, saved contexts | `dispatch_init`, `dispatch_save`, `dispatch_nosave`, `dispatch_sleep`, `get_cur_prio`, `get_cur_tcb`, `launch_task`, `ctx_switch_full`, `ctx_switch_half` |
| mutexes | `kernel/lock/mutex.c`, `kernel/include/lock.h` | `gtMutex[32]` with flag, holder and sleep queue | `mutex_init`, `mutex_create`, `mutex_lock`, `mutex_unlock` |
| devices | `kernel/device.c` | `devices[4]` with sleep queue and next match time | `dev_init`, `dev_wait`, `dev_update` |
| time | `kernel/syscall/time.c` | `num_of_10ms` (external) | `time`, `sleep` |
| I/O calls | `kernel/syscall/io.c` | the caller's buffer, the console | `read`, `write` |
| process calls | `kernel/syscall/proc.c` | none: stubs | `task_create`, `event_wait`, `invalid_syscall` |
| admission | `kernel/sched/ub_test.c` | none: a stub | `assign_schedule` |
| entry code | `kernel/arm/int_asm.S`, `kernel/start.S`, `kernel/main.c` | registers, processor mode, stacks | `irq_wrapper`, `kmain` |
| small helpers | `kernel/memcheck.c`, `kernel/math.c`, `hexdump.c`, `assert.c`, `raise.c` | none | `valid_addr`, `sum_region`, `ilog2`, ... |
| user library | `tasks/libc/` | `errno`, the seed of `rand` | system call wrappers, `printf` and `sscanf` families, strings, `strtol` family |
| user programs | `tasks/dagger/`, `tasks/hello/` | - | demonstrations |
| loader interface | `uboot/` | - | trampolines into U-Boot |

### How they interact

A task runs in user mode until it makes a system call or a timer interrupt
comes. System calls of the kernel run with interrupts disabled
(`disable_interrupts` at the head of each function) and may give the processor
away: `mutex_lock` and `dev_wait` put the running TCB on a sleep queue and call
`dispatch_sleep`. The timer interrupt advances the clock and calls `dev_update`,
which makes the tasks of every device whose period is over runnable. All of
them meet in three shared structures: the run queue, `cur_tcb`, and the one link
field `sleep_queue` of every TCB, through which a mutex or a device threads its
list of sleepers. A TCB is thus in the run queue, or current, or on exactly one
list, and much of what the code does is right only because of that.

Under all this lies the machine: every task has a user stack and a kernel stack,
an interrupt saves the registers C code may spoil on the kernel stack of the task
that it interrupts, and a dispatch made there parks the rest in the task's
`context`. Above it is the user library: a program calls a stub of
`tasks/libc/swi`, which enters the kernel and turns a negative answer into -1 and
the global `errno`; `printf` formats with `_doprnt` into a line buffer that it
passes to `write`, and the string, memory and number functions are plain
sequential code.

### What is missing, and how it is filled in

The repository is an unfinished laboratory: it does not compile as it stands,
and parts are absent. The models fix a reading.

*Absent code*, modelled as external from how the rest uses it:

- `kmain` (`main.c:24`) and `task_create` (`proc.c:25`) are stubs. Start-up is
  taken to call the initialisers, `allocate_tasks`, `runqueue_add` for each task,
  and then `dispatch_nosave` (`Kernel!Init`, `Kernel!Booted`).
- `irq_handler` (called at `int_asm.S:61`) and `timer_handler` (`timer.h:43`) do
  not exist. `device.c:27` says "Devices are signaled by calling dev_update on
  every timer interrupt", and `dispatch_save`, which has no caller, can only be
  meant for preemption. The handler is modelled as: count the interrupt, call
  `dev_update(time())`, and either return or call `dispatch_save`. When it does
  the latter is a parameter, `TickDispatch`: `"free"` (as it likes, whoever runs and
  whether or not another task is runnable) or `"preempt"` (exactly when a more
  urgent task is).
- `event_wait` (`proc.c:30`) is taken to call `dev_wait` with a valid device.
- The code behind the `swi` instruction is missing. `Context` takes it to save
  every register, to run with interrupts disabled and to return to user mode with
  the answer in `r0`, as `int_asm.S:34-35` and the stubs expect of it.
- Compiled C code keeps `r4` to `r11` and spoils the other registers, the calling
  convention that the choice of registers in both assembly files relies on. What it
  leaves behind in the others is not told apart.

*Slips that would not compile*, read as what the author plainly meant:
`tcb_t * cur_tcbget_cur_tab();` in `mutex.c:69` is
`tcb_t *cur_tcb = get_cur_tcb();`; `mutex_tmp->block` (96, 123) is `bLock`;
`mutex_tmp.pHolding_Tcb` (152) is `mutex_tmp->pHolding_Tcb`; `mut` (161-168) is
`mutex_tmp`; in `ctx_switch.c` `UDLE_PRIO` (32), `cir_tcb` (50) and
`diable_interrupts` (79) are `IDLE_PRIO`, `cur_tcb` and `disable_interrupts`;
in `sched.c` `tcp` (51) and `a_tasks` (82) are `tcb` and `task_list`;
`prio_umap_table` in `run_queue.c:125,127` is `prio_unmap_table`; `define` in
`device.c:19` is `#define`. The assembly stubs `event_wait.S`, `mutex_*.S` and
`task_create.S` do not include `bits/swi.h`, and `task_create.S:14` puts a second
label `read` on its stub; `Context` takes each for what its name says.

### What is hard

Interleaving of tasks, preempted anywhere outside the disabled sections, with
interrupts; the window that opens in the middle of `mutex_lock`, because
`dispatch_sleep` returns with interrupts enabled; the bitmap that must agree
with the slots; the shared link field; the clock that wraps and is compared with
`==`; the idle task, on whose presence every dispatch relies; and the registers,
of which three pieces of assembly code must save exactly those that nobody else
saves, at points where another interrupt may come. In the sequential library it
is the edges: counts of zero, overlapping blocks, full buffers, the most negative
number. The list, with lines, is under "hazards" in `PROJECT.json`.

## 2. The modules

| module | models | used by |
|---|---|---|
| `Tcb` | the set of task control blocks and the null pointer | `RunQueue`, `SleepQueue` |
| `RunQueue` | the run queue as operators on a record; a byte is the set of its high bits | everything |
| `RunQueueSpec` | the run queue on its own, driven by calls that respect its contract | `MCQueues` |
| `AbsRunQueue` | what it promises: a table from which the most urgent task is taken | `RunQueueSpec` |
| `RunQueueBytes` | the same operators on bytes, with shifts, masks and the unmap table of the code | `RunQueueSpec` |
| `Sched` | TCBs and the dispatcher | `Mutex`, `Device` |
| `Mutex` | `mutex.c`, one action per outcome of a call | `Kernel` |
| `Device` | `device.c` and `time()` | `Kernel` |
| `Kernel` | all of it: system calls interleaved with timer interrupts | `MCKernel` |
| `AbsTasks` | what the kernel promises about tasks | `Kernel` |
| `SleepQueue`, `AbsSleepQueue` | the linked lists of sleepers, pointer by pointer, and the sequences they stand for | `MCQueues` |
| `Time` | `sleep()` against real time | `MCSyscalls` |
| `Io` | `read`, key by key, `write`, and a terminal | `MCSyscalls` |
| `AbsIo` | what `read` promises: an edited line | `Io` |
| `Context` | registers, modes, stacks and saved contexts: the system call stubs instruction by instruction, `irq_wrapper`, `launch_task`, the context switches | `MCContext` |
| `Memory` | the memory, and the strings in it, that the library's functions are about | `Copies`, `Searches` |
| `Copies` | the string and memory functions that write, a step for each turn of a loop | `Strings` |
| `Searches` | those that search and compare, likewise | `Strings` |
| `Strings` | both: a program that calls one at a time on one memory | `MCLibrary` |
| `Memcheck` | `valid_addr` in the arithmetic of its words | `MCLibrary`, `IoProofs` |
| `Arith` | `sum_region`, both forms of `ilog2` on short words | `MCLibrary` |
| `Chars` | characters, digits, words of the C library | `Doprnt`, `Scan` |
| `Doprnt` | `_doprnt`: the text for a format and its arguments | `MCStdio` |
| `Printf` | what becomes of that text, character by character: the line buffer of `printf`, `puts`, `putchar`; the memory that `snprintf` stores in | `MCStdio` |
| `Scan` | `strtol`, `strtoul`, `atol`; `_doscan` and `sscanf` | `MCStdio` |
| `MCStdio` | the calls of the library's formats and what the comments promise of them | `MCLibrary` |
| `IoProofs`, `TimeProofs` | proofs about `read`, `write` and `valid_addr`, about `sleep` | |
| `RunQueueLemmas`, `RunQueueProofs` | proofs about the run queue, as sets and as bytes | |
| `KernelProofs` | proofs about the kernel: places, locks, bitmap; dispatches, the clock, `AbsTasks` | |
| `SleepQueueProofs` | proofs about the linked lists of sleepers | |
| `ContextProofs` | proofs about registers, kernel stacks and stubs | |
| `LibraryProofs` | proofs about `printf` and `snprintf`, and about the string and memory functions | |

**Two views of the kernel.** `Kernel` has the scheduling: who is where, with a
kernel function as one step. `Context` has the machine: what is in the registers
and on the stacks, with the kernel cut where an interrupt can come, and any task as
the one a dispatch finds. They meet in what `Kernel` takes for granted and `Context`
checks, that a task goes on where it was with the registers it had.

**Representation.** A TCB is its index in `system_tcb`; the indices are the
priorities (`allocate_tasks` gives task *i* TCB and priority *i+1*). In `Kernel`, the
context that the assembly saves and restores is the control state `pc[t]` of the task.
`held[t]` records, for the properties, which mutexes a task has locked and not
unlocked, going by the results of its calls; no guard reads it. A function
that changes the run queue is an operator that returns the new queue, so that
an action can be written as the code is, call after call: `dispatch_save(q)`
removes the most urgent task from `q` and then adds the running one.

**Atomicity.** A kernel function is one step, since it runs with interrupts
disabled. The exception is `mutex_lock` on a locked mutex. `dispatch_sleep`
enables interrupts before it returns (`ctx_switch.c:84`), so that lines 123 and
124 run interruptibly: `MutexLockSleep`, `MutexLockFlag` and `MutexLockHolder`
are three steps, between which anything may happen. A timer interrupt during a
disabled section is pending and taken after it, which is a `Tick` between two
steps.

**Loops.** The drain loop of `dev_update` and the start-up loop add several TCBs
to the run queue; `runqueue_add_all` is what they leave behind. The lemmas
`AddAllOfNone` and `AddAllIsTheLoop` (in `RunQueueLemmas`) prove that it is what
zero turns of the loop, and one turn more, do.

**Terminal.** `Io` models what `putc` puts on a line of the terminal: a visible
character appears at the cursor, a backspace moves the cursor and erases nothing, a NUL
does nothing. Keys are end of input, delete, newline, return, NUL, which `read` stores like
any character and at which `write` stops, and those that print in one column; other control
characters are left out, because what they do on the screen is the terminal's affair.
`read` is one step per `getc`. A key that arrives when the buffer is full ends the call and
is not kept: `Stop` of `AbsIo` allows it. The memory map is the one of `io.c:19-29`, scaled.
A buffer is any address and length: its end is formed in an unsigned word, as in the code,
and may wrap (`Wraps`), which the checks of `io.c:64-80` and `160-167` do not notice. `mem` is the byte
last stored at an address, whether or not the board has memory there; a store through a
wrapped buffer that begins above all memory is seen as a change of `mem` outside
`UserMemory`. `got` and `nul_typed` remember, for the properties, what `read` returned and
whether a NUL was typed.

**Time.** `Time` counts real milliseconds beside the interrupts. `waited`, `sum_wrapped`,
`count_wrapped` and `missed` remember, for the properties, how long the call has lasted,
which of the two numbers went past the largest one, and whether time passed in
which the loop would have ended had it been polled; no step reads them.

**Registers.** In `Context` a register holds a symbol: `<<"reg", t, "r4">>` is what
the program of task *t* keeps in `r4`, so that a register that is not saved, or is
restored to the wrong task, is seen. `own[t]` is the history of what the program
must find: each of its instructions is an operator on a view of the registers
that is applied to the machine and to `own[t]` alike, and nothing else changes `own[t]`,
except the answer of a system call. `r8` is set to the loader's `global_data` by the
entry code and given back on return. `LaunchJump` is the last four instructions of
`launch_task` in one step; an interrupt between them finds registers that nobody has
written yet and gives them back. `errno_of` is the history of whose stub stored `errno` last.

**Library.** The library is sequential, so that most of what can be said of it is said of
single calls. `Copies` and `Searches` are state machines all the same: a turn of a loop is a
step, so that a proof can follow the loop and a property can speak of what memory holds, and
where the pointers are, on the way. `Strings` lets calls follow one another on one memory,
each of which meets what the others left. A caller keeps to what C asks of it: strings end
inside the memory, a destination has room and, but for `memmove`, does not overlap its
source. `before` is the memory when a copying function was called. `strstr` calls the
compiler's `memcmp`, which is an operator.
`Doprnt`, `Scan` and `Arith` are functions: a loop of the code is
a recursive operator on its pointers or counters. A char of a
text is a string of length one or a name (`"NL"`, `"NUL"`); digits are told apart,
since numbers are printed and read back. Numbers wrap at `ULONG_RANGE`. `%s` of `_doscan`
reads on past the NUL to the next space, so `sscanf` is given a text and the memory behind it.
The name of a bit in `%b` ends at a control character, and a NUL is one: the pointer then passes the
end of the string of names, and a string whose last bit has no name would be read past its end. That is
undefined, in the model as in C (no value is given to it), and no job calls it.
`Printf` is a state machine that takes one character of a text per step, as `_doprnt` passes
them to `printf_char` or `savechar`. It does not depend on how the text came about: it is
given by the constant `TextOf`, and `MCStdio` takes for it what `Doprnt` makes of each format
and its arguments.

**Lists.** `Kernel` keeps each list of sleepers as a sequence. `SleepQueue`
models the pointers, with a step for each turn of the two loops (the walk of
`mutex_lock` to the last sleeper, the drain of `dev_update`). A loop runs with
interrupts disabled, so that no other call begins before it ends: `AtRest`. `List(q)`
is the sequence that a head pointer leads to, and `CHOOSE` picks it among those
no longer than there are TCBs; the proofs show that there is one and only one. The
lists behave as independent sequences under the precondition that a task that goes to
sleep is on no list, which is `Kernel!OnePlace`, proved. A task that `dev_update` has
made runnable and unlinked counts as asleep until the call ends (`Asleep`), because the
sequences of `Kernel` lose all sleepers of a device at once.

## 3. What the runs check

| run | instance | shows |
|---|---|---|
| `queues` | the run queue with the real 64 priorities, 10 used: the whole first group, so that every byte value indexes the table, and the ends of others; the sleep queues with 4 TCBs, 2 mutex lists, 1 device list | bitmap and slots agree; the search finds the most urgent; the queue implements the table; at every call the bit operations on bytes do what the model on sets of bits does; the lists of sleepers never join or drop anyone, and are the sequences of `AbsSleepQueue`; the loops over them end |
| `kernel` | 2 or 3 tasks, 1 mutex, 2 devices with periods of 1 and 2 interrupts, handler `"free"` | tasks in one place, the null TCB dispatched from the idle task only, events never missed, no lost wake-up, holders have locked, the record of a mutex's holder goes wrong exactly in the two windows of section 4, most urgent dispatched, `AbsTasks` implemented |
| `kernel_preempt` | 3 tasks, 1 mutex, 1 device, handler `"preempt"`, fairness | no interrupt returns to a task while a more urgent one is runnable; liveness: device waiters wake, the most urgent task runs |
| `context` | 2 tasks, one stub that converts errors and one that does not, answers -14, -9 and 0, kernel stacks of up to 3 frames, a handler that disables interrupts before it returns (4 million states) | programs find registers, flags, mode and stacks as they left them; stubs report the kernel's answer and spoil no register; a stub that failed leaves its number in `errno` unless another task's stub has stored one since; `errno` changes only to the number of an error the running task has met |
| `syscalls` | `read` and `write`: 24 addresses, 5 bytes of RAM that can be read into, 14 buffers in, astride and beside the regions and past the highest address, 2 visible characters; `sleep`: 0..10 ms, period 3 ms, count modulo 16 | the terminal shows the line, `read` stays in its buffer (and in the user's memory unless the buffer wraps) and is the line editor of `AbsIo`, what it returns is what `write` shows, up to a NUL that was typed; how early and how late `sleep` may end, wraps included |
| `library` | words of 64 values, a line buffer of 5; all sets of flags, two widths, six conversions, seven numbers, cut strings, bit names, newlines and NULs; all texts of up to 4 of 8 characters to scan; 5 cells of 3 byte values, every content, every legal call, turn by turn; words of 4 and 8 bits | `_doprnt` against a reference printer; `printf` loses and doubles nothing; `snprintf`; the readers agree with each other, with a sum of digits, and with what was printed; each byte of memory is always the old or the new one, each function ends with what its definition by quantifiers asks, and no search reads past a NUL; `valid_addr`, `ilog2`, `sum_region` likewise |
| `kernel_holder`, `kernel_idle`, `context_irq`, `strncpy`, `sleep_short`, `promises` | | disagreements, section 4 |

**Runs about two things.** `queues`, `syscalls` and `library` put two components that share
nothing side by side. A step of one is taken while the other stands in an initial
state, so that a behaviour exercises both, one after the other, and the states are a sum and
not a product. Their specifications are the components' own actions under that guard.

**Bounds.** In the kernel runs `OS_MAX_TASKS = 16` keeps two groups of the bitmap: the tasks (1..3)
are in the first, the idle task (15) in the second, so that the two-level search
crosses groups in every run. Three tasks are the least with which a task can
take a mutex between an unlock and the wake-up of a sleeper while another sleeps
behind it. The clock wraps at 8 ms with a period of 3 ms, which does not divide
8: match times wrap at a different place on every round, and every residue is
met. With the real constants the clock wraps at 2^32 ms and 10 does not divide
that either. With two mutexes and two devices the instance has 2.6 million
states and takes too long to check often; what one mutex cannot show, a wake-up on the wrong
one of two, is covered by the proofs, which hold for any number. `MutexArg` goes one beyond each end of
the valid indices. In `Time`, waits are counted up to `MaxWaited`; longer ones
are not told apart, and no property depends on the difference. The longest sleep, with a
count that wraps at 16, is short enough that a sum wraps in some calls only, and long enough that
the count wraps during a sleep. In `syscalls` and `context`, tasks (or visible characters) are
interchangeable and declared symmetric; these runs check no liveness.

In `Context`, two tasks suffice for one to spoil what another keeps. An interrupt is let
in while the kernel stack has fewer than `MaxFrames = 3` frames: a preempted task that is
resumed, and has interrupts enabled again inside its handler, has two, so that it can be
interrupted and preempted a second time on its way back. Deeper stacks repeat the same
frames. Of the stubs
seven have the same instructions, as have the other two; the run takes one of each.
`Strings` has `MemSize = 5` cells: two strings that are apart, of which one has two
characters, or strings and blocks of up to five cells that overlap in every way; its proofs are for any
number of cells. `SIZE_RANGE = 8` wraps a count just above the memory's size. In `library` a word of 64 values has numbers of
one and of two digits in every base, a most negative one, and overflows within the four
characters of a text that is scanned; several texts fill the buffer of five more than
once.

**Fairness.** In `Kernel`, only the timer is fair: `FairSpec == Spec /\ WF_vars(Tick)`. The
timer is hardware that keeps interrupting, every section with interrupts
disabled is finite, and the idle task enables interrupts (`sched.c:60`). No task
is assumed to make any call, to unlock a mutex or even to proceed, since any task
may loop in user code for ever. In `SleepQueue`, a loop that has begun takes its turns:
interrupts are disabled, so that nothing can keep the processor from it. No call is
assumed to be made.

**Deadlock** is checked in every passing run but `kernel`: a tick, a millisecond, an
instruction or a call is always possible. In `kernel` the system really stops once the handler
has dispatched the null TCB (`kernel_idle`, section 4); `NullOnlyFromIdle` says that it does so in no other way, and
`kernel_preempt`, whose handler never does, checks for deadlock.

## 4. Disagreements found while modelling

Each of these is a run that TLC refutes, with the behaviour as its counterexample.

1. `kernel_holder`: a task woken in `mutex_lock` goes on without looking at the
   mutex, and `mutex_unlock` does not reserve it: two tasks can have the mutex,
   and the record of "who are using this mutex" (`lock.h:23`) loses one. Besides, an
   unlock between lines 123 and 124 of another task's `mutex_lock` leaves a mutex that
   is held and not locked, against `lock.h:24`. They are why `NoLostWakeup` and
   `HolderHasLocked` are stated as they are. `RecordLostIffTakenUnseen` says that there is no other
   way: a step spoils a record that was true if and only if it is line 124 of a task that
   finds the mutex recorded as another's, or no longer locked.
2. `context_irq`: `dispatch_save` ends with `enable_interrupts()`
   (`ctx_switch.c:52`), so that the interrupt handler goes on with interrupts enabled,
   against `int_asm.S:5`. If the handler, which is missing, does not disable them again,
   an interrupt between the last two instructions of `irq_wrapper` leaves a supervisor
   status in `spsr`, and a user program is resumed in supervisor mode. The run
   `context` is about a handler that does disable them.
3. `strncpy`: with a string of exactly `count` characters, or more, the count wraps to
   the largest `size_t` and the padding runs over the memory behind the destination,
   against `strncpy.c:38-42`. The run `library` calls it with counts greater than the
   length of the string only.

4. `kernel_idle`: `ctx_switch.c:41-42` relies on a searcher "tuned to return IDLE_PRIO for
   a completely empty run_queue case"; `highest_prio` returns 0 for it. When both tasks have
   called `dev_wait` and the handler calls `dispatch_save` in the idle task, it takes the null
   pointer of slot 0. `NullOnlyFromIdle`, checked with a handler that is free to do so and
   proved, says that there is no other way.
5. `sleep_short`: `sleep(1)` returns at once, against "atleast the given number of
   milliseconds" (`time.c:26`): the time is rounded down to whole periods, the first of which is
   already partly over. `EarlyOnlyIfSumWraps` says how early: less than two periods, unless
   the sum wraps around and the count has not, and then always too early.
6. `promises`: a left-adjusted string that is cut by its precision gets one blank too few
   (`doprnt.c:469-481`, against the field width of lines 64-65), `%X` prints small letters, against
   line 60, and the second example for `%b` (lines 101-103) prints something else than it says: its base is
   octal, and bit 2 is set. These calls are marked in `MCStdio` (`"slip"`, with what is `promised`
   and what is `printed`); in all others `_doprnt` prints what is promised, which is
   `FormatMeetsSpec`.

Others, seen in the same models or on the way, where no comment promises anything else:

- `read` and `write` accept a buffer whose end wraps around (`io.c:64-80`, `155-167`), and
  `read` then stores outside the user's memory; `ReadStaysInBuffer` says that this is
  exactly when it does. `write` shows nothing behind a NUL that was typed; `ReadIsWritten`.
- The `errno` of a caller may be another task's (`errno.c:9`); `WrapperReports` says when.
- `dispatch_save` cannot find the running task, since it searches before it makes that
  runnable: it may switch to a less urgent one, although `ctx_switch.c:37` speaks of "the highest priority task". The handler has to
  compare; `TickRunsMostUrgent` is about one that does.
- `strtol` recognises a plus sign and does not skip it (`strtol.c:35-36`), so that the number
  reads as 0; `ReadBack` says so. `atol` skips no spaces.
- `vsnprintf` writes `size` characters and then the NUL (`sprintf.c:74`): one byte more than
  the caller's buffer has when `size` is its length; `SnprintfBounded` states it.
- `strrchr(s, 0)` is null, not the end of the string (`strrchr.c:28`), while `strchr(s, 0)` is the end.
- `sscanf`'s count includes conversions nobody knows, and `%s` reads on past the end of a
  text without a space (`doscan.c:148`); `ScansAgree` says how far.

## 5. What is proved

By TLAPS, for every number of priorities the code admits (multiples of 8 up to
64), every number of tasks, mutexes and devices, every clock width and period,
every device table and, where not said otherwise, every `TickDispatch`:

| theorem | statement |
|---|---|
| `RunQueueProofs!AlwaysConsistent`, `SearchCorrect`, `Implementation` | the run queue is consistent, finds the most urgent task and implements `AbsRunQueue` |
| `RunQueueProofs!BytesDoTheSame` | `[]BytesImplementSets`: shifts, masks and table do what the operators on sets do |
| `KernelProofs!TypeCorrect`, `TasksInOnePlace`, `BitsAlwaysOK` | `[]TypeOK`, `[]OnePlace`, `[]BitsOK` |
| `KernelProofs!RecordedHolderHasLocked`, `WakeupsAreKept` | `[]HolderHasLocked`, `[]NoLostWakeup` |
| `KernelProofs!RecordLostByUnseenTaking` | `RecordLostIffTakenUnseen` |
| `KernelProofs!MostUrgentDispatched` | `DispatchesMostUrgent` |
| `KernelProofs!TicksRunMostUrgent` | `TickRunsMostUrgent`, for a handler that preempts |
| `KernelProofs!EventsStayAhead` | `[]EventsAhead`, if the devices' periods are multiples of the timer's |
| `KernelProofs!NullComesFromIdle` | `NullOnlyFromIdle` |
| `KernelProofs!KernelImplementsTasks` | `ImplementsTasks`, if no task gets the idle task's TCB (at most `OS_MAX_TASKS - 2` tasks) |
| `IoProofs!IoTypeCorrect`, `EchoIsTheLine` | `[]TypeOK`, `[]EchoShowsLine` |
| `IoProofs!ReadStays`, `ReadWritten` | `ReadStaysInBuffer`, `ReadIsWritten`, whatever buffers are passed and keys typed |
| `IoProofs!IoImplementsEditor` | `ImplementsEditor` |
| `IoProofs!AddressAlwaysChecked` | `valid_addr` answers as if sums could not wrap around, for words of any size |
| `TimeProofs!SleepEarlyOnlyIfSumWraps`, `SleepLateOnlyIfUnpolled` | `[]EarlyOnlyIfSumWraps`, `[]LateOnlyIfUnpolled`, wraps included |
| `SleepQueueProofs!PointersTyped`, `ListsDisjoint` | `[]TypeOK` (which no run repeats), `[]Disjoint` |
| `SleepQueueProofs!ListsImplementSequences` | `ListsAreSequences` |
| `ContextProofs!RegistersAlwaysComeBack`, `UserCodeAlwaysInUserMode`, `KernelStacksAlwaysBalanced` | `[]RegistersComeBack`, `[]UserCodeInUserMode`, `[]KernelStacksBalanced`, for a handler that leaves interrupts disabled |
| `ContextProofs!WrappersAlwaysReport`, `ErrnoOnlyEverFromFailures` | `WrapperReports`, `ErrnoOnlyFromFailures`, for the same handlers |
| `LibraryProofs!PrintfShowsText`, `SnprintfStoresText` | `[]PrintedIsEmitted`, `[]SnprintfBounded`, for any text and any sizes |
| `LibraryProofs!CopiesAlwaysRight`, `SearchesAlwaysRight` | `[]CopiesAreRight`, `[]SearchesAreRight`, for any memory, if `strncpy` is only called with room for the NUL |

The condition of the last two is needed: run `strncpy` is the counterexample without it.
The theorems of `ContextProofs` hold for any number of tasks, stubs and answers, and
any depth of nested interrupts. Their condition, `HandlerMasks = TRUE`, is needed: run
`context_irq` is the counterexample without it (section 4).

The condition of `KernelImplementsTasks` is needed: `allocate_tasks` does not bound
`num_tasks`, and with `TaskCounts = {OS_MAX_TASKS - 1}` the last task takes the idle task's
element of `system_tcb` (`config.h:28`, `OS_AVAIL_TASKS`, and `sched.c:69` leave the duty to
`task_create`, which does not exist). `NullOnlyFromIdle` has the same condition in its
statement, that the element is still the idle task's. That a dispatch with nobody runnable
takes the null TCB is part of both: `AbsTasks` has a `Tick` after which `Nobody` runs.

**Argument.** The invariant behind everything is
`IInv == TypeOK /\ BitsOK /\ OnePlace /\ PrioIsIndex`. `OnePlace` is not inductive
by itself: a dispatch goes through the bitmap (hence `BitsOK`), and a woken or
preempted task is put at the priority its TCB names (hence `PrioIsIndex`).
Since an action runs through intermediate states - drain, search, remove, add -
the invariant is also stated for any queue, current task and lists (`Placed`), with
one lemma for each piece: `WakeAllPlaced`, `SavePlaced`, `SleepPlaced`,
`WakeFirstPlaced`. `NoLostWakeup` needs, in addition, that whoever sleeps on a mutex
is inside `mutex_lock` for that mutex (`SleepersAreLocking`): that is why waking it
produces a task about to take the mutex. `NullOnlyFromIdle` needs that the idle
task never sleeps (`IdleAwake`), so that by `OnePlace` it is in its slot whenever
another task runs.

For `read` the invariant is `TypeOK /\ Checked /\ GotLine /\ EchoShowsLine /\ NoNul`: a
buffer that does not wrap lies in the user's memory (`Checked`), which the lemma `InRam` gets from
the check of `io.c:64-80`; what was returned is the length of the line; unless a NUL was typed, the cursor is
one more than `readcount`, the text before it is the buffer, and no byte of the line is NUL.
That a buffer that wraps lies outside the user's memory needs no invariant: it begins above all of it.
`ReadWritten` rests on the last, since `write` stops at a NUL.

`EventsAhead` is inductive by itself; what it takes is that `time()` does not notice the
wrap-around of the count, which the lemmas `ModPlus` and `ModTimes` get from quotient and
remainder. For `sleep` the invariant `IInv`
of `TimeProofs` compares the real time waited with the interrupts since the call, as far as the count
tells them (`Passed`): `NotMore` and `NotLess` bound the wait from both sides, and `Polled` says that a loop that was polled in
vain all the time has seen nothing wrap. The loop ends when `Passed` reaches the number of
whole periods asked for, or at once when only the sum has wrapped; whence both properties.

For the lists of sleepers the invariant `QInv` says that *there are* sequences, one for
each queue, that the pointers realize and that share no TCB (`Linked`), and how far the
loop has come along one of them (`LoopAt`). Each piece of pointer surgery is then a lemma
from the pointers of some sequences to the pointers of others (`PushFirst`, `PushLast`,
`PopFirst`), and all three come from one about any change of links that leaves the other
lists alone (`Relinked`). `EveryStep` collects them: a step leads from sequences `c` to
sequences `d` as `AbsSleepQueue` has it. It gives the invariant, `Disjoint` and the
refinement at once. What remains is that the pointers determine the sequences, which is an
induction along a list: `OneList`, by the least place at which two lists from one pointer
differ (`LeastNat`). That a list is no longer than there are TCBs (`NoLonger`) comes from
counting.

For the registers the invariant `KInv` of `ContextProofs` is a grammar of kernel stacks. A
stack holds frames of three kinds: what the system call saved, what `irq_wrapper` saved, and
the return address of a C function that dispatched. `Fits` says which of them the code at each point
expects on top, and each frame's own `pc` what is expected below it. `SyscallFrame` and
`IrqFrame` tie what is saved to what the program must find; what is in no frame is in the
processor (`RunningOK`) or in the task's `context` (`SuspendedOK`). The seven registers that
no frame holds, `Preserved`, are followed through every dispatch. The second part, `SInv`,
says for each instruction of a stub what the program's own view must be there (`StubAt`);
because `KInv` gives that the view comes back, a step of one task cannot disturb the stub
of another, and `ErrnoOnlyFromFailures` follows at the one
instruction it is about. `WrapperReports` needs besides that a number once stored is there until another
task's stub stores (`EInv`).

For the record of a mutex's holder, `HolderHasLocked` gives that a mutex without a
recorded holder is nobody's. What it takes besides is `NotYetRecorded`: a task inside `mutex_lock`
is not yet recorded for the mutex it waits for. Most steps leave what the record is about
alone (`RecordUntouched`); `RecordTaken` says when taking a mutex keeps the records
true, for `MutexLockFree` and line 124 alike.

A byte of the run queue is a number below 256 in `RunQueueBytes`, and stands for the set of its
high bits. `BytesDoTheSame` rests on what the solver finds out about the eight binary digits of a
byte: they tell the set and the least of it (`ByteDigits`), the masks set or clear one of
them (`SetBit`, `ClearBit`), and the 256 entries of the table give the place of the least high one
(`TableEntries`).

For the copying functions the invariant `CopyInv` says for each loop how far it has come: what
is done is `Copied` or `Filled` for the first so many bytes, what remains is what leads to
the promise. A source that overlaps nothing is still intact where the loop reads it
(`SourceIntact`), and in `memmove` the direction keeps the part not yet read untouched. That every
byte is old or new, at any turn, is then read off (`OldOrNew`). The searching functions need no
more than what the loop has already seen (`Scanned`), and that a string ends in its only
NUL (`StringEnds`): a loop that has not answered has met no NUL, so that its pointer may go on.
`StringsNextInv` puts the two together: a search changes no memory, and a copying function
finds no search under way.

For `printf` the invariant `LineOK` adds to the property that the first `index` bytes of the
buffer are not NUL: then `write` shows the same, `first_chars`, whether it is told the length
(`flush`) or stops at the NUL that ends the buffer (`puts`); that is the lemma `Flushed`.
A text shows as an output when the characters that are not NUL appear in it by rank
(`ShowsAs`), so that one character more is one place more (`ShowsMore`); a filter would be
recursive. For `snprintf` the invariant `SavedOK` adds that `len` is the length of what is stored,
and `FittingMore` says that `savechar` then does to a prefix of the text what one more
character does.

**Assumptions** are the named `ASSUME`s of `Tcb`, `RunQueue`, `Sched`,
`Device`, `Kernel`, `SleepQueue`, `Time`, `Io`, `Context`, `Memory`, `Copies`, `Memcheck`, `Chars` and
`Printf`; TLC evaluates them on the runs of those modules. Those of `Memory` and `Copies` say that a char is a natural
number and NUL one of them, and that a `size_t` can count the whole memory. That of `Tcb` says that the null pointer is no TCB; those of `SleepQueue`, that there are
finitely many TCBs (an array of 64) and that a mutex's list is not a device's; that of `Context` says that
a system call answers with a number; those of `Printf`, that every format has a text, and that
a size given to `vsnprintf` is a natural number (`size_t`; the largest of all, which as an `int`
is -1, is the case `UNLIMITED`).

**Model-checked only**: the liveness properties (`DeviceWaitersWake`, `MostUrgentTaskRuns`,
`LoopsEnd`), since fairness needs `ENABLED`; and the formats, the number readers, `ilog2` and `sum_region`
(`FormatMeetsSpec`, `ReadBack`, `ScansAgree`, `ArithmeticIsRight`), whose loops are recursive
operators over data, about which no induction is available.

## 6. Not modelled

`assign_schedule` (a stub); `start.S`, which runs once before the kernel, and the
access functions of `reg.c`, `psr.c` and `inline.h`, each one instruction; `assert`, `panic`,
`raise` and both `hexdump`s, which print and halt; the loader's trampolines; the
demonstrations, whose calls are among those `Kernel` admits; `rand`, whose only
property is a period that depends on the width of the word.
`dispatch_init` and `mutex_init`, `dev_init`, `sched_init` have no caller; all but
the first are taken to be called at start-up. The number of bytes on the 4 KB kernel
stacks is not modelled, nor is there anything in the code that bounds the nesting of
interrupts behind `ctx_switch.c:52`. In `Context`, the user and kernel stacks are
separate; that `idle` is given its kernel stack for both (`sched.c`) is left out, since
`idle` pushes nothing and calls no stub.

## 7. Plan

Done, in this order: `RunQueue`, `RunQueueBytes`, `Sched`, `Mutex`, `Device`, `Kernel`,
`SleepQueue`, `Time`, `Io`; `Context`; `Memory`, `Copies`, `Searches`, `Strings`, `Memcheck`, `Arith`; `Doprnt`,
`Printf`, `Scan`; and the proofs of section 5.

What could follow: a composition of `Context` and `Kernel`, in which the task that a dispatch
finds is the one of the run queue; and the loops of `_doprnt` and `_doscan`, a step for each
turn as in `Copies`, so that they could be proved about.
