------------------------------- MODULE Kernel -------------------------------
(***************************************************************************)
(* The running kernel: the tasks' system calls on mutexes and devices      *)
(* interleaved with timer interrupts, over one run queue.                  *)
(*                                                                         *)
(* Not in the repository, and modelled from what it expects of them: the   *)
(* start-up code (main.c:24 and proc.c:25 are stubs) and the interrupt     *)
(* handler, which device.c:27 has call dev_update on every timer interrupt *)
(* and which, being the only place where a running task can lose the       *)
(* processor, is the caller of dispatch_save.                              *)
(***************************************************************************)
EXTENDS Mutex, Device

CONSTANTS TaskCounts,     \* bound: how many tasks task_create may be given
          TickDispatch    \* when the interrupt handler calls dispatch_save:
                          \*   "free"     whenever it likes
                          \*   "preempt"  if a more urgent task is runnable

(* allocate_tasks does not check num_tasks (sched.c:77-84).  With more     *)
(* tasks than this it would write beyond system_tcb; the last one admitted *)
(* here takes the idle task's element.                                     *)
ASSUME TaskCountsAssumption == TaskCounts \subseteq 0 .. OS_MAX_TASKS - 1
ASSUME TickDispatchAssumption == TickDispatch \in {"free", "preempt"}

vars == <<schedVars, mutexVars, deviceVars>>

(* Start-up, once per boot: run queue, idle task, mutexes and devices are  *)
(* initialised, task_create(n) allocates n tasks and makes them runnable,  *)
(* and the initialisation thread gives the processor away for good.        *)
Booted(n) ==
    dispatch_nosave(runqueue_add_all(sched_init_queue(runqueue_init), 1 .. n,
                                     [t \in 1 .. n |-> t]))

Init ==
    /\ \E n \in TaskCounts :
        /\ system_tcb = allocate_tasks(sched_init_tcbs(zeroed_tcbs), n)
        /\ rq = Booted(n).rq
        /\ cur_tcb = Booted(n).cur_tcb
    /\ sleep_queue = [w \in SleepQueues |-> <<>>]
    /\ gtMutex = mutex_init
    /\ pc = [t \in TCB |-> "user"]
    /\ arg = [t \in TCB |-> NULL]
    /\ held = [t \in TCB |-> {}]
    /\ next_match = dev_init
    /\ num_of_10ms = 0

(* How the interrupt handler may return, given the queue q that dev_update *)
(* has left: to the interrupted task, or through dispatch_save.            *)
Stay(q) == [rq |-> q, cur_tcb |-> cur_tcb]

HandlerReturns(q) ==
    CASE TickDispatch = "free"    -> {Stay(q), dispatch_save(q)}
      [] TickDispatch = "preempt" -> {IF Occupied(q) # {} /\ highest_prio(q) < get_cur_prio
                                      THEN dispatch_save(q) ELSE Stay(q)}

(* A timer interrupt of user code, of the idle task, or of a mutex_lock    *)
(* that runs with interrupts enabled.                                      *)
Tick ==
    LET ticks  == (num_of_10ms + 1) % ULONG_RANGE
        millis == time(ticks)
    IN  /\ cur_tcb # NULL
        /\ num_of_10ms' = ticks
        /\ next_match' = dev_update_match(millis)
        /\ sleep_queue' = dev_update_sleepers(millis)
        /\ \E q \in {dev_update_queue(millis)} : \E next \in HandlerReturns(q) : Finish(next)
        /\ UNCHANGED <<system_tcb, mutexVars>>

DevWait(dev) == /\ InUserCode
                /\ dev_wait(dev)
                /\ UNCHANGED mutexVars

(* The arguments a task may pass to the mutex calls.                       *)
MutexArg == -1 .. OS_NUM_MUTEX

MutexCall ==
    \/ MutexCreate
    \/ MutexCreateRefused
    \/ MutexLockFlag
    \/ MutexLockHolder
    \/ \E m \in MutexArg : \/ MutexLockRefused(m)
                           \/ MutexLockFree(m)
                           \/ MutexLockSleep(m)
                           \/ MutexUnlockRefused(m)
                           \/ MutexUnlock(m)

Next == \/ Tick
        \/ \E d \in Device : DevWait(d)
        \/ MutexCall /\ UNCHANGED deviceVars

Spec == Init /\ [][Next]_vars

(* The timer never stops: every section that runs with interrupts disabled *)
(* is finite, so a pending interrupt is taken.                             *)
FairSpec == Spec /\ WF_vars(Tick)
-----------------------------------------------------------------------------
TypeOK == SchedTypeOK /\ MutexTypeOK /\ DeviceTypeOK

(* No task is lost and none is in two places: a created task has the       *)
(* processor, or is in the run queue at its own priority, or sleeps in     *)
(* exactly one position of one queue.  The kernel threads all sleep queues *)
(* through one link per TCB and overwrites run-queue slots blindly, so     *)
(* that a task in two places would take others with it.                    *)
InOwnSlot == \A p \in Prio : rq.run_list[p] \in {NULL, p}

NowhereTwice ==
    /\ cur_tcb # NULL => rq.run_list[cur_tcb] = NULL
    /\ \A w \in SleepQueues : \A i \in 1 .. Len(sleep_queue[w]) :
        /\ sleep_queue[w][i] # cur_tcb
        /\ rq.run_list[sleep_queue[w][i]] = NULL
        /\ \A v \in SleepQueues : \A j \in 1 .. Len(sleep_queue[v]) :
             sleep_queue[w][i] = sleep_queue[v][j] => w = v /\ i = j

SomewhereIffCreated ==
    \A t \in TCB :
        Created(t) <=> \/ t = cur_tcb
                       \/ rq.run_list[t] # NULL
                       \/ \E w \in SleepQueues : Asleep(t, w)

OnePlace == InOwnSlot /\ NowhereTwice /\ SomewhereIffCreated

(* The bitmap the search reads agrees with the slots, under the kernel's   *)
(* own calls of runqueue_add and runqueue_remove.                          *)
BitsOK == BitsMatchSlots(rq)

(* ctx_switch.c:41-42, "We could be switching from the idle task.  The     *)
(* priority searcher has been tuned to return IDLE_PRIO for a completely   *)
(* empty run_queue case": the processor is never given to a null TCB.      *)
(* False if the interrupt handler calls dispatch_save while the idle task  *)
(* runs and no other is runnable: the search returns 0, an empty slot.     *)
NeverDispatchesNull == cur_tcb # NULL

(* ctx_switch.c:59, 75, "There is always an idle task to switch to": as    *)
(* long as its control block is its own, a task that goes to sleep or has  *)
(* to give way always finds another one, at the latest the idle task.      *)
NullOnlyFromIdle ==
    [][cur_tcb # NULL /\ cur_tcb' = NULL /\ system_tcb[IDLE_PRIO].lambda = "idle"
         => cur_tcb = IDLE_PRIO]_vars

(* No lost wake-up: while a mutex is locked or tasks sleep on it, someone  *)
(* is about to take it or holds it and will find the sleepers when it      *)
(* unlocks.                                                                *)
Claims(t, m) == /\ arg[t] = m
                /\ pc[t] # "user"
                /\ ~Asleep(t, MutexQueue(m))

NoLostWakeup ==
    \A m \in Mutex :
        gtMutex[m].bLock \/ sleep_queue[MutexQueue(m)] # <<>> =>
            gtMutex[m].pHolding_Tcb # NULL \/ \E t \in TCB : Claims(t, m)

(* The recorded holder is a task that has locked the mutex and has not     *)
(* unlocked it: it can, and nobody else could, set the mutex free.         *)
HolderHasLocked ==
    \A m \in Mutex : gtMutex[m].pHolding_Tcb # NULL =>
        m \in held[gtMutex[m].pHolding_Tcb]

(* Every device's next event lies at most one period ahead, on a timer     *)
(* interrupt to come, also when the clock has wrapped around: the equality *)
(* test of dev_update never misses it.                                     *)
EventsAhead ==
    \A d \in Device : \E k \in 1 .. dev_freq[d] \div OS_TIMER_RESOLUTION :
        next_match[d] = time(num_of_10ms + k)

(* A task that gets the processor is more urgent than every task left in   *)
(* the queue, except for the one it takes the processor from.              *)
DispatchesMostUrgent ==
    [][cur_tcb' # cur_tcb =>
         \A p \in Prio \ {cur_tcb} : rq'.run_list[p] # NULL => cur_tcb' < p]_vars

(* With a handler that preempts, no interrupt returns to a task while a    *)
(* more urgent one is runnable, even one that this interrupt or an unlock  *)
(* since the last interrupt has woken.                                     *)
TickRunsMostUrgent ==
    [][num_of_10ms' # num_of_10ms =>
         \A p \in Prio : rq'.run_list[p] # NULL => cur_tcb' < p]_vars

(* lock.h:23-24, "who are using this mutex" and "1 for lock/0 for unlock": *)
(* a task that has locked a mutex and not unlocked it is the one the mutex *)
(* records, and a mutex with a recorded user is locked.                    *)
HolderIsRecorded ==
    \A m \in Mutex, t \in TCB : m \in held[t] => gtMutex[m].pHolding_Tcb = t
FlagTellsLocked ==
    \A m \in Mutex : gtMutex[m].pHolding_Tcb # NULL => gtMutex[m].bLock
MutexRecordIsTrue == HolderIsRecorded /\ FlagTellsLocked

(* mutex.c:119-124: a true record is lost in one kind of step, always in   *)
(* that, and kept by every other call however they interleave.  A task     *)
(* woken in mutex_lock has itself recorded although another has taken the  *)
(* mutex since the unlock that woke it, or although the mutex has been     *)
(* unlocked since the task's line 123.                                     *)
TakenUnseen ==
    /\ cur_tcb # NULL /\ pc[cur_tcb] = "lock_holder" /\ pc'[cur_tcb] = "user"
    /\ \/ gtMutex[arg[cur_tcb]].pHolding_Tcb # NULL
       \/ ~gtMutex[arg[cur_tcb]].bLock
RecordLostIffTakenUnseen ==
    [][MutexRecordIsTrue => (MutexRecordIsTrue' <=> ~TakenUnseen)]_vars

(* device.c:27-31: the tasks that wait for a device event are all made     *)
(* runnable, whatever the other tasks do and however the clock wraps.      *)
DeviceWaitersWake ==
    \A d \in Device :
        sleep_queue[DeviceQueue(d)] # <<>> ~> sleep_queue[DeviceQueue(d)] = <<>>

(* With a handler that preempts, the most urgent task runs again whenever  *)
(* it is runnable, whatever locks the others hold.                         *)
MostUrgentTaskRuns == rq.run_list[1] # NULL ~> cur_tcb = 1

(* The kernel implements the task model of AbsTasks.tla.                   *)
Abs == INSTANCE AbsTasks WITH
    Task <- TCB, Nobody <- NULL,
    Mutexes <- {MutexQueue(m) : m \in Mutex},
    Devices <- {DeviceQueue(d) : d \in Device},
    running <- cur_tcb, ready <- Occupied(rq), asleep <- sleep_queue
ImplementsTasks == Abs!Spec
=============================================================================
