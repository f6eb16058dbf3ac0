------------------------------- MODULE Sched --------------------------------
(***************************************************************************)
(* Task control blocks and the dispatcher: kernel/sched/sched.c and        *)
(* kernel/sched/ctx_switch.c, over the run queue of RunQueue.tla.          *)
(*                                                                         *)
(* A TCB is its index in system_tcb.  The registers and the kernel stack   *)
(* that ctx_switch_full saves and restores are the tasks' own control      *)
(* state (pc in Mutex.tla).  The links tcb->sleep_queue, threaded through  *)
(* the sleeping TCBs, are kept as one sequence per object that has such a  *)
(* list; SleepQueue.tla checks the pointer operations.                     *)
(***************************************************************************)
EXTENDS RunQueue, Sequences

CONSTANTS OS_NUM_MUTEX,   \* config.h:31
          NUM_DEVICES     \* device.h:16

(* system_tcb has one element per priority (sched.c:21, config.h:26).      *)
ASSUME SystemTcbAssumption == TCB = Prio
ASSUME CountsAssumption == OS_NUM_MUTEX \in Nat /\ NUM_DEVICES \in Nat

VARIABLES system_tcb,     \* static part of every TCB
          rq,             \* the run queue
          cur_tcb,        \* TCB of the task that has the processor
          sleep_queue     \* for every mutex and device, its sleeping tasks
schedVars == <<system_tcb, rq, cur_tcb, sleep_queue>>

IDLE_PRIO == OS_MAX_TASKS - 1

Mutex  == 0 .. OS_NUM_MUTEX - 1
Device == 0 .. NUM_DEVICES - 1
MutexQueue(m)  == <<"mutex", m>>      \* names gtMutex[m].pSleep_queue
DeviceQueue(d) == <<"device", d>>     \* names devices[d].sleep_queue
SleepQueues == {MutexQueue(m) : m \in Mutex} \cup {DeviceQueue(d) : d \in Device}

TcbType == [native_prio : Prio, cur_prio : Prio, lambda : {"none", "idle", "task"}]

Asleep(t, w) == \E i \in 1 .. Len(sleep_queue[w]) : sleep_queue[w][i] = t
Created(t)   == system_tcb[t].lambda # "none"
-----------------------------------------------------------------------------
init_task(fun, prio) == [native_prio |-> prio, cur_prio |-> prio, lambda |-> fun]

(* system_tcb is in .bss: before anything is initialised a TCB is zero.    *)
zeroed_tcbs == [t \in TCB |-> [native_prio |-> 0, cur_prio |-> 0, lambda |-> "none"]]

(* sched_init prepares the idle task, and makes it runnable.               *)
sched_init_tcbs(tcbs) == [tcbs EXCEPT ![IDLE_PRIO] = init_task("idle", IDLE_PRIO)]
idle_not_queued(q)    == q                 \* mutant: forgets the idle task
sched_init_queue(q)   == runqueue_add(q, IDLE_PRIO, IDLE_PRIO)

(* Task i of the list, counted from 0, gets TCB and priority i + 1.        *)
allocate_tasks(tcbs, num_tasks) ==
    [t \in TCB |-> IF t \in 1 .. num_tasks THEN init_task("task", t) ELSE tcbs[t]]

(* A dispatch as the queue and the current TCB it leaves behind.           *)
take_highest(q) == [rq |-> runqueue_remove(q, highest_prio(q)),
                    cur_tcb |-> q.run_list[highest_prio(q)]]

dispatch_nosave(q) == take_highest(q)

(* The running task goes back to the queue after the search: it is never   *)
(* itself a candidate.                                                     *)
dispatch_save(q) ==
    [rq |-> runqueue_add(take_highest(q).rq, cur_tcb, system_tcb[cur_tcb].native_prio),
     cur_tcb |-> take_highest(q).cur_tcb]

(* Leaves the running task out of the queue; the caller has put it to      *)
(* sleep on an object.                                                     *)
dispatch_sleep == take_highest(rq)

get_cur_prio == system_tcb[cur_tcb].cur_prio

cur_prio == [t \in TCB |-> system_tcb[t].cur_prio]
-----------------------------------------------------------------------------
SchedTypeOK ==
    /\ system_tcb \in [TCB -> TcbType]
    /\ rq \in RunQueueType
    /\ cur_tcb \in TCB \cup {NULL}
    /\ sleep_queue \in [SleepQueues -> Seq(TCB)]
=============================================================================
