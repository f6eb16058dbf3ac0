------------------------------- MODULE Mutex --------------------------------
(***************************************************************************)
(* The mutexes of kernel/lock/mutex.c.                                     *)
(*                                                                         *)
(* The functions run with interrupts disabled and are single steps, with   *)
(* one exception: dispatch_sleep enables interrupts before it returns      *)
(* (ctx_switch.c:84), so that a task that slept in mutex_lock executes     *)
(* the two assignments at mutex.c:123-124 interruptibly.  A task between   *)
(* two such steps is at lock_flag or lock_holder.                          *)
(***************************************************************************)
EXTENDS Sched

VARIABLES gtMutex,        \* the mutexes, without their sleep queues
          pc,             \* where each task is: in user code or in mutex_lock
          arg,            \* the mutex of an unfinished mutex_lock
          held            \* the mutexes each task has locked and not unlocked,
                          \* going by the results its calls returned
mutexVars == <<gtMutex, pc, arg, held>>

MutexTypeOK ==
    /\ gtMutex \in [Mutex -> [bAvailable : BOOLEAN, bLock : BOOLEAN,
                              pHolding_Tcb : TCB \cup {NULL}]]
    /\ pc \in [TCB -> {"user", "lock_flag", "lock_holder"}]
    /\ arg \in [TCB -> Mutex \cup {NULL}]
    /\ \A t \in TCB : pc[t] # "user" => arg[t] \in Mutex
    /\ held \in [TCB -> SUBSET Mutex]

mutex_init == [m \in Mutex |-> [bAvailable |-> TRUE, bLock |-> FALSE,
                                pHolding_Tcb |-> NULL]]

(* A task that has the processor and executes its own code.  A dispatch    *)
(* that took the null pointer for a TCB leaves nothing able to run.        *)
InUserCode == /\ cur_tcb # NULL
              /\ system_tcb[cur_tcb].lambda = "task"
              /\ pc[cur_tcb] = "user"

Finish(next) == /\ rq' = next.rq
                /\ cur_tcb' = next.cur_tcb
-----------------------------------------------------------------------------
MutexCreate ==
    /\ InUserCode
    /\ \E j \in Mutex :
        /\ gtMutex[j].bAvailable
        /\ \A i \in 0 .. j - 1 : ~gtMutex[i].bAvailable
        /\ gtMutex' = [gtMutex EXCEPT ![j].bAvailable = FALSE]
    /\ UNCHANGED <<schedVars, pc, arg, held>>

MutexCreateRefused ==                                     \* -ENOMEM
    /\ InUserCode
    /\ \A j \in Mutex : ~gtMutex[j].bAvailable
    /\ UNCHANGED <<schedVars, mutexVars>>

(* Every other argument is answered with -EINVAL.                          *)
ValidMutex == {m \in Mutex : ~gtMutex[m].bAvailable}

MutexLockRefused(mutex) ==                                \* -EINVAL, -EDEADLOCK
    /\ InUserCode
    /\ mutex \in ValidMutex => gtMutex[mutex].pHolding_Tcb = cur_tcb
    /\ UNCHANGED <<schedVars, mutexVars>>

MayLock(mutex) == /\ InUserCode
                  /\ mutex \in ValidMutex
                  /\ gtMutex[mutex].pHolding_Tcb # cur_tcb

MutexLockFree(mutex) ==
    /\ MayLock(mutex)
    /\ ~gtMutex[mutex].bLock
    /\ gtMutex' = [gtMutex EXCEPT ![mutex].bLock = TRUE,
                                  ![mutex].pHolding_Tcb = cur_tcb]
    /\ held' = [held EXCEPT ![cur_tcb] = @ \cup {mutex}]
    /\ UNCHANGED <<schedVars, pc, arg>>

MutexLockSleep(mutex) ==
    /\ MayLock(mutex)
    /\ gtMutex[mutex].bLock
    /\ sleep_queue' = [sleep_queue EXCEPT ![MutexQueue(mutex)] = Append(@, cur_tcb)]
    /\ Finish(dispatch_sleep)
    /\ pc' = [pc EXCEPT ![cur_tcb] = "lock_flag"]
    /\ arg' = [arg EXCEPT ![cur_tcb] = mutex]
    /\ UNCHANGED <<system_tcb, gtMutex, held>>

(* The task runs again: mutex.c:123, whoever has the mutex by now.         *)
MutexLockFlag ==
    /\ cur_tcb # NULL
    /\ pc[cur_tcb] = "lock_flag"
    /\ gtMutex' = [gtMutex EXCEPT ![arg[cur_tcb]].bLock = TRUE]
    /\ pc' = [pc EXCEPT ![cur_tcb] = "lock_holder"]
    /\ UNCHANGED <<schedVars, arg, held>>

MutexLockHolder ==
    /\ cur_tcb # NULL
    /\ pc[cur_tcb] = "lock_holder"
    /\ gtMutex' = [gtMutex EXCEPT ![arg[cur_tcb]].pHolding_Tcb = cur_tcb]
    /\ held' = [held EXCEPT ![cur_tcb] = @ \cup {arg[cur_tcb]}]
    /\ pc' = [pc EXCEPT ![cur_tcb] = "user"]
    /\ arg' = [arg EXCEPT ![cur_tcb] = NULL]
    /\ UNCHANGED schedVars

MutexUnlockRefused(mutex) ==                              \* -EINVAL, -EPERM
    /\ InUserCode
    /\ mutex \in ValidMutex => gtMutex[mutex].pHolding_Tcb # cur_tcb
    /\ UNCHANGED <<schedVars, mutexVars>>

holder_kept(mut) == [mut EXCEPT !.bLock = FALSE]           \* mutant
released(mut)    == [mut EXCEPT !.bLock = FALSE, !.pHolding_Tcb = NULL]

still_linked(queue) == queue                               \* mutant
unlinked(queue)     == Tail(queue)

wake_nobody(w) == UNCHANGED <<rq, sleep_queue>>            \* mutant

wake_first(w) ==
    LET queue == sleep_queue[w]
    IN  \/ /\ queue = <<>>
           /\ UNCHANGED <<rq, sleep_queue>>
        \/ /\ queue # <<>>
           /\ sleep_queue' = [sleep_queue EXCEPT ![w] = unlinked(@)]
           /\ rq' = runqueue_add(rq, Head(queue), system_tcb[Head(queue)].cur_prio)

(* The first sleeper is made runnable.  It is not given the mutex, and the *)
(* caller keeps the processor.                                             *)
MutexUnlock(mutex) ==
    /\ InUserCode
    /\ mutex \in ValidMutex
    /\ gtMutex[mutex].pHolding_Tcb = cur_tcb
    /\ gtMutex' = [gtMutex EXCEPT ![mutex] = released(@)]
    /\ held' = [held EXCEPT ![cur_tcb] = @ \ {mutex}]
    /\ wake_first(MutexQueue(mutex))
    /\ UNCHANGED <<system_tcb, cur_tcb, pc, arg>>
=============================================================================
