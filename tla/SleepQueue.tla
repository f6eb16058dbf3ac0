----------------------------- MODULE SleepQueue -----------------------------
(***************************************************************************)
(* The intrusive lists of sleeping tasks.  Every TCB has one link field,   *)
(* sleep_queue, and every mutex and device one head pointer; the pointer   *)
(* operations are spread over mutex_lock, mutex_unlock, dev_wait and       *)
(* dev_update.  The two loops take a step per turn; interrupts are off, so *)
(* that nothing comes between their turns.  A task goes to sleep only      *)
(* while it runs, and a running task is on no list (Kernel!OnePlace): this *)
(* is the precondition of the two operations that link a TCB in.           *)
(***************************************************************************)
EXTENDS Tcb, Sequences, FiniteSets, Integers

CONSTANTS MutexQueues, DeviceQueues
ASSUME TCBAssumption   == IsFiniteSet(TCB)
ASSUME QueueAssumption == MutexQueues \cap DeviceQueues = {}

VARIABLES head,      \* pSleep_queue of a mutex, sleep_queue of a device
          link,      \* tcb->sleep_queue
          loop,      \* the call that is in its loop, with its local variables
          woken      \* the TCBs given to runqueue_add by the last call
vars == <<head, link, loop, woken>>

Queues == MutexQueues \cup DeviceQueues
Pointer == TCB \cup {NULL}

(* A sequence of TCBs is the list at a head pointer p: the head leads to   *)
(* the first, each links to the next, and the last to nothing.             *)
IsList(s, p, l) ==
    /\ p = IF s = <<>> THEN NULL ELSE s[1]
    /\ \A i \in 1 .. Len(s) : l[s[i]] = IF i = Len(s) THEN NULL ELSE s[i + 1]

ListOfTCB == UNION {[1 .. n -> TCB] : n \in 0 .. Cardinality(TCB)}
List(q)   == CHOOSE s \in ListOfTCB : IsList(s, head[q], link)

OnNoList(t) == \A q \in Queues : \A i \in 1 .. Len(List(q)) : List(q)[i] # t

NoLoop              == [in |-> "none"]
WalkOf(t, q, s, p)  == [in |-> "mutex_lock", cur_tcb |-> t, queue |-> q, sleep_tcb |-> s, tmp_tcb |-> p]
DrainOf(q, given)   == [in |-> "dev_update", queue |-> q, given |-> given]

Init == /\ head = [q \in Queues |-> NULL]
        /\ link = [t \in TCB |-> NULL]
        /\ loop = NoLoop
        /\ woken = <<>>

AtRest == loop = NoLoop
-----------------------------------------------------------------------------
MutexLockSleep(t, q) ==
    /\ AtRest /\ OnNoList(t)
    /\ \/ /\ head[q] = NULL
          /\ head' = [head EXCEPT ![q] = t]
          /\ link' = [link EXCEPT ![t] = NULL]
          /\ woken' = <<>>
          /\ UNCHANGED loop
       \/ /\ head[q] # NULL
          /\ loop' = WalkOf(t, q, head[q], NULL)
          /\ UNCHANGED <<head, link, woken>>

turn_stays ==                                 \* mutant: does not go on to the next
    /\ loop.in = "mutex_lock"
    /\ loop.sleep_tcb # NULL
    /\ loop' = [loop EXCEPT !.tmp_tcb = loop.sleep_tcb]
    /\ UNCHANGED <<head, link, woken>>

(* while (sleep_tcb != NULL): look for the last sleeper.                   *)
MutexLockTurn ==
    /\ loop.in = "mutex_lock"
    /\ loop.sleep_tcb # NULL
    /\ loop' = [loop EXCEPT !.tmp_tcb = loop.sleep_tcb, !.sleep_tcb = link[loop.sleep_tcb]]
    /\ UNCHANGED <<head, link, woken>>

links_second ==                               \* mutant: links behind the first sleeper
    /\ loop.in = "mutex_lock"
    /\ loop.sleep_tcb = NULL
    /\ link' = [link EXCEPT ![head[loop.queue]] = loop.cur_tcb, ![loop.cur_tcb] = NULL]
    /\ loop' = NoLoop
    /\ woken' = <<>>
    /\ UNCHANGED head

MutexLockLinks ==
    /\ loop.in = "mutex_lock"
    /\ loop.sleep_tcb = NULL
    /\ link' = [link EXCEPT ![loop.tmp_tcb] = loop.cur_tcb, ![loop.cur_tcb] = NULL]
    /\ loop' = NoLoop
    /\ woken' = <<>>
    /\ UNCHANGED head

unlock_unguarded(q) ==                        \* mutant: no test for an empty list
    /\ AtRest
    /\ head' = [head EXCEPT ![q] = IF @ = NULL THEN NULL ELSE link[@]]
    /\ link' = [t \in TCB |-> IF t = head[q] THEN NULL ELSE link[t]]
    /\ woken' = <<head[q]>>
    /\ UNCHANGED loop

unlock_keeps_link(q) ==                       \* mutant: the woken TCB still links on
    /\ AtRest
    /\ head[q] # NULL
    /\ head' = [head EXCEPT ![q] = link[head[q]]]
    /\ woken' = <<head[q]>>
    /\ UNCHANGED <<link, loop>>

MutexUnlock(q) ==
    /\ AtRest
    /\ head[q] # NULL
    /\ head' = [head EXCEPT ![q] = link[head[q]]]
    /\ link' = [link EXCEPT ![head[q]] = NULL]
    /\ woken' = <<head[q]>>
    /\ UNCHANGED loop

DevWait(t, q) ==
    /\ AtRest /\ OnNoList(t)
    /\ link' = [link EXCEPT ![t] = head[q]]
    /\ head' = [head EXCEPT ![q] = t]
    /\ woken' = <<>>
    /\ UNCHANGED loop

DevUpdate(q) ==
    /\ AtRest
    /\ loop' = DrainOf(q, <<>>)
    /\ UNCHANGED <<head, link, woken>>

(* while (devices[i].sleep_queue != NULL): wake the first and unlink it.   *)
DevUpdateTurn ==
    /\ loop.in = "dev_update"
    /\ LET q == loop.queue
       IN  /\ head[q] # NULL
           /\ loop' = [loop EXCEPT !.given = Append(@, head[q])]
           /\ head' = [head EXCEPT ![q] = link[head[q]]]
           /\ link' = [link EXCEPT ![head[q]] = NULL]
    /\ UNCHANGED woken

DevUpdateEnds ==
    /\ loop.in = "dev_update"
    /\ head[loop.queue] = NULL
    /\ loop' = NoLoop
    /\ woken' = loop.given
    /\ UNCHANGED <<head, link>>

Next == \/ \E t \in TCB, q \in MutexQueues : MutexLockSleep(t, q)
        \/ MutexLockTurn \/ MutexLockLinks
        \/ \E q \in MutexQueues : MutexUnlock(q)
        \/ \E t \in TCB, q \in DeviceQueues : DevWait(t, q)
        \/ \E q \in DeviceQueues : DevUpdate(q)
        \/ DevUpdateTurn \/ DevUpdateEnds

LoopStep == MutexLockTurn \/ MutexLockLinks \/ DevUpdateTurn \/ DevUpdateEnds

Spec == Init /\ [][Next]_vars /\ WF_vars(LoopStep)
-----------------------------------------------------------------------------
TypeOK == /\ head \in [Queues -> Pointer]
          /\ link \in [TCB -> Pointer]
          /\ loop \in {NoLoop}
                 \cup {WalkOf(t, q, s, p) : t \in TCB, q \in MutexQueues, s \in Pointer, p \in Pointer}
                 \cup {DrainOf(q, given) : q \in DeviceQueues, given \in ListOfTCB}
          /\ woken \in Seq(TCB)

(* No TCB is linked from two places, so that no operation on one list can  *)
(* cut or join another; a task that sleeps nowhere is linked from nowhere  *)
(* and links to nothing.                                                   *)
Disjoint ==
    /\ \A q, r \in Queues : head[q] # NULL /\ head[q] = head[r] => q = r
    /\ \A t, u \in TCB : link[t] # NULL /\ link[t] = link[u] => t = u
    /\ \A t \in TCB, q \in Queues : link[t] # NULL => link[t] # head[q]
    /\ \A t \in TCB : OnNoList(t) => link[t] = NULL /\ \A u \in TCB : link[u] # t

(* mutex.c:108-113 and device.c:93-98: no list has a cycle, so that the    *)
(* loop of the call that walks or drains it ends.                          *)
LoopsEnd == [](loop # NoLoop => <>(loop = NoLoop))

(* The lists implement the sequences of AbsSleepQueue.tla: first in, first *)
(* out on a mutex, everyone at once on a device, nobody dropped.  What     *)
(* dev_update has taken off a list is still asleep until it is done.       *)
Asleep(q) == IF loop.in = "dev_update" /\ loop.queue = q THEN loop.given \o List(q) ELSE List(q)
Abs == INSTANCE AbsSleepQueue WITH queue <- [q \in Queues |-> Asleep(q)]
ListsAreSequences == Abs!Spec
=============================================================================
