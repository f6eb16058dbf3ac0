--------------------------- MODULE AbsSleepQueue ----------------------------
(***************************************************************************)
(* Queues of sleeping tasks as plain sequences: what Sched.tla and the     *)
(* modules on top of it take the linked lists of the code for.             *)
(***************************************************************************)
EXTENDS Sequences, FiniteSets, Integers

CONSTANTS TCB, MutexQueues, DeviceQueues

VARIABLES queue,     \* the tasks asleep on each object
          woken      \* the tasks that the last call made runnable, in order

Queues == MutexQueues \cup DeviceQueues
Free(t) == \A q \in Queues : \A i \in 1 .. Len(queue[q]) : queue[q][i] # t

Init == /\ queue = [q \in Queues |-> <<>>]
        /\ woken = <<>>

SleepLast(t, q) == /\ Free(t)
                   /\ queue' = [queue EXCEPT ![q] = Append(@, t)]
                   /\ woken' = <<>>

SleepFirst(t, q) == /\ Free(t)
                    /\ queue' = [queue EXCEPT ![q] = <<t>> \o @]
                    /\ woken' = <<>>

WakeFirst(q) == /\ queue[q] # <<>>
                /\ queue' = [queue EXCEPT ![q] = Tail(@)]
                /\ woken' = <<Head(queue[q])>>

WakeAll(q) == /\ queue' = [queue EXCEPT ![q] = <<>>]
              /\ woken' = queue[q]

Next == \/ \E q \in DeviceQueues : WakeAll(q)
        \/ \E q \in MutexQueues : WakeFirst(q)
        \/ \E t \in TCB, q \in MutexQueues : SleepLast(t, q)
        \/ \E t \in TCB, q \in DeviceQueues : SleepFirst(t, q)

Spec == Init /\ [][Next]_<<queue, woken>>
=============================================================================
