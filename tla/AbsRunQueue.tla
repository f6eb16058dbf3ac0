---------------------------- MODULE AbsRunQueue -----------------------------
(***************************************************************************)
(* What the run queue promises its callers: a table with at most one task  *)
(* per priority from which the most urgent task, the one with the smallest *)
(* number, can be taken.  No bitmap, no groups.                            *)
(***************************************************************************)
EXTENDS Integers

CONSTANTS Prio, TCB, NULL

VARIABLES queue,    \* the task waiting at each priority, or NULL
          last      \* the last call and the task it returned

Init == /\ queue = [p \in Prio |-> NULL]
        /\ last = [call |-> "init", tcb |-> NULL]

Add(t, p) == /\ queue[p] = NULL
             /\ queue' = [queue EXCEPT ![p] = t]
             /\ last' = [call |-> "add", tcb |-> NULL]

Remove(p) == /\ queue' = [queue EXCEPT ![p] = NULL]
             /\ last' = [call |-> "remove", tcb |-> queue[p]]

TakeMostUrgent(p) ==
    /\ queue[p] # NULL
    /\ \A r \in Prio : queue[r] # NULL => p <= r
    /\ queue' = [queue EXCEPT ![p] = NULL]
    /\ last' = [call |-> "take", tcb |-> queue[p]]

TakeFromEmpty ==
    /\ \A p \in Prio : queue[p] = NULL
    /\ last' = [call |-> "take", tcb |-> NULL]
    /\ UNCHANGED queue

Next == \/ \E t \in TCB, p \in Prio : Add(t, p)
        \/ \E p \in Prio : Remove(p) \/ TakeMostUrgent(p)
        \/ TakeFromEmpty

Spec == Init /\ [][Next]_<<queue, last>>
=============================================================================
