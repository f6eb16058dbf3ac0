---------------------------- MODULE RunQueueSpec ----------------------------
(***************************************************************************)
(* The run queue on its own, driven by calls its interface allows.  Only   *)
(* callers that keep to the documented contract of runqueue_add (the slot  *)
(* of that priority is empty, run_queue.c:76-78) are admitted; Kernel.tla  *)
(* shows that the kernel is such a caller.                                 *)
(***************************************************************************)
EXTENDS RunQueue

CONSTANTS CallerTCB,      \* bounds: the TCBs and the priorities the
          CallerPrio      \* callers use, as far as they exist
UsedTCB  == CallerTCB \cap TCB
UsedPrio == CallerPrio \cap Prio

VARIABLES rq,      \* run_list, run_bits and group_run_bits
          last     \* the last call and the TCB it returned
rqVars == <<rq, last>>

RQInit == /\ rq = runqueue_init
          /\ last = [call |-> "init", tcb |-> NULL]

Add(tcb, prio) == /\ rq.run_list[prio] = NULL
                  /\ rq' = runqueue_add(rq, tcb, prio)
                  /\ last' = [call |-> "add", tcb |-> NULL]

Remove(prio) == /\ rq' = runqueue_remove(rq, prio)
                /\ last' = [call |-> "remove", tcb |-> rq.run_list[prio]]

(* runqueue_remove(highest_prio()), the first half of every dispatch.      *)
TakeHighest == LET prio == highest_prio(rq)
               IN  /\ rq' = runqueue_remove(rq, prio)
                   /\ last' = [call |-> "take", tcb |-> rq.run_list[prio]]

RQNext == \/ \E tcb \in UsedTCB, prio \in UsedPrio : Add(tcb, prio)
          \/ \E prio \in UsedPrio : Remove(prio)
          \/ TakeHighest

RQSpec == RQInit /\ [][RQNext]_rqVars
-----------------------------------------------------------------------------
RQTypeOK == /\ rq \in RunQueueType
            /\ last \in [call : {"init", "add", "remove", "take"}, tcb : TCB \cup {NULL}]

(* run_queue.c:21-31: the bitmap and the slot table never drift apart,     *)
(* whatever the order of additions and removals: a group bit is not        *)
(* cleared while a sibling of the removed task is still runnable, and is   *)
(* cleared with the last one.                                              *)
Consistent == BitsMatchSlots(rq)

(* run_queue.c:117-120: as long as something is runnable, the two table    *)
(* look-ups find a taken slot, and no taken slot has a smaller number.     *)
SearchFindsMostUrgent ==
    Occupied(rq) # {} =>
        /\ highest_prio(rq) \in Occupied(rq)
        /\ \A p \in Occupied(rq) : highest_prio(rq) <= p

(* The two-level queue implements the plain table of AbsRunQueue.tla.      *)
Table == INSTANCE AbsRunQueue WITH queue <- rq.run_list
ImplementsTable == Table!Spec

(* The queue as the code keeps it.                                         *)
B == INSTANCE RunQueueBytes
Bytes(queue) == [run_list       |-> queue.run_list,
                 run_bits       |-> [g \in Group |-> B!byte(queue.run_bits[g])],
                 group_run_bits |-> B!byte(queue.group_run_bits)]

(* run_queue.c:85-87, 106-111, 125-129: on every queue the bytes go        *)
(* through the steps of the sets.  The masks set and clear the intended    *)
(* bit and no other, and the 256 hand-written entries of the table return  *)
(* the lowest high bit.                                                    *)
BytesImplementSets ==
    /\ B!highest_prio(Bytes(rq)) = highest_prio(rq)
    /\ \A p \in UsedPrio :
         /\ B!runqueue_remove(Bytes(rq), p) = Bytes(runqueue_remove(rq, p))
         /\ \A t \in UsedTCB : B!runqueue_add(Bytes(rq), t, p) = Bytes(runqueue_add(rq, t, p))
=============================================================================
