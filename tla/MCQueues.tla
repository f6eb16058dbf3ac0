------------------------------ MODULE MCQueues ------------------------------
(***************************************************************************)
(* The two data structures under the scheduler, in one model: the run      *)
(* queue of RunQueueSpec.tla and the sleep queues of SleepQueue.tla.       *)
(* Neither reads the other, so a behaviour exercises one of them while the *)
(* other stands in its initial state.                                      *)
(*                                                                         *)
(* The run queue has the real 64 priorities; the ones used fill the first  *)
(* group, so that every value of a byte indexes prio_unmap_table, and      *)
(* reach into the second and the last group.                               *)
(***************************************************************************)
EXTENDS RunQueueSpec, SleepQueue

MCCallerPrio == (0 .. 7) \cup {8, 63}

QueuesInit == RQInit /\ Init

RunQueueMoves   == RQNext /\ Init /\ UNCHANGED vars
SleepQueueMoves == Next /\ RQInit /\ UNCHANGED rqVars
QueuesNext      == RunQueueMoves \/ SleepQueueMoves

QueuesSpec == QueuesInit /\ [][QueuesNext]_<<rqVars, vars>> /\ WF_vars(LoopStep)
=============================================================================
