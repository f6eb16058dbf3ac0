------------------------------ MODULE RunQueue ------------------------------
(***************************************************************************)
(* The run queue of kernel/sched/run_queue.c as pure operators on a        *)
(* record: the slot table run_list, and the two-level bitmap (run_bits,    *)
(* one byte per group of eight priorities, and group_run_bits, one byte    *)
(* for the groups) that the priority search reads instead of the slots.    *)
(*                                                                         *)
(* A byte is the set of the numbers of its high bits; RunQueueBytes.tla    *)
(* checks that the code's shifts and masks on bytes do the same.  A        *)
(* function of the C file that changes the queue is an operator that       *)
(* returns the new queue; the components that call it prime the result.    *)
(***************************************************************************)
EXTENDS Tcb, Integers, FiniteSets

CONSTANT OS_MAX_TASKS     \* number of priorities, one run-queue slot each

(* config.h:25: at least 8 and at most 64, and run_bits has OS_MAX_TASKS/8 *)
(* bytes, so that every priority has a bit only for a multiple of 8.       *)
ASSUME OSMaxTasksAssumption == OS_MAX_TASKS \in {8 * g : g \in 1..8}

Prio  == 0 .. OS_MAX_TASKS - 1
Group == 0 .. (OS_MAX_TASKS \div 8) - 1
Bit   == 0 .. 7                          \* bit positions of a uint8_t

RunQueueType == [run_list       : [Prio -> TCB \cup {NULL}],
                 run_bits       : [Group -> SUBSET Bit],
                 group_run_bits : SUBSET Group]

group_of(p) == p \div 8                  \* prio >> SHIFT
bit_of(p)   == p % 8                     \* prio & POSITION_MASK

runqueue_init == [run_list       |-> [p \in Prio |-> NULL],
                  run_bits       |-> [g \in Group |-> {}],
                  group_run_bits |-> {}]

(* The slot is overwritten whatever it held, as in the code.               *)
runqueue_add(rq, tcb, prio) ==
    [run_list       |-> [rq.run_list EXCEPT ![prio] = tcb],
     run_bits       |-> [rq.run_bits EXCEPT ![group_of(prio)] = @ \cup {bit_of(prio)}],
     group_run_bits |-> rq.group_run_bits \cup {group_of(prio)}]

(* Mutant: the group bit is cleared although a sibling is runnable.        *)
remove_clears_group(rq, prio) ==
    [run_list       |-> [rq.run_list EXCEPT ![prio] = NULL],
     run_bits       |-> [rq.run_bits EXCEPT ![group_of(prio)] = @ \ {bit_of(prio)}],
     group_run_bits |-> rq.group_run_bits \ {group_of(prio)}]

(* The queue after the removal; the function returns rq.run_list[prio].    *)
runqueue_remove(rq, prio) ==
    LET bits == rq.run_bits[group_of(prio)] \ {bit_of(prio)}
    IN  [run_list       |-> [rq.run_list EXCEPT ![prio] = NULL],
         run_bits       |-> [rq.run_bits EXCEPT ![group_of(prio)] = bits],
         group_run_bits |-> IF bits = {} THEN rq.group_run_bits \ {group_of(prio)}
                                         ELSE rq.group_run_bits]

(* Mutant: position of the highest high bit.                               *)
unmap_highest(byte) ==
    IF byte = {} THEN 0 ELSE CHOOSE b \in byte : \A c \in byte : b >= c

(* prio_unmap_table: position of the lowest high bit.  Entry 0 is 0: the   *)
(* table cannot tell a byte without high bits from one with bit 0 high.    *)
prio_unmap(byte) ==
    IF byte = {} THEN 0 ELSE CHOOSE b \in byte : \A c \in byte : b <= c

highest_prio(rq) ==
    LET group_num == prio_unmap(rq.group_run_bits)
    IN  8 * group_num + prio_unmap(rq.run_bits[group_num])

-----------------------------------------------------------------------------
(* What a loop of runqueue_add over the TCBs of tasks leaves behind when   *)
(* their priorities differ, in whatever order the loop takes them: the     *)
(* drain loop of dev_update and the start-up loop that makes tasks         *)
(* runnable.  RunQueueProofs!AddAllIsTheLoop relates it to one more turn   *)
(* of the loop.                                                            *)
runqueue_add_all(rq, tasks, prio) ==
    [run_list |-> [p \in Prio |->
         IF \E t \in tasks : prio[t] = p
         THEN CHOOSE t \in tasks : prio[t] = p ELSE rq.run_list[p]],
     run_bits |-> [g \in Group |->
         rq.run_bits[g] \cup {bit_of(prio[t]) : t \in {u \in tasks : group_of(prio[u]) = g}}],
     group_run_bits |-> rq.group_run_bits \cup {group_of(prio[t]) : t \in tasks}]

-----------------------------------------------------------------------------
Occupied(rq) == {p \in Prio : rq.run_list[p] # NULL}

(* The three structures say the same: a bit is high exactly when its slot  *)
(* is taken, a group bit exactly when a bit of its group is high.          *)
BitsMatchSlots(rq) ==
    /\ \A p \in Prio : rq.run_list[p] # NULL <=> bit_of(p) \in rq.run_bits[group_of(p)]
    /\ \A g \in Group : g \in rq.group_run_bits <=> rq.run_bits[g] # {}
=============================================================================
