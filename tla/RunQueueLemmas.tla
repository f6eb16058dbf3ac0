--------------------------- MODULE RunQueueLemmas ---------------------------
(***************************************************************************)
(* What the operators of RunQueue.tla preserve and return, for every size  *)
(* of the queue.                                                           *)
(***************************************************************************)
EXTENDS RunQueue, TLAPS

(* A priority is a group and a bit, and nothing else is lost by the shift  *)
(* and the mask.                                                           *)
LEMMA SplitPrio ==
    ASSUME NEW p \in Prio
    PROVE  group_of(p) \in Group /\ bit_of(p) \in Bit /\ p = 8 * group_of(p) + bit_of(p)
BY OSMaxTasksAssumption DEF Prio, Group, Bit, group_of, bit_of

LEMMA JoinPrio ==
    ASSUME NEW g \in Group, NEW b \in Bit
    PROVE  8 * g + b \in Prio /\ group_of(8 * g + b) = g /\ bit_of(8 * g + b) = b
BY OSMaxTasksAssumption DEF Prio, Group, Bit, group_of, bit_of

(* Every non-empty set of bits has a lowest one.                           *)
LEMMA LowestBit ==
    ASSUME NEW byte \in SUBSET Bit, byte # {}
    PROVE  /\ prio_unmap(byte) \in byte
           /\ \A b \in byte : prio_unmap(byte) <= b
<1>1. \E x \in byte : \A y \in byte : x <= y
  <2> SUFFICES ASSUME \A x \in byte : \E y \in byte : y < x
               PROVE  FALSE
    BY DEF Bit
  <2>0. 0 \notin byte  BY DEF Bit
  <2>1. 1 \notin byte  BY <2>0 DEF Bit
  <2>2. 2 \notin byte  BY <2>0, <2>1 DEF Bit
  <2>3. 3 \notin byte  BY <2>0, <2>1, <2>2 DEF Bit
  <2>4. 4 \notin byte  BY <2>0, <2>1, <2>2, <2>3 DEF Bit
  <2>5. 5 \notin byte  BY <2>0, <2>1, <2>2, <2>3, <2>4 DEF Bit
  <2>6. 6 \notin byte  BY <2>0, <2>1, <2>2, <2>3, <2>4, <2>5 DEF Bit
  <2>7. 7 \notin byte  BY <2>0, <2>1, <2>2, <2>3, <2>4, <2>5, <2>6 DEF Bit
  <2>8. PICK b \in byte : b \in 0 .. 7
    BY DEF Bit
  <2> QED
    BY <2>0, <2>1, <2>2, <2>3, <2>4, <2>5, <2>6, <2>7, <2>8
<1> QED
  BY <1>1 DEF prio_unmap

(* Adding a task takes its slot and no other, and keeps bitmap and slots   *)
(* in agreement.                                                           *)
LEMMA AddType ==
    ASSUME NEW rq \in RunQueueType, NEW tcb \in TCB, NEW prio \in Prio
    PROVE  /\ runqueue_add(rq, tcb, prio) \in RunQueueType
           /\ runqueue_add(rq, tcb, prio).run_list = [rq.run_list EXCEPT ![prio] = tcb]
BY SplitPrio DEF runqueue_add, RunQueueType

LEMMA AddKeepsBits ==
    ASSUME NEW rq \in RunQueueType, NEW tcb \in TCB, NEW prio \in Prio,
           BitsMatchSlots(rq)
    PROVE  BitsMatchSlots(runqueue_add(rq, tcb, prio))
<1> DEFINE new == runqueue_add(rq, tcb, prio)
<1>1. ASSUME NEW p \in Prio
      PROVE  new.run_list[p] # NULL <=> bit_of(p) \in new.run_bits[group_of(p)]
  <2>1. CASE p = prio
    BY <2>1, SplitPrio, NullAssumption DEF runqueue_add, RunQueueType
  <2>2. CASE p # prio
    <3>1. group_of(p) # group_of(prio) \/ bit_of(p) # bit_of(prio)
      BY <2>2, SplitPrio
    <3> QED
      BY <2>2, <3>1, SplitPrio DEF runqueue_add, RunQueueType, BitsMatchSlots
  <2> QED
    BY <2>1, <2>2
<1>2. ASSUME NEW g \in Group
      PROVE  g \in new.group_run_bits <=> new.run_bits[g] # {}
  BY SplitPrio DEF runqueue_add, RunQueueType, BitsMatchSlots
<1> QED
  BY <1>1, <1>2 DEF BitsMatchSlots

(* Removing a task empties its slot and no other, and keeps bitmap and     *)
(* slots in agreement.                                                     *)
LEMMA RemoveType ==
    ASSUME NEW rq \in RunQueueType, NEW prio \in Prio
    PROVE  /\ runqueue_remove(rq, prio) \in RunQueueType
           /\ runqueue_remove(rq, prio).run_list = [rq.run_list EXCEPT ![prio] = NULL]
BY SplitPrio DEF runqueue_remove, RunQueueType

LEMMA RemoveKeepsBits ==
    ASSUME NEW rq \in RunQueueType, NEW prio \in Prio, BitsMatchSlots(rq)
    PROVE  BitsMatchSlots(runqueue_remove(rq, prio))
<1> DEFINE new == runqueue_remove(rq, prio)
<1>1. ASSUME NEW p \in Prio
      PROVE  new.run_list[p] # NULL <=> bit_of(p) \in new.run_bits[group_of(p)]
  <2>1. CASE p = prio
    BY <2>1, SplitPrio DEF runqueue_remove, RunQueueType
  <2>2. CASE p # prio
    <3>1. group_of(p) # group_of(prio) \/ bit_of(p) # bit_of(prio)
      BY <2>2, SplitPrio
    <3> QED
      BY <2>2, <3>1, SplitPrio DEF runqueue_remove, RunQueueType, BitsMatchSlots
  <2> QED
    BY <2>1, <2>2
<1>2. ASSUME NEW g \in Group
      PROVE  g \in new.group_run_bits <=> new.run_bits[g] # {}
  BY SplitPrio DEF runqueue_remove, RunQueueType, BitsMatchSlots
<1> QED
  BY <1>1, <1>2 DEF BitsMatchSlots

(* highest_prio always names a slot; if anything is runnable, the slot is  *)
(* taken and no taken slot has a smaller number.                           *)
LEMMA HighestIsSlot ==
    ASSUME NEW rq \in RunQueueType, BitsMatchSlots(rq)
    PROVE  highest_prio(rq) \in Prio
<1>1. prio_unmap({}) = 0 /\ 0 \in Group /\ 0 \in Bit
  BY OSMaxTasksAssumption DEF prio_unmap, Group, Bit
<1>2. prio_unmap(rq.group_run_bits) \in Group
  <2>1. rq.group_run_bits \in SUBSET Bit
    BY OSMaxTasksAssumption DEF RunQueueType, Group, Bit
  <2> QED
    BY <1>1, <2>1, LowestBit DEF RunQueueType
<1>3. ASSUME NEW g \in Group
      PROVE  prio_unmap(rq.run_bits[g]) \in Bit
  BY <1>1, LowestBit DEF RunQueueType
<1> QED
  BY <1>2, <1>3, JoinPrio DEF highest_prio

LEMMA HighestIsMostUrgent ==
    ASSUME NEW rq \in RunQueueType, BitsMatchSlots(rq), Occupied(rq) # {}
    PROVE  /\ highest_prio(rq) \in Occupied(rq)
           /\ \A p \in Occupied(rq) : highest_prio(rq) <= p
<1> DEFINE g == prio_unmap(rq.group_run_bits)
           b == prio_unmap(rq.run_bits[g])
<1>1. PICK q \in Occupied(rq) : TRUE
  OBVIOUS
<1>2. ASSUME NEW p \in Occupied(rq)
      PROVE  /\ p \in Prio
             /\ bit_of(p) \in rq.run_bits[group_of(p)]
             /\ group_of(p) \in rq.group_run_bits
  BY SplitPrio DEF Occupied, BitsMatchSlots
<1>3. /\ g \in rq.group_run_bits
      /\ \A h \in rq.group_run_bits : g <= h
  <2>1. rq.group_run_bits \in SUBSET Bit
    BY OSMaxTasksAssumption DEF RunQueueType, Group, Bit
  <2>2. rq.group_run_bits # {}
    BY <1>1, <1>2
  <2> QED
    BY <2>1, <2>2, LowestBit
<1>4. g \in Group /\ rq.run_bits[g] # {} /\ rq.run_bits[g] \in SUBSET Bit
  BY <1>3 DEF RunQueueType, BitsMatchSlots
<1>5. /\ b \in rq.run_bits[g]
      /\ \A c \in rq.run_bits[g] : b <= c
  BY <1>4, LowestBit
<1>6. highest_prio(rq) = 8 * g + b
  BY DEF highest_prio
<1>7. b \in Bit
  BY <1>4, <1>5
<1>8. highest_prio(rq) \in Occupied(rq)
  BY <1>4, <1>5, <1>6, <1>7, JoinPrio DEF Occupied, BitsMatchSlots
<1>9. ASSUME NEW p \in Occupied(rq)
      PROVE  highest_prio(rq) <= p
  <2>1. /\ p = 8 * group_of(p) + bit_of(p)
        /\ group_of(p) \in Group
        /\ bit_of(p) \in Bit
    BY <1>2, SplitPrio
  <2>2. g <= group_of(p)
    BY <1>2, <1>3
  <2>3. CASE g = group_of(p)
    BY <1>2, <1>4, <1>5, <1>6, <1>7, <2>1, <2>3 DEF Bit, Group
  <2>4. CASE g # group_of(p)
    BY <1>4, <1>6, <1>7, <2>1, <2>2, <2>4 DEF Bit, Group
  <2> QED
    BY <2>3, <2>4
<1> QED
  BY <1>8, <1>9

(* runqueue_add_all is the loop of runqueue_add: nothing for no tasks, and *)
(* one more turn for one more task, whichever comes last.                  *)
LEMMA AddAllOfNone ==
    ASSUME NEW rq \in RunQueueType, NEW prio
    PROVE  runqueue_add_all(rq, {}, prio) = rq
BY DEF runqueue_add_all, RunQueueType

LEMMA AddAllIsTheLoop ==
    ASSUME NEW rq \in RunQueueType, NEW tasks \in SUBSET TCB, NEW tcb \in TCB,
           NEW prio \in [TCB -> Prio],
           \A t, u \in tasks \cup {tcb} : prio[t] = prio[u] => t = u
    PROVE  runqueue_add_all(rq, tasks \cup {tcb}, prio) =
               runqueue_add(runqueue_add_all(rq, tasks, prio), tcb, prio[tcb])
<1> DEFINE more == tasks \cup {tcb}
           all  == runqueue_add_all(rq, more, prio)
           one  == runqueue_add_all(rq, tasks, prio)
           step == runqueue_add(one, tcb, prio[tcb])
<1>1. ASSUME NEW p \in Prio
      PROVE  all.run_list[p] = step.run_list[p]
  <2>1. CASE p = prio[tcb]
    BY <2>1 DEF runqueue_add_all, runqueue_add
  <2>2. CASE p # prio[tcb]
    <3>1. \A t \in more : prio[t] = p <=> t \in tasks /\ prio[t] = p
      BY <2>2
    <3>2. (\E t \in more : prio[t] = p) <=> (\E t \in tasks : prio[t] = p)
      BY <3>1
    <3>3. step.run_list[p] = one.run_list[p]
      BY <2>2 DEF runqueue_add_all, runqueue_add
    <3>4. ASSUME \E t \in more : prio[t] = p
          PROVE  (CHOOSE t \in more : prio[t] = p) = (CHOOSE t \in tasks : prio[t] = p)
      BY <3>1, <3>2, <3>4
    <3> QED
      BY <3>2, <3>3, <3>4 DEF runqueue_add_all
  <2> QED
    BY <2>1, <2>2
<1>2. ASSUME NEW g \in Group
      PROVE  all.run_bits[g] = step.run_bits[g]
  BY SplitPrio DEF runqueue_add_all, runqueue_add
<1>3. all.group_run_bits = step.group_run_bits
  BY DEF runqueue_add_all, runqueue_add
<1>4. /\ all = [run_list |-> all.run_list, run_bits |-> all.run_bits,
                group_run_bits |-> all.group_run_bits]
      /\ all.run_list = [p \in Prio |-> all.run_list[p]]
      /\ all.run_bits = [g \in Group |-> all.run_bits[g]]
  BY DEF runqueue_add_all
<1>5. /\ step = [run_list |-> step.run_list, run_bits |-> step.run_bits,
                 group_run_bits |-> step.group_run_bits]
      /\ step.run_list = [p \in Prio |-> step.run_list[p]]
      /\ step.run_bits = [g \in Group |-> step.run_bits[g]]
  BY DEF runqueue_add_all, runqueue_add
<1> HIDE DEF all, step
<1>6. all.run_list = step.run_list /\ all.run_bits = step.run_bits
  BY <1>1, <1>2, <1>4, <1>5
<1>7. all = step
  BY <1>3, <1>4, <1>5, <1>6
<1> QED
  BY <1>7 DEF all, step

LEMMA AddAllType ==
    ASSUME NEW rq \in RunQueueType, NEW tasks \in SUBSET TCB,
           NEW prio, \A t \in tasks : prio[t] \in Prio
    PROVE  runqueue_add_all(rq, tasks, prio) \in RunQueueType
<1> DEFINE new == runqueue_add_all(rq, tasks, prio)
<1>1. ASSUME NEW p \in Prio
      PROVE  new.run_list[p] \in TCB \cup {NULL}
  <2>1. CASE \E t \in tasks : prio[t] = p
    BY <2>1 DEF runqueue_add_all
  <2>2. CASE ~ \E t \in tasks : prio[t] = p
    BY <2>2 DEF runqueue_add_all, RunQueueType
  <2> QED
    BY <2>1, <2>2
<1>2. ASSUME NEW g \in Group
      PROVE  new.run_bits[g] \in SUBSET Bit
  BY SplitPrio DEF runqueue_add_all, RunQueueType
<1>3. new.group_run_bits \in SUBSET Group
  BY SplitPrio DEF runqueue_add_all, RunQueueType
<1> QED
  BY <1>1, <1>2, <1>3 DEF runqueue_add_all, RunQueueType

LEMMA AddAllKeepsBits ==
    ASSUME NEW rq \in RunQueueType, NEW tasks \in SUBSET TCB,
           NEW prio, \A t \in tasks : prio[t] \in Prio, BitsMatchSlots(rq)
    PROVE  BitsMatchSlots(runqueue_add_all(rq, tasks, prio))
<1> DEFINE new == runqueue_add_all(rq, tasks, prio)
<1>1. ASSUME NEW p \in Prio
      PROVE  new.run_list[p] # NULL <=> bit_of(p) \in new.run_bits[group_of(p)]
  <2>1. CASE \E t \in tasks : prio[t] = p
    <3>1. new.run_list[p] # NULL
      BY <2>1, NullAssumption DEF runqueue_add_all
    <3>2. bit_of(p) \in new.run_bits[group_of(p)]
      BY <2>1, SplitPrio DEF runqueue_add_all
    <3> QED
      BY <3>1, <3>2
  <2>2. CASE ~ \E t \in tasks : prio[t] = p
    <3>1. new.run_list[p] = rq.run_list[p]
      BY <2>2 DEF runqueue_add_all
    <3>2. \A t \in tasks : group_of(prio[t]) = group_of(p) => bit_of(prio[t]) # bit_of(p)
      BY <2>2, SplitPrio
    <3>3. bit_of(p) \in new.run_bits[group_of(p)] <=> bit_of(p) \in rq.run_bits[group_of(p)]
      BY <3>2, SplitPrio DEF runqueue_add_all
    <3> QED
      BY <3>1, <3>3 DEF BitsMatchSlots
  <2> QED
    BY <2>1, <2>2
<1>2. ASSUME NEW g \in Group
      PROVE  g \in new.group_run_bits <=> new.run_bits[g] # {}
  BY SplitPrio DEF runqueue_add_all, RunQueueType, BitsMatchSlots
<1> QED
  BY <1>1, <1>2 DEF BitsMatchSlots

LEMMA EmptyQueueOK == runqueue_init \in RunQueueType /\ BitsMatchSlots(runqueue_init)
BY SplitPrio DEF runqueue_init, RunQueueType, BitsMatchSlots
=============================================================================
