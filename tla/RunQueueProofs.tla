--------------------------- MODULE RunQueueProofs ---------------------------
(***************************************************************************)
(* Theorems about the run queue on its own, for every size of the queue,   *)
(* every set of tasks and every sequence of calls.                         *)
(***************************************************************************)
EXTENDS RunQueueSpec, RunQueueLemmas

Inv == RQTypeOK /\ Consistent

LEMMA InitInv == RQInit => Inv
BY EmptyQueueOK DEF RQInit, Inv, RQTypeOK, Consistent

LEMMA NextInv == Inv /\ [RQNext]_rqVars => Inv'
<1> SUFFICES ASSUME Inv, [RQNext]_rqVars
             PROVE  Inv'
  OBVIOUS
<1> USE DEF Inv, RQTypeOK, Consistent
<1>1. ASSUME NEW tcb \in UsedTCB, NEW prio \in UsedPrio, Add(tcb, prio)
      PROVE  Inv'
  <2>1. tcb \in TCB /\ prio \in Prio /\ rq' = runqueue_add(rq, tcb, prio)
    BY <1>1 DEF Add, UsedTCB, UsedPrio
  <2>2. rq' \in RunQueueType /\ BitsMatchSlots(rq')
    BY <2>1, AddType, AddKeepsBits
  <2> QED
    BY <1>1, <2>2 DEF Add
<1>2. ASSUME NEW prio \in UsedPrio, Remove(prio)
      PROVE  Inv'
  <2>1. prio \in Prio /\ rq' = runqueue_remove(rq, prio)
    BY <1>2 DEF Remove, UsedPrio
  <2>2. rq' \in RunQueueType /\ BitsMatchSlots(rq')
    BY <2>1, RemoveType, RemoveKeepsBits
  <2> QED
    BY <1>2, <2>1, <2>2 DEF Remove, RunQueueType
<1>3. CASE TakeHighest
  BY <1>3, HighestIsSlot, RemoveType, RemoveKeepsBits DEF TakeHighest, RunQueueType
<1>4. CASE UNCHANGED rqVars
  BY <1>4 DEF rqVars, BitsMatchSlots
<1> QED
  BY <1>1, <1>2, <1>3, <1>4 DEF RQNext

(* The bitmaps keep to their groups and the slots to task control blocks.  *)
THEOREM TypeCorrect == RQSpec => []RQTypeOK
BY InitInv, NextInv, PTL DEF RQSpec, Inv

(* The bitmap never disagrees with the slots.                              *)
THEOREM AlwaysConsistent == RQSpec => []Consistent
BY InitInv, NextInv, PTL DEF RQSpec, Inv

(* As long as anything is runnable, the search finds the most urgent.      *)
THEOREM SearchCorrect == RQSpec => []SearchFindsMostUrgent
<1>1. Inv => SearchFindsMostUrgent
  BY HighestIsMostUrgent DEF Inv, RQTypeOK, Consistent, SearchFindsMostUrgent
<1> QED
  BY <1>1, InitInv, NextInv, PTL DEF RQSpec

(* The two-level bitmap queue implements the plain table.                  *)
THEOREM Implementation == RQSpec => ImplementsTable
<1>1. RQInit => Table!Init
  BY DEF RQInit, Table!Init, runqueue_init
<1>2. Inv /\ [RQNext]_rqVars => [Table!Next]_<<rq.run_list, last>>
  <2> SUFFICES ASSUME Inv, [RQNext]_rqVars
               PROVE  [Table!Next]_<<rq.run_list, last>>
    OBVIOUS
  <2> USE DEF Inv, RQTypeOK, Consistent
  <2>1. ASSUME NEW tcb \in UsedTCB, NEW prio \in UsedPrio, Add(tcb, prio)
        PROVE  Table!Add(tcb, prio)
    BY <2>1, AddType DEF Add, Table!Add, UsedTCB, UsedPrio
  <2>2. ASSUME NEW prio \in UsedPrio, Remove(prio)
        PROVE  Table!Remove(prio)
    BY <2>2, RemoveType DEF Remove, Table!Remove, UsedPrio
  <2>3. ASSUME TakeHighest
        PROVE  Table!TakeFromEmpty \/ \E p \in Prio : Table!TakeMostUrgent(p)
    <3>1. highest_prio(rq) \in Prio
      BY HighestIsSlot
    <3>2. CASE Occupied(rq) = {}
      <4>1. rq'.run_list = rq.run_list
        BY <2>3, <3>1, <3>2, RemoveType DEF TakeHighest, Occupied, RunQueueType
      <4> QED
        BY <2>3, <3>1, <3>2, <4>1 DEF TakeHighest, Occupied, Table!TakeFromEmpty
    <3>3. CASE Occupied(rq) # {}
      <4>1. Table!TakeMostUrgent(highest_prio(rq))
        BY <2>3, <3>1, <3>3, HighestIsMostUrgent, RemoveType
           DEF TakeHighest, Occupied, Table!TakeMostUrgent
      <4> QED
        BY <3>1, <4>1
    <3> QED
      BY <3>2, <3>3
  <2>4. ASSUME UNCHANGED rqVars
        PROVE  UNCHANGED <<rq.run_list, last>>
    BY <2>4 DEF rqVars
  <2> QED
    BY <2>1, <2>2, <2>3, <2>4 DEF RQNext, Table!Next, UsedTCB, UsedPrio
<1> QED
  BY <1>1, <1>2, InitInv, NextInv, PTL DEF RQSpec, ImplementsTable, Table!Spec
-----------------------------------------------------------------------------
(* Bytes.  First, eight bits as digits of a number: the lowest one that is *)
(* 1 is what the table is indexed by.                                      *)
LEMMA LowestDigit ==
    ASSUME NEW a0 \in {0, 1}, NEW a1 \in {0, 1}, NEW a2 \in {0, 1}, NEW a3 \in {0, 1},
           NEW a4 \in {0, 1}, NEW a5 \in {0, 1}, NEW a6 \in {0, 1}, NEW a7 \in {0, 1},
           NEW x, x = a0 + 2 * a1 + 4 * a2 + 8 * a3 + 16 * a4 + 32 * a5 + 64 * a6 + 128 * a7
    PROVE  /\ a0 = 1 => x % 2 = 1
           /\ a0 = 0 /\ a1 = 1 => x % 4 = 2
           /\ a0 = 0 /\ a1 = 0 /\ a2 = 1 => x % 8 = 4
           /\ a0 = 0 /\ a1 = 0 /\ a2 = 0 /\ a3 = 1 => x % 16 = 8
           /\ a0 = 0 /\ a1 = 0 /\ a2 = 0 /\ a3 = 0 =>
                /\ a4 = 1 => x % 32 = 16
                /\ a4 = 0 /\ a5 = 1 => x % 64 = 32
                /\ a4 = 0 /\ a5 = 0 /\ a6 = 1 => x % 128 = 64
                /\ a4 = 0 /\ a5 = 0 /\ a6 = 0 /\ a7 = 1 => x = 128
OBVIOUS

(* A byte and the set of its high bits determine each other.               *)
LEMMA ByteDigits ==
    ASSUME NEW S \in SUBSET Bit, NEW x, x = B!byte(S)
    PROVE  /\ x \in 0 .. 255
           /\ x = 0 <=> S = {}
           /\ \A b \in Bit : (x \div B!Mask(b)) % 2 = 1 <=> b \in S
           /\ 0 \in S => x % 2 = 1
           /\ 0 \notin S /\ 1 \in S => x % 4 = 2
           /\ 0 \notin S /\ 1 \notin S /\ 2 \in S => x % 8 = 4
           /\ 0 \notin S /\ 1 \notin S /\ 2 \notin S /\ 3 \in S => x % 16 = 8
           /\ 0 \notin S /\ 1 \notin S /\ 2 \notin S /\ 3 \notin S =>
                /\ 4 \in S => x % 32 = 16
                /\ 4 \notin S /\ 5 \in S => x % 64 = 32
                /\ 4 \notin S /\ 5 \notin S /\ 6 \in S => x % 128 = 64
                /\ 4 \notin S /\ 5 \notin S /\ 6 \notin S /\ 7 \in S => x = 128
<1> PICK a0 \in {0, 1} : a0 = 1 <=> 0 \in S  OBVIOUS
<1> PICK a1 \in {0, 1} : a1 = 1 <=> 1 \in S  OBVIOUS
<1> PICK a2 \in {0, 1} : a2 = 1 <=> 2 \in S  OBVIOUS
<1> PICK a3 \in {0, 1} : a3 = 1 <=> 3 \in S  OBVIOUS
<1> PICK a4 \in {0, 1} : a4 = 1 <=> 4 \in S  OBVIOUS
<1> PICK a5 \in {0, 1} : a5 = 1 <=> 5 \in S  OBVIOUS
<1> PICK a6 \in {0, 1} : a6 = 1 <=> 6 \in S  OBVIOUS
<1> PICK a7 \in {0, 1} : a7 = 1 <=> 7 \in S  OBVIOUS
<1>1. x = a0 + 2 * a1 + 4 * a2 + 8 * a3 + 16 * a4 + 32 * a5 + 64 * a6 + 128 * a7
  BY DEF B!byte, B!Mask
<1>2. /\ x \in 0 .. 255
      /\ (x \div 1) % 2 = a0 /\ (x \div 2) % 2 = a1
      /\ (x \div 4) % 2 = a2 /\ (x \div 8) % 2 = a3
      /\ (x \div 16) % 2 = a4 /\ (x \div 32) % 2 = a5
      /\ (x \div 64) % 2 = a6 /\ (x \div 128) % 2 = a7
  <2>1. x \in 0 .. 255
    BY <1>1
  <2>2. (x \div 1) % 2 = a0 /\ (x \div 2) % 2 = a1
    BY <1>1
  <2>3. (x \div 4) % 2 = a2 /\ (x \div 8) % 2 = a3
    BY <1>1
  <2>4. (x \div 16) % 2 = a4 /\ (x \div 32) % 2 = a5
    BY <1>1
  <2>5. (x \div 64) % 2 = a6 /\ (x \div 128) % 2 = a7
    BY <1>1
  <2> QED
    BY <2>1, <2>2, <2>3, <2>4, <2>5
<1>3. \A b \in Bit : (x \div B!Mask(b)) % 2 = 1 <=> b \in S
  BY <1>2 DEF B!Mask, Bit
<1>4. x = 0 <=> S = {}
  <2>1. x = 0 <=> a0 = 0 /\ a1 = 0 /\ a2 = 0 /\ a3 = 0 /\ a4 = 0 /\ a5 = 0 /\ a6 = 0 /\ a7 = 0
    BY <1>1
  <2>2. S = {} <=> a0 # 1 /\ a1 # 1 /\ a2 # 1 /\ a3 # 1 /\ a4 # 1 /\ a5 # 1 /\ a6 # 1 /\ a7 # 1
    BY DEF Bit
  <2> QED
    BY <2>1, <2>2
<1>5. /\ a0 = 1 => x % 2 = 1
      /\ a0 = 0 /\ a1 = 1 => x % 4 = 2
      /\ a0 = 0 /\ a1 = 0 /\ a2 = 1 => x % 8 = 4
      /\ a0 = 0 /\ a1 = 0 /\ a2 = 0 /\ a3 = 1 => x % 16 = 8
      /\ a0 = 0 /\ a1 = 0 /\ a2 = 0 /\ a3 = 0 =>
           /\ a4 = 1 => x % 32 = 16
           /\ a4 = 0 /\ a5 = 1 => x % 64 = 32
           /\ a4 = 0 /\ a5 = 0 /\ a6 = 1 => x % 128 = 64
           /\ a4 = 0 /\ a5 = 0 /\ a6 = 0 /\ a7 = 1 => x = 128
  BY <1>1, LowestDigit
<1> QED
  BY <1>2, <1>3, <1>4, <1>5

LEMMA HighOfByte ==
    ASSUME NEW S \in SUBSET Bit
    PROVE  B!high(B!byte(S)) = S
<1>1. \A b \in Bit : (B!byte(S) \div B!Mask(b)) % 2 = 1 <=> b \in S
  BY ByteDigits
<1>2. B!high(B!byte(S)) = {b \in Bit : (B!byte(S) \div B!Mask(b)) % 2 = 1}
  BY DEF B!high, Bit
<1> QED
  BY <1>1, <1>2

LEMMA SingleBit ==
    ASSUME NEW b \in Bit
    PROVE  B!Mask(b) = B!byte({b}) /\ B!Complement(B!Mask(b)) = B!byte(Bit \ {b})
BY DEF B!Mask, B!byte, B!Complement, Bit

(* The shift and the mask split a priority as the division does.           *)
LEMMA SplitInBytes ==
    ASSUME NEW p \in Prio
    PROVE  p \div B!Mask(B!SHIFT) = group_of(p) /\ B!and(p, B!POSITION_MASK) = bit_of(p)
<1> DEFINE a0 == p % 2
           a1 == (p \div 2) % 2
           a2 == (p \div 4) % 2
           S  == B!high(p) \cap B!high(7)
<1>1. p \in 0 .. 63
  BY OSMaxTasksAssumption DEF Prio
<1>2. B!Mask(3) = 8 /\ B!Mask(0) = 1 /\ B!Mask(1) = 2 /\ B!Mask(2) = 4
  BY DEF B!Mask
<1>3. B!high(7) = {0, 1, 2}
  BY DEF B!high, B!Mask
<1>4. S = {b \in {0, 1, 2} : (p \div B!Mask(b)) % 2 = 1}
  BY <1>3 DEF B!high
<1>5. /\ 0 \in S <=> a0 = 1
      /\ 1 \in S <=> a1 = 1
      /\ 2 \in S <=> a2 = 1
      /\ 3 \notin S /\ 4 \notin S /\ 5 \notin S /\ 6 \notin S /\ 7 \notin S
  BY <1>1, <1>2, <1>4
<1>6. B!byte(S) = a0 + 2 * a1 + 4 * a2
  <2>1. a0 \in {0, 1} /\ a1 \in {0, 1} /\ a2 \in {0, 1}
    BY <1>1
  <2> HIDE DEF S, a0, a1, a2
  <2> QED
    BY <1>2, <1>5, <2>1 DEF B!byte
<1>7. p % 8 = a0 + 2 * a1 + 4 * a2
  BY <1>1
<1> QED
  BY <1>1, <1>2, <1>6, <1>7 DEF B!and, B!SHIFT, B!POSITION_MASK, group_of, bit_of

(* The masks set or clear one bit.                                         *)
LEMMA SetBit ==
    ASSUME NEW S \in SUBSET Bit, NEW b \in Bit
    PROVE  B!or(B!byte(S), B!Mask(b)) = B!byte(S \cup {b})
<1>1. S \cup {b} \in SUBSET Bit /\ {b} \in SUBSET Bit
  OBVIOUS
<1>2. /\ B!high(B!byte(S)) = S
      /\ B!high(B!byte({b})) = {b}
      /\ B!Mask(b) = B!byte({b})
  BY <1>1, HighOfByte, SingleBit
<1> QED
  BY <1>2 DEF B!or

LEMMA ClearBit ==
    ASSUME NEW S \in SUBSET Bit, NEW b \in Bit
    PROVE  B!and(B!byte(S), B!Complement(B!Mask(b))) = B!byte(S \ {b})
<1>1. S \cap (Bit \ {b}) = S \ {b} /\ Bit \ {b} \in SUBSET Bit
  OBVIOUS
<1>2. /\ B!high(B!byte(S)) = S
      /\ B!high(B!byte(Bit \ {b})) = Bit \ {b}
      /\ B!Complement(B!Mask(b)) = B!byte(Bit \ {b})
  BY <1>1, HighOfByte, SingleBit
<1> QED
  BY <1>1, <1>2 DEF B!and

(* The table of the code, entry by entry: what it has for a byte tells the *)
(* lowest high bit.                                                        *)
LEMMA TableEntries ==
    ASSUME NEW x \in 0 .. 255
    PROVE  /\ x = 0 \/ x % 2 = 1 => B!prio_unmap_table[x + 1] = 0
           /\ x % 4 = 2          => B!prio_unmap_table[x + 1] = 1
           /\ x % 8 = 4          => B!prio_unmap_table[x + 1] = 2
           /\ x % 16 = 8         => B!prio_unmap_table[x + 1] = 3
           /\ x % 32 = 16        => B!prio_unmap_table[x + 1] = 4
           /\ x % 64 = 32        => B!prio_unmap_table[x + 1] = 5
           /\ x % 128 = 64       => B!prio_unmap_table[x + 1] = 6
           /\ x = 128            => B!prio_unmap_table[x + 1] = 7
BY SMTT(60) DEF B!prio_unmap_table

LEMMA TableFindsLowest ==
    ASSUME NEW S \in SUBSET Bit
    PROVE  B!prio_unmap_table[B!byte(S) + 1] = prio_unmap(S)
<1> DEFINE x == B!byte(S)
           m == prio_unmap(S)
<1>1. x \in 0 .. 255 /\ (S = {} => x = 0)
  BY ByteDigits
<1>2. S = {} => m = 0
  BY DEF prio_unmap
<1>3. ASSUME S # {}
      PROVE  m \in {0, 1, 2, 3, 4, 5, 6, 7} /\ m \in S /\ \A b \in Bit : b < m => b \notin S
  <2>1. m \in S /\ \A b \in S : m <= b
    BY <1>3, LowestBit
  <2> HIDE DEF m
  <2> QED
    BY <2>1 DEF Bit
<1> HIDE DEF m
<1>4. CASE S = {}
  BY <1>1, <1>2, <1>4, TableEntries DEF m
<1>5. CASE S # {}
  <2>0. m \in {0, 1, 2, 3, 4, 5, 6, 7} /\ m \in S /\ \A b \in Bit : b < m => b \notin S
    BY <1>3, <1>5
  <2>1. /\ 0 \in S => x % 2 = 1
        /\ 0 \notin S /\ 1 \in S => x % 4 = 2
        /\ 0 \notin S /\ 1 \notin S /\ 2 \in S => x % 8 = 4
        /\ 0 \notin S /\ 1 \notin S /\ 2 \notin S /\ 3 \in S => x % 16 = 8
        /\ 0 \notin S /\ 1 \notin S /\ 2 \notin S /\ 3 \notin S =>
             /\ 4 \in S => x % 32 = 16
             /\ 4 \notin S /\ 5 \in S => x % 64 = 32
             /\ 4 \notin S /\ 5 \notin S /\ 6 \in S => x % 128 = 64
             /\ 4 \notin S /\ 5 \notin S /\ 6 \notin S /\ 7 \in S => x = 128
    BY ByteDigits
  <2> HIDE DEF x
  <2>2. /\ m = 0 => x % 2 = 1
        /\ m = 1 => x % 4 = 2
        /\ m = 2 => x % 8 = 4
        /\ m = 3 => x % 16 = 8
        /\ m = 4 => x % 32 = 16
        /\ m = 5 => x % 64 = 32
        /\ m = 6 => x % 128 = 64
        /\ m = 7 => x = 128
    BY <2>0, <2>1 DEF Bit
  <2> QED
    BY <1>1, <2>0, <2>2, TableEntries DEF x, m
<1> QED
  BY <1>4, <1>5

(* The operations of the code on bytes are those on sets.                  *)
LEMMA BytesRemove ==
    ASSUME NEW q \in RunQueueType, NEW p \in Prio
    PROVE  B!runqueue_remove(Bytes(q), p) = Bytes(runqueue_remove(q, p))
<1> DEFINE g    == group_of(p)
           b    == bit_of(p)
           bits == q.run_bits[g] \ {b}
<1>1. g \in Group /\ b \in Bit /\ g \in Bit
  BY SplitPrio, OSMaxTasksAssumption DEF Group, Bit
<1>2. p \div B!Mask(B!SHIFT) = g /\ B!and(p, B!POSITION_MASK) = b
  BY SplitInBytes
<1>3. /\ q.run_bits \in [Group -> SUBSET Bit] /\ q.group_run_bits \in SUBSET Bit
  BY OSMaxTasksAssumption DEF RunQueueType, Group, Bit
<1>4. /\ bits \in SUBSET Bit
      /\ B!and(B!byte(q.run_bits[g]), B!Complement(B!Mask(b))) = B!byte(bits)
      /\ B!and(B!byte(q.group_run_bits), B!Complement(B!Mask(g))) = B!byte(q.group_run_bits \ {g})
      /\ B!byte(bits) = 0 <=> bits = {}
  BY <1>1, <1>3, ClearBit, ByteDigits
<1>5. [[h \in Group |-> B!byte(q.run_bits[h])] EXCEPT ![g] = B!byte(bits)]
          = [h \in Group |-> B!byte([q.run_bits EXCEPT ![g] = bits][h])]
  BY <1>1, <1>3
<1> HIDE DEF g, b
<1> QED
  BY <1>1, <1>2, <1>4, <1>5 DEF B!runqueue_remove, Bytes, runqueue_remove, g, b

LEMMA BytesAdd ==
    ASSUME NEW q \in RunQueueType, NEW p \in Prio, NEW t
    PROVE  B!runqueue_add(Bytes(q), t, p) = Bytes(runqueue_add(q, t, p))
<1> DEFINE g    == group_of(p)
           b    == bit_of(p)
           bits == q.run_bits[g] \cup {b}
<1>1. g \in Group /\ b \in Bit /\ g \in Bit
  BY SplitPrio, OSMaxTasksAssumption DEF Group, Bit
<1>2. p \div B!Mask(B!SHIFT) = g /\ B!and(p, B!POSITION_MASK) = b
  BY SplitInBytes
<1>3. /\ q.run_bits \in [Group -> SUBSET Bit] /\ q.group_run_bits \in SUBSET Bit
  BY OSMaxTasksAssumption DEF RunQueueType, Group, Bit
<1>4. /\ B!or(B!byte(q.run_bits[g]), B!Mask(b)) = B!byte(bits)
      /\ B!or(B!byte(q.group_run_bits), B!Mask(g)) = B!byte(q.group_run_bits \cup {g})
  BY <1>1, <1>3, SetBit
<1>5. [[h \in Group |-> B!byte(q.run_bits[h])] EXCEPT ![g] = B!byte(bits)]
          = [h \in Group |-> B!byte([q.run_bits EXCEPT ![g] = bits][h])]
  BY <1>1, <1>3
<1> QED
  BY <1>1, <1>2, <1>4, <1>5 DEF B!runqueue_add, Bytes, runqueue_add

LEMMA BytesSearch ==
    ASSUME NEW q \in RunQueueType
    PROVE  B!highest_prio(Bytes(q)) = highest_prio(q)
<1> DEFINE g == prio_unmap(q.group_run_bits)
<1>1. /\ q.run_bits \in [Group -> SUBSET Bit] /\ q.group_run_bits \in SUBSET Bit
      /\ q.group_run_bits \in SUBSET Group /\ 0 \in Group
  BY OSMaxTasksAssumption DEF RunQueueType, Group, Bit
<1>2. g \in Group
  <2>1. CASE q.group_run_bits = {}
    BY <1>1, <2>1 DEF prio_unmap
  <2>2. CASE q.group_run_bits # {}
    BY <1>1, <2>2, LowestBit
  <2> QED
    BY <2>1, <2>2
<1>3. /\ B!prio_unmap_table[B!byte(q.group_run_bits) + 1] = g
      /\ B!prio_unmap_table[B!byte(q.run_bits[g]) + 1] = prio_unmap(q.run_bits[g])
  BY <1>1, <1>2, TableFindsLowest
<1>4. B!Mask(B!SHIFT) = 8
  BY DEF B!Mask, B!SHIFT
<1>5. g \in 0 .. 7 /\ g * 8 = 8 * g
  BY <1>2, OSMaxTasksAssumption DEF Group
<1> QED
  BY <1>2, <1>3, <1>4, <1>5 DEF B!highest_prio, Bytes, highest_prio

(* The shifts, the masks and the table of the code do to its bytes what    *)
(* the model does to sets of bits (run_queue.c:80-133).                    *)
THEOREM BytesDoTheSame == RQSpec => []BytesImplementSets
<1>1. Inv => BytesImplementSets
  BY BytesRemove, BytesAdd, BytesSearch DEF Inv, RQTypeOK, BytesImplementSets, UsedTCB, UsedPrio
<1> QED
  BY <1>1, InitInv, NextInv, PTL DEF RQSpec
=============================================================================
