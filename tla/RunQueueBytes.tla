--------------------------- MODULE RunQueueBytes ----------------------------
(***************************************************************************)
(* The operations of RunQueue.tla on the data the code really has:         *)
(* uint8_t bitmaps, shifts and masks, and prio_unmap_table copied from     *)
(* run_queue.c.  RunQueue.tla, where a byte is the set of its high bits,   *)
(* is what every other module builds on; BytesImplementSets compares them. *)
(***************************************************************************)
EXTENDS Integers, Sequences

CONSTANT NULL

prio_unmap_table ==
    <<
      0, 0, 1, 0, 2, 0, 1, 0, 3, 0, 1, 0, 2, 0, 1, 0,
      4, 0, 1, 0, 2, 0, 1, 0, 3, 0, 1, 0, 2, 0, 1, 0,
      5, 0, 1, 0, 2, 0, 1, 0, 3, 0, 1, 0, 2, 0, 1, 0,
      4, 0, 1, 0, 2, 0, 1, 0, 3, 0, 1, 0, 2, 0, 1, 0,
      6, 0, 1, 0, 2, 0, 1, 0, 3, 0, 1, 0, 2, 0, 1, 0,
      4, 0, 1, 0, 2, 0, 1, 0, 3, 0, 1, 0, 2, 0, 1, 0,
      5, 0, 1, 0, 2, 0, 1, 0, 3, 0, 1, 0, 2, 0, 1, 0,
      4, 0, 1, 0, 2, 0, 1, 0, 3, 0, 1, 0, 2, 0, 1, 0,
      7, 0, 1, 0, 2, 0, 1, 0, 3, 0, 1, 0, 2, 0, 1, 0,
      4, 0, 1, 0, 2, 0, 1, 0, 3, 0, 1, 0, 2, 0, 1, 0,
      5, 0, 1, 0, 2, 0, 1, 0, 3, 0, 1, 0, 2, 0, 1, 0,
      4, 0, 1, 0, 2, 0, 1, 0, 3, 0, 1, 0, 2, 0, 1, 0,
      6, 0, 1, 0, 2, 0, 1, 0, 3, 0, 1, 0, 2, 0, 1, 0,
      4, 0, 1, 0, 2, 0, 1, 0, 3, 0, 1, 0, 2, 0, 1, 0,
      5, 0, 1, 0, 2, 0, 1, 0, 3, 0, 1, 0, 2, 0, 1, 0,
      4, 0, 1, 0, 2, 0, 1, 0, 3, 0, 1, 0, 2, 0, 1, 0
    >>

SHIFT == 3
position_mask_short == 3                     \* mutant: a bit too few
POSITION_MASK == 7
Mask(bit) == <<1, 2, 4, 8, 16, 32, 64, 128>>[bit + 1]        \* 0x1 << bit
Complement(x) == 255 - x                     \* ~x, kept to eight bits

(* The byte whose high bits are bits, and the high bits of a byte.         *)
byte(bits) == LET value(b) == IF b \in bits THEN Mask(b) ELSE 0
              IN  value(0) + value(1) + value(2) + value(3)
                  + value(4) + value(5) + value(6) + value(7)
high(x)    == {b \in 0 .. 7 : (x \div Mask(b)) % 2 = 1}

and(x, y) == byte(high(x) \cap high(y))            \* x & y
or(x, y)  == byte(high(x) \cup high(y))            \* x | y

runqueue_add(q, tcb, prio) ==
    LET g == prio \div Mask(SHIFT)
    IN  [run_list       |-> [q.run_list EXCEPT ![prio] = tcb],
         run_bits       |-> [q.run_bits EXCEPT ![g] = or(@, Mask(and(prio, POSITION_MASK)))],
         group_run_bits |-> or(q.group_run_bits, Mask(g))]

runqueue_remove(q, prio) ==
    LET g    == prio \div Mask(SHIFT)
        bits == and(q.run_bits[g], Complement(Mask(and(prio, POSITION_MASK))))
    IN  [run_list       |-> [q.run_list EXCEPT ![prio] = NULL],
         run_bits       |-> [q.run_bits EXCEPT ![g] = bits],
         group_run_bits |-> IF bits = 0 THEN and(q.group_run_bits, Complement(Mask(g)))
                                        ELSE q.group_run_bits]

(* The table is a sequence, so that byte b is looked up at b + 1.          *)
highest_prio(q) ==
    LET group_num == prio_unmap_table[q.group_run_bits + 1]
        group_pos == prio_unmap_table[q.run_bits[group_num] + 1]
    IN  group_num * Mask(SHIFT) + group_pos
=============================================================================
