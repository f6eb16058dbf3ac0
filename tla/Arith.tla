-------------------------------- MODULE Arith --------------------------------
(***************************************************************************)
(* The arithmetic of math.c on words of Bits bits: there are WordSize.      *)
(***************************************************************************)
EXTENDS Integers, Sequences

CONSTANT Stages        \* how often ilog2 halves a word: 5 for 32 bits
Bits == 2 ^ Stages
WordSize == 2 ^ Bits

RECURSIVE sum_region(_, _)
sum_region(buf, num_words) ==
    IF num_words = 0 THEN 0 ELSE (sum_region(buf, num_words - 1) + buf[num_words]) % WordSize

RECURSIVE ilog2_loop(_)
ilog2_loop(x) == IF x \div 2 = 0 THEN 0 ELSE 1 + ilog2_loop(x \div 2)

(* Stage i tests the 2^i bits above the lowest 2^i, b[i], of a word that   *)
(* has at most 2^(i+1) bits left, and shifts by S[i].                      *)
RECURSIVE ilog2_stages(_, _)
ilog2_stages(v, i) ==
    LET S == 2 ^ i
        high == (v \div 2 ^ S) % 2 ^ S # 0
    IN  IF i < 0 THEN 0
        ELSE IF high THEN S + ilog2_stages(v \div 2 ^ S, i - 1) ELSE ilog2_stages(v, i - 1)
ilog2_table(v) == ilog2_stages(v, Stages - 1)
=============================================================================
