------------------------------ MODULE Memcheck -------------------------------
(***************************************************************************)
(* The address check of memcheck.c, in the arithmetic of its words.        *)
(***************************************************************************)
EXTENDS Integers

CONSTANT Word          \* how many words there are: 2^32
ASSUME WordAssumption == Word \in Nat \ {0}

valid_addr_no_wrap(start, count, base, bound) ==                     \* mutant
    /\ start >= base /\ start < bound
    /\ (start + count) % Word <= bound
valid_addr(start, count, base, bound) ==
    LET mem_end == (start + count) % Word
    IN  /\ start >= base /\ start < bound
        /\ mem_end >= start /\ mem_end <= bound

(* The check answers what it would without overflow.                       *)
AddressIsChecked(start, count, base, bound) ==
    valid_addr(start, count, base, bound)
        <=> start \in base .. bound - 1 /\ start + count <= bound
=============================================================================
