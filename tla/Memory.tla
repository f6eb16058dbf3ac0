-------------------------------- MODULE Memory -------------------------------
(***************************************************************************)
(* The memory that the functions of tasks/libc/string work on: a pointer   *)
(* is an address, a char a byte.                                           *)
(***************************************************************************)
EXTENDS Integers

CONSTANTS MemSize,       \* bound: the bytes of the memory
          Byte           \* the values of a char; 0 is NUL
ASSUME MemAssumption == MemSize \in Nat /\ Byte \subseteq Nat /\ 0 \in Byte

VARIABLE mem

Addr  == 0 .. MemSize - 1
Count == 0 .. MemSize

Block(a, k)       == a .. a + k - 1
Fits(a, k)        == Block(a, k) \subseteq Addr
Apart(a, k, b, j) == Block(a, k) \cap Block(b, j) = {}
Shorter(j, k)     == IF j < k THEN j ELSE k

(* The string at s has k chars before its NUL.                             *)
StringAt(m, s, k) == s + k \in Addr /\ m[s + k] = 0 /\ \A j \in 0 .. k - 1 : m[s + j] # 0
IsString(m, s)    == \E k \in Count : StringAt(m, s, k)
Length(m, s)      == CHOOSE k \in Count : StringAt(m, s, k)
=============================================================================
