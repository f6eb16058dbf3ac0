-------------------------------- MODULE Chars --------------------------------
(***************************************************************************)
(* Characters and words of the C library.  A character is a string of      *)
(* length one or the name of a control character, a text the sequence of   *)
(* its characters without the NUL that ends it.                            *)
(***************************************************************************)
EXTENDS Integers, Sequences, SequencesExt

CONSTANT ULONG_RANGE                     \* one more than the largest unsigned long
ASSUME EvenRange == ULONG_RANGE % 2 = 0

(* ULONG_RANGE values, the upper half of them negative; and the same for   *)
(* any other size of word.                                                 *)
signed(n, range) == ((n + range \div 2) % range) - (range \div 2)

char_at(text, i) == IF i \in 1 .. Len(text) THEN text[i] ELSE "NUL"

digs == <<"0", "1", "2", "3", "4", "5", "6", "7", "8", "9", "a", "b", "c", "d", "e", "f">>
lower == SubSeq(digs, 11, 16) \o <<"g", "h", "i", "j", "k", "l", "m", "n", "o", "p", "q",
                                   "r", "s", "t", "u", "v", "w", "x", "y", "z">>
upper == <<"A", "B", "C", "D", "E", "F", "G", "H", "I", "J", "K", "L", "M", "N", "O", "P", "Q",
           "R", "S", "T", "U", "V", "W", "X", "Y", "Z">>

isdigit(c) == c \in {digs[i] : i \in 1 .. 10}
isspace(c) == c \in {" ", "FF", "NL", "CR", "HT", "VT"}

position(c, text) == CHOOSE i \in 1 .. Len(text) : text[i] = c

(* The value of a digit in the largest base; no base has a digit 99.       *)
digit(c) == CASE isdigit(c)             -> position(c, digs) - 1
              [] Contains(lower, c)     -> position(c, lower) + 9
              [] Contains(upper, c)     -> position(c, upper) + 9
              [] OTHER                  -> 99
=============================================================================
