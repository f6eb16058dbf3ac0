----------------------------- MODULE MCLibrary ------------------------------
(***************************************************************************)
(* The C library of the tasks, in one model: printing and scanning on the  *)
(* calls of MCStdio.tla, and the string functions on five cells of memory, *)
(* which hold two strings that are apart or overlap in any way.  The two   *)
(* share nothing, so a behaviour exercises one while the other stands in   *)
(* an initial state.                                                       *)
(*                                                                         *)
(* The arithmetic of the kernel is checked along with the memories between *)
(* two calls: the content of a memory is a number.                         *)
(***************************************************************************)
EXTENDS MCStdio, Strings, Memcheck

A4 == INSTANCE Arith WITH Stages <- 2          \* words of four bits, as in the check
A8 == INSTANCE Arith WITH Stages <- 3          \* words of eight bits

(* Where either half stands while the other moves.                         *)
StdioRests   == job = SlippingJob /\ call = "none" /\ out = <<>> /\ saved = Unsaved
StringsRest  == mem = [a \in Addr |-> 0] /\ at = "none" /\ scan = "none"

LibraryInit == Init /\ StringsInit /\ (StdioRests \/ StringsRest)

StdioMoves   == StringsRest /\ Next /\ UNCHANGED stringVars
StringsMoves == StdioRests /\ StringsNext /\ UNCHANGED vars
LibraryNext  == StdioMoves \/ StringsMoves

LibrarySpec == LibraryInit /\ [][LibraryNext]_<<vars, stringVars>>
-----------------------------------------------------------------------------
word   == mem[0] + 3 * mem[1] + 9 * mem[2] + 27 * mem[3] + 81 * mem[4]
region == [i \in 1 .. 5 |-> 7 * mem[i - 1]]

(* memcheck.c:24-36, math.c:25-99: the address check answers what it would *)
(* without overflow, for every wrap-around of its sum; the table-driven    *)
(* ilog2, its loop and the logarithm agree on every word; a sum of words   *)
(* is the sum, modulo the word.                                            *)
ArithmeticIsRight ==
    StdioRests /\ at = "none" /\ scan = "none" =>
    LET base  == word % 16
        bound == word \div 16
        sum   == 7 * (mem[0] + mem[1] + mem[2] + mem[3] + mem[4])
    IN  /\ \A start, count \in 0 .. 15 : AddressIsChecked(start, count, base, bound)
        /\ \A x \in {word, 255 - word} :
             /\ A8!ilog2_loop(x) = A8!ilog2_table(x)
             /\ x > 0 => x \in 2 ^ A8!ilog2_loop(x) .. 2 ^ (A8!ilog2_loop(x) + 1) - 1
        /\ A4!sum_region(region, 5) = sum % 16
=============================================================================
