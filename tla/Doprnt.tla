------------------------------- MODULE Doprnt -------------------------------
(***************************************************************************)
(* _doprnt of tasks/libc/stdio/doprnt.c: the text it passes to putc, one   *)
(* call per character, for a format and its arguments.  A part of the      *)
(* parser takes and returns the record of the code's local variables; i is *)
(* fmt.  Numbers have the width of the arguments, with words of            *)
(* ULONG_RANGE values.                                                     *)
(***************************************************************************)
EXTENDS Chars

CONSTANT NullText                        \* a null pointer given for a string

repeat(c, n) == [k \in 1 .. (IF n > 0 THEN n ELSE 0) |-> c]
step(st)     == [st EXCEPT !.i = @ + 1]

RECURSIVE printnum(_, _)
printnum(u, base) == IF u < base THEN <<digs[u + 1]>>
                     ELSE printnum(u \div base, base) \o <<digs[(u % base) + 1]>>

(* All eight hexadecimal digits of a word.                                 *)
printnum_16(u) == [k \in 1 .. 8 |-> digs[((u \div 16 ^ (8 - k)) % 16) + 1]]
-----------------------------------------------------------------------------
(* The parts of a conversion before its letter.                            *)
fresh(i, args) == [i |-> i, args |-> args, length |-> 0, prec |-> -1, ladjust |-> FALSE,
                   padc |-> " ", plus_sign |-> <<>>, altfmt |-> FALSE, longopt |-> 0]

RECURSIVE take_flags(_, _)
take_flags(fmt, st) ==
    LET more(s) == take_flags(fmt, step(s))
    IN  CASE char_at(fmt, st.i) = "#" -> more([st EXCEPT !.altfmt = TRUE])
          [] char_at(fmt, st.i) = "-" -> more([st EXCEPT !.ladjust = TRUE])
          [] char_at(fmt, st.i) = "+" -> more([st EXCEPT !.plus_sign = <<"+">>])
          [] char_at(fmt, st.i) = " " -> more([st EXCEPT !.plus_sign = IF @ = <<>> THEN <<" ">> ELSE @])
          [] OTHER -> st

take_zero(fmt, st) == IF char_at(fmt, st.i) = "0" THEN step([st EXCEPT !.padc = "0"]) ELSE st

(* The position after the decimal number at i, and that number.            *)
RECURSIVE decimal(_, _, _)
decimal(fmt, i, n) == IF isdigit(char_at(fmt, i)) THEN decimal(fmt, i + 1, 10 * n + digit(fmt[i]))
                      ELSE [i |-> i, n |-> n]

next_arg(st) == [st EXCEPT !.args = Tail(@), !.i = @ + 1]

take_width(fmt, st) ==
    LET d == decimal(fmt, st.i, 0)
        w == Head(st.args)
    IN  IF char_at(fmt, st.i) # "*" THEN [st EXCEPT !.i = d.i, !.length = d.n]
        ELSE [next_arg(st) EXCEPT !.length  = IF w < 0 THEN -w ELSE w,
                                  !.ladjust = IF w < 0 THEN ~@ ELSE @]

take_prec(fmt, st) ==
    LET dot == step(st)
        d   == decimal(fmt, dot.i, 0)
    IN  IF char_at(fmt, st.i) # "." THEN st
        ELSE CASE isdigit(char_at(fmt, dot.i)) -> [st EXCEPT !.i = d.i, !.prec = d.n]
               [] char_at(fmt, dot.i) = "*"    -> [next_arg(dot) EXCEPT !.prec = Head(st.args)]
               [] OTHER                   -> dot

RECURSIVE take_longs(_, _)
take_longs(fmt, st) ==
    IF char_at(fmt, st.i) # "l" THEN st ELSE take_longs(fmt, step([st EXCEPT !.longopt = @ + 1]))

options(fmt, i, args) ==
    take_longs(fmt, take_prec(fmt, take_width(fmt, take_zero(fmt, take_flags(fmt, fresh(i, args))))))
-----------------------------------------------------------------------------
(* The conversions: the text for the argument.                             *)
base_of(c, radix) == CASE c \in {"o", "O"}                     -> 8
                       [] c \in {"d", "D", "u", "U"}           -> 10
                       [] c \in {"p", "x", "X", "z", "Z"}      -> 16
                       [] OTHER                                -> radix
IsSigned(c) == c \in {"d", "D", "z", "Z", "r", "R"}

room_without_sign(st, sign, prefix, number) ==                       \* mutant
    st.length - Len(number) - Len(prefix)
room_for(st, sign, prefix, number) ==
    st.length - Len(number) - Len(sign) - Len(prefix)

print_num(st, c, base) ==
    LET range  == IF st.longopt > 1 THEN ULONG_RANGE * ULONG_RANGE ELSE ULONG_RANGE
        n      == IF IsSigned(c) THEN signed(Head(st.args), range) ELSE Head(st.args) % range
        u      == IF n < 0 THEN -n ELSE n
        sign   == IF n < 0 THEN <<"-">> ELSE IF IsSigned(c) THEN st.plus_sign ELSE <<>>
        prefix == IF u # 0 /\ st.altfmt
                  THEN CASE base = 8 -> <<"0">> [] base = 16 -> <<"0", "x">> [] OTHER -> <<>>
                  ELSE <<>>
        number == printnum(u, base)
        room   == room_for(st, sign, prefix, number)
    IN  repeat(" ", IF st.padc = " " /\ ~st.ladjust THEN room ELSE 0)
        \o sign \o prefix
        \o repeat("0", IF st.padc = "0" THEN room ELSE 0)
        \o number
        \o repeat(" ", IF st.padc = " " /\ st.ladjust THEN room ELSE 0)

print_pointer(st) == <<"0", "x">> \o print_num([st EXCEPT !.padc = "0", !.length = 8], "p", 16)

(* A cut string is counted one longer than what is printed of it when the  *)
(* blanks on its right are counted, and not when those on its left are.    *)
print_string(st) ==
    LET p    == IF Head(st.args) = NullText THEN <<>> ELSE Head(st.args)
        prec == IF st.prec < 0 THEN (IF st.prec = -1 THEN Len(p) ELSE 0) ELSE st.prec
        cut  == Len(p) > prec
        kept == IF cut THEN SubSeq(p, 1, prec) ELSE p
    IN  repeat(" ", IF st.ladjust THEN 0 ELSE st.length - Len(kept)) \o kept
        \o repeat(" ", IF st.ladjust THEN st.length - Len(kept) - (IF cut THEN 1 ELSE 0) ELSE 0)

(* %b: u and its named bits; a control character, here an integer, is a    *)
(* bit number (the base, at first), and the characters up to the next one  *)
(* are a name; the NUL ends the list where a bit number is due.  If the    *)
(* next character is a control character too, the two are a field of bits: *)
(* also if it is that NUL.  Then the code reads on behind the list, and    *)
(* shifts by -1: a behaviour that C leaves undefined, as is 2 ^ (-1) here. *)
RECURSIVE name_at(_, _)
name_at(p, k) == IF p[k].control THEN <<>> ELSE <<p[k].char>> \o name_at(p, k + 1)

RECURSIVE named_bits(_, _, _, _, _)
named_bits(u, base, p, k, any) ==
    LET i     == p[k].code
        field == p[k + 1].control
        name  == name_at(p, IF field THEN k + 2 ELSE k + 1)
        j     == IF field THEN p[k + 1].code ELSE i
        bits  == (u \div 2 ^ (j - 1)) % 2 ^ (i - j + 1)
        shown == field \/ bits = 1
        next  == k + (IF field THEN 2 ELSE 1) + Len(name)
    IN  IF i = 0 THEN IF any THEN <<">">> ELSE <<>>
        ELSE (IF ~shown THEN <<>> ELSE <<IF any THEN "," ELSE "<">> \o name)
             \o (IF field THEN printnum(bits, base) ELSE <<>>)
             \o named_bits(u, base, p, next, any \/ shown)

print_bits(st) ==
    LET u    == Head(st.args) % ULONG_RANGE
        p    == st.args[2]
        base == p[1].code
    IN  printnum(u, base) \o (IF u = 0 THEN <<>> ELSE named_bits(u, base, p, 2, FALSE))

(* %t: a thread number, which the argument, a union, gives both as its     *)
(* fields task and lthread and as the words high and low.  Of the width,   *)
(* two places are for lthread; n and m count what is printed.              *)
bracketed(st, text) == IF st.altfmt THEN <<"[">> \o text \o <<"]">> ELSE text

print_thread_words(st, id) ==
    LET text == bracketed(st, printnum_16(id.high) \o <<":">> \o printnum_16(id.low))
        room == repeat(" ", st.length - Len(text))
    IN  IF st.ladjust THEN text \o room ELSE room \o text

print_thread_fields(st, id) ==
    LET lthread == printnum(id.lthread, 16)
        task    == printnum(id.task, 16) \o <<".">>
        n       == Len(bracketed(st, task))
        m       == Len(lthread)
        first   == IF st.ladjust THEN <<>> ELSE repeat(st.padc, st.length - 2 - n)
        middle  == IF st.ladjust THEN <<>> ELSE repeat(st.padc, st.length - m - (n + Len(first)))
        blanks  == IF st.padc = " " THEN first ELSE <<>>
        zeros   == IF st.padc = "0" THEN first ELSE <<>>
    IN  blanks \o bracketed(st, zeros \o task \o middle \o lthread)
        \o repeat(" ", IF st.ladjust THEN st.length - n - m ELSE 0)

print_thread(st) == IF st.longopt > 0 THEN print_thread_words(st, Head(st.args))
                                      ELSE print_thread_fields(st, Head(st.args))

converted(c, st, radix) ==
    CASE c \in {"b", "B"} -> print_bits(st)
      [] c = "c"          -> <<Head(st.args)>>
      [] c = "t"          -> print_thread(st)
      [] c = "s"          -> print_string(st)
      [] c = "p"          -> print_pointer(st)
      [] c \in {"o", "O", "d", "D", "u", "U", "x", "X", "z", "Z", "r", "R", "n", "N"}
                          -> print_num(st, c, base_of(c, radix))
      [] OTHER            -> <<c>>
args_of(c) == CASE c \in {"b", "B"} -> 2
                [] c \in {"c", "t", "s", "p", "o", "O", "d", "D", "u", "U", "x", "X", "z", "Z",
                          "r", "R", "n", "N"} -> 1
                [] OTHER -> 0

RECURSIVE print_from(_, _, _, _)
print_from(fmt, i, args, radix) ==
    LET st == options(fmt, i + 1, args)
        c  == char_at(fmt, st.i)
    IN  CASE i > Len(fmt) -> <<>>
          [] i <= Len(fmt) /\ char_at(fmt, i) # "%" -> <<fmt[i]>> \o print_from(fmt, i + 1, args, radix)
          [] OTHER -> IF c = "NUL" THEN <<>>
                      ELSE converted(c, st, radix)
                           \o print_from(fmt, st.i + 1, SubSeq(st.args, args_of(c) + 1, Len(st.args)), radix)

_doprnt(fmt, args, radix) == print_from(fmt, 1, args, radix)
=============================================================================
