-------------------------------- MODULE Scan ---------------------------------
(***************************************************************************)
(* Reading numbers: strtol.c, strtoul.c and atoi.c of tasks/libc/stdlib,   *)
(* doscan.c and sscanf.c of tasks/libc/stdio.  A pointer into a text is a  *)
(* position in it; the position after the last is that of the NUL.         *)
(***************************************************************************)
EXTENDS Chars

long(n) == signed(n, ULONG_RANGE)

RECURSIVE skip_space(_, _)
skip_space(text, p) == IF isspace(char_at(text, p)) THEN skip_space(text, p + 1) ELSE p

(* The digits of a base from p on: the value so far and the position.      *)
digit_in_or_at(c, base) == digit(c) <= base                          \* mutant
digit_in(c, base)       == digit(c) < base

RECURSIVE digits(_, _, _, _)
digits(text, p, base, v) ==
    IF ~digit_in(char_at(text, p), base) THEN [v |-> v, end |-> p]
    ELSE digits(text, p + 1, base, (v * base + digit(text[p])) % ULONG_RANGE)

(* A prefix 0x is skipped; base 0 is the base that the text shows.         *)
number(text, p, base) ==
    LET hex   == base \in {0, 16} /\ char_at(text, p) = "0" /\ char_at(text, p + 1) \in {"x", "X"}
        shown == IF char_at(text, p) = "0" THEN 8 ELSE 10
    IN  IF hex THEN digits(text, p + 2, 16, 0)
        ELSE digits(text, p, IF base = 0 THEN shown ELSE base, 0)

strtoul(text, base) == number(text, skip_space(text, 1), base)

negated_never(v, neg) == v                                           \* mutant
negated(v, neg)       == IF neg THEN -v ELSE v

(* A minus is skipped, a plus is not.                                      *)
strtol(text, base) ==
    LET p      == skip_space(text, 1)
        is_neg == char_at(text, p) = "-"
        n      == number(text, IF is_neg THEN p + 1 ELSE p, base)
    IN  [n EXCEPT !.v = long(negated(@, is_neg))]

atol(text) == long(digits(text, 1, 10, 0).v)
-----------------------------------------------------------------------------
(* _doscan: a conversion reads from position p of the text and leaves the  *)
(* position of the character that it looked at last and put back.          *)
scan_number(text, p, base) ==
    LET neg == char_at(text, p) = "-"
        n   == digits(text, IF neg THEN p + 1 ELSE p, base, 0)
    IN  [value |-> long(negated(n.v, neg)), end |-> n.end]

(* %s stops at a space only: in a text that has none from p on, it reads   *)
(* past the NUL that ends the text, up to the next space in memory.  What  *)
(* the memory holds there is part of the sequence given to sscanf.         *)
RECURSIVE word_end(_, _)
word_end(text, p) == IF isspace(text[p]) THEN p ELSE word_end(text, p + 1)
scan_word(text, p) == [value |-> SubSeq(text, p, word_end(text, p) - 1), end |-> word_end(text, p)]

scanned(c, text, p) == CASE c = "d" -> scan_number(text, p, 10)
                         [] c = "x" -> scan_number(text, p, 16)
                         [] c = "s" -> scan_word(text, p)

RECURSIVE after_stars(_, _)
after_stars(fmt, i) == IF char_at(fmt, i) = "*" THEN after_stars(fmt, i + 1) ELSE i

(* What is assigned through the pointers, and the count that is returned,  *)
(* which includes conversions that nobody knows.                           *)
RECURSIVE scan_from(_, _, _, _, _)
scan_from(fmt, i, text, p, got) ==
    LET c       == char_at(fmt, i)
        conv    == after_stars(fmt, i + 1)
        discard == conv > i + 1
        known   == char_at(fmt, conv) \in {"d", "x", "s"}
        read    == scanned(char_at(fmt, conv), text, p)
    IN  CASE c = "NUL" -> got
          [] c # "NUL" /\ isspace(c) -> scan_from(fmt, i + 1, text, skip_space(text, p), got)
          [] c \notin {"NUL", "%"} /\ ~isspace(c) ->
                IF char_at(text, p) = c THEN scan_from(fmt, i + 1, text, p + 1, got) ELSE got
          [] OTHER -> scan_from(fmt, conv + 1, text, IF known THEN read.end ELSE p,
                        IF discard THEN got
                        ELSE [vals   |-> got.vals + 1,
                              stored |-> IF known THEN Append(got.stored, read.value) ELSE got.stored])

_doscan(fmt, text) == scan_from(fmt, 1, text, 1, [vals |-> 0, stored |-> <<>>])
sscanf(text, fmt) == _doscan(fmt, text)
=============================================================================
