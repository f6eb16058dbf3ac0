------------------------------- MODULE MCStdio -------------------------------
(***************************************************************************)
(* The calls: every combination of flags, some widths and every kind of    *)
(* number conversion on numbers at the edges of a word of 64 values; cut   *)
(* and padded strings; newlines, NULs and more text than the buffer holds; *)
(* the bit names of doprnt.c:97-103; thread numbers; and the texts that    *)
(* are scanned.                                                            *)
(***************************************************************************)
EXTENDS Printf, Doprnt, Scan, FiniteSetsExt

Flag     == <<"#", "-", "+", " ", "0">>          \* 0 is a flag only behind the others
Longs    == {-32, -31, -1, 0, 1, 9, 31}
ScanChar == {" ", "-", "+", "0", "x", "7", "a", "Z"}
Texts    == UNION {[1 .. n -> ScanChar] : n \in 0 .. 4}
            \cup {<<"-", "0", "x", "3", "f">>, <<" ", " ", "0", "7", "5">>, <<"9", "9", "9", "9">>}

width_text(w) == CASE w < 0 -> <<>> [] w = 0 -> <<"*">> [] OTHER -> <<digs[w + 1]>>
spec_text(flags, w, conv) ==
    <<"%">> \o SelectSeq(Flag, LAMBDA f : f \in flags) \o width_text(w) \o conv

(* What the comments promise of a number (doprnt.c:57-72, 106-117): its    *)
(* digits, the sign, the prefix and the padding that the flags ask for.    *)
places(u, base) == CHOOSE k \in 1 .. 12 : u < base ^ k /\ (k = 1 \/ u >= base ^ (k - 1))
numeral(u, base, letters) ==
    LET k == places(u, base)
    IN  [i \in 1 .. k |-> (SubSeq(digs, 1, 10) \o letters)[((u \div base ^ (k - i)) % base) + 1]]
sign_of(n, flags) == CASE n < 0                            -> <<"-">>
                       [] n >= 0 /\ "+" \in flags          -> <<"+">>
                       [] OTHER -> IF " " \in flags THEN <<" ">> ELSE <<>>
prefix_of(u, base, letters, flags) ==
    IF "#" \notin flags \/ u = 0 \/ base = 10 THEN <<>>
    ELSE IF base = 8 THEN <<"0">> ELSE <<"0", IF letters = upper THEN "X" ELSE "x">>

padded(start, body, width, flags) ==
    LET pad == width - Len(start) - Len(body)
    IN  IF "0" \in flags THEN start \o repeat("0", pad) \o body
        ELSE IF "-" \in flags THEN start \o body \o repeat(" ", pad)
        ELSE repeat(" ", pad) \o start \o body

number_text(n, base, is_signed, letters, width, flags) ==
    LET u == IF is_signed THEN (IF n < 0 THEN -n ELSE n) ELSE n % ULONG_RANGE
    IN  padded((IF is_signed THEN sign_of(n, flags) ELSE <<>>) \o prefix_of(u, base, letters, flags),
               numeral(u, base, letters), width, flags)

conversion(c, base, is_signed) == [conv |-> c, base |-> base, is_signed |-> is_signed]
Numeric == {conversion("d", 10, TRUE), conversion("u", 10, FALSE), conversion("x", 16, FALSE),
            conversion("o", 8, FALSE), conversion("z", 16, TRUE)}

(* A call: what it is promised to print, and where it prints something     *)
(* else (the slips), what that is.                                         *)
NumberJob == {[kind     |-> "number",
               fmt      |-> spec_text(flags, w, <<c.conv>>),
               args     |-> <<n>>,
               base     |-> c.base, flags |-> flags,
               promised |-> number_text(n, c.base, c.is_signed, lower, w, flags)] :
               flags \in SUBSET ToSet(Flag), w \in {-1, 5}, n \in Longs, c \in Numeric}

(* doprnt.c:60 promises capital letters for %X; the code prints small ones.*)
CapitalJob == {[kind     |-> "slip",
                fmt      |-> spec_text(flags, w, <<"X">>),
                args     |-> <<n>>,
                promised |-> number_text(n, 16, FALSE, upper, w, flags),
                printed  |-> number_text(n, 16, FALSE, lower, w, flags)] :
                flags \in SUBSET {"#", "-"}, w \in {-1, 5}, n \in {-1, 0, 31}}

(* A width from the arguments, two words for ll, a pointer.                *)
OtherJob == {[kind |-> "other", fmt |-> <<"%", "*", "d">>, args |-> <<w, 7>>,
              promised |-> padded(<<>>, <<"7">>, IF w < 0 THEN -w ELSE w, IF w < 0 THEN {"-"} ELSE {})] :
              w \in {-3, 0, 3}}
       \cup {[kind |-> "other", fmt |-> <<"%", "l", "l", "d">>, args |-> <<n>>,
              promised |-> number_text(n, 10, TRUE, lower, 0, {})] : n \in {-2000, 999}}
       \cup {[kind |-> "other", fmt |-> <<"%", "p">>, args |-> <<n>>,
              promised |-> <<"0", "x">> \o number_text(n, 16, FALSE, lower, 8, {"0"})] : n \in {0, 63}}
       \cup {[kind |-> "other", fmt |-> <<"%", "2", "s">>, args |-> <<NullText>>, promised |-> <<" ", " ">>]}
       \cup {[kind |-> "other", fmt |-> <<"NL", "%", "%", "a", "b", "c", "d", "e", "NL", "%", "c", "x", "NL">>,
              args |-> <<c>>,
              promised |-> <<"NL", "%", "a", "b", "c", "d", "e", "NL", c, "x", "NL">>] : c \in {"NUL", "y"}}

(* doprnt.c:63-66: a string of up to four characters in a field, adjusted  *)
(* to one of its sides, cut at the precision or not.  The field of a cut,  *)
(* left-adjusted string is one blank short, because the character at which *)
(* it is cut has been counted (doprnt.c:470-481).                          *)
StringJob ==
    LET fmt(flags, w, prec) == spec_text(flags, w, <<".", digs[prec + 1], "s">>)
        kept(s, prec)       == SubSeq(s, 1, IF prec < Len(s) THEN prec ELSE Len(s))
        Width == {1, 5}  Prec == {0, 2, 3}
        Text  == {<<>>, <<"a", "b">>, <<"a", "b", "c", "d">>}
    IN  {[kind     |-> IF "-" \in flags /\ prec < Len(s) THEN "slip" ELSE "other",
          fmt      |-> fmt(flags, w, prec), args |-> <<s>>,
          promised |-> padded(<<>>, kept(s, prec), w, flags),
          printed  |-> padded(<<>>, kept(s, prec), IF "-" \in flags /\ prec < Len(s) THEN w - 1 ELSE w, flags)] :
          flags \in SUBSET {"-"}, w \in Width, prec \in Prec, s \in Text}

(* doprnt.c:84-104: the first example, and the second in another base.     *)
control(n) == [control |-> TRUE, code |-> n]
name(text) == [i \in 1 .. Len(text) |-> [control |-> FALSE, char |-> text[i]]]
bit_one   == <<control(1)>> \o name(<<"O">>)
bit_two   == <<control(2)>> \o name(<<"T">>)
bit_field == <<control(4), control(3)>> \o name(<<"F", "=">>)
ended_by_nul(bits) == Append(bits, control(0))
BitsJob == {[kind |-> "other", fmt |-> <<"%", "b">>,
             args |-> <<3, ended_by_nul(<<control(8)>> \o bit_two \o bit_one)>>,
             promised |-> <<"3", "<", "T", ",", "O", ">">>],
            [kind |-> "other", fmt |-> <<"%", "b">>,
             args |-> <<11, ended_by_nul(<<control(16)>> \o bit_field \o bit_two \o bit_one)>>,
             promised |-> <<"b", "<", "F", "=", "2", ",", "T", ",", "O", ">">>]}

(* A cut string, capital letters, and the second example as it stands,     *)
(* which is wrong in its own terms: an octal base does not print 11 as b,  *)
(* and bit 2 of 11 is set.                                                 *)
SlippingJob ==
    [kind |-> "slip", fmt |-> <<"%", "-", "4", ".", "2", "s", "%", "X", "%", "b">>,
     args |-> <<<<"a", "b", "c">>, 31, 11, ended_by_nul(<<control(8)>> \o bit_field \o bit_two \o bit_one)>>,
     promised |-> <<"a", "b", " ", " ", "1", "F", "b", "<", "F", "=", "2", ",", "O", ">">>,
     printed  |-> <<"a", "b", " ", "1", "f", "1", "3", "<", "F", "=", "2", ",", "T", ",", "O", ">">>]

(* Thread 1.3 and thread 1f.20, in the widths and forms of %t.             *)
thread(opts, task, lthread, text) ==
    [kind |-> "other", fmt |-> <<"%">> \o opts \o <<"t">>,
     args |-> <<[task |-> task, lthread |-> lthread, high |-> 10, low |-> 305419896]>>,
     promised |-> text]
words == <<"0", "0", "0", "0", "0", "0", "0", "a", ":", "1", "2", "3", "4", "5", "6", "7", "8">>
ThreadJob == {thread(<<>>, 1, 3, <<"1", ".", "3">>),
              thread(<<"6">>, 1, 3, <<" ", " ", "1", ".", " ", "3">>),
              thread(<<"0", "6">>, 1, 3, <<"0", "0", "1", ".", "0", "3">>),
              thread(<<"-", "6">>, 1, 3, <<"1", ".", "3", " ", " ", " ">>),
              thread(<<"#", "8">>, 31, 32, <<" ", "[", "1", "f", ".", "2", "0", "]">>),
              thread(<<"#", "0", "8">>, 31, 32, <<"[", "0", "1", "f", ".", "2", "0", "]">>),
              thread(<<"l">>, 1, 3, words),
              thread(<<"#", "2", "0", "l">>, 1, 3, <<" ", "[">> \o words \o <<"]">>),
              thread(<<"-", "1", "8", "l">>, 1, 3, words \o <<" ">>)}

(* A text to be scanned, in a memory where other bytes follow its NUL.     *)
ScanJob == {[kind |-> "scan", fmt |-> <<"%", "s">>, args |-> <<t>>, promised |-> t] : t \in Texts}
in_memory(t) == t \o <<"NUL", "7", "q", "NUL", " ">>

MCJob == {SlippingJob} \cup NumberJob \cup CapitalJob \cup OtherJob \cup StringJob \cup BitsJob \cup ThreadJob \cup ScanJob

MCTextOf == [j \in MCJob |-> _doprnt(j.fmt, j.args, 0)]
MCChar   == UNION {Range(MCTextOf[j]) : j \in MCJob}
MCSize   == 0 .. 4

MCSlippingJob    == {SlippingJob}
MCSlippingTextOf == [j \in MCSlippingJob |-> _doprnt(j.fmt, j.args, 0)]
MCSlippingChar   == Range(_doprnt(SlippingJob.fmt, SlippingJob.args, 0))
-----------------------------------------------------------------------------
(* doprnt.c:57-117: what _doprnt prints is what its comments promise.      *)
(* False of a string cut and left-adjusted in a field, which it does not   *)
(* fill; of %X, which does not print capital letters; and of the second    *)
(* example for %b.                                                         *)
PrintsAsPromised == call = "none" => TextOf[job] = job.promised

(* doprnt.c:180-622: for every mixture of flags, width, precision and      *)
(* value, the smallest negative number included, _doprnt prints what is    *)
(* promised; and in the calls where it slips, the promised text with small *)
(* letters, or one blank short, or as the bits really are.                 *)
FormatMeetsSpec ==
    call = "none" => TextOf[job] = IF job.kind = "slip" THEN job.printed ELSE job.promised

(* What printf wrote, strtol, strtoul and sscanf read back as the number   *)
(* that was printed: no padding, sign or prefix of doprnt.c:561-610 is one *)
(* that strtol.c:31-64 mistakes, except a plus sign, which reads as zero.  *)
ReadBack ==
    job.kind = "number" /\ call = "none" =>
        LET text == TextOf[job]
            n    == long(Head(job.args))
            plus == Contains(text, "+")
        IN  /\ strtol(text, job.base).v = IF plus THEN 0 ELSE n
            /\ "#" \in job.flags /\ job.base # 10 /\ n # 0 /\ ~plus => strtol(text, 0).v = n
            /\ ~plus /\ ~Contains(text, "-") => strtoul(text, job.base).v = n % ULONG_RANGE
            /\ job.base # 8 /\ ~plus /\ Head(text) # " " /\ ~Contains(text, "x") =>
                   sscanf(text, <<"%", IF job.base = 16 THEN "x" ELSE "d">>) = [vals |-> 1, stored |-> <<n>>]

(* The value of the longest run of digits from position p on, as a sum.    *)
run(text, p, base) ==
    LET n == CHOOSE k \in 0 .. Len(text) :
                 /\ \A i \in 0 .. k - 1 : digit(char_at(text, p + i)) < base
                 /\ digit(char_at(text, p + k)) >= base
    IN  [v   |-> SumSet({0} \cup {digit(text[p + i]) * base ^ (n - 1 - i) : i \in 0 .. n - 1}) % ULONG_RANGE,
         end |-> p + n]

run_in_base(text, p, base) ==
    LET hex == char_at(text, p) = "0" /\ char_at(text, p + 1) = "x"
    IN  CASE base = 16 -> run(text, IF hex THEN p + 2 ELSE p, 16)
          [] base = 0  -> IF hex THEN run(text, p + 2, 16)
                          ELSE run(text, p, IF char_at(text, p) = "0" THEN 8 ELSE 10)
          [] OTHER     -> run(text, p, base)

(* On any text, the readers agree on the value of the digits they find,    *)
(* modulo the word, and on where the number ends, before the NUL of the    *)
(* text; sscanf and atol differ from strtol only in that they do not skip  *)
(* spaces (doscan.c:81, atoi.c:18), which a space in the format of sscanf  *)
(* makes good.  %s of sscanf alone goes past that NUL (doscan.c:148): it   *)
(* stores everything up to the next space, wherever that is.               *)
ScansAgree ==
    job.kind = "scan" /\ call = "none" =>
        LET t     == in_memory(job.promised)
            nul   == Len(job.promised) + 1
            start == CHOOSE p \in 1 .. nul : t[p] # " " /\ \A k \in 1 .. p - 1 : t[k] = " "
            minus == t[start] = "-"
        IN  /\ \A base \in {0, 8, 10, 16} :
                 LET n == run_in_base(t, IF minus THEN start + 1 ELSE start, base)
                 IN  /\ strtol(t, base) = [n EXCEPT !.v = long(IF minus THEN -@ ELSE @)]
                     /\ strtoul(t, base) = run_in_base(t, start, base)
                     /\ n.end <= nul
            /\ atol(t) = long(run(t, 1, 10).v)
            /\ sscanf(t, <<" ", "%", "d">>) = [vals |-> 1, stored |-> <<strtol(t, 10).v>>]
            /\ sscanf(t, <<"%", "x">>).stored
                   = <<long(IF t[1] = "-" THEN -run(t, 2, 16).v ELSE run(t, 1, 16).v)>>
            /\ LET from  == strtol(t, 10).end
                   space == CHOOSE p \in from .. Len(t) :
                                t[p] = " " /\ \A k \in from .. p - 1 : t[k] # " "
               IN  sscanf(t, <<" ", "%", "*", "d", "%", "s">>)
                       = [vals |-> 1, stored |-> <<SubSeq(t, from, space - 1)>>]
=============================================================================
