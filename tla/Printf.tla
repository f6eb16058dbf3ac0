------------------------------- MODULE Printf --------------------------------
(***************************************************************************)
(* printf.c, putchar.c and puts.c: the line buffer between _doprnt and     *)
(* write; and sprintf.c, which stores the same text in memory.  Both take  *)
(* one character of the text per step.  A program repeats calls with one   *)
(* format.  The structs are local variables of the calls.                  *)
(***************************************************************************)
EXTENDS Integers, Sequences, FiniteSets

CONSTANTS PRINTF_BUFMAX,
          Job,             \* the formats with their arguments
          Char, TextOf,    \* what _doprnt passes on for each of them (Doprnt.tla)
          Size             \* the sizes given to vsnprintf
ASSUME BufmaxAssumption == PRINTF_BUFMAX \in Nat \ {0}
ASSUME TextAssumption   == TextOf \in [Job -> Seq(Char)]
ASSUME SizeAssumption   == Size \subseteq Nat

VARIABLES job,       \* what the program prints
          call,      \* the call that it is in
          passed,    \* how many characters _doprnt has passed on
          buf, index,\* struct printf_state
          saved,     \* struct sprintf_state, s for what is stored before buf
          out        \* history: what write has shown since the call
vars == <<job, call, passed, buf, index, saved, out>>

UNLIMITED == -1

StaleBuf == [k \in 0 .. PRINTF_BUFMAX - 1 |-> "stale"]
Unsaved  == [s |-> <<>>, len |-> 0, max |-> UNLIMITED]

(* write shows a text up to its first NUL.                                 *)
shown(text) == CHOOSE n \in 0 .. Len(text) :
                   /\ \A i \in 1 .. n : text[i] # "NUL"
                   /\ n = Len(text) \/ text[n + 1] = "NUL"
until_nul(text)   == SubSeq(text, 1, shown(text))
first_chars(b, n) == [k \in 1 .. n |-> b[k - 1]]
write(b, n)       == until_nul(first_chars(b, n))
ended(b)          == [b EXCEPT ![index] = "NUL"]            \* buf[index] = 0
puts(b)           == write(b, PRINTF_BUFMAX) \o <<"NL">>
putchar(c)        == until_nul(<<c, "NUL", "NUL", "NUL">>)  \* the bytes of an int

Init == /\ job \in Job
        /\ call = "none" /\ passed = 0
        /\ buf = StaleBuf /\ index = 0 /\ saved = Unsaved /\ out = <<>>

Starts(name) == /\ call = "none" /\ call' = name
                /\ passed' = 0
                /\ buf' = StaleBuf /\ index' = 0 /\ out' = <<>>
                /\ UNCHANGED job

Ends(name)   == /\ call = name /\ call' = "none"
                /\ passed = Len(TextOf[job])
                /\ UNCHANGED <<job, passed>>

Passes(name) == /\ call = name
                /\ passed < Len(TextOf[job])
                /\ passed' = passed + 1
                /\ UNCHANGED <<job, call>>

passed_char == TextOf[job][passed + 1]
-----------------------------------------------------------------------------
Vprintf == Starts("printf") /\ saved' = Unsaved

full_late(i) == i >= PRINTF_BUFMAX                                   \* mutant
full(i)      == i >= PRINTF_BUFMAX - 1

flush == /\ buf' = ended(buf)
         /\ index' = 0

PrintfChar ==
    /\ Passes("printf")
    /\ \/ /\ passed_char = "NL"
          /\ flush
          /\ out' = out \o puts(ended(buf))
       \/ /\ passed_char # "NL" /\ (passed_char = "NUL" \/ full(index))
          /\ flush
          /\ out' = out \o write(ended(buf), index) \o putchar(passed_char)
       \/ /\ passed_char \notin {"NL", "NUL"} /\ ~full(index)
          /\ buf' = [buf EXCEPT ![index] = passed_char]
          /\ index' = index + 1
          /\ UNCHANGED out
    /\ UNCHANGED saved

VprintfEnds == /\ Ends("printf")
               /\ IF index # 0 THEN flush /\ out' = out \o write(ended(buf), index)
                               ELSE UNCHANGED <<buf, index, out>>
               /\ UNCHANGED saved
-----------------------------------------------------------------------------
(* vsprintf is the call without a limit.                                   *)
Vsnprintf(max) == Starts("snprintf") /\ saved' = [Unsaved EXCEPT !.max = max]

stores_one_more(st) == st.max = UNLIMITED \/ st.len <= st.max        \* mutant
stores(st)          == st.max = UNLIMITED \/ st.len # st.max

Savechar ==
    /\ Passes("snprintf")
    /\ saved' = IF stores(saved) THEN [saved EXCEPT !.len = @ + 1, !.s = Append(@, passed_char)]
                ELSE saved
    /\ UNCHANGED <<buf, index, out>>

VsnprintfEnds == /\ Ends("snprintf")
                 /\ saved' = [saved EXCEPT !.s = Append(@, "NUL")]
                 /\ UNCHANGED <<buf, index, out>>

Next == \/ Vprintf \/ PrintfChar \/ VprintfEnds
        \/ \E max \in Size \cup {UNLIMITED} : Vsnprintf(max)
        \/ Savechar \/ VsnprintfEnds

Spec == Init /\ [][Next]_vars
-----------------------------------------------------------------------------
Emitted == SubSeq(TextOf[job], 1, passed)

(* A text shows as s: the characters that are not NUL, in their order.     *)
Visible(text)     == {i \in 1 .. Len(text) : text[i] # "NUL"}
place(text, i)    == Cardinality({j \in Visible(text) : j <= i})
ShowsAs(text, s)  == /\ Len(s) = Cardinality(Visible(text))
                     /\ \A i \in Visible(text) : s[place(text, i)] = text[i]

(* printf.c:52-86: nothing is lost, doubled or reordered on the way from   *)
(* _doprnt to the terminal, whether the buffer is flushed by a newline, by *)
(* a NUL, because it is full or at the end, and no stale byte appears; the *)
(* NUL that ends the buffer stays inside it.  A NUL itself shows nothing.  *)
PrintedIsEmitted ==
    /\ index < PRINTF_BUFMAX
    /\ call = "printf" => ShowsAs(Emitted, out \o first_chars(buf, index))
    /\ call = "none"   => index = 0

(* sprintf.c:38-77: what is kept of the text in size bytes, with a NUL     *)
(* after it - which is one byte more than size when the text is cut.       *)
fitting(text) == IF saved.max = UNLIMITED \/ Len(text) < saved.max THEN text
              ELSE SubSeq(text, 1, saved.max)
SnprintfBounded ==
    /\ call = "snprintf" => saved.s = fitting(Emitted)
    /\ call = "none" /\ saved.s # <<>> =>
           /\ saved.s = Append(fitting(TextOf[job]), "NUL")
           /\ saved.len = Len(fitting(TextOf[job]))
=============================================================================
