---------------------------- MODULE LibraryProofs ----------------------------
(***************************************************************************)
(* Theorems about the user library: printf and snprintf, for any text that *)
(* _doprnt produces, any size of the line buffer and of the memory printed *)
(* into, and about the string functions, for any memory.                   *)
(***************************************************************************)
EXTENDS Printf, Strings, SequenceTheorems, FiniteSetTheorems, TLAPS

AnyChar == Char \cup {"NUL", "NL", "stale"}
-----------------------------------------------------------------------------
(* One character more of a text.                                           *)
LEMMA OneMore ==
    ASSUME NEW t \in Seq(Char), NEW n \in Nat, n < Len(t)
    PROVE  /\ SubSeq(t, 1, n) \in Seq(Char) /\ Len(SubSeq(t, 1, n)) = n
           /\ t[n + 1] \in Char
           /\ SubSeq(t, 1, n + 1) = Append(SubSeq(t, 1, n), t[n + 1])
<1> DEFINE m == n + 1
<1>1. Len(t) \in Nat /\ m \in 1 .. Len(t) /\ m \in 1 .. m /\ m - 1 = n
  BY LenProperties
<1>2. \A i \in 1 .. Len(t) : t[i] \in Char
  BY ElementOfSeq
<1>3. /\ SubSeq(t, 1, n) \in Seq(Char) /\ Len(SubSeq(t, 1, n)) = n
  BY <1>1, <1>2, SubSeqProperties
<1> HIDE DEF m
<1>4. SubSeq(t, 1, m) = SubSeq(t, 1, m - 1) \o <<t[m]>>
  <2>1. 1 \in 1 .. Len(t) /\ m \in 1 .. Len(t)
    BY <1>1
  <2> QED
    BY <2>1, SubSeqRecursiveSecond
<1>5. t[m] \in Char
  BY <1>1, <1>2
<1>6. SubSeq(t, 1, m) = Append(SubSeq(t, 1, n), t[m])
  BY <1>1, <1>3, <1>4, <1>5, AppendIsConcat
<1> QED
  BY <1>3, <1>5, <1>6 DEF m

(* A NUL more leaves what a text shows, any other character follows it.    *)
LEMMA ShowsMore ==
    ASSUME NEW t \in Seq(Char), NEW s \in Seq(AnyChar), ShowsAs(t, s), NEW c \in Char
    PROVE  /\ c = "NUL" => ShowsAs(Append(t, c), s)
           /\ c # "NUL" => ShowsAs(Append(t, c), Append(s, c))
<1> DEFINE n == Len(t)
           u == Append(t, c)
           V == Visible(t)
<1>1. /\ n \in Nat /\ Len(u) = n + 1 /\ u[n + 1] = c /\ \A i \in 1 .. n : u[i] = t[i]
      /\ Len(s) \in Nat /\ n + 1 \notin 1 .. n
  BY LenProperties, AppendProperties
<1> HIDE DEF u
<1>2. V \subseteq 1 .. n /\ IsFiniteSet(V) /\ Cardinality(V) \in Nat /\ n + 1 \notin V
  <2>1. V \subseteq 1 .. n
    BY DEF Visible
  <2>2. IsFiniteSet(V)
    <3>1. IsFiniteSet(1 .. n)
      BY <1>1, FS_Interval
    <3> QED
      BY <2>1, <3>1, FS_Subset
  <2> QED
    BY <1>1, <2>1, <2>2, FS_CardinalityType
<1>3. Visible(u) = IF c = "NUL" THEN V ELSE V \cup {n + 1}
  BY <1>1 DEF Visible
<1>4. ASSUME NEW i \in V
      PROVE  place(u, i) = place(t, i) /\ place(t, i) \in 1 .. Len(s) /\ u[i] = t[i]
  <2>1. i \in 1 .. n /\ u[i] = t[i]
    BY <1>1, <1>2
  <2>2. {j \in Visible(u) : j <= i} = {j \in V : j <= i}
    BY <1>1, <1>3, <2>1
  <2> DEFINE B == {j \in V : j <= i}
  <2>3. IsFiniteSet(B) /\ Cardinality(B) <= Cardinality(V)
    BY <1>2, FS_Subset
  <2>4. Cardinality(B) \in Nat /\ (Cardinality(B) = 0 => B = {})
    BY <2>3, FS_CardinalityType, FS_EmptySet
  <2>5. i \in B
    BY <1>2, <2>1
  <2>6. Cardinality(B) # 0
    BY <2>4, <2>5
  <2>7. Len(s) = Cardinality(V)
    BY DEF ShowsAs
  <2>8. place(u, i) = Cardinality(B) /\ place(t, i) = Cardinality(B)
    BY <2>2 DEF place
  <2> HIDE DEF B
  <2> QED
    BY <1>2, <2>1, <2>3, <2>4, <2>6, <2>7, <2>8
<1>5. CASE c = "NUL"
  BY <1>3, <1>4, <1>5 DEF ShowsAs, u
<1>6. CASE c # "NUL"
  <2> DEFINE r == Append(s, c)
  <2>1. Len(r) = Len(s) + 1 /\ r[Len(s) + 1] = c /\ \A i \in 1 .. Len(s) : r[i] = s[i]
    BY AppendProperties DEF AnyChar
  <2> HIDE DEF r
  <2>2. Visible(u) = V \cup {n + 1} /\ Cardinality(Visible(u)) = Cardinality(V) + 1
    BY <1>2, <1>3, <1>6, FS_AddElement
  <2>3. Len(s) = Cardinality(V) /\ \A i \in V : s[place(t, i)] = t[i]
    BY DEF ShowsAs
  <2>4. place(u, n + 1) = Len(s) + 1
    <3>1. {j \in Visible(u) : j <= n + 1} = Visible(u)
      BY <1>1, <1>2, <2>2
    <3> QED
      BY <2>2, <2>3, <3>1 DEF place
  <2>5. ASSUME NEW i \in Visible(u)
        PROVE  r[place(u, i)] = u[i]
    <3>1. CASE i = n + 1
      BY <1>1, <2>1, <2>4, <3>1
    <3>2. CASE i \in V
      BY <1>4, <2>1, <2>3, <3>2
    <3> QED
      BY <2>2, <3>1, <3>2
  <2> QED
    BY <1>6, <2>1, <2>2, <2>3, <2>5 DEF ShowsAs, r, u
<1> QED
  BY <1>5, <1>6

LEMMA ShowsNothing == ShowsAs(<<>>, <<>>)
<1>1. Visible(<<>>) = {}
  BY DEF Visible
<1> QED
  BY <1>1, FS_EmptySet DEF ShowsAs

(* What write shows of a text with its first NUL at n + 1.                 *)
LEMMA UntilNul ==
    ASSUME NEW t, Len(t) \in Nat, NEW n \in 0 .. Len(t),
           \A i \in 1 .. n : t[i] # "NUL", n = Len(t) \/ t[n + 1] = "NUL"
    PROVE  until_nul(t) = SubSeq(t, 1, n)
<1> DEFINE First(k) == (\A i \in 1 .. k : t[i] # "NUL") /\ (k = Len(t) \/ t[k + 1] = "NUL")
<1>1. shown(t) \in 0 .. Len(t) /\ First(shown(t))
  <2>1. \E k \in 0 .. Len(t) : First(k)
    OBVIOUS
  <2>2. shown(t) = CHOOSE k \in 0 .. Len(t) : First(k)
    BY DEF shown
  <2> HIDE DEF First
  <2> QED
    BY <2>1, <2>2
<1>2. shown(t) = n
  <2>1. ~(shown(t) < n)
    <3>1. ASSUME shown(t) < n
          PROVE  FALSE
      <4>1. shown(t) + 1 \in 1 .. n /\ shown(t) # Len(t)
        BY <1>1, <3>1
      <4> QED
        BY <1>1, <4>1
    <3> QED
      BY <3>1
  <2>2. ~(n < shown(t))
    <3>1. ASSUME n < shown(t)
          PROVE  FALSE
      <4>1. n + 1 \in 1 .. shown(t) /\ n # Len(t)
        BY <1>1, <3>1
      <4> QED
        BY <1>1, <4>1
    <3> QED
      BY <3>1
  <2> QED
    BY <1>1, <2>1, <2>2
<1> QED
  BY <1>2 DEF until_nul
-----------------------------------------------------------------------------
(* The line buffer: n characters of a text that are not NUL.               *)
Holds(b, n) == /\ n \in 0 .. PRINTF_BUFMAX - 1
               /\ b \in [0 .. PRINTF_BUFMAX - 1 -> AnyChar]
               /\ \A k \in 0 .. n - 1 : b[k] # "NUL"

LEMMA FirstChars ==
    ASSUME NEW b \in [0 .. PRINTF_BUFMAX - 1 -> AnyChar], NEW n \in 0 .. PRINTF_BUFMAX
    PROVE  /\ first_chars(b, n) \in Seq(AnyChar) /\ Len(first_chars(b, n)) = n
           /\ \A i \in 1 .. n : first_chars(b, n)[i] = b[i - 1]
<1>1. n \in Nat /\ \A i \in 1 .. n : i - 1 \in 0 .. PRINTF_BUFMAX - 1
  BY BufmaxAssumption
<1>2. \A i \in 1 .. n : b[i - 1] \in AnyChar
  BY <1>1
<1> QED
  BY <1>1, <1>2 DEF first_chars

(* Whether it is told the length or goes by the NUL, write shows just the  *)
(* characters that the buffer holds.                                       *)
LEMMA Flushed ==
    ASSUME NEW b, NEW n, Holds(b, n), NEW e, e = [b EXCEPT ![n] = "NUL"]
    PROVE  /\ e \in [0 .. PRINTF_BUFMAX - 1 -> AnyChar]
           /\ write(e, n) = first_chars(b, n)
           /\ write(e, PRINTF_BUFMAX) = first_chars(b, n)
<1>1. /\ n \in Nat /\ PRINTF_BUFMAX \in Nat /\ n < PRINTF_BUFMAX
      /\ b \in [0 .. PRINTF_BUFMAX - 1 -> AnyChar] /\ n \in 0 .. PRINTF_BUFMAX - 1
      /\ \A k \in 0 .. n - 1 : b[k] # "NUL"
  BY BufmaxAssumption DEF Holds
<1>2. /\ e \in [0 .. PRINTF_BUFMAX - 1 -> AnyChar] /\ e[n] = "NUL"
      /\ \A k \in 0 .. n - 1 : e[k] = b[k]
  BY <1>1 DEF AnyChar
<1>3. /\ first_chars(b, n) \in Seq(AnyChar) /\ Len(first_chars(b, n)) = n
      /\ \A i \in 1 .. n : first_chars(b, n)[i] = b[i - 1]
  BY <1>1, FirstChars
<1>4. ASSUME NEW m \in {n, PRINTF_BUFMAX}
      PROVE  write(e, m) = first_chars(b, n)
  <2> DEFINE w == first_chars(e, m)
  <2>1. /\ w \in Seq(AnyChar) /\ Len(w) = m /\ m \in Nat /\ n \in 0 .. m
        /\ \A i \in 1 .. m : w[i] = e[i - 1]
    <3>1. m \in 0 .. PRINTF_BUFMAX /\ m \in Nat /\ n \in 0 .. m
      BY <1>1
    <3>2. /\ w \in Seq(AnyChar) /\ Len(w) = m
          /\ \A i \in 1 .. m : w[i] = e[i - 1]
      BY <1>2, <3>1, FirstChars
    <3> QED
      BY <3>1, <3>2
  <2> HIDE DEF w
  <2>2. ASSUME NEW i \in 1 .. n
        PROVE  w[i] = b[i - 1] /\ b[i - 1] # "NUL"
    <3>1. i - 1 \in 0 .. n - 1 /\ i \in 1 .. m
      BY <1>1, <2>1
    <3> QED
      BY <1>1, <1>2, <2>1, <3>1
  <2>3. n # m => w[n + 1] = "NUL"
    <3>1. n # m => n + 1 \in 1 .. m /\ (n + 1) - 1 = n
      BY <1>1, <2>1
    <3> QED
      BY <1>2, <2>1, <3>1
  <2>4. until_nul(w) = SubSeq(w, 1, n)
    BY <2>1, <2>2, <2>3, UntilNul
  <2>5. /\ SubSeq(w, 1, n) \in Seq(AnyChar) /\ Len(SubSeq(w, 1, n)) = n
        /\ \A i \in 1 .. n : SubSeq(w, 1, n)[i] = w[i]
    <3>1. \A i \in 1 .. n : w[i] \in AnyChar
      BY <2>1, ElementOfSeq
    <3> QED
      BY <1>1, <3>1, SubSeqProperties
  <2>6. SubSeq(w, 1, n) = first_chars(b, n)
    BY <1>3, <2>2, <2>5, SeqEqual
  <2> QED
    BY <2>4, <2>6 DEF write, w
<1> QED
  BY <1>2, <1>4

(* putchar writes the four bytes of an int and shows one character.        *)
LEMMA PutsOne ==
    ASSUME NEW c \in Char
    PROVE  putchar(c) = IF c = "NUL" THEN <<>> ELSE <<c>>
<1> DEFINE w == <<c, "NUL", "NUL", "NUL">>
<1>1. w \in Seq(AnyChar) /\ Len(w) = 4 /\ w[1] = c /\ w[2] = "NUL"
  BY DEF AnyChar
<1> HIDE DEF w
<1>2. CASE c = "NUL"
  <2>1. until_nul(w) = SubSeq(w, 1, 0)
    BY <1>1, <1>2, UntilNul
  <2> QED
    BY <1>2, <2>1, SubSeqEmpty DEF putchar, w
<1>3. CASE c # "NUL"
  <2>1. PICK n \in 0 .. 4 : n = 1
    OBVIOUS
  <2>2. \A i \in 1 .. n : i = 1 /\ w[i] = c
    BY <1>1, <2>1
  <2>3. n + 1 = 2
    BY <2>1
  <2>4. until_nul(w) = SubSeq(w, 1, n)
    BY <1>1, <1>3, <2>2, <2>3, UntilNul
  <2>5. SubSeq(w, 1, n) = <<c>>
    <3>1. \A i \in 1 .. n : w[i] \in Char
      BY <2>2
    <3>2. /\ SubSeq(w, 1, n) \in Seq(Char) /\ Len(SubSeq(w, 1, n)) = 1
          /\ \A i \in 1 .. 1 : SubSeq(w, 1, n)[i] = c
      <4>1. /\ SubSeq(w, 1, n) \in Seq(Char) /\ Len(SubSeq(w, 1, n)) = n - 1 + 1
            /\ \A i \in 1 .. n - 1 + 1 : SubSeq(w, 1, n)[i] = w[1 + i - 1]
        BY <2>1, <3>1, SubSeqProperties
      <4> QED
        BY <1>1, <2>1, <4>1
    <3>3. <<c>> \in Seq(Char) /\ Len(<<c>>) = 1 /\ \A i \in 1 .. 1 : <<c>>[i] = c
      OBVIOUS
    <3> QED
      BY <3>2, <3>3, SeqEqual
  <2> QED
    BY <1>3, <2>4, <2>5 DEF putchar, w
<1> QED
  BY <1>2, <1>3
-----------------------------------------------------------------------------
LineOK == /\ job \in Job /\ call \in {"none", "printf", "snprintf"}
          /\ passed \in 0 .. Len(TextOf[job])
          /\ Holds(buf, index) /\ out \in Seq(AnyChar)
          /\ call # "printf" => index = 0
          /\ call = "printf" => ShowsAs(Emitted, out \o first_chars(buf, index))

LEMMA FreshLine == Holds(StaleBuf, 0) /\ <<>> \in Seq(AnyChar) /\ first_chars(StaleBuf, 0) = <<>>
<1>1. 0 \in 0 .. PRINTF_BUFMAX - 1 /\ 0 \in 0 .. PRINTF_BUFMAX
  BY BufmaxAssumption
<1>2. Holds(StaleBuf, 0)
  BY <1>1 DEF Holds, StaleBuf, AnyChar
<1>3. first_chars(StaleBuf, 0) \in Seq(AnyChar) /\ Len(first_chars(StaleBuf, 0)) = 0
  BY <1>1, <1>2, FirstChars DEF Holds
<1> QED
  BY <1>2, <1>3, EmptySeq

LEMMA TextIsSeq == ASSUME job \in Job PROVE TextOf[job] \in Seq(Char) /\ Len(TextOf[job]) \in Nat
BY TextAssumption, LenProperties

(* The first or the next character is passed on.                           *)
LEMMA PassedOK ==
    ASSUME LineOK, NEW name, Passes(name)
    PROVE  /\ job' = job /\ call' = call /\ call = name
           /\ passed' \in 0 .. Len(TextOf[job]) /\ passed_char \in Char
           /\ Emitted \in Seq(Char) /\ Len(Emitted) = passed
           /\ Emitted' = Append(Emitted, passed_char)
<1>1. /\ TextOf[job] \in Seq(Char) /\ Len(TextOf[job]) \in Nat /\ passed \in Nat
      /\ passed < Len(TextOf[job]) /\ passed' = passed + 1 /\ job' = job /\ call' = call
      /\ call = name
  BY TextIsSeq DEF LineOK, Passes
<1>2. /\ SubSeq(TextOf[job], 1, passed) \in Seq(Char) /\ Len(SubSeq(TextOf[job], 1, passed)) = passed
      /\ TextOf[job][passed + 1] \in Char
      /\ SubSeq(TextOf[job], 1, passed + 1) = Append(SubSeq(TextOf[job], 1, passed), TextOf[job][passed + 1])
  BY <1>1, OneMore
<1>3. Emitted' = SubSeq(TextOf[job], 1, passed + 1)
  BY <1>1 DEF Emitted
<1>4. passed' \in 0 .. Len(TextOf[job])
  BY <1>1
<1> QED
  BY <1>1, <1>2, <1>3, <1>4 DEF Emitted, passed_char

LEMMA StartsOK ==
    ASSUME LineOK, NEW name \in {"printf", "snprintf"}, Starts(name)
    PROVE  LineOK' /\ Emitted' = <<>> /\ call = "none" /\ call' = name
<1>1. /\ job' = job /\ call' = name /\ passed' = 0 /\ buf' = StaleBuf /\ index' = 0 /\ out' = <<>>
      /\ call = "none"
  BY DEF Starts
<1>2. Emitted' = <<>>
  BY <1>1, SubSeqEmpty DEF Emitted
<1>3. passed' \in 0 .. Len(TextOf[job]) /\ job \in Job
  BY <1>1, TextIsSeq DEF LineOK
<1>4. ShowsAs(Emitted', out' \o first_chars(buf', index'))
  <2>1. out' \o first_chars(buf', index') = <<>>
    BY <1>1, FreshLine, ConcatEmptySeq
  <2> QED
    BY <1>2, <2>1, ShowsNothing
<1>5. Holds(buf', index') /\ out' \in Seq(AnyChar)
  BY <1>1, FreshLine
<1> QED
  BY <1>1, <1>2, <1>3, <1>4, <1>5 DEF LineOK

LEMMA PrintfCharOK ==
    ASSUME LineOK, PrintfChar
    PROVE  LineOK'
<1> DEFINE c == passed_char
           f == first_chars(buf, index)
           s == out \o f
<1>1. /\ Holds(buf, index) /\ out \in Seq(AnyChar) /\ job \in Job
      /\ Passes("printf") /\ call' = "printf" /\ job' = job /\ passed' \in 0 .. Len(TextOf[job])
      /\ c \in Char /\ Emitted \in Seq(Char) /\ Emitted' = Append(Emitted, c)
      /\ ShowsAs(Emitted, s)
  BY PassedOK DEF LineOK, PrintfChar
<1>2. /\ index \in 0 .. PRINTF_BUFMAX - 1 /\ index \in Nat /\ PRINTF_BUFMAX \in Nat
      /\ buf \in [0 .. PRINTF_BUFMAX - 1 -> AnyChar] /\ index \in 0 .. PRINTF_BUFMAX
      /\ 0 \in 0 .. PRINTF_BUFMAX - 1
  BY <1>1, BufmaxAssumption DEF Holds
<1>3. f \in Seq(AnyChar) /\ s \in Seq(AnyChar) /\ c \in AnyChar
  <2>1. f \in Seq(AnyChar)
    BY <1>2, FirstChars
  <2> QED
    BY <1>1, <2>1, ConcatProperties DEF AnyChar
<1>4. /\ c = "NUL" => ShowsAs(Append(Emitted, c), s)
      /\ c # "NUL" => ShowsAs(Append(Emitted, c), Append(s, c))
  BY <1>1, <1>3, ShowsMore
<1>5. /\ ended(buf) \in [0 .. PRINTF_BUFMAX - 1 -> AnyChar]
      /\ write(ended(buf), index) = f
      /\ write(ended(buf), PRINTF_BUFMAX) = f
  <2>1. ended(buf) = [buf EXCEPT ![index] = "NUL"]
    BY DEF ended
  <2> QED
    BY <1>1, <2>1, Flushed
<1>6. ASSUME flush
      PROVE  Holds(buf', index') /\ first_chars(buf', index') = <<>>
  <2>1. buf' = ended(buf) /\ index' = 0
    BY <1>6 DEF flush
  <2>2. Holds(buf', 0)
    BY <1>2, <1>5, <2>1 DEF Holds
  <2>3. first_chars(buf', 0) \in Seq(AnyChar) /\ Len(first_chars(buf', 0)) = 0
    <3>1. 0 \in 0 .. PRINTF_BUFMAX
      BY <1>2
    <3> QED
      BY <1>5, <2>1, <3>1, FirstChars
  <2> QED
    BY <2>1, <2>2, <2>3, EmptySeq
<1> HIDE DEF c, s, f
<1>7. CASE c = "NL" /\ flush /\ out' = out \o puts(ended(buf))
  <2>1. puts(ended(buf)) = Append(f, c)
    <3>1. puts(ended(buf)) = f \o <<c>>
      BY <1>5, <1>7 DEF puts
    <3> QED
      BY <1>3, <3>1, AppendIsConcat
  <2>2. out' = Append(s, c)
    <3>1. <<c>> \in Seq(AnyChar)
      BY <1>3
    <3>2. out \o (f \o <<c>>) = (out \o f) \o <<c>>
      BY <1>1, <1>3, <3>1, ConcatAssociative
    <3> QED
      BY <1>3, <1>7, <2>1, <3>2, AppendIsConcat DEF s
  <2>3. out' \in Seq(AnyChar)
    BY <1>3, <2>2, AppendProperties
  <2>4. out' \o first_chars(buf', index') = Append(s, c)
    BY <1>6, <1>7, <2>2, <2>3, ConcatEmptySeq
  <2>5. ShowsAs(Emitted', out' \o first_chars(buf', index'))
    BY <1>1, <1>4, <1>7, <2>4
  <2> QED
    BY <1>1, <1>6, <1>7, <2>3, <2>5 DEF LineOK
<1>8. CASE flush /\ out' = out \o write(ended(buf), index) \o putchar(c)
  <2>1. putchar(c) = IF c = "NUL" THEN <<>> ELSE <<c>>
    BY <1>1, PutsOne
  <2>2. out' = s \o putchar(c)
    BY <1>5, <1>8 DEF s
  <2>3. out' = IF c = "NUL" THEN s ELSE Append(s, c)
    BY <1>3, <2>1, <2>2, ConcatEmptySeq, AppendIsConcat
  <2>4. out' \in Seq(AnyChar)
    BY <1>3, <2>3, AppendProperties
  <2>5. out' \o first_chars(buf', index') = out'
    BY <1>6, <1>8, <2>4, ConcatEmptySeq
  <2>6. ShowsAs(Emitted', out' \o first_chars(buf', index'))
    BY <1>1, <1>4, <2>3, <2>5
  <2> QED
    BY <1>1, <1>6, <1>8, <2>4, <2>6 DEF LineOK
<1>9. CASE /\ c # "NUL" /\ ~full(index)
           /\ buf' = [buf EXCEPT ![index] = c] /\ index' = index + 1 /\ out' = out
  <2> DEFINE m == index + 1
  <2>1. m \in 0 .. PRINTF_BUFMAX - 1 /\ m \in 0 .. PRINTF_BUFMAX
    BY <1>2, <1>9 DEF full
  <2>2. /\ buf' \in [0 .. PRINTF_BUFMAX - 1 -> AnyChar] /\ buf'[index] = c
        /\ \A k \in 0 .. index - 1 : buf'[k] = buf[k]
    BY <1>2, <1>3, <1>9
  <2>3. Holds(buf', m)
    <3>1. ASSUME NEW k \in 0 .. m - 1
          PROVE  buf'[k] # "NUL"
      <4>1. k = index \/ k \in 0 .. index - 1
        BY <1>2
      <4> QED
        BY <1>1, <1>9, <2>2, <4>1 DEF Holds
    <3> QED
      BY <2>1, <2>2, <3>1 DEF Holds
  <2>4. first_chars(buf', m) = Append(f, c)
    <3>1. /\ first_chars(buf', m) \in Seq(AnyChar) /\ Len(first_chars(buf', m)) = m
          /\ \A i \in 1 .. m : first_chars(buf', m)[i] = buf'[i - 1]
      BY <2>1, <2>2, FirstChars
    <3>2. /\ Len(f) = index /\ \A i \in 1 .. index : f[i] = buf[i - 1]
      BY <1>2, FirstChars DEF f
    <3>3. /\ Append(f, c) \in Seq(AnyChar) /\ Len(Append(f, c)) = m
          /\ \A i \in 1 .. index : Append(f, c)[i] = f[i]
          /\ Append(f, c)[m] = c
      BY <1>3, <3>2, AppendProperties
    <3>4. ASSUME NEW i \in 1 .. m
          PROVE  first_chars(buf', m)[i] = Append(f, c)[i]
      <4>1. CASE i = m
        <5>1. i - 1 = index
          BY <1>2, <4>1
        <5> QED
          BY <2>2, <3>1, <3>3, <4>1, <5>1
      <4>2. CASE i # m
        <5>1. i \in 1 .. index /\ i - 1 \in 0 .. index - 1
          BY <1>2, <4>2
        <5> QED
          BY <2>2, <3>1, <3>2, <3>3, <5>1
      <4> QED
        BY <4>1, <4>2
    <3> QED
      BY <3>1, <3>3, <3>4, SeqEqual
  <2> HIDE DEF m
  <2>5. out' \o first_chars(buf', m) = Append(s, c)
    <3>1. <<c>> \in Seq(AnyChar)
      BY <1>3
    <3>2. out \o (f \o <<c>>) = (out \o f) \o <<c>>
      BY <1>1, <1>3, <3>1, ConcatAssociative
    <3> QED
      BY <1>3, <1>9, <2>4, <3>2, AppendIsConcat DEF s
  <2>6. ShowsAs(Emitted', out' \o first_chars(buf', index'))
    BY <1>1, <1>4, <1>9, <2>5 DEF m
  <2> QED
    BY <1>1, <1>9, <2>3, <2>6 DEF LineOK, m
<1> QED
  BY <1>7, <1>8, <1>9 DEF PrintfChar, c

LEMMA VprintfEndsOK ==
    ASSUME LineOK, VprintfEnds
    PROVE  LineOK'
<1>1. /\ Holds(buf, index) /\ out \in Seq(AnyChar) /\ job' = job /\ passed' = passed /\ call' = "none"
  BY DEF LineOK, VprintfEnds, Ends
<1>2. CASE index # 0
  <2>1. buf' = ended(buf) /\ index' = 0 /\ out' = out \o write(ended(buf), index)
    BY <1>2 DEF VprintfEnds, flush
  <2>2. /\ ended(buf) \in [0 .. PRINTF_BUFMAX - 1 -> AnyChar]
        /\ write(ended(buf), index) = first_chars(buf, index)
    <3>1. ended(buf) = [buf EXCEPT ![index] = "NUL"]
      BY DEF ended
    <3> QED
      BY <1>1, <3>1, Flushed
  <2>3. first_chars(buf, index) \in Seq(AnyChar)
    BY <1>1, BufmaxAssumption, FirstChars DEF Holds
  <2>4. out' \in Seq(AnyChar)
    BY <1>1, <2>1, <2>2, <2>3, ConcatProperties
  <2>5. Holds(buf', index')
    BY <2>1, <2>2, BufmaxAssumption DEF Holds
  <2> QED
    BY <1>1, <2>1, <2>4, <2>5 DEF LineOK
<1>3. CASE index = 0
  BY <1>1, <1>3 DEF LineOK, VprintfEnds
<1> QED
  BY <1>2, <1>3

LEMMA LineInit == Init => LineOK
BY FreshLine, TextIsSeq DEF Init, LineOK

LEMMA LineNext == LineOK /\ [Next]_vars => LineOK'
<1> SUFFICES ASSUME LineOK, [Next]_vars
             PROVE  LineOK'
  OBVIOUS
<1>1. CASE Vprintf
  BY <1>1, StartsOK DEF Vprintf
<1>2. CASE PrintfChar
  BY <1>2, PrintfCharOK
<1>3. CASE VprintfEnds
  BY <1>3, VprintfEndsOK
<1>4. CASE \E max \in Size \cup {UNLIMITED} : Vsnprintf(max)
  BY <1>4, StartsOK DEF Vsnprintf
<1>5. CASE Savechar
  <2>1. Passes("snprintf") /\ UNCHANGED <<buf, index, out>>
    BY <1>5 DEF Savechar
  <2> QED
    BY <2>1, PassedOK DEF LineOK
<1>6. CASE VsnprintfEnds
  BY <1>6 DEF VsnprintfEnds, Ends, LineOK
<1>7. CASE UNCHANGED vars
  BY <1>7 DEF vars, LineOK, Emitted
<1> QED
  BY <1>1, <1>2, <1>3, <1>4, <1>5, <1>6, <1>7 DEF Next

(* printf shows the text it formats, nothing lost, doubled or reordered,   *)
(* whichever way the buffer is flushed (printf.c:44-90).                   *)
THEOREM PrintfShowsText == Spec => []PrintedIsEmitted
<1>1. LineOK => PrintedIsEmitted
  BY BufmaxAssumption DEF LineOK, PrintedIsEmitted, Holds
<1> QED
  BY <1>1, LineInit, LineNext, PTL DEF Spec
-----------------------------------------------------------------------------
(* The memory printed into: what is kept of a text, and of one more char.  *)
LEMMA Fitting ==
    ASSUME saved.max \in Nat \cup {UNLIMITED}, NEW t \in Seq(Char)
    PROVE  /\ fitting(t) \in Seq(Char)
           /\ saved.max = UNLIMITED \/ Len(t) < saved.max => fitting(t) = t
           /\ saved.max # UNLIMITED => Len(fitting(t)) = IF Len(t) < saved.max THEN Len(t) ELSE saved.max
<1>1. Len(t) \in Nat /\ \A i \in 1 .. Len(t) : t[i] \in Char
  BY LenProperties, ElementOfSeq
<1>2. CASE saved.max = UNLIMITED \/ Len(t) < saved.max
  BY <1>1, <1>2 DEF fitting, UNLIMITED
<1>3. CASE saved.max # UNLIMITED /\ ~(Len(t) < saved.max)
  <2> DEFINE m == saved.max
  <2>1. m \in Nat /\ m \in 1 - 1 .. Len(t) /\ m - 1 + 1 = m
    BY <1>1, <1>3
  <2>2. fitting(t) = SubSeq(t, 1, m)
    BY <1>3 DEF fitting
  <2> HIDE DEF m
  <2>3. SubSeq(t, 1, m) \in Seq(Char) /\ Len(SubSeq(t, 1, m)) = m
    <3>1. \A i \in 1 .. m : t[i] \in Char
      BY <1>1, <2>1
    <3> QED
      BY <2>1, <3>1, SubSeqProperties
  <2> QED
    BY <1>3, <2>2, <2>3 DEF m
<1> QED
  BY <1>2, <1>3

LEMMA FittingMore ==
    ASSUME saved.max \in Nat \cup {UNLIMITED}, NEW t \in Seq(Char), NEW c \in Char,
           saved.len = Len(fitting(t))
    PROVE  fitting(Append(t, c)) = IF stores(saved) THEN Append(fitting(t), c) ELSE fitting(t)
<1> DEFINE n == Len(t)
           m == saved.max
           u == Append(t, c)
<1>1. /\ n \in Nat /\ u \in Seq(Char) /\ Len(u) = n + 1 /\ u[n + 1] = c
      /\ \A i \in 1 .. n : u[i] = t[i]
      /\ m = UNLIMITED \/ m \in Nat
      /\ \A i \in 1 .. n + 1 : u[i] \in Char
      /\ \A i \in 1 .. n : t[i] \in Char
  BY LenProperties, AppendProperties, ElementOfSeq
<1>2. /\ m = UNLIMITED \/ n < m => fitting(t) = t
      /\ m # UNLIMITED => Len(fitting(t)) = IF n < m THEN n ELSE m
  BY Fitting
<1>3. fitting(u) = IF m = UNLIMITED \/ n + 1 < m THEN u ELSE SubSeq(u, 1, m)
  BY <1>1 DEF fitting
<1>4. fitting(t) = IF m = UNLIMITED \/ n < m THEN t ELSE SubSeq(t, 1, m)
  BY DEF fitting
<1>5. stores(saved) <=> m = UNLIMITED \/ saved.len # m
  BY DEF stores
<1> HIDE DEF u, m, n
<1>6. CASE m = UNLIMITED
  BY <1>3, <1>4, <1>5, <1>6 DEF u
<1>7. CASE m # UNLIMITED /\ n < m
  <2>1. n + 1 < m \/ n + 1 = m
    BY <1>1, <1>7
  <2>2. n + 1 = m => SubSeq(u, 1, m) = u
    BY <1>1, SubSeqFull
  <2>3. stores(saved) /\ fitting(t) = t
    BY <1>1, <1>2, <1>5, <1>7
  <2> QED
    BY <1>3, <2>1, <2>2, <2>3 DEF u
<1>8. CASE m # UNLIMITED /\ ~(n < m)
  <2>1. m \in Nat /\ m \in 0 .. n /\ m \in 0 .. n + 1 /\ ~(n + 1 < m) /\ saved.len = m
    BY <1>1, <1>2, <1>8
  <2>2. \A i \in 1 .. m : i \in 1 .. n
    BY <1>1, <2>1
  <2>3. /\ SubSeq(u, 1, m) \in Seq(Char) /\ Len(SubSeq(u, 1, m)) = m
        /\ \A i \in 1 .. m : SubSeq(u, 1, m)[i] = u[i]
    BY <1>1, <2>1, <2>2, SubSeqProperties
  <2>4. /\ SubSeq(t, 1, m) \in Seq(Char) /\ Len(SubSeq(t, 1, m)) = m
        /\ \A i \in 1 .. m : SubSeq(t, 1, m)[i] = t[i]
    BY <1>1, <2>1, <2>2, SubSeqProperties
  <2>5. \A i \in 1 .. m : u[i] = t[i]
    BY <1>1, <2>2
  <2>6. SubSeq(u, 1, m) = SubSeq(t, 1, m)
    BY <2>3, <2>4, <2>5, SeqEqual
  <2> QED
    BY <1>3, <1>4, <1>5, <1>8, <2>1, <2>6 DEF u
<1> QED
  BY <1>6, <1>7, <1>8 DEF u
-----------------------------------------------------------------------------
SavedOK == /\ saved \in [s : Seq(AnyChar), len : Nat, max : Size \cup {UNLIMITED}]
           /\ call = "printf"   => saved.s = <<>>
           /\ call = "snprintf" => saved.s = fitting(Emitted) /\ saved.len = Len(fitting(Emitted))
           /\ call = "none" /\ saved.s # <<>> =>
                  /\ saved.s = Append(fitting(TextOf[job]), "NUL")
                  /\ saved.len = Len(fitting(TextOf[job]))

LEMMA MaxType == ASSUME SavedOK PROVE saved.max \in Nat \cup {UNLIMITED}
BY SizeAssumption DEF SavedOK

LEMMA UnsavedOK == Unsaved \in [s : Seq(AnyChar), len : Nat, max : Size \cup {UNLIMITED}]
BY DEF Unsaved

LEMMA SavedInit == Init => SavedOK
BY UnsavedOK DEF Init, SavedOK, Unsaved

LEMMA VsnprintfOK ==
    ASSUME LineOK, SavedOK, NEW max \in Size \cup {UNLIMITED}, Vsnprintf(max)
    PROVE  SavedOK'
<1>1. saved' = [Unsaved EXCEPT !.max = max] /\ call' = "snprintf" /\ Emitted' = <<>>
  BY StartsOK DEF Vsnprintf
<1>2. /\ saved' \in [s : Seq(AnyChar), len : Nat, max : Size \cup {UNLIMITED}]
      /\ saved'.s = <<>> /\ saved'.len = 0 /\ saved'.max = max
  <2>1. saved' = [s |-> <<>>, len |-> 0, max |-> max]
    BY <1>1 DEF Unsaved
  <2>2. <<>> \in Seq(AnyChar) /\ 0 \in Nat
    OBVIOUS
  <2> QED
    BY <2>1, <2>2
<1>3. max = UNLIMITED \/ max \in Nat
  BY SizeAssumption
<1>4. fitting(Emitted)' = <<>>
  <2>1. fitting(Emitted)' = IF max = UNLIMITED \/ 0 < max THEN <<>> ELSE SubSeq(<<>>, 1, max)
    BY <1>1, <1>2 DEF fitting
  <2>2. max # UNLIMITED /\ ~(0 < max) => max = 0
    BY <1>3
  <2> QED
    BY <2>1, <2>2, SubSeqEmpty
<1> QED
  BY <1>1, <1>2, <1>4 DEF SavedOK

LEMMA SavecharOK ==
    ASSUME LineOK, SavedOK, Savechar
    PROVE  SavedOK'
<1> DEFINE c == passed_char
           f == fitting(Emitted)
<1>1. /\ job' = job /\ call = "snprintf" /\ call' = "snprintf"
      /\ c \in Char /\ Emitted \in Seq(Char) /\ Emitted' = Append(Emitted, c)
  BY PassedOK DEF Savechar
<1>2. /\ saved \in [s : Seq(AnyChar), len : Nat, max : Size \cup {UNLIMITED}]
      /\ saved.s = f /\ saved.len = Len(f)
  BY <1>1 DEF SavedOK
<1>3. f \in Seq(Char)
  BY <1>1, MaxType, Fitting
<1>4. fitting(Append(Emitted, c)) = IF stores(saved) THEN Append(f, c) ELSE f
  BY <1>1, <1>2, MaxType, FittingMore
<1>5. saved' = IF stores(saved) THEN [saved EXCEPT !.len = @ + 1, !.s = Append(@, c)] ELSE saved
  BY DEF Savechar
<1> HIDE DEF f, c
<1>6. Append(f, c) \in Seq(AnyChar) /\ Len(Append(f, c)) = Len(f) + 1
  BY <1>1, <1>3, AppendProperties DEF AnyChar
<1>7. /\ saved' \in [s : Seq(AnyChar), len : Nat, max : Size \cup {UNLIMITED}]
      /\ saved'.max = saved.max
      /\ saved'.s = (IF stores(saved) THEN Append(f, c) ELSE f) /\ saved'.len = Len(saved'.s)
  <2>1. CASE stores(saved)
    <3>1. saved' = [s |-> Append(f, c), len |-> Len(f) + 1, max |-> saved.max]
      BY <1>2, <1>5, <2>1
    <3>2. Len(f) + 1 \in Nat /\ saved.max \in Size \cup {UNLIMITED}
      BY <1>2
    <3> QED
      BY <1>6, <2>1, <3>1, <3>2
  <2>2. CASE ~stores(saved)
    BY <1>2, <1>5, <2>2
  <2> QED
    BY <2>1, <2>2
<1>8. fitting(Emitted)' = fitting(Append(Emitted, c))
  BY <1>1, <1>7 DEF fitting
<1> QED
  BY <1>1, <1>4, <1>7, <1>8 DEF SavedOK

LEMMA VsnprintfEndsOK ==
    ASSUME LineOK, SavedOK, VsnprintfEnds
    PROVE  SavedOK'
<1>1. /\ call = "snprintf" /\ call' = "none" /\ passed = Len(TextOf[job]) /\ job' = job
      /\ saved' = [saved EXCEPT !.s = Append(@, "NUL")]
  BY DEF VsnprintfEnds, Ends
<1>2. Emitted = TextOf[job]
  BY <1>1, TextIsSeq, SubSeqFull DEF Emitted, LineOK
<1>3. /\ saved \in [s : Seq(AnyChar), len : Nat, max : Size \cup {UNLIMITED}]
      /\ saved.s = fitting(TextOf[job]) /\ saved.len = Len(fitting(TextOf[job]))
  BY <1>1, <1>2 DEF SavedOK
<1>4. Append(saved.s, "NUL") \in Seq(AnyChar)
  BY <1>3, AppendProperties DEF AnyChar
<1>5. /\ saved' \in [s : Seq(AnyChar), len : Nat, max : Size \cup {UNLIMITED}]
      /\ saved'.s = Append(fitting(TextOf[job]), "NUL")
      /\ saved'.len = Len(fitting(TextOf[job])) /\ saved'.max = saved.max
  BY <1>1, <1>3, <1>4
<1>6. fitting(TextOf[job])' = fitting(TextOf[job])
  BY <1>1, <1>5 DEF fitting
<1> QED
  BY <1>1, <1>5, <1>6 DEF SavedOK

LEMMA SavedNext == LineOK /\ SavedOK /\ [Next]_vars => SavedOK'
<1> SUFFICES ASSUME LineOK, SavedOK, [Next]_vars
             PROVE  SavedOK'
  OBVIOUS
<1>1. CASE Vprintf
  BY <1>1, UnsavedOK DEF Vprintf, Starts, SavedOK, Unsaved
<1>2. CASE PrintfChar
  BY <1>2 DEF PrintfChar, Passes, SavedOK
<1>3. CASE VprintfEnds
  BY <1>3 DEF VprintfEnds, Ends, SavedOK
<1>4. CASE \E max \in Size \cup {UNLIMITED} : Vsnprintf(max)
  BY <1>4, VsnprintfOK
<1>5. CASE Savechar
  BY <1>5, SavecharOK
<1>6. CASE VsnprintfEnds
  BY <1>6, VsnprintfEndsOK
<1>7. CASE UNCHANGED vars
  BY <1>7 DEF vars, SavedOK, Emitted, fitting
<1> QED
  BY <1>1, <1>2, <1>3, <1>4, <1>5, <1>6, <1>7 DEF Next

(* snprintf stores the text, or as much of it as the size allows, with a   *)
(* NUL behind it, and reports the length of what it stored                 *)
(* (sprintf.c:38-77).                                                      *)
THEOREM SnprintfStoresText == Spec => []SnprintfBounded
<1>1. SavedOK => SnprintfBounded
  BY DEF SavedOK, SnprintfBounded
<1> QED
  BY <1>1, LineInit, LineNext, SavedInit, SavedNext, PTL DEF Spec
-----------------------------------------------------------------------------
(* The string functions that write.                                        *)
Names == {"strcpy", "strcat", "strncat", "strncpy", "memset", "memmove"}
Calls == [name : Names, to : Addr, from : Addr, count : Count, char : Byte]

(* How far each loop has come: T is where the copy begins, length the      *)
(* length of the source, j the number of bytes that are done.              *)
SeekLoop(name, end) ==
    /\ args.name = name /\ IsString(before, args.to)
    /\ end = args.to + Length(before, args.to)
    /\ mem = before /\ from = args.from /\ to \in args.to .. end

CopyLoop(T, length, j) ==
    /\ StringAt(before, args.from, length)
    /\ Fits(T, length + 1) /\ Apart(T, length + 1, args.from, length + 1)
    /\ Promised = Copied(before, T, args.from, length + 1)
    /\ to = T + j /\ from = args.from + j /\ mem = Copied(before, T, args.from, j)

AppendLoop(T, length, j) ==
    LET some == Shorter(args.count, length)
    IN  /\ StringAt(before, args.from, length) /\ j < args.count
        /\ Fits(T, some + 1) /\ Apart(T, some + 1, args.from, length + 1)
        /\ Promised = Filled(Copied(before, T, args.from, some), T + some, 1, 0)
        /\ to = T + j /\ from = args.from + j /\ mem = Copied(before, T, args.from, j)
        /\ cnt = args.count - j

CountedLoop(length, j) ==
    /\ StringAt(before, args.from, length) /\ length < args.count
    /\ Fits(args.to, args.count) /\ Apart(args.to, args.count, args.from, length + 1)
    /\ Promised = Filled(Copied(before, args.to, args.from, length),
                         args.to + length, args.count - length, 0)
    /\ to = args.to + j /\ from = args.from + j /\ mem = Copied(before, args.to, args.from, j)
    /\ cnt = args.count - j

FillLoop(m, T, k, c, j) ==
    /\ m \in [Addr -> Byte] /\ \A a \in Addr : m[a] \in {before[a], Promised[a]}
    /\ Promised = Filled(m, T, k, c)
    /\ to = T + j /\ cnt = k - j /\ mem = Filled(m, T, j, c)

UpLoop ==
    /\ Fits(args.to, args.count) /\ Fits(args.from, args.count) /\ args.to < args.from
    /\ Promised = Copied(before, args.to, args.from, args.count)
    /\ to = args.to /\ from = args.from /\ cnt \in 0 .. args.count
    /\ mem = Copied(before, to, from, cnt)

DownLoop ==
    /\ Fits(args.to, args.count) /\ Fits(args.from, args.count) /\ args.to >= args.from
    /\ Promised = Copied(before, args.to, args.from, args.count)
    /\ to = args.to /\ from = args.from /\ cnt \in 0 .. args.count
    /\ mem = Copied(before, to + cnt, from + cnt, args.count - cnt)

AtLoop ==
    /\ at = "strcat" => /\ MayAppend(before, args.to, args.from, MemSize)
                        /\ \E end \in Addr : SeekLoop("strcat", end)
    /\ at = "copy" => \E T \in Addr, length \in Count : \E j \in 0 .. length : CopyLoop(T, length, j)
    /\ at = "strncat" => /\ MayAppend(before, args.to, args.from, args.count)
                         /\ args.count # 0 /\ cnt = args.count
                         /\ \E end \in Addr : SeekLoop("strncat", end)
    /\ at = "append" => \E T \in Addr, length \in Count : \E j \in 0 .. length : AppendLoop(T, length, j)
    /\ at = "append_end" =>
         /\ to \in Addr /\ mem[to] \in {before[to], 0} /\ Promised[to] = 0
         /\ Promised = [a \in Addr |-> Promised[a]]
         /\ \A a \in Addr \ {to} : mem[a] = Promised[a]
    /\ at = "strncpy" => \E length \in Count : \E j \in 0 .. length : CountedLoop(length, j)
    /\ at = "pad" => \E m \in [Addr -> Byte], T \in Count, k \in Count : \E j \in 0 .. k : FillLoop(m, T, k, 0, j)
    /\ at = "memset" => \E j \in 0 .. args.count :
                           FillLoop(before, args.to, args.count, args.char, j)
    /\ at = "up"   => UpLoop
    /\ at = "down" => DownLoop
    /\ at = "done" => mem = Promised

CopyTypeOK ==
    /\ mem \in [Addr -> Byte] /\ before \in [Addr -> Byte]
    /\ at \in {"none", "strcat", "copy", "strncat", "append", "append_end", "strncpy", "pad",
               "memset", "up", "down", "done"}
    /\ at # "none" => args \in Calls

CopyInv == CopyTypeOK /\ AtLoop
-----------------------------------------------------------------------------
LEMMA LengthIs ==
    ASSUME NEW m, NEW s, IsString(m, s)
    PROVE  Length(m, s) \in Count /\ StringAt(m, s, Length(m, s))
BY DEF IsString, Length

LEMMA PromisedKept ==
    ASSUME args' = args, before' = before
    PROVE  Promised' = Promised
BY DEF Promised

LEMMA CopyMore ==
    ASSUME NEW m \in [Addr -> Byte], NEW T \in Int, NEW s \in Int, NEW j \in Nat,
           mem = Copied(m, T, s, j), put(T + j, m[s + j])
    PROVE  mem' = Copied(m, T, s, j + 1)
BY DEF Copied, put, Block, Addr

LEMMA SourceIntact ==
    ASSUME NEW m, NEW T, NEW s, NEW j, NEW a \in Addr, a \notin Block(T, j),
           mem = Copied(m, T, s, j)
    PROVE  mem[a] = m[a]
BY DEF Copied

LEMMA FillMore ==
    ASSUME NEW m \in [Addr -> Byte], NEW T \in Int, NEW c, NEW j \in Nat,
           mem = Filled(m, T, j, c), put(T + j, c)
    PROVE  mem' = Filled(m, T, j + 1, c)
BY DEF Filled, put, Block, Addr

LEMMA NothingYet ==
    ASSUME NEW m \in [Addr -> Byte], NEW T \in Int, NEW s, NEW c
    PROVE  Copied(m, T, s, 0) = m /\ Filled(m, T, 0, c) = m
BY DEF Copied, Filled, Block, Addr

LEMMA PutTyped ==
    ASSUME mem \in [Addr -> Byte], NEW a, NEW c \in Byte, put(a, c)
    PROVE  mem' \in [Addr -> Byte]
BY DEF put
-----------------------------------------------------------------------------
LEMMA CallKeeps ==
    ASSUME CopyInv, NEW t \in Addr, NEW s \in Addr, NEW k \in Count, NEW c \in Byte,
           NEW name \in Names, NEW start, NEW loop, Called(name, t, s, k, c, start, loop)
    PROVE  /\ args' \in Calls /\ args'.name = name /\ args'.to = t /\ args'.from = s
           /\ args'.count = k /\ args'.char = c
           /\ before' = mem /\ mem' = mem /\ to' = t /\ from' = s /\ cnt' = start
           /\ at' = loop /\ mem \in [Addr -> Byte]
BY DEF Called, Calls, CopyInv, CopyTypeOK

LEMMA StrcpyCalled ==
    ASSUME CopyInv, NEW t \in Addr, NEW s \in Addr, CallStrcpy(t, s)
    PROVE  CopyInv'
<1>0. PICK length \in Count : length = Length(mem, s)
  BY LengthIs DEF CallStrcpy, MayCopy
<1>1. /\ args' \in Calls /\ args'.name = "strcpy" /\ args'.to = t /\ args'.from = s
      /\ before' = mem /\ mem' = mem /\ to' = t /\ from' = s
      /\ at' = "copy" /\ mem \in [Addr -> Byte]
  BY CallKeeps, MemAssumption DEF CallStrcpy, Names, Count
<1>2. /\ length \in Count /\ StringAt(mem, s, length)
      /\ Fits(t, length + 1) /\ Apart(t, length + 1, s, length + 1)
  BY <1>0, LengthIs DEF CallStrcpy, MayCopy
<1>3. Promised' = Copied(mem, t, s, length + 1)
  BY <1>0, <1>1 DEF Promised
<1>4. mem = Copied(mem, t, s, 0)
  <2>1. mem \in [Addr -> Byte] /\ t \in Int
    BY <1>1 DEF Addr
  <2> QED
    BY <2>1, NothingYet
<1>5. CopyLoop(t, length, 0)'
  BY <1>1, <1>2, <1>3, <1>4 DEF CopyLoop, Addr
<1>6. 0 \in 0 .. length
  BY <1>2 DEF Count
<1> QED
  BY <1>1, <1>2, <1>5, <1>6 DEF CopyInv, CopyTypeOK, AtLoop

LEMMA StrcatCalled ==
    ASSUME CopyInv, NEW t \in Addr, NEW s \in Addr, CallStrcat(t, s)
    PROVE  CopyInv'
<1> DEFINE end == t + Length(mem, t)
<1>1. /\ args' \in Calls /\ args'.name = "strcat" /\ args'.to = t /\ args'.from = s
      /\ before' = mem /\ mem' = mem /\ to' = t /\ from' = s
      /\ at' = "strcat" /\ mem \in [Addr -> Byte]
  BY CallKeeps, MemAssumption DEF CallStrcat, Names, Count
<1>2. MayAppend(mem, t, s, MemSize) /\ IsString(mem, t)
  BY DEF CallStrcat, MayAppend
<1>3. end \in Addr /\ t \in t .. end
  BY <1>2, LengthIs DEF StringAt, Count, Addr
<1>4. SeekLoop("strcat", end)'
  BY <1>1, <1>2, <1>3 DEF SeekLoop
<1> QED
  BY <1>1, <1>2, <1>3, <1>4 DEF CopyInv, CopyTypeOK, AtLoop

LEMMA StrncatCalled ==
    ASSUME CopyInv, NEW t \in Addr, NEW s \in Addr, NEW k \in Count, CallStrncat(t, s, k)
    PROVE  CopyInv'
<1> DEFINE end == t + Length(mem, t)
<1>1. /\ args' \in Calls /\ args'.name = "strncat" /\ args'.to = t /\ args'.from = s
      /\ args'.count = k
      /\ before' = mem /\ mem' = mem /\ to' = t /\ from' = s /\ cnt' = k
      /\ at' = (IF k = 0 THEN "done" ELSE "strncat") /\ mem \in [Addr -> Byte]
  BY CallKeeps, MemAssumption DEF CallStrncat, Names
<1>2. MayAppend(mem, t, s, k) /\ IsString(mem, t) /\ IsString(mem, s)
  BY DEF CallStrncat, MayAppend
<1>3. end \in Addr /\ t \in t .. end /\ mem[end] = 0 /\ end \in Int
  BY <1>2, LengthIs DEF StringAt, Count, Addr
<1>4. CASE k # 0
  <2>1. SeekLoop("strncat", end)'
    BY <1>1, <1>2, <1>3 DEF SeekLoop
  <2> QED
    BY <1>1, <1>2, <1>3, <1>4, <2>1 DEF CopyInv, CopyTypeOK, AtLoop
<1>5. CASE k = 0
  <2>1. Shorter(0, Length(mem, s)) = 0
    BY <1>2, LengthIs DEF Shorter, Count
  <2>2. Promised' = Filled(Copied(mem, end, s, 0), end + 0, 1, 0)
    BY <1>1, <1>5, <2>1 DEF Promised
  <2> HIDE DEF end
  <2>3. Copied(mem, end, s, 0) = mem
    BY <1>1, <1>3, NothingYet
  <2>4. Filled(mem, end + 0, 1, 0) = mem
    BY <1>1, <1>3 DEF Filled, Block
  <2> QED
    BY <1>1, <1>5, <2>2, <2>3, <2>4 DEF CopyInv, CopyTypeOK, AtLoop
<1> QED
  BY <1>4, <1>5

LEMMA StrncpyCalled ==
    ASSUME CopyInv, ~FullCounts, NEW t \in Addr, NEW s \in Addr, NEW k \in Count,
           CallStrncpy(t, s, k)
    PROVE  CopyInv'
<1>0. PICK length \in Count : length = Length(mem, s)
  BY LengthIs DEF CallStrncpy, MayCopyN
<1>1. /\ args' \in Calls /\ args'.name = "strncpy" /\ args'.to = t /\ args'.from = s
      /\ args'.count = k
      /\ before' = mem /\ mem' = mem /\ to' = t /\ from' = s /\ cnt' = k
      /\ at' = "strncpy" /\ mem \in [Addr -> Byte]
  BY CallKeeps, MemAssumption DEF CallStrncpy, Names
<1>2. /\ length \in Count /\ StringAt(mem, s, length)
      /\ Fits(t, k) /\ Apart(t, k, s, length + 1) /\ length < k
  BY <1>0, LengthIs, MemAssumption DEF CallStrncpy, MayCopyN, Count
<1>3. Shorter(k, length) = length
  BY <1>0, <1>2 DEF Shorter, Count
<1>4. Promised' = Filled(Copied(mem, t, s, length), t + length, k - length, 0)
  BY <1>0, <1>1, <1>3 DEF Promised
<1>5. mem = Copied(mem, t, s, 0)
  <2>1. mem \in [Addr -> Byte] /\ t \in Int
    BY <1>1 DEF Addr
  <2> QED
    BY <2>1, NothingYet
<1>6. CountedLoop(length, 0)'
  BY <1>1, <1>2, <1>4, <1>5 DEF CountedLoop, Addr, Count
<1>7. 0 \in 0 .. length
  BY <1>2 DEF Count
<1> QED
  BY <1>1, <1>2, <1>6, <1>7 DEF CopyInv, CopyTypeOK, AtLoop

LEMMA MemsetCalled ==
    ASSUME CopyInv, NEW t \in Addr, NEW c \in Byte, NEW k \in Count, CallMemset(t, c, k)
    PROVE  CopyInv'
<1>1. /\ args' \in Calls /\ args'.name = "memset" /\ args'.to = t
      /\ args'.count = k /\ args'.char = c
      /\ before' = mem /\ mem' = mem /\ to' = t /\ cnt' = k
      /\ at' = "memset" /\ mem \in [Addr -> Byte]
  BY CallKeeps DEF CallMemset, Names
<1>2. Promised' = Filled(mem, t, k, c)
  BY <1>1 DEF Promised
<1>3. mem = Filled(mem, t, 0, c)
  BY <1>1, NothingYet DEF Addr
<1>4. FillLoop(before, args.to, args.count, args.char, 0)'
  BY <1>1, <1>2, <1>3 DEF FillLoop, Addr, Count
<1>5. 0 \in 0 .. args'.count
  BY <1>1 DEF Count
<1> QED
  BY <1>1, <1>4, <1>5 DEF CopyInv, CopyTypeOK, AtLoop

LEMMA MemmoveCalled ==
    ASSUME CopyInv, NEW d \in Addr, NEW s \in Addr, NEW k \in Count, CallMemmove(d, s, k)
    PROVE  CopyInv'
<1> USE MemAssumption
<1>1. CASE moves_up(d, s)
  <2>1. /\ args' \in Calls /\ args'.name = "memmove" /\ args'.to = d /\ args'.from = s
        /\ args'.count = k
        /\ before' = mem /\ mem' = mem /\ to' = d /\ from' = s /\ cnt' = 0
        /\ at' = "up" /\ mem \in [Addr -> Byte]
    BY <1>1, CallKeeps DEF CallMemmove, Names
  <2>2. Promised' = Copied(mem, d, s, k)
    BY <2>1 DEF Promised
  <2>0. mem = Copied(mem, d, s, 0)
    <3>1. d \in Int
      BY DEF Addr
    <3> QED
      BY <2>1, <3>1, NothingYet
  <2>3. UpLoop'
    BY <1>1, <2>0, <2>1, <2>2 DEF CallMemmove, UpLoop, moves_up, Count
  <2> QED
    BY <2>1, <2>3 DEF CopyInv, CopyTypeOK, AtLoop
<1>2. CASE ~moves_up(d, s)
  <2>1. /\ args' \in Calls /\ args'.name = "memmove" /\ args'.to = d /\ args'.from = s
        /\ args'.count = k
        /\ before' = mem /\ mem' = mem /\ to' = d /\ from' = s /\ cnt' = k
        /\ at' = "down" /\ mem \in [Addr -> Byte]
    BY <1>2, CallKeeps DEF CallMemmove, Names
  <2>2. Promised' = Copied(mem, d, s, k)
    BY <2>1 DEF Promised
  <2>0. mem = Copied(mem, d + k, s + k, 0)
    BY <2>1, NothingYet DEF Addr, Count
  <2>3. DownLoop'
    BY <1>2, <2>0, <2>1, <2>2 DEF CallMemmove, DownLoop, moves_up, Count, Addr
  <2> QED
    BY <2>1, <2>3 DEF CopyInv, CopyTypeOK, AtLoop
<1> QED
  BY <1>1, <1>2
-----------------------------------------------------------------------------
(* A turn keeps the call: what remains is where the loop is.               *)
LEMMA TurnKeeps ==
    ASSUME CopyInv, at # "none", args' = args, before' = before, mem' \in [Addr -> Byte],
           at' \in {"strcat", "copy", "strncat", "append", "append_end", "strncpy", "pad",
                   "memset", "up", "down", "done"}
    PROVE  CopyTypeOK' /\ Promised' = Promised /\ args \in Calls /\ before \in [Addr -> Byte]
BY PromisedKept DEF CopyInv, CopyTypeOK

LEMMA StrcatSeeks == ASSUME CopyInv, Seek("strcat", "copy") PROVE CopyInv'
<1> DEFINE t == args.to
           s == args.from
<1>1. /\ at = "strcat" /\ mem' = mem /\ from' = from /\ args' = args /\ before' = before
      /\ mem \in [Addr -> Byte] /\ at' \in {"strcat", "copy"}
  BY DEF Seek, CopyInv, CopyTypeOK
<1>2. CopyTypeOK' /\ Promised' = Promised /\ args \in Calls
  BY <1>1, TurnKeeps
<1>3. PICK end \in Addr : SeekLoop("strcat", end)
  BY <1>1 DEF CopyInv, AtLoop
<1>4. MayAppend(before, t, s, MemSize)
  BY <1>1 DEF CopyInv, AtLoop
<1>5. t \in Addr /\ s \in Addr /\ t \in Int /\ s \in Int
  BY <1>2 DEF Calls, Addr
<1>6. StringAt(before, t, Length(before, t)) /\ Length(before, t) \in Count
  BY <1>3, LengthIs DEF SeekLoop
<1>7. CASE mem[to] # 0
  <2>1. to # end
    BY <1>3, <1>6, <1>7 DEF SeekLoop, StringAt
  <2>2. to' \in t .. end /\ at' = "strcat"
    BY <1>1, <1>3, <1>5, <1>7, <2>1 DEF SeekLoop, Seek, Addr
  <2>3. SeekLoop("strcat", end)'
    BY <1>1, <1>3, <2>2 DEF SeekLoop
  <2> QED
    BY <1>1, <1>2, <1>4, <2>2, <2>3 DEF CopyInv, AtLoop
<1>8. CASE mem[to] = 0
  <2>1. to = end
    <3>1. to - t \in 0 .. Length(before, t) /\ t + (to - t) = to
      BY <1>3, <1>5, <1>6 DEF SeekLoop, Count, Addr
    <3>2. \A j \in 0 .. Length(before, t) - 1 : mem[t + j] # 0
      BY <1>3, <1>6 DEF StringAt, SeekLoop
    <3> QED
      BY <1>3, <1>5, <1>6, <1>8, <3>1, <3>2 DEF SeekLoop, Count
  <2>2. PICK length \in Count : length = Length(before, s) /\ StringAt(before, s, length)
    BY <1>4, LengthIs DEF MayAppend
  <2>3. Shorter(MemSize, length) = length
    BY <2>2, MemAssumption DEF Shorter, Count
  <2>4. Fits(t, end - t + length + 1) /\ Apart(t, end - t + length + 1, s, length + 1)
    <3>1. Length(before, t) = end - t
      BY <1>3, <1>5, <1>6 DEF SeekLoop, Count, Addr
    <3> QED
      BY <1>4, <2>2, <2>3, <3>1 DEF MayAppend
  <2>5. Fits(end, length + 1) /\ Apart(end, length + 1, s, length + 1)
    <3>1. Block(end, length + 1) \subseteq Block(t, end - t + length + 1)
      BY <1>3, <1>5, <1>6, <2>2 DEF Block, SeekLoop, Count, Addr
    <3> QED
      BY <2>4, <3>1 DEF Fits, Apart
  <2>6. Promised = Copied(before, end, s, length + 1)
    BY <1>3, <2>2 DEF Promised, SeekLoop
  <2>7. mem = Copied(before, end, s, 0)
    <3>1. before = mem /\ mem \in [Addr -> Byte] /\ end \in Int
      BY <1>1, <1>3 DEF SeekLoop, Addr
    <3> QED
      BY <3>1, NothingYet
  <2>8. to' = to /\ at' = "copy"
    BY <1>8 DEF Seek
  <2>9. CopyLoop(end, length, 0)'
    <3>1. to' = end + 0 /\ from' = args'.from + 0
      BY <1>1, <1>3, <1>5, <2>1, <2>8 DEF SeekLoop, Addr
    <3>2. mem' = Copied(before', end, args'.from, 0) /\ Promised' = Copied(before', end, args'.from, length + 1)
      BY <1>1, <1>2, <2>6, <2>7
    <3>3. args'.from = s /\ before' = before
      BY <1>1
    <3> QED
      BY <2>2, <2>5, <3>1, <3>2, <3>3 DEF CopyLoop
  <2> QED
    BY <1>2, <2>2, <2>8, <2>9 DEF CopyInv, AtLoop, Count
<1> QED
  BY <1>7, <1>8

LEMMA StrncatSeeks == ASSUME CopyInv, Seek("strncat", "append") PROVE CopyInv'
<1> DEFINE t == args.to
           s == args.from
           k == args.count
<1>1. /\ at = "strncat" /\ mem' = mem /\ from' = from /\ args' = args /\ before' = before
      /\ cnt' = cnt /\ mem \in [Addr -> Byte] /\ at' \in {"strncat", "append"}
  BY DEF Seek, CopyInv, CopyTypeOK
<1>2. CopyTypeOK' /\ Promised' = Promised /\ args \in Calls
  BY <1>1, TurnKeeps
<1>3. PICK end \in Addr : SeekLoop("strncat", end)
  BY <1>1 DEF CopyInv, AtLoop
<1>4. MayAppend(before, t, s, k) /\ k # 0 /\ cnt = k
  BY <1>1 DEF CopyInv, AtLoop
<1>5. t \in Addr /\ s \in Addr /\ t \in Int /\ s \in Int /\ k \in Nat
  BY <1>2 DEF Calls, Addr, Count
<1>6. StringAt(before, t, Length(before, t)) /\ Length(before, t) \in Count
  BY <1>3, LengthIs DEF SeekLoop
<1>7. CASE mem[to] # 0
  <2>1. to # end
    BY <1>3, <1>6, <1>7 DEF SeekLoop, StringAt
  <2>2. to' \in t .. end /\ at' = "strncat"
    BY <1>1, <1>3, <1>5, <1>7, <2>1 DEF SeekLoop, Seek, Addr
  <2>3. SeekLoop("strncat", end)'
    BY <1>1, <1>3, <2>2 DEF SeekLoop
  <2> QED
    BY <1>1, <1>2, <1>4, <2>2, <2>3 DEF CopyInv, AtLoop
<1>8. CASE mem[to] = 0
  <2>1. to = end
    <3>1. to - t \in 0 .. Length(before, t) /\ t + (to - t) = to
      BY <1>3, <1>5, <1>6 DEF SeekLoop, Count, Addr
    <3>2. \A j \in 0 .. Length(before, t) - 1 : mem[t + j] # 0
      BY <1>3, <1>6 DEF StringAt, SeekLoop
    <3> QED
      BY <1>3, <1>5, <1>6, <1>8, <3>1, <3>2 DEF SeekLoop, Count
  <2>2. PICK length \in Count : length = Length(before, s) /\ StringAt(before, s, length)
    BY <1>4, LengthIs DEF MayAppend
  <2>3. PICK some \in Nat : some = Shorter(k, length)
    BY <1>5, <2>2 DEF Shorter, Count
  <2>4. Fits(t, end - t + some + 1) /\ Apart(t, end - t + some + 1, s, length + 1)
    <3>1. Length(before, t) = end - t
      BY <1>3, <1>5, <1>6 DEF SeekLoop, Count, Addr
    <3> QED
      BY <1>4, <2>2, <2>3, <3>1 DEF MayAppend
  <2>5. Fits(end, some + 1) /\ Apart(end, some + 1, s, length + 1)
    <3>1. Block(end, some + 1) \subseteq Block(t, end - t + some + 1)
      BY <1>3, <1>5, <1>6, <2>3 DEF Block, SeekLoop, Count, Addr
    <3> QED
      BY <2>4, <3>1 DEF Fits, Apart
  <2>6. Promised = Filled(Copied(before, end, s, some), end + some, 1, 0)
    BY <1>3, <2>2, <2>3 DEF Promised, SeekLoop
  <2>7. mem = Copied(before, end, s, 0)
    <3>1. before = mem /\ mem \in [Addr -> Byte] /\ end \in Int
      BY <1>1, <1>3 DEF SeekLoop, Addr
    <3> QED
      BY <3>1, NothingYet
  <2>8. to' = to /\ at' = "append"
    BY <1>8 DEF Seek
  <2>9. AppendLoop(end, length, 0)'
    <3>1. to' = end + 0 /\ from' = args'.from + 0 /\ cnt' = args'.count - 0 /\ 0 < args'.count
      BY <1>1, <1>3, <1>4, <1>5, <2>1, <2>8 DEF SeekLoop, Addr
    <3>2. /\ mem' = Copied(before', end, args'.from, 0)
          /\ Promised' = Filled(Copied(before', end, args'.from, some), end + some, 1, 0)
          /\ some = Shorter(args'.count, length)
      BY <1>1, <1>2, <2>3, <2>6, <2>7
    <3>3. args'.from = s /\ before' = before
      BY <1>1
    <3> QED
      BY <2>2, <2>5, <3>1, <3>2, <3>3 DEF AppendLoop
  <2> QED
    BY <1>2, <2>2, <2>8, <2>9 DEF CopyInv, AtLoop, Count
<1> QED
  BY <1>7, <1>8

LEMMA CopyTurn == ASSUME CopyInv, Copy PROVE CopyInv'
<1>1. at = "copy" /\ mem \in [Addr -> Byte] /\ before \in [Addr -> Byte] /\ args \in Calls
  BY DEF Copy, CopyInv, CopyTypeOK
<1>2. PICK T \in Addr, length \in Count : \E j \in 0 .. length : CopyLoop(T, length, j)
  BY <1>1 DEF CopyInv, AtLoop
<1>3. PICK j \in 0 .. length : CopyLoop(T, length, j)
  BY <1>2
<1>4. /\ j \in Nat /\ length \in Nat /\ T \in Int /\ args.from \in Int
      /\ from \in Addr /\ from = args.from + j /\ from \notin Block(T, j)
  <2>1. T \in Int /\ args.from \in Int /\ length \in Nat /\ args.from + length \in Addr
    BY <1>1, <1>3 DEF Calls, Addr, Count, CopyLoop, StringAt
  <2>2. from \in Block(args.from, length + 1) /\ from = args.from + j
    BY <1>3, <2>1 DEF Block, CopyLoop
  <2>3. Block(T, j) \subseteq Block(T, length + 1)
    BY <2>1 DEF Block
  <2>4. from \in Addr
    BY <1>1, MemAssumption, <2>1, <2>2 DEF Calls, Addr, Block
  <2> QED
    BY <1>3, <2>1, <2>2, <2>3, <2>4 DEF CopyLoop, Apart
<1>5. mem[from] = before[from] /\ mem[from] \in Byte
  <2>1. mem = Copied(before, T, args.from, j)
    BY <1>3 DEF CopyLoop
  <2> QED
    BY <1>1, <1>4, <2>1, SourceIntact
<1>6. mem' = Copied(before, T, args.from, j + 1)
  <2>1. mem = Copied(before, T, args.from, j) /\ put(T + j, before[args.from + j])
    BY <1>3, <1>4, <1>5 DEF CopyLoop, Copy
  <2> QED
    BY <1>1, <1>4, <2>1, CopyMore
<1>7. /\ to' = T + (j + 1) /\ from' = args.from + (j + 1)
      /\ args' = args /\ before' = before /\ at' = (IF mem[from] = 0 THEN "done" ELSE "copy")
  BY <1>1, <1>3, <1>4 DEF Copy, CopyLoop
<1>8. mem' \in [Addr -> Byte]
  BY <1>1, <1>5, PutTyped DEF Copy
<1>9. CopyTypeOK' /\ Promised' = Promised
  BY <1>1, <1>7, <1>8, TurnKeeps
<1>10. CASE mem[from] = 0
  <2>1. j = length
    <3>1. before[args.from + j] = 0
      BY <1>4, <1>5, <1>10
    <3>2. \A i \in 0 .. length - 1 : before[args.from + i] # 0
      BY <1>3 DEF CopyLoop, StringAt
    <3> QED
      BY <1>3, <1>4, <3>1, <3>2
  <2>2. mem' = Promised'
    BY <1>3, <1>6, <1>9, <2>1 DEF CopyLoop
  <2> QED
    BY <1>7, <1>9, <1>10, <2>2 DEF CopyInv, AtLoop
<1>11. CASE mem[from] # 0
  <2>1. j + 1 \in 0 .. length
    BY <1>3, <1>4, <1>5, <1>11 DEF CopyLoop, StringAt
  <2>2. CopyLoop(T, length, j + 1)'
    BY <1>3, <1>6, <1>7, <1>9 DEF CopyLoop
  <2> QED
    BY <1>7, <1>9, <1>11, <2>1, <2>2 DEF CopyInv, AtLoop
<1> QED
  BY <1>10, <1>11

LEMMA AppendKeeps == ASSUME CopyInv, AppendTurn PROVE CopyInv'
<1> DEFINE s == args.from
           k == args.count
<1>1. at = "append" /\ mem \in [Addr -> Byte] /\ before \in [Addr -> Byte] /\ args \in Calls
  BY DEF AppendTurn, CopyInv, CopyTypeOK
<1>2. PICK T \in Addr, length \in Count : \E j \in 0 .. length : AppendLoop(T, length, j)
  BY <1>1 DEF CopyInv, AtLoop
<1>3. PICK j \in 0 .. length : AppendLoop(T, length, j)
  BY <1>2
<1>4. PICK some \in Nat : some = Shorter(k, length)
  BY <1>1, <1>2 DEF Shorter, Count, Calls
<1>5. /\ j \in Nat /\ length \in Nat /\ T \in Int /\ s \in Int /\ k \in Nat
      /\ j <= length /\ j < k /\ cnt = k - j /\ to = T + j
      /\ some = (IF k < length THEN k ELSE length)
      /\ from = s + j /\ from \in Addr /\ from \notin Block(T, j)
  <2>1. /\ T \in Int /\ s \in Int /\ length \in Nat /\ s + length \in Addr /\ k \in Nat
        /\ j < k /\ cnt = k - j /\ to = T + j /\ from = s + j
    BY <1>1, <1>3 DEF Calls, Addr, Count, AppendLoop, StringAt
  <2>2. from \in Block(s, length + 1)
    BY <1>3, <2>1 DEF Block
  <2>3. some = (IF k < length THEN k ELSE length) /\ j <= some
    BY <1>4, <2>1 DEF Shorter
  <2>4. Block(T, j) \subseteq Block(T, some + 1)
    BY <1>4, <2>1, <2>3 DEF Block
  <2>5. from \in Addr
    BY <1>1, MemAssumption, <2>1, <2>2 DEF Calls, Addr, Block
  <2> QED
    BY <1>3, <1>4, <2>1, <2>2, <2>3, <2>4, <2>5 DEF AppendLoop, Apart
<1>6. mem[from] = before[from] /\ mem[from] \in Byte
  <2>1. mem = Copied(before, T, s, j)
    BY <1>3 DEF AppendLoop
  <2> QED
    BY <1>1, <1>5, <2>1, SourceIntact
<1>7. mem' = Copied(before, T, s, j + 1)
  <2>1. mem = Copied(before, T, s, j) /\ put(T + j, before[s + j])
    BY <1>3, <1>5, <1>6 DEF AppendLoop, AppendTurn
  <2> QED
    BY <1>1, <1>5, <2>1, CopyMore
<1>8. from' = s + (j + 1) /\ args' = args /\ before' = before
  BY <1>5 DEF AppendTurn
<1>9. mem' \in [Addr -> Byte] /\ at' \in {"append", "append_end"}
  BY <1>1, <1>6, PutTyped DEF AppendTurn
<1>10. CopyTypeOK' /\ Promised' = Promised
  BY <1>1, <1>8, <1>9, TurnKeeps
<1>11. /\ Promised = Filled(Copied(before, T, s, some), T + some, 1, 0)
       /\ Fits(T, some + 1) /\ \A i \in 0 .. length - 1 : before[s + i] # 0
  BY <1>3, <1>4 DEF AppendLoop, StringAt
<1>12. T + some \in Addr
  <2>1. T + some \in Block(T, some + 1)
    BY <1>4, <1>5 DEF Block
  <2> QED
    BY <1>11, <2>1 DEF Fits
<1>13. ASSUME at' = "append_end", to' = T + some, NEW d \in {some, some + 1},
              mem' = Copied(before, T, s, d), d = some + 1 => before[s + some] = 0
       PROVE  CopyInv'
  <2>1. mem'[to'] \in {before[to'], 0}
    BY <1>4, <1>5, <1>12, <1>13 DEF Copied, Block
  <2>2. Promised[to'] = 0
    BY <1>4, <1>5, <1>11, <1>12, <1>13 DEF Filled, Block
  <2>3. ASSUME NEW a \in Addr \ {to'}
        PROVE  mem'[a] = Promised[a]
    <3>0. a \in Int /\ a # T + some
      BY <1>13, <2>3 DEF Addr
    <3>1. a \notin Block(T + some, 1)
      BY <1>4, <1>5, <3>0 DEF Block
    <3>2. a \in Block(T, some) <=> a \in Block(T, some + 1)
      BY <1>4, <1>5, <3>0 DEF Block
    <3>3. a \in Block(T, some) <=> a \in Block(T, d)
      BY <1>13, <3>2
    <3> QED
      BY <1>11, <1>13, <3>1, <3>3 DEF Filled, Copied
  <2>4. Promised = [a \in Addr |-> Promised[a]]
    BY <1>11 DEF Filled
  <2> QED
    BY <1>8, <1>10, <1>12, <1>13, <2>1, <2>2, <2>3, <2>4 DEF CopyInv, AtLoop
<1>14. CASE mem[from] = 0
  <2>0. before[s + j] = 0
    BY <1>5, <1>6, <1>14
  <2>1. j = length
    BY <1>5, <1>11, <2>0
  <2>2. some = length
    BY <1>5, <2>1
  <2>4. before[s + some] = 0
    BY <2>0, <2>1, <2>2
  <2>3. at' = "append_end" /\ to' = T + some
    BY <1>5, <1>14, <2>1, <2>2 DEF AppendTurn
  <2> QED
    BY <1>4, <1>7, <1>13, <2>1, <2>2, <2>3, <2>4
<1>15. CASE mem[from] # 0
  <2>1. j # length /\ j + 1 \in 0 .. length
    <3>1. before[s + length] = 0
      BY <1>3 DEF AppendLoop, StringAt
    <3> QED
      BY <1>5, <1>6, <1>15, <3>1
  <2>2. to' = T + (j + 1) /\ cnt' = k - (j + 1) /\ at' = (IF cnt = 1 THEN "append_end" ELSE "append")
    BY <1>1, <1>5, <1>15 DEF AppendTurn
  <2>3. CASE cnt = 1
    <3>0. k = j + 1 /\ k <= length
      BY <1>5, <2>1, <2>3
    <3>1. some = j + 1
      BY <1>5, <3>0
    <3> QED
      BY <1>4, <1>7, <1>13, <2>2, <2>3, <3>1
  <2>4. CASE cnt # 1
    <3>1. j + 1 < k
      BY <1>5, <2>4
    <3>2. AppendLoop(T, length, j + 1)'
      BY <1>3, <1>7, <1>8, <1>10, <2>2, <3>1 DEF AppendLoop
    <3> QED
      BY <1>10, <2>1, <2>2, <2>4, <3>2 DEF CopyInv, AtLoop
  <2> QED
    BY <2>3, <2>4
<1> QED
  BY <1>14, <1>15

LEMMA AppendEndKeeps == ASSUME CopyInv, AppendEnds PROVE CopyInv'
<1>1. at = "append_end" /\ at' = "done" /\ mem \in [Addr -> Byte] /\ args' = args /\ before' = before
  BY DEF AppendEnds, CopyInv, CopyTypeOK
<1>2. mem' \in [Addr -> Byte]
  BY <1>1, MemAssumption, PutTyped DEF AppendEnds
<1>3. CopyTypeOK' /\ Promised' = Promised
  BY <1>1, <1>2, TurnKeeps
<1>4. to \in Addr /\ Promised[to] = 0 /\ \A a \in Addr \ {to} : mem[a] = Promised[a]
  BY <1>1 DEF CopyInv, AtLoop
<1>5. Promised = [a \in Addr |-> Promised[a]]
  BY <1>1 DEF CopyInv, AtLoop
<1>6. mem' = Promised
  BY <1>4, <1>5 DEF AppendEnds, put
<1> QED
  BY <1>1, <1>3, <1>6 DEF CopyInv, AtLoop

LEMMA Decrement == ASSUME NEW k \in Count, k # 0 PROVE minus1(k) = k - 1
BY MemAssumption, RangeAssumption DEF minus1, Count

LEMMA CountedKeeps == ASSUME CopyInv, CopyCounted PROVE CopyInv'
<1> DEFINE t == args.to
           s == args.from
           k == args.count
<1>1. at = "strncpy" /\ mem \in [Addr -> Byte] /\ before \in [Addr -> Byte] /\ args \in Calls
  BY DEF CopyCounted, CopyInv, CopyTypeOK
<1>2. PICK length \in Count : \E j \in 0 .. length : CountedLoop(length, j)
  BY <1>1 DEF CopyInv, AtLoop
<1>3. PICK j \in 0 .. length : CountedLoop(length, j)
  BY <1>2
<1>4. /\ j \in Nat /\ length \in Nat /\ t \in Int /\ s \in Int /\ k \in Count /\ k \in Nat
      /\ j <= length /\ length < k /\ cnt = k - j /\ to = t + j
      /\ from = s + j /\ from \in Addr /\ from \notin Block(t, j)
  <2>1. /\ t \in Int /\ s \in Int /\ length \in Nat /\ s + length \in Addr /\ k \in Nat /\ k \in Count
        /\ length < k /\ cnt = k - j /\ to = t + j /\ from = s + j
    BY <1>1, <1>3 DEF Calls, Addr, Count, CountedLoop, StringAt
  <2>2. from \in Block(s, length + 1)
    BY <1>3, <2>1 DEF Block
  <2>3. Block(t, j) \subseteq Block(t, k)
    BY <1>3, <2>1 DEF Block
  <2>4. from \in Addr
    BY <1>1, MemAssumption, <2>1, <2>2 DEF Calls, Addr, Block
  <2> QED
    BY <1>3, <2>1, <2>2, <2>3, <2>4 DEF CountedLoop, Apart
<1>5. cnt # 0 /\ cnt \in Count /\ cnt' = k - (j + 1)
  <2>1. cnt # 0 /\ cnt \in Count
    BY <1>4, MemAssumption DEF Count
  <2> QED
    BY <1>4, <2>1, Decrement DEF CopyCounted
<1>6. mem[from] = before[from] /\ mem[from] \in Byte
  <2>1. mem = Copied(before, t, s, j)
    BY <1>3 DEF CountedLoop
  <2> QED
    BY <1>1, <1>4, <2>1, SourceIntact
<1>7. mem' = Copied(before, t, s, j + 1)
  <2>1. mem = Copied(before, t, s, j) /\ put(t + j, before[s + j])
    BY <1>3, <1>4, <1>5, <1>6 DEF CountedLoop, CopyCounted
  <2> QED
    BY <1>1, <1>4, <2>1, CopyMore
<1>8. /\ from' = s + (j + 1) /\ to' = t + (j + 1) /\ args' = args /\ before' = before
      /\ at' = (IF mem[from] = 0 THEN "pad" ELSE "strncpy")
  BY <1>1, <1>4, <1>5 DEF CopyCounted
<1>9. mem' \in [Addr -> Byte]
  BY <1>1, <1>5, <1>6, PutTyped DEF CopyCounted
<1>10. CopyTypeOK' /\ Promised' = Promised
  BY <1>1, <1>8, <1>9, TurnKeeps
<1>11. /\ Promised = Filled(Copied(before, t, s, length), t + length, k - length, 0)
       /\ Fits(t, k) /\ before[s + length] = 0 /\ \A i \in 0 .. length - 1 : before[s + i] # 0
       /\ s + length \in Addr
  BY <1>3 DEF CountedLoop, StringAt
<1>12. CASE mem[from] = 0
  <2> DEFINE m == Copied(before, t, s, length)
             T == t + length
             K == k - length
  <2>0. before[s + j] = 0
    BY <1>4, <1>6, <1>12
  <2>1. j = length
    BY <1>4, <1>11, <2>0
  <2>2. m \in [Addr -> Byte]
    <3>0. s \in Addr
      BY <1>1 DEF Calls
    <3>1. ASSUME NEW a \in Block(t, length)
          PROVE  s + (a - t) \in Addr
      <4>1. a \in Int /\ t <= a /\ a < t + length
        BY <1>4, <3>1 DEF Block
      <4> DEFINE i == a - t
      <4>2. i \in Int /\ 0 <= i /\ i < length
        BY <1>4, <4>1
      <4> HIDE DEF i
      <4>3. s + i \in Addr
        BY <1>4, <1>11, <3>0, <4>2, MemAssumption DEF Addr
      <4> QED
        BY <4>3 DEF i
    <3> QED
      BY <1>1, <3>1 DEF Copied
  <2>3. mem' = Filled(m, T, 1, 0)
    BY <1>1, <1>4, <1>7, <1>11, <2>1, MemAssumption DEF Copied, Filled, Block, Addr
  <2>4. ASSUME NEW a \in Addr
        PROVE  m[a] \in {before[a], Promised[a]}
    BY <1>4, <1>11 DEF Copied, Filled, Block, Addr
  <2>5. T \in Count /\ K \in Count /\ 1 \in 0 .. K
    <3>1. t + length \in Addr
      <4>1. t + length \in Block(t, k)
        BY <1>4 DEF Block
      <4> QED
        BY <1>11, <4>1 DEF Fits
    <3> QED
      BY <1>4, <3>1, MemAssumption DEF Addr, Count
  <2>6. to' = T + 1 /\ cnt' = K - 1 /\ T \in Int /\ K \in Int
    BY <1>4, <1>5, <1>8, <2>1
  <2>7. Promised = Filled(m, T, K, 0)
    BY <1>11
  <2>8. PICK mm \in [Addr -> Byte], TT \in Count, KK \in Count : mm = m /\ TT = T /\ KK = K
    BY <2>2, <2>5
  <2>9. FillLoop(mm, TT, KK, 0, 1)'
    BY <1>8, <1>10, <2>3, <2>4, <2>6, <2>7, <2>8 DEF FillLoop
  <2>10. 1 \in 0 .. KK
    BY <2>5, <2>8
  <2>11. at' = "pad"
    BY <1>8, <1>12
  <2> QED
    BY <1>10, <2>9, <2>10, <2>11 DEF CopyInv, AtLoop
<1>13. CASE mem[from] # 0
  <2>1. j + 1 \in 0 .. length
    BY <1>4, <1>6, <1>11, <1>13
  <2>2. CountedLoop(length, j + 1)'
    BY <1>3, <1>5, <1>7, <1>8, <1>10 DEF CountedLoop
  <2> QED
    BY <1>8, <1>10, <1>13, <2>1, <2>2 DEF CopyInv, AtLoop
<1> QED
  BY <1>12, <1>13

LEMMA FillTurn ==
    ASSUME CopyInv, NEW loop \in {"pad", "memset"}, NEW m, NEW T \in Count, NEW k \in Count,
           NEW c \in Byte, NEW j \in 0 .. k, Fill(loop, c), FillLoop(m, T, k, c, j)
    PROVE  /\ CopyTypeOK' /\ args \in Calls /\ args' = args /\ before' = before
           /\ cnt = 0 => at' = "done" /\ mem' = Promised'
           /\ cnt # 0 => at' = loop /\ j + 1 \in 0 .. k /\ FillLoop(m, T, k, c, j + 1)'
<1>1. /\ at = loop /\ mem \in [Addr -> Byte] /\ args' = args /\ before' = before
      /\ at' \in {loop, "done"}
  BY DEF Fill, CopyInv, CopyTypeOK
<1>2. mem' \in [Addr -> Byte]
  BY <1>1, PutTyped DEF Fill
<1>3. CopyTypeOK' /\ Promised' = Promised /\ args \in Calls
  BY <1>1, <1>2, TurnKeeps
<1>4. T \in Int /\ k \in Nat /\ j \in Nat /\ j <= k /\ cnt = k - j /\ to = T + j
  BY MemAssumption DEF Count, FillLoop
<1>5. CASE cnt = 0
  <2>1. j = k
    BY <1>4, <1>5
  <2> QED
    BY <1>1, <1>3, <1>5, <2>1 DEF FillLoop, Fill
<1>6. CASE cnt # 0
  <2>1. cnt \in Count /\ cnt' = k - (j + 1) /\ to' = T + (j + 1) /\ j + 1 \in 0 .. k /\ at' = loop
    <3>1. cnt \in Count
      BY <1>4, MemAssumption DEF Count
    <3> QED
      BY <1>1, <1>4, <1>6, <3>1, Decrement DEF Fill
  <2>2. mem' = Filled(m, T, j + 1, c)
    <3>1. m \in [Addr -> Byte] /\ mem = Filled(m, T, j, c) /\ put(T + j, c)
      BY <1>4, <1>6 DEF FillLoop, Fill
    <3> QED
      BY <1>4, <3>1, FillMore
  <2>3. FillLoop(m, T, k, c, j + 1)'
    BY <1>1, <1>3, <2>1, <2>2 DEF FillLoop
  <2> QED
    BY <1>1, <1>3, <1>6, <2>1, <2>3
<1> QED
  BY <1>5, <1>6

LEMMA PadKeeps == ASSUME CopyInv, Fill("pad", 0) PROVE CopyInv'
<1>1. at = "pad" /\ 0 \in Byte
  BY MemAssumption DEF Fill
<1>2. PICK m \in [Addr -> Byte], T \in Count, k \in Count :
        \E j \in 0 .. k : FillLoop(m, T, k, 0, j)
  BY <1>1 DEF CopyInv, AtLoop
<1>3. PICK j \in 0 .. k : FillLoop(m, T, k, 0, j)
  BY <1>2
<1>4. /\ CopyTypeOK'
      /\ cnt = 0 => at' = "done" /\ mem' = Promised'
      /\ cnt # 0 => at' = "pad" /\ j + 1 \in 0 .. k /\ FillLoop(m, T, k, 0, j + 1)'
  BY <1>1, <1>3, FillTurn
<1> QED
  BY <1>4 DEF CopyInv, AtLoop

LEMMA MemsetKeeps == ASSUME CopyInv, Fill("memset", args.char) PROVE CopyInv'
<1>1. at = "memset" /\ args \in Calls
  BY DEF Fill, CopyInv, CopyTypeOK
<1>2. args.char \in Byte /\ args.to \in Count /\ args.count \in Count
  BY <1>1, MemAssumption DEF Calls, Addr, Count
<1>3. PICK j \in 0 .. args.count : FillLoop(before, args.to, args.count, args.char, j)
  BY <1>1 DEF CopyInv, AtLoop
<1> DEFINE k == args.count
           T == args.to
           c == args.char
<1>4. PICK KK \in Count, TT \in Count, cc \in Byte, mm \in [Addr -> Byte] : KK = k /\ TT = T /\ cc = c /\ mm = before
  <2>1. before \in [Addr -> Byte]
    BY DEF CopyInv, CopyTypeOK
  <2> QED
    BY <1>2, <2>1
<1>5. j \in 0 .. KK /\ Fill("memset", cc) /\ FillLoop(mm, TT, KK, cc, j)
  BY <1>3, <1>4
<1>6. /\ CopyTypeOK' /\ args' = args /\ before' = before
      /\ cnt = 0 => at' = "done" /\ mem' = Promised'
      /\ cnt # 0 => at' = "memset" /\ j + 1 \in 0 .. KK /\ FillLoop(mm, TT, KK, cc, j + 1)'
  BY <1>5, FillTurn
<1>7. CASE cnt = 0
  BY <1>6, <1>7 DEF CopyInv, AtLoop
<1>8. CASE cnt # 0
  <2>1. FillLoop(before, args.to, args.count, args.char, j + 1)'
    BY <1>4, <1>6, <1>8 DEF FillLoop
  <2>2. j + 1 \in 0 .. args'.count /\ at' = "memset"
    BY <1>4, <1>6, <1>8
  <2> QED
    BY <1>6, <2>1, <2>2 DEF CopyInv, AtLoop
<1> QED
  BY <1>7, <1>8

LEMMA CopyLess ==
    ASSUME NEW m \in [Addr -> Byte], NEW T \in Int, NEW s \in Int, NEW j \in Nat,
           mem = Copied(m, T, s, j), put(T - 1, m[s - 1])
    PROVE  mem' = Copied(m, T - 1, s - 1, j + 1)
<1>1. ASSUME NEW a \in Addr
      PROVE  /\ a \in Int
             /\ a \in Block(T - 1, j + 1) <=> a = T - 1 \/ a \in Block(T, j)
             /\ s + (a - T) = (s - 1) + (a - (T - 1))
             /\ a = T - 1 => s - 1 = (s - 1) + (a - (T - 1))
             /\ a \in Block(T, j) => a # T - 1
  BY DEF Addr, Block
<1> QED
  BY <1>1 DEF Copied, put

LEMMA MoveFacts ==
    ASSUME CopyInv, at \in {"up", "down"}, UpLoop \/ DownLoop
    PROVE  /\ args \in Calls /\ to \in Int /\ from \in Int /\ cnt \in Nat /\ args.count \in Nat
           /\ cnt <= args.count /\ to = args.to /\ from = args.from
           /\ \A i \in 0 .. args.count - 1 : from + i \in Addr
<1>1. /\ args \in Calls /\ to = args.to /\ from = args.from /\ cnt \in 0 .. args.count
      /\ Fits(from, args.count)
  BY DEF CopyInv, CopyTypeOK, UpLoop, DownLoop
<1>2. args.to \in Int /\ args.from \in Int /\ args.count \in Nat
  BY <1>1, MemAssumption DEF Calls, Addr, Count
<1> QED
  BY <1>1, <1>2 DEF Fits, Block

LEMMA MoveUpKeeps == ASSUME CopyInv, MoveUp PROVE CopyInv'
<1>1. /\ at = "up" /\ mem \in [Addr -> Byte] /\ before \in [Addr -> Byte]
      /\ args' = args /\ before' = before /\ at' \in {"up", "done"} /\ to' = to /\ from' = from
  BY DEF MoveUp, CopyInv, CopyTypeOK
<1>2. UpLoop
  BY <1>1 DEF CopyInv, AtLoop
<1>3. /\ to \in Int /\ from \in Int /\ cnt \in Nat /\ args.count \in Nat
      /\ cnt <= args.count /\ to = args.to /\ from = args.from
      /\ \A i \in 0 .. args.count - 1 : from + i \in Addr
  BY <1>1, <1>2, MoveFacts
<1>4. CASE cnt = args.count
  <2>1. CopyTypeOK' /\ Promised' = Promised /\ mem' = mem /\ at' = "done"
    BY <1>1, <1>4, TurnKeeps DEF MoveUp
  <2>2. mem = Promised
    BY <1>2, <1>4 DEF UpLoop
  <2> QED
    BY <2>1, <2>2 DEF CopyInv, AtLoop
<1>5. CASE cnt # args.count
  <2>1. from + cnt \in Addr /\ from + cnt \notin Block(to, cnt)
    BY <1>2, <1>3, <1>5 DEF UpLoop, Block
  <2>2. mem[from + cnt] = before[from + cnt] /\ mem[from + cnt] \in Byte
    BY <1>1, <1>2, <2>1, SourceIntact DEF UpLoop
  <2>3. mem' = Copied(before, to, from, cnt + 1)
    <3>1. mem = Copied(before, to, from, cnt) /\ put(to + cnt, before[from + cnt])
      BY <1>2, <1>5, <2>2 DEF UpLoop, MoveUp
    <3> QED
      BY <1>1, <1>3, <3>1, CopyMore
  <2>4. mem' \in [Addr -> Byte] /\ cnt' = cnt + 1 /\ at' = "up"
    BY <1>1, <1>5, <2>2, PutTyped DEF MoveUp
  <2>5. CopyTypeOK' /\ Promised' = Promised
    BY <1>1, <2>4, TurnKeeps
  <2>6. cnt + 1 \in 0 .. args.count
    BY <1>3, <1>5
  <2>7. UpLoop'
    BY <1>1, <1>2, <2>3, <2>4, <2>5, <2>6 DEF UpLoop
  <2> QED
    BY <2>4, <2>5, <2>7 DEF CopyInv, AtLoop
<1> QED
  BY <1>4, <1>5

LEMMA MoveDownKeeps == ASSUME CopyInv, MoveDown PROVE CopyInv'
<1>1. /\ at = "down" /\ mem \in [Addr -> Byte] /\ before \in [Addr -> Byte]
      /\ args' = args /\ before' = before /\ at' \in {"down", "done"} /\ to' = to /\ from' = from
  BY DEF MoveDown, CopyInv, CopyTypeOK
<1>2. DownLoop
  BY <1>1 DEF CopyInv, AtLoop
<1>3. /\ to \in Int /\ from \in Int /\ cnt \in Nat /\ args.count \in Nat
      /\ cnt <= args.count /\ to = args.to /\ from = args.from
      /\ \A i \in 0 .. args.count - 1 : from + i \in Addr
  BY <1>1, <1>2, MoveFacts
<1>4. CASE cnt = 0
  <2>1. CopyTypeOK' /\ Promised' = Promised /\ mem' = mem /\ at' = "done"
    BY <1>1, <1>4, TurnKeeps DEF MoveDown
  <2>2. to + cnt = to /\ from + cnt = from /\ args.count - cnt = args.count
    BY <1>3, <1>4
  <2>3. mem = Promised
    BY <1>2, <2>2 DEF DownLoop
  <2> QED
    BY <2>1, <2>3 DEF CopyInv, AtLoop
<1>5. CASE cnt # 0
  <2> DEFINE i == cnt - 1
             done == args.count - cnt
  <2>1. /\ i \in 0 .. args.count - 1 /\ done \in Nat
        /\ to + cnt - 1 = to + i /\ from + cnt - 1 = from + i /\ done + 1 = args.count - i
        /\ from + cnt \in Int /\ to + cnt \in Int
    BY <1>3, <1>5
  <2>2. from + i \in Addr /\ from + i \notin Block(to + cnt, done)
    BY <1>2, <1>3, <2>1 DEF DownLoop, Block
  <2> HIDE DEF done
  <2>3. mem = Copied(before, to + cnt, from + cnt, done)
    BY <1>2 DEF DownLoop, done
  <2>4. mem[from + i] = before[from + i] /\ mem[from + i] \in Byte
    BY <1>1, <2>2, <2>3, SourceIntact
  <2>5. mem' = Copied(before, to + i, from + i, args.count - i)
    <3> DEFINE T == to + cnt
               S == from + cnt
    <3>1. T \in Int /\ S \in Int /\ done \in Nat /\ to + i = T - 1 /\ from + i = S - 1
      BY <1>3, <2>1
    <3>2. put(T - 1, before[S - 1])
      <4>1. put(to + i, before[from + i])
        BY <1>5, <2>4 DEF MoveDown
      <4> HIDE DEF T, S, i
      <4> QED
        BY <3>1, <4>1
    <3>3. mem = Copied(before, T, S, done)
      BY <2>3
    <3>4. mem' = Copied(before, T - 1, S - 1, done + 1)
      <4> HIDE DEF T, S
      <4> QED
        BY <1>1, <3>1, <3>2, <3>3, CopyLess
    <3> HIDE DEF T, S, i
    <3> QED
      BY <2>1, <3>1, <3>4
  <2>6. mem' \in [Addr -> Byte] /\ cnt' = i /\ at' = "down"
    BY <1>1, <1>5, <2>1, <2>4, PutTyped DEF MoveDown
  <2>7. CopyTypeOK' /\ Promised' = Promised
    BY <1>1, <2>6, TurnKeeps
  <2>8. i \in 0 .. args.count
    BY <1>3, <2>1
  <2>9. DownLoop'
    BY <1>1, <1>2, <2>5, <2>6, <2>7, <2>8 DEF DownLoop
  <2> QED
    BY <2>6, <2>7, <2>9 DEF CopyInv, AtLoop
<1> QED
  BY <1>4, <1>5

LEMMA ReturnKeeps == ASSUME CopyInv, Returns PROVE CopyInv'
BY DEF Returns, CopyInv, CopyTypeOK, AtLoop

LEMMA CopyInitInv == CopyInit => CopyInv
BY DEF CopyInit, CopyInv, CopyTypeOK, AtLoop

LEMMA CopyNextInv == ASSUME ~FullCounts PROVE CopyInv /\ [CopyNext]_<<mem, copyVars>> => CopyInv'
<1> SUFFICES ASSUME CopyInv, [CopyNext]_<<mem, copyVars>>
             PROVE  CopyInv'
  OBVIOUS
<1>1. CASE UNCHANGED <<mem, copyVars>>
  <2>1. Promised' = Promised
    BY <1>1, PromisedKept DEF copyVars
  <2> QED
    BY <1>1, <2>1 DEF copyVars, CopyInv, CopyTypeOK, AtLoop, SeekLoop, CopyLoop, AppendLoop,
                      CountedLoop, FillLoop, UpLoop, DownLoop
<1>2. ASSUME NEW t \in Addr, NEW s \in Addr, NEW k \in Count, NEW c \in Byte,
             \/ CallStrcpy(t, s) \/ CallStrcat(t, s) \/ CallStrncat(t, s, k)
             \/ CallStrncpy(t, s, k) \/ CallMemmove(t, s, k) \/ CallMemset(t, c, k)
      PROVE  CopyInv'
  BY <1>2, StrcpyCalled, StrcatCalled, StrncatCalled, StrncpyCalled, MemmoveCalled, MemsetCalled
<1> QED
  BY <1>1, <1>2, StrcatSeeks, StrncatSeeks, CopyTurn, AppendKeeps, AppendEndKeeps, CountedKeeps,
     PadKeeps, MemsetKeeps, MoveUpKeeps, MoveDownKeeps, ReturnKeeps
     DEF CopyNext
-----------------------------------------------------------------------------
LEMMA OldOrNew ==
    ASSUME CopyInv, at # "none", NEW a \in Addr
    PROVE  mem[a] \in {before[a], Promised[a]}
<1> USE DEF CopyInv, AtLoop
<1>1. CASE at = "copy"
  <2>1. PICK T \in Addr, length \in Count : \E j \in 0 .. length : CopyLoop(T, length, j)
    BY <1>1
  <2>2. PICK j \in 0 .. length : CopyLoop(T, length, j)
    BY <2>1
  <2>3. Block(T, j) \subseteq Block(T, length + 1)
    BY MemAssumption DEF Block, Count, Addr
  <2> QED
    BY <2>2, <2>3 DEF CopyLoop, Copied
<1>2. CASE at = "append"
  <2>1. PICK T \in Addr, length \in Count : \E j \in 0 .. length : AppendLoop(T, length, j)
    BY <1>2
  <2>2. PICK j \in 0 .. length : AppendLoop(T, length, j)
    BY <2>1
  <2>3. args.count \in Nat
    BY <1>2, MemAssumption DEF CopyTypeOK, Calls, Count
  <2>4. PICK some \in Nat : some = Shorter(args.count, length) /\ j <= some
    BY <2>2, <2>3, MemAssumption DEF AppendLoop, Shorter, Count
  <2>5. a \in Block(T, j) => a \in Block(T, some) /\ a \notin Block(T + some, 1)
    BY <2>4 DEF Block, Addr
  <2> QED
    BY <2>2, <2>4, <2>5 DEF AppendLoop, Copied, Filled
<1>3. CASE at = "strncpy"
  <2>1. PICK length \in Count : \E j \in 0 .. length : CountedLoop(length, j)
    BY <1>3
  <2>2. PICK j \in 0 .. length : CountedLoop(length, j)
    BY <2>1
  <2>3. args.to \in Int /\ args.count \in Nat
    BY <1>3, MemAssumption DEF CopyTypeOK, Calls, Count, Addr
  <2>4. a \in Block(args.to, j) => /\ a \in Block(args.to, length)
                                   /\ a \notin Block(args.to + length, args.count - length)
    BY <2>3, MemAssumption DEF Block, Addr, Count
  <2> QED
    BY <2>2, <2>4 DEF CountedLoop, Copied, Filled
<1>4. ASSUME NEW m, NEW T \in Int, NEW k \in Nat, NEW c, NEW j \in 0 .. k, FillLoop(m, T, k, c, j)
      PROVE  mem[a] \in {before[a], Promised[a]}
  <2>1. Block(T, j) \subseteq Block(T, k)
    BY DEF Block
  <2> QED
    BY <1>4, <2>1 DEF FillLoop, Filled
<1>5. CASE at = "pad"
  BY <1>4, <1>5, MemAssumption DEF Count
<1>6. CASE at = "memset"
  <2>1. args.to \in Int /\ args.count \in Nat
    BY <1>6, MemAssumption DEF CopyTypeOK, Calls, Count, Addr
  <2> QED
    BY <1>4, <1>6, <2>1
<1>7. CASE at = "up" \/ at = "down"
  <2>1. UpLoop \/ DownLoop
    BY <1>7
  <2>2. to \in Int /\ cnt \in Nat /\ args.count \in Nat /\ cnt <= args.count /\ from \in Int
    BY <1>7, <2>1, MoveFacts
  <2>3. CASE UpLoop
    <3>1. Block(to, cnt) \subseteq Block(to, args.count)
      BY <2>2 DEF Block
    <3> QED
      BY <2>3, <3>1 DEF UpLoop, Copied
  <2>4. CASE DownLoop
    <3>1. Block(to + cnt, args.count - cnt) \subseteq Block(to, args.count)
      BY <2>2 DEF Block
    <3>2. (from + cnt) + (a - (to + cnt)) = from + (a - to)
      BY <2>2 DEF Addr
    <3> QED
      BY <2>4, <3>1, <3>2 DEF DownLoop, Copied
  <2> QED
    BY <2>1, <2>3, <2>4
<1>8. CASE at \in {"strcat", "strncat"}
  BY <1>8 DEF SeekLoop
<1>9. CASE at \in {"append_end", "done"}
  BY <1>9
<1> QED
  BY <1>1, <1>2, <1>3, <1>5, <1>6, <1>7, <1>8, <1>9 DEF CopyTypeOK

LEMMA CopyInvMeans == CopyInv => CopiesAreRight
BY OldOrNew DEF CopiesAreRight, CopyInv, AtLoop
-----------------------------------------------------------------------------
(* The string functions that search.                                       *)
SearchNames == {"strlen", "strchr", "strrchr", "strcmp", "strncmp", "strspn", "strcspn", "strpbrk",
           "strstr"}
Questions == [name : SearchNames, s : Addr, t : Addr, count : Count, char : Byte]

(* How far each loop has come in the strings at s and t, of j and k chars. *)
Same(s, t, j) == \A i \in 0 .. j - 1 : mem[s + i] = mem[t + i]
Compared(s, t) == /\ q = t + (p - s) /\ Same(s, t, p - s)
Inner(t) == \A b \in t .. q - 1 : mem[b] # mem[p]

Scanned(s, t) ==
    /\ scan = "strchr"  => \A a \in s .. p - 1 : mem[a] # asked.char
    /\ scan = "strrchr" => IsLast(q, {a \in s .. p - 1 : mem[a] = asked.char})
    /\ scan = "strcmp"  => Compared(s, t)
    /\ scan = "strncmp" => Compared(s, t) /\ rest = asked.count - (p - s) /\ rest \in Count
    /\ scan = "strspn"  => (\A a \in s .. p - 1 : mem[a] \in Among(t)) /\ Inner(t)
    /\ scan \in {"strcspn", "strpbrk"} =>
           (\A a \in s .. p - 1 : mem[a] \notin Among(t) \cup {0}) /\ Inner(t)
    /\ scan = "needle"  => rest = Length(mem, s)
    /\ scan = "find"    => /\ q = End(t) /\ rest = End(s) - p
                           /\ \A a \in s .. p - 1 : ~Occurs(t, a, s)

InStrings(s, t) ==
    /\ IsString(mem, s) /\ IsString(mem, t)
    /\ scan # "done" => p \in s .. End(s)
    /\ scan \notin {"done", "strrchr"} => q \in t .. End(t)

SearchTypeOK ==
    /\ mem \in [Addr -> Byte]
    /\ scan \in SearchNames \cup {"none", "needle", "find", "done"}
    /\ scan # "none" => asked \in Questions
    /\ scan \in SearchNames => asked.name = scan
    /\ scan \in {"needle", "find"} => asked.name = "strstr"

SearchInv ==
    /\ SearchTypeOK
    /\ scan # "none" => InStrings(asked.s, asked.t) /\ Scanned(asked.s, asked.t)
    /\ scan = "done" => IsRight(found)

(* A string ends in its NUL and has no other.                              *)
Terminated(s) ==
    /\ s \in Addr /\ End(s) \in Addr /\ s <= End(s) /\ Length(mem, s) = End(s) - s
    /\ mem[End(s)] = 0 /\ \A a \in s .. End(s) - 1 : mem[a] # 0
    /\ Chars(s) = s .. End(s) - 1

LEMMA StringEnds == ASSUME NEW s \in Addr, IsString(mem, s) PROVE Terminated(s)
<1> DEFINE k == Length(mem, s)
<1>1. k \in Count /\ StringAt(mem, s, k)
  BY LengthIs
<1>2. s \in Nat /\ k \in Nat /\ End(s) = s + k /\ End(s) \in Addr /\ mem[End(s)] = 0
  BY <1>1, MemAssumption DEF Addr, Count, StringAt, End
<1>3. ASSUME NEW a \in s .. End(s) - 1 PROVE mem[a] # 0
  <2>1. a - s \in 0 .. k - 1 /\ s + (a - s) = a
    BY <1>2
  <2> QED
    BY <1>1, <2>1 DEF StringAt
<1>4. Chars(s) = s .. End(s) - 1
  BY <1>2 DEF Chars, Block
<1> HIDE DEF k
<1> QED
  BY <1>2, <1>3, <1>4 DEF Terminated, k

LEMMA InALoop ==
    ASSUME SearchInv, scan \notin {"none", "done"}
    PROVE  \E s, t \in Addr : /\ s = asked.s /\ t = asked.t
                              /\ InStrings(s, t) /\ Scanned(s, t)
                              /\ Terminated(s) /\ Terminated(t)
                              /\ {s, t, End(s), End(t)} \subseteq Int /\ p \in s .. End(s)
                              /\ scan # "strrchr" => q \in t .. End(t)
<1>1. scan # "none" /\ asked \in Questions
  BY DEF SearchInv, SearchTypeOK
<1>2. asked.s \in Addr /\ asked.t \in Addr /\ InStrings(asked.s, asked.t) /\ Scanned(asked.s, asked.t)
  BY <1>1 DEF SearchInv, Questions
<1>3. Terminated(asked.s) /\ Terminated(asked.t)
  BY <1>2, StringEnds DEF InStrings
<1>4. {asked.s, asked.t, End(asked.s), End(asked.t)} \subseteq Int
  BY <1>2, <1>3 DEF Terminated, Addr
<1> QED
  BY <1>2, <1>3, <1>4 DEF InStrings

LEMMA SameMemory ==
    ASSUME UNCHANGED mem
    PROVE  /\ \A a : Chars(a)' = Chars(a) /\ End(a)' = End(a) /\ Among(a)' = Among(a)
           /\ \A a, b : Longest(a, b)' = Longest(a, b) /\ \A k : Same(a, b, k)' = Same(a, b, k)
           /\ \A a, b, k, d : IsDifference(d, a, b, k)' = IsDifference(d, a, b, k)
           /\ \A a, b, k : Occurs(a, b, k)' = Occurs(a, b, k)
<1>1. \A a : Chars(a)' = Chars(a) /\ End(a)' = End(a)
  BY DEF Chars, End
<1>2. \A a : Among(a)' = Among(a)
  BY <1>1 DEF Among
<1>3. \A a, b : Longest(a, b)' = Longest(a, b) /\ \A k : Same(a, b, k)' = Same(a, b, k)
  BY DEF Longest, Same
<1>4. \A a, b, k, d : IsDifference(d, a, b, k)' = IsDifference(d, a, b, k)
  BY DEF IsDifference
<1>5. \A a, b, k : Occurs(a, b, k)' = Occurs(a, b, k)
  BY <1>1 DEF Occurs
<1> QED
  BY <1>1, <1>2, <1>3, <1>4, <1>5

LEMMA RightKept ==
    ASSUME mem' = mem, asked' = asked, NEW r, found' = r, IsRight(r)
    PROVE  IsRight(found)'
<1>1. mem' = mem /\ asked' = asked /\ found' = r
  OBVIOUS
<1>2. IsRight(r)
  OBVIOUS
<1> QED
  BY <1>1, <1>2, SameMemory, Zenon DEF IsRight

(* A turn that goes on.                                                    *)
LEMMA LoopGoesOn ==
    ASSUME SearchInv, scan \notin {"none", "done"}, UNCHANGED <<mem, asked, scan>>,
           NEW s, NEW t, s = asked.s, t = asked.t,
           p' \in s .. End(s), scan = "strrchr" \/ q' \in t .. End(t), Scanned(s, t)'
    PROVE  SearchInv'
<1>1. SearchTypeOK'
  BY DEF SearchInv, SearchTypeOK
<1>2. InStrings(s, t)
  BY DEF SearchInv
<1>3. InStrings(s, t)'
  BY <1>2 DEF InStrings, End
<1> QED
  BY <1>1, <1>3 DEF SearchInv

(* A turn that answers.                                                    *)
LEMMA AnswerKeeps ==
    ASSUME SearchInv, scan \notin {"none", "done"}, UNCHANGED <<mem, asked>>,
           NEW r, Answers(r), IsRight(r)
    PROVE  SearchInv'
<1>1. SearchTypeOK' /\ scan' = "done"
  BY DEF SearchInv, SearchTypeOK, Answers, SearchNames
<1>2. InStrings(asked.s, asked.t)' /\ Scanned(asked.s, asked.t)'
  <2>1. InStrings(asked.s, asked.t)
    BY DEF SearchInv
  <2> QED
    BY <1>1, <2>1 DEF InStrings, Scanned
<1>3. IsRight(found)'
  BY RightKept DEF Answers
<1> QED
  BY <1>1, <1>2, <1>3 DEF SearchInv

LEMMA StrlenKeeps == ASSUME SearchInv, Strlen PROVE SearchInv'
<1>1. scan = "strlen" /\ scan \notin {"none", "done"} /\ UNCHANGED <<mem, asked>>
  BY DEF Strlen, In
<1>2. PICK s \in Addr, t \in Addr : /\ s = asked.s /\ t = asked.t
                                    /\ InStrings(s, t) /\ Scanned(s, t)
                                    /\ Terminated(s) /\ Terminated(t)
                                    /\ {s, t, End(s), End(t)} \subseteq Int /\ p \in s .. End(s)
                                    /\ scan # "strrchr" => q \in t .. End(t)
  BY <1>1, InALoop
<1>3. asked.name = "strlen" /\ asked \in Questions /\ mem \in [Addr -> Byte]
  BY <1>1 DEF SearchInv, SearchTypeOK, SearchNames
<1>4. CASE mem[p] # 0 /\ Goes(p + 1, q, rest)
  <2>1. p + 1 \in s .. End(s) /\ q' = q /\ p' = p + 1 /\ scan' = scan
    BY <1>2, <1>3, <1>4 DEF Terminated, Goes
  <2>2. Scanned(s, t)'
    BY <1>1, <2>1 DEF Scanned
  <2> QED
    BY <1>1, <1>2, <1>3, <2>1, <2>2, LoopGoesOn
<1>5. CASE mem[p] = 0 /\ Answers(p - s)
  <2>1. p - s = Length(mem, s)
    BY <1>2, <1>3, <1>5 DEF Terminated
  <2>2. IsRight(p - s)
    BY <1>2, <1>3, <2>1 DEF IsRight
  <2> QED
    BY <1>1, <1>5, <2>2, AnswerKeeps
<1> QED
  BY <1>2, <1>4, <1>5 DEF Strlen

LEMMA StrchrKeeps == ASSUME SearchInv, Strchr PROVE SearchInv'
<1>1. scan = "strchr" /\ scan \notin {"none", "done"} /\ UNCHANGED <<mem, asked>>
  BY DEF Strchr, In
<1>2. PICK s \in Addr, t \in Addr : /\ s = asked.s /\ t = asked.t
                                    /\ InStrings(s, t) /\ Scanned(s, t)
                                    /\ Terminated(s) /\ Terminated(t)
                                    /\ {s, t, End(s), End(t)} \subseteq Int /\ p \in s .. End(s)
                                    /\ scan # "strrchr" => q \in t .. End(t)
  BY <1>1, InALoop
<1>3. asked.name = "strchr" /\ asked \in Questions /\ mem \in [Addr -> Byte]
  BY <1>1 DEF SearchInv, SearchTypeOK, SearchNames
<1>4. \A a \in s .. p - 1 : mem[a] # asked.char
  BY <1>1, <1>2 DEF Scanned
<1>5. Chars(s) \cup {End(s)} = s .. End(s)
  BY <1>2 DEF Terminated
<1>6. CASE mem[p] = asked.char /\ Answers(p)
  <2>1. IsFirst(p, {a \in s .. End(s) : mem[a] = asked.char})
    BY <1>2, <1>4, <1>6 DEF IsFirst
  <2>2. IsRight(p)
    BY <1>2, <1>3, <1>5, <2>1 DEF IsRight
  <2> QED
    BY <1>1, <1>6, <2>2, AnswerKeeps
<1>7. CASE mem[p] # asked.char /\ mem[p] = 0 /\ Answers(NULL)
  <2>1. IsFirst(NULL, {a \in s .. End(s) : mem[a] = asked.char})
    BY <1>2, <1>4, <1>7 DEF IsFirst, Terminated
  <2>2. IsRight(NULL)
    BY <1>2, <1>3, <1>5, <2>1 DEF IsRight
  <2> QED
    BY <1>1, <1>7, <2>2, AnswerKeeps
<1>8. CASE mem[p] # asked.char /\ mem[p] # 0 /\ Goes(p + 1, q, rest)
  <2>1. p + 1 \in s .. End(s) /\ q' = q /\ p' = p + 1 /\ scan' = scan
    BY <1>2, <1>8 DEF Terminated, Goes
  <2>2. Scanned(s, t)'
    BY <1>1, <1>2, <1>4, <1>8, <2>1 DEF Scanned
  <2> QED
    BY <1>1, <1>2, <2>1, <2>2, LoopGoesOn
<1> QED
  BY <1>6, <1>7, <1>8 DEF Strchr

LEMMA StrrchrKeeps == ASSUME SearchInv, Strrchr PROVE SearchInv'
<1>1. scan = "strrchr" /\ scan \notin {"none", "done"} /\ UNCHANGED <<mem, asked>>
  BY DEF Strrchr, In
<1>2. PICK s \in Addr, t \in Addr : /\ s = asked.s /\ t = asked.t
                                    /\ InStrings(s, t) /\ Scanned(s, t)
                                    /\ Terminated(s) /\ Terminated(t)
                                    /\ {s, t, End(s), End(t)} \subseteq Int /\ p \in s .. End(s)
                                    /\ scan # "strrchr" => q \in t .. End(t)
  BY <1>1, InALoop
<1>3. asked.name = "strrchr" /\ asked \in Questions /\ mem \in [Addr -> Byte]
  BY <1>1 DEF SearchInv, SearchTypeOK, SearchNames
<1>4. IsLast(q, {a \in s .. p - 1 : mem[a] = asked.char})
  BY <1>1, <1>2 DEF Scanned
<1>5. CASE mem[p] = 0 /\ Answers(q)
  <2>1. p = End(s)
    BY <1>2, <1>5 DEF Terminated
  <2>2. IsLast(q, {a \in Chars(s) : mem[a] = asked.char})
    BY <1>2, <1>4, <2>1 DEF Terminated
  <2>3. IsRight(q)
    BY <1>2, <1>3, <2>2 DEF IsRight
  <2> QED
    BY <1>1, <1>5, <2>3, AnswerKeeps
<1>6. CASE mem[p] # 0 /\ Goes(p + 1, IF mem[p] = asked.char THEN p ELSE q, rest)
  <2>1. /\ p + 1 \in s .. End(s) /\ p' = p + 1 /\ scan' = scan
        /\ q' = IF mem[p] = asked.char THEN p ELSE q
    BY <1>2, <1>6 DEF Terminated, Goes
  <2>2. IsLast(q', {a \in s .. p' - 1 : mem[a] = asked.char})
    <3>1. CASE mem[p] = asked.char
      BY <1>2, <2>1, <3>1 DEF IsLast
    <3>2. CASE mem[p] # asked.char
      <4>1. {a \in s .. p' - 1 : mem[a] = asked.char} = {a \in s .. p - 1 : mem[a] = asked.char}
        BY <1>2, <2>1, <3>2
      <4> QED
        BY <1>4, <2>1, <3>2, <4>1
    <3> QED
      BY <3>1, <3>2
  <2>3. Scanned(s, t)'
    BY <1>1, <2>1, <2>2 DEF Scanned
  <2> QED
    BY <1>1, <1>2, <2>1, <2>3, LoopGoesOn
<1> QED
  BY <1>5, <1>6 DEF Strrchr

(* Two strings that agree up to p and q.                                   *)
LEMMA AgreeOnce ==
    ASSUME NEW s \in Int, NEW t \in Int, Compared(s, t), p \in Int, p >= s, mem[p] = mem[q],
           mem' = mem, p' = p + 1, q' = q + 1
    PROVE  Compared(s, t)'
<1>1. q = t + (p - s) /\ \A i \in 0 .. (p - s) - 1 : mem[s + i] = mem[t + i]
  BY DEF Compared, Same
<1>2. ASSUME NEW i \in 0 .. (p' - s) - 1 PROVE mem[s + i] = mem[t + i]
  <2>1. CASE i = p - s
    <3>1. s + i = p /\ t + i = q
      BY <1>1, <2>1
    <3> QED
      BY <3>1
  <2>2. CASE i # p - s
    BY <1>1, <2>2
  <2> QED
    BY <2>1, <2>2
<1> QED
  BY <1>1, <1>2 DEF Compared, Same

LEMMA Differ ==
    ASSUME NEW s \in Int, NEW t \in Int, Compared(s, t), p \in Int, p >= s, mem[p] # mem[q],
           mem[p] \in Int, mem[q] \in Int, NEW k \in Int, p - s < k
    PROVE  IsDifference(mem[p] - mem[q], s, t, k)
<1> DEFINE i == p - s
<1>1. q = t + i /\ \A j \in 0 .. i - 1 : mem[s + j] = mem[t + j]
  BY DEF Compared, Same
<1>2. i \in 0 .. k - 1 /\ s + i = p /\ t + i = q
  BY <1>1
<1>3. mem[p] - mem[q] # 0
  OBVIOUS
<1> HIDE DEF i
<1> QED
  BY <1>1, <1>2, <1>3 DEF IsDifference

LEMMA ReadInside ==
    ASSUME mem \in [Addr -> Byte], NEW s, Terminated(s), NEW a \in s .. End(s)
    PROVE  a \in Int /\ a >= s /\ mem[a] \in Byte /\ mem[a] \in Int
<1>1. MemSize \in Int /\ s \in Int /\ End(s) \in Int /\ a \in Addr
  BY MemAssumption DEF Terminated, Addr
<1>2. mem[a] \in Byte
  BY <1>1
<1>3. mem[a] \in Int
  <2>1. \A b \in Byte : b \in Nat
    BY MemAssumption
  <2> QED
    BY <1>2, <2>1
<1>4. a \in Int /\ a >= s
  BY <1>1
<1> QED
  BY <1>2, <1>3, <1>4

LEMMA Agree ==
    ASSUME NEW s \in Int, NEW t \in Int, Compared(s, t), p \in Int, p >= s
    PROVE  /\ IsDifference(0, s, t, p - s)
           /\ mem[p] = mem[q] => IsDifference(0, s, t, p - s + 1)
<1>1. q = t + (p - s) /\ \A i \in 0 .. (p - s) - 1 : mem[s + i] = mem[t + i]
  BY DEF Compared, Same
<1>2. ASSUME mem[p] = mem[q], NEW i \in 0 .. (p - s + 1) - 1 PROVE mem[s + i] = mem[t + i]
  <2>1. CASE i = p - s
    <3>1. s + i = p /\ t + i = q
      BY <1>1, <2>1
    <3> QED
      BY <1>2, <3>1
  <2>2. CASE i # p - s
    BY <1>1, <2>2
  <2> QED
    BY <2>1, <2>2
<1> QED
  BY <1>1, <1>2 DEF IsDifference

LEMMA WithinLongest ==
    ASSUME NEW s \in Int, NEW t \in Int, Terminated(s), Terminated(t), Compared(s, t),
           End(s) \in Int, End(t) \in Int, p \in s .. End(s), q \in t .. End(t)
    PROVE  /\ Longest(s, t) \in Int /\ p - s < Longest(s, t)
           /\ mem[p] = mem[q] /\ mem[p] = 0 => Longest(s, t) = p - s + 1
           /\ mem[p] # 0 => p + 1 \in s .. End(s)
           /\ mem[q] # 0 => q + 1 \in t .. End(t)
<1>1. q = t + (p - s) /\ Length(mem, s) = End(s) - s /\ Length(mem, t) = End(t) - t
  BY DEF Compared, Terminated
<1>2. /\ mem[p] = 0 => p = End(s)
      /\ mem[q] = 0 => q = End(t)
      /\ mem[p] # 0 => p # End(s)
      /\ mem[q] # 0 => q # End(t)
  BY DEF Terminated
<1> QED
  BY <1>1, <1>2 DEF Longest, Shorter

LEMMA StrcmpKeeps == ASSUME SearchInv, Strcmp PROVE SearchInv'
<1>1. scan = "strcmp" /\ scan \notin {"none", "done"} /\ UNCHANGED <<mem, asked>>
  BY DEF Strcmp, In
<1>2. PICK s \in Addr, t \in Addr : /\ s = asked.s /\ t = asked.t
                                    /\ InStrings(s, t) /\ Scanned(s, t)
                                    /\ Terminated(s) /\ Terminated(t)
                                    /\ {s, t, End(s), End(t)} \subseteq Int /\ p \in s .. End(s)
                                    /\ scan # "strrchr" => q \in t .. End(t)
  BY <1>1, InALoop
<1>3. asked.name = "strcmp" /\ asked \in Questions /\ mem \in [Addr -> Byte]
  BY <1>1 DEF SearchInv, SearchTypeOK, SearchNames
<1>4. Compared(s, t) /\ q \in t .. End(t)
  BY <1>1, <1>2 DEF Scanned
<1>5. /\ Longest(s, t) \in Int /\ p - s < Longest(s, t)
      /\ mem[p] = mem[q] /\ mem[p] = 0 => Longest(s, t) = p - s + 1
      /\ mem[p] # 0 => p + 1 \in s .. End(s)
      /\ mem[q] # 0 => q + 1 \in t .. End(t)
  BY <1>2, <1>4, WithinLongest
<1>6. mem[p] \in Int /\ mem[q] \in Int /\ p \in Int /\ p >= s
  BY <1>2, <1>3, <1>4, ReadInside
<1>7. CASE mem[p] # 0 /\ mem[q] # 0 /\ mem[p] = mem[q] /\ Goes(p + 1, q + 1, rest)
  <2>1. p' = p + 1 /\ q' = q + 1 /\ scan' = scan
    BY <1>7 DEF Goes
  <2>2. Compared(s, t)'
    BY <1>1, <1>2, <1>4, <1>6, <1>7, <2>1, AgreeOnce
  <2>3. Scanned(s, t)'
    BY <1>1, <2>1, <2>2 DEF Scanned
  <2> QED
    BY <1>1, <1>2, <1>5, <1>7, <2>1, <2>3, LoopGoesOn
<1>8. CASE ~(mem[p] # 0 /\ mem[q] # 0 /\ mem[p] = mem[q]) /\ Answers(mem[p] - mem[q])
  <2>1. IsDifference(mem[p] - mem[q], s, t, Longest(s, t))
    <3>1. CASE mem[p] = mem[q]
      <4>1. mem[p] - mem[q] = 0 /\ Longest(s, t) = p - s + 1
        BY <1>5, <1>6, <1>8, <3>1
      <4> QED
        BY <1>2, <1>4, <1>6, <3>1, <4>1, Agree
    <3>2. CASE mem[p] # mem[q]
      BY <1>2, <1>4, <1>5, <1>6, <3>2, Differ
    <3> QED
      BY <3>1, <3>2
  <2>2. IsRight(mem[p] - mem[q])
    BY <1>2, <1>3, <2>1 DEF IsRight
  <2> QED
    BY <1>1, <1>8, <2>2, AnswerKeeps
<1> QED
  BY <1>7, <1>8 DEF Strcmp

LEMMA StrncmpKeeps == ASSUME SearchInv, Strncmp PROVE SearchInv'
<1>1. scan = "strncmp" /\ scan \notin {"none", "done"} /\ UNCHANGED <<mem, asked>>
  BY DEF Strncmp, In
<1>2. PICK s \in Addr, t \in Addr : /\ s = asked.s /\ t = asked.t
                                    /\ InStrings(s, t) /\ Scanned(s, t)
                                    /\ Terminated(s) /\ Terminated(t)
                                    /\ {s, t, End(s), End(t)} \subseteq Int /\ p \in s .. End(s)
                                    /\ scan # "strrchr" => q \in t .. End(t)
  BY <1>1, InALoop
<1>3. asked.name = "strncmp" /\ asked \in Questions /\ mem \in [Addr -> Byte]
  BY <1>1 DEF SearchInv, SearchTypeOK, SearchNames
<1>4. Compared(s, t) /\ q \in t .. End(t) /\ rest = asked.count - (p - s) /\ rest \in Count
  BY <1>1, <1>2 DEF Scanned
<1>5. /\ Longest(s, t) \in Int /\ p - s < Longest(s, t)
      /\ mem[p] = mem[q] /\ mem[p] = 0 => Longest(s, t) = p - s + 1
      /\ mem[p] # 0 => p + 1 \in s .. End(s)
      /\ mem[q] # 0 => q + 1 \in t .. End(t)
  BY <1>2, <1>4, WithinLongest
<1>6. mem[p] \in Int /\ mem[q] \in Int /\ p \in Int /\ p >= s
  BY <1>2, <1>3, <1>4, ReadInside
<1> DEFINE k == Shorter(asked.count, Longest(s, t))
<1>7. asked.count \in Int /\ rest \in Int /\ rest >= 0
  BY <1>3, <1>4 DEF Questions, Count
<1>8. /\ rest = 0 => k = p - s
      /\ rest # 0 => k \in Int /\ p - s < k
      /\ rest # 0 /\ mem[p] = mem[q] /\ mem[p] = 0 => k = p - s + 1
  BY <1>2, <1>4, <1>5, <1>7 DEF Shorter
<1> HIDE DEF k
<1>9. ASSUME NEW r, IsDifference(r, s, t, k), Answers(r) PROVE SearchInv'
  <2>1. IsRight(r)
    BY <1>2, <1>3, <1>9 DEF IsRight, k
  <2> QED
    BY <1>1, <1>9, <2>1, AnswerKeeps
<1>10. CASE rest = 0 /\ Answers(0)
  BY <1>2, <1>4, <1>6, <1>8, <1>9, <1>10, Agree
<1>11. CASE rest # 0 /\ mem[p] # mem[q] /\ Answers(mem[p] - mem[q])
  BY <1>2, <1>4, <1>6, <1>8, <1>9, <1>11, Differ
<1>12. CASE rest # 0 /\ mem[p] = mem[q] /\ mem[p] = 0 /\ Answers(0)
  BY <1>2, <1>4, <1>6, <1>8, <1>9, <1>12, Agree
<1>13. CASE rest # 0 /\ mem[p] = mem[q] /\ mem[p] # 0 /\ Goes(p + 1, q + 1, rest - 1)
  <2>1. p' = p + 1 /\ q' = q + 1 /\ scan' = scan /\ rest' = rest - 1
    BY <1>13 DEF Goes
  <2>2. Compared(s, t)'
    BY <1>1, <1>2, <1>4, <1>6, <1>13, <2>1, AgreeOnce
  <2>3. rest' = asked'.count - (p' - s) /\ rest' \in Count
    BY <1>1, <1>2, <1>4, <1>6, <1>7, <1>13, <2>1, MemAssumption DEF Count
  <2>4. Scanned(s, t)'
    BY <1>1, <2>1, <2>2, <2>3 DEF Scanned
  <2> QED
    BY <1>1, <1>2, <1>5, <1>13, <2>1, <2>4, LoopGoesOn
<1> QED
  BY <1>10, <1>11, <1>12, <1>13 DEF Strncmp

LEMMA AmongIs ==
    ASSUME NEW t, Terminated(t)
    PROVE  \A x : x \in Among(t) <=> \E b \in t .. End(t) - 1 : mem[b] = x
BY DEF Among, Terminated

LEMMA StrspnKeeps == ASSUME SearchInv, Strspn PROVE SearchInv'
<1>1. scan = "strspn" /\ scan \notin {"none", "done"} /\ UNCHANGED <<mem, asked>>
  BY DEF Strspn, In
<1>2. PICK s \in Addr, t \in Addr : /\ s = asked.s /\ t = asked.t
                                    /\ InStrings(s, t) /\ Scanned(s, t)
                                    /\ Terminated(s) /\ Terminated(t)
                                    /\ {s, t, End(s), End(t)} \subseteq Int /\ p \in s .. End(s)
                                    /\ scan # "strrchr" => q \in t .. End(t)
  BY <1>1, InALoop
<1>3. asked.name = "strspn" /\ asked \in Questions /\ mem \in [Addr -> Byte]
  BY <1>1 DEF SearchInv, SearchTypeOK, SearchNames
<1>4. q \in t .. End(t) /\ Inner(t) /\ \A a \in s .. p - 1 : mem[a] \in Among(t)
  BY <1>1, <1>2 DEF Scanned
<1>5. /\ mem[p] = 0 <=> p = End(s)
      /\ mem[q] = 0 <=> q = End(t)
      /\ mem[q] # 0 /\ mem[q] = mem[p] => mem[p] \in Among(t)
      /\ q = End(t) => mem[p] \notin Among(t)
  BY <1>2, <1>4, AmongIs DEF Terminated, Inner
<1>6. Chars(s) \cup {End(s)} = s .. End(s) /\ Chars(s) = s .. End(s) - 1
  BY <1>2 DEF Terminated
<1>7. CASE mem[q] = 0 /\ Answers(p - s)
  <2>1. s + (p - s) = p
    BY <1>2
  <2>2. IsFirst(p, {a \in s .. End(s) : mem[a] \notin Among(t)})
    BY <1>2, <1>4, <1>5, <1>7 DEF IsFirst
  <2>3. IsRight(p - s)
    BY <1>2, <1>3, <1>6, <2>1, <2>2 DEF IsRight
  <2> QED
    BY <1>1, <1>7, <2>3, AnswerKeeps
<1>8. CASE mem[q] # 0 /\ mem[q] = mem[p] /\ Goes(p + 1, t, rest)
  <2>1. p' = p + 1 /\ q' = t /\ scan' = scan /\ p + 1 \in s .. End(s) /\ t \in t .. End(t)
    BY <1>2, <1>4, <1>5, <1>8 DEF Goes
  <2>2. Inner(t)'
    BY <1>2, <2>1 DEF Inner
  <2>3. Scanned(s, t)'
    BY <1>1, <1>2, <1>4, <1>5, <1>8, <2>1, <2>2 DEF Scanned, Among, Chars
  <2> QED
    BY <1>1, <1>2, <2>1, <2>3, LoopGoesOn
<1>9. CASE mem[q] # 0 /\ mem[q] # mem[p] /\ Goes(p, q + 1, rest)
  <2>1. p' = p /\ q' = q + 1 /\ scan' = scan /\ q + 1 \in t .. End(t)
    BY <1>2, <1>4, <1>5, <1>9 DEF Goes
  <2>2. Inner(t)'
    BY <1>1, <1>2, <1>4, <1>9, <2>1 DEF Inner
  <2>3. Scanned(s, t)'
    BY <1>1, <1>4, <2>1, <2>2 DEF Scanned, Among, Chars
  <2> QED
    BY <1>1, <1>2, <2>1, <2>3, LoopGoesOn
<1> QED
  BY <1>2, <1>7, <1>8, <1>9 DEF Strspn

LEMMA StrcspnKeeps == ASSUME SearchInv, Strcspn PROVE SearchInv'
<1>1. scan = "strcspn" /\ scan \notin {"none", "done"} /\ UNCHANGED <<mem, asked>>
  BY DEF Strcspn, In
<1>2. PICK s \in Addr, t \in Addr : /\ s = asked.s /\ t = asked.t
                                    /\ InStrings(s, t) /\ Scanned(s, t)
                                    /\ Terminated(s) /\ Terminated(t)
                                    /\ {s, t, End(s), End(t)} \subseteq Int /\ p \in s .. End(s)
                                    /\ scan # "strrchr" => q \in t .. End(t)
  BY <1>1, InALoop
<1>3. asked.name = "strcspn" /\ asked \in Questions /\ mem \in [Addr -> Byte]
  BY <1>1 DEF SearchInv, SearchTypeOK, SearchNames
<1>4. q \in t .. End(t) /\ Inner(t) /\ \A a \in s .. p - 1 : mem[a] \notin Among(t) \cup {0}
  BY <1>1, <1>2 DEF Scanned
<1>5. /\ mem[p] = 0 <=> p = End(s)
      /\ mem[q] = 0 <=> q = End(t)
      /\ mem[q] # 0 /\ mem[q] = mem[p] => mem[p] \in Among(t)
      /\ q = End(t) => mem[p] \notin Among(t)
  BY <1>2, <1>4, AmongIs DEF Terminated, Inner
<1>6. Chars(s) \cup {End(s)} = s .. End(s) /\ Chars(s) = s .. End(s) - 1
  BY <1>2 DEF Terminated
<1>7. CASE mem[q] = mem[p] /\ Answers(p - s)
  <2>1. s + (p - s) = p
    BY <1>2
  <2>2. IsFirst(p, {a \in s .. End(s) : mem[a] \in Among(t) \cup {0}})
    BY <1>2, <1>4, <1>5, <1>7 DEF IsFirst
  <2>3. IsRight(p - s)
    BY <1>2, <1>3, <1>6, <2>1, <2>2 DEF IsRight
  <2> QED
    BY <1>1, <1>7, <2>3, AnswerKeeps
<1>8. CASE mem[q] # mem[p] /\ mem[q] = 0 /\ Goes(p + 1, t, rest)
  <2>1. p' = p + 1 /\ q' = t /\ scan' = scan /\ p + 1 \in s .. End(s) /\ t \in t .. End(t)
    BY <1>2, <1>4, <1>5, <1>8 DEF Goes
  <2>2. Inner(t)'
    BY <1>2, <2>1 DEF Inner
  <2>3. Scanned(s, t)'
    BY <1>1, <1>2, <1>4, <1>5, <1>8, <2>1, <2>2 DEF Scanned, Among, Chars
  <2> QED
    BY <1>1, <1>2, <2>1, <2>3, LoopGoesOn
<1>9. CASE mem[q] # mem[p] /\ mem[q] # 0 /\ Goes(p, q + 1, rest)
  <2>1. p' = p /\ q' = q + 1 /\ scan' = scan /\ q + 1 \in t .. End(t)
    BY <1>2, <1>4, <1>5, <1>9 DEF Goes
  <2>2. Inner(t)'
    BY <1>1, <1>2, <1>4, <1>9, <2>1 DEF Inner
  <2>3. Scanned(s, t)'
    BY <1>1, <1>4, <2>1, <2>2 DEF Scanned, Among, Chars
  <2> QED
    BY <1>1, <1>2, <2>1, <2>3, LoopGoesOn
<1> QED
  BY <1>2, <1>7, <1>8, <1>9 DEF Strcspn

LEMMA StrpbrkKeeps == ASSUME SearchInv, Strpbrk PROVE SearchInv'
<1>1. scan = "strpbrk" /\ scan \notin {"none", "done"} /\ UNCHANGED <<mem, asked>>
  BY DEF Strpbrk, In
<1>2. PICK s \in Addr, t \in Addr : /\ s = asked.s /\ t = asked.t
                                    /\ InStrings(s, t) /\ Scanned(s, t)
                                    /\ Terminated(s) /\ Terminated(t)
                                    /\ {s, t, End(s), End(t)} \subseteq Int /\ p \in s .. End(s)
                                    /\ scan # "strrchr" => q \in t .. End(t)
  BY <1>1, InALoop
<1>3. asked.name = "strpbrk" /\ asked \in Questions /\ mem \in [Addr -> Byte]
  BY <1>1 DEF SearchInv, SearchTypeOK, SearchNames
<1>4. q \in t .. End(t) /\ Inner(t) /\ \A a \in s .. p - 1 : mem[a] \notin Among(t) \cup {0}
  BY <1>1, <1>2 DEF Scanned
<1>5. /\ mem[p] = 0 <=> p = End(s)
      /\ mem[q] = 0 <=> q = End(t)
      /\ mem[q] # 0 /\ mem[q] = mem[p] => mem[p] \in Among(t)
      /\ q = End(t) => mem[p] \notin Among(t)
  BY <1>2, <1>4, AmongIs DEF Terminated, Inner
<1>6. Chars(s) \cup {End(s)} = s .. End(s) /\ Chars(s) = s .. End(s) - 1
  BY <1>2 DEF Terminated
<1>7. CASE mem[p] = 0 /\ Answers(NULL)
  <2>1. IsFirst(NULL, {a \in s .. End(s) - 1 : mem[a] \in Among(t)})
    BY <1>2, <1>4, <1>5, <1>7 DEF IsFirst
  <2>2. IsRight(NULL)
    BY <1>2, <1>3, <1>6, <2>1 DEF IsRight
  <2> QED
    BY <1>1, <1>7, <2>2, AnswerKeeps
<1>8. CASE mem[p] # 0 /\ mem[q] = 0 /\ Goes(p + 1, t, rest)
  <2>1. p' = p + 1 /\ q' = t /\ scan' = scan /\ p + 1 \in s .. End(s) /\ t \in t .. End(t)
    BY <1>2, <1>4, <1>5, <1>8 DEF Goes
  <2>2. Inner(t)'
    BY <1>2, <2>1 DEF Inner
  <2>3. Scanned(s, t)'
    BY <1>1, <1>2, <1>4, <1>5, <1>8, <2>1, <2>2 DEF Scanned, Among, Chars
  <2> QED
    BY <1>1, <1>2, <2>1, <2>3, LoopGoesOn
<1>9. CASE mem[p] # 0 /\ mem[q] # 0 /\ mem[q] # mem[p] /\ Goes(p, q + 1, rest)
  <2>1. p' = p /\ q' = q + 1 /\ scan' = scan /\ q + 1 \in t .. End(t)
    BY <1>2, <1>4, <1>5, <1>9 DEF Goes
  <2>2. Inner(t)'
    BY <1>1, <1>2, <1>4, <1>9, <2>1 DEF Inner
  <2>3. Scanned(s, t)'
    BY <1>1, <1>4, <2>1, <2>2 DEF Scanned, Among, Chars
  <2> QED
    BY <1>1, <1>2, <2>1, <2>3, LoopGoesOn
<1>10. CASE mem[p] # 0 /\ mem[q] # 0 /\ mem[q] = mem[p] /\ Answers(p)
  <2>1. IsFirst(p, {a \in s .. End(s) - 1 : mem[a] \in Among(t)})
    BY <1>2, <1>4, <1>5, <1>10 DEF IsFirst
  <2>2. IsRight(p)
    BY <1>2, <1>3, <1>6, <2>1 DEF IsRight
  <2> QED
    BY <1>1, <1>10, <2>2, AnswerKeeps
<1> QED
  BY <1>2, <1>7, <1>8, <1>9, <1>10 DEF Strpbrk

LEMMA MeasureKeeps ==
    ASSUME SearchInv, UNCHANGED <<mem, asked>>,
           scan \in {"strstr", "needle"}, scan' \in {"strstr", "needle", "find"},
           NEW s, NEW t, s = asked.s, t = asked.t,
           p' \in s .. End(s), q' \in t .. End(t), Scanned(s, t)'
    PROVE  SearchInv'
<1>1. SearchTypeOK'
  BY DEF SearchInv, SearchTypeOK, SearchNames
<1>2. InStrings(s, t)
  BY DEF SearchInv
<1>3. InStrings(s, t)'
  BY <1>2 DEF InStrings, End
<1> QED
  BY <1>1, <1>3 DEF SearchInv

LEMMA HaystackKeeps == ASSUME SearchInv, Haystack PROVE SearchInv'
<1>1. scan = "strstr" /\ scan \notin {"none", "done"} /\ UNCHANGED <<mem, asked>>
  BY DEF Haystack
<1>2. PICK s \in Addr, t \in Addr : /\ s = asked.s /\ t = asked.t
                                    /\ InStrings(s, t) /\ Scanned(s, t)
                                    /\ Terminated(s) /\ Terminated(t)
                                    /\ {s, t, End(s), End(t)} \subseteq Int /\ p \in s .. End(s)
                                    /\ scan # "strrchr" => q \in t .. End(t)
  BY <1>1, InALoop
<1>3. asked.name = "strstr" /\ asked \in Questions /\ mem \in [Addr -> Byte]
  BY <1>1 DEF SearchInv, SearchTypeOK, SearchNames
<1>4. q' = q /\ q \in t .. End(t)
  BY <1>1, <1>2 DEF Haystack
<1>5. CASE mem[p] # 0 /\ p' = p + 1 /\ UNCHANGED <<rest, scan>>
  <2>1. p + 1 \in s .. End(s)
    BY <1>2, <1>5 DEF Terminated
  <2>2. Scanned(s, t)'
    BY <1>1, <1>5 DEF Scanned
  <2> QED
    BY <1>1, <1>2, <1>4, <1>5, <2>1, <2>2, MeasureKeeps
<1>6. CASE mem[p] = 0 /\ rest' = p - asked.s /\ scan' = "needle" /\ UNCHANGED p
  <2>1. rest' = Length(mem, s)
    BY <1>2, <1>6 DEF Terminated
  <2>2. Scanned(s, t)'
    BY <1>1, <1>6, <2>1 DEF Scanned
  <2> QED
    BY <1>1, <1>2, <1>4, <1>6, <2>2, MeasureKeeps
<1> QED
  BY <1>5, <1>6 DEF Haystack

LEMMA NeedleKeeps == ASSUME SearchInv, Needle PROVE SearchInv'
<1>1. scan = "needle" /\ scan \notin {"none", "done"} /\ UNCHANGED <<mem, asked>>
  BY DEF Needle
<1>2. PICK s \in Addr, t \in Addr : /\ s = asked.s /\ t = asked.t
                                    /\ InStrings(s, t) /\ Scanned(s, t)
                                    /\ Terminated(s) /\ Terminated(t)
                                    /\ {s, t, End(s), End(t)} \subseteq Int /\ p \in s .. End(s)
                                    /\ scan # "strrchr" => q \in t .. End(t)
  BY <1>1, InALoop
<1>3. asked.name = "strstr" /\ asked \in Questions /\ mem \in [Addr -> Byte]
  BY <1>1 DEF SearchInv, SearchTypeOK, SearchNames
<1>4. q \in t .. End(t) /\ rest' = rest /\ rest = Length(mem, s)
  BY <1>1, <1>2 DEF Needle, Scanned
<1>5. CASE mem[q] # 0 /\ q' = q + 1 /\ UNCHANGED <<p, scan>>
  <2>1. q + 1 \in t .. End(t)
    BY <1>2, <1>4, <1>5 DEF Terminated
  <2>2. Scanned(s, t)'
    BY <1>1, <1>4, <1>5 DEF Scanned
  <2> QED
    BY <1>1, <1>2, <1>5, <2>1, <2>2, MeasureKeeps
<1>6. CASE mem[q] = 0 /\ p' = asked.s /\ scan' = "find" /\ UNCHANGED q
  <2>1. p' = s /\ q = End(t) /\ p' \in s .. End(s)
    BY <1>2, <1>4, <1>6 DEF Terminated
  <2>2. rest' = End(s) - p'
    BY <1>2, <1>4, <2>1 DEF Terminated
  <2>3. End(t)' = End(t) /\ End(s)' = End(s)
    BY <1>1 DEF End
  <2>4. Scanned(s, t)'
    BY <1>1, <1>2, <1>6, <2>1, <2>2, <2>3 DEF Scanned
  <2> QED
    BY <1>1, <1>2, <1>4, <1>6, <2>1, <2>4, MeasureKeeps
<1> QED
  BY <1>5, <1>6 DEF Needle

LEMMA FindKeeps == ASSUME SearchInv, Find PROVE SearchInv'
<1>1. scan = "find" /\ scan \notin {"none", "done"} /\ UNCHANGED <<mem, asked>>
  BY DEF Find, In
<1>2. PICK s \in Addr, t \in Addr : /\ s = asked.s /\ t = asked.t
                                    /\ InStrings(s, t) /\ Scanned(s, t)
                                    /\ Terminated(s) /\ Terminated(t)
                                    /\ {s, t, End(s), End(t)} \subseteq Int /\ p \in s .. End(s)
                                    /\ scan # "strrchr" => q \in t .. End(t)
  BY <1>1, InALoop
<1>3. asked.name = "strstr" /\ asked \in Questions /\ mem \in [Addr -> Byte]
  BY <1>1 DEF SearchInv, SearchTypeOK, SearchNames
<1>4. q = End(t) /\ rest = End(s) - p /\ \A a \in s .. p - 1 : ~Occurs(t, a, s)
  BY <1>1, <1>2 DEF Scanned
<1>5. Chars(s) \cup {End(s)} = s .. End(s) /\ t <= End(t) /\ Length(mem, t) = End(t) - t
  BY <1>2 DEF Terminated
<1> DEFINE k == q - t
<1>6. k \in Nat /\ k = Length(mem, t)
  BY <1>2, <1>4, <1>5
<1>7. long_enough(rest, k) <=> p + k <= End(s)
  BY <1>2, <1>4, <1>6 DEF long_enough
<1>8. Occurs(t, p, s) <=> p + k <= End(s) /\ memcmp(p, t, k) = 0
  BY <1>6 DEF Occurs, memcmp
<1> HIDE DEF k
<1>9. CASE ~long_enough(rest, k) /\ Answers(NULL)
  <2>1. ASSUME NEW a \in s .. End(s) PROVE ~Occurs(t, a, s)
    <3>1. CASE a \in s .. p - 1
      BY <1>4, <3>1
    <3>2. CASE a >= p
      BY <1>2, <1>6, <1>7, <1>9, <3>2 DEF Occurs
    <3> QED
      BY <1>2, <3>1, <3>2
  <2>2. IsFirst(NULL, {a \in s .. End(s) : Occurs(t, a, s)})
    BY <2>1 DEF IsFirst
  <2>3. IsRight(NULL)
    BY <1>2, <1>3, <1>5, <2>2 DEF IsRight
  <2> QED
    BY <1>1, <1>9, <2>3, AnswerKeeps
<1>10. CASE long_enough(rest, k) /\ memcmp(p, t, k) = 0 /\ Answers(p)
  <2>1. IsFirst(p, {a \in s .. End(s) : Occurs(t, a, s)})
    BY <1>2, <1>4, <1>7, <1>8, <1>10 DEF IsFirst
  <2>2. IsRight(p)
    BY <1>2, <1>3, <1>5, <2>1 DEF IsRight
  <2> QED
    BY <1>1, <1>10, <2>2, AnswerKeeps
<1>11. CASE long_enough(rest, k) /\ memcmp(p, t, k) # 0 /\ Goes(p + 1, q, rest - 1)
  <2>1. k # 0
    <3>1. k = 0 => memcmp(p, t, k) = 0
      BY DEF memcmp
    <3> QED
      BY <1>11, <3>1
  <2>2. p' = p + 1 /\ q' = q /\ rest' = rest - 1 /\ scan' = scan /\ p + 1 \in s .. End(s)
    BY <1>2, <1>6, <1>7, <1>11, <2>1 DEF Goes
  <2>3. \A a \in s .. p' - 1 : ~Occurs(t, a, s)
    BY <1>2, <1>4, <1>8, <1>11, <2>2
  <2>4. End(t)' = End(t) /\ End(s)' = End(s) /\ \A a : Occurs(t, a, s)' = Occurs(t, a, s)
    BY <1>1 DEF End, Occurs
  <2>5. rest' = End(s) - p'
    BY <1>2, <1>4, <2>2
  <2>6. Scanned(s, t)'
    BY <1>1, <1>4, <2>2, <2>3, <2>4, <2>5 DEF Scanned
  <2> QED
    BY <1>1, <1>2, <2>2, <2>6, LoopGoesOn
<1> QED
  BY <1>2, <1>9, <1>10, <1>11 DEF Find, k

LEMMA CallAsks == ASSUME SearchInv, NEW s \in Addr, NEW t \in Addr, Call(s, t) PROVE SearchInv'
<1>1. /\ IsString(mem, s) /\ IsString(mem, t) /\ Terminated(s) /\ Terminated(t)
      /\ {s, t, End(s), End(t)} \subseteq Int
  BY StringEnds DEF Call, Terminated, Addr
<1>2. mem \in [Addr -> Byte] /\ scan = "none" /\ mem' = mem
  BY DEF SearchInv, SearchTypeOK, Call, AsksFor, AsksWith, Asks
<1>3. 0 \in Byte /\ 0 \in Count /\ s \in s .. End(s) /\ t \in t .. End(t)
  BY <1>1, MemAssumption DEF Count, Terminated
<1>4. ASSUME NEW name \in SearchNames, NEW u \in Addr, NEW k \in Count, NEW c \in Byte,
             Asks(name, s, u, k, c), u \in {s, t},
             q' = (IF name = "strrchr" THEN NULL ELSE u)
      PROVE  SearchInv'
  <2>1. /\ scan' = name /\ p' = s /\ rest' = k
        /\ asked' = [name |-> name, s |-> s, t |-> u, count |-> k, char |-> c]
    BY <1>4 DEF Asks
  <2>2. SearchTypeOK'
    BY <1>2, <2>1 DEF SearchTypeOK, Questions, SearchNames
  <2>3. InStrings(s, u)'
    BY <1>1, <1>2, <1>3, <1>4, <2>1 DEF InStrings, End
  <2>4. Compared(s, u)' \/ name \notin {"strcmp", "strncmp"}
    BY <1>1, <1>4, <2>1 DEF Compared, Same
  <2>5. Inner(u)' \/ name \notin {"strspn", "strcspn", "strpbrk"}
    BY <1>1, <1>4, <2>1 DEF Inner
  <2>6. \A a \in s .. p' - 1 : FALSE
    BY <1>1, <2>1
  <2>7. k = asked'.count - (p' - s)
    BY <1>1, <2>1, MemAssumption DEF Count
  <2>8. IsLast(NULL, {a \in s .. p' - 1 : mem'[a] = asked'.char})
    BY <2>6 DEF IsLast
  <2>9. Scanned(s, u)'
    BY <1>4, <2>1, <2>4, <2>5, <2>6, <2>7, <2>8 DEF Scanned, SearchNames
  <2> QED
    BY <2>1, <2>2, <2>3, <2>9 DEF SearchInv, SearchNames
<1>5. CASE AsksFor("strlen", s, 0)
  BY <1>3, <1>4, <1>5 DEF AsksFor, SearchNames
<1>6. ASSUME NEW name \in {"strchr", "strrchr"}, NEW c \in Byte, AsksFor(name, s, c)
      PROVE  SearchInv'
  BY <1>3, <1>4, <1>6 DEF AsksFor, SearchNames
<1>7. ASSUME NEW name \in {"strcmp", "strspn", "strcspn", "strpbrk", "strstr"},
             AsksWith(name, s, t, 0)
      PROVE  SearchInv'
  BY <1>3, <1>4, <1>7 DEF AsksWith, SearchNames
<1>8. ASSUME NEW k \in Count, AsksWith("strncmp", s, t, k)
      PROVE  SearchInv'
  BY <1>3, <1>4, <1>8 DEF AsksWith, SearchNames
<1> QED
  BY <1>5, <1>6, <1>7, <1>8 DEF Call

LEMMA SearchInitInv == SearchInit => SearchInv
BY DEF SearchInit, SearchInv, SearchTypeOK, SearchNames

LEMMA SearchNextInv == SearchInv /\ [SearchNext]_<<mem, searchVars>> => SearchInv'
<1> SUFFICES ASSUME SearchInv, [SearchNext]_<<mem, searchVars>> PROVE SearchInv'
  OBVIOUS
<1>1. ASSUME NEW s \in Addr, NEW t \in Addr, Call(s, t) PROVE SearchInv'
  BY <1>1, CallAsks
<1>2. CASE Forget
  BY <1>2 DEF Forget, SearchInv, SearchTypeOK, SearchNames
<1>3. CASE UNCHANGED <<mem, searchVars>>
  <2>1. UNCHANGED mem /\ UNCHANGED scan /\ UNCHANGED p /\ UNCHANGED q /\ UNCHANGED rest
        /\ UNCHANGED asked /\ UNCHANGED found
    BY <1>3 DEF searchVars
  <2>2. SearchTypeOK'
    BY <2>1 DEF SearchInv, SearchTypeOK
  <2>3. scan # "none" => InStrings(asked.s, asked.t)'
    BY <2>1, SameMemory DEF SearchInv, InStrings
  <2>4. /\ \A t : Inner(t)' = Inner(t)
        /\ \A s, t : Compared(s, t)' = Compared(s, t)
    BY <2>1, SameMemory DEF Inner, Compared
  <2>5. scan # "none" => Scanned(asked.s, asked.t)'
    BY <2>1, <2>4, SameMemory, Zenon DEF SearchInv, Scanned
  <2>6. scan = "done" => IsRight(found)'
    BY <2>1, RightKept DEF SearchInv
  <2> QED
    BY <2>1, <2>2, <2>3, <2>5, <2>6 DEF SearchInv
<1> QED
  BY <1>1, <1>2, <1>3, StrlenKeeps, StrchrKeeps, StrrchrKeeps, StrcmpKeeps, StrncmpKeeps,
     StrspnKeeps, StrcspnKeeps, StrpbrkKeeps, HaystackKeeps, NeedleKeeps, FindKeeps
     DEF SearchNext

LEMMA SearchInvMeans == SearchInv => SearchesAreRight
<1> SUFFICES ASSUME SearchInv PROVE SearchesAreRight
  OBVIOUS
<1>1. CASE scan \notin {"none", "done"}
  <2>1. PICK s \in Addr, t \in Addr : /\ s = asked.s /\ t = asked.t
                                      /\ InStrings(s, t) /\ Scanned(s, t)
                                      /\ {s, t, End(s), End(t)} \subseteq Int /\ p \in s .. End(s)
                                      /\ scan # "strrchr" => q \in t .. End(t)
    BY <1>1, InALoop
  <2>2. scan = "find" /\ long_enough(rest, q - t) => p + (q - t) <= End(s)
    BY <2>1 DEF Scanned, long_enough
  <2> QED
    BY <1>1, <2>1, <2>2 DEF SearchesAreRight
<1>2. CASE scan \in {"none", "done"}
  BY <1>2 DEF SearchInv, SearchesAreRight
<1> QED
  BY <1>1, <1>2

-----------------------------------------------------------------------------
(* Both kinds of functions on one memory.                                  *)
StringsInv == CopyInv /\ SearchInv

LEMMA SearchesOnlyRead == SearchNext => UNCHANGED mem
BY DEF SearchNext, Call, AsksFor, AsksWith, Asks, In, Strlen, Strchr, Strrchr, Strcmp, Strncmp,
       Strspn, Strcspn, Strpbrk, Haystack, Needle, Find, Forget

LEMMA StringsNextInv ==
    ASSUME ~FullCounts PROVE StringsInv /\ [StringsNext]_stringVars => StringsInv'
<1> SUFFICES ASSUME StringsInv, [StringsNext]_stringVars PROVE StringsInv'
  OBVIOUS
<1>1. CASE UNCHANGED stringVars
  BY <1>1, CopyNextInv, SearchNextInv DEF StringsInv, stringVars
<1>2. CASE scan = "none" /\ CopyNext /\ UNCHANGED searchVars
  <2>1. CopyInv'
    BY <1>2, CopyNextInv DEF StringsInv
  <2>2. SearchInv'
    BY <1>2, <2>1 DEF StringsInv, SearchInv, SearchTypeOK, searchVars, CopyInv, CopyTypeOK,
                      SearchNames
  <2> QED
    BY <2>1, <2>2 DEF StringsInv
<1>3. CASE at = "none" /\ SearchNext /\ UNCHANGED copyVars
  BY <1>3, SearchesOnlyRead, CopyNextInv, SearchNextInv DEF StringsInv
<1> QED
  BY <1>1, <1>2, <1>3 DEF StringsNext

LEMMA StringsAlwaysInv == ASSUME ~FullCounts PROVE StringsSpec => []StringsInv
<1>1. StringsInit => StringsInv
  BY CopyInitInv, SearchInitInv DEF StringsInit, StringsInv
<1> QED
  BY <1>1, StringsNextInv, PTL DEF StringsSpec

(* Whatever is called and in whatever order, each function of the library  *)
(* leaves the bytes it promises and, while it works, none but old and new  *)
(* ones (memmove.c:18-24, strncat.c:58-63, strncpy.c:51-54); strncpy when  *)
(* the count leaves room for the NUL.                                      *)
THEOREM CopiesAlwaysRight == ASSUME ~FullCounts PROVE StringsSpec => []CopiesAreRight
BY StringsAlwaysInv, CopyInvMeans, PTL DEF StringsInv

(* No searching function reads past the end of its strings, and each       *)
(* returns what it is to find, in every memory (strstr.c:26-34 and the     *)
(* loops of strlen, strchr, strrchr, strcmp, strncmp, strspn, strcspn and  *)
(* strpbrk), as long as no strncpy has run over its end.                   *)
THEOREM SearchesAlwaysRight == ASSUME ~FullCounts PROVE StringsSpec => []SearchesAreRight
BY StringsAlwaysInv, SearchInvMeans, PTL DEF StringsInv
==============================================================================
