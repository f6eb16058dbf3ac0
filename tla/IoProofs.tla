------------------------------ MODULE IoProofs ------------------------------
(***************************************************************************)
(* Proofs about read and write, for every memory map in the order of the   *)
(* real one, every buffer, those whose end wraps included, and every set   *)
(* of visible characters.                                                  *)
(***************************************************************************)
EXTENDS Io, FiniteSetTheorems, SequenceTheorems, TLAPS

(* The buffer of a read passed the check.                                  *)
Checked == ~Wraps(buf, count) => \A i \in 0 .. count - 1 : buf + i \in UserMemory

(* A NUL is in the line only if one was typed.                             *)
NoNul == ~nul_typed => \A i \in 0 .. readcount : mem[address(buf, i)] # "NUL"

GotLine == ~reading => got = readcount + 1

IInv == /\ TypeOK /\ Checked /\ GotLine
        /\ cursor <= readcount + 1 /\ EchoShowsLine /\ NoNul
-----------------------------------------------------------------------------
(* Addresses.                                                              *)
LEMMA ModSmall == ASSUME NEW u \in Nat \ {0}, NEW s \in Nat, s < u PROVE s % u = s
  BY SMTT(20)

LEMMA ModOnce ==
    ASSUME NEW u \in Nat \ {0}, NEW s \in Nat, s >= u, s < u + u PROVE s % u = s - u
  BY SMTT(20)

LEMMA Constants ==
    /\ Word \in Nat \ {0} /\ buffersize \in Nat /\ 2 * buffersize < Word
    /\ {SDRAM_BEGIN, SDRAM_END, heapbtm, freebtm, freetop, currentsp} \subseteq Nat
    /\ SDRAM_END + buffersize < Word /\ buffersize <= heapbtm
    /\ heapbtm < currentsp /\ currentsp <= SDRAM_END
    /\ heapbtm <= freebtm /\ freebtm <= freetop /\ freetop <= SDRAM_END
BY MemoryMapAssumption

LEMMA AddressSum ==
    ASSUME NEW b \in Address, NEW i \in Nat, i < Word
    PROVE  /\ address(b, i) \in Address
           /\ address(b, i) = IF b + i < Word THEN b + i ELSE b + i - Word
<1>1. /\ Word \in Nat \ {0} /\ b \in Nat /\ b < Word /\ b + i \in Nat /\ b + i < Word + Word
  BY Constants DEF Address
<1>2. CASE b + i < Word
  <2>1. (b + i) % Word = b + i
    BY <1>1, <1>2, ModSmall
  <2> QED
    BY <1>1, <1>2, <2>1 DEF address, Address
<1>3. CASE b + i >= Word
  <2> DEFINE s == b + i
  <2>1. s % Word = s - Word
    <3>1. s \in Nat /\ s >= Word /\ s < Word + Word /\ Word \in Nat \ {0}
      BY <1>1, <1>3
    <3> HIDE DEF s
    <3> QED
      BY <3>1, ModOnce
  <2> QED
    BY <1>1, <1>3, <2>1 DEF address, Address
<1> QED
  BY <1>1, <1>2, <1>3

LEMMA AddressOnce ==
    ASSUME NEW b \in Address, NEW i \in Nat, NEW j \in Nat, i < Word, j < Word, i # j
    PROVE  address(b, i) # address(b, j)
<1>1. /\ address(b, i) = IF b + i < Word THEN b + i ELSE b + i - Word
      /\ address(b, j) = IF b + j < Word THEN b + j ELSE b + j - Word
  BY AddressSum
<1>2. Word \in Nat /\ b \in Nat
  BY Constants DEF Address
<1> QED
  BY <1>1, <1>2

(* What the check of the addresses ensures about a buffer.                 *)
LEMMA InRam ==
    ASSUME NEW b \in Address, NEW n \in 0 .. buffersize, in_ram(b, n), ~Wraps(b, n)
    PROVE  \A i \in 0 .. n - 1 : b + i \in UserMemory
<1>1. n < Word /\ n \in Nat /\ b \in Nat
  BY Constants DEF Address
<1>2. address(b, n) = b + n
  BY <1>1, AddressSum, Constants DEF Wraps
<1>3. \/ b + n < currentsp /\ b >= heapbtm
      \/ b + n <= freetop /\ b >= freebtm
  BY <1>2 DEF in_ram
<1> QED
  BY <1>1, <1>3, Constants DEF UserMemory

LEMMA BufferFacts == ASSUME NEW p \in Buffers PROVE p[1] \in Address /\ p[2] \in Address
BY BuffersAssumption

(* The bytes of the line under edit.                                       *)
LEMMA LineAddresses ==
    ASSUME TypeOK
    PROVE  /\ count \in Nat /\ count < Word /\ readcount \in Int
           /\ readcount >= -1 /\ readcount + 1 <= count
           /\ \A i \in 0 .. count - 1 : address(buf, i) \in Address
           /\ \A i, j \in 0 .. count - 1 : i # j => address(buf, i) # address(buf, j)
<1>1. /\ count \in Nat /\ count < Word /\ readcount \in Int
      /\ readcount >= -1 /\ readcount + 1 <= count /\ buf \in Address
  BY Constants DEF TypeOK
<1>2. ASSUME NEW i \in 0 .. count - 1 PROVE i \in Nat /\ i < Word
  BY <1>1, Constants
<1>3. ASSUME NEW i \in 0 .. count - 1 PROVE address(buf, i) \in Address
  BY <1>1, <1>2, AddressSum
<1>4. ASSUME NEW i \in 0 .. count - 1, NEW j \in 0 .. count - 1, i # j
      PROVE  address(buf, i) # address(buf, j)
  BY <1>1, <1>2, <1>4, AddressOnce
<1> QED
  BY <1>1, <1>3, <1>4

(* They are the user's unless the end of the buffer wraps, and then none   *)
(* of them is.                                                             *)
LEMMA WhoseBytes ==
    ASSUME TypeOK, Checked, NEW i \in 0 .. count - 1
    PROVE  address(buf, i) \in UserMemory <=> ~Wraps(buf, count)
<1>1. /\ buf \in Nat /\ buf < Word /\ count \in Nat /\ count <= buffersize
      /\ i \in Nat /\ i < count /\ i < Word /\ Word \in Nat
  BY Constants DEF TypeOK, Address
<1>2. address(buf, i) = IF buf + i < Word THEN buf + i ELSE buf + i - Word
  BY <1>1, AddressSum DEF TypeOK
<1>3. CASE Wraps(buf, count)
  <2>1. buf > SDRAM_END
    BY <1>1, <1>3, Constants DEF Wraps
  <2>2. address(buf, i) > SDRAM_END \/ address(buf, i) < heapbtm
    BY <1>1, <1>2, <2>1, Constants
  <2>3. address(buf, i) \in Int
    BY <1>1, <1>2
  <2>4. address(buf, i) \notin UserMemory
    BY <2>2, <2>3, Constants DEF UserMemory
  <2> QED
    BY <1>3, <2>4
<1>4. CASE ~Wraps(buf, count)
  <2>1. address(buf, i) = buf + i
    BY <1>1, <1>2, <1>4 DEF Wraps
  <2> QED
    BY <1>4, <2>1 DEF Checked
<1> QED
  BY <1>3, <1>4
-----------------------------------------------------------------------------
(* The terminal.                                                           *)
LEMMA WrittenText ==
    ASSUME NEW s \in Text, NEW c \in Nat, c + 1 \in Columns,
           NEW ch \in Byte \cup {"SP"}, ch # "BS"
    PROVE  /\ text_after(s, c, ch) \in Text
           /\ ch # "NUL" => \A j \in Columns :
                 text_after(s, c, ch)[j] = IF j = c + 1 THEN ch ELSE s[j]
BY DEF text_after, Text

LEMMA BlankText == Blank \in Text /\ \A i \in Columns : Blank[i] = "SP"
BY DEF Blank, Text

LEMMA IoInit == Init => IInv
<1> SUFFICES ASSUME Init PROVE IInv
  OBVIOUS
<1>1. TypeOK
  <2>1. mem \in [Address -> Byte]
    BY DEF Init, Byte
  <2>2. printed \in Seq(Byte)
    BY DEF Init
  <2>3. 0 \in 0 .. buffersize /\ 0 \in 0 .. Word /\ 0 \in Address
    BY Constants DEF Address
  <2>4. result \in Int
    BY DEF Init
  <2>8. reading \in BOOLEAN
    BY DEF Init
  <2>7. nul_typed \in BOOLEAN
    BY DEF Init
  <2>5. readcount \in -1 .. count - 1 /\ got \in 0 .. count
    BY DEF Init
  <2>6. /\ buf \in Address /\ count \in 0 .. buffersize
        /\ cursor \in 0 .. Word /\ text \in Text
    BY <2>3, BlankText DEF Init
  <2> QED
    BY <2>1, <2>2, <2>4, <2>5, <2>6, <2>7, <2>8 DEF TypeOK
<1>2. EchoShowsLine
  BY BlankText DEF Init, EchoShowsLine, Columns
<1>3. NoNul /\ Checked /\ GotLine /\ cursor <= readcount + 1
  BY DEF Init, NoNul, Checked, GotLine
<1> QED
  BY <1>1, <1>2, <1>3 DEF IInv

(* A call that begins to read.                                             *)
LEMMA ReadInv ==
    ASSUME IInv, NEW p \in Buffers, NEW fd, Read(fd, p[1], p[2])
    PROVE  IInv'
<1>1. p[1] \in Address /\ p[2] \in 0 .. buffersize
  BY BufferFacts, Constants DEF Read, Address
<1>2. Checked'
  BY <1>1, InRam DEF Read, Checked, Wraps, UserMemory
<1>3. Blank \in Text
  BY BlankText
<1>4. /\ mem' \in [Address -> Byte] /\ printed' \in Seq(Byte)
      /\ text' \in Text /\ result' \in Int
  BY <1>3 DEF Read, IInv, TypeOK
<1>8. nul_typed' \in BOOLEAN
  BY DEF Read
<1>5. TypeOK'
  <2>1. count' \in 0 .. buffersize /\ buf' \in Address
    BY <1>1 DEF Read
  <2>2. readcount' \in -1 .. count' - 1 /\ cursor' \in 0 .. Word /\ got' \in 0 .. count'
    BY <1>1, Constants DEF Read
  <2>3. reading' \in BOOLEAN
    BY DEF Read
  <2> QED
    BY <1>4, <1>8, <2>1, <2>2, <2>3 DEF TypeOK
<1>6. EchoShowsLine'
  BY BlankText DEF Read, EchoShowsLine, Columns
<1>7. NoNul' /\ GotLine' /\ cursor' <= readcount' + 1
  BY DEF Read, NoNul, GotLine
<1> QED
  BY <1>2, <1>5, <1>6, <1>7 DEF IInv

(* A character that is stored and echoed.                                  *)
LEMMA StoreInv ==
    ASSUME IInv, NEW ch \in Byte, ch # "BS", fits, store(ch),
           UNCHANGED <<buf, count, printed>>, reading' \in BOOLEAN, result' \in Int,
           \/ reading /\ reading' /\ got' = got
           \/ got' = readcount' + 1
    PROVE  IInv'
<1> DEFINE n == readcount + 1
           a == address(buf, n)
<1>1. /\ n \in Nat /\ n < count /\ count \in Nat /\ count < Word /\ Word \in Nat
      /\ readcount \in Int /\ count \in 0 .. buffersize
      /\ \A i \in 0 .. count - 1 : address(buf, i) \in Address
      /\ \A i, j \in 0 .. count - 1 : i # j => address(buf, i) # address(buf, j)
  BY LineAddresses, Constants DEF fits, IInv, TypeOK
<1>2. a \in Address
  BY <1>1
<1>3. /\ mem \in [Address -> Byte]
      /\ mem' = [mem EXCEPT ![a] = ch]
      /\ readcount' = n
      /\ nul_typed' = (nul_typed \/ ch = "NUL") /\ nul_typed \in BOOLEAN
  BY DEF IInv, TypeOK, store
<1>4. mem' \in [Address -> Byte] /\ \A x \in Address : mem'[x] = IF x = a THEN ch ELSE mem[x]
  BY <1>2, <1>3
<1>5. /\ text \in Text /\ cursor \in Nat /\ cursor <= n
      /\ cursor + 1 \in Columns
  BY <1>1 DEF IInv, TypeOK, Columns
<1>6. /\ text' = text_after(text, cursor, ch)
      /\ cursor' = IF ch = "NUL" THEN cursor ELSE cursor + 1
  BY <1>5 DEF store, putc, cursor_after
<1>7. text' \in Text /\ cursor' \in 0 .. Word /\ cursor' <= n + 1
  BY <1>1, <1>5, <1>6, WrittenText
<1>8. TypeOK'
  <2>1. nul_typed' \in BOOLEAN
    BY <1>3
  <2>2. got' \in 0 .. count /\ readcount' \in -1 .. count - 1
    BY <1>1, <1>3 DEF IInv, TypeOK
  <2> QED
    BY <1>4, <1>7, <2>1, <2>2 DEF IInv, TypeOK
<1>9. \A i \in 0 .. n - 1 : mem'[address(buf, i)] = mem[address(buf, i)]
  <2>1. ASSUME NEW i \in 0 .. n - 1 PROVE mem'[address(buf, i)] = mem[address(buf, i)]
    <3>1. i \in 0 .. count - 1 /\ n \in 0 .. count - 1 /\ i # n
      BY <1>1
    <3>2. address(buf, i) \in Address /\ address(buf, i) # a
      BY <1>1, <3>1
    <3> QED
      BY <1>4, <3>2
  <2> QED
    BY <2>1
<1>10. mem'[address(buf, n)] = ch
  BY <1>2, <1>4
<1>11. EchoShowsLine'
  <2> SUFFICES ASSUME ~nul_typed'
               PROVE  /\ cursor' = readcount' + 1
                      /\ \A i \in Columns : text'[i] = IF i <= cursor' THEN Line'[i] ELSE "SP"
    BY DEF EchoShowsLine
  <2>1. ~nul_typed /\ ch # "NUL"
    BY <1>3
  <2>2. cursor = n /\ \A i \in Columns : text[i] = IF i <= n THEN Line[i] ELSE "SP"
    BY <2>1 DEF IInv, EchoShowsLine
  <2>3. \A i \in Columns : text'[i] = IF i = n + 1 THEN ch ELSE text[i]
    BY <1>5, <1>6, <2>1, <2>2, WrittenText
  <2>4. cursor' = n + 1
    BY <1>6, <2>1, <2>2
  <2>5. ASSUME NEW i \in Columns, i <= n + 1
        PROVE  Line'[i] = IF i = n + 1 THEN ch ELSE Line[i]
    <3>1. i \in 1 .. n + 1 /\ i - 1 \in 0 .. n
      BY <1>1, <2>5 DEF Columns
    <3>2. Line'[i] = mem'[address(buf, i - 1)]
      BY <1>1, <1>3, <3>1 DEF Line
    <3>3. CASE i = n + 1
      <4>1. i - 1 = n
        BY <1>1, <3>3
      <4> QED
        BY <1>10, <3>2, <3>3, <4>1
    <3>4. CASE i # n + 1
      <4>1. i \in 1 .. n /\ i - 1 \in 0 .. n - 1
        BY <1>1, <3>1, <3>4
      <4>2. Line[i] = mem[address(buf, i - 1)]
        BY <1>1, <4>1 DEF Line
      <4> QED
        BY <1>9, <3>2, <3>4, <4>1, <4>2
    <3> QED
      BY <3>3, <3>4
  <2> QED
    BY <1>1, <1>3, <2>2, <2>3, <2>4, <2>5 DEF Columns
<1>12. NoNul'
  <2> SUFFICES ASSUME ~nul_typed', NEW i \in 0 .. n PROVE mem'[address(buf, i)] # "NUL"
    BY <1>3 DEF NoNul
  <2>1. ~nul_typed /\ ch # "NUL"
    BY <1>3
  <2>2. CASE i = n
    BY <1>10, <2>1, <2>2
  <2>3. CASE i # n
    <3>1. i \in 0 .. n - 1 /\ i \in 0 .. readcount
      BY <1>1, <2>3
    <3> QED
      BY <1>9, <2>1, <3>1 DEF IInv, NoNul
  <2> QED
    BY <2>2, <2>3
<1>13. Checked' /\ GotLine'
  BY DEF IInv, Checked, Wraps, UserMemory, GotLine
<1> QED
  BY <1>3, <1>7, <1>8, <1>11, <1>12, <1>13 DEF IInv

(* A backspace takes the last character off the line and off the screen.   *)
LEMMA EraseInv ==
    ASSUME IInv, reading, readcount >= 0, clear_last, rub_out,
           UNCHANGED <<buf, count, printed, reading, result, got, nul_typed>>
    PROVE  IInv'
<1> DEFINE n == readcount
           a == address(buf, n)
<1>1. /\ n \in Nat /\ n < count /\ count \in Nat /\ count < Word /\ Word \in Nat
      /\ \A i \in 0 .. count - 1 : address(buf, i) \in Address
      /\ \A i, j \in 0 .. count - 1 : i # j => address(buf, i) # address(buf, j)
  BY LineAddresses, Constants DEF IInv, TypeOK
<1>2. a \in Address
  BY <1>1
<1>3. /\ mem \in [Address -> Byte]
      /\ mem' = [mem EXCEPT ![a] = "NUL"]
      /\ readcount' = n - 1
  BY DEF IInv, TypeOK, clear_last
<1>4. mem' \in [Address -> Byte] /\ \A x \in Address : mem'[x] = IF x = a THEN "NUL" ELSE mem[x]
  BY <1>2, <1>3 DEF Byte
<1>5. text \in Text /\ cursor \in Nat /\ cursor <= n + 1
  BY <1>1 DEF IInv, TypeOK
<1> DEFINE left == IF cursor = 0 THEN 0 ELSE cursor - 1
<1>6. left \in Nat /\ left + 1 \in Columns /\ left <= n
  BY <1>1, <1>5 DEF Columns
<1>7. text' = text_after(text, left, "SP") /\ cursor' = left
  <2>1. cursor_after(cursor, "BS") = left
    BY <1>5 DEF cursor_after
  <2> HIDE DEF left
  <2>2. cursor_after(cursor_after(left, "SP"), "BS") = left
    BY <1>6 DEF cursor_after
  <2> QED
    BY <2>1, <2>2 DEF rub_out
<1> HIDE DEF left
<1>8. /\ text' \in Text /\ cursor' \in 0 .. Word /\ cursor' <= n
      /\ \A i \in Columns : text'[i] = IF i = left + 1 THEN "SP" ELSE text[i]
  <2>1. "SP" \in Byte \cup {"SP"} /\ "SP" # "BS" /\ "SP" # "NUL"
    OBVIOUS
  <2>2. /\ text' \in Text
        /\ \A i \in Columns : text'[i] = IF i = left + 1 THEN "SP" ELSE text[i]
    BY <1>5, <1>6, <1>7, <2>1, WrittenText
  <2> QED
    BY <1>1, <1>6, <1>7, <2>2
<1>9. TypeOK'
  <2>1. readcount' \in -1 .. count - 1
    BY <1>1, <1>3
  <2> QED
    BY <1>4, <1>8, <2>1 DEF IInv, TypeOK
<1>10. ASSUME NEW i \in 0 .. n - 1 PROVE mem'[address(buf, i)] = mem[address(buf, i)]
  <2>1. i \in 0 .. count - 1 /\ n \in 0 .. count - 1 /\ i # n
    BY <1>1
  <2>2. address(buf, i) \in Address /\ address(buf, i) # a
    BY <1>1, <2>1
  <2> QED
    BY <1>4, <2>2
<1>11. EchoShowsLine'
  <2> SUFFICES ASSUME ~nul_typed
               PROVE  /\ cursor' = readcount' + 1
                      /\ \A i \in Columns : text'[i] = IF i <= cursor' THEN Line'[i] ELSE "SP"
    BY DEF EchoShowsLine
  <2>1. cursor = n + 1 /\ \A i \in Columns : text[i] = IF i <= n + 1 THEN Line[i] ELSE "SP"
    BY DEF IInv, EchoShowsLine
  <2>2. left = n
    BY <1>1, <2>1 DEF left
  <2>3. ASSUME NEW i \in Columns, i <= n PROVE Line'[i] = Line[i]
    <3>1. i \in 1 .. n /\ i - 1 \in 0 .. n - 1 /\ i \in 1 .. readcount' + 1 /\ i \in 1 .. readcount + 1
      BY <1>1, <1>3, <2>3 DEF Columns
    <3>2. Line'[i] = mem'[address(buf, i - 1)] /\ Line[i] = mem[address(buf, i - 1)]
      BY <3>1 DEF Line
    <3> QED
      BY <1>10, <3>1, <3>2
  <2> QED
    BY <1>1, <1>3, <1>7, <1>8, <2>1, <2>2, <2>3 DEF Columns
<1>12. NoNul'
  <2> SUFFICES ASSUME ~nul_typed, NEW i \in 0 .. n - 1 PROVE mem'[address(buf, i)] # "NUL"
    BY <1>3 DEF NoNul
  <2>1. i \in 0 .. readcount
    BY <1>1
  <2> QED
    BY <1>10, <2>1 DEF IInv, NoNul
<1>13. Checked' /\ GotLine' /\ cursor' <= readcount' + 1
  BY <1>1, <1>3, <1>8 DEF IInv, Checked, Wraps, UserMemory, GotLine
<1> QED
  BY <1>9, <1>11, <1>12, <1>13 DEF IInv

(* The steps that change neither the buffer nor the screen.                *)
LEMMA OtherInv ==
    ASSUME IInv, UNCHANGED <<mem, buf, count, readcount, text, cursor, nul_typed>>,
           reading' \in BOOLEAN, result' \in Int, printed' \in Seq(Byte),
           \/ UNCHANGED <<reading, got>>
           \/ got' = readcount + 1
    PROVE  IInv'
<1>1. got' \in 0 .. count
  BY LineAddresses DEF IInv, TypeOK
<1>2. TypeOK'
  BY <1>1 DEF IInv, TypeOK
<1> QED
  BY <1>2 DEF IInv, Checked, Wraps, UserMemory, GotLine, EchoShowsLine, NoNul, Line

LEMMA KeyInv ==
    ASSUME IInv, NEW ch \in Key, ReadKey(ch)
    PROVE  IInv'
<1>1. /\ readcount \in Int /\ readcount + 1 \in Int /\ reading \in BOOLEAN /\ reading
      /\ result \in Int /\ printed \in Seq(Byte)
      /\ UNCHANGED <<buf, count, printed>>
  BY LineAddresses DEF IInv, TypeOK, ReadKey
<1>2. CASE /\ UNCHANGED <<mem, readcount, text, cursor, nul_typed>>
           /\ reading' \in BOOLEAN /\ result' \in Int
           /\ UNCHANGED <<reading, got>> \/ got' = readcount + 1
  BY <1>1, <1>2, OtherInv
<1>3. CASE readcount >= 0 /\ clear_last /\ rub_out /\ UNCHANGED <<reading, result, got, nul_typed>>
  BY <1>1, <1>3, EraseInv
<1>4. CASE /\ fits /\ \E c \in Plain \cup {"NL"} : store(c)
           /\ reading' \in BOOLEAN /\ result' \in Int
           /\ \/ reading /\ reading' /\ got' = got
              \/ got' = readcount' + 1
  <2>1. PICK c \in Plain \cup {"NL"} : store(c)
    BY <1>4
  <2>2. c \in Byte /\ c # "BS"
    BY VisibleAssumption DEF Byte, Plain
  <2> QED
    BY <1>1, <1>4, <2>1, <2>2, StoreInv
<1>5. store("NL") => readcount' + 1 \in Int
  BY <1>1 DEF store
<1> QED
  BY <1>1, <1>2, <1>3, <1>4, <1>5 DEF ReadKey, Return

(* How far a write goes.                                                   *)
LEMMA UntilNul ==
    ASSUME NEW b \in Address, NEW n \in Int
    PROVE  /\ until_nul(b, n) \in Nat
           /\ n <= 0 => until_nul(b, n) = 0
           /\ n >= 0 => until_nul(b, n) <= n
           /\ n >= 0 /\ (\A i \in 0 .. n - 1 : mem[address(b, i)] # "NUL") => until_nul(b, n) = n
<1> DEFINE S == {i \in 0 .. n - 1 : \A j \in 0 .. i : mem[address(b, j)] # "NUL"}
<1>1. /\ IsFiniteSet(0 .. n - 1)
      /\ Cardinality(0 .. n - 1) = IF 0 > n - 1 THEN 0 ELSE n - 1 - 0 + 1
  BY FS_Interval
<1>2. S \subseteq 0 .. n - 1
  OBVIOUS
<1>3. IsFiniteSet(S) /\ Cardinality(S) <= Cardinality(0 .. n - 1)
  BY <1>1, <1>2, FS_Subset
<1>4. Cardinality(S) \in Nat
  BY <1>3, FS_CardinalityType
<1>5. ASSUME \A i \in 0 .. n - 1 : mem[address(b, i)] # "NUL" PROVE S = 0 .. n - 1
  BY <1>5
<1>6. /\ n <= 0 => Cardinality(0 .. n - 1) = 0
      /\ n >= 0 => Cardinality(0 .. n - 1) = n
  BY <1>1
<1> HIDE DEF S
<1>7. /\ n <= 0 => Cardinality(S) = 0
      /\ n >= 0 => Cardinality(S) <= n
      /\ n >= 0 /\ (\A i \in 0 .. n - 1 : mem[address(b, i)] # "NUL") => Cardinality(S) = n
  BY <1>3, <1>4, <1>5, <1>6
<1> QED
  BY <1>4, <1>7 DEF until_nul, S

LEMMA SignedFacts ==
    ASSUME NEW n \in Address
    PROVE  signed(n) \in Int /\ signed(n) <= n /\ (2 * n < Word => signed(n) = n)
BY Constants DEF signed, Address

LEMMA WriteInv ==
    ASSUME IInv, NEW p \in Buffers, NEW fd, Write(fd, p[1], p[2])
    PROVE  IInv'
<1> DEFINE b == p[1]
           m == signed(p[2])
           k == until_nul(b, m)
<1>1. b \in Address /\ p[2] \in Address /\ m \in Int /\ m <= p[2] /\ p[2] \in Nat /\ p[2] < Word
  BY BufferFacts, SignedFacts, Constants DEF Address
<1>2. k \in Nat /\ (m <= 0 => k = 0) /\ (m >= 0 => k <= m)
  BY <1>1, UntilNul
<1>3. Word \in Nat /\ mem \in [Address -> Byte]
  BY Constants DEF IInv, TypeOK
<1>4. printed' = [i \in 1 .. k |-> mem[address(b, i - 1)]]
  BY DEF Write
<1> HIDE DEF k, m, b
<1>5. ASSUME NEW i \in 1 .. k PROVE mem[address(b, i - 1)] \in Byte
  <2>1. i - 1 \in Nat /\ i - 1 < Word
    BY <1>1, <1>2, <1>3
  <2>2. address(b, i - 1) \in Address
    BY <1>1, <2>1, AddressSum
  <2> QED
    BY <1>3, <2>2
<1>6. printed' \in Seq(Byte)
  BY <1>2, <1>4, <1>5
<1>7. reading' \in BOOLEAN /\ result' \in Int
  BY <1>1 DEF Write, IInv, TypeOK, m
<1> QED
  BY <1>6, <1>7, OtherInv DEF Write

LEMMA IoNext == IInv /\ [Next]_vars => IInv'
<1> SUFFICES ASSUME IInv, [Next]_vars PROVE IInv'
  OBVIOUS
<1>1. ASSUME NEW ch \in Key, ReadKey(ch) PROVE IInv'
  BY <1>1, KeyInv
<1>2. ASSUME NEW fd, NEW p \in Buffers, Read(fd, p[1], p[2]) PROVE IInv'
  BY <1>2, ReadInv
<1>3. ASSUME NEW fd, NEW p \in Buffers, Write(fd, p[1], p[2]) PROVE IInv'
  BY <1>3, WriteInv
<1>4. ASSUME NEW fd, NEW b, NEW n, ReadRefused(fd, b, n) \/ WriteRefused(fd, b, n)
      PROVE  IInv'
  <2>1. reading' \in BOOLEAN /\ result' \in Int /\ printed' \in Seq(Byte)
    BY <1>4 DEF ReadRefused, WriteRefused, EBADF, EFAULT, IInv, TypeOK
  <2> QED
    BY <1>4, <2>1, OtherInv DEF ReadRefused, WriteRefused
<1>5. CASE UNCHANGED vars
  <2>1. reading' \in BOOLEAN /\ result' \in Int /\ printed' \in Seq(Byte)
    BY <1>5 DEF vars, IInv, TypeOK
  <2> QED
    BY <1>5, <2>1, OtherInv DEF vars
<1> QED
  BY <1>1, <1>2, <1>3, <1>4, <1>5 DEF Next

(* The buffer, the line in it and the terminal stay in step.               *)
THEOREM IoInvariance == Spec => []IInv
BY IoInit, IoNext, PTL DEF Spec

(* The values are of their types whatever buffers are passed; the index of *)
(* read stays below the length that was asked for (io.c:119, 134), and the *)
(* length it returns is at most that one.                                  *)
THEOREM IoTypeCorrect == Spec => []TypeOK
BY IoInvariance, PTL DEF IInv

(* The terminal shows the line that is in the buffer, unless a NUL was     *)
(* typed.                                                                  *)
THEOREM EchoIsTheLine == Spec => []EchoShowsLine
BY IoInvariance, PTL DEF IInv

(* A key changes only bytes of the buffer.                                 *)
LEMMA KeyStays ==
    ASSUME IInv, NEW ch \in Key, ReadKey(ch), NEW a \in Address, mem'[a] # mem[a]
    PROVE  reading /\ \E i \in 0 .. count - 1 : a = address(buf, i)
<1>1. /\ mem \in [Address -> Byte] /\ reading
      /\ count \in Nat /\ readcount \in Int
      /\ readcount + 1 <= count /\ readcount >= -1
  BY LineAddresses DEF IInv, TypeOK, ReadKey
<1>2. \/ readcount >= 0 /\ clear_last
      \/ fits /\ \E c : store(c)
  BY DEF ReadKey
<1>3. CASE readcount >= 0 /\ clear_last
  <2>1. readcount \in 0 .. count - 1
    BY <1>1, <1>3
  <2>2. a = address(buf, readcount)
    BY <1>1, <1>3 DEF clear_last
  <2> QED
    BY <1>1, <2>1, <2>2
<1>4. CASE fits /\ \E c : store(c)
  <2>1. readcount + 1 \in 0 .. count - 1
    BY <1>1, <1>4 DEF fits
  <2>2. a = address(buf, readcount + 1)
    BY <1>1, <1>4 DEF store
  <2> QED
    BY <1>1, <2>1, <2>2
<1> QED
  BY <1>2, <1>3, <1>4

(* A read changes no byte outside the buffer it was given, and these bytes *)
(* are the user's exactly when the end of the buffer does not wrap: for    *)
(* every buffer that the check of io.c:62-78 accepts.                      *)
THEOREM ReadStays == Spec => ReadStaysInBuffer
<1> DEFINE Stays == \A a \in Address : mem'[a] # mem[a] =>
                      /\ reading
                      /\ \E i \in 0 .. count - 1 : a = address(buf, i)
                      /\ a \in UserMemory <=> ~Wraps(buf, count)
<1>1. ASSUME IInv, [Next]_vars PROVE [Stays]_vars
  <2>1. ASSUME NEW a \in Address, mem'[a] # mem[a], Next
        PROVE  /\ reading
               /\ \E i \in 0 .. count - 1 : a = address(buf, i)
               /\ a \in UserMemory <=> ~Wraps(buf, count)
    <3>1. \E ch \in Key : ReadKey(ch)
      BY <2>1 DEF Next, Read, ReadRefused, Write, WriteRefused
    <3>2. reading /\ \E i \in 0 .. count - 1 : a = address(buf, i)
      BY <1>1, <2>1, <3>1, KeyStays
    <3> QED
      BY <1>1, <3>2, WhoseBytes DEF IInv
  <2> QED
    BY <1>1, <2>1
<1> QED
  BY <1>1, IoInvariance, PTL DEF Spec, ReadStaysInBuffer
-----------------------------------------------------------------------------
LEMMA LineFacts ==
    ASSUME IInv
    PROVE  /\ Line \in Seq(Byte)
           /\ Len(Line) = readcount + 1
           /\ \A i \in 1 .. readcount + 1 : Line[i] = mem[address(buf, i - 1)]
<1>1. /\ readcount + 1 \in Nat /\ readcount \in Int /\ count \in Nat
      /\ readcount + 1 <= count
      /\ \A i \in 0 .. count - 1 : address(buf, i) \in Address
      /\ mem \in [Address -> Byte]
  BY LineAddresses DEF IInv, TypeOK
<1>2. ASSUME NEW i \in 1 .. readcount + 1 PROVE mem[address(buf, i - 1)] \in Byte
  <2>1. i - 1 \in 0 .. count - 1
    BY <1>1
  <2> QED
    BY <1>1, <2>1
<1> QED
  BY <1>1, <1>2 DEF Line

(* Writing what was read, with the length that read returned, shows the    *)
(* line, cut at most at a NUL that was typed (io.c:133-139, 175).          *)
THEOREM ReadWritten == Spec => ReadIsWritten
<1>1. ASSUME IInv, Write(STDOUT_FILENO, buf, got)
      PROVE  /\ printed' = SubSeq(Line, 1, Len(printed'))
             /\ Len(printed') # got => nul_typed
  <2> DEFINE n == readcount + 1
             k == until_nul(buf, n)
  <2>1. /\ buf \in Address /\ n \in Nat /\ readcount \in Int /\ got = n
        /\ n \in Address /\ 2 * n < Word /\ n - 1 = readcount
    BY <1>1, LineAddresses, Constants DEF IInv, TypeOK, GotLine, Write, Address
  <2>2. signed(got) = n
    BY <2>1, SignedFacts
  <2>3. k \in 0 .. n
    BY <2>1, UntilNul
  <2>4. printed' = [i \in 1 .. k |-> mem[address(buf, i - 1)]]
    BY <1>1, <2>2 DEF Write
  <2>5. ~nul_typed => k = n
    <3>1. ~nul_typed => \A i \in 0 .. n - 1 : mem[address(buf, i)] # "NUL"
      BY <1>1, <2>1 DEF IInv, NoNul
    <3> QED
      BY <2>1, <3>1, UntilNul
  <2> HIDE DEF k
  <2>6. /\ Line \in Seq(Byte) /\ Len(Line) = n
        /\ \A i \in 1 .. n : Line[i] = mem[address(buf, i - 1)]
    BY <1>1, LineFacts
  <2>7. Len(printed') = k
    BY <2>3, <2>4
  <2>8. SubSeq(Line, 1, k) = [i \in 1 .. k |-> Line[i]]
    BY <2>3, <2>6
  <2>9. \A i \in 1 .. k : Line[i] = mem[address(buf, i - 1)]
    BY <2>1, <2>3, <2>6
  <2> QED
    BY <2>1, <2>4, <2>5, <2>7, <2>8, <2>9
<1> QED
  BY <1>1, IoInvariance, PTL DEF Spec, ReadIsWritten
-----------------------------------------------------------------------------
LEMMA StoreAppends ==
    ASSUME IInv, fits, NEW ch \in Byte, store(ch), UNCHANGED <<buf, count>>
    PROVE  Line' = Append(Line, ch)
<1> DEFINE n == readcount + 1
<1>1. /\ n \in Nat /\ n < count /\ count \in Nat /\ readcount \in Int
      /\ readcount' = n /\ mem \in [Address -> Byte]
      /\ \A i \in 0 .. count - 1 : address(buf, i) \in Address
      /\ \A i, j \in 0 .. count - 1 : i # j => address(buf, i) # address(buf, j)
  BY LineAddresses DEF fits, IInv, TypeOK, store
<1>2. \A i \in 1 .. n + 1 : Line'[i] = mem'[address(buf, i - 1)]
  BY <1>1 DEF Line
<1>3. ASSUME NEW i \in 0 .. n
      PROVE  mem'[address(buf, i)] = IF i = n THEN ch ELSE mem[address(buf, i)]
  <2>1. i \in 0 .. count - 1 /\ n \in 0 .. count - 1
    BY <1>1
  <2>2. address(buf, i) \in Address /\ (i # n => address(buf, i) # address(buf, n))
    BY <1>1, <2>1
  <2> QED
    BY <1>1, <2>2 DEF store
<1>4. ASSUME NEW i \in 1 .. n + 1 PROVE Line'[i] = IF i = n + 1 THEN ch ELSE Line[i]
  <2>1. i - 1 \in 0 .. n /\ (i = n + 1 <=> i - 1 = n)
    BY <1>1
  <2>2. Line'[i] = IF i = n + 1 THEN ch ELSE mem[address(buf, i - 1)]
    BY <1>2, <1>3, <2>1
  <2>3. i # n + 1 => Line[i] = mem[address(buf, i - 1)]
    BY <1>1, LineFacts
  <2> QED
    BY <2>2, <2>3
<1>5. Line' = [i \in 1 .. n + 1 |-> Line'[i]]
  BY <1>1 DEF Line
<1>6. /\ Append(Line, ch) \in Seq(Byte) /\ Len(Append(Line, ch)) = n + 1
      /\ \A i \in 1 .. n + 1 : Append(Line, ch)[i] = IF i = n + 1 THEN ch ELSE Line[i]
  BY <1>1, LineFacts, AppendProperties
<1>7. Line' \in Seq(Byte) /\ Len(Line') = n + 1
  <2>1. \A i \in 1 .. n + 1 : Line'[i] \in Byte
    BY <1>4, <1>6, LineFacts, <1>1
  <2> QED
    BY <1>1, <1>5, <2>1
<1> QED
  BY <1>4, <1>6, <1>7, SeqEqual

LEMMA EraseShortens ==
    ASSUME IInv, readcount >= 0, clear_last, UNCHANGED <<buf, count>>
    PROVE  Line' = SubSeq(Line, 1, Len(Line) - 1)
<1> DEFINE n == readcount
<1>1. /\ n \in Nat /\ n < count /\ count \in Nat
      /\ readcount' = n - 1 /\ mem \in [Address -> Byte]
      /\ \A i \in 0 .. count - 1 : address(buf, i) \in Address
      /\ \A i, j \in 0 .. count - 1 : i # j => address(buf, i) # address(buf, j)
  BY LineAddresses DEF IInv, TypeOK, clear_last
<1>2. ASSUME NEW i \in 0 .. n - 1 PROVE mem'[address(buf, i)] = mem[address(buf, i)]
  <2>1. i \in 0 .. count - 1 /\ n \in 0 .. count - 1 /\ i # n
    BY <1>1
  <2>2. address(buf, i) \in Address /\ address(buf, i) # address(buf, n)
    BY <1>1, <2>1
  <2> QED
    BY <1>1, <2>2 DEF clear_last
<1>3. ASSUME NEW i \in 1 .. n PROVE mem'[address(buf, i - 1)] = Line[i]
  <2>1. i - 1 \in 0 .. n - 1
    BY <1>1
  <2>2. Line[i] = mem[address(buf, i - 1)]
    BY <1>1, LineFacts
  <2> QED
    BY <1>2, <2>1, <2>2
<1>4. Line' = [i \in 1 .. n |-> mem'[address(buf, i - 1)]]
  <2>1. readcount' + 1 = n
    BY <1>1
  <2> QED
    BY <2>1 DEF Line
<1>5. SubSeq(Line, 1, n) = [i \in 1 .. n |-> Line[i]]
  BY <1>1, LineFacts
<1>6. Len(Line) - 1 = n
  BY <1>1, LineFacts
<1> QED
  BY <1>3, <1>4, <1>5, <1>6

(* Every step of read is a step of the line editor, or none.               *)
THEOREM IoImplementsEditor == Spec => ImplementsEditor
<1>1. Init => Editor!Init
  BY DEF Init, Editor!Init, Line
<1>2. ASSUME IInv, IInv', [Next]_vars
      PROVE  [Editor!Next]_<<Line, count, reading>>
  <2>1. CASE UNCHANGED <<mem, buf, readcount, count, reading>>
    BY <2>1 DEF Line
  <2>2. ASSUME NEW fd, NEW p \in Buffers, Read(fd, p[1], p[2])
        PROVE  Editor!Start
    <3>1. p[2] \in 0 .. buffersize
      BY <2>2, BufferFacts, Constants DEF Read, Address
    <3>2. Line' = <<>>
      BY <2>2 DEF Read, Line
    <3> QED
      BY <2>2, <3>1, <3>2 DEF Read, Editor!Start
  <2>3. ASSUME NEW ch \in Key, ReadKey(ch)
        PROVE  Editor!Next \/ UNCHANGED <<Line, count, reading>>
    <3>0. reading /\ UNCHANGED <<buf, count>>
      BY <2>3 DEF ReadKey
    <3>1. CASE reading' = FALSE /\ UNCHANGED <<mem, readcount>>
      <4>1. UNCHANGED Line
        BY <3>0, <3>1 DEF Line
      <4> QED
        BY <3>0, <3>1, <4>1 DEF Editor!Next, Editor!Stop
    <3>2. CASE UNCHANGED <<mem, readcount, reading>>
      BY <3>0, <3>2 DEF Line
    <3>3. CASE readcount >= 0 /\ clear_last /\ UNCHANGED reading
      <4>1. Line' = SubSeq(Line, 1, Len(Line) - 1)
        BY <1>2, <3>0, <3>3, EraseShortens
      <4>2. Line # <<>>
        BY <1>2, <3>3, LineFacts, LineAddresses DEF IInv
      <4> QED
        BY <3>0, <3>3, <4>1, <4>2 DEF Editor!Next, Editor!Erase
    <3>4. ASSUME fits, NEW c \in Byte, store(c)
          PROVE  Line' = Append(Line, c) /\ Len(Line) < count
      BY <1>2, <3>0, <3>4, StoreAppends, LineFacts DEF fits
    <3>5. CASE fits /\ store("NL") /\ reading' = FALSE
      BY <3>0, <3>4, <3>5 DEF Byte, Editor!Next, Editor!Enter
    <3>6. CASE ch \in Plain /\ fits /\ store(ch) /\ UNCHANGED reading
      BY <3>0, <3>4, <3>6 DEF Byte, Plain, Editor!Next, Editor!Type
    <3> QED
      BY <2>3, <3>1, <3>2, <3>3, <3>5, <3>6 DEF ReadKey, Return
  <2> QED
    BY <1>2, <2>1, <2>2, <2>3 DEF Next, vars, ReadRefused, Write, WriteRefused, Editor!Next
<1> QED
  BY <1>1, <1>2, IoInvariance, PTL DEF Spec, ImplementsEditor, Editor!Spec
-----------------------------------------------------------------------------
(* The address check of the kernel, on words of any size.                  *)
Check == INSTANCE Memcheck

(* valid_addr (memcheck.c:24-36) says yes exactly to the buffers that      *)
(* begin and end in the region: a sum that wraps around deceives it never. *)
THEOREM AddressAlwaysChecked ==
    \A first, length, base, bound \in 0 .. Word - 1 :
        Check!AddressIsChecked(first, length, base, bound)
<1> SUFFICES ASSUME NEW first \in 0 .. Word - 1, NEW length \in 0 .. Word - 1,
                    NEW base \in 0 .. Word - 1, NEW bound \in 0 .. Word - 1
             PROVE  Check!AddressIsChecked(first, length, base, bound)
  OBVIOUS
<1>1. Word \in Nat \ {0}
  BY MemoryMapAssumption
<1>2. CASE first + length < Word
  <2>1. (first + length) % Word = first + length
    BY <1>1, <1>2, SMTT(20)
  <2> QED
    BY <1>1, <2>1 DEF Check!AddressIsChecked, Check!valid_addr
<1>3. CASE first + length >= Word
  <2>1. (first + length) % Word = first + length - Word
    BY <1>1, <1>3, SMTT(20)
  <2> QED
    BY <1>1, <1>3, <2>1 DEF Check!AddressIsChecked, Check!valid_addr
<1> QED
  BY <1>1, <1>2, <1>3
=============================================================================
