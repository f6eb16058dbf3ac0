--------------------------------- MODULE Io ---------------------------------
(***************************************************************************)
(* The system calls read and write (kernel/syscall/io.c), one step of the  *)
(* loop of read at a time.  The terminal is a line with a cursor; keys are *)
(* the four that read treats apart, NUL, which it stores like any other,   *)
(* and those that print in one column.  The memory map is scaled down, its *)
(* order kept.  Addresses are unsigned words, and so is the end of a       *)
(* buffer: it may lie below the start.                                     *)
(***************************************************************************)
EXTENDS Integers, Sequences, FiniteSets

CONSTANTS Word,                       \* one more than the highest address
          SDRAM_BEGIN, SDRAM_END, ROM_END, heapbtm, freebtm, freetop, buffersize,
          currentsp,                  \* what getsp() returns
          Visible,
          Buffers                     \* the <<buf, count>> that are passed to the calls

STDIN_FILENO  == 0
STDOUT_FILENO == 1
EBADF  == 9
EFAULT == 14

ASSUME MemoryMapAssumption ==
    /\ {Word, SDRAM_BEGIN, SDRAM_END, ROM_END, heapbtm, freebtm, freetop,
        buffersize, currentsp} \subseteq Nat
    /\ ROM_END < SDRAM_BEGIN /\ SDRAM_BEGIN = heapbtm
    /\ heapbtm < currentsp /\ currentsp <= SDRAM_END
    /\ SDRAM_BEGIN <= freebtm /\ freebtm <= freetop /\ freetop <= SDRAM_END
    /\ SDRAM_END + buffersize < Word /\ buffersize <= SDRAM_BEGIN
    /\ 2 * buffersize < Word

ASSUME VisibleAssumption ==
    Visible \cap {"NL", "CR", "EOT", "backspace", "BS", "SP", "NUL"} = {}

Address == 0 .. Word - 1
Byte    == Visible \cup {"NL", "NUL"}
Key     == Visible \cup {"NL", "CR", "EOT", "backspace", "NUL"}
Columns == 1 .. Word
Text    == [Columns -> Byte \cup {"SP"}]
Blank   == [i \in Columns |-> "SP"]

ASSUME BuffersAssumption == Buffers \subseteq Address \X Address

VARIABLES mem,        \* the byte last stored at each address, whether or not
                      \* the board has memory there to keep it
          reading,    \* TRUE while a call of read is in its loop
          buf, count, readcount,      \* of that call, or of the last one
          result,     \* what the last call that is over returned
          text, cursor,  \* what the terminal shows since the call of read
          printed     \* what the last write put on the terminal

(* What the properties remember of the last read; no step depends on it.   *)
VARIABLES got,        \* what it returned
          nul_typed   \* has a NUL been typed into its buffer
vars == <<mem, reading, buf, count, readcount, result, text, cursor, printed, got, nul_typed>>

Init == /\ mem = [a \in Address |-> "NUL"]
        /\ reading = FALSE /\ buf = 0 /\ count = 0 /\ readcount = -1
        /\ result = 0 /\ text = Blank /\ cursor = 0 /\ printed = <<>>
        /\ got = 0 /\ nul_typed = FALSE

(* The address of byte i of a buffer at b.                                 *)
address(b, i) == (b + i) % Word

(* A size_t as the ssize_t or int it is converted to.                      *)
signed(n) == IF 2 * n < Word THEN n ELSE n - Word

(* putc() on a terminal: where the cursor goes and what is then shown.  A  *)
(* backspace moves the cursor and erases nothing, a NUL does neither.      *)
cursor_after(c, ch) == IF ch = "NUL" \/ (ch = "BS" /\ c = 0) THEN c
                       ELSE IF ch = "BS" THEN c - 1 ELSE c + 1
text_after(s, c, ch) == IF ch \in {"BS", "NUL"} THEN s ELSE [s EXCEPT ![c + 1] = ch]

putc(ch) == /\ text' = text_after(text, cursor, ch)
            /\ cursor' = cursor_after(cursor, ch)

rub_out_cursor == putc("BS")                                     \* mutant

(* putc('\b'); putc(' '); putc('\b')                                       *)
rub_out == LET at == cursor_after(cursor, "BS")
           IN  /\ text' = text_after(text, at, "SP")
               /\ cursor' = cursor_after(cursor_after(at, "SP"), "BS")

in_ram_start(b, n) ==                                            \* mutant
    \/ b < currentsp /\ b >= heapbtm
    \/ b <= freetop /\ b >= freebtm

(* The last address of the buffer is formed in an unsigned word.           *)
in_ram(b, n) ==
    LET end == address(b, n)
    IN  \/ end < currentsp /\ b >= heapbtm
        \/ end <= freetop /\ b >= freebtm

Return(r) == reading' = FALSE /\ result' = r /\ got' = r

ReadRefused(fd, b, n) ==
    /\ ~reading
    /\ \/ fd # STDIN_FILENO /\ result' = -EBADF
       \/ /\ fd = STDIN_FILENO
          /\ n > buffersize \/ ~in_ram(b, n)
          /\ result' = -EFAULT
    /\ UNCHANGED <<mem, reading, buf, count, readcount, text, cursor, printed, got, nul_typed>>

Read(fd, b, n) ==
    /\ ~reading
    /\ fd = STDIN_FILENO
    /\ n <= buffersize /\ in_ram(b, n)
    /\ reading' = TRUE
    /\ buf' = b /\ count' = n /\ readcount' = -1
    /\ text' = Blank /\ cursor' = 0 /\ printed' = <<>> /\ result' = 0
    /\ got' = 0 /\ nul_typed' = FALSE
    /\ UNCHANGED mem

fits_one_more == readcount + 1 <= count                          \* mutant
fits          == readcount + 1 < count

(* readcount += 1; charbuf[readcount] = ch; putc(ch)                       *)
store(ch) == /\ readcount' = readcount + 1
             /\ mem' = [mem EXCEPT ![address(buf, readcount + 1)] = ch]
             /\ nul_typed' = (nul_typed \/ ch = "NUL")
             /\ putc(ch)

clear_before ==                                                  \* mutant
    /\ mem' = [mem EXCEPT ![address(buf, readcount - 1)] = "NUL"]
    /\ readcount' = readcount - 1

clear_last == /\ mem' = [mem EXCEPT ![address(buf, readcount)] = "NUL"]
              /\ readcount' = readcount - 1

(* Keys that are like any other: the last branch of the loop.              *)
Plain == Visible \cup {"NUL"}

ReadKey(ch) ==
    /\ reading
    /\ UNCHANGED <<buf, count, printed>>
    /\ \/ /\ ch = "EOT"
          /\ Return(readcount + 1)
          /\ UNCHANGED <<mem, readcount, text, cursor, nul_typed>>
       \/ /\ ch = "backspace" /\ readcount >= 0
          /\ clear_last
          /\ rub_out
          /\ UNCHANGED <<reading, result, got, nul_typed>>
       \/ /\ ch = "backspace" /\ readcount < 0
          /\ UNCHANGED <<mem, readcount, text, cursor, reading, result, got, nul_typed>>
       \/ /\ ch \in {"NL", "CR"} /\ fits
          /\ store("NL")
          /\ Return(readcount' + 1)
       \/ /\ ch \in Plain /\ fits
          /\ store(ch)
          /\ UNCHANGED <<reading, result, got>>
       \/ /\ ch \in Plain \cup {"NL", "CR"} /\ ~fits
          /\ Return(readcount + 1)
          /\ UNCHANGED <<mem, readcount, text, cursor, nul_typed>>

(* How many of the n bytes at b come before the first NUL.                 *)
until_nul(b, n) ==
    Cardinality({i \in 0 .. n - 1 : \A j \in 0 .. i : mem[address(b, j)] # "NUL"})

in_memory(b, n) ==
    LET max_addr == address(b, n)
    IN  max_addr <= ROM_END \/ (b >= SDRAM_BEGIN /\ max_addr <= SDRAM_END)

WriteRefused(fd, b, n) ==
    /\ ~reading
    /\ \/ fd # STDOUT_FILENO /\ result' = -EBADF
       \/ fd = STDOUT_FILENO /\ ~in_memory(b, n) /\ result' = -EFAULT
    /\ UNCHANGED <<mem, reading, buf, count, readcount, text, cursor, printed, got, nul_typed>>

Write(fd, b, n) ==
    /\ ~reading
    /\ fd = STDOUT_FILENO /\ in_memory(b, n)
    /\ printed' = [i \in 1 .. until_nul(b, signed(n)) |-> mem[address(b, i - 1)]]
    /\ result' = signed(n)
    /\ UNCHANGED <<mem, reading, buf, count, readcount, text, cursor, got, nul_typed>>

Next == \/ \E ch \in Key : ReadKey(ch)
        \/ \E fd \in {STDIN_FILENO, STDOUT_FILENO}, p \in Buffers :
             \/ ReadRefused(fd, p[1], p[2])  \/ Read(fd, p[1], p[2])
             \/ WriteRefused(fd, p[1], p[2]) \/ Write(fd, p[1], p[2])

Spec == Init /\ [][Next]_vars
-----------------------------------------------------------------------------
Line == [i \in 1 .. readcount + 1 |-> mem[address(buf, i - 1)]]
UserMemory == heapbtm .. currentsp - 1 \cup freebtm .. freetop

(* Does the end of a buffer pass the highest address?                      *)
Wraps(b, n) == b + n >= Word

TypeOK ==
    /\ mem \in [Address -> Byte]
    /\ reading \in BOOLEAN /\ nul_typed \in BOOLEAN
    /\ buf \in Address /\ count \in 0 .. buffersize
    /\ readcount \in -1 .. count - 1
    /\ result \in Int /\ got \in 0 .. count
    /\ text \in Text /\ cursor \in 0 .. Word
    /\ printed \in Seq(Byte)

(* Unless a NUL was typed, which the terminal does not show, it shows the  *)
(* line that is in the buffer: every character where it is in the line,    *)
(* and nothing behind the cursor, which is what the backspace, blank,      *)
(* backspace of io.c:108-110 is for.                                       *)
EchoShowsLine ==
    ~nul_typed =>
        /\ cursor = readcount + 1
        /\ \A i \in Columns : text[i] = IF i <= cursor THEN Line[i] ELSE "SP"

(* Which bytes a read can change: those of the buffer it was given, and    *)
(* these are the user's memory, the heap or the free region, exactly when  *)
(* the end of the buffer did not wrap.  The check of io.c:62-78 forms the  *)
(* end without asking whether it wrapped, so it accepts such buffers, and  *)
(* then no byte that read stores is the user's.                            *)
ReadStaysInBuffer ==
    [][\A a \in Address : mem'[a] # mem[a] =>
         /\ reading
         /\ \E i \in 0 .. count - 1 : a = address(buf, i)
         /\ a \in UserMemory <=> ~Wraps(buf, count)]_vars

(* A line that was read into the user's memory and is written with the     *)
(* length that read returned appears as it was read, from its first        *)
(* character on and without an erased or stale byte; it is cut only after  *)
(* a NUL was typed.                                                        *)
ReadIsWritten ==
    [][Write(STDOUT_FILENO, buf, got) /\ ~Wraps(buf, count) =>
         /\ printed' = SubSeq(Line, 1, Len(printed'))
         /\ Len(printed') # got => nul_typed]_vars

(* Read is the line editor of AbsIo.tla.                                   *)
Editor == INSTANCE AbsIo WITH line <- Line, room <- count, open <- reading,
                              Character <- Plain, MaxCount <- buffersize
ImplementsEditor == Editor!Spec
=============================================================================
