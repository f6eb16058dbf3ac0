------------------------------- MODULE Copies --------------------------------
(***************************************************************************)
(* The functions of tasks/libc/string that write.  Each turn of a loop is  *)
(* a step; calls follow one another and each meets what the others left.   *)
(* Calls keep to what C asks of a caller: strings end inside the memory,   *)
(* the destination has room and, but for memmove, overlaps no source.      *)
(***************************************************************************)
EXTENDS Memory

CONSTANTS SIZE_RANGE,    \* one more than the largest size_t
          FullCounts     \* may strncpy be called without room for the NUL?
ASSUME RangeAssumption == SIZE_RANGE \in Nat /\ MemSize < SIZE_RANGE

VARIABLES at,            \* the loop that the call is in
          to, from, cnt, \* its pointers, and its counter: count, len, n or i
          args,          \* the function and its arguments
          before         \* history: the memory when it was called
copyVars == <<at, to, from, cnt, args, before>>

MayCopy(m, t, s) == /\ IsString(m, s)
                    /\ Fits(t, Length(m, s) + 1)
                    /\ Apart(t, Length(m, s) + 1, s, Length(m, s) + 1)
MayCopyN(m, t, s, k) == /\ IsString(m, s)
                        /\ k <= Length(m, s) => FullCounts
                        /\ Fits(t, k)
                        /\ Apart(t, k, s, Length(m, s) + 1)
MayAppend(m, t, s, k) ==
    /\ IsString(m, t) /\ IsString(m, s)
    /\ LET grown == Length(m, t) + Shorter(k, Length(m, s)) + 1
       IN  Fits(t, grown) /\ Apart(t, grown, s, Length(m, s) + 1)
-----------------------------------------------------------------------------
put(a, c) == mem' = [x \in Addr |-> IF x = a THEN c ELSE mem[x]]
minus1(k) == (k - 1) % SIZE_RANGE                       \* k-- on a size_t

NoCall == [name |-> "none"]

Called(name, t, s, k, c, start, loop) ==
    /\ at' = loop
    /\ args' = [name |-> name, to |-> t, from |-> s, count |-> k, char |-> c]
    /\ to' = t /\ from' = s /\ cnt' = start
    /\ before' = mem
    /\ UNCHANGED mem

Returns == /\ at = "done" /\ at' = "none"
           /\ to' = 0 /\ from' = 0 /\ cnt' = 0
           /\ args' = NoCall /\ before' = mem
           /\ UNCHANGED mem

CallStrcpy(t, s)     == MayCopy(mem, t, s) /\ Called("strcpy", t, s, 0, 0, 0, "copy")
CallStrcat(t, s)     == /\ MayAppend(mem, t, s, MemSize)
                        /\ Called("strcat", t, s, 0, 0, 0, "strcat")
CallStrncat(t, s, k) == /\ MayAppend(mem, t, s, k)
                        /\ Called("strncat", t, s, k, 0, k, IF k = 0 THEN "done" ELSE "strncat")
CallStrncpy(t, s, k) == MayCopyN(mem, t, s, k) /\ Called("strncpy", t, s, k, 0, k, "strncpy")
CallMemset(t, c, k)  == Fits(t, k) /\ Called("memset", t, t, k, c, k, "memset")

always_up(d, s) == TRUE                                              \* mutant
moves_up(d, s)  == d < s
CallMemmove(d, s, k) ==
    /\ Fits(d, k) /\ Fits(s, k)
    /\ IF moves_up(d, s) THEN Called("memmove", d, s, k, 0, 0, "up")
                         ELSE Called("memmove", d, s, k, 0, k, "down")
-----------------------------------------------------------------------------
(* The first loop of strcat and strncat: to the NUL of the string at to.   *)
Seek(loop, next) ==
    /\ at = loop
    /\ \/ mem[to] # 0 /\ to' = to + 1 /\ UNCHANGED at
       \/ mem[to] = 0 /\ at' = next /\ UNCHANGED to
    /\ UNCHANGED <<mem, from, cnt, args, before>>

(* The loop of strcpy, which is the second of strcat.                      *)
Copy ==
    /\ at = "copy"
    /\ put(to, mem[from])
    /\ to' = to + 1 /\ from' = from + 1
    /\ at' = IF mem[from] = 0 THEN "done" ELSE at
    /\ UNCHANGED <<cnt, args, before>>

(* The second loop of strncat, and the NUL behind it.                      *)
AppendTurn ==
    /\ at = "append"
    /\ put(to, mem[from])
    /\ from' = from + 1
    /\ \/ mem[from] = 0 /\ at' = "append_end" /\ UNCHANGED <<to, cnt>>
       \/ /\ mem[from] # 0
          /\ to' = to + 1 /\ cnt' = cnt - 1
          /\ at' = IF cnt = 1 THEN "append_end" ELSE at
    /\ UNCHANGED <<args, before>>
AppendEnds ==
    /\ at = "append_end" /\ at' = "done"
    /\ put(to, 0)
    /\ UNCHANGED <<to, from, cnt, args, before>>

(* The first loop of strncpy.                                              *)
CopyCounted ==
    /\ at = "strncpy"
    /\ cnt' = minus1(cnt)
    /\ \/ cnt = 0 /\ at' = "pad" /\ UNCHANGED <<mem, to, from>>
       \/ /\ cnt # 0
          /\ put(to, mem[from])
          /\ to' = to + 1 /\ from' = from + 1
          /\ at' = IF mem[from] = 0 THEN "pad" ELSE at
    /\ UNCHANGED <<args, before>>

(* The loop of memset, which is the second of strncpy.                     *)
Fill(loop, c) ==
    /\ at = loop
    /\ cnt' = minus1(cnt)
    /\ \/ cnt = 0 /\ at' = "done" /\ UNCHANGED <<mem, to>>
       \/ cnt # 0 /\ put(to, c) /\ to' = to + 1 /\ UNCHANGED at
    /\ UNCHANGED <<from, args, before>>

MoveUp ==
    /\ at = "up"
    /\ \/ cnt = args.count /\ at' = "done" /\ UNCHANGED <<mem, cnt>>
       \/ cnt # args.count /\ put(to + cnt, mem[from + cnt]) /\ cnt' = cnt + 1 /\ UNCHANGED at
    /\ UNCHANGED <<to, from, args, before>>
MoveDown ==
    /\ at = "down"
    /\ \/ cnt = 0 /\ at' = "done" /\ UNCHANGED <<mem, cnt>>
       \/ cnt # 0 /\ put(to + cnt - 1, mem[from + cnt - 1]) /\ cnt' = cnt - 1 /\ UNCHANGED at
    /\ UNCHANGED <<to, from, args, before>>
-----------------------------------------------------------------------------
CopyInit == /\ mem \in [Addr -> Byte] /\ before = mem
            /\ at = "none" /\ args = NoCall
            /\ to = 0 /\ from = 0 /\ cnt = 0

CopyNext ==
    \/ at = "none" /\ \E t, s \in Addr, k \in Count, c \in Byte :
        \/ CallStrcpy(t, s) \/ CallStrcat(t, s) \/ CallStrncat(t, s, k)
        \/ CallStrncpy(t, s, k) \/ CallMemmove(t, s, k) \/ CallMemset(t, c, k)
    \/ Seek("strcat", "copy") \/ Copy
    \/ Seek("strncat", "append") \/ AppendTurn \/ AppendEnds
    \/ CopyCounted \/ Fill("pad", 0) \/ Fill("memset", args.char)
    \/ MoveUp \/ MoveDown
    \/ Returns
-----------------------------------------------------------------------------
(* What a call leaves behind.                                              *)
Copied(m, t, s, k) == [a \in Addr |-> IF a \in Block(t, k) THEN m[s + (a - t)] ELSE m[a]]
Filled(m, t, k, c) == [a \in Addr |-> IF a \in Block(t, k) THEN c ELSE m[a]]

Promised ==
    LET t == args.to
        s == args.from
        end    == t + Length(before, t)
        length == Length(before, s)
        some   == Shorter(args.count, length)
    IN  CASE args.name = "strcpy"  -> Copied(before, t, s, length + 1)
          [] args.name = "strcat"  -> Copied(before, end, s, length + 1)
          [] args.name = "strncat" -> Filled(Copied(before, end, s, some), end + some, 1, 0)
          [] args.name = "strncpy" -> Filled(Copied(before, t, s, some),
                                             t + some, args.count - some, 0)
          [] args.name = "memset"  -> Filled(before, t, args.count, args.char)
          [] args.name = "memmove" -> Copied(before, t, s, args.count)

(* Every writing function leaves exactly the bytes it promises and touches *)
(* no other, and at no time is there a byte that is neither the old nor    *)
(* the new one: overlapping blocks in memmove (memmove.c:18-24), the NUL   *)
(* that strncat adds (strncat.c:58-63), the padding of strncpy.            *)
CopiesAreRight ==
    at # "none" => LET promised == Promised
                   IN  /\ \A a \in Addr : mem[a] \in {before[a], promised[a]}
                       /\ at = "done" => mem = promised

(* strncpy.c:38-43: "until exactly "count" characters have been written".  *)
StrncpyWritesCount ==
    at # "none" /\ args.name = "strncpy" =>
        \A a \in Addr : a \notin Block(args.to, args.count) => mem[a] = before[a]
=============================================================================
