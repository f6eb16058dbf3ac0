------------------------------ MODULE Searches -------------------------------
(***************************************************************************)
(* The functions of tasks/libc/string that search and compare.  Each turn  *)
(* of a loop is a step; memory does not change.  Two strings may share     *)
(* their end, and the NUL may be the char that is looked for.              *)
(***************************************************************************)
EXTENDS Memory

CONSTANT NULL

VARIABLES scan,          \* the loop that the call is in
          p, q,          \* its pointers: into s1 or string, and into s2 or save
          rest,          \* its counter: n or hlen
          asked,         \* the function and its arguments
          found          \* what it returns
searchVars == <<scan, p, q, rest, asked, found>>

NotAsked == [name |-> "none"]

Asks(name, s, t, k, c) ==
    /\ scan = "none" /\ scan' = name
    /\ asked' = [name |-> name, s |-> s, t |-> t, count |-> k, char |-> c]
    /\ p' = s /\ rest' = k
    /\ UNCHANGED <<mem, found>>

AsksFor(name, s, c)     == Asks(name, s, s, 0, c) /\ q' = IF name = "strrchr" THEN NULL ELSE s
AsksWith(name, s, t, k) == Asks(name, s, t, k, 0) /\ q' = t

Answers(r) == scan' = "done" /\ found' = r /\ UNCHANGED <<p, q, rest>>
Goes(a, b, k) == p' = a /\ q' = b /\ rest' = k /\ UNCHANGED <<scan, found>>
In(loop) == scan = loop /\ UNCHANGED <<mem, asked>>
-----------------------------------------------------------------------------
Strlen ==
    /\ In("strlen")
    /\ \/ mem[p] # 0 /\ Goes(p + 1, q, rest)
       \/ mem[p] = 0 /\ Answers(p - asked.s)

Strchr ==
    /\ In("strchr")
    /\ \/ mem[p] = asked.char /\ Answers(p)
       \/ mem[p] # asked.char /\ mem[p] = 0 /\ Answers(NULL)
       \/ mem[p] # asked.char /\ mem[p] # 0 /\ Goes(p + 1, q, rest)

Strrchr ==
    /\ In("strrchr")
    /\ \/ mem[p] = 0 /\ Answers(q)
       \/ mem[p] # 0 /\ Goes(p + 1, IF mem[p] = asked.char THEN p ELSE q, rest)

Strcmp ==
    /\ In("strcmp")
    /\ LET same == mem[p] # 0 /\ mem[q] # 0 /\ mem[p] = mem[q]
       IN  \/ same /\ Goes(p + 1, q + 1, rest)
           \/ ~same /\ Answers(mem[p] - mem[q])

Strncmp ==
    /\ In("strncmp")
    /\ \/ rest = 0 /\ Answers(0)
       \/ rest # 0 /\ mem[p] # mem[q] /\ Answers(mem[p] - mem[q])
       \/ rest # 0 /\ mem[p] = mem[q] /\ mem[p] = 0 /\ Answers(0)
       \/ rest # 0 /\ mem[p] = mem[q] /\ mem[p] # 0 /\ Goes(p + 1, q + 1, rest - 1)

(* The NUL of s2 ends the inner loop of strspn and strpbrk; in that of     *)
(* strcspn it is one more char to stop at.                                 *)
Strspn ==
    /\ In("strspn")
    /\ \/ mem[q] = 0 /\ Answers(p - asked.s)
       \/ mem[q] # 0 /\ mem[q] = mem[p] /\ Goes(p + 1, asked.t, rest)
       \/ mem[q] # 0 /\ mem[q] # mem[p] /\ Goes(p, q + 1, rest)

Strcspn ==
    /\ In("strcspn")
    /\ \/ mem[q] = mem[p] /\ Answers(p - asked.s)
       \/ mem[q] # mem[p] /\ mem[q] = 0 /\ Goes(p + 1, asked.t, rest)
       \/ mem[q] # mem[p] /\ mem[q] # 0 /\ Goes(p, q + 1, rest)

Strpbrk ==
    /\ In("strpbrk")
    /\ \/ mem[p] = 0 /\ Answers(NULL)
       \/ mem[p] # 0 /\ mem[q] = 0 /\ Goes(p + 1, asked.t, rest)
       \/ mem[p] # 0 /\ mem[q] # 0 /\ mem[q] = mem[p] /\ Answers(p)
       \/ mem[p] # 0 /\ mem[q] # 0 /\ mem[q] # mem[p] /\ Goes(p, q + 1, rest)

(* strstr measures the haystack, then the needle.                          *)
Haystack ==
    /\ scan = "strstr"
    /\ \/ mem[p] # 0 /\ p' = p + 1 /\ UNCHANGED <<rest, scan>>
       \/ mem[p] = 0 /\ rest' = p - asked.s /\ scan' = "needle" /\ UNCHANGED p
    /\ UNCHANGED <<mem, q, asked, found>>
Needle ==
    /\ scan = "needle"
    /\ \/ mem[q] # 0 /\ q' = q + 1 /\ UNCHANGED <<p, scan>>
       \/ mem[q] = 0 /\ p' = asked.s /\ scan' = "find" /\ UNCHANGED q
    /\ UNCHANGED <<mem, rest, asked, found>>

(* memcmp is the compiler's own (memcmp.c is empty under GCC).             *)
memcmp(a, b, k) == IF \A i \in 0 .. k - 1 : mem[a + i] = mem[b + i] THEN 0 ELSE 1

longer(hlen, nlen)      == hlen > nlen                               \* mutant
long_enough(hlen, nlen) == hlen >= nlen
Find ==
    LET nlen == q - asked.t
    IN  /\ In("find")
        /\ \/ ~long_enough(rest, nlen) /\ Answers(NULL)
           \/ /\ long_enough(rest, nlen)
              /\ \/ memcmp(p, asked.t, nlen) = 0 /\ Answers(p)
                 \/ memcmp(p, asked.t, nlen) # 0 /\ Goes(p + 1, q, rest - 1)

Forget == /\ scan = "done" /\ scan' = "none"
          /\ p' = 0 /\ q' = 0 /\ rest' = 0 /\ asked' = NotAsked /\ found' = NULL
          /\ UNCHANGED mem
-----------------------------------------------------------------------------
SearchInit == /\ mem \in [Addr -> Byte]
              /\ scan = "none" /\ asked = NotAsked /\ found = NULL
              /\ p = 0 /\ q = 0 /\ rest = 0

Call(s, t) ==
    /\ IsString(mem, s) /\ IsString(mem, t)
    /\ \/ AsksFor("strlen", s, 0)
       \/ \E name \in {"strchr", "strrchr"}, c \in Byte : AsksFor(name, s, c)
       \/ \E name \in {"strcmp", "strspn", "strcspn", "strpbrk", "strstr"} : AsksWith(name, s, t, 0)
       \/ \E k \in Count : AsksWith("strncmp", s, t, k)

SearchNext ==
    \/ \E s, t \in Addr : Call(s, t)
    \/ Strlen \/ Strchr \/ Strrchr \/ Strcmp \/ Strncmp
    \/ Strspn \/ Strcspn \/ Strpbrk
    \/ Haystack \/ Needle \/ Find
    \/ Forget
-----------------------------------------------------------------------------
IsFirst(a, S) == IF S = {} THEN a = NULL ELSE a \in S /\ \A b \in S : a <= b
IsLast(a, S)  == IF S = {} THEN a = NULL ELSE a \in S /\ \A b \in S : a >= b

Chars(s)  == Block(s, Length(mem, s))
End(s)    == s + Length(mem, s)
Among(s)  == {mem[a] : a \in Chars(s)}
Longest(s, t) == Shorter(Length(mem, s), Length(mem, t)) + 1

(* d is the difference of the first of k bytes in which s and t differ.    *)
IsDifference(d, s, t, k) ==
    \/ d = 0 /\ \A i \in 0 .. k - 1 : mem[s + i] = mem[t + i]
    \/ \E i \in 0 .. k - 1 : /\ d # 0 /\ d = mem[s + i] - mem[t + i]
                             /\ \A j \in 0 .. i - 1 : mem[s + j] = mem[t + j]
Occurs(t, a, s) == /\ a + Length(mem, t) <= End(s)
                   /\ \A i \in 0 .. Length(mem, t) - 1 : mem[a + i] = mem[t + i]

IsRight(r) ==
    LET s == asked.s
        t == asked.t
        string == Chars(s) \cup {End(s)}
    IN  CASE asked.name = "strlen"  -> r = Length(mem, s)
          [] asked.name = "strchr"  -> IsFirst(r, {a \in string : mem[a] = asked.char})
          [] asked.name = "strrchr" -> IsLast(r, {a \in Chars(s) : mem[a] = asked.char})
          [] asked.name = "strcmp"  -> IsDifference(r, s, t, Longest(s, t))
          [] asked.name = "strncmp" -> IsDifference(r, s, t, Shorter(asked.count, Longest(s, t)))
          [] asked.name = "strspn"  -> IsFirst(s + r, {a \in string : mem[a] \notin Among(t)})
          [] asked.name = "strcspn" -> IsFirst(s + r, {a \in string : mem[a] \in Among(t) \cup {0}})
          [] asked.name = "strpbrk" -> IsFirst(r, {a \in Chars(s) : mem[a] \in Among(t)})
          [] asked.name = "strstr"  -> IsFirst(r, {a \in string : Occurs(t, a, s)})

(* What the searching and comparing functions return, and that on the way  *)
(* they never read past a NUL, for strings that may share their end and    *)
(* with the NUL among the chars that are looked for: strchr finds it,      *)
(* strrchr does not (strchr.c:28-31, strrchr.c:28-30, strstr.c:26-34).     *)
SearchesAreRight ==
    /\ scan \notin {"none", "done"} => p \in asked.s .. End(asked.s)
    /\ scan \notin {"none", "done", "strrchr"} => q \in asked.t .. End(asked.t)
    /\ scan = "find" /\ long_enough(rest, q - asked.t) => p + (q - asked.t) <= End(asked.s)
    /\ scan = "done" => IsRight(found)
=============================================================================
