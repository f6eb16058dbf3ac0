-------------------------- MODULE SleepQueueProofs ---------------------------
(***************************************************************************)
(* The linked lists implement sequences, for any number of TCBs and        *)
(* queues.  The inductive invariant says that there are sequences, one for *)
(* each queue, that the pointers realize and that share no TCB; each step  *)
(* of the code is shown to lead from the pointers of some sequences to the *)
(* pointers of the sequences of the abstract step.  That the pointers      *)
(* determine the sequences is an induction along the list, by the least    *)
(* place at which two lists from one pointer differ.                       *)
(***************************************************************************)
EXTENDS SleepQueue, SequenceTheorems, FiniteSetTheorems, WellFoundedInduction, TLAPS

(* The sequences c are what the pointers h and links l realize: no TCB is  *)
(* on two lists or twice on one, and one that is on none links to nothing. *)
On(c, t) == \E q \in Queues : \E i \in 1 .. Len(c[q]) : c[q][i] = t

Linked(c, h, l) ==
    /\ c \in [Queues -> Seq(TCB)]
    /\ h \in [Queues -> Pointer] /\ l \in [TCB -> Pointer]
    /\ \A q \in Queues : IsList(c[q], h[q], l)
    /\ \A q, r \in Queues : \A i \in 1 .. Len(c[q]), j \in 1 .. Len(c[r]) :
         c[q][i] = c[r][j] => q = r /\ i = j
    /\ \A t \in TCB : ~On(c, t) => l[t] = NULL
-----------------------------------------------------------------------------
LEMMA LeastNat ==
    ASSUME NEW S \in SUBSET Nat, S # {}
    PROVE  \E n \in S : \A m \in S : n <= m
<1> DEFINE R == {ss \in Nat \X Nat : ss[1] < ss[2]}
<1>1. IsWellFoundedOn(R, Nat)
  BY NatLessThanWellFounded, Zenon DEF OpToRel
<1>2. PICK n \in S : \A m \in S : ~(<<m, n>> \in R)
  <2> HIDE DEF R
  <2> QED
    BY <1>1, WFMin, Zenon
<1>3. ASSUME NEW m \in S
      PROVE  n <= m
  <2>1. n \in Nat /\ m \in Nat /\ ~(<<m, n>> \in R)
    BY <1>2
  <2>2. <<m, n>> \in Nat \X Nat /\ <<m, n>>[1] = m /\ <<m, n>>[2] = n
    BY <2>1
  <2>3. ~(m < n)
    BY <2>1, <2>2
  <2> QED
    BY <2>1, <2>3
<1> QED
  BY <1>3

(* Of two lists from the same pointer, the first goes on as the second.    *)
LEMMA ListsAgree ==
    ASSUME NEW p, NEW l, NEW s \in Seq(TCB), NEW r \in Seq(TCB), IsList(s, p, l), IsList(r, p, l)
    PROVE  \A i \in 1 .. Len(s) : i <= Len(r) /\ s[i] = r[i]
<1> DEFINE Differ == {i \in 1 .. Len(s) : ~(i <= Len(r) /\ s[i] = r[i])}
<1>1. Len(s) \in Nat /\ Len(r) \in Nat /\ (s = <<>> => Len(s) = 0) /\ (r = <<>> => Len(r) = 0)
      /\ (r # <<>> => Len(r) # 0)
  BY LenProperties, EmptySeq
<1>2. Differ \in SUBSET Nat
  BY <1>1
<1>3. ASSUME Differ # {}
      PROVE  FALSE
  <2>1. PICK n \in Differ : \A m \in Differ : n <= m
    BY <1>2, <1>3, LeastNat
  <2>2. n \in 1 .. Len(s) /\ ~(n <= Len(r) /\ s[n] = r[n])
    BY <2>1
  <2>3. CASE n = 1
    <3>1. s # <<>> /\ p = s[1] /\ s[1] \in TCB
      BY <1>1, <2>2, <2>3, ElementOfSeq DEF IsList
    <3>2. r # <<>> /\ p = r[1]
      BY <3>1, TCBAssumption, NullAssumption DEF IsList
    <3> QED
      BY <1>1, <2>2, <2>3, <3>1, <3>2
  <2>4. CASE n # 1
    <3>1. n - 1 \in 1 .. Len(s) /\ n - 1 \notin Differ /\ n - 1 # Len(s)
      BY <1>1, <2>1, <2>2, <2>4
    <3>2. n - 1 <= Len(r) /\ s[n - 1] = r[n - 1]
      BY <3>1
    <3>3. l[s[n - 1]] = s[n] /\ s[n] \in TCB
      <4> DEFINE m == n - 1
      <4>1. m \in 1 .. Len(s) /\ m # Len(s) /\ m + 1 = n
        BY <1>1, <2>2, <3>1
      <4> HIDE DEF m
      <4>2. l[s[m]] = s[m + 1]
        BY <4>1 DEF IsList
      <4>3. s[n] \in TCB
        BY <2>2, ElementOfSeq
      <4> QED
        BY <4>1, <4>2, <4>3 DEF m
    <3>4. n - 1 \in 1 .. Len(r) /\ (n - 1 # Len(r) => l[r[n - 1]] = r[n])
          /\ (n - 1 = Len(r) => l[r[n - 1]] = NULL)
      BY <1>1, <3>1, <3>2 DEF IsList
    <3>5. n - 1 # Len(r) /\ r[n] = s[n]
      BY <3>2, <3>3, <3>4, TCBAssumption, NullAssumption
    <3> QED
      BY <1>1, <2>2, <3>2, <3>4, <3>5
  <2> QED
    BY <2>3, <2>4
<1> QED
  BY <1>1, <1>3

LEMMA OneList ==
    ASSUME NEW p, NEW l, NEW s \in Seq(TCB), NEW r \in Seq(TCB), IsList(s, p, l), IsList(r, p, l)
    PROVE  s = r
<1>1. Len(s) \in Nat /\ Len(r) \in Nat
  BY LenProperties
<1>2. /\ \A i \in 1 .. Len(s) : i <= Len(r) /\ s[i] = r[i]
      /\ \A i \in 1 .. Len(r) : i <= Len(s)
  BY ListsAgree
<1>3. Len(s) = Len(r)
  <2>1. Len(s) = 0 \/ Len(s) \in 1 .. Len(s)
    BY <1>1
  <2>2. Len(r) = 0 \/ Len(r) \in 1 .. Len(r)
    BY <1>1
  <2>3. Len(s) <= Len(r)
    BY <1>1, <1>2, <2>1
  <2>4. Len(r) <= Len(s)
    BY <1>1, <1>2, <2>2
  <2> QED
    BY <1>1, <2>3, <2>4
<1> QED
  BY <1>2, <1>3, SeqEqual

(* A sequence without repetition is no longer than there are TCBs.         *)
LEMMA NoLonger ==
    ASSUME NEW s \in Seq(TCB), \A i, j \in 1 .. Len(s) : s[i] = s[j] => i = j
    PROVE  s \in ListOfTCB /\ Len(s) \in 0 .. Cardinality(TCB)
<1>1. Len(s) \in Nat /\ s \in [1 .. Len(s) -> TCB]
  BY LenProperties
<1>2. s \in Injection(1 .. Len(s), TCB)
  BY <1>1 DEF Injection, IsInjective
<1>3. Cardinality(1 .. Len(s)) <= Cardinality(TCB)
  BY <1>2, FS_Injection, TCBAssumption, NullAssumption
<1>4. Cardinality(1 .. Len(s)) = Len(s)
  BY <1>1, FS_Interval
<1>5. Cardinality(TCB) \in Nat
  BY FS_CardinalityType, TCBAssumption, NullAssumption
<1> QED
  BY <1>1, <1>3, <1>4, <1>5 DEF ListOfTCB

LEMMA ListIsSeq == ListOfTCB \subseteq Seq(TCB)
<1>1. Cardinality(TCB) \in Nat
  BY FS_CardinalityType, TCBAssumption, NullAssumption
<1>2. ASSUME NEW n \in 0 .. Cardinality(TCB), NEW s \in [1 .. n -> TCB]
      PROVE  s \in Seq(TCB)
  BY <1>1, <1>2
<1> QED
  BY <1>2 DEF ListOfTCB

(* The pointers determine the sequences.                                   *)
LEMMA ListIs ==
    ASSUME NEW c, NEW h, NEW l, Linked(c, h, l), NEW q \in Queues
    PROVE  (CHOOSE s \in ListOfTCB : IsList(s, h[q], l)) = c[q] /\ c[q] \in Seq(TCB)
<1> DEFINE chosen == CHOOSE s \in ListOfTCB : IsList(s, h[q], l)
<1>1. c[q] \in Seq(TCB) /\ IsList(c[q], h[q], l)
  BY DEF Linked
<1>2. c[q] \in ListOfTCB
  BY <1>1, NoLonger DEF Linked
<1>3. chosen \in ListOfTCB /\ IsList(chosen, h[q], l)
  BY <1>1, <1>2
<1> HIDE DEF chosen
<1>4. chosen = c[q]
  BY <1>1, <1>3, ListIsSeq, OneList
<1> QED
  BY <1>1, <1>4 DEF chosen
-----------------------------------------------------------------------------
Elsewhere(c, q, t) == \E r \in Queues \ {q} : \E i \in 1 .. Len(c[r]) : c[r][i] = t

(* With links k, the list from p is s, and those of the queues other than  *)
(* q are what they were with links l.                                      *)
Relink(c, l, q, s, p, k) ==
    /\ s \in Seq(TCB) /\ p \in Pointer /\ k \in [TCB -> Pointer]
    /\ IsList(s, p, k)
    /\ \A i, j \in 1 .. Len(s) : s[i] = s[j] => i = j
    /\ \A r \in Queues \ {q} : \A i \in 1 .. Len(c[r]) :
         /\ k[c[r][i]] = l[c[r][i]]
         /\ \A j \in 1 .. Len(s) : s[j] # c[r][i]
    /\ \A t \in TCB : k[t] = NULL \/ Elsewhere(c, q, t) \/ \E i \in 1 .. Len(s) : s[i] = t

LEMMA Relinked ==
    ASSUME NEW c, NEW h, NEW l, Linked(c, h, l), NEW q \in Queues, NEW s, NEW p, NEW k,
           Relink(c, l, q, s, p, k)
    PROVE  Linked([c EXCEPT ![q] = s], [h EXCEPT ![q] = p], k)
<1> USE DEF Relink
<1> DEFINE d == [c EXCEPT ![q] = s]
           g == [h EXCEPT ![q] = p]
<1>1. /\ d \in [Queues -> Seq(TCB)] /\ d[q] = s /\ \A r \in Queues \ {q} : d[r] = c[r]
      /\ g \in [Queues -> Pointer] /\ g[q] = p /\ \A r \in Queues \ {q} : g[r] = h[r]
  BY DEF Linked
<1> HIDE DEF d, g
<1>2. ASSUME NEW r \in Queues
      PROVE  IsList(d[r], g[r], k)
  <2>1. CASE r = q
    BY <1>1, <2>1
  <2>2. CASE r # q
    <3>1. IsList(c[r], h[r], l)
      BY DEF Linked
    <3>2. \A i \in 1 .. Len(c[r]) : k[c[r][i]] = l[c[r][i]]
      BY <2>2
    <3> QED
      BY <1>1, <2>2, <3>1, <3>2 DEF IsList
  <2> QED
    BY <2>1, <2>2
<1>3. ASSUME NEW r \in Queues, NEW u \in Queues,
             NEW i \in 1 .. Len(d[r]), NEW j \in 1 .. Len(d[u]), d[r][i] = d[u][j]
      PROVE  r = u /\ i = j
  <2>1. CASE r = q /\ u = q
    BY <1>1, <1>3, <2>1
  <2>2. CASE r # q /\ u # q
    BY <1>1, <1>3, <2>2 DEF Linked
  <2>3. CASE r = q /\ u # q
    BY <1>1, <1>3, <2>3
  <2>4. CASE r # q /\ u = q
    BY <1>1, <1>3, <2>4
  <2> QED
    BY <2>1, <2>2, <2>3, <2>4
<1>4. ASSUME NEW t \in TCB, ~On(d, t)
      PROVE  k[t] = NULL
  <2>1. \A r \in Queues : \A i \in 1 .. Len(d[r]) : d[r][i] # t
    BY <1>4 DEF On
  <2>2. \A i \in 1 .. Len(s) : s[i] # t
    BY <1>1, <2>1
  <2>3. ~Elsewhere(c, q, t)
    BY <1>1, <2>1 DEF Elsewhere
  <2> QED
    BY <2>2, <2>3
<1>5. Linked(d, g, k)
  BY <1>1, <1>2, <1>3, <1>4 DEF Linked
<1> QED
  BY <1>5 DEF d, g

(* The list at q, as the pointers of its TCBs.                             *)
LEMMA ListFacts ==
    ASSUME NEW c, NEW h, NEW l, Linked(c, h, l), NEW q \in Queues
    PROVE  /\ c[q] \in Seq(TCB) /\ Len(c[q]) \in Nat
           /\ (h[q] = NULL <=> c[q] = <<>>) /\ (c[q] = <<>> <=> Len(c[q]) = 0)
           /\ c[q] # <<>> => h[q] = c[q][1] /\ h[q] = Head(c[q]) /\ 1 \in 1 .. Len(c[q])
           /\ \A i \in 1 .. Len(c[q]) :
                c[q][i] \in TCB /\ l[c[q][i]] = IF i = Len(c[q]) THEN NULL ELSE c[q][i + 1]
<1>1. c[q] \in Seq(TCB) /\ IsList(c[q], h[q], l)
  BY DEF Linked
<1>2. Len(c[q]) \in Nat /\ (c[q] = <<>> <=> Len(c[q]) = 0)
  BY <1>1, LenProperties, EmptySeq
<1>3. \A i \in 1 .. Len(c[q]) : c[q][i] \in TCB
  BY <1>1, ElementOfSeq
<1>4. c[q] # <<>> => 1 \in 1 .. Len(c[q]) /\ Head(c[q]) = c[q][1]
  BY <1>1, <1>2
<1> QED
  BY <1>1, <1>2, <1>3, <1>4, TCBAssumption, NullAssumption DEF IsList

(* dev_wait, and mutex_lock on an empty list.                              *)
LEMMA PushFirst ==
    ASSUME NEW c, NEW h, NEW l, Linked(c, h, l), NEW q \in Queues, NEW t \in TCB, ~On(c, t)
    PROVE  Linked([c EXCEPT ![q] = <<t>> \o c[q]], [h EXCEPT ![q] = t], [l EXCEPT ![t] = h[q]])
<1> DEFINE s == <<t>> \o c[q]
           k == [l EXCEPT ![t] = h[q]]
           n == Len(c[q])
<1>1. /\ c[q] \in Seq(TCB) /\ n \in Nat /\ <<t>> \in Seq(TCB) /\ Len(<<t>>) = 1
      /\ h \in [Queues -> Pointer] /\ l \in [TCB -> Pointer]
  BY ListFacts DEF Linked
<1>2. /\ s \in Seq(TCB) /\ Len(s) = n + 1
      /\ \A i \in 1 .. n + 1 : s[i] = IF i = 1 THEN t ELSE c[q][i - 1]
  BY <1>1, ConcatProperties
<1>3. k \in [TCB -> Pointer] /\ k[t] = h[q] /\ \A u \in TCB \ {t} : k[u] = l[u]
  BY <1>1
<1> HIDE DEF s, k
<1>4. \A r \in Queues : \A i \in 1 .. Len(c[r]) : c[r][i] # t
  BY DEF On
<1>5. IsList(s, t, k)
  <2>1. s # <<>> /\ t = s[1]
    BY <1>1, <1>2, EmptySeq
  <2>2. ASSUME NEW i \in 1 .. Len(s)
        PROVE  k[s[i]] = IF i = Len(s) THEN NULL ELSE s[i + 1]
    <3>1. CASE i = 1
      <4>1. CASE n = 0
        BY <1>2, <1>3, <3>1, <4>1, ListFacts
      <4>2. CASE n # 0
        <5>1. h[q] = c[q][1]
          BY <4>2, ListFacts
        <5>2. 2 \in 1 .. n + 1 /\ s[2] = c[q][1]
          BY <1>1, <1>2, <4>2
        <5> QED
          BY <1>1, <1>2, <1>3, <3>1, <4>2, <5>1, <5>2
      <4> QED
        BY <4>1, <4>2
    <3>2. CASE i # 1
      <4> DEFINE j == i - 1
      <4>1. j \in 1 .. n /\ s[i] = c[q][j] /\ j + 1 = i
        BY <1>1, <1>2, <3>2
      <4>2. i # Len(s) => s[i + 1] = c[q][i] /\ j # n
        BY <1>1, <1>2, <3>2
      <4>3. i = Len(s) => j = n
        BY <1>1, <1>2
      <4> HIDE DEF j
      <4>4. c[q][j] \in TCB /\ l[c[q][j]] = IF j = n THEN NULL ELSE c[q][j + 1]
        BY <4>1, ListFacts
      <4>5. k[s[i]] = l[c[q][j]]
        BY <1>3, <1>4, <4>1, <4>4
      <4> QED
        BY <4>1, <4>2, <4>3, <4>4, <4>5
    <3> QED
      BY <3>1, <3>2
  <2> QED
    BY <2>1, <2>2 DEF IsList
<1>6. ASSUME NEW i \in 1 .. Len(s), NEW j \in 1 .. Len(s), s[i] = s[j]
      PROVE  i = j
  <2>1. CASE i = 1 \/ j = 1
    <3>1. ASSUME NEW m \in 1 .. Len(s), s[m] = t
          PROVE  m = 1
      <4>1. ASSUME m # 1
            PROVE  FALSE
        <5>1. m - 1 \in 1 .. n /\ s[m] = c[q][m - 1]
          BY <1>1, <1>2, <4>1
        <5> QED
          BY <1>4, <3>1, <5>1
      <4> QED
        BY <4>1
    <3>2. s[1] = t
      BY <1>1, <1>2
    <3> QED
      BY <1>6, <2>1, <3>1, <3>2
  <2>2. CASE i # 1 /\ j # 1
    <3>1. i - 1 \in 1 .. n /\ j - 1 \in 1 .. n /\ c[q][i - 1] = c[q][j - 1]
      BY <1>1, <1>2, <1>6, <2>2
    <3>2. i - 1 = j - 1
      BY <3>1 DEF Linked
    <3> QED
      BY <1>1, <1>2, <3>2
  <2> QED
    BY <2>1, <2>2
<1>7. ASSUME NEW r \in Queues \ {q}, NEW i \in 1 .. Len(c[r])
      PROVE  k[c[r][i]] = l[c[r][i]] /\ \A j \in 1 .. Len(s) : s[j] # c[r][i]
  <2>1. c[r][i] \in TCB /\ c[r][i] # t
    BY <1>4, ListFacts
  <2>2. ASSUME NEW j \in 1 .. Len(s)
        PROVE  s[j] # c[r][i]
    <3>1. CASE j = 1
      BY <1>1, <1>2, <2>1, <3>1
    <3>2. CASE j # 1
      <4>1. j - 1 \in 1 .. n /\ s[j] = c[q][j - 1]
        BY <1>1, <1>2, <3>2
      <4> QED
        BY <4>1 DEF Linked
    <3> QED
      BY <3>1, <3>2
  <2> QED
    BY <1>3, <2>1, <2>2
<1>8. ASSUME NEW u \in TCB, ~Elsewhere(c, q, u), ~(\E i \in 1 .. Len(s) : s[i] = u)
      PROVE  k[u] = NULL
  <2>1. u # t
    BY <1>1, <1>2, <1>8
  <2>2. ASSUME NEW i \in 1 .. n
        PROVE  c[q][i] # u
    <3>1. i + 1 \in 1 .. Len(s) /\ s[i + 1] = c[q][i]
      BY <1>1, <1>2
    <3> QED
      BY <1>8, <3>1
  <2>3. ~On(c, u)
    BY <1>8, <2>2 DEF On, Elsewhere
  <2> QED
    BY <1>3, <2>1, <2>3 DEF Linked
<1>9. Relink(c, l, q, s, t, k)
  BY <1>2, <1>3, <1>5, <1>6, <1>7, <1>8 DEF Relink, Pointer
<1>10. Linked([c EXCEPT ![q] = s], [h EXCEPT ![q] = t], k)
  BY <1>9, Relinked
<1> QED
  BY <1>10 DEF s, k

(* mutex_lock on a list that is not empty, when the walk has reached the   *)
(* last sleeper.                                                           *)
LEMMA PushLast ==
    ASSUME NEW c, NEW h, NEW l, Linked(c, h, l), NEW q \in Queues, NEW t \in TCB, ~On(c, t),
           c[q] # <<>>, NEW z, z = c[q][Len(c[q])]
    PROVE  Linked([c EXCEPT ![q] = Append(c[q], t)], h, [l EXCEPT ![z] = t, ![t] = NULL])
<1> DEFINE s == Append(c[q], t)
           k == [l EXCEPT ![z] = t, ![t] = NULL]
           n == Len(c[q])
<1>1. /\ c[q] \in Seq(TCB) /\ n \in Nat \ {0} /\ z \in TCB /\ n \in 1 .. n
      /\ h \in [Queues -> Pointer] /\ l \in [TCB -> Pointer] /\ h[q] = c[q][1]
  <2>1. c[q] \in Seq(TCB) /\ n \in Nat /\ n # 0 /\ h[q] = c[q][1]
    BY ListFacts
  <2>2. n \in 1 .. n
    BY <2>1
  <2>3. z \in TCB
    BY <2>1, <2>2, ElementOfSeq
  <2> QED
    BY <2>1, <2>2, <2>3 DEF Linked
<1>2. /\ s \in Seq(TCB) /\ Len(s) = n + 1 /\ s # <<>>
      /\ \A i \in 1 .. n : s[i] = c[q][i]
      /\ s[n + 1] = t
  BY <1>1, AppendProperties
<1>3. \A r \in Queues : \A i \in 1 .. Len(c[r]) : c[r][i] # t
  BY DEF On
<1>4. z # t
  BY <1>1, <1>3
<1>5. /\ k \in [TCB -> Pointer] /\ k[t] = NULL /\ k[z] = t
      /\ \A u \in TCB \ {t, z} : k[u] = l[u]
  BY <1>1, <1>4 DEF Pointer
<1> HIDE DEF s, k
<1>6. IsList(s, h[q], k)
  <2>1. h[q] = s[1]
    BY <1>1, <1>2
  <2>2. ASSUME NEW i \in 1 .. Len(s)
        PROVE  k[s[i]] = IF i = Len(s) THEN NULL ELSE s[i + 1]
    <3>1. CASE i = n + 1
      BY <1>2, <1>5, <3>1
    <3>2. CASE i = n
      BY <1>1, <1>2, <1>5, <3>2
    <3>3. CASE i # n /\ i # n + 1
      <4>1. i \in 1 .. n /\ i + 1 \in 1 .. n
        BY <1>1, <1>2, <3>3
      <4>2. c[q][i] \in TCB /\ l[c[q][i]] = c[q][i + 1]
        BY <3>3, <4>1, ListFacts
      <4>3. c[q][i] # z
        BY <1>1, <3>3, <4>1 DEF Linked
      <4> QED
        BY <1>2, <1>3, <1>5, <3>3, <4>1, <4>2, <4>3
    <3> QED
      BY <3>1, <3>2, <3>3
  <2> QED
    BY <1>2, <2>1, <2>2 DEF IsList
<1>7. ASSUME NEW i \in 1 .. Len(s), NEW j \in 1 .. Len(s), s[i] = s[j]
      PROVE  i = j
  <2>1. ASSUME NEW m \in 1 .. Len(s), s[m] = t
        PROVE  m = n + 1
    <3>1. m \in 1 .. n => s[m] # t
      BY <1>2, <1>3
    <3> QED
      BY <1>1, <1>2, <2>1, <3>1
  <2>2. CASE i = n + 1 \/ j = n + 1
    BY <1>2, <1>7, <2>1, <2>2
  <2>3. CASE i # n + 1 /\ j # n + 1
    <3>1. i \in 1 .. n /\ j \in 1 .. n
      BY <1>1, <1>2, <2>3
    <3>2. c[q][i] = c[q][j]
      BY <1>2, <1>7, <3>1
    <3> QED
      BY <3>1, <3>2 DEF Linked
  <2> QED
    BY <2>2, <2>3
<1>8. ASSUME NEW r \in Queues \ {q}, NEW i \in 1 .. Len(c[r])
      PROVE  k[c[r][i]] = l[c[r][i]] /\ \A j \in 1 .. Len(s) : s[j] # c[r][i]
  <2>1. c[r][i] \in TCB /\ c[r][i] # t
    BY <1>3, ListFacts
  <2>2. \A j \in 1 .. n : c[q][j] # c[r][i]
    BY DEF Linked
  <2>3. ASSUME NEW j \in 1 .. Len(s)
        PROVE  s[j] # c[r][i]
    <3>1. j \in 1 .. n \/ j = n + 1
      BY <1>1, <1>2
    <3> QED
      BY <1>2, <2>1, <2>2, <3>1
  <2> QED
    BY <1>1, <1>5, <2>1, <2>2, <2>3
<1>9. ASSUME NEW u \in TCB, ~Elsewhere(c, q, u), ~(\E i \in 1 .. Len(s) : s[i] = u)
      PROVE  k[u] = NULL
  <2>1. ASSUME NEW i \in 1 .. n
        PROVE  c[q][i] # u
    <3>1. i \in 1 .. Len(s) /\ s[i] = c[q][i]
      BY <1>1, <1>2
    <3> QED
      BY <1>9, <3>1
  <2>2. ~On(c, u)
    BY <1>9, <2>1 DEF On, Elsewhere
  <2>3. u # z
    BY <1>1, <2>1
  <2> QED
    BY <1>5, <2>2, <2>3 DEF Linked
<1>10. Relink(c, l, q, s, h[q], k)
  BY <1>1, <1>2, <1>5, <1>6, <1>7, <1>8, <1>9 DEF Relink
<1>11. Linked([c EXCEPT ![q] = s], [h EXCEPT ![q] = h[q]], k)
  BY <1>10, Relinked
<1>12. [h EXCEPT ![q] = h[q]] = h
  BY <1>1
<1> QED
  BY <1>11, <1>12 DEF s, k

(* mutex_unlock, and a turn of dev_update.                                 *)
LEMMA PopFirst ==
    ASSUME NEW c, NEW h, NEW l, Linked(c, h, l), NEW q \in Queues, h[q] # NULL
    PROVE  Linked([c EXCEPT ![q] = Tail(c[q])], [h EXCEPT ![q] = l[h[q]]], [l EXCEPT ![h[q]] = NULL])
<1> DEFINE s == Tail(c[q])
           k == [l EXCEPT ![h[q]] = NULL]
           n == Len(c[q])
<1>1. /\ c[q] \in Seq(TCB) /\ n \in Nat \ {0} /\ c[q] # <<>> /\ 1 \in 1 .. n
      /\ l \in [TCB -> Pointer] /\ h[q] = c[q][1] /\ h[q] \in TCB
  <2>1. c[q] \in Seq(TCB) /\ n \in Nat /\ c[q] # <<>> /\ n # 0 /\ h[q] = c[q][1]
    BY ListFacts
  <2>2. 1 \in 1 .. n
    BY <2>1
  <2>3. h[q] \in TCB
    BY <2>1, <2>2, ElementOfSeq
  <2> QED
    BY <2>1, <2>2, <2>3 DEF Linked
<1>2. /\ s \in Seq(TCB) /\ Len(s) = n - 1
      /\ \A i \in 1 .. n - 1 : s[i] = c[q][i + 1]
  BY <1>1, HeadTailProperties
<1>3. /\ k \in [TCB -> Pointer] /\ k[h[q]] = NULL
      /\ \A u \in TCB \ {h[q]} : k[u] = l[u]
  BY <1>1 DEF Pointer
<1>4. l[h[q]] = IF n = 1 THEN NULL ELSE c[q][2]
  <2>1. PICK j \in 1 .. n : j = 1
    BY <1>1
  <2>2. l[c[q][j]] = IF j = n THEN NULL ELSE c[q][j + 1]
    BY ListFacts
  <2> QED
    BY <1>1, <2>1, <2>2
<1> HIDE DEF s, k
<1>5. \A i \in 1 .. n - 1 : i + 1 \in 1 .. n /\ c[q][i + 1] # h[q]
  <2>1. ASSUME NEW i \in 1 .. n - 1
        PROVE  i + 1 \in 1 .. n /\ c[q][i + 1] # h[q]
    <3>1. i + 1 \in 1 .. n /\ i + 1 # 1
      BY <1>1
    <3>2. c[q][i + 1] = c[q][1] => i + 1 = 1
      BY <1>1, <3>1 DEF Linked
    <3> QED
      BY <1>1, <3>1, <3>2
  <2> QED
    BY <2>1
<1>6. IsList(s, l[h[q]], k)
  <2>1. CASE n = 1
    <3>1. s = <<>>
      BY <1>2, <2>1, EmptySeq
    <3> QED
      BY <1>2, <1>4, <2>1, <3>1 DEF IsList
  <2>2. CASE n # 1
    <3>1. s # <<>> /\ l[h[q]] = s[1]
      <4>1. 1 \in 1 .. n - 1 /\ Len(s) # 0
        <5>1. n \in Nat /\ n # 0 /\ n # 1 /\ Len(s) = n - 1
          BY <1>1, <1>2, <2>2
        <5>2. \A m \in Nat : m # 0 /\ m # 1 => 1 \in 1 .. m - 1 /\ m - 1 # 0
          OBVIOUS
        <5>3. 1 \in 1 .. n - 1 /\ n - 1 # 0
          BY <5>1, <5>2
        <5> QED
          BY <5>1, <5>3
      <4>2. s[1] = c[q][2]
        BY <1>2, <4>1
      <4> QED
        BY <1>4, <2>2, <4>1, <4>2, EmptySeq
    <3>2. ASSUME NEW i \in 1 .. Len(s)
          PROVE  k[s[i]] = IF i = Len(s) THEN NULL ELSE s[i + 1]
      <4>1. i \in 1 .. n - 1
        BY <1>1, <1>2
      <4>2. PICK j \in 1 .. n : j = i + 1 /\ s[i] = c[q][j] /\ c[q][j] # h[q]
        BY <1>2, <1>5, <4>1
      <4>3. i = Len(s) <=> j = n
        BY <1>1, <1>2, <4>1, <4>2
      <4>4. i # Len(s) => s[i + 1] = c[q][j + 1]
        <5>1. i # Len(s) => j \in 1 .. n - 1
          BY <1>1, <1>2, <4>1, <4>2
        <5> QED
          BY <1>2, <4>2, <5>1
      <4>5. c[q][j] \in TCB /\ l[c[q][j]] = IF j = n THEN NULL ELSE c[q][j + 1]
        BY ListFacts
      <4> QED
        BY <1>3, <4>2, <4>3, <4>4, <4>5
    <3> QED
      BY <3>1, <3>2 DEF IsList
  <2> QED
    BY <2>1, <2>2
<1>7. ASSUME NEW i \in 1 .. Len(s), NEW j \in 1 .. Len(s), s[i] = s[j]
      PROVE  i = j
  <2>1. i + 1 \in 1 .. n /\ j + 1 \in 1 .. n /\ c[q][i + 1] = c[q][j + 1]
    BY <1>1, <1>2, <1>7
  <2>2. i + 1 = j + 1
    BY <2>1 DEF Linked
  <2> QED
    BY <1>1, <1>2, <2>2
<1>8. ASSUME NEW r \in Queues \ {q}, NEW i \in 1 .. Len(c[r])
      PROVE  k[c[r][i]] = l[c[r][i]] /\ \A j \in 1 .. Len(s) : s[j] # c[r][i]
  <2>1. c[r][i] \in TCB /\ \A j \in 1 .. n : c[q][j] # c[r][i]
    BY ListFacts DEF Linked
  <2>2. c[r][i] # h[q]
    BY <1>1, <2>1
  <2>3. \A j \in 1 .. Len(s) : s[j] # c[r][i]
    BY <1>2, <1>5, <2>1
  <2> QED
    BY <1>3, <2>1, <2>2, <2>3
<1>9. ASSUME NEW u \in TCB, ~Elsewhere(c, q, u), ~(\E i \in 1 .. Len(s) : s[i] = u)
      PROVE  k[u] = NULL
  <2>1. CASE u = h[q]
    BY <1>3, <2>1
  <2>2. CASE u # h[q]
    <3>1. ASSUME NEW i \in 1 .. n
          PROVE  c[q][i] # u
      <4>1. CASE i = 1
        BY <1>1, <2>2, <4>1
      <4>2. CASE i # 1
        <5>1. i - 1 \in 1 .. n - 1 /\ s[i - 1] = c[q][i]
          BY <1>1, <1>2, <4>2
        <5> QED
          BY <1>2, <1>9, <5>1
      <4> QED
        BY <4>1, <4>2
    <3>2. ~On(c, u)
      BY <1>9, <3>1 DEF On, Elsewhere
    <3> QED
      BY <1>3, <2>2, <3>2 DEF Linked
  <2> QED
    BY <2>1, <2>2
<1>10. l[h[q]] \in Pointer
  BY <1>1
<1>11. Relink(c, l, q, s, l[h[q]], k)
  BY <1>2, <1>3, <1>6, <1>7, <1>8, <1>9, <1>10 DEF Relink
<1>12. Linked([c EXCEPT ![q] = s], [h EXCEPT ![q] = l[h[q]]], k)
  BY <1>11, Relinked
<1> QED
  BY <1>12 DEF s, k
-----------------------------------------------------------------------------
(* The call that is in its loop: mutex_lock has come as far as a TCB of    *)
(* the list, and the TCBs that dev_update has taken off are on no list.    *)
WalkAt(c, h, l, o, t, q, s, p) ==
    /\ o = WalkOf(t, q, s, p)
    /\ ~On(c, t) /\ c[q] # <<>>
    /\ \/ p = NULL /\ s = h[q]
       \/ \E i \in 1 .. Len(c[q]) : p = c[q][i] /\ s = l[p]

DrainAt(c, o, q, given) ==
    /\ o = DrainOf(q, given)
    /\ \A i, j \in 1 .. Len(given) : given[i] = given[j] => i = j
    /\ \A i \in 1 .. Len(given) : ~On(c, given[i])

LoopAt(c, h, l, o) ==
    \/ o = NoLoop
    \/ \E t \in TCB, q \in MutexQueues, s \in Pointer, p \in Pointer : WalkAt(c, h, l, o, t, q, s, p)
    \/ \E q \in DeviceQueues, given \in Seq(TCB) : DrainAt(c, o, q, given)

Realizes(c) == Linked(c, head, link) /\ LoopAt(c, head, link, loop)

QInv == woken \in Seq(TCB) /\ \E c : Realizes(c)

(* The sequences that AbsSleepQueue.tla sees, and its steps on them.       *)
Seen(c, o) == [q \in Queues |-> IF o.in = "dev_update" /\ o.queue = q THEN o.given \o c[q] ELSE c[q]]

AbsStep(a, b, now) ==
    \/ a = b /\ now = woken
    \/ \E t \in TCB, q \in MutexQueues :
         ~On(a, t) /\ b = [a EXCEPT ![q] = Append(@, t)] /\ now = <<>>
    \/ \E t \in TCB, q \in DeviceQueues :
         ~On(a, t) /\ b = [a EXCEPT ![q] = <<t>> \o @] /\ now = <<>>
    \/ \E q \in MutexQueues : a[q] # <<>> /\ b = [a EXCEPT ![q] = Tail(@)] /\ now = <<Head(a[q])>>
    \/ \E q \in DeviceQueues : b = [a EXCEPT ![q] = <<>>] /\ now = a[q]

(* A step from the pointers of c to those of some d, as AbsSleepQueue.tla  *)
(* has it.                                                                 *)
Simulates(c, d) ==
    /\ Linked(d, head', link') /\ LoopAt(d, head', link', loop')
    /\ AbsStep(Seen(c, loop), Seen(d, loop'), woken') /\ woken' \in Seq(TCB)

LEMMA SeenAtRest ==
    ASSUME NEW c \in [Queues -> Seq(TCB)]
    PROVE  /\ Seen(c, NoLoop) = c
           /\ \A t, q, s, p : Seen(c, WalkOf(t, q, s, p)) = c
BY DEF Seen, NoLoop, WalkOf

LEMMA Singleton == ASSUME NEW t \in TCB PROVE <<t>> \in Seq(TCB)
OBVIOUS

LEMMA LockSleeps ==
    ASSUME NEW c, Realizes(c), woken \in Seq(TCB),
           NEW t \in TCB, NEW q \in MutexQueues, MutexLockSleep(t, q)
    PROVE  \E d : Simulates(c, d)
<1>1. /\ Linked(c, head, link) /\ c \in [Queues -> Seq(TCB)] /\ q \in Queues
      /\ loop = NoLoop
  BY DEF Realizes, Linked, Queues, MutexLockSleep, AtRest
<1>2. ~On(c, t)
  <2>1. \A r \in Queues : List(r) = c[r]
    BY <1>1, ListIs DEF List
  <2> QED
    BY <2>1 DEF MutexLockSleep, OnNoList, On
<1>3. CASE head[q] = NULL
  <2> DEFINE d == [c EXCEPT ![q] = <<t>> \o c[q]]
  <2>1. /\ head' = [head EXCEPT ![q] = t] /\ link' = [link EXCEPT ![t] = head[q]]
        /\ woken' = <<>> /\ loop' = NoLoop
    BY <1>1, <1>3 DEF MutexLockSleep
  <2>2. Linked(d, head', link')
    BY <1>1, <1>2, <2>1, PushFirst
  <2>3. c[q] = <<>>
    BY <1>1, <1>3, ListFacts
  <2>4. d = [c EXCEPT ![q] = Append(@, t)]
    <3>1. <<t>> \o c[q] = Append(c[q], t)
      BY <1>1, <2>3, Singleton, ConcatEmptySeq
    <3> QED
      BY <3>1
  <2>5. d \in [Queues -> Seq(TCB)]
    BY <2>2 DEF Linked
  <2> HIDE DEF d
  <2>6. Seen(c, loop) = c /\ Seen(d, loop') = d
    BY <1>1, <2>1, <2>5, SeenAtRest
  <2>7. AbsStep(c, d, woken')
    BY <1>2, <2>1, <2>4 DEF AbsStep
  <2> QED
    BY <2>1, <2>2, <2>6, <2>7, EmptySeq DEF Simulates, LoopAt
<1>4. CASE head[q] # NULL
  <2>1. /\ loop' = WalkOf(t, q, head[q], NULL) /\ UNCHANGED <<head, link, woken>>
    BY <1>4 DEF MutexLockSleep
  <2>2. c[q] # <<>> /\ head[q] \in Pointer /\ NULL \in Pointer
    <3>1. c[q] # <<>>
      BY <1>1, <1>4, ListFacts
    <3>2. head[q] \in Pointer
      BY <1>1 DEF Linked
    <3>3. NULL \in Pointer
      BY DEF Pointer
    <3> QED
      BY <3>1, <3>2, <3>3
  <2>3. WalkAt(c, head, link, loop', t, q, head[q], NULL)
    BY <1>2, <2>1, <2>2 DEF WalkAt
  <2>4. LoopAt(c, head', link', loop')
    BY <2>1, <2>2, <2>3 DEF LoopAt
  <2>5. Seen(c, loop) = c /\ Seen(c, loop') = c
    BY <1>1, <2>1, SeenAtRest
  <2>6. AbsStep(c, c, woken')
    BY <2>1 DEF AbsStep
  <2> QED
    BY <1>1, <2>1, <2>4, <2>5, <2>6 DEF Simulates
<1> QED
  BY <1>3, <1>4

LEMMA Walking ==
    ASSUME NEW c, Realizes(c), loop.in = "mutex_lock"
    PROVE  \E t \in TCB, q \in MutexQueues, s \in Pointer, p \in Pointer :
             WalkAt(c, head, link, loop, t, q, s, p)
BY DEF Realizes, LoopAt, DrainAt, NoLoop, DrainOf

LEMMA LockTurns ==
    ASSUME NEW c, Realizes(c), woken \in Seq(TCB), MutexLockTurn
    PROVE  \E d : Simulates(c, d)
<1>1. PICK t \in TCB, q \in MutexQueues, s \in Pointer, p \in Pointer :
        WalkAt(c, head, link, loop, t, q, s, p)
  BY Walking DEF MutexLockTurn
<1>2. /\ Linked(c, head, link) /\ c \in [Queues -> Seq(TCB)] /\ q \in Queues
      /\ loop = WalkOf(t, q, s, p) /\ ~On(c, t) /\ c[q] # <<>>
  BY <1>1 DEF Realizes, Linked, Queues, WalkAt
<1>3. /\ s # NULL /\ loop' = WalkOf(t, q, link[s], s) /\ UNCHANGED <<head, link, woken>>
  BY <1>2 DEF MutexLockTurn, WalkOf
<1>4. \E j \in 1 .. Len(c[q]) : s = c[q][j]
  <2>1. CASE p = NULL /\ s = head[q]
    BY <1>2, <2>1, ListFacts
  <2>2. ASSUME NEW i \in 1 .. Len(c[q]), p = c[q][i], s = link[p]
        PROVE  \E j \in 1 .. Len(c[q]) : s = c[q][j]
    <3>1. i # Len(c[q]) /\ s = c[q][i + 1]
      BY <1>2, <1>3, <2>2, ListFacts
    <3>2. Len(c[q]) \in Nat
      BY <1>2, ListFacts
    <3>3. i + 1 \in 1 .. Len(c[q])
      BY <3>1, <3>2
    <3> QED
      BY <3>1, <3>3
  <2> QED
    BY <1>1, <2>1, <2>2 DEF WalkAt
<1>5. s \in TCB /\ link[s] \in Pointer
  <2>1. s \in TCB
    BY <1>2, <1>4, ListFacts
  <2> QED
    BY <1>2, <2>1 DEF Linked
<1>6. WalkAt(c, head, link, loop', t, q, link[s], s)
  BY <1>2, <1>3, <1>4 DEF WalkAt
<1>7. LoopAt(c, head', link', loop')
  BY <1>3, <1>5, <1>6 DEF LoopAt
<1>8. Seen(c, loop) = c /\ Seen(c, loop') = c
  BY <1>2, <1>3, SeenAtRest
<1>9. AbsStep(c, c, woken')
  BY <1>3 DEF AbsStep
<1> QED
  BY <1>2, <1>3, <1>7, <1>8, <1>9 DEF Simulates

LEMMA LockLinks ==
    ASSUME NEW c, Realizes(c), woken \in Seq(TCB), MutexLockLinks
    PROVE  \E d : Simulates(c, d)
<1>1. PICK t \in TCB, q \in MutexQueues, s \in Pointer, p \in Pointer :
        WalkAt(c, head, link, loop, t, q, s, p)
  BY Walking DEF MutexLockLinks
<1>2. /\ Linked(c, head, link) /\ c \in [Queues -> Seq(TCB)] /\ q \in Queues
      /\ loop = WalkOf(t, q, s, p) /\ ~On(c, t) /\ c[q] # <<>>
  BY <1>1 DEF Realizes, Linked, Queues, WalkAt
<1>3. /\ s = NULL /\ link' = [link EXCEPT ![p] = t, ![t] = NULL] /\ head' = head
      /\ loop' = NoLoop /\ woken' = <<>>
  BY <1>2 DEF MutexLockLinks, WalkOf
<1>4. PICK i \in 1 .. Len(c[q]) : p = c[q][i] /\ link[p] = NULL
  <2>1. head[q] # NULL
    BY <1>2, ListFacts
  <2> QED
    BY <1>1, <1>3, <2>1 DEF WalkAt
<1>5. p = c[q][Len(c[q])]
  <2>1. ASSUME i # Len(c[q])
        PROVE  FALSE
    <3>1. link[p] = c[q][i + 1]
      BY <1>2, <1>4, <2>1, ListFacts
    <3>2. Len(c[q]) \in Nat
      BY <1>2, ListFacts
    <3>3. i + 1 \in 1 .. Len(c[q])
      BY <2>1, <3>2
    <3>4. c[q][i + 1] \in TCB
      BY <1>2, <3>3, ListFacts
    <3> QED
      BY <1>4, <3>1, <3>4, TCBAssumption, NullAssumption
  <2> QED
    BY <1>4, <2>1
<1> DEFINE d == [c EXCEPT ![q] = Append(c[q], t)]
<1>6. Linked(d, head', link')
  BY <1>2, <1>3, <1>5, PushLast
<1>7. d \in [Queues -> Seq(TCB)]
  BY <1>6 DEF Linked
<1>8. d = [c EXCEPT ![q] = Append(@, t)]
  OBVIOUS
<1> HIDE DEF d
<1>9. Seen(c, loop) = c /\ Seen(d, loop') = d
  <2>1. Seen(c, loop) = c
    BY <1>2, SeenAtRest
  <2>2. Seen(d, loop') = d
    BY <1>3, <1>7, SeenAtRest
  <2> QED
    BY <2>1, <2>2
<1>10. AbsStep(c, d, woken')
  BY <1>2, <1>3, <1>8 DEF AbsStep
<1> QED
  BY <1>3, <1>6, <1>9, <1>10, EmptySeq DEF Simulates, LoopAt

LEMMA UnlockWakes ==
    ASSUME NEW c, Realizes(c), woken \in Seq(TCB), NEW q \in MutexQueues, MutexUnlock(q)
    PROVE  \E d : Simulates(c, d)
<1>1. /\ Linked(c, head, link) /\ c \in [Queues -> Seq(TCB)] /\ q \in Queues
      /\ loop = NoLoop
  BY DEF Realizes, Linked, Queues, MutexUnlock, AtRest
<1>2. /\ head[q] # NULL /\ head' = [head EXCEPT ![q] = link[head[q]]]
      /\ link' = [link EXCEPT ![head[q]] = NULL] /\ woken' = <<head[q]>> /\ loop' = NoLoop
  BY <1>1 DEF MutexUnlock
<1> DEFINE d == [c EXCEPT ![q] = Tail(c[q])]
<1>3. Linked(d, head', link')
  BY <1>1, <1>2, PopFirst
<1>4. d \in [Queues -> Seq(TCB)]
  BY <1>3 DEF Linked
<1>5. d = [c EXCEPT ![q] = Tail(@)]
  OBVIOUS
<1> HIDE DEF d
<1>6. c[q] # <<>> /\ head[q] = Head(c[q])
  BY <1>1, <1>2, ListFacts
<1>7. woken' \in Seq(TCB)
  <2>1. head[q] \in TCB
    BY <1>1, <1>6, HeadTailProperties
  <2> QED
    BY <1>2, <2>1, Singleton
<1>8. Seen(c, loop) = c /\ Seen(d, loop') = d
  BY <1>1, <1>2, <1>4, SeenAtRest
<1>9. AbsStep(c, d, woken')
  BY <1>2, <1>5, <1>6 DEF AbsStep
<1> QED
  BY <1>2, <1>3, <1>7, <1>8, <1>9 DEF Simulates, LoopAt

LEMMA WaitSleeps ==
    ASSUME NEW c, Realizes(c), woken \in Seq(TCB),
           NEW t \in TCB, NEW q \in DeviceQueues, DevWait(t, q)
    PROVE  \E d : Simulates(c, d)
<1>1. /\ Linked(c, head, link) /\ c \in [Queues -> Seq(TCB)] /\ q \in Queues
      /\ loop = NoLoop
  BY DEF Realizes, Linked, Queues, DevWait, AtRest
<1>2. ~On(c, t)
  <2>1. \A r \in Queues : List(r) = c[r]
    BY <1>1, ListIs DEF List
  <2> QED
    BY <2>1 DEF DevWait, OnNoList, On
<1>3. /\ head' = [head EXCEPT ![q] = t] /\ link' = [link EXCEPT ![t] = head[q]]
      /\ woken' = <<>> /\ loop' = NoLoop
  BY <1>1 DEF DevWait
<1> DEFINE d == [c EXCEPT ![q] = <<t>> \o c[q]]
<1>4. Linked(d, head', link')
  BY <1>1, <1>2, <1>3, PushFirst
<1>5. d \in [Queues -> Seq(TCB)]
  BY <1>4 DEF Linked
<1>6. d = [c EXCEPT ![q] = <<t>> \o @]
  OBVIOUS
<1> HIDE DEF d
<1>7. Seen(c, loop) = c /\ Seen(d, loop') = d
  BY <1>1, <1>3, <1>5, SeenAtRest
<1>8. AbsStep(c, d, woken')
  BY <1>2, <1>3, <1>6 DEF AbsStep
<1> QED
  BY <1>3, <1>4, <1>7, <1>8, EmptySeq DEF Simulates, LoopAt

LEMMA Draining ==
    ASSUME NEW c, Realizes(c), loop.in = "dev_update"
    PROVE  \E q \in DeviceQueues, given \in Seq(TCB) : DrainAt(c, loop, q, given)
BY DEF Realizes, LoopAt, WalkAt, NoLoop, WalkOf

LEMMA SeenDraining ==
    ASSUME NEW c, NEW q, NEW given, NEW o, o = DrainOf(q, given)
    PROVE  Seen(c, o) = [r \in Queues |-> IF r = q THEN given \o c[r] ELSE c[r]]
BY DEF Seen, DrainOf

LEMMA UpdateStarts ==
    ASSUME NEW c, Realizes(c), woken \in Seq(TCB), NEW q \in DeviceQueues, DevUpdate(q)
    PROVE  \E d : Simulates(c, d)
<1>1. /\ Linked(c, head, link) /\ c \in [Queues -> Seq(TCB)] /\ q \in Queues
      /\ loop = NoLoop /\ loop' = DrainOf(q, <<>>) /\ UNCHANGED <<head, link, woken>>
  BY DEF Realizes, Linked, Queues, DevUpdate, AtRest
<1>2. <<>> \in Seq(TCB) /\ Len(<<>>) = 0
  BY EmptySeq
<1>3. DrainAt(c, loop', q, <<>>)
  BY <1>1, <1>2 DEF DrainAt
<1>4. LoopAt(c, head', link', loop')
  BY <1>2, <1>3 DEF LoopAt
<1>5. Seen(c, loop) = c
  BY <1>1, SeenAtRest
<1>6. Seen(c, loop') = c
  <2>1. \A r \in Queues : <<>> \o c[r] = c[r]
    BY <1>1, ConcatEmptySeq
  <2>2. Seen(c, loop') = [r \in Queues |-> IF r = q THEN <<>> \o c[r] ELSE c[r]]
    BY <1>1, SeenDraining
  <2> QED
    BY <1>1, <2>1, <2>2
<1>7. AbsStep(c, c, woken')
  BY <1>1 DEF AbsStep
<1> QED
  BY <1>1, <1>4, <1>5, <1>6, <1>7 DEF Simulates

LEMMA MovedFirst ==
    ASSUME NEW g \in Seq(TCB), NEW s \in Seq(TCB), s # <<>>
    PROVE  Append(g, Head(s)) \o Tail(s) = g \o s
<1>1. Head(s) \in TCB /\ Tail(s) \in Seq(TCB) /\ <<Head(s)>> \in Seq(TCB)
  BY HeadTailProperties, Singleton
<1>2. Append(g, Head(s)) = g \o <<Head(s)>>
  BY <1>1, AppendIsConcat
<1>3. <<Head(s)>> \o Tail(s) = s
  <2>1. Len(s) \in Nat /\ 1 \in 1 .. Len(s) /\ Len(s) \in 1 .. Len(s) /\ Head(s) = s[1]
    BY EmptySeq
  <2>2. SubSeq(s, 1, Len(s)) = <<s[1]>> \o SubSeq(s, 1 + 1, Len(s))
    BY <2>1, SubSeqRecursiveFirst
  <2>3. SubSeq(s, 1, Len(s)) = s /\ Tail(s) = SubSeq(s, 2, Len(s))
    BY SubSeqFull, TailIsSubSeq
  <2> QED
    BY <2>1, <2>2, <2>3
<1> QED
  BY <1>1, <1>2, <1>3, ConcatAssociative

LEMMA UpdateTurns ==
    ASSUME NEW c, Realizes(c), woken \in Seq(TCB), DevUpdateTurn
    PROVE  \E d : Simulates(c, d)
<1>1. PICK q \in DeviceQueues, given \in Seq(TCB) : DrainAt(c, loop, q, given)
  BY Draining DEF DevUpdateTurn
<1>2. /\ Linked(c, head, link) /\ c \in [Queues -> Seq(TCB)] /\ q \in Queues
      /\ loop = DrainOf(q, given)
      /\ \A i, j \in 1 .. Len(given) : given[i] = given[j] => i = j
      /\ \A i \in 1 .. Len(given) : ~On(c, given[i])
  BY <1>1 DEF Realizes, Linked, Queues, DrainAt
<1>3. /\ head[q] # NULL /\ loop' = DrainOf(q, Append(given, head[q]))
      /\ head' = [head EXCEPT ![q] = link[head[q]]]
      /\ link' = [link EXCEPT ![head[q]] = NULL] /\ woken' = woken
  BY <1>2 DEF DevUpdateTurn, DrainOf
<1>4. c[q] # <<>> /\ head[q] = Head(c[q]) /\ 1 \in 1 .. Len(c[q]) /\ head[q] = c[q][1]
  BY <1>2, <1>3, ListFacts
<1>5. c[q] \in Seq(TCB) /\ head[q] \in TCB /\ Tail(c[q]) \in Seq(TCB)
      /\ Append(given, head[q]) \in Seq(TCB)
  <2>1. c[q] \in Seq(TCB)
    BY <1>2
  <2>2. head[q] \in TCB /\ Tail(c[q]) \in Seq(TCB)
    BY <2>1, <1>4, HeadTailProperties
  <2> QED
    BY <2>1, <2>2, AppendProperties
<1> DEFINE d == [c EXCEPT ![q] = Tail(c[q])]
           more == Append(given, head[q])
<1>6. Linked(d, head', link')
  BY <1>2, <1>3, PopFirst
<1>7. d \in [Queues -> Seq(TCB)] /\ d[q] = Tail(c[q]) /\ \A r \in Queues \ {q} : d[r] = c[r]
  BY <1>2, <1>6 DEF Linked
<1> HIDE DEF d
<1>8. On(c, head[q]) /\ ~On(d, head[q]) /\ \A t : On(d, t) => On(c, t)
  <2>1. On(c, head[q])
    BY <1>2, <1>4 DEF On
  <2>2. Len(c[q]) \in Nat /\ Len(Tail(c[q])) = Len(c[q]) - 1
        /\ \A i \in 1 .. Len(Tail(c[q])) : Tail(c[q])[i] = c[q][i + 1]
    BY <1>4, <1>5, LenProperties, HeadTailProperties
  <2>3. ASSUME NEW i \in 1 .. Len(d[q])
        PROVE  \E j \in 1 .. Len(c[q]) : j # 1 /\ d[q][i] = c[q][j]
    <3>1. i + 1 \in 1 .. Len(c[q]) /\ i + 1 # 1 /\ d[q][i] = c[q][i + 1]
      BY <1>7, <2>2
    <3> QED
      BY <3>1
  <2>4. ASSUME NEW t, NEW r \in Queues, NEW i \in 1 .. Len(d[r]), d[r][i] = t
        PROVE  On(c, t) /\ t # head[q]
    <3>1. CASE r = q
      <4>1. PICK j \in 1 .. Len(c[q]) : j # 1 /\ t = c[q][j]
        BY <2>3, <2>4, <3>1
      <4>2. t # head[q]
        BY <1>2, <1>4, <4>1 DEF Linked
      <4> QED
        BY <1>2, <4>1, <4>2 DEF On
    <3>2. CASE r # q
      <4>1. c[r][i] = t /\ i \in 1 .. Len(c[r])
        BY <1>7, <2>4, <3>2
      <4>2. t # head[q]
        BY <1>2, <1>4, <3>2, <4>1 DEF Linked
      <4> QED
        BY <4>1, <4>2 DEF On
    <3> QED
      BY <3>1, <3>2
  <2> QED
    BY <2>1, <2>4 DEF On
<1>9. /\ Len(given) \in Nat /\ Len(more) = Len(given) + 1
      /\ \A i \in 1 .. Len(given) : more[i] = given[i]
      /\ more[Len(given) + 1] = head[q]
  BY <1>5, LenProperties, AppendProperties
<1> HIDE DEF more
<1>10. \A i \in 1 .. Len(more) : i \in 1 .. Len(given) \/ i = Len(more)
  BY <1>9
<1>11. \A i \in 1 .. Len(given) : more[i] # head[q]
  BY <1>2, <1>8, <1>9
<1>12. \A i, j \in 1 .. Len(more) : more[i] = more[j] => i = j
  BY <1>2, <1>9, <1>10, <1>11
<1>13. \A i \in 1 .. Len(more) : ~On(d, more[i])
  BY <1>2, <1>8, <1>9, <1>10
<1>14. LoopAt(d, head', link', loop')
  <2>1. more \in Seq(TCB) /\ loop' = DrainOf(q, more)
    BY <1>3, <1>5 DEF more
  <2>2. DrainAt(d, loop', q, more)
    BY <1>12, <1>13, <2>1 DEF DrainAt
  <2> QED
    BY <2>1, <2>2 DEF LoopAt
<1>15. Seen(c, loop) = Seen(d, loop')
  <2>1. more \o d[q] = given \o c[q]
    BY <1>4, <1>5, <1>7, MovedFirst DEF more
  <2>2. Seen(c, loop) = [r \in Queues |-> IF r = q THEN given \o c[r] ELSE c[r]]
    BY <1>2, SeenDraining
  <2>3. loop' = DrainOf(q, more)
    BY <1>3 DEF more
  <2>4. Seen(d, loop') = [r \in Queues |-> IF r = q THEN more \o d[r] ELSE d[r]]
    BY <2>3, SeenDraining
  <2> QED
    BY <1>7, <2>1, <2>2, <2>4
<1>16. AbsStep(Seen(c, loop), Seen(d, loop'), woken')
  BY <1>3, <1>15 DEF AbsStep
<1> QED
  BY <1>3, <1>6, <1>14, <1>16 DEF Simulates

LEMMA UpdateEnds ==
    ASSUME NEW c, Realizes(c), woken \in Seq(TCB), DevUpdateEnds
    PROVE  \E d : Simulates(c, d)
<1>1. PICK q \in DeviceQueues, given \in Seq(TCB) : DrainAt(c, loop, q, given)
  BY Draining DEF DevUpdateEnds
<1>2. /\ Linked(c, head, link) /\ c \in [Queues -> Seq(TCB)] /\ q \in Queues
      /\ loop = DrainOf(q, given)
  BY <1>1 DEF Realizes, Linked, Queues, DrainAt
<1>3. head[q] = NULL /\ loop' = NoLoop /\ woken' = given /\ UNCHANGED <<head, link>>
  BY <1>2 DEF DevUpdateEnds, DrainOf
<1>4. c[q] = <<>>
  BY <1>2, <1>3, ListFacts
<1> DEFINE a == Seen(c, loop)
<1>5. a = [r \in Queues |-> IF r = q THEN given \o c[r] ELSE c[r]]
  BY <1>2, SeenDraining
<1>6. given \o c[q] = given
  BY <1>4, ConcatEmptySeq
<1> HIDE DEF a
<1>7. a[q] = given /\ c = [a EXCEPT ![q] = <<>>]
  BY <1>2, <1>4, <1>5, <1>6
<1>8. AbsStep(a, c, woken')
  BY <1>3, <1>7 DEF AbsStep
<1>9. Seen(c, loop') = c
  BY <1>2, <1>3, SeenAtRest
<1> QED
  BY <1>2, <1>3, <1>8, <1>9 DEF Simulates, LoopAt, a
-----------------------------------------------------------------------------
LEMMA QInvInit == Init => QInv
<1> SUFFICES ASSUME Init
             PROVE  QInv
  OBVIOUS
<1> DEFINE c == [q \in Queues |-> <<>>]
<1>1. /\ c \in [Queues -> Seq(TCB)] /\ \A q \in Queues : c[q] = <<>>
      /\ <<>> \in Seq(TCB) /\ Len(<<>>) = 0
  BY EmptySeq
<1> HIDE DEF c
<1>2. Linked(c, head, link)
  BY <1>1 DEF Init, Linked, IsList, Pointer
<1>3. Realizes(c)
  BY <1>2 DEF Init, Realizes, LoopAt
<1> QED
  BY <1>1, <1>3 DEF Init, QInv

(* Each step of the code is a step of the sequences, or leaves them alone. *)
LEMMA EveryStep ==
    ASSUME NEW c, Realizes(c), woken \in Seq(TCB), [Next]_vars
    PROVE  \E d : Simulates(c, d)
<1>1. CASE \E t \in TCB, q \in MutexQueues : MutexLockSleep(t, q)
  BY <1>1, LockSleeps
<1>2. CASE MutexLockTurn
  BY <1>2, LockTurns
<1>3. CASE MutexLockLinks
  BY <1>3, LockLinks
<1>4. CASE \E q \in MutexQueues : MutexUnlock(q)
  BY <1>4, UnlockWakes
<1>5. CASE \E t \in TCB, q \in DeviceQueues : DevWait(t, q)
  BY <1>5, WaitSleeps
<1>6. CASE \E q \in DeviceQueues : DevUpdate(q)
  BY <1>6, UpdateStarts
<1>7. CASE DevUpdateTurn
  BY <1>7, UpdateTurns
<1>8. CASE DevUpdateEnds
  BY <1>8, UpdateEnds
<1>9. CASE UNCHANGED vars
  <2>1. UNCHANGED <<head, link, loop, woken>>
    BY <1>9 DEF vars
  <2>2. AbsStep(Seen(c, loop), Seen(c, loop'), woken')
    BY <2>1 DEF AbsStep
  <2> QED
    BY <2>1, <2>2 DEF Simulates, Realizes
<1> QED
  BY <1>1, <1>2, <1>3, <1>4, <1>5, <1>6, <1>7, <1>8, <1>9 DEF Next

LEMMA QInvNext == QInv /\ [Next]_vars => QInv'
<1> SUFFICES ASSUME QInv, [Next]_vars
             PROVE  QInv'
  OBVIOUS
<1>1. PICK c : Realizes(c)
  BY DEF QInv
<1>2. PICK d : Simulates(c, d)
  BY <1>1, EveryStep DEF QInv
<1> QED
  BY <1>2 DEF Simulates, QInv, Realizes

LEMMA QInvHolds == Spec => []QInv
BY QInvInit, QInvNext, PTL DEF Spec

(* A TCB that links on is on a list, followed by the one it links to.      *)
LEMMA LinksOn ==
    ASSUME NEW c, Linked(c, head, link), NEW t \in TCB, link[t] # NULL
    PROVE  \E q \in Queues : \E i, j \in 1 .. Len(c[q]) :
             j = i + 1 /\ t = c[q][i] /\ link[t] = c[q][j]
<1>1. PICK q \in Queues : \E i \in 1 .. Len(c[q]) : c[q][i] = t
  BY DEF Linked, On
<1>2. PICK i \in 1 .. Len(c[q]) : c[q][i] = t
  BY <1>1
<1>3. i # Len(c[q]) /\ link[t] = c[q][i + 1]
  BY <1>2, ListFacts
<1>4. Len(c[q]) \in Nat
  BY ListFacts
<1>5. PICK j \in 1 .. Len(c[q]) : j = i + 1
  BY <1>3, <1>4
<1> QED
  BY <1>2, <1>3, <1>5

LEMMA QInvTypeOK == QInv => TypeOK
<1> SUFFICES ASSUME QInv
             PROVE  TypeOK
  OBVIOUS
<1>1. PICK c : Realizes(c)
  BY DEF QInv
<1>2. head \in [Queues -> Pointer] /\ link \in [TCB -> Pointer]
  BY <1>1 DEF Realizes, Linked
<1>3. loop \in {NoLoop}
        \cup {WalkOf(t, q, s, p) : t \in TCB, q \in MutexQueues, s \in Pointer, p \in Pointer}
        \cup {DrainOf(q, given) : q \in DeviceQueues, given \in ListOfTCB}
  <2>1. CASE loop = NoLoop
    BY <2>1
  <2>2. ASSUME NEW t \in TCB, NEW q \in MutexQueues, NEW s \in Pointer, NEW p \in Pointer,
               WalkAt(c, head, link, loop, t, q, s, p)
        PROVE  loop \in {WalkOf(tt, qq, ss, pp) :
                           tt \in TCB, qq \in MutexQueues, ss \in Pointer, pp \in Pointer}
    BY <2>2 DEF WalkAt
  <2>3. ASSUME NEW q \in DeviceQueues, NEW given \in Seq(TCB), DrainAt(c, loop, q, given)
        PROVE  loop \in {DrainOf(qq, gg) : qq \in DeviceQueues, gg \in ListOfTCB}
    <3>1. given \in ListOfTCB
      BY <2>3, NoLonger DEF DrainAt
    <3> QED
      BY <2>3, <3>1 DEF DrainAt
  <2> QED
    BY <1>1, <2>1, <2>2, <2>3 DEF Realizes, LoopAt
<1> QED
  BY <1>2, <1>3 DEF TypeOK, QInv

LEMMA QInvDisjoint == QInv => Disjoint
<1> SUFFICES ASSUME QInv
             PROVE  Disjoint
  OBVIOUS
<1>1. PICK c : Linked(c, head, link)
  BY DEF QInv, Realizes
<1>2. \A q \in Queues, r \in Queues : \A i \in 1 .. Len(c[q]), j \in 1 .. Len(c[r]) :
         c[q][i] = c[r][j] => q = r /\ i = j
  BY <1>1 DEF Linked
<1>3. ASSUME NEW q \in Queues, head[q] # NULL
      PROVE  \E i \in 1 .. Len(c[q]) : i = 1 /\ head[q] = c[q][i]
  BY <1>1, <1>3, ListFacts
<1>4. ASSUME NEW q \in Queues, NEW r \in Queues, head[q] # NULL, head[q] = head[r]
      PROVE  q = r
  BY <1>2, <1>3, <1>4
<1>5. ASSUME NEW t \in TCB, NEW u \in TCB, link[t] # NULL, link[t] = link[u]
      PROVE  t = u
  <2>1. PICK q \in Queues : \E i, j \in 1 .. Len(c[q]) :
             j = i + 1 /\ t = c[q][i] /\ link[t] = c[q][j]
    BY <1>1, <1>5, LinksOn
  <2>2. PICK r \in Queues : \E i, j \in 1 .. Len(c[r]) :
             j = i + 1 /\ u = c[r][i] /\ link[u] = c[r][j]
    BY <1>1, <1>5, LinksOn
  <2>3. PICK i \in 1 .. Len(c[q]), j \in 1 .. Len(c[q]) :
             j = i + 1 /\ t = c[q][i] /\ link[t] = c[q][j]
    BY <2>1
  <2>4. PICK m \in 1 .. Len(c[r]), n \in 1 .. Len(c[r]) :
             n = m + 1 /\ u = c[r][m] /\ link[u] = c[r][n]
    BY <2>2
  <2>5. q = r /\ j = n
    BY <1>2, <1>5, <2>3, <2>4
  <2>6. i = m
    BY <2>3, <2>4, <2>5
  <2> QED
    BY <2>3, <2>4, <2>5, <2>6
<1>6. ASSUME NEW t \in TCB, NEW q \in Queues, link[t] # NULL, link[t] = head[q]
      PROVE  FALSE
  <2>1. PICK r \in Queues : \E i, j \in 1 .. Len(c[r]) :
             j = i + 1 /\ t = c[r][i] /\ link[t] = c[r][j]
    BY <1>1, <1>6, LinksOn
  <2>2. PICK i \in 1 .. Len(c[r]), j \in 1 .. Len(c[r]) : j = i + 1 /\ link[t] = c[r][j]
    BY <2>1
  <2>3. PICK m \in 1 .. Len(c[q]) : m = 1 /\ head[q] = c[q][m]
    BY <1>3, <1>6
  <2>4. j = m
    <3>1. c[r][j] = c[q][m]
      BY <1>6, <2>2, <2>3
    <3> QED
      BY <1>2, <3>1
  <2> QED
    BY <2>2, <2>3, <2>4
<1>7. ASSUME NEW t \in TCB, OnNoList(t)
      PROVE  link[t] = NULL /\ \A u \in TCB : link[u] # t
  <2>1. \A q \in Queues : List(q) = c[q]
    BY <1>1, ListIs DEF List
  <2>2. ~On(c, t)
    BY <1>7, <2>1 DEF OnNoList, On
  <2>3. ASSUME NEW u \in TCB, link[u] = t
        PROVE  FALSE
    <3>1. link[u] # NULL
      BY <2>3, TCBAssumption, NullAssumption
    <3>2. PICK q \in Queues : \E i, j \in 1 .. Len(c[q]) : link[u] = c[q][j]
      BY <1>1, <3>1, LinksOn
    <3> QED
      BY <2>2, <2>3, <3>2 DEF On
  <2> QED
    BY <1>1, <2>2, <2>3 DEF Linked
<1> QED
  BY <1>4, <1>5, <1>6, <1>7 DEF Disjoint
-----------------------------------------------------------------------------
(* The pointers and the loop have their types: the lists of sleepers that  *)
(* mutex_lock walks and dev_update drains are never longer than there are  *)
(* TCBs.                                                                   *)
THEOREM PointersTyped == Spec => []TypeOK
BY QInvHolds, QInvTypeOK, PTL

(* Mutexes and devices never share a sleeper: no TCB is linked from two    *)
(* places, at any point of the loops of mutex_lock and dev_update.         *)
THEOREM ListsDisjoint == Spec => []Disjoint
BY QInvHolds, QInvDisjoint, PTL

LEMMA SeenIs ==
    ASSUME NEW c, NEW h, NEW l, NEW o, Linked(c, h, l)
    PROVE  Seen(c, o) = [q \in Queues |->
             IF o.in = "dev_update" /\ o.queue = q
             THEN o.given \o (CHOOSE s \in ListOfTCB : IsList(s, h[q], l))
             ELSE CHOOSE s \in ListOfTCB : IsList(s, h[q], l)]
<1>1. \A q \in Queues : (CHOOSE s \in ListOfTCB : IsList(s, h[q], l)) = c[q]
  BY ListIs
<1> QED
  BY <1>1 DEF Seen

LEMMA AbsStepIs ==
    ASSUME NEW a, a = [q \in Queues |-> Asleep(q)],
           NEW b, b = [q \in Queues |-> Asleep(q)'], AbsStep(a, b, woken')
    PROVE  [Abs!Next]_<<[q \in Queues |-> Asleep(q)], woken>>
<1> DEFINE queue == [q \in Queues |-> Asleep(q)]
<1>1. queue = a /\ queue' = b
  OBVIOUS
<1> HIDE DEF queue
<1>2. \A t : ~On(a, t) => \A q \in Queues : \A i \in 1 .. Len(queue[q]) : queue[q][i] # t
  BY <1>1 DEF On
<1>3. CASE a = b /\ woken' = woken
  BY <1>1, <1>3 DEF queue
<1>4. ASSUME NEW t \in TCB, NEW q \in MutexQueues,
             ~On(a, t), b = [a EXCEPT ![q] = Append(@, t)], woken' = <<>>
      PROVE  Abs!SleepLast(t, q)
  BY <1>1, <1>2, <1>4 DEF Abs!SleepLast, Abs!Free, Abs!Queues, Queues, queue
<1>5. ASSUME NEW t \in TCB, NEW q \in DeviceQueues,
             ~On(a, t), b = [a EXCEPT ![q] = <<t>> \o @], woken' = <<>>
      PROVE  Abs!SleepFirst(t, q)
  BY <1>1, <1>2, <1>5 DEF Abs!SleepFirst, Abs!Free, Abs!Queues, Queues, queue
<1>6. ASSUME NEW q \in MutexQueues,
             a[q] # <<>>, b = [a EXCEPT ![q] = Tail(@)], woken' = <<Head(a[q])>>
      PROVE  Abs!WakeFirst(q)
  BY <1>1, <1>6 DEF Abs!WakeFirst, queue
<1>7. ASSUME NEW q \in DeviceQueues, b = [a EXCEPT ![q] = <<>>], woken' = a[q]
      PROVE  Abs!WakeAll(q)
  BY <1>1, <1>7 DEF Abs!WakeAll, queue
<1> QED
  BY <1>3, <1>4, <1>5, <1>6, <1>7 DEF AbsStep, Abs!Next

(* The lists of device.c and mutex.c are the queues that the rest of the   *)
(* kernel takes them for: a mutex wakes its sleepers in the order in which *)
(* they came, a device all at once, and none is dropped.                   *)
THEOREM ListsImplementSequences == Spec => ListsAreSequences
<1>1. Init => Abs!Init
  <2> SUFFICES ASSUME Init
               PROVE  Abs!Init
    OBVIOUS
  <2> DEFINE c == [q \in Queues |-> <<>>]
  <2>1. /\ c \in [Queues -> Seq(TCB)] /\ \A q \in Queues : c[q] = <<>>
        /\ <<>> \in Seq(TCB) /\ Len(<<>>) = 0
    BY EmptySeq
  <2> HIDE DEF c
  <2>2. Linked(c, head, link)
    BY <2>1 DEF Init, Linked, IsList, Pointer
  <2>3. \A q \in Queues : List(q) = <<>>
    BY <2>1, <2>2, ListIs DEF List
  <2>4. \A q \in Queues : Asleep(q) = <<>>
    BY <2>3 DEF Asleep, Init, NoLoop
  <2> QED
    BY <2>4 DEF Abs!Init, Abs!Queues, Queues, Init
<1>2. QInv /\ [Next]_vars => [Abs!Next]_<<[q \in Queues |-> Asleep(q)], woken>>
  <2> SUFFICES ASSUME QInv, [Next]_vars
               PROVE  [Abs!Next]_<<[q \in Queues |-> Asleep(q)], woken>>
    OBVIOUS
  <2>1. PICK c : Realizes(c)
    BY DEF QInv
  <2>2. PICK d : Simulates(c, d)
    BY <2>1, EveryStep DEF QInv
  <2>3. Seen(c, loop) = [q \in Queues |-> Asleep(q)]
    BY <2>1, SeenIs DEF Realizes, Asleep, List
  <2>4. Seen(d, loop') = [q \in Queues |-> Asleep(q)']
    BY <2>2, SeenIs DEF Simulates, Asleep, List
  <2> QED
    BY <2>2, <2>3, <2>4, AbsStepIs DEF Simulates
<1> QED
  BY <1>1, <1>2, QInvHolds, PTL DEF Spec, ListsAreSequences, Abs!Spec
=============================================================================
