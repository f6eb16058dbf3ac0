---------------------------- MODULE KernelProofs ----------------------------
(***************************************************************************)
(* Theorems about the kernel, for every number of priorities, tasks,       *)
(* mutexes and devices, every clock and every handler.                     *)
(*                                                                         *)
(* The first part is about the pieces of a step - waking, sleeping, giving *)
(* the processor away - and one invariant: every created task is in one    *)
(* place.  It is stated for any queue, current task and sleep queues, so   *)
(* that it can be followed through the intermediate states of an action.   *)
(***************************************************************************)
EXTENDS Kernel, RunQueueLemmas

QueueOK(q) == q \in RunQueueType /\ BitsMatchSlots(q)

SleepersType == [SleepQueues -> Seq(TCB)]

SleepsIn(t, w, sq) == \E i \in 1 .. Len(sq[w]) : sq[w][i] = t

(* OnePlace of the created tasks C, run queue q, current task cur and      *)
(* sleep queues sq, in four parts.                                         *)
OwnSlots(q) == \A p \in Prio : q.run_list[p] \in {NULL, p}

CurNotReady(q, cur) == cur # NULL => q.run_list[cur] = NULL

SleepersApart(q, cur, sq) ==
    \A w \in SleepQueues : \A i \in 1 .. Len(sq[w]) :
        /\ sq[w][i] # cur
        /\ q.run_list[sq[w][i]] = NULL
        /\ \A v \in SleepQueues : \A j \in 1 .. Len(sq[v]) :
             sq[w][i] = sq[v][j] => w = v /\ i = j

Somewhere(C, q, cur, sq) ==
    \A t \in TCB : t \in C <=> \/ t = cur
                               \/ q.run_list[t] # NULL
                               \/ \E w \in SleepQueues : SleepsIn(t, w, sq)

Placed(C, q, cur, sq) == /\ OwnSlots(q)
                         /\ CurNotReady(q, cur)
                         /\ SleepersApart(q, cur, sq)
                         /\ Somewhere(C, q, cur, sq)

CreatedTasks == {t \in TCB : Created(t)}

LEMMA PlacedIsOnePlace ==
    OnePlace <=> Placed(CreatedTasks, rq, cur_tcb, sleep_queue)
BY DEF OnePlace, InOwnSlot, NowhereTwice, SomewhereIffCreated, Placed, OwnSlots,
       CurNotReady, SleepersApart, Somewhere, SleepsIn, Asleep, CreatedTasks

-----------------------------------------------------------------------------
(* Taking the most urgent task empties one slot and hands out its task.    *)
LEMMA TakeFacts ==
    ASSUME NEW q, QueueOK(q)
    PROVE  /\ highest_prio(q) \in Prio
           /\ QueueOK(take_highest(q).rq)
           /\ take_highest(q).rq.run_list = [q.run_list EXCEPT ![highest_prio(q)] = NULL]
           /\ take_highest(q).cur_tcb = q.run_list[highest_prio(q)]
           /\ take_highest(q).cur_tcb \in TCB \cup {NULL}
<1>1. q \in RunQueueType /\ BitsMatchSlots(q)
  BY DEF QueueOK
<1>2. highest_prio(q) \in Prio
  BY <1>1, HighestIsSlot
<1> QED
  BY <1>1, <1>2, RemoveType, RemoveKeepsBits DEF take_highest, QueueOK, RunQueueType

(* Waking every sleeper of a set D of objects moves them, and nobody else, *)
(* to their own slots.                                                     *)
Drained(sq, D) == [w \in SleepQueues |-> IF w \in D THEN <<>> ELSE sq[w]]

LEMMA WakeAllPlaced ==
    ASSUME NEW C \in SUBSET TCB, NEW q, NEW cur \in TCB \cup {NULL}, NEW sq \in SleepersType,
           QueueOK(q), Placed(C, q, cur, sq),
           NEW D \in SUBSET SleepQueues, NEW T,
           T = {t \in TCB : \E w \in D : SleepsIn(t, w, sq)},
           NEW prio, \A t \in C : prio[t] = t
    PROVE  /\ QueueOK(runqueue_add_all(q, T, prio))
           /\ Placed(C, runqueue_add_all(q, T, prio), cur, Drained(sq, D))
<1> DEFINE new  == runqueue_add_all(q, T, prio)
           left == Drained(sq, D)
<1>1. T \in SUBSET TCB /\ \A t \in T : t \in C
  BY DEF Placed, Somewhere
<1>2. \A t \in T : t \in Prio /\ prio[t] = t
  BY <1>1, SystemTcbAssumption
<1>3. QueueOK(new)
  BY <1>1, <1>2, AddAllType, AddAllKeepsBits DEF QueueOK
<1>4. \A p \in Prio : new.run_list[p] = IF p \in T THEN p ELSE q.run_list[p]
  <2> SUFFICES ASSUME NEW p \in Prio
               PROVE  new.run_list[p] = IF p \in T THEN p ELSE q.run_list[p]
    OBVIOUS
  <2>1. (\E t \in T : prio[t] = p) <=> p \in T
    BY <1>2
  <2>2. p \in T => (CHOOSE t \in T : prio[t] = p) = p
    BY <1>2
  <2> QED
    BY <2>1, <2>2 DEF runqueue_add_all
<1>5. \A w \in SleepQueues : /\ w \in D => left[w] = <<>>
                             /\ w \notin D => left[w] = sq[w]
  BY DEF Drained
<1> HIDE DEF new, left
<1>6. OwnSlots(new)
  BY <1>4 DEF Placed, OwnSlots
<1>7. CurNotReady(new, cur)
  BY <1>1, <1>4, SystemTcbAssumption DEF Placed, CurNotReady, SleepersApart, SleepsIn
<1>8. SleepersApart(new, cur, left)
  BY <1>1, <1>4, <1>5, SystemTcbAssumption DEF Placed, SleepersApart, SleepsIn, SleepersType
<1>9. Somewhere(C, new, cur, left)
  BY <1>1, <1>4, <1>5, SystemTcbAssumption, NullAssumption DEF Placed, Somewhere, SleepsIn
<1> QED
  BY <1>3, <1>6, <1>7, <1>8, <1>9 DEF Placed, new, left

(* Giving the processor to the most urgent task, the running one going     *)
(* back to its slot.                                                       *)
LEMMA SavePlaced ==
    ASSUME NEW C \in SUBSET TCB, NEW q, NEW sq \in SleepersType,
           QueueOK(q), cur_tcb \in TCB, Placed(C, q, cur_tcb, sq),
           system_tcb[cur_tcb].native_prio = cur_tcb
    PROVE  /\ QueueOK(dispatch_save(q).rq)
           /\ dispatch_save(q).cur_tcb \in TCB \cup {NULL}
           /\ Placed(C, dispatch_save(q).rq, dispatch_save(q).cur_tcb, sq)
<1> DEFINE taken == take_highest(q)
           new   == dispatch_save(q)
           h     == highest_prio(q)
<1>1. /\ new.rq = runqueue_add(taken.rq, cur_tcb, cur_tcb)
      /\ new.cur_tcb = taken.cur_tcb
  BY DEF dispatch_save, take_highest
<1>2. /\ h \in Prio
      /\ QueueOK(taken.rq)
      /\ taken.rq.run_list = [q.run_list EXCEPT ![h] = NULL]
      /\ taken.cur_tcb = q.run_list[h]
      /\ taken.cur_tcb \in TCB \cup {NULL}
  BY TakeFacts
<1>3. cur_tcb \in Prio
  BY SystemTcbAssumption
<1>4. /\ QueueOK(new.rq)
      /\ new.rq.run_list = [taken.rq.run_list EXCEPT ![cur_tcb] = cur_tcb]
  <2> HIDE DEF taken, new
  <2>1. taken.rq \in RunQueueType /\ BitsMatchSlots(taken.rq)
    BY <1>2 DEF QueueOK
  <2>2. /\ runqueue_add(taken.rq, cur_tcb, cur_tcb) \in RunQueueType
        /\ runqueue_add(taken.rq, cur_tcb, cur_tcb).run_list =
               [taken.rq.run_list EXCEPT ![cur_tcb] = cur_tcb]
    BY <1>3, <2>1, AddType
  <2>3. BitsMatchSlots(runqueue_add(taken.rq, cur_tcb, cur_tcb))
    BY <1>3, <2>1, AddKeepsBits
  <2> QED
    BY <1>1, <2>2, <2>3 DEF QueueOK
<1>5. \A p \in Prio : new.rq.run_list[p] =
          IF p = cur_tcb THEN cur_tcb ELSE IF p = h THEN NULL ELSE q.run_list[p]
  BY <1>2, <1>4 DEF QueueOK, RunQueueType
<1>6. new.cur_tcb = NULL \/ (new.cur_tcb = h /\ q.run_list[h] = h)
  BY <1>1, <1>2 DEF Placed, OwnSlots
<1>7. cur_tcb # h \/ new.cur_tcb = NULL
  BY <1>1, <1>2, <1>6, NullAssumption DEF Placed, CurNotReady
<1> HIDE DEF taken, new, h
<1>8. OwnSlots(new.rq)
  BY <1>5 DEF Placed, OwnSlots
<1>9. CurNotReady(new.rq, new.cur_tcb)
  BY <1>2, <1>5, <1>6, <1>7 DEF CurNotReady
<1>10. SleepersApart(new.rq, new.cur_tcb, sq)
  BY <1>2, <1>5, <1>6, SystemTcbAssumption, NullAssumption
     DEF Placed, SleepersApart, SleepersType
<1>11. Somewhere(C, new.rq, new.cur_tcb, sq)
  <2> SUFFICES ASSUME NEW t \in TCB
               PROVE  t \in C <=> \/ t = new.cur_tcb
                                  \/ new.rq.run_list[t] # NULL
                                  \/ \E w \in SleepQueues : SleepsIn(t, w, sq)
    BY DEF Somewhere
  <2>1. t \in C <=> t = cur_tcb \/ q.run_list[t] # NULL
                    \/ \E w \in SleepQueues : SleepsIn(t, w, sq)
    BY DEF Placed, Somewhere
  <2>2. new.cur_tcb = NULL => q.run_list[h] = NULL
    BY <1>1, <1>2 DEF taken, new, h
  <2>3. t \in Prio /\ t # NULL
    BY SystemTcbAssumption, NullAssumption
  <2> QED
    BY <1>5, <1>6, <2>1, <2>2, <2>3, NullAssumption
<1> QED
  BY <1>1, <1>2, <1>4, <1>8, <1>9, <1>10, <1>11 DEF Placed, new

(* Putting the running task to sleep at one place of a queue, and giving   *)
(* the processor to the most urgent task.                                  *)
Inserted(s, old, t, k) ==
    /\ k \in 1 .. Len(old) + 1
    /\ Len(s) = Len(old) + 1
    /\ \A i \in 1 .. Len(s) :
         s[i] = IF i < k THEN old[i] ELSE IF i = k THEN t ELSE old[i - 1]

LEMMA AppendHolds ==
    ASSUME NEW q \in Seq(TCB), NEW u \in TCB, NEW t
    PROVE  (\E i \in 1 .. Len(Append(q, u)) : Append(q, u)[i] = t)
               <=> (\E i \in 1 .. Len(q) : q[i] = t) \/ t = u
<1>1. /\ Len(Append(q, u)) = Len(q) + 1 /\ Len(q) \in Nat
      /\ \A i \in 1 .. Len(q) : Append(q, u)[i] = q[i]
      /\ Append(q, u)[Len(q) + 1] = u
  OBVIOUS
<1>2. \A i : i \in 1 .. Len(q) + 1 <=> i \in 1 .. Len(q) \/ i = Len(q) + 1
  BY <1>1
<1> QED
  BY <1>1, <1>2

LEMMA AppendInserts ==
    ASSUME NEW s \in Seq(TCB), NEW t \in TCB
    PROVE  Append(s, t) \in Seq(TCB) /\ Inserted(Append(s, t), s, t, Len(s) + 1)
BY DEF Inserted

LEMMA PushInserts ==
    ASSUME NEW s \in Seq(TCB), NEW t \in TCB
    PROVE  <<t>> \o s \in Seq(TCB) /\ Inserted(<<t>> \o s, s, t, 1)
BY DEF Inserted

LEMMA SleepPlaced ==
    ASSUME NEW C \in SUBSET TCB, NEW q, NEW cur \in TCB, NEW sq \in SleepersType,
           QueueOK(q), Placed(C, q, cur, sq),
           NEW w \in SleepQueues, NEW s \in Seq(TCB), NEW k, Inserted(s, sq[w], cur, k)
    PROVE  Placed(C, take_highest(q).rq, take_highest(q).cur_tcb, [sq EXCEPT ![w] = s])
<1> DEFINE new == take_highest(q)
           h   == highest_prio(q)
           nsq == [sq EXCEPT ![w] = s]
<1>1. /\ h \in Prio
      /\ new.cur_tcb = q.run_list[h]
      /\ \A p \in Prio : new.rq.run_list[p] = IF p = h THEN NULL ELSE q.run_list[p]
  BY TakeFacts DEF QueueOK, RunQueueType
<1>2. new.cur_tcb = NULL \/ (new.cur_tcb = h /\ q.run_list[h] = h)
  BY <1>1 DEF Placed, OwnSlots
<1>3. cur # new.cur_tcb
  BY <1>1, <1>2, NullAssumption DEF Placed, CurNotReady
<1>4. \A v \in SleepQueues : nsq[v] = IF v = w THEN s ELSE sq[v]
  BY DEF SleepersType
<1>5. /\ k \in 1 .. Len(sq[w]) + 1
      /\ Len(s) = Len(sq[w]) + 1
      /\ \A i \in 1 .. Len(s) :
           s[i] = IF i < k THEN sq[w][i] ELSE IF i = k THEN cur ELSE sq[w][i - 1]
      /\ sq[w] \in Seq(TCB)
  BY DEF Inserted, SleepersType
<1> HIDE DEF new, h, nsq
<1>6. OwnSlots(new.rq)
  BY <1>1 DEF Placed, OwnSlots
<1>7. CurNotReady(new.rq, new.cur_tcb)
  BY <1>1, <1>2 DEF CurNotReady
<1>8. SleepersApart(new.rq, new.cur_tcb, nsq)
  <2> DEFINE Old(v, i) == IF v = w /\ i > k THEN i - 1 ELSE i
  <2>1. ASSUME NEW v \in SleepQueues, NEW i \in 1 .. Len(nsq[v])
        PROVE  \/ v = w /\ i = k /\ nsq[v][i] = cur
               \/ /\ Old(v, i) \in 1 .. Len(sq[v])
                  /\ nsq[v][i] = sq[v][Old(v, i)]
                  /\ ~(v = w /\ i = k)
    BY <1>4, <1>5
  <2>2. ASSUME NEW v \in SleepQueues, NEW i \in 1 .. Len(sq[v])
        PROVE  /\ sq[v][i] # cur
               /\ sq[v][i] \in Prio
               /\ q.run_list[sq[v][i]] = NULL
    BY SystemTcbAssumption DEF Placed, SleepersApart, SleepersType
  <2>3. ASSUME NEW v \in SleepQueues, NEW i \in 1 .. Len(nsq[v])
        PROVE  nsq[v][i] # new.cur_tcb /\ new.rq.run_list[nsq[v][i]] = NULL
    <3>1. nsq[v][i] \in Prio /\ q.run_list[nsq[v][i]] = NULL
      <4>1. cur \in Prio /\ q.run_list[cur] = NULL
        BY SystemTcbAssumption, NullAssumption DEF Placed, CurNotReady
      <4>2. CASE nsq[v][i] = cur
        BY <4>1, <4>2
      <4>3. CASE Old(v, i) \in 1 .. Len(sq[v]) /\ nsq[v][i] = sq[v][Old(v, i)]
        <5> HIDE DEF Old
        <5>1. sq[v][Old(v, i)] \in Prio /\ q.run_list[sq[v][Old(v, i)]] = NULL
          BY <2>2, <4>3
        <5> QED
          BY <4>3, <5>1
      <4> HIDE DEF Old
      <4> QED
        BY <2>1, <4>2, <4>3
    <3> QED
      BY <1>1, <1>2, <3>1, NullAssumption, SystemTcbAssumption
  <2>4. ASSUME NEW v \in SleepQueues, NEW i \in 1 .. Len(nsq[v]),
               NEW u \in SleepQueues, NEW j \in 1 .. Len(nsq[u]),
               nsq[v][i] = nsq[u][j]
        PROVE  v = u /\ i = j
    <3>1. CASE v = w /\ i = k /\ nsq[v][i] = cur
      <4>1. CASE u = w /\ j = k
        BY <3>1, <4>1
      <4>2. CASE /\ Old(u, j) \in 1 .. Len(sq[u])
                 /\ nsq[u][j] = sq[u][Old(u, j)]
        <5>1. sq[u][Old(u, j)] # cur
          BY <2>2, <4>2
        <5> QED
          BY <2>4, <3>1, <4>2, <5>1
      <4> QED
        BY <2>1, <4>1, <4>2
    <3>2. CASE /\ Old(v, i) \in 1 .. Len(sq[v])
               /\ nsq[v][i] = sq[v][Old(v, i)]
               /\ ~(v = w /\ i = k)
      <4>0. nsq[u][j] # cur
        <5>1. sq[v][Old(v, i)] # cur
          BY <2>2, <3>2
        <5> QED
          BY <2>4, <3>2, <5>1
      <4>1. /\ Old(u, j) \in 1 .. Len(sq[u])
            /\ nsq[u][j] = sq[u][Old(u, j)]
            /\ ~(u = w /\ j = k)
        BY <2>1, <4>0
      <4>2. \A a \in 1 .. Len(sq[v]), b \in 1 .. Len(sq[u]) :
              sq[v][a] = sq[u][b] => v = u /\ a = b
        BY DEF Placed, SleepersApart
      <4>3. v = u /\ Old(v, i) = Old(u, j)
        <5> HIDE DEF Old
        <5> QED
          BY <2>4, <3>2, <4>1, <4>2
      <4> QED
        BY <1>5, <3>2, <4>1, <4>3
    <3> QED
      BY <2>1, <3>1, <3>2
  <2> QED
    BY <2>3, <2>4 DEF SleepersApart
<1>9. Somewhere(C, new.rq, new.cur_tcb, nsq)
  <2>1. ASSUME NEW t \in TCB, NEW v \in SleepQueues
        PROVE  SleepsIn(t, v, nsq) <=> SleepsIn(t, v, sq) \/ (v = w /\ t = cur)
    <3>1. CASE v # w
      BY <1>4, <3>1 DEF SleepsIn
    <3>2. CASE v = w
      <4>0. nsq[v] = s /\ sq[v] = sq[w]
        BY <1>4, <3>2
      <4>1. ASSUME NEW i \in 1 .. Len(s), s[i] = t
            PROVE  SleepsIn(t, v, sq) \/ t = cur
        <5>1. CASE i < k
          <6>1. i \in 1 .. Len(sq[w]) /\ sq[w][i] = t
            BY <1>5, <4>1, <5>1
          <6> QED
            BY <4>0, <6>1 DEF SleepsIn
        <5>2. CASE i = k
          BY <1>5, <4>1, <5>2
        <5>3. CASE i > k
          <6>1. i - 1 \in 1 .. Len(sq[w]) /\ sq[w][i - 1] = t
            BY <1>5, <4>1, <5>3
          <6> QED
            BY <4>0, <6>1 DEF SleepsIn
        <5> QED
          BY <1>5, <5>1, <5>2, <5>3
      <4>2. t = cur => SleepsIn(t, v, nsq)
        <5>1. k \in 1 .. Len(s) /\ s[k] = cur
          BY <1>5
        <5> QED
          BY <4>0, <5>1 DEF SleepsIn
      <4>3. ASSUME NEW i \in 1 .. Len(sq[v]), sq[v][i] = t
            PROVE  SleepsIn(t, v, nsq)
        <5>0. nsq[v] = s /\ i \in 1 .. Len(sq[w]) /\ sq[w][i] = t
          BY <1>4, <3>2, <4>3
        <5>1. CASE i < k
          <6>1. i \in 1 .. Len(s) /\ s[i] = t
            BY <1>5, <5>0, <5>1
          <6> QED
            BY <5>0, <6>1 DEF SleepsIn
        <5>2. CASE i >= k
          <6>1. i + 1 \in 1 .. Len(s) /\ s[i + 1] = sq[w][i]
            BY <1>5, <5>0, <5>2
          <6> QED
            BY <5>0, <6>1 DEF SleepsIn
        <5> QED
          BY <1>5, <5>1, <5>2
      <4> QED
        BY <3>2, <4>0, <4>1, <4>2, <4>3 DEF SleepsIn
    <3> QED
      BY <3>1, <3>2
  <2> SUFFICES ASSUME NEW t \in TCB
               PROVE  t \in C <=> \/ t = new.cur_tcb
                                  \/ new.rq.run_list[t] # NULL
                                  \/ \E v \in SleepQueues : SleepsIn(t, v, nsq)
    BY DEF Somewhere
  <2>2. t \in C <=> t = cur \/ q.run_list[t] # NULL
                    \/ \E v \in SleepQueues : SleepsIn(t, v, sq)
    BY DEF Placed, Somewhere
  <2>3. t \in Prio /\ t # NULL
    BY SystemTcbAssumption, NullAssumption
  <2> QED
    BY <1>1, <1>2, <2>1, <2>2, <2>3, NullAssumption
<1> QED
  BY <1>6, <1>7, <1>8, <1>9 DEF Placed, new, nsq

(* Making the first sleeper of a queue runnable.                           *)
LEMMA WakeFirstPlaced ==
    ASSUME NEW C \in SUBSET TCB, NEW q, NEW cur \in TCB \cup {NULL}, NEW sq \in SleepersType,
           QueueOK(q), Placed(C, q, cur, sq),
           NEW w \in SleepQueues, sq[w] # <<>>
    PROVE  /\ Head(sq[w]) \in C
           /\ QueueOK(runqueue_add(q, Head(sq[w]), Head(sq[w])))
           /\ Placed(C, runqueue_add(q, Head(sq[w]), Head(sq[w])), cur,
                     [sq EXCEPT ![w] = Tail(@)])
<1> DEFINE t   == Head(sq[w])
           new == runqueue_add(q, t, t)
           nsq == [sq EXCEPT ![w] = Tail(@)]
<1>1. /\ sq[w] \in Seq(TCB)
      /\ t \in TCB
      /\ 1 \in 1 .. Len(sq[w]) /\ sq[w][1] = t
  BY DEF SleepersType
<1>2. t \in C
  BY <1>1 DEF Placed, Somewhere, SleepsIn
<1>3. t \in Prio /\ t # NULL
  BY <1>1, SystemTcbAssumption, NullAssumption
<1>4. QueueOK(new)
  BY <1>1, <1>3, AddType, AddKeepsBits DEF QueueOK
<1>5. \A p \in Prio : new.run_list[p] = IF p = t THEN t ELSE q.run_list[p]
  <2>1. q \in RunQueueType /\ q.run_list \in [Prio -> TCB \cup {NULL}]
    BY DEF QueueOK, RunQueueType
  <2>2. new.run_list = [q.run_list EXCEPT ![t] = t]
    BY <1>1, <1>3, <2>1, AddType
  <2> QED
    BY <2>1, <2>2
<1>6. /\ \A v \in SleepQueues : v # w => nsq[v] = sq[v]
      /\ Len(nsq[w]) = Len(sq[w]) - 1
      /\ \A i \in 1 .. Len(nsq[w]) : nsq[w][i] = sq[w][i + 1]
  BY <1>1 DEF SleepersType
<1> DEFINE Old(v, i) == IF v = w THEN i + 1 ELSE i
<1>7. ASSUME NEW v \in SleepQueues, NEW i \in 1 .. Len(nsq[v])
      PROVE  /\ Old(v, i) \in 1 .. Len(sq[v])
             /\ nsq[v][i] = sq[v][Old(v, i)]
  BY <1>1, <1>6 DEF SleepersType
<1>8. ASSUME NEW v \in SleepQueues, NEW i \in 1 .. Len(sq[v])
      PROVE  /\ sq[v][i] # cur
             /\ sq[v][i] \in Prio
             /\ q.run_list[sq[v][i]] = NULL
             /\ \A u \in SleepQueues : \A j \in 1 .. Len(sq[u]) :
                  sq[v][i] = sq[u][j] => v = u /\ i = j
  BY SystemTcbAssumption DEF Placed, SleepersApart, SleepersType
<1> HIDE DEF t, new, nsq
<1>9. OwnSlots(new)
  BY <1>5 DEF Placed, OwnSlots
<1>10. CurNotReady(new, cur)
  BY <1>1, <1>5, <1>8, SystemTcbAssumption DEF Placed, CurNotReady
<1>11. SleepersApart(new, cur, nsq)
  <2>1. ASSUME NEW v \in SleepQueues, NEW i \in 1 .. Len(nsq[v])
        PROVE  /\ nsq[v][i] # cur
               /\ new.run_list[nsq[v][i]] = NULL
    <3> DEFINE a == Old(v, i)
    <3>1. a \in 1 .. Len(sq[v]) /\ nsq[v][i] = sq[v][a]
      BY <1>7
    <3>2. ~(v = w /\ a = 1)
      BY <1>6
    <3> HIDE DEF Old, a
    <3>3. /\ sq[v][a] # cur
          /\ sq[v][a] \in Prio
          /\ q.run_list[sq[v][a]] = NULL
          /\ \A u \in SleepQueues : \A j \in 1 .. Len(sq[u]) :
               sq[v][a] = sq[u][j] => v = u /\ a = j
      BY <1>8, <3>1
    <3>4. sq[v][a] # t
      BY <1>1, <3>2, <3>3
    <3> QED
      BY <1>5, <3>1, <3>3, <3>4
  <2>2. ASSUME NEW v \in SleepQueues, NEW i \in 1 .. Len(nsq[v]),
               NEW u \in SleepQueues, NEW j \in 1 .. Len(nsq[u]),
               nsq[v][i] = nsq[u][j]
        PROVE  v = u /\ i = j
    <3>1. v = u /\ Old(v, i) = Old(u, j)
      <4> DEFINE a == Old(v, i)
                 b == Old(u, j)
      <4> HIDE DEF Old
      <4>1. /\ a \in 1 .. Len(sq[v]) /\ nsq[v][i] = sq[v][a]
            /\ b \in 1 .. Len(sq[u]) /\ nsq[u][j] = sq[u][b]
        BY <1>7
      <4> HIDE DEF a, b
      <4>2. sq[v][a] = sq[u][b]
        BY <2>2, <4>1
      <4>3. v = u /\ a = b
        BY <1>8, <4>1, <4>2
      <4> QED
        BY <4>3 DEF a, b
    <3> QED
      BY <3>1
  <2> QED
    BY <2>1, <2>2 DEF SleepersApart
<1>12. Somewhere(C, new, cur, nsq)
  <2>1. ASSUME NEW x \in TCB, x # t, NEW v \in SleepQueues
        PROVE  SleepsIn(x, v, nsq) <=> SleepsIn(x, v, sq)
    <3>1. SleepsIn(x, v, nsq) => SleepsIn(x, v, sq)
      <4> HIDE DEF Old
      <4> QED
        BY <1>7 DEF SleepsIn
    <3>2. ASSUME NEW i \in 1 .. Len(sq[v]), sq[v][i] = x
          PROVE  SleepsIn(x, v, nsq)
      <4>1. CASE v # w
        BY <1>6, <3>2, <4>1 DEF SleepsIn
      <4>2. CASE v = w
        <5>1. i # 1 /\ i - 1 \in 1 .. Len(nsq[w])
          BY <1>1, <1>6, <2>1, <3>2, <4>2
        <5>2. nsq[w][i - 1] = x
          BY <1>6, <3>2, <4>2, <5>1
        <5> QED
          BY <4>2, <5>1, <5>2 DEF SleepsIn
      <4> QED
        BY <4>1, <4>2
    <3> QED
      BY <3>1, <3>2 DEF SleepsIn
  <2> SUFFICES ASSUME NEW x \in TCB
               PROVE  x \in C <=> \/ x = cur
                                  \/ new.run_list[x] # NULL
                                  \/ \E v \in SleepQueues : SleepsIn(x, v, nsq)
    BY DEF Somewhere
  <2>2. x \in C <=> x = cur \/ q.run_list[x] # NULL
                    \/ \E v \in SleepQueues : SleepsIn(x, v, sq)
    BY DEF Placed, Somewhere
  <2>3. CASE x = t
    BY <1>2, <1>3, <1>5, <2>3
  <2>4. CASE x # t
    BY <1>5, <2>1, <2>2, <2>4, SystemTcbAssumption
  <2> QED
    BY <2>3, <2>4
<1> QED
  BY <1>2, <1>4, <1>9, <1>10, <1>11, <1>12 DEF Placed, t, new, nsq

-----------------------------------------------------------------------------
(* The inductive invariant.  OnePlace alone is not inductive: a dispatch   *)
(* is followed through the bitmap, and a task is put back at the priority  *)
(* its TCB names.                                                          *)
PrioIsIndex ==
    \A t \in TCB : Created(t) => /\ system_tcb[t].native_prio = t
                                 /\ system_tcb[t].cur_prio = t

IInv == TypeOK /\ BitsOK /\ OnePlace /\ PrioIsIndex

LEMMA IdleIsPrio == IDLE_PRIO \in Prio /\ IDLE_PRIO \in TCB
BY OSMaxTasksAssumption, SystemTcbAssumption DEF IDLE_PRIO, Prio

(* What the invariant says in the terms of the lemmas above.               *)
LEMMA IInvFacts ==
    ASSUME IInv
    PROVE  /\ QueueOK(rq)
           /\ sleep_queue \in SleepersType
           /\ CreatedTasks \in SUBSET TCB
           /\ Placed(CreatedTasks, rq, cur_tcb, sleep_queue)
           /\ cur_tcb # NULL => /\ cur_tcb \in TCB
                                /\ system_tcb[cur_tcb].native_prio = cur_tcb
           /\ \A t \in CreatedTasks : cur_prio[t] = t
<1>1. cur_tcb # NULL => cur_tcb \in TCB /\ Created(cur_tcb)
  BY DEF IInv, TypeOK, SchedTypeOK, OnePlace, SomewhereIffCreated
<1> QED
  BY <1>1, PlacedIsOnePlace
     DEF IInv, TypeOK, SchedTypeOK, BitsOK, PrioIsIndex, QueueOK, SleepersType,
         CreatedTasks, cur_prio

(* To establish OnePlace and BitsOK after a step that creates no task.     *)
LEMMA PlacedNext ==
    ASSUME UNCHANGED system_tcb,
           QueueOK(rq'), Placed(CreatedTasks, rq', cur_tcb', sleep_queue')
    PROVE  BitsOK' /\ OnePlace'
<1>1. CreatedTasks' = CreatedTasks
  BY DEF CreatedTasks, Created
<1>2. OnePlace' <=> Placed(CreatedTasks', rq', cur_tcb', sleep_queue')
  BY DEF OnePlace, InOwnSlot, NowhereTwice, SomewhereIffCreated, Placed, OwnSlots,
         CurNotReady, SleepersApart, Somewhere, SleepsIn, Asleep, CreatedTasks, Created
<1> QED
  BY <1>1, <1>2 DEF BitsOK, QueueOK

LEMMA TickInv == IInv /\ Tick => IInv'
<1> SUFFICES ASSUME IInv, Tick
             PROVE  IInv'
  OBVIOUS
<1> DEFINE ticks  == (num_of_10ms + 1) % ULONG_RANGE
           millis == time(ticks)
           D      == {DeviceQueue(d) : d \in Signalled(millis)}
           awake  == dev_update_queue(millis)
<1>1. PICK next \in HandlerReturns(awake) : Finish(next)
  BY DEF Tick
<1>2. /\ cur_tcb # NULL
      /\ num_of_10ms' = ticks
      /\ next_match' = dev_update_match(millis)
      /\ sleep_queue' = dev_update_sleepers(millis)
      /\ UNCHANGED <<system_tcb, mutexVars>>
  BY DEF Tick
<1>3. /\ QueueOK(rq)
      /\ sleep_queue \in SleepersType
      /\ CreatedTasks \in SUBSET TCB
      /\ Placed(CreatedTasks, rq, cur_tcb, sleep_queue)
      /\ cur_tcb \in TCB
      /\ system_tcb[cur_tcb].native_prio = cur_tcb
      /\ \A t \in CreatedTasks : cur_prio[t] = t
  BY <1>2, IInvFacts
<1>4. D \in SUBSET SleepQueues
  BY DEF Signalled, SleepQueues
<1>5. Woken(millis) = {t \in TCB : \E w \in D : SleepsIn(t, w, sleep_queue)}
  BY DEF Woken, Asleep, SleepsIn
<1>6. sleep_queue' = Drained(sleep_queue, D)
  BY <1>2 DEF dev_update_sleepers, Drained
<1> HIDE DEF ticks, millis, D
<1>7. /\ QueueOK(awake)
      /\ Placed(CreatedTasks, awake, cur_tcb, sleep_queue')
  BY <1>3, <1>4, <1>5, <1>6, WakeAllPlaced DEF dev_update_queue
<1>8. sleep_queue' \in SleepersType
  BY <1>3, <1>6 DEF Drained, SleepersType
<1> HIDE DEF awake
<1>9. next = dispatch_save(awake) \/ next = Stay(awake)
  BY <1>1, TickDispatchAssumption DEF HandlerReturns
<1>10. /\ QueueOK(rq')
       /\ cur_tcb' \in TCB \cup {NULL}
       /\ Placed(CreatedTasks, rq', cur_tcb', sleep_queue')
  <2>1. CASE next = dispatch_save(awake)
    BY <1>1, <1>3, <1>7, <1>8, <2>1, SavePlaced DEF Finish
  <2>2. CASE next = Stay(awake)
    BY <1>1, <1>3, <1>7, <2>2 DEF Finish, Stay
  <2> QED
    BY <1>9, <2>1, <2>2
<1>11. BitsOK' /\ OnePlace'
  BY <1>2, <1>10, PlacedNext
<1>12. PrioIsIndex'
  BY <1>2 DEF IInv, PrioIsIndex, Created
<1>13. SchedTypeOK'
  BY <1>2, <1>8, <1>10 DEF IInv, TypeOK, SchedTypeOK, QueueOK, SleepersType
<1>14. MutexTypeOK'
  BY <1>2 DEF IInv, TypeOK, MutexTypeOK, mutexVars
<1>15. DeviceTypeOK'
  BY <1>2, DeviceAssumption
     DEF IInv, TypeOK, DeviceTypeOK, dev_update_match, Ulong, ticks
<1> QED
  BY <1>11, <1>12, <1>13, <1>14, <1>15 DEF IInv, TypeOK

(* A task that sleeps on w, wherever in the queue it is inserted.          *)
LEMMA SleepInv ==
    ASSUME IInv, cur_tcb # NULL, UNCHANGED system_tcb,
           NEW w \in SleepQueues, NEW s \in Seq(TCB), NEW k,
           Inserted(s, sleep_queue[w], cur_tcb, k),
           sleep_queue' = [sleep_queue EXCEPT ![w] = s],
           rq' = dispatch_sleep.rq, cur_tcb' = dispatch_sleep.cur_tcb
    PROVE  SchedTypeOK' /\ BitsOK' /\ OnePlace' /\ PrioIsIndex'
<1>1. /\ QueueOK(rq)
      /\ sleep_queue \in SleepersType
      /\ CreatedTasks \in SUBSET TCB
      /\ Placed(CreatedTasks, rq, cur_tcb, sleep_queue)
      /\ cur_tcb \in TCB
  BY IInvFacts
<1>2. QueueOK(rq') /\ cur_tcb' \in TCB \cup {NULL}
  BY <1>1, TakeFacts DEF dispatch_sleep
<1>3. Placed(CreatedTasks, rq', cur_tcb', sleep_queue')
  BY <1>1, SleepPlaced DEF dispatch_sleep
<1>4. sleep_queue' \in SleepersType
  BY <1>1 DEF SleepersType
<1>5. SchedTypeOK'
  BY <1>2, <1>4 DEF IInv, TypeOK, SchedTypeOK, QueueOK, SleepersType
<1>6. PrioIsIndex'
  BY DEF IInv, PrioIsIndex, Created
<1> QED
  BY <1>2, <1>3, <1>5, <1>6, PlacedNext

LEMMA DevWaitInv ==
    ASSUME IInv, NEW d \in Device, DevWait(d)
    PROVE  IInv'
<1>1. DeviceQueue(d) \in SleepQueues /\ cur_tcb # NULL
  BY DEF DevWait, InUserCode, SleepQueues
<1>2. sleep_queue[DeviceQueue(d)] \in Seq(TCB) /\ cur_tcb \in TCB
  BY <1>1 DEF IInv, TypeOK, SchedTypeOK
<1>3. SchedTypeOK' /\ BitsOK' /\ OnePlace' /\ PrioIsIndex'
  BY <1>1, <1>2, PushInserts, SleepInv DEF DevWait, dev_wait
<1> QED
  BY <1>3 DEF DevWait, dev_wait, IInv, TypeOK, MutexTypeOK, DeviceTypeOK,
              mutexVars, deviceVars

LEMMA LockSleepInv ==
    ASSUME IInv, NEW m, MutexLockSleep(m), UNCHANGED deviceVars
    PROVE  IInv'
<1>1. m \in Mutex /\ MutexQueue(m) \in SleepQueues /\ cur_tcb # NULL
  BY DEF MutexLockSleep, MayLock, InUserCode, ValidMutex, SleepQueues
<1>2. sleep_queue[MutexQueue(m)] \in Seq(TCB) /\ cur_tcb \in TCB
  BY <1>1 DEF IInv, TypeOK, SchedTypeOK
<1>3. SchedTypeOK' /\ BitsOK' /\ OnePlace' /\ PrioIsIndex'
  BY <1>1, <1>2, AppendInserts, SleepInv DEF MutexLockSleep, Finish
<1>4. MutexTypeOK'
  BY <1>1, <1>2 DEF MutexLockSleep, IInv, TypeOK, MutexTypeOK
<1> QED
  BY <1>3, <1>4 DEF IInv, TypeOK, DeviceTypeOK, deviceVars

LEMMA UnlockInv ==
    ASSUME IInv, NEW m, MutexUnlock(m), UNCHANGED deviceVars
    PROVE  IInv'
<1> DEFINE w == MutexQueue(m)
<1>1. /\ m \in Mutex /\ w \in SleepQueues /\ cur_tcb \in TCB
      /\ UNCHANGED <<system_tcb, cur_tcb, pc, arg>>
  BY DEF MutexUnlock, InUserCode, ValidMutex, SleepQueues, IInv, TypeOK, SchedTypeOK
<1>2. /\ QueueOK(rq)
      /\ sleep_queue \in SleepersType
      /\ CreatedTasks \in SUBSET TCB
      /\ Placed(CreatedTasks, rq, cur_tcb, sleep_queue)
      /\ \A t \in CreatedTasks : cur_prio[t] = t
  BY IInvFacts
<1>6. MutexTypeOK' /\ DeviceTypeOK'
  <2>1. MutexTypeOK /\ DeviceTypeOK
    BY DEF IInv, TypeOK
  <2>2. gtMutex' \in [Mutex -> [bAvailable : BOOLEAN, bLock : BOOLEAN,
                                  pHolding_Tcb : TCB \cup {NULL}]]
    <3> DEFINE R == [bAvailable : BOOLEAN, bLock : BOOLEAN, pHolding_Tcb : TCB \cup {NULL}]
    <3>1. gtMutex \in [Mutex -> R]
      BY <2>1 DEF MutexTypeOK
    <3>2. ASSUME NEW r \in R PROVE released(r) \in R
      BY DEF released
    <3>3. gtMutex' = [gtMutex EXCEPT ![m] = released(gtMutex[m])]
      BY DEF MutexUnlock
    <3> HIDE DEF R
    <3>4. released(gtMutex[m]) \in R
      BY <1>1, <3>1, <3>2
    <3>5. gtMutex' \in [Mutex -> R]
      BY <3>1, <3>3, <3>4
    <3> QED
      BY <3>5 DEF R
  <2>3. held' \in [TCB -> SUBSET Mutex]
    BY <1>1, <2>1 DEF MutexUnlock, MutexTypeOK
  <2>4. MutexTypeOK'
    BY <1>1, <2>1, <2>2, <2>3 DEF MutexTypeOK
  <2> QED
    BY <2>1, <2>4 DEF DeviceTypeOK, deviceVars
<1>3. CASE UNCHANGED <<rq, sleep_queue>>
  <2>1. SchedTypeOK' /\ PrioIsIndex'
    BY <1>1, <1>3 DEF IInv, TypeOK, SchedTypeOK, PrioIsIndex, Created
  <2>2. BitsOK' /\ OnePlace'
    BY <1>1, <1>2, <1>3, PlacedNext
  <2> QED
    BY <1>6, <2>1, <2>2 DEF IInv, TypeOK
<1>4. CASE /\ sleep_queue[w] # <<>>
           /\ sleep_queue' = [sleep_queue EXCEPT ![w] = Tail(@)]
           /\ rq' = runqueue_add(rq, Head(sleep_queue[w]),
                                 system_tcb[Head(sleep_queue[w])].cur_prio)
  <2> DEFINE t == Head(sleep_queue[w])
  <2>1. /\ t \in CreatedTasks
        /\ QueueOK(runqueue_add(rq, t, t))
        /\ Placed(CreatedTasks, runqueue_add(rq, t, t), cur_tcb,
                  [sleep_queue EXCEPT ![w] = Tail(@)])
    BY <1>1, <1>2, <1>4, WakeFirstPlaced
  <2>2. system_tcb[t].cur_prio = t
    BY <1>2, <2>1 DEF cur_prio, CreatedTasks
  <2>3. BitsOK' /\ OnePlace'
    BY <1>1, <1>4, <2>1, <2>2, PlacedNext
  <2>4. sleep_queue' \in SleepersType
    BY <1>1, <1>2, <1>4 DEF SleepersType
  <2>5. SchedTypeOK' /\ PrioIsIndex'
    BY <1>1, <1>4, <2>1, <2>2, <2>4
       DEF IInv, TypeOK, SchedTypeOK, PrioIsIndex, Created, QueueOK, SleepersType
  <2> QED
    BY <1>6, <2>3, <2>5 DEF IInv, TypeOK
<1> QED
  BY <1>3, <1>4 DEF MutexUnlock, wake_first, unlinked

(* The calls that change no queue.                                         *)
LEMMA OtherMutexInv ==
    ASSUME IInv, UNCHANGED <<schedVars, deviceVars>>,
           \/ MutexCreate \/ MutexCreateRefused \/ MutexLockFlag \/ MutexLockHolder
           \/ \E m \in MutexArg : MutexLockRefused(m) \/ MutexLockFree(m) \/ MutexUnlockRefused(m)
    PROVE  IInv'
<1>1. SchedTypeOK' /\ DeviceTypeOK' /\ PrioIsIndex' /\ BitsOK' /\ OnePlace'
  BY PlacedNext, IInvFacts
     DEF IInv, TypeOK, SchedTypeOK, DeviceTypeOK, PrioIsIndex, Created, schedVars, deviceVars
<1>2. cur_tcb # NULL => cur_tcb \in TCB
  BY DEF IInv, TypeOK, SchedTypeOK
<1>3. MutexTypeOK
  BY DEF IInv, TypeOK
<1>4. ASSUME MutexCreate PROVE MutexTypeOK'
  <2>1. PICK j \in Mutex : gtMutex' = [gtMutex EXCEPT ![j].bAvailable = FALSE]
    BY <1>4 DEF MutexCreate
  <2>2. UNCHANGED <<pc, arg, held>>
    BY <1>4 DEF MutexCreate
  <2> QED
    BY <1>3, <2>1, <2>2 DEF MutexTypeOK
<1>5. ASSUME MutexLockFlag PROVE MutexTypeOK'
  <2>1. cur_tcb \in TCB /\ arg[cur_tcb] \in Mutex
    BY <1>2, <1>3, <1>5 DEF MutexLockFlag, MutexTypeOK
  <2> QED
    BY <1>3, <1>5, <2>1 DEF MutexLockFlag, MutexTypeOK
<1>6. ASSUME MutexLockHolder PROVE MutexTypeOK'
  <2>1. cur_tcb \in TCB /\ arg[cur_tcb] \in Mutex
    BY <1>2, <1>3, <1>6 DEF MutexLockHolder, MutexTypeOK
  <2> QED
    BY <1>3, <1>6, <2>1 DEF MutexLockHolder, MutexTypeOK
<1>7. \A m \in MutexArg : MutexLockFree(m) => MutexTypeOK'
  BY <1>2, <1>3 DEF MutexLockFree, MayLock, InUserCode, ValidMutex, MutexTypeOK
<1>8. UNCHANGED mutexVars => MutexTypeOK'
  BY <1>3 DEF mutexVars, MutexTypeOK
<1> QED
  BY <1>1, <1>4, <1>5, <1>6, <1>7, <1>8
     DEF IInv, TypeOK, MutexCreateRefused, MutexLockRefused, MutexUnlockRefused

(* What init_task stores.                                                  *)
LEMMA InitTaskFields ==
    ASSUME NEW fun, NEW p
    PROVE  /\ init_task(fun, p).native_prio = p
           /\ init_task(fun, p).cur_prio = p
           /\ init_task(fun, p).lambda = fun
           /\ p \in Prio /\ fun \in {"none", "idle", "task"} => init_task(fun, p) \in TcbType
BY DEF init_task, TcbType

(* Start-up puts every created task in its own slot, and hands the         *)
(* processor to the most urgent one.                                       *)
LEMMA InitFacts ==
    ASSUME Init
    PROVE  /\ IInv
           /\ cur_tcb \in TCB
           /\ \A p \in Prio : rq.run_list[p] # NULL => cur_tcb < p
<1>1. PICK n \in TaskCounts :
        /\ system_tcb = allocate_tasks(sched_init_tcbs(zeroed_tcbs), n)
        /\ rq = Booted(n).rq
        /\ cur_tcb = Booted(n).cur_tcb
  BY DEF Init
<1> DEFINE T    == 1 .. n
           own  == [t \in T |-> t]
           q1   == sched_init_queue(runqueue_init)
           q2   == runqueue_add_all(q1, T, own)
           h    == highest_prio(q2)
<1>2. n \in Nat /\ T \in SUBSET TCB /\ \A t \in T : t \in Prio /\ own[t] = t
  BY TaskCountsAssumption, SystemTcbAssumption, OSMaxTasksAssumption DEF Prio
<1>3. /\ QueueOK(q1)
      /\ \A p \in Prio : q1.run_list[p] = IF p = IDLE_PRIO THEN IDLE_PRIO ELSE NULL
  <2>1. QueueOK(q1)
    BY IdleIsPrio, EmptyQueueOK, AddType, AddKeepsBits DEF sched_init_queue, QueueOK
  <2>2. q1.run_list = [runqueue_init.run_list EXCEPT ![IDLE_PRIO] = IDLE_PRIO]
    BY IdleIsPrio, EmptyQueueOK, AddType DEF sched_init_queue
  <2> QED
    BY <2>1, <2>2, IdleIsPrio DEF runqueue_init
<1>4. QueueOK(q2)
  BY <1>2, <1>3, AddAllType, AddAllKeepsBits DEF QueueOK
<1>5. \A p \in Prio : q2.run_list[p] =
          IF p \in T \/ p = IDLE_PRIO THEN p ELSE NULL
  <2> SUFFICES ASSUME NEW p \in Prio
               PROVE  q2.run_list[p] = IF p \in T \/ p = IDLE_PRIO THEN p ELSE NULL
    OBVIOUS
  <2>1. q2.run_list[p] = IF \E t \in T : own[t] = p
                         THEN CHOOSE t \in T : own[t] = p ELSE q1.run_list[p]
    BY DEF runqueue_add_all
  <2>2. (\E t \in T : own[t] = p) <=> p \in T
    BY <1>2
  <2>3. p \in T => (CHOOSE t \in T : own[t] = p) = p
    BY <1>2
  <2> QED
    BY <1>3, <2>1, <2>2, <2>3
<1>6. rq = take_highest(q2).rq /\ cur_tcb = take_highest(q2).cur_tcb
  BY <1>1 DEF Booted, dispatch_nosave
<1> HIDE DEF T, own, q1, q2, h
<1>7. /\ h \in Prio
      /\ QueueOK(rq)
      /\ rq.run_list = [q2.run_list EXCEPT ![h] = NULL]
      /\ cur_tcb = q2.run_list[h]
      /\ cur_tcb \in TCB \cup {NULL}
  BY <1>4, <1>6, TakeFacts DEF h
<1>8. cur_tcb = h
  <2>1. IDLE_PRIO \in Occupied(q2)
    BY <1>5, IdleIsPrio, NullAssumption, SystemTcbAssumption DEF Occupied
  <2>2. h \in Occupied(q2)
    BY <1>4, <2>1, HighestIsMostUrgent DEF QueueOK, h
  <2> QED
    BY <1>5, <1>7, <2>2 DEF Occupied
<1>9. \A p \in Prio : rq.run_list[p] =
          IF p # h /\ (p \in T \/ p = IDLE_PRIO) THEN p ELSE NULL
  BY <1>4, <1>5, <1>7 DEF QueueOK, RunQueueType
<1>10. ASSUME NEW t \in TCB
       PROVE  /\ t \in T => system_tcb[t] = init_task("task", t)
              /\ t \notin T /\ t = IDLE_PRIO => system_tcb[t] = init_task("idle", t)
              /\ t \notin T /\ t # IDLE_PRIO =>
                     system_tcb[t] = [native_prio |-> 0, cur_prio |-> 0, lambda |-> "none"]
  <2>1. t \in T => system_tcb[t] = init_task("task", t)
    BY <1>1 DEF allocate_tasks, T
  <2>2. t \notin T => system_tcb[t] = sched_init_tcbs(zeroed_tcbs)[t]
    BY <1>1 DEF allocate_tasks, T
  <2>3. zeroed_tcbs \in [TCB -> [native_prio : {0}, cur_prio : {0}, lambda : {"none"}]]
    BY DEF zeroed_tcbs
  <2>4. t = IDLE_PRIO => sched_init_tcbs(zeroed_tcbs)[t] = init_task("idle", t)
    BY <2>3, IdleIsPrio DEF sched_init_tcbs
  <2>5. t # IDLE_PRIO => sched_init_tcbs(zeroed_tcbs)[t] = zeroed_tcbs[t]
    BY <2>3, IdleIsPrio DEF sched_init_tcbs
  <2>6. zeroed_tcbs[t] = [native_prio |-> 0, cur_prio |-> 0, lambda |-> "none"]
    BY DEF zeroed_tcbs
  <2> QED
    BY <2>1, <2>2, <2>4, <2>5, <2>6
<1>11. \A t \in TCB : Created(t) <=> t \in T \/ t = IDLE_PRIO
  <2> SUFFICES ASSUME NEW t \in TCB
               PROVE  Created(t) <=> t \in T \/ t = IDLE_PRIO
    OBVIOUS
  <2>1. CASE t \in T
    BY <1>10, <2>1, InitTaskFields DEF Created
  <2>2. CASE t \notin T /\ t = IDLE_PRIO
    BY <1>10, <2>2, InitTaskFields DEF Created
  <2>3. CASE t \notin T /\ t # IDLE_PRIO
    BY <1>10, <2>3 DEF Created
  <2> QED
    BY <2>1, <2>2, <2>3
<1>12. sleep_queue = [w \in SleepQueues |-> <<>>]
  BY DEF Init
<1>13. OnePlace
  <2>1. InOwnSlot
    BY <1>9 DEF InOwnSlot
  <2>2. NowhereTwice
    BY <1>7, <1>8, <1>9, <1>12 DEF NowhereTwice
  <2>3. SomewhereIffCreated
    <3> SUFFICES ASSUME NEW t \in TCB
                 PROVE  Created(t) <=> \/ t = cur_tcb
                                       \/ rq.run_list[t] # NULL
                                       \/ \E w \in SleepQueues : Asleep(t, w)
      BY DEF SomewhereIffCreated
    <3>1. ~ \E w \in SleepQueues : Asleep(t, w)
      BY <1>12 DEF Asleep
    <3>2. h \in T \/ h = IDLE_PRIO
      BY <1>5, <1>7, <1>8, NullAssumption, SystemTcbAssumption
    <3> QED
      BY <1>8, <1>9, <1>11, <3>1, <3>2, NullAssumption, SystemTcbAssumption
  <2> QED
    BY <2>1, <2>2, <2>3 DEF OnePlace
<1>14. PrioIsIndex
  <2> SUFFICES ASSUME NEW t \in TCB, t \in T \/ t = IDLE_PRIO
               PROVE  system_tcb[t].native_prio = t /\ system_tcb[t].cur_prio = t
    BY <1>11 DEF PrioIsIndex
  <2>1. CASE t \in T
    BY <1>10, <2>1, InitTaskFields
  <2>2. CASE t \notin T
    BY <1>10, <2>2, InitTaskFields
  <2> QED
    BY <2>1, <2>2
<1>15. system_tcb \in [TCB -> TcbType]
  <2>1. ASSUME NEW t \in TCB
        PROVE  system_tcb[t] \in TcbType
    <3>1. t \in Prio /\ 0 \in Prio
      BY SystemTcbAssumption, OSMaxTasksAssumption DEF Prio
    <3>2. CASE t \in T
      BY <1>10, <3>1, <3>2, InitTaskFields
    <3>3. CASE t \notin T /\ t = IDLE_PRIO
      BY <1>10, <3>1, <3>3, InitTaskFields
    <3>4. CASE t \notin T /\ t # IDLE_PRIO
      BY <1>10, <3>1, <3>4 DEF TcbType
    <3> QED
      BY <3>2, <3>3, <3>4
  <2>2. system_tcb = [t \in TCB |-> system_tcb[t]]
    BY <1>1 DEF allocate_tasks
  <2> QED
    BY <2>1, <2>2
<1>16. SchedTypeOK
  BY <1>7, <1>12, <1>15 DEF SchedTypeOK, QueueOK
<1>17. MutexTypeOK
  BY DEF Init, MutexTypeOK, mutex_init
<1>18. DeviceTypeOK
  BY DeviceAssumption DEF Init, DeviceTypeOK, dev_init, Ulong
<1>19. cur_tcb \in TCB
  BY <1>7, <1>8, SystemTcbAssumption
<1>20. ASSUME NEW p \in Prio, rq.run_list[p] # NULL
       PROVE  cur_tcb < p
  <2>1. p # h /\ p \in Occupied(q2)
    BY <1>5, <1>9, <1>20 DEF Occupied
  <2>2. h <= p
    BY <1>4, <2>1, HighestIsMostUrgent DEF QueueOK, h
  <2> QED
    BY <1>7, <1>8, <2>1, <2>2, OSMaxTasksAssumption DEF Prio
<1> QED
  BY <1>7, <1>13, <1>14, <1>16, <1>17, <1>18, <1>19, <1>20 DEF IInv, TypeOK, BitsOK, QueueOK

LEMMA InitInv == Init => IInv
BY InitFacts

LEMMA StutterInv == IInv /\ UNCHANGED vars => IInv'
BY DEF vars, schedVars, mutexVars, deviceVars, IInv, TypeOK, SchedTypeOK, MutexTypeOK,
       DeviceTypeOK, BitsOK, BitsMatchSlots, OnePlace, InOwnSlot, NowhereTwice,
       SomewhereIffCreated, Asleep, Created, PrioIsIndex

LEMMA NextInv == IInv /\ [Next]_vars => IInv'
<1> SUFFICES ASSUME IInv, [Next]_vars
             PROVE  IInv'
  OBVIOUS
<1>1. CASE Tick
  BY <1>1, TickInv
<1>2. CASE \E d \in Device : DevWait(d)
  BY <1>2, DevWaitInv
<1>3. CASE MutexCall /\ UNCHANGED deviceVars
  <2>1. CASE \E m \in MutexArg : MutexLockSleep(m)
    BY <1>3, <2>1, LockSleepInv
  <2>2. CASE \E m \in MutexArg : MutexUnlock(m)
    BY <1>3, <2>2, UnlockInv
  <2>3. CASE \/ MutexCreate \/ MutexCreateRefused \/ MutexLockFlag \/ MutexLockHolder
             \/ \E m \in MutexArg : \/ MutexLockRefused(m)
                                    \/ MutexLockFree(m)
                                    \/ MutexUnlockRefused(m)
    <3>1. UNCHANGED schedVars
      BY <2>3 DEF MutexCreate, MutexCreateRefused, MutexLockFlag, MutexLockHolder,
                  MutexLockRefused, MutexLockFree, MutexUnlockRefused
    <3> QED
      BY <1>3, <2>3, <3>1, OtherMutexInv
  <2> QED
    BY <1>3, <2>1, <2>2, <2>3 DEF MutexCall
<1>4. CASE UNCHANGED vars
  BY <1>4, StutterInv
<1> QED
  BY <1>1, <1>2, <1>3, <1>4 DEF Next

(* IInv holds in every reachable state.                                    *)
THEOREM Invariance == Spec => []IInv
BY InitInv, NextInv, PTL DEF Spec

(* The state keeps its types: indices, bitmaps, queues and the clock.      *)
THEOREM TypeCorrect == Spec => []TypeOK
BY Invariance, PTL DEF IInv

(* No task is ever lost or in two places.                                  *)
THEOREM TasksInOnePlace == Spec => []OnePlace
BY Invariance, PTL DEF IInv

(* The kernel keeps the bitmap and the slots of the run queue in agreement.*)
THEOREM BitsAlwaysOK == Spec => []BitsOK
BY Invariance, PTL DEF IInv
-----------------------------------------------------------------------------
(* The mutexes, for every number of tasks and mutexes, every clock and     *)
(* every interrupt handler: the recorded holder has locked the mutex, and  *)
(* no wake-up is lost.                                                     *)
(* What the type invariant says about the running task in a mutex call.    *)
LEMMA RunningTask ==
    ASSUME IInv, cur_tcb # NULL
    PROVE  /\ cur_tcb \in TCB
           /\ arg[cur_tcb] \in Mutex \cup {NULL}
           /\ pc[cur_tcb] # "user" => arg[cur_tcb] \in Mutex
           /\ \A w \in SleepQueues : ~Asleep(cur_tcb, w)
BY DEF IInv, TypeOK, SchedTypeOK, MutexTypeOK, OnePlace, NowhereTwice, Asleep

LEMMA MutexQueueIsQueue ==
    ASSUME NEW m \in Mutex
    PROVE  /\ MutexQueue(m) \in SleepQueues
           /\ \A d : MutexQueue(m) # DeviceQueue(d)
           /\ \A n : MutexQueue(m) = MutexQueue(n) => m = n
BY DEF MutexQueue, DeviceQueue, SleepQueues

-----------------------------------------------------------------------------
LEMMA HolderInit == Init => HolderHasLocked
BY DEF Init, mutex_init, HolderHasLocked

LEMMA HolderNext == IInv /\ HolderHasLocked /\ [Next]_vars => HolderHasLocked'
<1> SUFFICES ASSUME IInv, HolderHasLocked, [Next]_vars
             PROVE  HolderHasLocked'
  OBVIOUS
<1>1. MutexTypeOK
  BY DEF IInv, TypeOK
<1>2. CASE UNCHANGED <<gtMutex, held>>
  BY <1>2 DEF HolderHasLocked
<1>3. CASE MutexCreate
  <2>1. PICK j \in Mutex : gtMutex' = [gtMutex EXCEPT ![j].bAvailable = FALSE]
    BY <1>3 DEF MutexCreate
  <2>2. \A m \in Mutex : gtMutex'[m].pHolding_Tcb = gtMutex[m].pHolding_Tcb
    BY <1>1, <2>1 DEF MutexTypeOK
  <2> QED
    BY <1>3, <2>2 DEF MutexCreate, HolderHasLocked
<1>4. CASE MutexLockFlag
  <2>1. \A m \in Mutex : gtMutex'[m].pHolding_Tcb = gtMutex[m].pHolding_Tcb
    BY <1>1, <1>4 DEF MutexLockFlag, MutexTypeOK
  <2> QED
    BY <1>4, <2>1 DEF MutexLockFlag, HolderHasLocked
<1>5. ASSUME NEW n \in Mutex, cur_tcb # NULL,
             \A m \in Mutex : gtMutex'[m].pHolding_Tcb =
                 IF m = n THEN cur_tcb ELSE gtMutex[m].pHolding_Tcb,
             held' = [held EXCEPT ![cur_tcb] = @ \cup {n}]
      PROVE  HolderHasLocked'
  BY <1>1, <1>5, RunningTask DEF HolderHasLocked, MutexTypeOK
<1>6. CASE MutexLockHolder
  <2>1. cur_tcb # NULL /\ arg[cur_tcb] \in Mutex
    BY <1>6, RunningTask DEF MutexLockHolder
  <2>2. \A m \in Mutex : gtMutex'[m].pHolding_Tcb =
            IF m = arg[cur_tcb] THEN cur_tcb ELSE gtMutex[m].pHolding_Tcb
    BY <1>1, <1>6, <2>1 DEF MutexLockHolder, MutexTypeOK
  <2>3. held' = [held EXCEPT ![cur_tcb] = @ \cup {arg[cur_tcb]}]
    BY <1>6 DEF MutexLockHolder
  <2> QED
    BY <1>5, <2>1, <2>2, <2>3
<1>7. ASSUME NEW n, MutexLockFree(n)
      PROVE  HolderHasLocked'
  <2>1. cur_tcb # NULL /\ n \in Mutex
    BY <1>7 DEF MutexLockFree, MayLock, InUserCode, ValidMutex
  <2> QED
    BY <1>1, <1>5, <1>7, <2>1 DEF MutexLockFree, MutexTypeOK
<1>8. ASSUME NEW n, MutexUnlock(n)
      PROVE  HolderHasLocked'
  <2>1. cur_tcb \in TCB /\ n \in Mutex
    BY <1>8, RunningTask DEF MutexUnlock, InUserCode, ValidMutex
  <2>2. \A m \in Mutex : gtMutex'[m].pHolding_Tcb =
            IF m = n THEN NULL ELSE gtMutex[m].pHolding_Tcb
    BY <1>1, <1>8, <2>1 DEF MutexUnlock, released, MutexTypeOK
  <2>3. \A m \in Mutex, t \in TCB : m # n /\ m \in held[t] => m \in held'[t]
    BY <1>1, <1>8, <2>1 DEF MutexUnlock, MutexTypeOK
  <2> QED
    BY <1>1, <2>2, <2>3 DEF HolderHasLocked, MutexTypeOK
<1>9. CASE Tick
  BY <1>2, <1>9 DEF Tick, mutexVars
<1>10. CASE \E d \in Device : DevWait(d)
  BY <1>2, <1>10 DEF DevWait, mutexVars
<1>11. CASE MutexCall
  BY <1>2, <1>3, <1>4, <1>6, <1>7, <1>8, <1>11
     DEF MutexCall, MutexCreateRefused, MutexLockRefused, MutexLockSleep,
         MutexUnlockRefused, mutexVars
<1>12. CASE UNCHANGED vars
  BY <1>2, <1>12 DEF vars, mutexVars
<1> QED
  BY <1>9, <1>10, <1>11, <1>12 DEF Next

(* The task a mutex records as its holder has locked it and not unlocked   *)
(* it, however the calls of the tasks and the timer interrupts interleave. *)
THEOREM RecordedHolderHasLocked == Spec => []HolderHasLocked
<1>1. IInv /\ HolderHasLocked /\ [Next]_vars => HolderHasLocked'
  BY HolderNext
<1> QED
  BY HolderInit, Invariance, <1>1, PTL DEF Spec

-----------------------------------------------------------------------------
(* Whoever is inside mutex_lock is not recorded as the user of that mutex: *)
(* only its own last step records it.                                      *)
NotYetRecorded ==
    \A t \in TCB : pc[t] # "user" => gtMutex[arg[t]].pHolding_Tcb # t

LEMMA NotYetInit == Init => NotYetRecorded
BY DEF Init, NotYetRecorded

(* How an action may change the record of one mutex.                       *)
LEMMA RecordOfOne ==
    ASSUME IInv, NotYetRecorded, NEW m \in Mutex, NEW h \in {cur_tcb, NULL},
           cur_tcb # NULL, pc' \in {pc, [pc EXCEPT ![cur_tcb] = "user"]}, pc'[cur_tcb] = "user",
           \A t \in TCB \ {cur_tcb} : arg'[t] = arg[t],
           \A n \in Mutex : gtMutex'[n].pHolding_Tcb =
               IF n = m THEN h ELSE gtMutex[n].pHolding_Tcb
    PROVE  NotYetRecorded'
<1>1. MutexTypeOK /\ NULL \notin TCB /\ cur_tcb \in TCB
  BY NullAssumption, RunningTask DEF IInv, TypeOK
<1>2. \A t \in TCB : pc'[t] # "user" => t # cur_tcb /\ pc[t] # "user" /\ arg'[t] = arg[t] /\ arg[t] \in Mutex
  BY <1>1 DEF MutexTypeOK
<1> QED
  BY <1>1, <1>2 DEF NotYetRecorded

LEMMA NotYetNext == IInv /\ NotYetRecorded /\ [Next]_vars => NotYetRecorded'
<1> SUFFICES ASSUME IInv, NotYetRecorded, [Next]_vars
             PROVE  NotYetRecorded'
  OBVIOUS
<1>1. MutexTypeOK
  BY DEF IInv, TypeOK
<1>2. CASE UNCHANGED <<gtMutex, pc, arg>>
  BY <1>2 DEF NotYetRecorded
<1>3. CASE MutexCreate
  <2>1. PICK j \in Mutex : gtMutex' = [gtMutex EXCEPT ![j].bAvailable = FALSE]
    BY <1>3 DEF MutexCreate
  <2>2. \A m \in Mutex : gtMutex'[m].pHolding_Tcb = gtMutex[m].pHolding_Tcb
    BY <1>1, <2>1 DEF MutexTypeOK
  <2> QED
    BY <1>1, <1>3, <2>2 DEF MutexCreate, NotYetRecorded, MutexTypeOK
<1>4. CASE MutexLockFlag
  <2>1. \A m \in Mutex : gtMutex'[m].pHolding_Tcb = gtMutex[m].pHolding_Tcb
    BY <1>1, <1>4 DEF MutexLockFlag, MutexTypeOK
  <2>2. \A t \in TCB : pc'[t] # "user" => pc[t] # "user"
    BY <1>1, <1>4 DEF MutexLockFlag, MutexTypeOK
  <2> QED
    BY <1>1, <1>4, <2>1, <2>2 DEF MutexLockFlag, NotYetRecorded, MutexTypeOK
<1>5. CASE MutexLockHolder
  <2>1. cur_tcb # NULL /\ cur_tcb \in TCB /\ arg[cur_tcb] \in Mutex
    BY <1>5, RunningTask DEF MutexLockHolder
  <2>2. \A n \in Mutex : gtMutex'[n].pHolding_Tcb =
            IF n = arg[cur_tcb] THEN cur_tcb ELSE gtMutex[n].pHolding_Tcb
    BY <1>1, <1>5, <2>1 DEF MutexLockHolder, MutexTypeOK
  <2>3. /\ pc' = [pc EXCEPT ![cur_tcb] = "user"] /\ pc'[cur_tcb] = "user"
        /\ \A t \in TCB \ {cur_tcb} : arg'[t] = arg[t]
    BY <1>1, <1>5, <2>1 DEF MutexLockHolder, MutexTypeOK
  <2> QED
    BY <2>1, <2>2, <2>3, RecordOfOne
<1>6. ASSUME NEW n, MutexLockFree(n)
      PROVE  NotYetRecorded'
  <2>1. cur_tcb # NULL /\ n \in Mutex /\ pc[cur_tcb] = "user"
    BY <1>6 DEF MutexLockFree, MayLock, InUserCode, ValidMutex
  <2>2. \A m \in Mutex : gtMutex'[m].pHolding_Tcb =
            IF m = n THEN cur_tcb ELSE gtMutex[m].pHolding_Tcb
    BY <1>1, <1>6, <2>1 DEF MutexLockFree, MutexTypeOK
  <2> QED
    BY <1>6, <2>1, <2>2, RecordOfOne DEF MutexLockFree
<1>7. ASSUME NEW n, MutexUnlock(n)
      PROVE  NotYetRecorded'
  <2>1. cur_tcb # NULL /\ n \in Mutex /\ pc[cur_tcb] = "user"
    BY <1>7 DEF MutexUnlock, InUserCode, ValidMutex
  <2>2. \A m \in Mutex : gtMutex'[m].pHolding_Tcb =
            IF m = n THEN NULL ELSE gtMutex[m].pHolding_Tcb
    BY <1>1, <1>7, <2>1 DEF MutexUnlock, released, MutexTypeOK
  <2> QED
    BY <1>7, <2>1, <2>2, RecordOfOne DEF MutexUnlock
<1>8. ASSUME NEW n, MutexLockSleep(n)
      PROVE  NotYetRecorded'
  <2>1. cur_tcb \in TCB /\ n \in Mutex /\ gtMutex[n].pHolding_Tcb # cur_tcb
    BY <1>8, RunningTask DEF MutexLockSleep, MayLock, InUserCode, ValidMutex
  <2>2. \A t \in TCB : IF t = cur_tcb THEN arg'[t] = n
                        ELSE pc'[t] = pc[t] /\ arg'[t] = arg[t]
    BY <1>1, <1>8, <2>1 DEF MutexLockSleep, MutexTypeOK
  <2> QED
    BY <1>8, <2>1, <2>2 DEF MutexLockSleep, NotYetRecorded
<1>9. CASE Tick
  BY <1>2, <1>9 DEF Tick, mutexVars
<1>10. CASE \E d \in Device : DevWait(d)
  BY <1>2, <1>10 DEF DevWait, mutexVars
<1>11. CASE MutexCall
  BY <1>2, <1>3, <1>4, <1>5, <1>6, <1>7, <1>8, <1>11
     DEF MutexCall, MutexCreateRefused, MutexLockRefused, MutexUnlockRefused, mutexVars
<1>12. CASE UNCHANGED vars
  BY <1>2, <1>12 DEF vars, mutexVars
<1> QED
  BY <1>9, <1>10, <1>11, <1>12 DEF Next

(* One step with a true record.  First the steps that do not touch what    *)
(* the record is about, then a mutex that becomes free or its taker's.     *)
LEMMA RecordUntouched ==
    ASSUME IInv, MutexRecordIsTrue, held' = held,
           \A m \in Mutex : /\ gtMutex'[m].pHolding_Tcb = gtMutex[m].pHolding_Tcb
                            /\ gtMutex[m].bLock => gtMutex'[m].bLock
    PROVE  MutexRecordIsTrue'
BY DEF MutexRecordIsTrue, HolderIsRecorded, FlagTellsLocked

LEMMA RecordTaken ==
    ASSUME IInv, HolderHasLocked, MutexRecordIsTrue, cur_tcb # NULL, NEW n \in Mutex,
           gtMutex[n].pHolding_Tcb # cur_tcb,
           \A m \in Mutex : IF m = n THEN gtMutex'[m].pHolding_Tcb = cur_tcb
                             ELSE gtMutex'[m] = gtMutex[m],
           held' = [held EXCEPT ![cur_tcb] = @ \cup {n}]
    PROVE  MutexRecordIsTrue' <=> gtMutex[n].pHolding_Tcb = NULL /\ gtMutex'[n].bLock
<1>1. MutexTypeOK /\ NULL \notin TCB /\ cur_tcb \in TCB
  BY NullAssumption, RunningTask DEF IInv, TypeOK
<1>2. \A t \in TCB : held'[t] = IF t = cur_tcb THEN held[t] \cup {n} ELSE held[t]
  BY <1>1 DEF MutexTypeOK
<1>3. gtMutex'[n].pHolding_Tcb # NULL
  BY <1>1
<1>4. ASSUME gtMutex[n].pHolding_Tcb = NULL, gtMutex'[n].bLock
      PROVE  MutexRecordIsTrue'
  <2>1. \A t \in TCB : n \notin held[t]
    BY <1>1, <1>4 DEF MutexRecordIsTrue, HolderIsRecorded
  <2> QED
    BY <1>1, <1>2, <1>4, <2>1 DEF MutexRecordIsTrue, HolderIsRecorded, FlagTellsLocked
<1>5. ASSUME gtMutex[n].pHolding_Tcb # NULL
      PROVE  ~MutexRecordIsTrue'
  <2>1. /\ gtMutex[n].pHolding_Tcb \in TCB
        /\ n \in held[gtMutex[n].pHolding_Tcb]
    BY <1>1, <1>5 DEF MutexTypeOK, HolderHasLocked
  <2>2. n \in held'[gtMutex[n].pHolding_Tcb]
    BY <1>2, <2>1
  <2> QED
    BY <2>1, <2>2 DEF MutexRecordIsTrue, HolderIsRecorded
<1>6. ~gtMutex'[n].bLock => ~MutexRecordIsTrue'
  BY <1>3 DEF MutexRecordIsTrue, FlagTellsLocked
<1> QED
  BY <1>4, <1>5, <1>6

LEMMA RecordStep ==
    ASSUME IInv, HolderHasLocked, NotYetRecorded, MutexRecordIsTrue, [Next]_vars
    PROVE  MutexRecordIsTrue' <=> ~TakenUnseen
<1>1. MutexTypeOK
  BY DEF IInv, TypeOK
<1>2. CASE UNCHANGED <<gtMutex, held, pc>>
  BY <1>2, RecordUntouched DEF TakenUnseen
<1>3. CASE MutexCreate
  <2>1. PICK j \in Mutex : gtMutex' = [gtMutex EXCEPT ![j].bAvailable = FALSE]
    BY <1>3 DEF MutexCreate
  <2>2. \A m \in Mutex : /\ gtMutex'[m].pHolding_Tcb = gtMutex[m].pHolding_Tcb
                         /\ gtMutex'[m].bLock = gtMutex[m].bLock
    BY <1>1, <2>1 DEF MutexTypeOK
  <2> QED
    BY <1>3, <2>2, RecordUntouched DEF MutexCreate, TakenUnseen
<1>4. CASE MutexLockFlag
  <2>1. \A m \in Mutex : /\ gtMutex'[m].pHolding_Tcb = gtMutex[m].pHolding_Tcb
                         /\ gtMutex[m].bLock => gtMutex'[m].bLock
    BY <1>1, <1>4 DEF MutexLockFlag, MutexTypeOK
  <2> QED
    BY <1>4, <2>1, RecordUntouched DEF MutexLockFlag, TakenUnseen
<1>5. CASE MutexLockHolder
  <2> DEFINE n == arg[cur_tcb]
  <2>1. cur_tcb # NULL /\ cur_tcb \in TCB /\ n \in Mutex
    BY <1>5, RunningTask DEF MutexLockHolder
  <2>2. gtMutex[n].pHolding_Tcb # cur_tcb
    BY <1>5, <2>1 DEF MutexLockHolder, NotYetRecorded
  <2>3. /\ \A m \in Mutex : IF m = n THEN gtMutex'[m].pHolding_Tcb = cur_tcb
                             ELSE gtMutex'[m] = gtMutex[m]
        /\ gtMutex'[n].bLock = gtMutex[n].bLock
        /\ pc[cur_tcb] = "lock_holder" /\ pc'[cur_tcb] = "user"
    BY <1>1, <1>5, <2>1 DEF MutexLockHolder, MutexTypeOK
  <2>4. held' = [held EXCEPT ![cur_tcb] = @ \cup {n}]
    BY <1>5 DEF MutexLockHolder
  <2>5. MutexRecordIsTrue' <=> gtMutex[n].pHolding_Tcb = NULL /\ gtMutex'[n].bLock
    <3> HIDE DEF n
    <3> QED
      BY <2>1, <2>2, <2>3, <2>4, RecordTaken
  <2> QED
    BY <2>1, <2>3, <2>5 DEF TakenUnseen
<1>6. ASSUME NEW n, MutexLockFree(n)
      PROVE  MutexRecordIsTrue' /\ ~TakenUnseen
  <2>1. /\ cur_tcb # NULL /\ n \in Mutex /\ pc[cur_tcb] = "user"
        /\ gtMutex[n].pHolding_Tcb # cur_tcb /\ ~gtMutex[n].bLock
    BY <1>6 DEF MutexLockFree, MayLock, InUserCode, ValidMutex
  <2>2. /\ \A m \in Mutex : IF m = n THEN gtMutex'[m].pHolding_Tcb = cur_tcb
                             ELSE gtMutex'[m] = gtMutex[m]
        /\ gtMutex'[n].bLock
    BY <1>1, <1>6, <2>1 DEF MutexLockFree, MutexTypeOK
  <2>3. gtMutex[n].pHolding_Tcb = NULL
    BY <2>1 DEF MutexRecordIsTrue, FlagTellsLocked
  <2>4. held' = [held EXCEPT ![cur_tcb] = @ \cup {n}]
    BY <1>6 DEF MutexLockFree
  <2>5. MutexRecordIsTrue'
    BY <2>1, <2>2, <2>3, <2>4, RecordTaken
  <2> QED
    BY <2>1, <2>5 DEF TakenUnseen
<1>7. ASSUME NEW n, MutexUnlock(n)
      PROVE  MutexRecordIsTrue' /\ ~TakenUnseen
  <2>1. /\ cur_tcb \in TCB /\ n \in Mutex /\ pc[cur_tcb] = "user"
        /\ gtMutex[n].pHolding_Tcb = cur_tcb
    BY <1>7, RunningTask DEF MutexUnlock, InUserCode, ValidMutex
  <2>2. \A m \in Mutex : IF m = n THEN gtMutex'[m].pHolding_Tcb = NULL
                         ELSE gtMutex'[m] = gtMutex[m]
    BY <1>1, <1>7, <2>1 DEF MutexUnlock, released, MutexTypeOK
  <2>3. \A t \in TCB : held'[t] = IF t = cur_tcb THEN held[t] \ {n} ELSE held[t]
    BY <1>1, <1>7, <2>1 DEF MutexUnlock, MutexTypeOK
  <2>4. MutexRecordIsTrue'
    <3>1. ASSUME NEW m \in Mutex, NEW t \in TCB, m \in held'[t]
          PROVE  m # n /\ m \in held[t]
      <4>1. n \in held[t] => t = cur_tcb
        BY <2>1 DEF MutexRecordIsTrue, HolderIsRecorded
      <4> QED
        BY <2>3, <3>1, <4>1
    <3>2. HolderIsRecorded'
      BY <2>2, <3>1 DEF MutexRecordIsTrue, HolderIsRecorded
    <3>3. FlagTellsLocked'
      BY <2>2 DEF MutexRecordIsTrue, FlagTellsLocked
    <3> QED
      BY <3>2, <3>3 DEF MutexRecordIsTrue
  <2> QED
    BY <2>1, <2>4 DEF TakenUnseen
<1>8. ASSUME NEW n, MutexLockSleep(n)
      PROVE  MutexRecordIsTrue' /\ ~TakenUnseen
  BY <1>8, RecordUntouched DEF MutexLockSleep, MayLock, InUserCode, TakenUnseen
<1>9. CASE Tick
  BY <1>2, <1>9 DEF Tick, mutexVars
<1>10. CASE \E d \in Device : DevWait(d)
  BY <1>2, <1>10 DEF DevWait, mutexVars
<1>11. CASE MutexCall
  BY <1>2, <1>3, <1>4, <1>5, <1>6, <1>7, <1>8, <1>11
     DEF MutexCall, MutexCreateRefused, MutexLockRefused, MutexUnlockRefused, mutexVars
<1>12. CASE UNCHANGED vars
  BY <1>2, <1>12 DEF vars, mutexVars
<1> QED
  BY <1>9, <1>10, <1>11, <1>12 DEF Next

(* The record of who uses a mutex, once true, stays true until a woken     *)
(* sleeper takes the mutex without having looked, and no longer.           *)
THEOREM RecordLostByUnseenTaking == Spec => RecordLostIffTakenUnseen
<1>1. IInv /\ HolderHasLocked /\ NotYetRecorded /\ [Next]_vars
          => [MutexRecordIsTrue => (MutexRecordIsTrue' <=> ~TakenUnseen)]_vars
  BY RecordStep
<1>2. IInv /\ NotYetRecorded /\ [Next]_vars => NotYetRecorded'
  BY NotYetNext
<1> QED
  BY <1>1, <1>2, NotYetInit, Invariance, RecordedHolderHasLocked, PTL
     DEF Spec, RecordLostIffTakenUnseen

-----------------------------------------------------------------------------
(* The strengthening NoLostWakeup needs: whoever sleeps on a mutex is      *)
(* inside mutex_lock for that mutex, so that waking it makes it a claimer. *)
SleepersAreLocking ==
    \A t \in TCB, m \in Mutex :
        Asleep(t, MutexQueue(m)) => pc[t] = "lock_flag" /\ arg[t] = m

WakeInv == NoLostWakeup /\ SleepersAreLocking

LEMMA WakeInit == Init => WakeInv
<1> SUFFICES ASSUME Init
             PROVE  WakeInv
  OBVIOUS
<1>1. \A m \in Mutex : ~gtMutex[m].bLock /\ sleep_queue[MutexQueue(m)] = <<>>
  BY MutexQueueIsQueue DEF Init, mutex_init
<1> QED
  BY <1>1 DEF WakeInv, NoLostWakeup, SleepersAreLocking, Asleep

(* The steps after which the mutexes, the claims and the queues of         *)
(* sleepers are as before.                                                 *)
LEMMA WakeUnchanged ==
    ASSUME WakeInv, UNCHANGED <<pc, arg>>,
           \A m \in Mutex : /\ gtMutex'[m].bLock = gtMutex[m].bLock
                            /\ gtMutex'[m].pHolding_Tcb = gtMutex[m].pHolding_Tcb
                            /\ sleep_queue'[MutexQueue(m)] = sleep_queue[MutexQueue(m)]
    PROVE  WakeInv'
BY DEF WakeInv, NoLostWakeup, SleepersAreLocking, Claims, Asleep

LEMMA WakeTick == IInv /\ WakeInv /\ Tick => WakeInv'
BY WakeUnchanged, MutexQueueIsQueue DEF Tick, mutexVars, dev_update_sleepers

LEMMA WakeDevWait ==
    ASSUME IInv, WakeInv, NEW d \in Device, DevWait(d)
    PROVE  WakeInv'
<1>1. \A m \in Mutex : sleep_queue'[MutexQueue(m)] = sleep_queue[MutexQueue(m)]
  BY MutexQueueIsQueue DEF DevWait, dev_wait, IInv, TypeOK, SchedTypeOK
<1> QED
  BY <1>1, WakeUnchanged DEF DevWait, mutexVars

LEMMA WakeCreate == IInv /\ WakeInv /\ MutexCreate => WakeInv'
<1> SUFFICES ASSUME IInv, WakeInv, MutexCreate
             PROVE  WakeInv'
  OBVIOUS
<1>1. PICK j \in Mutex : gtMutex' = [gtMutex EXCEPT ![j].bAvailable = FALSE]
  BY DEF MutexCreate
<1>2. \A m \in Mutex : /\ gtMutex'[m].bLock = gtMutex[m].bLock
                       /\ gtMutex'[m].pHolding_Tcb = gtMutex[m].pHolding_Tcb
  BY <1>1 DEF IInv, TypeOK, MutexTypeOK
<1> QED
  BY <1>2, WakeUnchanged DEF MutexCreate, schedVars

LEMMA WakeLockFree ==
    ASSUME IInv, WakeInv, NEW n, MutexLockFree(n)
    PROVE  WakeInv'
<1>1. cur_tcb \in TCB /\ n \in Mutex
  BY RunningTask DEF MutexLockFree, MayLock, InUserCode, ValidMutex
<1>2. \A m \in Mutex :
          IF m = n THEN gtMutex'[m].pHolding_Tcb = cur_tcb ELSE gtMutex'[m] = gtMutex[m]
  BY <1>1 DEF MutexLockFree, IInv, TypeOK, MutexTypeOK
<1>3. UNCHANGED <<pc, arg, sleep_queue>>
  BY DEF MutexLockFree, schedVars
<1> QED
  BY <1>1, <1>2, <1>3, NullAssumption
     DEF WakeInv, NoLostWakeup, SleepersAreLocking, Claims, Asleep

(* The running task falls asleep: somebody else must claim the mutex.      *)
LEMMA WakeLockSleep ==
    ASSUME IInv, WakeInv, NEW n, MutexLockSleep(n)
    PROVE  WakeInv'
<1>1. /\ cur_tcb \in TCB /\ n \in Mutex /\ gtMutex[n].bLock /\ pc[cur_tcb] = "user"
      /\ UNCHANGED gtMutex
      /\ \A w \in SleepQueues : ~Asleep(cur_tcb, w)
  BY RunningTask DEF MutexLockSleep, MayLock, InUserCode, ValidMutex
<1>2. \A t \in TCB : /\ pc'[t] = IF t = cur_tcb THEN "lock_flag" ELSE pc[t]
                     /\ arg'[t] = IF t = cur_tcb THEN n ELSE arg[t]
  BY <1>1 DEF MutexLockSleep, IInv, TypeOK, MutexTypeOK
<1>3. \A m \in Mutex : sleep_queue'[MutexQueue(m)] =
          IF m = n THEN Append(sleep_queue[MutexQueue(m)], cur_tcb)
          ELSE sleep_queue[MutexQueue(m)]
  BY <1>1, MutexQueueIsQueue DEF MutexLockSleep, IInv, TypeOK, SchedTypeOK
<1>4. \A m \in Mutex : sleep_queue[MutexQueue(m)] \in Seq(TCB)
  BY MutexQueueIsQueue DEF IInv, TypeOK, SchedTypeOK
<1>5. \A t \in TCB, m \in Mutex :
          Asleep(t, MutexQueue(m))' <=> Asleep(t, MutexQueue(m)) \/ (t = cur_tcb /\ m = n)
  <2> SUFFICES ASSUME NEW t \in TCB, NEW m \in Mutex
               PROVE  Asleep(t, MutexQueue(m))'
                          <=> Asleep(t, MutexQueue(m)) \/ (t = cur_tcb /\ m = n)
    OBVIOUS
  <2>2. CASE m = n
    <3>1. sleep_queue'[MutexQueue(m)] = Append(sleep_queue[MutexQueue(m)], cur_tcb)
      BY <1>3, <2>2
    <3> QED
      BY <1>1, <1>4, <2>2, <3>1, AppendHolds DEF Asleep
  <2>3. CASE m # n
    BY <1>3, <2>3 DEF Asleep
  <2> QED
    BY <2>2, <2>3
<1>6. \A t \in TCB, m \in Mutex : Claims(t, m) => Claims(t, m)'
  BY <1>1, <1>2, <1>5 DEF Claims
<1>7. SleepersAreLocking'
  BY <1>1, <1>2, <1>5, MutexQueueIsQueue DEF WakeInv, SleepersAreLocking
<1>8. NoLostWakeup'
  BY <1>1, <1>3, <1>6 DEF WakeInv, NoLostWakeup
<1> QED
  BY <1>7, <1>8 DEF WakeInv

LEMMA WakeLockFlag == IInv /\ WakeInv /\ MutexLockFlag => WakeInv'
<1> SUFFICES ASSUME IInv, WakeInv, MutexLockFlag
             PROVE  WakeInv'
  OBVIOUS
<1>1. /\ cur_tcb \in TCB /\ arg[cur_tcb] \in Mutex
      /\ \A w \in SleepQueues : ~Asleep(cur_tcb, w)
      /\ UNCHANGED <<arg, sleep_queue, cur_tcb>>
  BY RunningTask DEF MutexLockFlag, schedVars
<1>2. \A t \in TCB : pc'[t] = IF t = cur_tcb THEN "lock_holder" ELSE pc[t]
  BY DEF MutexLockFlag, IInv, TypeOK, MutexTypeOK
<1>3. \A m \in Mutex : /\ gtMutex'[m].pHolding_Tcb = gtMutex[m].pHolding_Tcb
                       /\ m # arg[cur_tcb] => gtMutex'[m].bLock = gtMutex[m].bLock
  BY <1>1 DEF MutexLockFlag, IInv, TypeOK, MutexTypeOK
<1>4. \A t \in TCB, m \in Mutex : Claims(t, m) => Claims(t, m)'
  BY <1>1, <1>2 DEF Claims, Asleep
<1>5. Claims(cur_tcb, arg[cur_tcb])'
  BY <1>1, <1>2, MutexQueueIsQueue DEF Claims, Asleep
<1>6. SleepersAreLocking'
  BY <1>1, <1>2, MutexQueueIsQueue DEF WakeInv, SleepersAreLocking, Asleep
<1>7. NoLostWakeup'
  BY <1>1, <1>3, <1>4, <1>5 DEF WakeInv, NoLostWakeup
<1> QED
  BY <1>6, <1>7 DEF WakeInv

LEMMA WakeLockHolder == IInv /\ WakeInv /\ MutexLockHolder => WakeInv'
<1> SUFFICES ASSUME IInv, WakeInv, MutexLockHolder
             PROVE  WakeInv'
  OBVIOUS
<1>1. /\ cur_tcb \in TCB /\ arg[cur_tcb] \in Mutex
      /\ \A w \in SleepQueues : ~Asleep(cur_tcb, w)
      /\ UNCHANGED sleep_queue
  BY RunningTask DEF MutexLockHolder, schedVars
<1>2. \A t \in TCB : t # cur_tcb => pc'[t] = pc[t] /\ arg'[t] = arg[t]
  BY DEF MutexLockHolder, IInv, TypeOK, MutexTypeOK
<1>3. \A m \in Mutex : IF m = arg[cur_tcb] THEN gtMutex'[m].pHolding_Tcb = cur_tcb
                                           ELSE gtMutex'[m] = gtMutex[m]
  BY <1>1 DEF MutexLockHolder, IInv, TypeOK, MutexTypeOK
<1>4. \A t \in TCB, m \in Mutex : Claims(t, m) /\ m # arg[cur_tcb] => Claims(t, m)'
  BY <1>2, <1>1 DEF Claims, Asleep
<1>5. SleepersAreLocking'
  BY <1>1, <1>2, MutexQueueIsQueue DEF WakeInv, SleepersAreLocking, Asleep
<1>6. NoLostWakeup'
  BY <1>1, <1>3, <1>4, NullAssumption DEF WakeInv, NoLostWakeup
<1> QED
  BY <1>5, <1>6 DEF WakeInv

(* The holder goes, and the first sleeper becomes a claimer.               *)
LEMMA WakeUnlock ==
    ASSUME IInv, WakeInv, NEW n, MutexUnlock(n)
    PROVE  WakeInv'
<1> DEFINE w == MutexQueue(n)
<1>1. /\ n \in Mutex /\ w \in SleepQueues
      /\ UNCHANGED <<pc, arg>>
      /\ sleep_queue \in [SleepQueues -> Seq(TCB)]
  BY MutexQueueIsQueue DEF MutexUnlock, ValidMutex, IInv, TypeOK, SchedTypeOK
<1>2. /\ ~gtMutex'[n].bLock
      /\ \A m \in Mutex : m # n => gtMutex'[m] = gtMutex[m]
  BY <1>1 DEF MutexUnlock, released, IInv, TypeOK, MutexTypeOK
<1>3. CASE sleep_queue[w] = <<>>
  <2>1. UNCHANGED sleep_queue
    BY <1>3 DEF MutexUnlock, wake_first
  <2> QED
    BY <1>1, <1>2, <1>3, <2>1
       DEF WakeInv, NoLostWakeup, SleepersAreLocking, Claims, Asleep
<1>4. CASE sleep_queue[w] # <<>>
  <2>1. sleep_queue' = [sleep_queue EXCEPT ![w] = Tail(@)]
    BY <1>4 DEF MutexUnlock, wake_first, unlinked
  <2>2. \A m \in Mutex : sleep_queue'[MutexQueue(m)] =
            IF m = n THEN Tail(sleep_queue[w]) ELSE sleep_queue[MutexQueue(m)]
    BY <1>1, <2>1, MutexQueueIsQueue
  <2> PICK h \in TCB : h = Head(sleep_queue[w])
    BY <1>1, <1>4
  <2>3. /\ sleep_queue[w][1] = h /\ 1 \in 1 .. Len(sleep_queue[w])
        /\ Len(Tail(sleep_queue[w])) = Len(sleep_queue[w]) - 1
        /\ \A i \in 1 .. Len(Tail(sleep_queue[w])) :
             /\ i + 1 \in 1 .. Len(sleep_queue[w])
             /\ Tail(sleep_queue[w])[i] = sleep_queue[w][i + 1]
    BY <1>1, <1>4
  <2>4. \A t \in TCB, m \in Mutex : Asleep(t, MutexQueue(m))' => Asleep(t, MutexQueue(m))
    BY <2>2, <2>3 DEF Asleep
  <2>5. ~Asleep(h, w)'
    <3> SUFFICES ASSUME NEW i \in 1 .. Len(Tail(sleep_queue[w])),
                        Tail(sleep_queue[w])[i] = h
                 PROVE  FALSE
      BY <1>1, <2>2 DEF Asleep
    <3>1. sleep_queue[w][i + 1] = sleep_queue[w][1] /\ i + 1 \in 1 .. Len(sleep_queue[w])
      BY <2>3
    <3>2. i + 1 = 1
      BY <1>1, <2>3, <3>1 DEF IInv, OnePlace, NowhereTwice
    <3> QED
      BY <3>2
  <2>6. Asleep(h, w)
    BY <2>3 DEF Asleep
  <2>7. Claims(h, n)'
    BY <1>1, <2>3, <2>5, <2>6 DEF Claims, WakeInv, SleepersAreLocking
  <2>8. \A t \in TCB, m \in Mutex : Claims(t, m) => Claims(t, m)'
    BY <1>1, <2>4 DEF Claims
  <2>9. SleepersAreLocking'
    BY <1>1, <2>4 DEF WakeInv, SleepersAreLocking
  <2>10. NoLostWakeup'
    BY <1>2, <2>2, <2>3, <2>7, <2>8 DEF WakeInv, NoLostWakeup
  <2> QED
    BY <2>9, <2>10 DEF WakeInv
<1> QED
  BY <1>3, <1>4

LEMMA WakeNext == IInv /\ WakeInv /\ [Next]_vars => WakeInv'
<1> SUFFICES ASSUME IInv, WakeInv, [Next]_vars
             PROVE  WakeInv'
  OBVIOUS
<1>1. CASE UNCHANGED <<schedVars, mutexVars>>
  BY <1>1, WakeUnchanged DEF schedVars, mutexVars
<1>2. CASE MutexCall
  BY <1>1, <1>2, WakeCreate, WakeLockFree, WakeLockSleep, WakeLockFlag, WakeLockHolder,
     WakeUnlock
     DEF MutexCall, MutexCreateRefused, MutexLockRefused, MutexUnlockRefused
<1> QED
  BY <1>1, <1>2, WakeTick, WakeDevWait DEF Next, vars

(* No wake-up is lost: whatever the interleaving, a locked mutex or one    *)
(* with sleepers has a holder or a task inside mutex_lock that is awake    *)
(* and about to become it.                                                 *)
THEOREM WakeupsAreKept == Spec => []NoLostWakeup
<1>1. WakeInv => NoLostWakeup
  BY DEF WakeInv
<1> QED
  BY WakeInit, Invariance, WakeNext, <1>1, PTL DEF Spec
-----------------------------------------------------------------------------
(***************************************************************************)
(* Who gets the processor: the most urgent task, and always some task,     *)
(* provided that the idle task keeps its control block and the interrupt   *)
(* handler does not call dispatch_save with an empty run queue.  Then, the *)
(* clock: whoever waits for a device is woken by an interrupt to come.     *)
(***************************************************************************)
(* What a dispatch takes from a queue with every task in its own slot.     *)
LEMMA TakesMostUrgent ==
    ASSUME NEW q, QueueOK(q), OwnSlots(q)
    PROVE  /\ Occupied(q) # {} =>
                /\ take_highest(q).cur_tcb = highest_prio(q)
                /\ take_highest(q).cur_tcb \in Prio
           /\ Occupied(q) = {} => take_highest(q).cur_tcb = NULL
           /\ \A p \in Prio : take_highest(q).rq.run_list[p] # NULL =>
                /\ q.run_list[p] # NULL
                /\ take_highest(q).cur_tcb < p
<1> DEFINE h == highest_prio(q)
<1>1. /\ h \in Prio
      /\ take_highest(q).rq.run_list = [q.run_list EXCEPT ![h] = NULL]
      /\ take_highest(q).cur_tcb = q.run_list[h]
  BY TakeFacts
<1>2. Occupied(q) # {} => h \in Occupied(q) /\ \A p \in Occupied(q) : h <= p
  BY HighestIsMostUrgent DEF QueueOK
<1> HIDE DEF h
<1>3. Occupied(q) # {} => take_highest(q).cur_tcb = h
  BY <1>1, <1>2 DEF OwnSlots, Occupied
<1>4. Occupied(q) = {} => take_highest(q).cur_tcb = NULL
  BY <1>1 DEF Occupied
<1>5. ASSUME NEW p \in Prio, take_highest(q).rq.run_list[p] # NULL
      PROVE  q.run_list[p] # NULL /\ take_highest(q).cur_tcb < p
  <2>1. p # h /\ q.run_list[p] # NULL
    BY <1>1, <1>5 DEF QueueOK, RunQueueType
  <2>2. h <= p /\ take_highest(q).cur_tcb = h
    BY <1>2, <1>3, <2>1 DEF Occupied
  <2> QED
    BY <1>1, <2>1, <2>2, OSMaxTasksAssumption DEF Prio
<1> QED
  BY <1>1, <1>3, <1>4, <1>5 DEF h

(* The same when the running task goes back to its slot.                   *)
LEMMA SaveTakesMostUrgent ==
    ASSUME NEW q, QueueOK(q), OwnSlots(q),
           cur_tcb \in TCB, system_tcb[cur_tcb].native_prio = cur_tcb
    PROVE  /\ Occupied(q) # {} =>
                /\ dispatch_save(q).cur_tcb = highest_prio(q)
                /\ dispatch_save(q).cur_tcb \in Prio
           /\ \A p \in Prio \ {cur_tcb} : dispatch_save(q).rq.run_list[p] # NULL =>
                /\ q.run_list[p] # NULL
                /\ dispatch_save(q).cur_tcb < p
<1>1. /\ dispatch_save(q).cur_tcb = take_highest(q).cur_tcb
      /\ dispatch_save(q).rq = runqueue_add(take_highest(q).rq, cur_tcb, cur_tcb)
  BY DEF dispatch_save
<1>2. take_highest(q).rq \in RunQueueType /\ cur_tcb \in Prio
  BY TakeFacts, SystemTcbAssumption DEF QueueOK
<1>3. runqueue_add(take_highest(q).rq, cur_tcb, cur_tcb).run_list =
          [take_highest(q).rq.run_list EXCEPT ![cur_tcb] = cur_tcb]
  BY <1>2, AddType
<1>4. \A p \in Prio \ {cur_tcb} :
          dispatch_save(q).rq.run_list[p] = take_highest(q).rq.run_list[p]
  BY <1>1, <1>2, <1>3 DEF RunQueueType
<1> QED
  BY <1>1, <1>4, TakesMostUrgent

(* The queue that dev_update leaves to the interrupt handler.              *)
LEMMA TickQueue ==
    ASSUME IInv, cur_tcb # NULL, NEW millis
    PROVE  /\ QueueOK(dev_update_queue(millis))
           /\ OwnSlots(dev_update_queue(millis))
           /\ dev_update_queue(millis).run_list[cur_tcb] = NULL
<1> DEFINE D == {DeviceQueue(d) : d \in Signalled(millis)}
<1>1. /\ QueueOK(rq)
      /\ sleep_queue \in SleepersType
      /\ CreatedTasks \in SUBSET TCB
      /\ Placed(CreatedTasks, rq, cur_tcb, sleep_queue)
      /\ cur_tcb \in TCB
      /\ \A t \in CreatedTasks : cur_prio[t] = t
  BY IInvFacts
<1>2. D \in SUBSET SleepQueues
  BY DEF Signalled, SleepQueues
<1>3. Woken(millis) = {t \in TCB : \E w \in D : SleepsIn(t, w, sleep_queue)}
  BY DEF Woken, Asleep, SleepsIn
<1> HIDE DEF D
<1>4. /\ QueueOK(dev_update_queue(millis))
      /\ Placed(CreatedTasks, dev_update_queue(millis), cur_tcb, Drained(sleep_queue, D))
  BY <1>1, <1>2, <1>3, WakeAllPlaced DEF dev_update_queue
<1> QED
  BY <1>4 DEF Placed, CurNotReady

-----------------------------------------------------------------------------
LEMMA SleepDispatches ==
    ASSUME IInv, rq' = dispatch_sleep.rq, cur_tcb' = dispatch_sleep.cur_tcb
    PROVE  \A p \in Prio : rq'.run_list[p] # NULL => cur_tcb' < p
BY IInvFacts, TakesMostUrgent DEF dispatch_sleep, Placed

(* The sleep and tick steps are the only ones that give the processor away.*)
LEMMA OthersKeepProcessor ==
    ASSUME [Next]_vars, ~Tick, ~\E d \in Device : DevWait(d),
           ~\E m \in MutexArg : MutexLockSleep(m)
    PROVE  UNCHANGED <<cur_tcb, num_of_10ms, system_tcb>>
BY DEF Next, MutexCall, MutexCreate, MutexCreateRefused, MutexLockFlag, MutexLockHolder,
       MutexLockRefused, MutexLockFree, MutexUnlockRefused, MutexUnlock,
       vars, schedVars, deviceVars

LEMMA DispatchNext ==
    ASSUME IInv, [Next]_vars, cur_tcb' # cur_tcb,
           NEW p \in Prio \ {cur_tcb}, rq'.run_list[p] # NULL
    PROVE  cur_tcb' < p
<1>1. CASE Tick
  <2> DEFINE millis == time((num_of_10ms + 1) % ULONG_RANGE)
             q      == dev_update_queue(millis)
  <2>1. cur_tcb # NULL /\ \E next \in HandlerReturns(q) : Finish(next)
    BY <1>1 DEF Tick
  <2>2. /\ QueueOK(q) /\ OwnSlots(q)
        /\ cur_tcb \in TCB /\ system_tcb[cur_tcb].native_prio = cur_tcb
    BY <2>1, TickQueue, IInvFacts
  <2> HIDE DEF q
  <2>3. rq' = dispatch_save(q).rq /\ cur_tcb' = dispatch_save(q).cur_tcb
    BY <2>1, TickDispatchAssumption DEF HandlerReturns, Stay, Finish
  <2> QED
    BY <2>2, <2>3, SaveTakesMostUrgent
<1>2. CASE \E d \in Device : DevWait(d)
  BY <1>2, SleepDispatches DEF DevWait, dev_wait
<1>3. CASE \E m \in MutexArg : MutexLockSleep(m)
  BY <1>3, SleepDispatches DEF MutexLockSleep, Finish
<1> QED
  BY <1>1, <1>2, <1>3, OthersKeepProcessor

(* Whoever gets the processor is more urgent than everyone left runnable,  *)
(* the task it displaces excepted.                                         *)
THEOREM MostUrgentDispatched == Spec => DispatchesMostUrgent
<1> DEFINE Dispatch ==
        cur_tcb' # cur_tcb =>
            \A p \in Prio \ {cur_tcb} : rq'.run_list[p] # NULL => cur_tcb' < p
<1>1. IInv /\ [Next]_vars => Dispatch
  BY DispatchNext
<1>2. IInv /\ [Next]_vars => [Dispatch]_vars
  BY <1>1
<1> QED
  BY Invariance, <1>2, PTL DEF Spec, DispatchesMostUrgent
-----------------------------------------------------------------------------
LEMMA PreemptTick ==
    ASSUME TickDispatch = "preempt", IInv, Tick,
           NEW p \in Prio, rq'.run_list[p] # NULL
    PROVE  cur_tcb' < p
<1> DEFINE millis == time((num_of_10ms + 1) % ULONG_RANGE)
           q      == dev_update_queue(millis)
           h      == highest_prio(q)
<1>1. cur_tcb # NULL /\ \E next \in HandlerReturns(q) : Finish(next)
  BY DEF Tick
<1>2. /\ QueueOK(q) /\ OwnSlots(q)
      /\ q.run_list[cur_tcb] = NULL
      /\ cur_tcb \in TCB /\ cur_tcb \in Prio
      /\ system_tcb[cur_tcb].native_prio = cur_tcb
      /\ get_cur_prio = cur_tcb
  <2>1. /\ QueueOK(q) /\ OwnSlots(q) /\ q.run_list[cur_tcb] = NULL
    BY <1>1, TickQueue
  <2>2. cur_tcb \in TCB /\ system_tcb[cur_tcb].native_prio = cur_tcb
    BY <1>1, IInvFacts
  <2>3. Created(cur_tcb)
    BY <2>2 DEF IInv, OnePlace, SomewhereIffCreated
  <2> QED
    BY <2>1, <2>2, <2>3, SystemTcbAssumption DEF IInv, PrioIsIndex, get_cur_prio
<1>3. Occupied(q) # {} => \A r \in Occupied(q) : h <= r
  BY <1>2, HighestIsMostUrgent DEF QueueOK
<1> HIDE DEF q, h
<1>4. h \in Prio
  BY <1>2, TakeFacts DEF h
<1>5. CASE Occupied(q) # {} /\ h < get_cur_prio
  <2>1. rq' = dispatch_save(q).rq /\ cur_tcb' = dispatch_save(q).cur_tcb
    BY <1>1, <1>5 DEF HandlerReturns, Finish, h
  <2>2. cur_tcb' = h
    BY <1>2, <1>5, <2>1, SaveTakesMostUrgent DEF h
  <2>3. CASE p = cur_tcb
    BY <1>2, <1>5, <2>2, <2>3
  <2>4. CASE p # cur_tcb
    BY <1>2, <2>1, <2>4, SaveTakesMostUrgent
  <2> QED
    BY <2>3, <2>4
<1>6. CASE ~(Occupied(q) # {} /\ h < get_cur_prio)
  <2>1. rq' = q /\ cur_tcb' = cur_tcb
    BY <1>1, <1>6 DEF HandlerReturns, Finish, Stay, h
  <2>2. p \in Occupied(q) /\ p # cur_tcb
    BY <1>2, <2>1 DEF Occupied
  <2> QED
    BY <1>2, <1>3, <1>4, <1>6, <2>1, <2>2, OSMaxTasksAssumption DEF Prio
<1> QED
  BY <1>5, <1>6

(* With a handler that preempts for more urgent tasks, no timer interrupt  *)
(* returns to a task while a more urgent one is runnable.                  *)
THEOREM TicksRunMostUrgent ==
    ASSUME TickDispatch = "preempt"
    PROVE  Spec => TickRunsMostUrgent
<1> DEFINE Served ==
        num_of_10ms' # num_of_10ms =>
            \A p \in Prio : rq'.run_list[p] # NULL => cur_tcb' < p
<1>1. IInv /\ [Next]_vars => Served
  <2>1. num_of_10ms' # num_of_10ms /\ [Next]_vars => Tick
    BY DEF Next, DevWait, dev_wait, deviceVars, vars
  <2> QED
    BY <2>1, PreemptTick
<1>2. IInv /\ [Next]_vars => [Served]_vars
  BY <1>1
<1> QED
  BY Invariance, <1>2, PTL DEF Spec, TickRunsMostUrgent
-----------------------------------------------------------------------------
(* An idle task that has kept its control block never sleeps.              *)
IdleKept  == system_tcb[IDLE_PRIO].lambda = "idle"
IdleAwake == IdleKept => \A w \in SleepQueues : ~Asleep(IDLE_PRIO, w)

LEMMA IdleInit ==
    ASSUME TaskCounts \subseteq 0 .. OS_MAX_TASKS - 2, Init
    PROVE  IdleKept
<1>1. PICK n \in TaskCounts : system_tcb = allocate_tasks(sched_init_tcbs(zeroed_tcbs), n)
  BY DEF Init
<1>2. IDLE_PRIO \in TCB /\ IDLE_PRIO \notin 1 .. n
  BY IdleIsPrio, OSMaxTasksAssumption DEF IDLE_PRIO
<1>3. system_tcb[IDLE_PRIO] = init_task("idle", IDLE_PRIO)
  BY <1>1, <1>2 DEF allocate_tasks, sched_init_tcbs, zeroed_tcbs
<1> QED
  BY <1>3, InitTaskFields DEF IdleKept

LEMMA IdleKeptNext == [Next]_vars => UNCHANGED IdleKept
BY DEF Next, Tick, DevWait, dev_wait, MutexCall, MutexCreate, MutexCreateRefused, MutexLockFlag,
       MutexLockHolder, MutexLockRefused, MutexLockFree, MutexLockSleep, MutexUnlockRefused,
       MutexUnlock, vars, schedVars, IdleKept

(* The idle task runs or is runnable.                                      *)
LEMMA IdleSomewhere ==
    ASSUME IInv, IdleAwake, IdleKept
    PROVE  cur_tcb = IDLE_PRIO \/ IDLE_PRIO \in Occupied(rq)
BY IdleIsPrio DEF IInv, OnePlace, SomewhereIffCreated, IdleAwake, IdleKept, Created, Occupied

(* A task that goes to sleep leaves at least the idle task runnable.       *)
LEMMA IdleSleep ==
    ASSUME IInv, IdleAwake, IdleKept, InUserCode,
           rq' = dispatch_sleep.rq, cur_tcb' = dispatch_sleep.cur_tcb
    PROVE  cur_tcb' # NULL /\ cur_tcb # IDLE_PRIO /\ Occupied(rq) # {}
<1>1. cur_tcb # IDLE_PRIO
  BY DEF InUserCode, IdleKept
<1>2. Occupied(rq) # {}
  BY <1>1, IdleSomewhere
<1>3. cur_tcb' \in Prio
  BY <1>2, IInvFacts, TakesMostUrgent DEF dispatch_sleep, Placed
<1> QED
  BY <1>1, <1>2, <1>3, SystemTcbAssumption, NullAssumption

LEMMA IdleNext ==
    ASSUME IInv, IdleAwake, [Next]_vars
    PROVE  IdleAwake'
<1> SUFFICES ASSUME IdleKept, NEW w \in SleepQueues
             PROVE  ~Asleep(IDLE_PRIO, w)'
  BY IdleKeptNext DEF IdleAwake, SleepQueues
<1>1. sleep_queue \in [SleepQueues -> Seq(TCB)] /\ ~Asleep(IDLE_PRIO, w)
  BY DEF IInv, TypeOK, SchedTypeOK, IdleAwake
<1>2. CASE Tick
  BY <1>1, <1>2 DEF Tick, dev_update_sleepers, Asleep
<1>3. CASE \E d \in Device : DevWait(d)
  <2>1. PICK d \in Device : DevWait(d)
    BY <1>3
  <2>2. cur_tcb # IDLE_PRIO /\ cur_tcb \in TCB
    BY <2>1, IdleSleep DEF DevWait, dev_wait, InUserCode, IInv, TypeOK, SchedTypeOK
  <2> QED
    BY <1>1, <2>1, <2>2 DEF DevWait, dev_wait, Asleep
<1>4. CASE \E m \in MutexArg : MutexLockSleep(m)
  <2>1. PICK m : MutexLockSleep(m)
    BY <1>4
  <2>2. cur_tcb # IDLE_PRIO /\ cur_tcb \in TCB
    BY <2>1, IdleSleep DEF MutexLockSleep, MayLock, Finish, InUserCode, IInv, TypeOK, SchedTypeOK
  <2>3. \/ sleep_queue'[w] = sleep_queue[w]
        \/ sleep_queue'[w] = Append(sleep_queue[w], cur_tcb)
    BY <1>1, <2>1 DEF MutexLockSleep
  <2>4. CASE sleep_queue'[w] = sleep_queue[w]
    BY <1>1, <2>4 DEF Asleep
  <2>5. CASE sleep_queue'[w] = Append(sleep_queue[w], cur_tcb)
    BY <1>1, <2>2, <2>5, AppendHolds DEF Asleep
  <2> QED
    BY <2>3, <2>4, <2>5
<1>5. CASE \E m \in MutexArg : MutexUnlock(m)
  <2>1. PICK m : MutexUnlock(m)
    BY <1>5
  <2>2. \/ UNCHANGED sleep_queue
        \/ /\ sleep_queue[MutexQueue(m)] # <<>>
           /\ sleep_queue' = [sleep_queue EXCEPT ![MutexQueue(m)] = Tail(@)]
    BY <2>1 DEF MutexUnlock, wake_first, unlinked
  <2> QED
    BY <1>1, <2>2 DEF Asleep
<1>6. CASE UNCHANGED schedVars
  BY <1>1, <1>6 DEF schedVars, Asleep
<1> QED
  BY <1>2, <1>3, <1>4, <1>5, <1>6
     DEF Next, MutexCall, MutexCreate, MutexCreateRefused, MutexLockFlag, MutexLockHolder,
         MutexLockRefused, MutexLockFree, MutexUnlockRefused, vars

LEMMA IdleInvariance == Spec => []IdleAwake
<1>1. Init => IdleAwake
  BY DEF Init, Asleep, IdleAwake
<1>2. IInv /\ IdleAwake /\ [Next]_vars => IdleAwake'
  BY IdleNext
<1> QED
  BY Invariance, <1>1, <1>2, PTL DEF Spec
-----------------------------------------------------------------------------
(* The clock, modulo a range of any size.                                  *)
LEMMA ModSplit ==
    ASSUME NEW u \in Nat \ {0}, NEW s \in Nat
    PROVE  /\ s \div u \in Nat
           /\ s % u \in 0 .. u - 1
           /\ s = ((s \div u) * u) + (s % u)
BY SMTT(20)

LEMMA ModUnique ==
    ASSUME NEW u \in Nat \ {0}, NEW q \in Nat, NEW r \in 0 .. u - 1
    PROVE  (q * u + r) % u = r
BY SMTT(20)

LEMMA Distributes ==
    ASSUME NEW a \in Nat, NEW b \in Nat, NEW c \in Nat
    PROVE  /\ (a + b) * c = a * c + b * c
           /\ a * c \in Nat /\ b * c \in Nat
BY SMTT(20)

LEMMA Commutes ==
    ASSUME NEW a \in Nat, NEW b \in Nat, NEW c \in Nat
    PROVE  /\ (a * b) * c = (a * c) * b
           /\ a * c \in Nat
BY SMTT(20)

LEMMA ModPlus ==
    ASSUME NEW u \in Nat \ {0}, NEW a \in Nat, NEW b \in Nat
    PROVE  ((a % u) + b) % u = (a + b) % u
<1> DEFINE q == a \div u
           r == a % u
           p == (r + b) \div u
           s == (r + b) % u
<1>1. q \in Nat /\ r \in 0 .. u - 1 /\ a = q * u + r
  BY ModSplit
<1>2. p \in Nat /\ s \in 0 .. u - 1 /\ r + b = p * u + s
  <2> HIDE DEF r
  <2>1. r + b \in Nat
    BY <1>1
  <2> QED
    BY <2>1, ModSplit
<1> HIDE DEF q, r, p, s
<1>3. q * u + p * u = (q + p) * u /\ q + p \in Nat /\ q * u \in Nat /\ p * u \in Nat
  BY <1>1, <1>2, Distributes
<1>4. a + b = (q + p) * u + s
  BY <1>1, <1>2, <1>3
<1>5. (a + b) % u = s
  BY <1>2, <1>3, <1>4, ModUnique
<1> QED
  BY <1>5 DEF r, s

LEMMA ModTimes ==
    ASSUME NEW u \in Nat \ {0}, NEW a \in Nat, NEW c \in Nat
    PROVE  ((a % u) * c) % u = (a * c) % u
<1> DEFINE q == a \div u
           r == a % u
           p == (r * c) \div u
           s == (r * c) % u
<1>1. q \in Nat /\ r \in 0 .. u - 1 /\ r \in Nat /\ a = q * u + r
  <2>1. q \in Nat /\ r \in 0 .. u - 1 /\ a = q * u + r
    BY ModSplit
  <2> HIDE DEF q, r
  <2> QED
    BY <2>1
<1>2. r * c \in Nat /\ q * u \in Nat
  BY <1>1, Distributes
<1>3. p \in Nat /\ s \in 0 .. u - 1 /\ r * c = p * u + s
  BY <1>2, ModSplit
<1> HIDE DEF q, r, p, s
<1>4. a * c = (q * u) * c + r * c
  BY <1>1, <1>2, Distributes
<1>5. (q * u) * c = (q * c) * u /\ q * c \in Nat
  BY <1>1, Commutes
<1>6. ((q * c) + p) * u = (q * c) * u + p * u
  BY <1>3, <1>5, Distributes
<1>7. a * c = ((q * c) + p) * u + s
  <2>1. (q * c) * u \in Nat /\ p * u \in Nat
    BY <1>3, <1>5, Distributes
  <2> QED
    BY <1>3, <1>4, <1>5, <1>6, <2>1
<1>8. (a * c) % u = s
  <2>1. (q * c) + p \in Nat
    BY <1>3, <1>5
  <2>2. (((q * c) + p) * u + s) % u = s
    BY <1>3, <2>1, ModUnique
  <2> QED
    BY <1>7, <2>2
<1> QED
  BY <1>8 DEF r, s

(* time() does not notice that the count of interrupts wraps around.       *)
LEMMA TimeOfTicks ==
    ASSUME NEW n \in Nat, NEW k \in Nat
    PROVE  time((n % ULONG_RANGE) + k) = time(n + k)
<1> DEFINE u == ULONG_RANGE
           r == OS_TIMER_RESOLUTION
<1>1. u \in Nat \ {0} /\ r \in Nat /\ n % u \in Nat
  BY ModSplit, DeviceAssumption
<1> HIDE DEF u, r
<1>2. ((n % u) + k) % u = (n + k) % u
  BY <1>1, ModPlus
<1>3. (n % u) + k \in Nat /\ n + k \in Nat
  BY <1>1
<1>4. ((((n % u) + k) % u) * r) % u = (((n % u) + k) * r) % u
  BY <1>1, <1>3, ModTimes
<1>5. (((n + k) % u) * r) % u = ((n + k) * r) % u
  BY <1>1, <1>3, ModTimes
<1> QED
  BY <1>2, <1>4, <1>5 DEF time, u, r

(* A period after an interrupt is an interrupt, if the period is a number  *)
(* of interrupts.                                                          *)
LEMMA PeriodLater ==
    ASSUME NEW n \in Nat, NEW k \in Nat
    PROVE  (time(n) + k * OS_TIMER_RESOLUTION) % ULONG_RANGE = time(n + k)
<1> DEFINE u == ULONG_RANGE
           r == OS_TIMER_RESOLUTION
<1>1. u \in Nat \ {0} /\ r \in Nat
  BY DeviceAssumption
<1> HIDE DEF u, r
<1>2. n * r \in Nat /\ k * r \in Nat /\ (n + k) * r = n * r + k * r
  BY <1>1, Distributes
<1>3. (((n * r) % u) + k * r) % u = (n * r + k * r) % u
  BY <1>1, <1>2, ModPlus
<1> QED
  BY <1>2, <1>3 DEF time, u, r

PeriodsAreTicks == \A d \in Device : dev_freq[d] % OS_TIMER_RESOLUTION = 0

LEMMA PeriodFacts ==
    ASSUME PeriodsAreTicks, NEW d \in Device
    PROVE  /\ dev_freq[d] \in 1 .. ULONG_RANGE - 1
           /\ dev_freq[d] \div OS_TIMER_RESOLUTION \in Nat \ {0}
           /\ dev_freq[d] = (dev_freq[d] \div OS_TIMER_RESOLUTION) * OS_TIMER_RESOLUTION
<1> DEFINE f == dev_freq[d]
           r == OS_TIMER_RESOLUTION
<1>1. f \in 1 .. ULONG_RANGE - 1 /\ f \in Nat \ {0} /\ r \in Nat \ {0} /\ f % r = 0
  BY DeviceAssumption DEF PeriodsAreTicks
<1> HIDE DEF f, r
<1>2. f \div r \in Nat /\ f = ((f \div r) * r) + (f % r)
  BY <1>1, ModSplit
<1>3. f = (f \div r) * r
  BY <1>1, <1>2, Distributes
<1>4. f \div r # 0
  <2>1. 0 * r = 0
    BY <1>1
  <2> QED
    BY <1>1, <1>3, <2>1
<1> QED
  BY <1>1, <1>2, <1>3, <1>4 DEF f, r

(* An interrupt brings every event one interrupt nearer; one that it finds *)
(* due it puts off by a period.                                            *)
LEMMA TickKeepsEvents ==
    ASSUME PeriodsAreTicks, IInv, EventsAhead, Tick
    PROVE  EventsAhead'
<1> DEFINE ticks == (num_of_10ms + 1) % ULONG_RANGE
<1>1. /\ num_of_10ms \in Nat /\ num_of_10ms + 1 \in Nat /\ ticks \in Nat
      /\ num_of_10ms' = ticks
      /\ next_match' = dev_update_match(time(ticks))
  <2>1. num_of_10ms \in Nat /\ num_of_10ms + 1 \in Nat
    BY DeviceAssumption DEF IInv, TypeOK, DeviceTypeOK, Ulong
  <2>2. ticks \in Nat
    BY <2>1, ModSplit, DeviceAssumption
  <2> QED
    BY <2>1, <2>2 DEF Tick
<1>2. \A k \in Nat : time(ticks + k) = time(num_of_10ms + 1 + k)
  BY <1>1, TimeOfTicks
<1>3. time(ticks) = time(num_of_10ms + 1)
  <2>1. ticks + 0 = ticks /\ num_of_10ms + 1 + 0 = num_of_10ms + 1
    BY <1>1
  <2> QED
    BY <1>2, <2>1
<1> HIDE DEF ticks
<1> SUFFICES ASSUME NEW d \in Device
             PROVE  \E k \in 1 .. dev_freq[d] \div OS_TIMER_RESOLUTION :
                        next_match'[d] = time(ticks + k)
  BY <1>1 DEF EventsAhead, time
<1> DEFINE n == dev_freq[d] \div OS_TIMER_RESOLUTION
<1>4. n \in Nat \ {0} /\ dev_freq[d] = n * OS_TIMER_RESOLUTION
  BY PeriodFacts
<1>5. PICK k \in 1 .. n : next_match[d] = time(num_of_10ms + k)
  BY DEF EventsAhead
<1> HIDE DEF n
<1>6. CASE d \in Signalled(time(ticks))
  <2>1. next_match'[d] = (next_match[d] + dev_freq[d]) % ULONG_RANGE
    BY <1>1, <1>6 DEF dev_update_match
  <2>2. next_match[d] = time(ticks)
    BY <1>6 DEF Signalled
  <2>3. next_match'[d] = time(ticks + n)
    BY <1>1, <1>4, <2>1, <2>2, PeriodLater
  <2> QED
    BY <1>4, <2>3 DEF n
<1>7. CASE d \notin Signalled(time(ticks))
  <2>1. next_match'[d] = next_match[d]
    BY <1>1, <1>7 DEF dev_update_match
  <2>2. k # 1
    BY <1>3, <1>5, <1>7 DEF Signalled
  <2>3. k - 1 \in 1 .. n /\ k - 1 \in Nat /\ num_of_10ms + 1 + (k - 1) = num_of_10ms + k
    BY <1>1, <1>4, <1>5, <2>2
  <2>4. next_match'[d] = time(ticks + (k - 1))
    BY <1>2, <1>5, <2>1, <2>3
  <2> QED
    BY <2>3, <2>4 DEF n
<1> QED
  BY <1>6, <1>7

LEMMA EventsAtStart == ASSUME PeriodsAreTicks, Init PROVE EventsAhead
<1> SUFFICES ASSUME NEW d \in Device
             PROVE  \E k \in 1 .. dev_freq[d] \div OS_TIMER_RESOLUTION :
                        next_match[d] = time(num_of_10ms + k)
  BY DEF EventsAhead
<1> DEFINE n == dev_freq[d] \div OS_TIMER_RESOLUTION
<1>1. /\ n \in Nat \ {0} /\ dev_freq[d] = n * OS_TIMER_RESOLUTION
      /\ dev_freq[d] \in 1 .. ULONG_RANGE - 1
  BY PeriodFacts
<1>2. num_of_10ms = 0 /\ next_match[d] = dev_freq[d]
  BY DEF Init, dev_init
<1> HIDE DEF n
<1>3. num_of_10ms + n = n
  BY <1>1, <1>2
<1>4. dev_freq[d] % ULONG_RANGE = dev_freq[d]
  <2>1. 0 * ULONG_RANGE + dev_freq[d] = dev_freq[d]
    BY <1>1, DeviceAssumption
  <2> QED
    BY <1>1, <2>1, ModUnique, DeviceAssumption
<1>5. next_match[d] = time(num_of_10ms + n)
  BY <1>1, <1>2, <1>3, <1>4 DEF time
<1> QED
  BY <1>1, <1>5 DEF n

(* Every device's next event is at most a period ahead, on an interrupt to *)
(* come, however often clock and count wrap around (device.c:86-110), if   *)
(* all periods are multiples of the timer's, as those of device.c:42 are.  *)
THEOREM EventsStayAhead == ASSUME PeriodsAreTicks PROVE Spec => []EventsAhead
<1>1. Init => EventsAhead
  BY EventsAtStart
<1>2. IInv /\ EventsAhead /\ [Next]_vars => EventsAhead'
  <2> SUFFICES ASSUME IInv, EventsAhead, [Next]_vars
               PROVE  EventsAhead'
    OBVIOUS
  <2>1. CASE Tick
    BY <2>1, TickKeepsEvents
  <2>2. CASE UNCHANGED deviceVars
    BY <2>2 DEF EventsAhead, deviceVars, time
  <2> QED
    BY <2>1, <2>2 DEF Next, DevWait, dev_wait, vars
<1> QED
  BY Invariance, <1>1, <1>2, PTL DEF Spec
-----------------------------------------------------------------------------
(* The kernel implements the task model of AbsTasks.tla: every step of the *)
(* kernel is a step of the model, or changes nothing the model has.        *)
MutexQueues  == {MutexQueue(m) : m \in Mutex}
DeviceQueues == {DeviceQueue(d) : d \in Device}

LEMMA QueuesSplit ==
    /\ SleepQueues = MutexQueues \cup DeviceQueues
    /\ \A m \in Mutex : MutexQueue(m) \in MutexQueues
    /\ \A d \in Device : DeviceQueue(d) \in DeviceQueues
BY DEF SleepQueues, MutexQueues, DeviceQueues

LEMMA TasksInit == Init => Abs!Init
<1> SUFFICES ASSUME Init
             PROVE  Abs!Init
  OBVIOUS
<1>1. /\ IInv /\ cur_tcb \in TCB
      /\ \A p \in Prio : rq.run_list[p] # NULL => cur_tcb < p
  BY InitFacts
<1>2. rq.run_list[cur_tcb] = NULL
  BY <1>1, NullAssumption DEF IInv, OnePlace, NowhereTwice
<1>3. Occupied(rq) \in SUBSET (TCB \ {cur_tcb})
  BY <1>2, SystemTcbAssumption DEF Occupied
<1>4. \A t \in Occupied(rq) : cur_tcb < t
  BY <1>1 DEF Occupied
<1>5. sleep_queue = [o \in MutexQueues \cup DeviceQueues |-> <<>>]
  BY QueuesSplit DEF Init
<1> QED
  BY <1>1, <1>3, <1>4, <1>5 DEF Abs!Init, MutexQueues, DeviceQueues

(* A dispatch hands the processor to the most urgent of the runnable.      *)
LEMMA DispatchTakesOver ==
    ASSUME NEW q, QueueOK(q), OwnSlots(q), Occupied(q) # {}
    PROVE  /\ Abs!MostUrgent(take_highest(q).cur_tcb, Occupied(q))
           /\ Occupied(take_highest(q).rq) = Occupied(q) \ {take_highest(q).cur_tcb}
<1> DEFINE h == highest_prio(q)
<1>1. /\ take_highest(q).cur_tcb = h /\ h \in Prio
      /\ h \in Occupied(q) /\ \A p \in Occupied(q) : h <= p
      /\ take_highest(q).rq.run_list = [q.run_list EXCEPT ![h] = NULL]
      /\ q.run_list \in [Prio -> TCB \cup {NULL}]
  BY TakesMostUrgent, HighestIsMostUrgent, TakeFacts DEF QueueOK, RunQueueType
<1> HIDE DEF h
<1>2. Occupied(take_highest(q).rq) = Occupied(q) \ {h}
  BY <1>1 DEF Occupied
<1> QED
  BY <1>1, <1>2 DEF Abs!MostUrgent

(* Putting the running task to sleep at the object o.                      *)
LEMMA SleepTakesOver ==
    ASSUME IInv, IdleAwake, IdleKept, InUserCode,
           rq' = dispatch_sleep.rq, cur_tcb' = dispatch_sleep.cur_tcb
    PROVE  cur_tcb # NULL /\ Abs!TakeOver(Occupied(rq))
<1>1. cur_tcb # NULL /\ Occupied(rq) # {}
  BY IdleSleep DEF InUserCode
<1> QED
  BY <1>1, IInvFacts, DispatchTakesOver DEF Abs!TakeOver, dispatch_sleep, Placed

LEMMA TasksSleep ==
    ASSUME IInv, IdleAwake, IdleKept,
           \/ \E d \in Device : DevWait(d)
           \/ \E m \in MutexArg : MutexLockSleep(m)
    PROVE  Abs!Next
<1>1. CASE \E d \in Device : DevWait(d)
  <2>1. PICK d \in Device : DevWait(d)
    BY <1>1
  <2>2. cur_tcb # NULL /\ Abs!TakeOver(Occupied(rq))
    BY <2>1, SleepTakesOver DEF DevWait, dev_wait
  <2>3. Abs!SleepOnDevice(DeviceQueue(d))
    BY <2>1, <2>2 DEF Abs!SleepOnDevice, DevWait, dev_wait
  <2> QED
    BY <2>3 DEF Abs!Next
<1>2. CASE \E m \in MutexArg : MutexLockSleep(m)
  <2>1. PICK m \in MutexArg : MutexLockSleep(m)
    BY <1>2
  <2>2. m \in Mutex
    BY <2>1 DEF MutexLockSleep, MayLock, ValidMutex
  <2>3. cur_tcb # NULL /\ Abs!TakeOver(Occupied(rq))
    BY <2>1, SleepTakesOver DEF MutexLockSleep, MayLock, Finish
  <2>4. Abs!SleepOnMutex(MutexQueue(m))
    BY <2>1, <2>3 DEF Abs!SleepOnMutex, MutexLockSleep
  <2> QED
    BY <2>2, <2>4 DEF Abs!Next
<1> QED
  BY <1>1, <1>2

LEMMA TasksUnlock ==
    ASSUME IInv, NEW m, MutexUnlock(m)
    PROVE  Abs!Next \/ UNCHANGED <<cur_tcb, Occupied(rq), sleep_queue>>
<1> DEFINE w == MutexQueue(m)
           t == Head(sleep_queue[w])
<1>1. /\ m \in Mutex /\ w \in SleepQueues
      /\ sleep_queue[w] \in Seq(TCB)
      /\ cur_tcb # NULL /\ UNCHANGED cur_tcb
  BY DEF MutexUnlock, InUserCode, ValidMutex, SleepQueues, IInv, TypeOK, SchedTypeOK
<1>2. CASE sleep_queue[w] = <<>>
  BY <1>2, <1>1 DEF MutexUnlock, wake_first
<1>3. CASE sleep_queue[w] # <<>>
  <2>1. /\ sleep_queue' = [sleep_queue EXCEPT ![w] = Tail(@)]
        /\ rq' = runqueue_add(rq, t, system_tcb[t].cur_prio)
    BY <1>3 DEF MutexUnlock, wake_first, unlinked
  <2>2. t \in TCB /\ Asleep(t, w)
    <3>1. t = sleep_queue[w][1] /\ 1 \in 1 .. Len(sleep_queue[w])
      BY <1>1, <1>3
    <3> QED
      BY <1>1, <3>1 DEF Asleep
  <2>3. system_tcb[t].cur_prio = t
    BY <1>1, <2>2 DEF IInv, OnePlace, SomewhereIffCreated, PrioIsIndex
  <2>4. rq'.run_list = [rq.run_list EXCEPT ![t] = t] /\ rq.run_list \in [Prio -> TCB \cup {NULL}]
    BY <2>1, <2>2, <2>3, IInvFacts, SystemTcbAssumption, AddType DEF QueueOK, RunQueueType
  <2>5. Occupied(rq') = Occupied(rq) \cup {t}
    BY <2>2, <2>4, SystemTcbAssumption, NullAssumption DEF Occupied
  <2>6. Abs!WakeFirst(w)
    BY <1>1, <1>3, <2>1, <2>5 DEF Abs!WakeFirst, Occupied
  <2> QED
    BY <1>1, <2>6 DEF Abs!Next
<1> QED
  BY <1>2, <1>3

(* The queue after dev_update: the runnable and the woken tasks.           *)
LEMMA TickOccupied ==
    ASSUME IInv, NEW millis
    PROVE  Occupied(dev_update_queue(millis)) =
               Occupied(rq) \cup Abs!Sleepers({DeviceQueue(d) : d \in Signalled(millis)})
<1> DEFINE q == dev_update_queue(millis)
           W == Woken(millis)
<1>1. \A t \in W : t \in TCB /\ cur_prio[t] = t
  <2> SUFFICES ASSUME NEW t \in W
               PROVE  t \in TCB /\ cur_prio[t] = t
    OBVIOUS
  <2>1. t \in TCB /\ \E d \in Device : Asleep(t, DeviceQueue(d))
    BY DEF Woken, Signalled
  <2>2. Created(t)
    BY <2>1 DEF IInv, OnePlace, SomewhereIffCreated, SleepQueues
  <2> QED
    BY <2>1, <2>2 DEF cur_prio, IInv, PrioIsIndex
<1>2. W = Abs!Sleepers({DeviceQueue(d) : d \in Signalled(millis)})
  BY DEF Woken, Abs!Sleepers, Asleep
<1> HIDE DEF W
<1>3. ASSUME NEW p \in Prio
      PROVE  q.run_list[p] = IF p \in W THEN p ELSE rq.run_list[p]
  <2>1. q.run_list[p] = IF \E t \in W : cur_prio[t] = p
                        THEN CHOOSE t \in W : cur_prio[t] = p ELSE rq.run_list[p]
    BY DEF dev_update_queue, runqueue_add_all, W
  <2>2. (\E t \in W : cur_prio[t] = p) <=> p \in W
    BY <1>1
  <2>3. p \in W => (CHOOSE t \in W : cur_prio[t] = p) = p
    BY <1>1
  <2> QED
    BY <2>1, <2>2, <2>3
<1> HIDE DEF q
<1>4. Occupied(q) = Occupied(rq) \cup W
  BY <1>1, <1>3, SystemTcbAssumption, NullAssumption DEF Occupied
<1> QED
  BY <1>2, <1>4 DEF q

LEMMA TasksTick ==
    ASSUME IInv, Tick
    PROVE  Abs!Next
<1> DEFINE millis == time((num_of_10ms + 1) % ULONG_RANGE)
           q      == dev_update_queue(millis)
           ds     == {DeviceQueue(d) : d \in Signalled(millis)}
<1>1. /\ \E next \in HandlerReturns(q) : Finish(next)
      /\ sleep_queue' = dev_update_sleepers(millis)
      /\ cur_tcb # NULL
  BY DEF Tick
<1>2. /\ QueueOK(q) /\ OwnSlots(q) /\ q.run_list[cur_tcb] = NULL
      /\ cur_tcb \in TCB /\ system_tcb[cur_tcb].native_prio = cur_tcb
  BY <1>1, TickQueue, IInvFacts
<1>3. ds \in SUBSET DeviceQueues
  BY DEF Signalled, DeviceQueues
<1>4. Occupied(q) = Occupied(rq) \cup Abs!Sleepers(ds)
  BY TickOccupied
<1>5. sleep_queue' = [o \in DOMAIN sleep_queue |-> IF o \in ds THEN <<>> ELSE sleep_queue[o]]
  BY <1>1 DEF dev_update_sleepers, IInv, TypeOK, SchedTypeOK
<1> HIDE DEF millis, q, ds
<1>6. \/ rq' = q /\ cur_tcb' = cur_tcb
      \/ rq' = dispatch_save(q).rq /\ cur_tcb' = dispatch_save(q).cur_tcb
  BY <1>1, TickDispatchAssumption DEF HandlerReturns, Stay, Finish
<1>7. CASE rq' = q /\ cur_tcb' = cur_tcb
  <2>1. Abs!Tick(ds)
    BY <1>1, <1>4, <1>5, <1>7 DEF Abs!Tick, Occupied
  <2> QED
    BY <1>3, <2>1 DEF Abs!Next, DeviceQueues
<1>8. CASE rq' = dispatch_save(q).rq /\ cur_tcb' = dispatch_save(q).cur_tcb
  <2> DEFINE left == take_highest(q).rq
  <2>1. rq' = runqueue_add(left, cur_tcb, cur_tcb) /\ left \in RunQueueType /\ cur_tcb \in Prio
    BY <1>2, <1>8, TakeFacts, SystemTcbAssumption DEF dispatch_save, QueueOK
  <2> HIDE DEF left
  <2>2. rq'.run_list = [left.run_list EXCEPT ![cur_tcb] = cur_tcb]
    BY <1>2, <2>1, AddType
  <2>3. Occupied(rq') = Occupied(left) \cup {cur_tcb}
    BY <1>2, <2>1, <2>2, NullAssumption DEF Occupied, RunQueueType
  <2>4. Occupied(rq)' = Occupied(rq')
    BY DEF Occupied
  <2>5. CASE Occupied(q) # {}
    <3>1. /\ Abs!MostUrgent(cur_tcb', Occupied(q))
          /\ Occupied(left) = Occupied(q) \ {cur_tcb'}
      BY <1>2, <1>8, <2>5, DispatchTakesOver DEF dispatch_save, left
    <3>2. Abs!Tick(ds)
      BY <1>1, <1>4, <1>5, <2>3, <2>4, <3>1 DEF Abs!Tick
    <3> QED
      BY <1>3, <3>2 DEF Abs!Next, DeviceQueues
  <2>6. CASE Occupied(q) = {}
    <3>1. cur_tcb' = NULL
      BY <1>2, <1>8, <2>6, TakesMostUrgent DEF dispatch_save
    <3>2. Occupied(left) = {}
      BY <1>2, <2>6, TakesMostUrgent DEF left, Occupied
    <3>3. Abs!Tick(ds)
      BY <1>1, <1>4, <1>5, <2>3, <2>4, <2>6, <3>1, <3>2 DEF Abs!Tick
    <3> QED
      BY <1>3, <3>3 DEF Abs!Next, DeviceQueues
  <2> QED
    BY <2>5, <2>6
<1> QED
  BY <1>6, <1>7, <1>8

LEMMA TasksNext ==
    ASSUME IInv, IdleAwake, IdleKept, [Next]_vars
    PROVE  [Abs!Next]_<<cur_tcb, Occupied(rq), sleep_queue>>
<1>1. CASE UNCHANGED schedVars
  BY <1>1 DEF schedVars, Occupied
<1> QED
  BY <1>1, TasksTick, TasksSleep, TasksUnlock
     DEF Next, MutexCall, MutexCreate, MutexCreateRefused, MutexLockFlag, MutexLockHolder,
         MutexLockRefused, MutexLockFree, MutexUnlockRefused, vars

(* The kernel implements the task model whatever the interrupt handler     *)
(* does, if the tasks it is given leave the idle task its control block:   *)
(* the caller's part, which task_create does not check.                    *)
THEOREM KernelImplementsTasks ==
    ASSUME TaskCounts \subseteq 0 .. OS_MAX_TASKS - 2
    PROVE  Spec => ImplementsTasks
<1>1. Init => Abs!Init /\ IdleKept
  BY TasksInit, IdleInit
<1>2. IdleKept /\ [Next]_vars => IdleKept'
  BY IdleKeptNext
<1>3. IInv /\ IdleAwake /\ IdleKept /\ [Next]_vars
        => [Abs!Next]_<<cur_tcb, Occupied(rq), sleep_queue>>
  BY TasksNext
<1> QED
  BY Invariance, IdleInvariance, <1>1, <1>2, <1>3, PTL
     DEF Spec, ImplementsTasks, Abs!Spec, Abs!vars
-----------------------------------------------------------------------------
LEMMA NullFromIdle ==
    ASSUME IInv, IdleAwake, IdleKept, [Next]_vars, cur_tcb # NULL, cur_tcb' = NULL
    PROVE  cur_tcb = IDLE_PRIO
<1>1. CASE Tick
  <2> DEFINE millis == time((num_of_10ms + 1) % ULONG_RANGE)
             q      == dev_update_queue(millis)
  <2>1. \E next \in HandlerReturns(q) : Finish(next)
    BY <1>1 DEF Tick
  <2>2. /\ QueueOK(q) /\ OwnSlots(q)
        /\ cur_tcb \in TCB /\ system_tcb[cur_tcb].native_prio = cur_tcb
    BY TickQueue, IInvFacts
  <2>3. Occupied(rq) \subseteq Occupied(q)
    BY TickOccupied
  <2> HIDE DEF q
  <2>4. cur_tcb' = dispatch_save(q).cur_tcb
    BY <2>1, TickDispatchAssumption DEF HandlerReturns, Stay, Finish
  <2>5. Occupied(q) = {}
    BY <2>2, <2>4, SaveTakesMostUrgent, SystemTcbAssumption, NullAssumption
  <2> QED
    BY <2>3, <2>5, IdleSomewhere
<1>2. CASE \E d \in Device : DevWait(d)
  BY <1>2, IdleSleep DEF DevWait, dev_wait
<1>3. CASE \E m \in MutexArg : MutexLockSleep(m)
  BY <1>3, IdleSleep DEF MutexLockSleep, MayLock, Finish
<1> QED
  BY <1>1, <1>2, <1>3, OthersKeepProcessor

(* Whatever the interrupt handler does and however many tasks there are:   *)
(* as long as the idle task has its own control block, only the idle task  *)
(* can hand the processor to a null TCB.                                   *)
THEOREM NullComesFromIdle == Spec => NullOnlyFromIdle
<1> DEFINE Found == cur_tcb # NULL /\ cur_tcb' = NULL /\ system_tcb[IDLE_PRIO].lambda = "idle"
                      => cur_tcb = IDLE_PRIO
<1>1. IInv /\ IdleAwake /\ [Next]_vars => Found
  BY NullFromIdle DEF IdleKept
<1>2. IInv /\ IdleAwake /\ [Next]_vars => [Found]_vars
  BY <1>1
<1> QED
  BY Invariance, IdleInvariance, <1>2, PTL DEF Spec, NullOnlyFromIdle
=============================================================================
