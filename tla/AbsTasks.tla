------------------------------ MODULE AbsTasks ------------------------------
(***************************************************************************)
(* What the kernel promises about tasks, without TCBs, bitmaps, clocks or  *)
(* locks: one task runs; it alone can go to sleep on an object, and there  *)
(* is a ready task to take over, the most urgent one; a mutex wakes its    *)
(* sleepers one at a time, the one that came first; a device event wakes   *)
(* all its sleepers.  Only a task that is made to give way when no other   *)
(* is ready gives the processor to nobody, which is the end.               *)
(***************************************************************************)
EXTENDS Integers, Sequences

CONSTANTS Task,            \* a task is its priority, small numbers first
          Nobody,
          Mutexes, Devices \* the objects tasks sleep on

VARIABLES running, ready, asleep
vars == <<running, ready, asleep>>

MostUrgent(t, tasks) == t \in tasks /\ \A u \in tasks : t <= u

Init == /\ running \in Task
        /\ ready \in SUBSET (Task \ {running})
        /\ \A t \in ready : running < t
        /\ asleep = [o \in Mutexes \cup Devices |-> <<>>]

TakeOver(tasks) == /\ MostUrgent(running', tasks)
                   /\ ready' = tasks \ {running'}

SleepOnMutex(m) == /\ running # Nobody
                   /\ asleep' = [asleep EXCEPT ![m] = Append(@, running)]
                   /\ TakeOver(ready)

SleepOnDevice(d) == /\ running # Nobody
                    /\ asleep' = [asleep EXCEPT ![d] = <<running>> \o @]
                    /\ TakeOver(ready)

WakeFirst(m) == /\ running # Nobody
                /\ asleep[m] # <<>>
                /\ ready' = ready \cup {Head(asleep[m])}
                /\ asleep' = [asleep EXCEPT ![m] = Tail(@)]
                /\ UNCHANGED running

(* Events of a set of devices; afterwards the running task may have to     *)
(* give way to the most urgent ready task, or to nobody.                   *)
Sleepers(ds) == {t \in Task : \E d \in ds : \E i \in 1 .. Len(asleep[d]) : asleep[d][i] = t}

Tick(ds) ==
    LET awake == ready \cup Sleepers(ds)
    IN  /\ running # Nobody
        /\ asleep' = [o \in DOMAIN asleep |-> IF o \in ds THEN <<>> ELSE asleep[o]]
        /\ \/ running' = running /\ ready' = awake
           \/ /\ MostUrgent(running', awake)
              /\ ready' = (awake \ {running'}) \cup {running}
           \/ /\ awake = {}
              /\ running' = Nobody
              /\ ready' = {running}

Next == \/ \E m \in Mutexes : SleepOnMutex(m) \/ WakeFirst(m)
        \/ \E d \in Devices : SleepOnDevice(d)
        \/ \E ds \in SUBSET Devices : Tick(ds)

Spec == Init /\ [][Next]_vars
=============================================================================
