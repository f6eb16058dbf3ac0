------------------------------- MODULE Device -------------------------------
(***************************************************************************)
(* The logical devices of kernel/device.c: a task waits for the next event *)
(* of a device, and every timer interrupt signals the devices whose period *)
(* is over.                                                                *)
(***************************************************************************)
EXTENDS Sched

CONSTANTS dev_freq,       \* period of each device, in ms
          ULONG_RANGE,    \* an unsigned long counts modulo this (2^32)
          OS_TIMER_RESOLUTION     \* ms between two timer interrupts

ASSUME DeviceAssumption ==
    /\ ULONG_RANGE \in Nat \ {0}
    /\ OS_TIMER_RESOLUTION \in Nat \ {0}
    /\ dev_freq \in [Device -> 1 .. ULONG_RANGE - 1]

VARIABLES next_match,     \* the time of each device's next event
          num_of_10ms     \* timer interrupts so far
deviceVars == <<next_match, num_of_10ms>>

Ulong == 0 .. ULONG_RANGE - 1

DeviceTypeOK == /\ next_match \in [Device -> Ulong]
                /\ num_of_10ms \in Ulong

dev_init == [d \in Device |-> dev_freq[d]]

(* time() of syscall/time.c; the interrupt handler passes it to dev_update *)
(* when it has counted the interrupt.                                      *)
time(ticks) == (ticks * OS_TIMER_RESOLUTION) % ULONG_RANGE

(* The running task is pushed in front of the others.                      *)
dev_wait(dev) ==
    /\ sleep_queue' = [sleep_queue EXCEPT ![DeviceQueue(dev)] = <<cur_tcb>> \o @]
    /\ rq' = dispatch_sleep.rq
    /\ cur_tcb' = dispatch_sleep.cur_tcb
    /\ UNCHANGED <<system_tcb, deviceVars>>

(* dev_update(millis): the devices it signals, the tasks it makes          *)
(* runnable, and what it leaves of queues and match times.                 *)
Signalled(millis) == {d \in Device : next_match[d] = millis}

Woken(millis) == {t \in TCB : \E d \in Signalled(millis) : Asleep(t, DeviceQueue(d))}

dev_update_queue(millis) == runqueue_add_all(rq, Woken(millis), cur_prio)

first_sleeper_kept(millis) ==                             \* mutant: list not emptied
    [w \in SleepQueues |->
        IF w \in {DeviceQueue(d) : d \in Signalled(millis)} /\ sleep_queue[w] # <<>>
        THEN <<Head(sleep_queue[w])>> ELSE sleep_queue[w]]

dev_update_sleepers(millis) ==
    [w \in SleepQueues |->
        IF w \in {DeviceQueue(d) : d \in Signalled(millis)} THEN <<>> ELSE sleep_queue[w]]

match_saturates(millis) ==                                \* mutant: no wrap-around
    [d \in Device |-> IF d \in Signalled(millis)
                      THEN next_match[d] + dev_freq[d] ELSE next_match[d]]

dev_update_match(millis) ==
    [d \in Device |-> IF d \in Signalled(millis)
                      THEN (next_match[d] + dev_freq[d]) % ULONG_RANGE ELSE next_match[d]]
=============================================================================
