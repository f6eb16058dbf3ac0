-------------------------------- MODULE Time --------------------------------
(***************************************************************************)
(* The busy wait of kernel/syscall/time.c against real time.  The only     *)
(* clock the code has is num_of_10ms, which the (external) timer interrupt *)
(* handler counts up; real time passes in milliseconds between interrupts. *)
(* A task inside sleep() may lose the processor to others and polls the    *)
(* count only now and then.                                                *)
(***************************************************************************)
EXTENDS Integers

CONSTANTS ULONG_RANGE,          \* num_of_10ms counts modulo this (2^32)
          OS_TIMER_RESOLUTION,  \* ms between two timer interrupts: 10
          MaxMillis             \* bound: longest sleep asked for

ASSUME TimeAssumption == /\ ULONG_RANGE \in Nat \ {0, 1}
                         /\ OS_TIMER_RESOLUTION \in Nat \ {0}
                         /\ MaxMillis \in 0 .. ULONG_RANGE - 1

VARIABLES num_of_10ms,          \* timer interrupts counted
          phase,                \* ms since the last interrupt
          asleep,               \* is the task inside sleep()
          millis,               \* what it asked for
          expected_num_of_10ms  \* what it waits for num_of_10ms to reach

(* What the properties remember of a call; no step depends on it.          *)
VARIABLES waited,               \* ms of real time since the call
          sum_wrapped,          \* the expected count went past the largest one
          count_wrapped,        \* num_of_10ms has gone past the largest one
          missed                \* time has passed while the loop could have ended
timeVars == <<num_of_10ms, phase, asleep, millis, expected_num_of_10ms,
              waited, sum_wrapped, count_wrapped, missed>>

(* Bound: waits longer than the longest sleep by two interrupts and more   *)
(* are not told apart.                                                     *)
MaxWaited == MaxMillis + 2 * OS_TIMER_RESOLUTION

(* Type invariant, for the proofs in TimeProofs.tla.                       *)
TimeTypeOK ==
    /\ num_of_10ms \in 0 .. ULONG_RANGE - 1
    /\ phase \in 0 .. OS_TIMER_RESOLUTION - 1
    /\ asleep \in BOOLEAN /\ missed \in BOOLEAN
    /\ sum_wrapped \in BOOLEAN /\ count_wrapped \in BOOLEAN
    /\ millis \in 0 .. MaxMillis
    /\ expected_num_of_10ms \in 0 .. ULONG_RANGE - 1
    /\ waited \in 0 .. MaxWaited

TimeInit ==
    /\ num_of_10ms = 0
    /\ phase \in 0 .. OS_TIMER_RESOLUTION - 1
    /\ asleep = FALSE
    /\ millis = 0 /\ expected_num_of_10ms = 0
    /\ waited = 0
    /\ sum_wrapped = FALSE /\ count_wrapped = FALSE /\ missed = FALSE

expected_count(ms) == (num_of_10ms + ms \div OS_TIMER_RESOLUTION) % ULONG_RANGE

Sleep(ms) ==
    /\ ~asleep
    /\ asleep' = TRUE
    /\ millis' = ms
    /\ expected_num_of_10ms' = expected_count(ms)
    /\ waited' = 0
    /\ sum_wrapped' = (expected_count(ms) < num_of_10ms)
    /\ count_wrapped' = FALSE /\ missed' = FALSE
    /\ UNCHANGED <<num_of_10ms, phase>>

ends_early == num_of_10ms + 1 >= expected_num_of_10ms   \* mutant: off by one
ends_late  == num_of_10ms > expected_num_of_10ms        \* mutant: off by one

(* The loop condition fails and sleep() returns.                           *)
loop_ends == num_of_10ms >= expected_num_of_10ms

SleepReturn == /\ asleep
               /\ loop_ends
               /\ asleep' = FALSE
               /\ UNCHANGED <<num_of_10ms, phase, millis, expected_num_of_10ms,
                              waited, sum_wrapped, count_wrapped, missed>>

(* A millisecond of real time; the last of a period ends in an interrupt.  *)
(* A task that is to lose the processor may do so before any poll.         *)
Millisecond ==
    /\ phase' = (phase + 1) % OS_TIMER_RESOLUTION
    /\ num_of_10ms' = IF phase' = 0 THEN (num_of_10ms + 1) % ULONG_RANGE ELSE num_of_10ms
    /\ waited' = IF asleep /\ waited < MaxWaited THEN waited + 1 ELSE waited
    /\ count_wrapped' = (count_wrapped \/ (asleep /\ num_of_10ms' < num_of_10ms))
    /\ missed' = (missed \/ (asleep /\ loop_ends))
    /\ UNCHANGED <<asleep, millis, expected_num_of_10ms, sum_wrapped>>

TimeNext == SleepReturn \/ Millisecond \/ \E ms \in 0 .. MaxMillis : Sleep(ms)

TimeSpec == TimeInit /\ [][TimeNext]_timeVars
-----------------------------------------------------------------------------
Returned == ~asleep

(* "Waits [...] for atleast the given number of milliseconds" (time.c:26). *)
SleepsAtLeast == Returned => waited >= millis

(* How short a sleep can be, whatever wraps.  If the expected count wraps  *)
(* and the loop is polled before the count does, the sleep always ends too *)
(* soon, at the first poll.  In every other case it lacks less than two    *)
(* periods, one for the remainder of the division and one for the part of  *)
(* the period that is over at the call.                                    *)
EarlyOnlyIfSumWraps ==
    Returned => IF sum_wrapped /\ ~count_wrapped
                THEN waited < millis
                ELSE millis - waited < 2 * OS_TIMER_RESOLUTION

(* How long a sleep can be, whatever wraps: the loop spins for longer than *)
(* the whole periods asked for only when all the time in which it would    *)
(* have ended went by without a poll.                                      *)
LateOnlyIfUnpolled ==
    asleep /\ ~loop_ends /\ ~missed =>
        waited < (millis \div OS_TIMER_RESOLUTION) * OS_TIMER_RESOLUTION
=============================================================================
