----------------------------- MODULE TimeProofs -----------------------------
(***************************************************************************)
(* Proofs about sleep(): how early and how late it may end, for every      *)
(* timer period, width of the count and time asked for, whatever wraps.    *)
(* The invariant compares the real time waited with the interrupts counted *)
(* since the call, each of which stands for a period, the first for a part *)
(* of one.                                                                 *)
(***************************************************************************)
EXTENDS Time, TLAPS

U == ULONG_RANGE
R == OS_TIMER_RESOLUTION
Asked == millis \div R                                \* whole periods asked for

(* The interrupts since the call, or fewer once the count has wrapped and  *)
(* the expected one had not, or has wrapped again.                         *)
Passed == num_of_10ms - expected_num_of_10ms + Asked
              - (IF sum_wrapped /\ ~count_wrapped THEN U ELSE 0)

NotLess == asleep => waited = MaxWaited \/ waited >= Passed * R + phase - (R - 1)
NotMore == asleep /\ ~count_wrapped => waited <= Passed * R + phase

(* A loop that was polled in vain up to now has seen nothing wrap.         *)
Polled == asleep /\ ~missed /\ ~loop_ends => ~sum_wrapped /\ ~count_wrapped

IInv == TimeTypeOK /\ NotLess /\ NotMore /\ Polled /\ EarlyOnlyIfSumWraps
-----------------------------------------------------------------------------
(* Arithmetic.                                                             *)
LEMMA DivBounds ==
    ASSUME NEW r \in Nat \ {0}, NEW m \in Nat
    PROVE  /\ m \div r \in Nat
           /\ m \div r <= m
           /\ (m \div r) * r <= m
           /\ m < (m \div r) * r + r
  BY SMTT(20)

LEMMA ModRange == ASSUME NEW u \in Nat \ {0}, NEW s \in Nat PROVE s % u \in 0 .. u - 1
  BY SMTT(20)

LEMMA ModSmall == ASSUME NEW u \in Nat \ {0}, NEW s \in Nat, s < u PROVE s % u = s
  BY SMTT(20)

LEMMA ModOnce ==
    ASSUME NEW u \in Nat \ {0}, NEW s \in Nat, s >= u, s < u + u PROVE s % u = s - u
  BY SMTT(20)

LEMMA TimesMonotone ==
    ASSUME NEW r \in Nat, NEW a \in Int, NEW b \in Int, a <= b PROVE a * r <= b * r
  BY SMTT(20)

LEMMA TimesNext == ASSUME NEW r \in Nat, NEW a \in Int PROVE (a + 1) * r = a * r + r
  BY SMTT(20)
-----------------------------------------------------------------------------
LEMMA Constants == /\ U \in Nat \ {0, 1} /\ R \in Nat \ {0} /\ MaxMillis \in 0 .. U - 1
                   /\ MaxWaited = MaxMillis + 2 * R
  BY TimeAssumption DEF U, R, MaxWaited

LEMMA Variables ==
    ASSUME TimeTypeOK
    PROVE  /\ num_of_10ms \in 0 .. U - 1 /\ expected_num_of_10ms \in 0 .. U - 1
           /\ phase \in 0 .. R - 1 /\ millis \in 0 .. MaxMillis
           /\ waited \in 0 .. MaxWaited
           /\ Asked \in Nat /\ Asked * R <= millis /\ millis < Asked * R + R
           /\ Passed \in Int /\ Passed * R \in Int /\ Asked * R \in Int
  <1>1. /\ num_of_10ms \in 0 .. U - 1 /\ expected_num_of_10ms \in 0 .. U - 1
        /\ phase \in 0 .. R - 1 /\ millis \in 0 .. MaxMillis
        /\ waited \in 0 .. MaxWaited
    BY DEF TimeTypeOK, U, R
  <1>2. Asked \in Nat /\ Asked * R <= millis /\ millis < Asked * R + R
    BY <1>1, Constants, DivBounds DEF Asked
  <1>3. Passed \in Int
    BY <1>1, <1>2, Constants DEF Passed
  <1>4. Passed * R \in Int /\ Asked * R \in Int
    BY <1>2, <1>3, Constants
  <1> QED BY <1>1, <1>2, <1>3, <1>4

(* The count that sleep() waits for is the sum, less the range if that     *)
(* wrapped.                                                                *)
LEMMA ExpectedCount ==
    ASSUME TimeTypeOK, NEW ms \in 0 .. MaxMillis
    PROVE  /\ expected_count(ms) \in 0 .. U - 1
           /\ expected_count(ms) =
                num_of_10ms + ms \div R - (IF expected_count(ms) < num_of_10ms THEN U ELSE 0)
  <1> DEFINE q == ms \div R
             s == num_of_10ms + q
  <1>1. /\ q \in Nat /\ q <= ms
    BY DivBounds, Constants
  <1>2. U \in Nat \ {0} /\ num_of_10ms \in 0 .. U - 1 /\ q < U
    BY <1>1, Constants, Variables
  <1>3. expected_count(ms) = s % U
    BY DEF expected_count, U, R
  <1>4. s \in Nat /\ s < U + U
    BY <1>1, <1>2
  <1>5. CASE s < U
    <2>1. s % U = s
      BY <1>2, <1>4, <1>5, ModSmall
    <2> QED BY <1>1, <1>2, <1>3, <1>5, <2>1
  <1>6. CASE s >= U
    <2>1. s % U = s - U
      BY <1>2, <1>4, <1>6, ModOnce
    <2>2. s - U < num_of_10ms /\ s - U \in 0 .. U - 1
      BY <1>1, <1>2, <1>4, <1>6
    <2>3. expected_count(ms) = s - U
      BY <1>3, <2>1, Zenon
    <2> HIDE DEF expected_count
    <2>4. expected_count(ms) \in 0 .. U - 1 /\ expected_count(ms) < num_of_10ms
      BY <2>2, <2>3, Zenon
    <2> QED BY <1>1, <1>2, <2>3, <2>4
  <1> QED BY <1>2, <1>4, <1>5, <1>6
-----------------------------------------------------------------------------
LEMMA MillisecondType == ASSUME TimeTypeOK, Millisecond PROVE TimeTypeOK'
  <1>1. phase' \in 0 .. R - 1
    <2>1. R \in Nat \ {0} /\ phase + 1 \in Nat
      BY Constants, Variables
    <2>2. (phase + 1) % R \in 0 .. R - 1
      BY <2>1, ModRange
    <2> QED BY <2>2 DEF Millisecond, R
  <1>2. num_of_10ms' \in 0 .. U - 1
    <2>1. U \in Nat \ {0} /\ num_of_10ms + 1 \in Nat
      BY Constants, Variables
    <2>2. (num_of_10ms + 1) % U \in 0 .. U - 1
      BY <2>1, ModRange
    <2> QED BY <2>2, Variables DEF Millisecond, U
  <1>3. waited' \in 0 .. MaxWaited
    BY Constants, Variables DEF Millisecond
  <1>4. missed' \in BOOLEAN /\ count_wrapped' \in BOOLEAN
    BY DEF TimeTypeOK, Millisecond
  <1>5. /\ asleep' \in BOOLEAN /\ sum_wrapped' \in BOOLEAN
        /\ millis' \in 0 .. MaxMillis /\ expected_num_of_10ms' \in 0 .. U - 1
    BY DEF TimeTypeOK, Millisecond, U
  <1>6. MaxMillis' = MaxMillis /\ MaxWaited' = MaxWaited
    BY DEF MaxWaited
  <1> QED BY <1>1, <1>2, <1>3, <1>4, <1>5, <1>6 DEF TimeTypeOK, U, R

(* A millisecond inside the call: the last of a period counts one more     *)
(* interrupt, or fewer when a count that is not awaited wraps.             *)
LEMMA MillisecondPasses ==
    ASSUME TimeTypeOK, TimeTypeOK', Millisecond, asleep
    PROVE  /\ Asked' = Asked
           /\ \/ phase + 1 < R /\ phase' = phase + 1 /\ Passed' = Passed
              \/ phase + 1 = R /\ phase' = 0 /\ Passed' <= Passed + 1
           /\ ~count_wrapped' =>
                \/ phase' = phase + 1 /\ Passed' = Passed
                \/ phase + 1 = R /\ phase' = 0 /\ Passed' = Passed + 1
           /\ waited' = IF waited < MaxWaited THEN waited + 1 ELSE waited
  <1>1. /\ Asked' = Asked /\ expected_num_of_10ms' = expected_num_of_10ms
        /\ sum_wrapped' = sum_wrapped
        /\ waited' = IF waited < MaxWaited THEN waited + 1 ELSE waited
        /\ count_wrapped' = (count_wrapped \/ num_of_10ms' < num_of_10ms)
    BY DEF Millisecond, Asked
  <1>2. CASE phase + 1 < R
    <2>1. phase' = phase + 1 /\ num_of_10ms' = num_of_10ms
      BY <1>2, Constants, Variables, ModSmall DEF Millisecond, R
    <2>2. count_wrapped' = count_wrapped
      <3>1. ~(num_of_10ms' < num_of_10ms)
        BY <2>1, Variables
      <3> QED BY <1>1, <3>1, Zenon DEF TimeTypeOK
    <2>3. Passed' = Passed
      BY <1>1, <2>1, <2>2 DEF Passed
    <2> QED BY <1>1, <1>2, <2>1, <2>3
  <1>3. CASE phase + 1 = R
    <2>1. phase' = 0 /\ num_of_10ms' = (num_of_10ms + 1) % U
      BY <1>3, Constants, Variables, ModOnce DEF Millisecond, R, U
    <2>2. CASE num_of_10ms + 1 < U
      <3>1. num_of_10ms' = num_of_10ms + 1
        BY Constants, Variables, <2>1, <2>2, ModSmall
      <3>2. count_wrapped' = count_wrapped
        <4>1. ~(num_of_10ms' < num_of_10ms)
          BY <3>1, Variables
        <4> QED BY <1>1, <4>1, Zenon DEF TimeTypeOK
      <3>3. Passed' = Passed + 1
        BY <1>1, <3>1, <3>2, Constants, Variables DEF Passed
      <3> QED BY <1>1, <1>3, <2>1, <3>3, Variables
    <2>3. CASE num_of_10ms + 1 = U
      <3>1. num_of_10ms' = 0 /\ num_of_10ms > 0
        BY Constants, Variables, <2>1, <2>3, ModOnce
      <3>2. count_wrapped'
        BY <1>1, <3>1, Variables
      <3>3. Passed' <= Passed + 1
        BY <1>1, <2>3, <3>1, <3>2, Constants, Variables DEF Passed
      <3> QED BY <1>1, <1>3, <2>1, <3>2, <3>3
    <2>4. num_of_10ms + 1 < U \/ num_of_10ms + 1 = U
      BY Constants, Variables
    <2> QED BY <2>2, <2>3, <2>4
  <1>4. phase + 1 < R \/ phase + 1 = R
    BY Constants, Variables
  <1> QED BY <1>2, <1>3, <1>4

LEMMA MillisecondStep == ASSUME IInv, Millisecond PROVE IInv'
  <1>1. TimeTypeOK /\ TimeTypeOK'
    BY MillisecondType DEF IInv
  <1>2. NotLess' /\ NotMore'
    <2>1. CASE asleep
      <3> DEFINE bound == Passed * R
                 bound2 == Passed' * R
      <3>1. /\ Passed \in Int /\ Passed' \in Int /\ bound \in Int /\ bound2 \in Int
            /\ (Passed + 1) * R = bound + R
            /\ phase \in 0 .. R - 1 /\ waited \in 0 .. MaxWaited
            /\ R \in Nat \ {0} /\ MaxWaited \in Nat
        <4>1. Passed \in Int /\ phase \in 0 .. R - 1 /\ waited \in 0 .. MaxWaited
          BY <1>1, Variables
        <4>2. Passed' \in Int
          <5>1. /\ num_of_10ms' \in Int /\ expected_num_of_10ms' \in Int
            BY <1>1, Constants DEF TimeTypeOK, U
          <5>2. Asked' \in Int
            BY <1>1, <2>1, MillisecondPasses, Variables
          <5> QED BY <5>1, <5>2, Constants DEF Passed, U
        <4>3. R \in Nat \ {0} /\ MaxWaited \in Nat
          BY Constants
        <4> QED BY <4>1, <4>2, <4>3, TimesNext
      <3>2. /\ \/ phase + 1 < R /\ phase' = phase + 1 /\ Passed' = Passed
               \/ phase + 1 = R /\ phase' = 0 /\ Passed' <= Passed + 1
            /\ ~count_wrapped' =>
                 \/ phase' = phase + 1 /\ Passed' = Passed
                 \/ phase + 1 = R /\ phase' = 0 /\ Passed' = Passed + 1
            /\ waited' = IF waited < MaxWaited THEN waited + 1 ELSE waited
        BY <1>1, <2>1, MillisecondPasses
      <3>3. /\ waited = MaxWaited \/ waited >= bound + phase - (R - 1)
            /\ ~count_wrapped => waited <= bound + phase
        BY <2>1 DEF IInv, NotLess, NotMore
      <3>4. waited' = MaxWaited \/ waited' >= bound2 + phase' - (R - 1)
        <4>1. CASE phase' = phase + 1 /\ Passed' = Passed
          <5>1. bound2 = bound
            BY <4>1
          <5> HIDE DEF bound, bound2
          <5> QED BY <3>1, <3>2, <3>3, <4>1, <5>1
        <4>2. CASE phase + 1 = R /\ phase' = 0 /\ Passed' <= Passed + 1
          <5>1. bound2 <= (Passed + 1) * R
            <6>1. R \in Nat /\ Passed' \in Int /\ Passed + 1 \in Int /\ Passed' <= Passed + 1
              BY <3>1, <4>2
            <6> QED BY <6>1, TimesMonotone
          <5> HIDE DEF bound, bound2
          <5> QED BY <3>1, <3>2, <3>3, <4>2, <5>1
        <4> QED BY <3>2, <4>1, <4>2
      <3>5. ~count_wrapped' => waited' <= bound2 + phase'
        <4> SUFFICES ASSUME ~count_wrapped' PROVE waited' <= bound2 + phase'
          OBVIOUS
        <4>1. ~count_wrapped
          BY DEF Millisecond
        <4>2. CASE phase' = phase + 1 /\ Passed' = Passed
          <5>1. bound2 = bound
            BY <4>2
          <5> HIDE DEF bound, bound2
          <5> QED BY <3>1, <3>2, <3>3, <4>1, <4>2, <5>1
        <4>3. CASE phase + 1 = R /\ phase' = 0 /\ Passed' = Passed + 1
          <5>1. bound2 = bound + R
            BY <3>1, <4>3
          <5> HIDE DEF bound, bound2
          <5> QED BY <3>1, <3>2, <3>3, <4>1, <4>3, <5>1
        <4> QED BY <3>2, <4>2, <4>3
      <3> QED BY <3>4, <3>5 DEF NotLess, NotMore, MaxWaited, R
    <2>2. CASE ~asleep
      BY <2>2 DEF Millisecond, NotLess, NotMore
    <2> QED BY <2>1, <2>2
  <1>3. Polled'
    <2> SUFFICES ASSUME asleep', ~missed', ~loop_ends' PROVE ~sum_wrapped' /\ ~count_wrapped'
      BY DEF Polled
    <2>1. asleep /\ ~missed /\ ~loop_ends /\ ~sum_wrapped /\ ~count_wrapped
      BY DEF IInv, Polled, Millisecond
    <2>2. num_of_10ms + 1 < U
      BY <1>1, <2>1, Constants, Variables DEF loop_ends
    <2>3. (num_of_10ms + 1) % U = num_of_10ms + 1
      BY <1>1, <2>2, Constants, Variables, ModSmall
    <2>4. ~(num_of_10ms' < num_of_10ms)
      BY <1>1, <2>3, Variables DEF Millisecond, U
    <2> QED BY <2>1, <2>4 DEF Millisecond
  <1>4. EarlyOnlyIfSumWraps'
    BY DEF IInv, Millisecond, EarlyOnlyIfSumWraps, Returned
  <1> QED BY <1>1, <1>2, <1>3, <1>4 DEF IInv
-----------------------------------------------------------------------------
LEMMA SleepStep ==
    ASSUME IInv, NEW ms \in 0 .. MaxMillis, Sleep(ms)
    PROVE  IInv'
  <1>1. TimeTypeOK
    BY DEF IInv
  <1>2. TimeTypeOK'
    <2>1. expected_count(ms) \in 0 .. ULONG_RANGE - 1
      BY <1>1, ExpectedCount DEF U
    <2>2. sum_wrapped' \in BOOLEAN
      BY DEF Sleep
    <2>3. waited' \in 0 .. MaxWaited
      BY Constants DEF Sleep
    <2> QED BY <1>1, <2>1, <2>2, <2>3 DEF TimeTypeOK, Sleep
  <1>3. /\ num_of_10ms' = num_of_10ms /\ millis' = ms /\ waited' = 0 /\ phase' = phase
        /\ expected_num_of_10ms' = expected_count(ms)
        /\ sum_wrapped' = (expected_count(ms) < num_of_10ms) /\ ~count_wrapped'
    BY DEF Sleep
  <1>4. NotLess' /\ NotMore'
    <2>1. Asked' = ms \div R /\ ms \div R \in Nat
      BY <1>3, Constants, DivBounds DEF Asked, R
    <2>2. Passed' = 0
      <3>1. expected_count(ms) =
              num_of_10ms + ms \div R - (IF expected_count(ms) < num_of_10ms THEN U ELSE 0)
        BY <1>1, ExpectedCount
      <3>2. /\ Passed' = num_of_10ms - expected_count(ms) + ms \div R
                             - (IF expected_count(ms) < num_of_10ms THEN U ELSE 0)
        BY <1>3, <2>1 DEF Passed, U
      <3>3. U \in Nat /\ num_of_10ms \in Nat /\ expected_count(ms) \in Int
        BY <1>1, ExpectedCount, Constants, Variables
      <3> HIDE DEF expected_count
      <3> QED BY <2>1, <3>1, <3>2, <3>3
    <2>3. Passed' * R = 0
      BY <2>2, Constants
    <2>4. phase' \in 0 .. R - 1 /\ R \in Nat \ {0}
      BY <1>1, <1>3, Constants, Variables
    <2>5. /\ waited' <= Passed' * R + phase'
          /\ waited' >= Passed' * R + phase' - (R - 1)
      BY <1>3, <2>3, <2>4
    <2> QED BY <2>5 DEF NotLess, NotMore, R
  <1>5. Polled'
    <2> SUFFICES ASSUME ~loop_ends' PROVE ~sum_wrapped'
      BY <1>3 DEF Polled
    <2>1. num_of_10ms < expected_count(ms)
      <3>1. expected_count(ms) \in Int /\ num_of_10ms \in Int
        BY <1>1, ExpectedCount, Variables
      <3> QED BY <1>3, <3>1 DEF loop_ends
    <2>2. ~(expected_count(ms) < num_of_10ms)
      <3>1. expected_count(ms) \in Int /\ num_of_10ms \in Int
        BY <1>1, ExpectedCount, Variables
      <3> QED BY <2>1, <3>1
    <2> QED BY <1>3, <2>2, Zenon
  <1>6. EarlyOnlyIfSumWraps'
    BY DEF Sleep, EarlyOnlyIfSumWraps, Returned
  <1> QED BY <1>2, <1>4, <1>5, <1>6 DEF IInv

(* The loop ends when as many interrupts as asked for are counted, all but *)
(* the first a whole period after another, or at once when only the        *)
(* expected count has wrapped: then fewer were counted than asked for.     *)
LEMMA SleepReturnStep == ASSUME IInv, SleepReturn PROVE IInv'
  <1>1. TimeTypeOK /\ TimeTypeOK'
    BY DEF IInv, TimeTypeOK, SleepReturn, MaxWaited
  <1>2. NotLess' /\ NotMore' /\ Polled'
    BY DEF SleepReturn, NotLess, NotMore, Polled
  <1>3. EarlyOnlyIfSumWraps'
    <2> DEFINE bound == Passed * R
               asked == Asked * R
    <2>1. /\ bound \in Int /\ asked \in Int /\ asked <= millis /\ millis < asked + R
          /\ phase \in 0 .. R - 1 /\ millis \in 0 .. MaxMillis /\ waited \in 0 .. MaxWaited
          /\ R \in Nat \ {0} /\ MaxMillis \in Nat /\ MaxWaited = MaxMillis + 2 * R
      BY <1>1, Constants, Variables
    <2>2. /\ asleep /\ num_of_10ms >= expected_num_of_10ms
          /\ millis' = millis /\ waited' = waited
          /\ sum_wrapped' = sum_wrapped /\ count_wrapped' = count_wrapped
      BY DEF SleepReturn, loop_ends
    <2>3. ASSUME sum_wrapped, ~count_wrapped PROVE waited < millis
      <3>1. Passed + 1 <= Asked
        BY <1>1, <2>3, Constants, Variables DEF Passed
      <3>2. (Passed + 1) * R <= asked /\ (Passed + 1) * R = bound + R
        <4>1. R \in Nat /\ Passed \in Int /\ Passed + 1 \in Int /\ Asked \in Int
          BY <1>1, Constants, Variables
        <4> QED BY <3>1, <4>1, TimesMonotone, TimesNext
      <3>3. waited <= bound + phase
        BY <2>2, <2>3 DEF IInv, NotMore
      <3> HIDE DEF bound, asked
      <3> QED BY <2>1, <3>2, <3>3
    <2>4. ASSUME ~(sum_wrapped /\ ~count_wrapped) PROVE millis - waited < 2 * R
      <3>1. Asked <= Passed
        BY <1>1, <2>2, <2>4, Constants, Variables DEF Passed
      <3>2. asked <= bound
        BY <1>1, <3>1, Constants, Variables, TimesMonotone
      <3>3. waited = MaxWaited \/ waited >= bound + phase - (R - 1)
        BY <2>2 DEF IInv, NotLess
      <3> HIDE DEF bound, asked
      <3> QED BY <2>1, <3>2, <3>3
    <2> QED BY <2>2, <2>3, <2>4 DEF EarlyOnlyIfSumWraps, R
  <1> QED BY <1>1, <1>2, <1>3 DEF IInv

LEMMA Start == TimeInit => IInv
  <1> SUFFICES ASSUME TimeInit PROVE IInv
    OBVIOUS
  <1>1. TimeTypeOK
    <2>1. 0 \in 0 .. MaxWaited /\ 0 \in 0 .. MaxMillis /\ 0 \in 0 .. ULONG_RANGE - 1
      BY Constants DEF U
    <2> QED BY <2>1 DEF TimeInit, TimeTypeOK
  <1>2. NotLess /\ NotMore /\ Polled
    BY DEF TimeInit, NotLess, NotMore, Polled
  <1>3. EarlyOnlyIfSumWraps
    BY Constants DEF TimeInit, EarlyOnlyIfSumWraps, Returned, R
  <1> QED BY <1>1, <1>2, <1>3 DEF IInv

LEMMA Step == IInv /\ [TimeNext]_timeVars => IInv'
  <1> SUFFICES ASSUME IInv, [TimeNext]_timeVars PROVE IInv'
    OBVIOUS
  <1>1. CASE SleepReturn
    BY <1>1, SleepReturnStep
  <1>2. CASE Millisecond
    BY <1>2, MillisecondStep
  <1>3. CASE \E ms \in 0 .. MaxMillis : Sleep(ms)
    BY <1>3, SleepStep
  <1>4. CASE UNCHANGED timeVars
    BY <1>4 DEF IInv, TimeTypeOK, NotLess, NotMore, Polled, EarlyOnlyIfSumWraps, Returned,
                loop_ends, Passed, Asked, MaxWaited, timeVars
  <1> QED BY <1>1, <1>2, <1>3, <1>4 DEF TimeNext

(* An interrupt that is still awaited leaves at most one period less than  *)
(* was asked for, and a part of the current one, behind.                   *)
LEMMA CountingBoundsSpin == IInv => LateOnlyIfUnpolled
  <1> SUFFICES ASSUME IInv, asleep, ~loop_ends, ~missed PROVE waited < Asked * R
    BY DEF LateOnlyIfUnpolled, Asked, R
  <1> DEFINE bound == Passed * R
             asked == Asked * R
  <1>1. ~sum_wrapped /\ ~count_wrapped
    BY DEF IInv, Polled
  <1>2. TimeTypeOK
    BY DEF IInv
  <1>3. Passed + 1 <= Asked
    BY <1>1, <1>2, Constants, Variables DEF Passed, loop_ends
  <1>4. (Passed + 1) * R <= asked /\ (Passed + 1) * R = bound + R
    <2>1. R \in Nat /\ Passed \in Int /\ Passed + 1 \in Int /\ Asked \in Int
      BY <1>2, Constants, Variables
    <2> QED BY <1>3, <2>1, TimesMonotone, TimesNext
  <1>5. waited <= bound + phase
    BY <1>1 DEF IInv, NotMore
  <1>6. /\ bound \in Int /\ asked \in Int /\ phase \in 0 .. R - 1
        /\ waited \in 0 .. MaxWaited /\ R \in Nat \ {0} /\ MaxWaited \in Nat
    BY <1>2, Constants, Variables
  <1> HIDE DEF bound, asked
  <1>7. waited < asked
    BY <1>4, <1>5, <1>6
  <1> QED BY <1>7 DEF asked

LEMMA Invariance == TimeSpec => []IInv
  BY Start, Step, PTL DEF TimeSpec

(* sleep() returns before the time asked for is over whenever the expected *)
(* count wraps and the count has not yet, and otherwise less than two      *)
(* timer periods before, wherever the count wraps (time.c:35-40).          *)
THEOREM SleepEarlyOnlyIfSumWraps == TimeSpec => []EarlyOnlyIfSumWraps
  <1>1. IInv => EarlyOnlyIfSumWraps
    BY DEF IInv
  <1> QED BY <1>1, Invariance, PTL

(* Once as many whole periods as were asked for have passed, the loop of   *)
(* sleep() has ended, or was not polled while it would have (time.c:40).   *)
THEOREM SleepLateOnlyIfUnpolled == TimeSpec => []LateOnlyIfUnpolled
  BY CountingBoundsSpin, Invariance, PTL
=============================================================================
