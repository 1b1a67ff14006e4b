--------------------------- MODULE EncoderService ---------------------------
(***************************************************************************)
(* The encoder thread (service/common/encoder/src/encoder_service.c), for  *)
(* one wheel: both are treated alike, except that the flag                 *)
(* overflow_detected starts as TRUE for the first and as FALSE for the     *)
(* second (line 26).  Each turn of the loop reads the 16-bit counter of    *)
(* the timer; every sample_per_every_iteration-th (2nd) one makes a speed  *)
(* estimate from the pulses since the last and sends it to the speed       *)
(* controller.                                                             *)
(*                                                                         *)
(* A sample is one turn of the loop, one step: its only shared object is   *)
(* the queue.  The thread takes the time from k_uptime_delta in whole      *)
(* milliseconds, which need not be those the wheel's pulses took; the      *)
(* gains of the filter are in units of 10^-5.                              *)
(***************************************************************************)
EXTENDS Integers, Sequences, Msgq

CONSTANTS Deltas,           \* speeds of the wheel, in quarters of a cycle per
                            \* sample
          Elapsed,          \* what k_uptime_delta may give between samples, in ms
          Starts,           \* readings of the counter when the thread starts
          MaxChanges,       \* bound on the changes of speed in one run
          OverflowAtStart,  \* initial overflow_detected: TRUE for the first
                            \* wheel, FALSE for the second
          MaxPulse,         \* MAX_PULSE_PER_PERIOD, 150
          PulsePerRound,    \* 11 * 30 * 4
          FilterLen,        \* AVERAGE_FILTER_LEN, 10
          MaxRpm,           \* MAX_POSSIBLE_RPM, 600
          MinEstimates,     \* MIN_ESTIMATE_NUM_BEFORE_VALID, 20
          RpmDepth          \* capacity of the queue, 1

Autoreload == 65535        \* of the timer
Counts == Autoreload + 1
Readings == {x \in Int : 0 <= x /\ x < Counts}   \* uint16_t
PeriodMs == 5              \* tconf.period_ms
EncoderMode == "X4_TI12"   \* st,encoder-mode in the device tree

\* What the timer counts in a cycle of the encoder's two signals, as the driver
\* (drivers/encoder) sets it up.  With another mode there is no device.
CountsPerCycle(mode) ==
  CASE mode \in {"X2_TI1", "X2_TI2"} -> 2
    [] mode = "X4_TI12" -> 4

ASSUME EncoderAssumption ==
  /\ Deltas \subseteq -MaxPulse..MaxPulse /\ Starts \subseteq Readings
  /\ Elapsed \subseteq Nat /\ OverflowAtStart \subseteq BOOLEAN
  /\ MaxPulse \in Nat \ {0} /\ 2 * MaxPulse < 35792  \* see PulsesTimesMinute
  /\ PulsePerRound \in Nat \ {0} /\ FilterLen \in 1..10
  /\ MaxChanges \in Nat /\ MaxRpm \in Nat
  /\ MinEstimates \in Nat /\ RpmDepth \in Nat \ {0}

VARIABLES
  counter,                \* the timer
  encoder_prev_reading, overflow_detected, is_counting_up,
  accumulated_error, accumulated_time, first_time,
  loop_counter,           \* modulo 2: nothing else of it is read
  raw_rpm_history, last_filtered_rpm,
  estimated_rpm_history, indexer, estimator_counter,
  rpm_msgq_out,
  delta, changes,         \* the wheel: its speed, and how often it changed
  moved,                  \* history: pulses since the last estimate
  flagged, misread,       \* history: the flag of the start has met no step down
                          \* yet; one since the last estimate met it
  backwards               \* history: the wheel has turned backwards

counting == <<encoder_prev_reading, overflow_detected, is_counting_up>>
filter == <<raw_rpm_history, last_filtered_rpm, estimated_rpm_history, indexer,
            estimator_counter>>
wheel == <<counter, delta, changes>>
truth == <<moved, flagged, misread, backwards>>
encoderVars == <<wheel, counting, accumulated_error, accumulated_time,
                 first_time, loop_counter, filter, rpm_msgq_out, truth>>

EncoderInit ==
  /\ counter \in Starts /\ delta \in Deltas /\ changes = 0
  /\ encoder_prev_reading = 0 /\ overflow_detected \in OverflowAtStart
  /\ is_counting_up = TRUE
  /\ accumulated_error = 0 /\ accumulated_time = 0 /\ first_time = TRUE
  /\ loop_counter = 0
  /\ raw_rpm_history = << 0, 0 >> /\ last_filtered_rpm = 0
  /\ estimated_rpm_history = [i \in 0..(FilterLen - 1) |-> 0]
  /\ indexer = 0 /\ estimator_counter = 0
  /\ rpm_msgq_out = << >>
  /\ moved = 0 /\ flagged = overflow_detected /\ misread = FALSE
  /\ backwards = FALSE

\* The wheel gets another speed.
ChangeSpeed ==
  /\ changes < MaxChanges /\ changes' = changes + 1
  /\ delta' \in Deltas \ {delta}
  /\ UNCHANGED <<counter, counting, accumulated_error, accumulated_time,
                 first_time, loop_counter, filter, rpm_msgq_out, truth>>

-----------------------------------------------------------------------------
\* The timer, which the encoder's signals drive, and its readings.

EncoderCounts(d) ==
  counter' = (counter + (CountsPerCycle(EncoderMode) * d) \div 4) % Counts

\* The encoder is active when the service runs.
GetEncoderCount == counter

-----------------------------------------------------------------------------
\* Counting.  A large step up of the counter is an underflow and a large step down
\* an overflow; underflow_detected is always consumed where it is set.

Jump(from, to) == to - from > MaxPulse

\* Faulty variant: a step of exactly MaxPulse is a jump, too.
CountsUpEdge(reading) ==
  IF reading >= encoder_prev_reading
    THEN reading - encoder_prev_reading < MaxPulse
    ELSE overflow_detected \/ encoder_prev_reading - reading >= MaxPulse

CountsUp(reading) ==
  IF reading >= encoder_prev_reading
    THEN ~Jump(encoder_prev_reading, reading)
    ELSE overflow_detected \/ Jump(reading, encoder_prev_reading)

\* Faulty variant: an overflow that was used is not forgotten.
CountKeepsFlag(reading) ==
  /\ is_counting_up' = CountsUp(reading)
  /\ overflow_detected' = (overflow_detected \/ Jump(reading, encoder_prev_reading))
  /\ encoder_prev_reading' = reading

Count(reading) ==
  /\ is_counting_up' = CountsUp(reading)
  /\ overflow_detected' = (overflow_detected /\ reading >= encoder_prev_reading)
  /\ encoder_prev_reading' = reading

ReadingError(reading) ==
  (IF CountsUp(reading) THEN reading - encoder_prev_reading
                        ELSE encoder_prev_reading - reading) % Counts

\* The pulses counted since the last estimate.
Counted(reading) == (accumulated_error + ReadingError(reading)) % Counts

-----------------------------------------------------------------------------
\* Estimating.

TruncDiv(a, b) == IF a >= 0 THEN a \div b ELSE -((-a) \div b)

\* error * 60 * 1000 in 32 bits, which it outgrows with 35792 pulses; the
\* build wraps round.
PulsesTimesMinute(error) ==
  IF error < 35792 THEN error * 60000
                   ELSE (error - 35792) * 60000 - 2147447296

RawRpm(sign, error, time) ==
  TruncDiv(TruncDiv(sign * PulsesTimesMinute(error), time), PulsePerRound)

\* Faulty variant: the older of the two raw speeds is left out.
LowPassNewer(last, history) ==
  TruncDiv(72849 * last + (27151 * history[2]) \div 2, 100000)

LowPass(last, history) ==
  TruncDiv(72849 * last + (27151 * (history[1] + history[2])) \div 2, 100000)

HoldOutlier(f) ==
  IF f > MaxRpm \/ f < -MaxRpm THEN last_filtered_rpm ELSE f

\* The code's filter has ten places; a shorter one uses the first of them.
Average(h) ==
  LET at(i) == IF i < FilterLen THEN h[i] ELSE 0
  IN TruncDiv(at(0) + at(1) + at(2) + at(3) + at(4)
                + at(5) + at(6) + at(7) + at(8) + at(9), FilterLen)

\* A new estimate from error pulses in time milliseconds.
Estimate(sign, error, time) ==
  LET raw == RawRpm(sign, error, time)
      filtered == HoldOutlier(LowPass(last_filtered_rpm, raw_rpm_history))
      estimates == [estimated_rpm_history EXCEPT ![indexer] = filtered]
      published == IF estimator_counter >= FilterLen THEN Average(estimates)
                                                     ELSE filtered
  IN /\ raw_rpm_history' = << raw_rpm_history[2], raw >>
     /\ last_filtered_rpm' = filtered
     /\ estimated_rpm_history' = estimates
     /\ indexer' = (indexer + 1) % FilterLen
     /\ IF estimator_counter + 1 > MinEstimates
          THEN /\ estimator_counter' = MinEstimates
               /\ rpm_msgq_out' = Overwrite(rpm_msgq_out,
                    [raw |-> raw, filtered |-> published], RpmDepth)
          ELSE /\ estimator_counter' = estimator_counter + 1
               /\ UNCHANGED rpm_msgq_out

-----------------------------------------------------------------------------

\* The first sample only takes the reading.
FirstSample ==
  /\ first_time
  /\ encoder_prev_reading' = GetEncoderCount /\ first_time' = FALSE
  /\ UNCHANGED <<wheel, overflow_detected, is_counting_up, accumulated_error,
                 accumulated_time, loop_counter, filter, rpm_msgq_out, truth>>

\* The flag of the start makes a step down count up.
FlagMisleads == flagged /\ delta < 0 /\ counter' < counter

\* The wheel turned for a while; the thread reads the counter and the time.  Turns
\* may be early or late against each other, and k_uptime_delta even give 0; but
\* the thread sleeps for what is left of a period after each (line 217), and two
\* turns, or its start and its first sample, are never within one period.
Sample ==
  /\ ~first_time
  /\ EncoderCounts(delta)
  /\ Count(GetEncoderCount')
  /\ \E ms \in Elapsed :
       LET error == Counted(GetEncoderCount')
           time == accumulated_time + ms
           sign == IF is_counting_up' THEN 1 ELSE -1
       IN IF loop_counter = 0
            THEN /\ time >= PeriodMs
                 /\ Estimate(sign, error, time)
                 /\ accumulated_error' = 0 /\ accumulated_time' = 0
                 /\ moved' = 0 /\ misread' = FALSE
            ELSE /\ accumulated_error' = error /\ accumulated_time' = time
                 /\ moved' = moved + delta
                 /\ misread' = FlagMisleads
                 /\ UNCHANGED <<filter, rpm_msgq_out>>
  /\ flagged' = (flagged /\ counter' >= counter)
  /\ backwards' = (backwards \/ delta < 0)
  /\ loop_counter' = (loop_counter + 1) % 2
  /\ UNCHANGED <<first_time, delta, changes>>

RpmTaken ==
  /\ ~MsgqEmpty(rpm_msgq_out)
  /\ rpm_msgq_out' = MsgqRest(rpm_msgq_out)
  /\ UNCHANGED <<wheel, counting, accumulated_error, accumulated_time,
                 first_time, loop_counter, filter, truth>>

Loop == FirstSample \/ Sample

EncoderNext == Loop \/ ChangeSpeed \/ RpmTaken

EncoderSpec == EncoderInit /\ [][EncoderNext]_encoderVars

\* The loop runs again and again; it is of the highest priority.
FairEncoder == EncoderSpec /\ WF_encoderVars(Loop)

-----------------------------------------------------------------------------

EncoderTypeOK ==
  /\ counter \in Readings /\ encoder_prev_reading \in Readings
  /\ overflow_detected \in BOOLEAN /\ is_counting_up \in BOOLEAN
  /\ first_time \in BOOLEAN
  /\ accumulated_error \in Readings /\ accumulated_time \in {0} \cup Elapsed
  /\ loop_counter \in 0..1 /\ indexer \in 0..(FilterLen - 1)
  /\ estimator_counter \in 0..MinEstimates
  /\ raw_rpm_history \in Int \X Int /\ last_filtered_rpm \in Int
  /\ estimated_rpm_history \in [0..(FilterLen - 1) -> Int]
  /\ rpm_msgq_out \in Seq([raw : Int, filtered : Int])
  /\ Len(rpm_msgq_out) <= RpmDepth
  /\ delta \in Deltas /\ changes \in 0..MaxChanges
  /\ moved \in Int /\ flagged \in BOOLEAN /\ misread \in BOOLEAN
  /\ backwards \in BOOLEAN

\* The direction of the last reading is taken for that of all since the estimate;
\* it is not when the wheel turned round between two readings, or turned backwards
\* and then stood, since a reading that stays counts up (line 125).
Reverses == moved # 0 /\ (delta < 0) # (moved < 0)

\* The pulses and the direction an estimate is made from are exactly those of the
\* wheel, wherever the counter wrapped, unless the wheel reversed since the last
\* estimate, or stopped after turning backwards, or the flag of the start made a
\* step down count up (encoder_service.c:110-148).
CountExact ==
  [][Sample /\ ~Reverses /\ ~misread /\ ~FlagMisleads =>
       LET pulses == moved + delta
       IN /\ Counted(counter') = IF pulses < 0 THEN -pulses ELSE pulses
          /\ is_counting_up' <=> pulses >= 0]_encoderVars

\* A wheel that has never turned backwards is never said to, neither by the raw
\* speed nor by the filtered one: not when the counter wraps, for no flag of
\* the start, for no jitter, and though the product of line 159 has 32 bits.  The
\* filtered speed, which the controller uses, keeps to the limit all the same
\* when the wheel does not; the raw one is published, and goes into the low-pass,
\* without a limit (encoder_service.c:110-188).
SpeedPlausible ==
  \A i \in DOMAIN rpm_msgq_out :
    /\ rpm_msgq_out[i].filtered \in -MaxRpm..MaxRpm
    /\ ~backwards => rpm_msgq_out[i].raw >= 0 /\ rpm_msgq_out[i].filtered >= 0

\* The raw speed of a wheel that makes d pulses in each of two samples, by the time
\* the thread took for both: the magnitude is largest for the shortest time.
SteadyRpm(d, time) == IF d < 0 THEN RawRpm(-1, -2 * d, time) ELSE RawRpm(1, 2 * d, time)
Times == {first + second : first, second \in Elapsed} \ 0..(PeriodMs - 1)
Longest == CHOOSE ms \in Times : \A other \in Times : other <= ms
Shortest == CHOOSE ms \in Times : \A other \in Times : ms <= other

\* The filter does not get stuck: once the wheel keeps a speed, and one that the
\* thread does not take for an outlier, the published speed comes to lie between
\* the raw speeds for the longest and for the shortest times that are measured,
\* and stays there, even after outliers or what the flag of the start made of a
\* step.  It falls short of the lower one by at most 4 rpm, which
\* truncation costs (encoder_service.c:103-104, 157-188).
FilterSettles ==
  \A d \in {e \in Deltas : SteadyRpm(e, Shortest) \in -MaxRpm..MaxRpm} :
    <>[](delta = d) =>
      <>[](\A i \in DOMAIN rpm_msgq_out :
             LET slow == SteadyRpm(d, Longest)
                 fast == SteadyRpm(d, Shortest)
             IN rpm_msgq_out[i].filtered \in IF d < 0 THEN fast..(slow + 4)
                                                      ELSE (slow - 4)..fast)

\* "negative direction: current < previous, unless underflow"
\* (encoder_service.c:108): a reading below the previous one, with no jump, is a
\* turn backwards.
BackwardsIsDown ==
  [][Sample /\ counter' < encoder_prev_reading
            /\ ~Jump(counter', encoder_prev_reading) => ~is_counting_up']_encoderVars
=============================================================================
