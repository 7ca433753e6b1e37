----------------------------- MODULE PowerLimits -----------------------------
(***************************************************************************)
(* How many threads the native Android code allows.  Four places decide    *)
(* it, each with thresholds of its own and without a look at the others:   *)
(* android_thermal.cpp by the temperature, android_bridge.cpp by cores,    *)
(* memory and two flags, android_battery.cpp by the charge, and            *)
(* RandomXWrapper::initialize_android by charge and temperature.           *)
(*                                                                         *)
(* Temperatures are in tenths of a degree, charges in percent, memory in   *)
(* GiB (a thread needs two, and what lies between does not count).         *)
(* A definition named Faulty... is the next one with a plausible slip;     *)
(* nothing uses it.                                                        *)
(***************************************************************************)
EXTENDS Integers

AtMost(a, b) == IF a <= b THEN a ELSE b

AtLeast(a, b) == IF a >= b THEN a ELSE b

\* g_thermal_thread_limit after nativeUpdateThermalState(temp).
ThermalLimit(temp) ==
  IF temp >= 650 THEN 0
  ELSE IF temp >= 550 THEN 1
  ELSE IF temp >= 450 THEN 2
  ELSE 8

\* initialize_android refuses to start at all.
TooHot(temp) == temp > 550

\* The threads initialize_android starts of the n it is asked for.
WrapperThreads(n, level, temp) ==
  AtMost(n, IF level < 20 \/ temp > 450 THEN 1
            ELSE IF level < 40 \/ temp > 400 THEN 2
            ELSE n)

\* nativeGetMiningIntensity.
Intensity(optimization, level, charging) ==
  IF ~optimization \/ charging THEN 100
  ELSE IF level > 80 THEN 100
  ELSE IF level > 60 THEN 75
  ELSE IF level > 40 THEN 50
  ELSE IF level > 20 THEN 25
  ELSE 0

-----------------------------------------------------------------------------
(* nativeGetOptimalThreadCount.  available_memory and memory_per_thread    *)
(* are of type long.  Where long has 32 bits (armeabi-v7a) the product     *)
(* freeram * mem_unit wraps at 4 GiB and is read with a sign, and the two  *)
(* GiB per thread become -2^31; the quotient is truncated.                 *)

MemoryThreads(free, wideLong) ==
  IF wideLong THEN free \div 2
  ELSE IF free % 4 = 2 THEN 1 ELSE 0

\* cpus is what sysconf reports, -1 if it fails.
UsableCpus(cpus, throttled, lowPower) ==
  LET cool == IF throttled THEN AtMost(cpus, 2) ELSE cpus
      used == IF lowPower THEN AtMost(cool, 1) ELSE cool
  IN  IF used > 4 THEN used - 1 ELSE used

FaultyOptimalThreads(cpus, free, wideLong, throttled, lowPower) ==
  AtMost(UsableCpus(cpus, throttled, lowPower), AtMost(MemoryThreads(free, wideLong), 8))
OptimalThreads(cpus, free, wideLong, throttled, lowPower) ==
  AtLeast(1, AtMost(UsableCpus(cpus, throttled, lowPower),
                    AtMost(MemoryThreads(free, wideLong), 8)))

-----------------------------------------------------------------------------
(* What the limits promise.  Thresholds of different code meet here; a     *)
(* slip in one comparison shows at one temperature only.                   *)

\* Neither a device hotter than temp nor one with less charge than level ever
\* gets more threads: android_thermal.cpp looks at the temperature,
\* initialize_android, which may refuse altogether, at both.
HotterNeverMore(temp, level, Temps, Levels) ==
  LET started(n, l, t) == IF TooHot(t) THEN 0 ELSE WrapperThreads(n, l, t) IN
  \A t \in Temps : temp <= t =>
    /\ ThermalLimit(t) <= ThermalLimit(temp)
    /\ \A l \in Levels, n \in 0 .. 8 :
         l <= level => started(n, l, t) <= started(n, level, temp)

\* Where initialize_android starts threads at all, it starts no more than
\* android_thermal.cpp allows at that temperature, of the eight it knows.
WrapperStricter(Temps, Levels) ==
  \A t \in Temps, l \in Levels, n \in 0 .. 8 :
    ~TooHot(t) => WrapperThreads(n, l, t) <= ThermalLimit(t)

\* The optimal count is between one and eight, within the cores and, above one
\* thread, within the memory; with more than four cores one is left free; a
\* raised flag or one core less never raises it.
CountSound(Counts, Memories) ==
  \A c \in Counts, free \in Memories, wide \in BOOLEAN, hot \in BOOLEAN, low \in BOOLEAN :
    LET n == OptimalThreads(c, free, wide, hot, low) IN
    /\ n \in 1 .. 8
    /\ n = 1 \/ (n <= c /\ 2 * n <= free)
    /\ c > 4 => n < c
    /\ hot => n <= 2
    /\ low => n = 1
    /\ ~wide => n = 1
    /\ OptimalThreads(c, free, wide, TRUE, low) <= n
    /\ OptimalThreads(c - 1, free, wide, hot, low) <= n

\* Less charge never gives more intensity, and nothing but the switch, the
\* charger or more than 80 % gives all of it.
IntensitySound(Levels) ==
  \A l \in Levels, m \in Levels, on \in BOOLEAN, plugged \in BOOLEAN :
    /\ l <= m => Intensity(on, l, plugged) <= Intensity(on, m, plugged)
    /\ Intensity(on, l, plugged) = 100 <=> (~on \/ plugged \/ l > 80)

=============================================================================
