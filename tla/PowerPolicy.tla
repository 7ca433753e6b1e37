----------------------------- MODULE PowerPolicy -----------------------------
(***************************************************************************)
(* The battery and thermal state of the native Android code: the globals   *)
(* of android_bridge.cpp, android_thermal.cpp and android_battery.cpp and  *)
(* the JNI functions that write them.  Bridge and thermal module each have *)
(* a temperature of their own, written by a function of their own; the     *)
(* bridge forgets nothing between 45 and 55 degrees and from 65 on, the    *)
(* thermal module decides afresh at every report.                          *)
(*                                                                         *)
(* Whoever reads the sensors may call the functions with any values in any *)
(* order: no Kotlin code of the repository declares them.  A call is one   *)
(* step.  g_battery_level and g_is_charging of android_battery.cpp have no *)
(* writer, so they are the constants they were initialized with.           *)
(***************************************************************************)
EXTENDS PowerLimits

CONSTANTS
  Temperatures,  \* what the sensor reports, in tenths of a degree
  Levels,        \* what the battery reports, in percent
  CpuCounts,     \* the processors sysconf counts
  Memories       \* free memory, in GiB

ASSUME PowerAssumption ==
  /\ Temperatures \subseteq Int
  /\ Levels \subseteq Int
  /\ CpuCounts \subseteq Int
  /\ Memories \subseteq Nat

VARIABLES
  \* android_bridge.cpp
  level,         \* g_battery_level
  charging,      \* g_is_charging
  lowPower,      \* g_low_power_mode
  bridgeTemp,    \* g_cpu_temperature
  throttled,     \* g_thermal_throttled
  \* android_thermal.cpp
  thermalTemp,   \* g_cpu_temperature
  throttling,    \* g_thermal_throttling
  limit,         \* g_thermal_thread_limit
  optimization   \* android_battery.cpp: g_battery_optimization_enabled

bridgeVars == <<level, charging, lowPower, bridgeTemp, throttled>>
thermalVars == <<thermalTemp, throttling, limit>>
policyVars == <<bridgeVars, thermalVars, optimization>>

PolicyInit ==
  /\ level = 100 /\ charging = TRUE /\ lowPower = FALSE
  /\ bridgeTemp = 350 /\ throttled = FALSE
  /\ thermalTemp = 350 /\ throttling = FALSE /\ limit = 8
  /\ optimization = TRUE

\* g_low_power_mode after a battery report.
LowPowerAfter(l, plugged) ==
  (l < 20 \/ lowPower) /\ ~plugged

\* g_thermal_throttled after a temperature report: "Stopping mining!" from 65
\* degrees on, and the warning from 45 on, write nothing.
FaultyThrottledAfter(temp) == throttled \/ (temp >= 550 /\ temp < 650)
ThrottledAfter(temp) ==
  \/ temp >= 550 /\ temp < 650
  \/ throttled /\ temp >= 450

UpdateBatteryStatus(l, plugged) ==
  /\ level' = l
  /\ charging' = plugged
  /\ lowPower' = LowPowerAfter(l, plugged)
  /\ UNCHANGED <<bridgeTemp, throttled, thermalVars, optimization>>

UpdateTemperature(temp) ==
  /\ bridgeTemp' = temp
  /\ throttled' = ThrottledAfter(temp)
  /\ UNCHANGED <<level, charging, lowPower, thermalVars, optimization>>

UpdateThermalState(temp) ==
  /\ thermalTemp' = temp
  /\ throttling' = (temp >= 450)
  /\ limit' = ThermalLimit(temp)
  /\ UNCHANGED <<bridgeVars, optimization>>

SetBatteryOptimization(enabled) ==
  /\ optimization' = enabled
  /\ UNCHANGED <<bridgeVars, thermalVars>>

PolicyNext ==
  \/ \E l \in Levels, plugged \in BOOLEAN : UpdateBatteryStatus(l, plugged)
  \/ \E temp \in Temperatures : UpdateTemperature(temp) \/ UpdateThermalState(temp)
  \/ \E enabled \in BOOLEAN : SetBatteryOptimization(enabled)

PolicySpec == PolicyInit /\ [][PolicyNext]_policyVars

-----------------------------------------------------------------------------
(* Properties                                                              *)

\* Every global has its type, and the thread limit is one of the four.
PolicyTypeOK ==
  /\ level \in Int
  /\ charging \in BOOLEAN
  /\ lowPower \in BOOLEAN
  /\ bridgeTemp \in Int
  /\ throttled \in BOOLEAN
  /\ thermalTemp \in Int
  /\ throttling \in BOOLEAN
  /\ limit \in {0, 1, 2, 8}
  /\ optimization \in BOOLEAN

\* Told the same temperature, the two modules agree on throttling, but for a
\* device between 45 and 55 degrees that was not hotter before, and for one of
\* 65 and more that jumped there: then the bridge alone sees no need to throttle
\* (android_bridge.cpp:71-83, android_thermal.cpp:33-51).
ThermalAgree ==
  bridgeTemp = thermalTemp =>
    /\ throttled => throttling /\ limit <= 2
    /\ (throttling /\ ~throttled) =>
         (bridgeTemp >= 450 /\ bridgeTemp < 550) \/ bridgeTemp >= 650

\* Low power mode never outlives a charger, and is never missing on a battery
\* below 20 percent (android_bridge.cpp:40-45).
LowPowerSound ==
  /\ lowPower => ~charging
  /\ level < 20 /\ ~charging => lowPower

\* The flags the bridge keeps between reports are right for the last reports,
\* whatever came before (android_bridge.cpp:36-83).
FlagsTruthful == ThermalAgree /\ LowPowerSound

\* What the limits promise over all values that can be reported, beside the
\* last ones and among each other (android_bridge.cpp:110-139,
\* android_thermal.cpp:33-51, android_battery.cpp:25-45,
\* randomx_wrapper.cpp:182-187).
LimitsSound ==
  /\ HotterNeverMore(thermalTemp, level, Temperatures, Levels)
  /\ WrapperStricter(Temperatures, Levels)
  /\ CountSound(CpuCounts \cup {-1}, Memories)
  /\ IntensitySound(Levels)

=============================================================================
