------------------------------ MODULE AndroidProofs ------------------------------
(***************************************************************************)
(* Theorems about the native side of the Android program: MinerService,    *)
(* for any number of STARTs, PAUSEs and service instances, and             *)
(* PowerPolicy, for every temperature, charge, number of processors and    *)
(* amount of memory.                                                       *)
(***************************************************************************)
EXTENDS MinerService, PowerPolicy, TLAPS

\* A coroutine that has not been launched stands nowhere.
Unlaunched == \A c \in Coroutines : c > launched => co[c] = "none"

\* What the globals are while someone holds g_mutex.
Building == \A c \in Coroutines : co[c] = "connecting" => gMiner = "building" /\ callbackRef
Resetting == gMutex = MainThread => gMiner = "none"

BridgeInv == BridgeConsistent /\ Building /\ Resetting

\* As long as no stop has overlapped a start: a stop finds no start under way
\* and isMining cleared; a start belongs to the instance that exists; g_mining
\* and isMining differ only while a coroutine is on its way from one to the
\* other.
StopsAlone == main \in Stopping => ~isMining /\ \A c \in Coroutines : ~Starting(c)
StartsOwned == \A c \in Coroutines : Starting(c) => Own(c)
WonMines == \A c \in Coroutines : co[c] = "won" => gMining
MiningSeen ==
  main = "idle" => /\ isMining => alive /\ gMining /\ process = "up"
                   /\ gMining => \/ alive /\ isMining
                                 \/ \E c \in Coroutines : co[c] = "won"

TruthInv == ~overtaken => StopsAlone /\ StartsOwned /\ WonMines /\ MiningSeen

\* The service holds no other lock than the one it has a reference to.
LockInv ==
  /\ ~alive => wakeLock = 0
  /\ ~overwritten => heldLocks \subseteq {wakeLock}

-----------------------------------------------------------------------------
(* Types                                                                   *)

\* The same, flag by flag.
LEMMA Flags ==
  FlagsOK => /\ alive \in BOOLEAN /\ isMining \in BOOLEAN /\ scopeLive \in BOOLEAN
             /\ gMining \in BOOLEAN /\ callbackRef \in BOOLEAN
             /\ overtaken \in BOOLEAN /\ overwritten \in BOOLEAN
  BY Zenon DEF FlagsOK

LEMMA FlagsStep ==
  ASSUME FlagsOK, [Next]_vars
  PROVE  FlagsOK'
<1> USE DEF FlagsOK, Instance, coVars, nativeVars, serviceVars, history
<1>1. CASE Start \/ StartIgnored
  BY <1>1, Zenon DEF Start, StartIgnored
<1>2. CASE StopIntent \/ PauseIntent \/ OnDestroy
  BY <1>2, Zenon DEF StopIntent, PauseIntent, OnDestroy, BeginStop
<1>3. CASE NativeStop \/ NativeStopped
  BY <1>3, Zenon DEF NativeStop, NativeStopped, MiningAfterStop
<1>4. ASSUME NEW c \in Coroutines, Coroutine(c) PROVE FlagsOK'
  BY <1>4, Zenon DEF Coroutine, Dispatch, NativeStart, NativeStarted, SetMining, Refused,
     AfterRefusal, StatsBegin, StatsEnd, StatsCrash
<1>5. CASE LockExpires \/ Rest \/ UNCHANGED vars
  BY <1>5, Zenon DEF LockExpires, Rest, vars
<1> QED
  BY <1>1, <1>2, <1>3, <1>4, <1>5 DEF Next

LEMMA MainPlaces ==
  ASSUME PlacesOK, Unlaunched,
         Start \/ StartIgnored \/ StopIntent \/ PauseIntent \/ OnDestroy
           \/ NativeStop \/ NativeStopped
  PROVE  PlacesOK' /\ Unlaunched'
<1> USE ServiceAssumption
    DEF PlacesOK, Unlaunched, Coroutines, CoLabels, Nobody, MainThread, MainFree, Instance,
        coVars, nativeVars, serviceVars, history, Stopping
<1>1. CASE Start
  BY <1>1 DEF Start, Move
<1>2. CASE StartIgnored
  BY <1>2 DEF StartIgnored
<1>3. CASE StopIntent
  BY <1>3 DEF StopIntent, BeginStop
<1>4. CASE PauseIntent
  BY <1>4 DEF PauseIntent, BeginStop
<1>5. CASE OnDestroy
  BY <1>5 DEF OnDestroy, BeginStop
<1>6. CASE NativeStop
  BY <1>6 DEF NativeStop
<1>7. CASE NativeStopped
  BY <1>7 DEF NativeStopped, Released
<1> QED
  BY <1>1, <1>2, <1>3, <1>4, <1>5, <1>6, <1>7

LEMMA CoroutinePlaces ==
  ASSUME PlacesOK, Unlaunched, NEW c \in Coroutines, Coroutine(c)
  PROVE  PlacesOK' /\ Unlaunched'
<1> USE ServiceAssumption
    DEF PlacesOK, Unlaunched, Coroutines, CoLabels, Nobody, MainThread, Move,
        coVars, nativeVars, serviceVars, history, Stopping
<1>1. CASE Dispatch(c)
  BY <1>1 DEF Dispatch
<1>2. CASE NativeStart(c)
  BY <1>2 DEF NativeStart
<1>3. CASE NativeStarted(c)
  BY <1>3 DEF NativeStarted, MutexAfterFailure
<1>4. CASE SetMining(c)
  BY <1>4 DEF SetMining
<1>5. CASE Refused(c)
  BY <1>5 DEF Refused
<1>6. CASE StatsBegin(c)
  BY <1>6 DEF StatsBegin
<1>7. CASE StatsEnd(c)
  BY <1>7 DEF StatsEnd
<1>8. CASE StatsCrash(c)
  BY <1>8 DEF StatsCrash
<1> QED
  BY <1>1, <1>2, <1>3, <1>4, <1>5, <1>6, <1>7, <1>8 DEF Coroutine

LEMMA PlacesStep ==
  ASSUME PlacesOK, Unlaunched, [Next]_vars
  PROVE  PlacesOK' /\ Unlaunched'
<1>1. CASE LockExpires
  BY <1>1 DEF LockExpires, PlacesOK, Unlaunched, coVars, nativeVars, history
<1>2. CASE Rest \/ UNCHANGED vars
  BY <1>2 DEF Rest, vars, PlacesOK, Unlaunched, coVars, nativeVars, serviceVars, history
<1> QED
  BY <1>1, <1>2, MainPlaces, CoroutinePlaces DEF Next

LEMMA TypeInit == Init => TypeOK /\ Unlaunched
<1> SUFFICES ASSUME Init PROVE TypeOK /\ Unlaunched
  OBVIOUS
<1>1. FlagsOK
  BY Zenon DEF Init, FlagsOK
<1>2. PlacesOK /\ Unlaunched
  BY ServiceAssumption DEF Init, PlacesOK, Unlaunched, Coroutines, CoLabels, Nobody
<1> QED
  BY <1>1, <1>2 DEF TypeOK

LEMMA TypeStep == TypeOK /\ Unlaunched /\ [Next]_vars => TypeOK' /\ Unlaunched'
  BY FlagsStep, PlacesStep DEF TypeOK
-----------------------------------------------------------------------------
(* The native globals                                                      *)

\* A step that leaves the globals alone, and enters or leaves no native start.
LEMMA BridgeKept ==
  ASSUME TypeOK, BridgeInv, UNCHANGED nativeVars,
         \A c \in Coroutines : co'[c] = "connecting" => co[c] = "connecting"
  PROVE  BridgeInv'
  BY Flags DEF TypeOK, BridgeInv, BridgeConsistent, Building, Resetting, nativeVars

LEMMA BridgeStep ==
  ASSUME TypeOK, Unlaunched, BridgeInv, [Next]_vars
  PROVE  BridgeInv'
<1>1. CASE Start
  BY <1>1, BridgeKept DEF Start, Move, TypeOK, PlacesOK
<1>2. CASE StartIgnored \/ StopIntent \/ PauseIntent \/ OnDestroy
  BY <1>2, BridgeKept DEF StartIgnored, StopIntent, PauseIntent, OnDestroy, BeginStop, coVars
<1>3. CASE LockExpires \/ Rest \/ UNCHANGED vars
  BY <1>3, BridgeKept DEF LockExpires, Rest, vars, coVars
<1>4. CASE NativeStop
  BY <1>4, Flags DEF NativeStop, TypeOK, BridgeInv, BridgeConsistent, Building, Resetting,
     Nobody, MainThread, Coroutines, coVars
<1>5. CASE NativeStopped
  BY <1>5, Flags DEF NativeStopped, MiningAfterStop, TypeOK, BridgeInv, BridgeConsistent,
     Building, Resetting, Nobody, MainThread, Coroutines, coVars
<1>6. ASSUME NEW c \in Coroutines, Coroutine(c) PROVE BridgeInv'
  <2> USE DEF TypeOK, PlacesOK, Move
  <2>1. CASE NativeStart(c)
    <3>1. CASE AlreadyRunning
      BY <2>1, <3>1, BridgeKept DEF NativeStart
    <3>2. CASE ~AlreadyRunning
      <4>1. \A d \in Coroutines : co[d] # "connecting"
        BY <2>1 DEF NativeStart, BridgeInv, BridgeConsistent, Coroutines, Nobody
      <4>2. /\ co' = [co EXCEPT ![c] = "connecting"] /\ gMutex' = c /\ gMiner' = "building"
            /\ callbackRef' = TRUE /\ gMining' = gMining
        BY <2>1, <3>2 DEF NativeStart
      <4>3. ~gMining'
        BY <3>2, <4>2 DEF AlreadyRunning
      <4> QED
        BY <4>1, <4>2, <4>3 DEF BridgeInv, BridgeConsistent, Building, Resetting, Nobody,
           MainThread, Coroutines
    <3> QED
      BY <3>1, <3>2
  <2>2. CASE NativeStarted(c)
    <3>1. /\ gMutex = c /\ ~gMining /\ callbackRef
          /\ \A d \in Coroutines \ {c} : co[d] # "connecting"
      BY <2>2 DEF NativeStarted, BridgeInv, BridgeConsistent, Building
    <3>2. gMutex' = Nobody /\ callbackRef' = callbackRef /\ co'[c] # "connecting"
      BY <2>2 DEF NativeStarted, MutexAfterFailure
    <3>3. \A d \in Coroutines : co'[d] # "connecting"
      BY <2>2, <3>1, <3>2 DEF NativeStarted
    <3>4. \/ gMiner' = "running" /\ gMining'
          \/ gMiner' = "none" /\ ~gMining'
      BY <2>2, <3>1 DEF NativeStarted
    <3> QED
      BY <3>1, <3>2, <3>3, <3>4 DEF BridgeInv, BridgeConsistent, Building, Resetting,
         Nobody, MainThread
  <2>3. CASE Dispatch(c) \/ SetMining(c) \/ Refused(c)
    BY <2>3, BridgeKept DEF Dispatch, SetMining, Refused
  <2>4. CASE StatsBegin(c) \/ StatsEnd(c) \/ StatsCrash(c)
    BY <2>4, BridgeKept DEF StatsBegin, StatsEnd, StatsCrash, coVars
  <2> QED
    BY <1>6, <2>1, <2>2, <2>3, <2>4 DEF Coroutine
<1> QED
  BY <1>1, <1>2, <1>3, <1>4, <1>5, <1>6 DEF Next

-----------------------------------------------------------------------------
(* The wake lock                                                           *)

LEMMA LockStep ==
  ASSUME TypeOK, LockInv, [Next]_vars
  PROVE  LockInv'
<1> USE Flags DEF TypeOK, LockInv, history, coVars, nativeVars, serviceVars
<1>1. CASE Start
  BY <1>1 DEF Start, TypeOK, PlacesOK, Coroutines
<1>2. CASE StartIgnored
  BY <1>2 DEF StartIgnored
<1>3. CASE StopIntent \/ PauseIntent \/ OnDestroy
  BY <1>3 DEF StopIntent, PauseIntent, OnDestroy, BeginStop
<1>4. CASE NativeStop \/ Rest \/ UNCHANGED vars
  BY <1>4 DEF NativeStop, Rest, vars
<1>5. CASE NativeStopped
  BY <1>5 DEF NativeStopped, Released
<1>6. ASSUME NEW c \in Coroutines, Coroutine(c) PROVE LockInv'
  BY <1>6 DEF Coroutine, Dispatch, NativeStart, NativeStarted, SetMining, Refused,
     StatsBegin, StatsEnd, StatsCrash
<1>7. CASE LockExpires
  BY <1>7 DEF LockExpires
<1> QED
  BY <1>1, <1>2, <1>3, <1>4, <1>5, <1>6, <1>7 DEF Next

-----------------------------------------------------------------------------
(* isMining and g_mining                                                   *)

\* What a step that leaves all of them alone leaves alone.
LEMMA TruthKept ==
  ASSUME TruthInv, UNCHANGED <<alive, instance, isMining, main, of, gMining, process, overtaken>>,
         \A c \in Coroutines : /\ Starting(c)' => Starting(c)
                               /\ co[c] = "won" <=> co'[c] = "won"
  PROVE  TruthInv'
  BY DEF TruthInv, StopsAlone, StartsOwned, WonMines, MiningSeen, Own

\* A service that says it mines, and is not stopping, has its miner.
LEMMA MinerThere ==
  ASSUME TypeOK, BridgeInv, TruthInv, ~overtaken, isMining
  PROVE  main = "idle" /\ gMiner = "running" /\ process = "up"
<1>1. main = "idle"
  BY DEF TypeOK, PlacesOK, TruthInv, StopsAlone
<1>2. gMining /\ process = "up"
  BY <1>1 DEF TruthInv, MiningSeen
<1>3. gMutex = Nobody
  BY <1>1, <1>2 DEF TypeOK, PlacesOK, BridgeInv, BridgeConsistent, Stopping
<1> QED
  BY <1>1, <1>2, <1>3 DEF BridgeInv, BridgeConsistent

\* A START joins the instance there is, or comes when nothing mines.
LEMMA StartTruth ==
  ASSUME TypeOK, Unlaunched, TruthInv, Start
  PROVE  TruthInv'
<1> SUFFICES ASSUME ~overtaken
             PROVE  StopsAlone' /\ StartsOwned' /\ WonMines' /\ MiningSeen'
  BY DEF Start, TruthInv
<1>0. PICK c \in Coroutines : c = launched + 1
  BY DEF Start
<1>1. /\ co[c] = "none" /\ co \in [Coroutines -> CoLabels]
      /\ of \in [Coroutines -> 0 .. MaxInstances]
  BY <1>0 DEF Start, TypeOK, PlacesOK, Unlaunched, Coroutines
<1>2. /\ main = "idle" /\ main' = main /\ alive' = TRUE /\ isMining' = FALSE
      /\ ~(alive /\ isMining) /\ gMining' = gMining /\ (alive => instance' = instance)
  BY DEF Start, MainFree, Instance, nativeVars
<1>3. /\ co' = [co EXCEPT ![c] = IF scopeLive' THEN "launched" ELSE "over"]
      /\ of' = [of EXCEPT ![c] = instance']
  BY <1>0 DEF Start, Move
<1>4. Own(c)'
  BY <1>1, <1>2, <1>3 DEF Own
<1>5. \A d \in Coroutines \ {c} : Starting(d)' => Own(d)'
  <2> SUFFICES ASSUME NEW d \in Coroutines \ {c}, Starting(d)' PROVE Own(d)'
    OBVIOUS
  <2>1. co'[d] = co[d] /\ of'[d] = of[d]
    BY <1>1, <1>3
  <2>2. Own(d)
    BY <2>1 DEF TruthInv, StartsOwned, Starting
  <2> QED
    BY <1>2, <2>1, <2>2 DEF Own
<1>6. \A d \in Coroutines : co'[d] = "won" <=> co[d] = "won"
  BY <1>1, <1>3
<1>7. StopsAlone'
  BY <1>2 DEF StopsAlone, Stopping
<1>8. StartsOwned'
  BY <1>4, <1>5 DEF StartsOwned
<1>9. WonMines' /\ MiningSeen'
  BY <1>2, <1>6 DEF WonMines, MiningSeen, TruthInv
<1> QED
  BY <1>7, <1>8, <1>9

\* A stop that begins while nothing starts finds nothing under way; otherwise
\* it has overtaken a start.
LEMMA BeginStopTruth ==
  ASSUME TypeOK, TruthInv, StopIntent \/ PauseIntent \/ OnDestroy
  PROVE  TruthInv'
<1> SUFFICES ASSUME ~overtaken, \A c \in Coroutines : ~Starting(c)
             PROVE  StopsAlone' /\ StartsOwned' /\ WonMines' /\ MiningSeen'
  BY DEF StopIntent, PauseIntent, OnDestroy, BeginStop, TruthInv
<1>1. isMining' = FALSE /\ main' \in Stopping /\ co' = co
  BY DEF StopIntent, PauseIntent, OnDestroy, BeginStop, coVars, Stopping
<1>2. \A c \in Coroutines : ~Starting(c)'
  BY <1>1 DEF Starting
<1> QED
  BY <1>1, <1>2 DEF StopsAlone, StartsOwned, WonMines, MiningSeen, Starting, Stopping

LEMMA CoroutineTruth ==
  ASSUME TypeOK, BridgeInv, TruthInv, NEW c \in Coroutines, Coroutine(c)
  PROVE  TruthInv'
<1> SUFFICES ASSUME ~overtaken
             PROVE  StopsAlone' /\ StartsOwned' /\ WonMines' /\ MiningSeen'
  BY DEF Coroutine, Dispatch, NativeStart, NativeStarted, SetMining, Refused, StatsBegin,
     StatsEnd, StatsCrash, TruthInv, history
<1> USE DEF TypeOK, PlacesOK, Move
<1>1. CASE NativeStarted(c)
  <2>1. /\ UNCHANGED <<alive, instance, isMining, main, of, process>>
        /\ co[c] = "connecting" /\ \A d \in Coroutines : Starting(d)' => Starting(d)
    BY <1>1 DEF NativeStarted, serviceVars, Starting
  <2>2. main = "idle"
    BY <2>1 DEF TruthInv, StopsAlone, Starting
  <2>3. StopsAlone' /\ StartsOwned'
    BY <2>1, <2>2 DEF StopsAlone, StartsOwned, Own, TruthInv, Stopping
  <2>4. CASE gMining' = TRUE /\ co'[c] = "won"
    BY <2>1, <2>3, <2>4 DEF WonMines, MiningSeen, TruthInv
  <2>5. CASE gMining' = gMining /\ co' = [co EXCEPT ![c] = "lost"]
    BY <2>1, <2>3, <2>5 DEF WonMines, MiningSeen, TruthInv
  <2> QED
    BY <1>1, <2>4, <2>5 DEF NativeStarted
<1>2. CASE SetMining(c)
  <2>1. /\ UNCHANGED <<alive, instance, main, of, gMining>> /\ co[c] = "won" /\ process' = "up"
        /\ co' = [co EXCEPT ![c] = "loop"] /\ isMining' = (isMining \/ Own(c))
    BY <1>2 DEF SetMining, nativeVars
  <2>2. main = "idle" /\ Own(c) /\ gMining
    BY <2>1 DEF TruthInv, StopsAlone, StartsOwned, WonMines, Starting
  <2>3. StopsAlone' /\ StartsOwned' /\ WonMines'
    BY <2>1, <2>2 DEF StopsAlone, StartsOwned, WonMines, Own, TruthInv, Stopping, Starting
  <2>4. alive' /\ isMining' /\ gMining'
    BY <2>1, <2>2 DEF Own
  <2> QED
    BY <2>1, <2>3, <2>4 DEF MiningSeen
<1>3. CASE \/ Dispatch(c) \/ NativeStart(c) \/ Refused(c) \/ StatsBegin(c) \/ StatsEnd(c)
  <2>1. /\ UNCHANGED <<alive, instance, isMining, main, of, gMining, process, overtaken>>
        /\ \A d \in Coroutines : /\ Starting(d)' => Starting(d)
                                 /\ co[d] = "won" <=> co'[d] = "won"
    BY <1>3 DEF Dispatch, NativeStart, Refused, StatsBegin, StatsEnd, Starting,
       serviceVars, nativeVars, coVars, history
  <2> QED
    BY <2>1, TruthKept DEF TruthInv
<1>4. CASE StatsCrash(c)
  <2>1. /\ UNCHANGED <<alive, instance, isMining, main, of, gMining, co>>
        /\ gMiner # "running"
    BY <1>4 DEF StatsCrash, serviceVars, nativeVars, coVars
  <2>2. ~isMining
    BY <2>1, MinerThere
  <2> QED
    BY <2>1, <2>2 DEF TruthInv, StopsAlone, StartsOwned, WonMines, MiningSeen, Starting, Own
<1> QED
  BY <1>1, <1>2, <1>3, <1>4 DEF Coroutine

LEMMA TruthStep ==
  ASSUME TypeOK, Unlaunched, BridgeInv, TruthInv, [Next]_vars
  PROVE  TruthInv'
<1>1. CASE StartIgnored
  <2> SUFFICES ASSUME ~overtaken
               PROVE  StopsAlone' /\ StartsOwned' /\ WonMines' /\ MiningSeen'
    BY <1>1 DEF StartIgnored, TruthInv, history
  <2>1. /\ main = "idle" /\ ~alive /\ UNCHANGED <<main, co, gMining>>
        /\ isMining' = FALSE
    BY <1>1 DEF StartIgnored, MainFree, coVars, nativeVars
  <2>2. \A c \in Coroutines : ~Starting(c) /\ ~Starting(c)'
    BY <2>1 DEF TruthInv, StartsOwned, Own, Starting
  <2>3. ~gMining
    BY <2>1, <2>2 DEF TruthInv, MiningSeen, Starting
  <2> QED
    BY <2>1, <2>2, <2>3 DEF StopsAlone, StartsOwned, WonMines, MiningSeen, Starting
<1>2. CASE NativeStopped
  <2> SUFFICES ASSUME ~overtaken
               PROVE  StopsAlone' /\ StartsOwned' /\ WonMines' /\ MiningSeen'
    BY <1>2 DEF NativeStopped, TruthInv, history
  <2>1. /\ ~isMining /\ main' = "idle" /\ UNCHANGED <<isMining, co>> /\ gMining' = FALSE
        /\ \A c \in Coroutines : ~Starting(c)
    BY <1>2 DEF NativeStopped, MiningAfterStop, TruthInv, StopsAlone, coVars
  <2> QED
    BY <2>1 DEF StopsAlone, StartsOwned, WonMines, MiningSeen, Starting, Stopping
<1>3. CASE NativeStop \/ LockExpires \/ Rest \/ UNCHANGED vars
  <2>1. /\ UNCHANGED <<alive, instance, isMining, main, of, gMining, process, overtaken, co>>
        /\ \A c \in Coroutines : Starting(c)' => Starting(c)
    BY <1>3 DEF NativeStop, LockExpires, Rest, Starting, vars, coVars, serviceVars, nativeVars,
       history
  <2> QED
    BY <2>1, TruthKept
<1> QED
  BY <1>1, <1>2, <1>3, StartTruth, BeginStopTruth, CoroutineTruth DEF Next

-----------------------------------------------------------------------------
(* The native miner                                                        *)

MinerVars == <<NativeStage, gMiner = "running", gMining>>

\* Every step of the service is a step of the native miner, or none of its
\* business.
LEMMA MinerStep ==
  ASSUME TypeOK, BridgeInv, [Next]_vars
  PROVE  [Native!Next]_MinerVars
<1> USE DEF MinerVars, NativeStage
<1>1. CASE NativeStop
  <2>1. Native!BeginStop
    BY <1>1 DEF NativeStop, Native!BeginStop, Nobody, MainThread
  <2> QED
    BY <2>1 DEF Native!Next
<1>2. CASE NativeStopped
  <2>1. Native!Stopped
    BY <1>2 DEF NativeStopped, MiningAfterStop, Native!Stopped, Nobody, MainThread
  <2> QED
    BY <2>1 DEF Native!Next
<1>3. ASSUME NEW c \in Coroutines, NativeStart(c), ~AlreadyRunning
      PROVE  [Native!Next]_MinerVars
  <2>1. gMutex = Nobody /\ gMutex' = c /\ ~gMining /\ gMining' = gMining
    BY <1>3 DEF NativeStart, AlreadyRunning
  <2>2. gMiner # "running" /\ gMiner' = "building"
    BY <1>3, <2>1 DEF NativeStart, BridgeInv, BridgeConsistent
  <2>3. NativeStage = "idle" /\ NativeStage' = "starting"
    BY <2>1 DEF Nobody, MainThread, Coroutines
  <2>4. Native!Grant
    BY <2>1, <2>2, <2>3 DEF Native!Grant
  <2> QED
    BY <2>4 DEF Native!Next
<1>4. ASSUME NEW c \in Coroutines, NativeStarted(c) PROVE [Native!Next]_MinerVars
  <2>1. gMutex = c /\ gMutex' = Nobody /\ ~gMining
    BY <1>4 DEF NativeStarted, MutexAfterFailure, BridgeInv, BridgeConsistent
  <2>2. NativeStage = "starting" /\ NativeStage' = "idle"
    BY <2>1 DEF Nobody, MainThread, Coroutines
  <2>3. gMining \in BOOLEAN
    BY Flags DEF TypeOK
  <2>4. /\ (gMiner' = "running") \in BOOLEAN
        /\ gMining' = (gMiner' = "running")
    BY <1>4, <2>1, <2>3 DEF NativeStarted
  <2>5. Native!Started
    BY <2>2, <2>4 DEF Native!Started
  <2> QED
    BY <2>5 DEF Native!Next
<1>5. ASSUME UNCHANGED nativeVars PROVE [Native!Next]_MinerVars
  BY <1>5 DEF nativeVars
<1>6. CASE Start \/ StartIgnored \/ LockExpires \/ Rest \/ UNCHANGED vars
  BY <1>5, <1>6 DEF Start, StartIgnored, LockExpires, Rest, vars
<1>7. CASE StopIntent \/ PauseIntent \/ OnDestroy
  BY <1>5, <1>7 DEF StopIntent, PauseIntent, OnDestroy, BeginStop
<1>8. ASSUME NEW c \in Coroutines, Coroutine(c) PROVE [Native!Next]_MinerVars
  BY <1>3, <1>4, <1>5, <1>8 DEF Coroutine, Dispatch, NativeStart, SetMining, Refused,
     StatsBegin, StatsEnd, StatsCrash
<1> QED
  BY <1>1, <1>2, <1>6, <1>7, <1>8 DEF Next

-----------------------------------------------------------------------------
(* The specification                                                       *)

ServiceInv == TypeOK /\ Unlaunched /\ BridgeInv /\ TruthInv /\ LockInv

LEMMA ServiceInit == Init => ServiceInv
<1> SUFFICES ASSUME Init PROVE BridgeInv /\ TruthInv /\ LockInv
  BY TypeInit DEF ServiceInv
<1>1. BridgeInv /\ LockInv
  BY DEF Init, BridgeInv, BridgeConsistent, Building, Resetting, LockInv
<1>2. TruthInv
  BY DEF Init, TruthInv, StopsAlone, StartsOwned, WonMines, MiningSeen, Starting, Stopping
<1> QED
  BY <1>1, <1>2

LEMMA ServiceStep == ServiceInv /\ [Next]_vars => ServiceInv'
  BY TypeStep, BridgeStep, TruthStep, LockStep DEF ServiceInv

LEMMA ServiceAlways == Spec => []ServiceInv
  BY ServiceInit, ServiceStep, PTL DEF Spec

\* Whatever is sent to the service, whoever holds g_mutex is inside one of the
\* functions that take it, and no coroutine stands where none can.
THEOREM TypeCorrect == Spec => []TypeOK
<1>1. ServiceInv => TypeOK
  BY DEF ServiceInv
<1> QED
  BY <1>1, ServiceAlways, PTL

\* The native globals agree with each other in every interleaving, and as long
\* as no stop has overlapped a start, isMining tells the truth about them and
\* nativeGetStats cannot crash before a stop is asked for.
THEOREM ServiceIsTruthful == Spec => []SettledTruth
<1>1. ServiceInv => SettledTruth
  <2>1. ServiceInv => BridgeConsistent
    BY DEF ServiceInv, BridgeInv
  <2>2. ServiceInv => StatsGuarded
    BY MinerThere DEF ServiceInv, StatsGuarded
  <2>3. ASSUME ServiceInv, ~overtaken, main = "idle", \A c \in Coroutines : ~Starting(c)
        PROVE  (alive /\ isMining) <=> gMining
    BY <2>3, Flags DEF ServiceInv, TypeOK, TruthInv, MiningSeen, Starting
  <2> QED
    BY <2>1, <2>2, <2>3 DEF SettledTruth
<1> QED
  BY <1>1, ServiceAlways, PTL

\* A wake lock that outlives the service is one whose only reference another
\* START has overwritten.
THEOREM LocksAreAccounted == Spec => []LockAccounted
<1>1. ServiceInv => LockAccounted
  BY DEF ServiceInv, TypeOK, PlacesOK, LockInv, LockAccounted, Coroutines
<1> QED
  BY <1>1, ServiceAlways, PTL

\* Whatever is sent to the service and however its threads interleave, the
\* library behaves as one native miner: starts and stops take turns, none is
\* granted over a miner that is reported, and what is reported is true between
\* them.
THEOREM NativeMinerImplemented == Spec => ImplementsNative
<1>1. Init => Native!Init
  <2>1. Init => NativeStage = "idle"
    BY DEF Init, NativeStage, Nobody, MainThread
  <2>2. Init => (gMiner = "running") = FALSE /\ gMining = FALSE
    BY DEF Init
  <2> QED
    BY <2>1, <2>2 DEF Native!Init
<1>2. ServiceInv /\ [Next]_vars => [Native!Next]_MinerVars
  BY MinerStep DEF ServiceInv
<1> QED
  BY <1>1, <1>2, ServiceAlways, PTL DEF Spec, ImplementsNative, Native!Spec, MinerVars

-----------------------------------------------------------------------------
(* The limits                                                              *)

\* Neither a hotter device nor one with less charge gets more threads.
LEMMA HotterNever ==
  ASSUME NEW temp \in Int, NEW charge \in Int,
         NEW Temps \in SUBSET Int, NEW Charges \in SUBSET Int
  PROVE  HotterNeverMore(temp, charge, Temps, Charges)
<1> SUFFICES ASSUME NEW t \in Temps, temp <= t
             PROVE  /\ ThermalLimit(t) <= ThermalLimit(temp)
                    /\ \A l \in Charges, n \in 0 .. 8 : l <= charge =>
                         (IF TooHot(t) THEN 0 ELSE WrapperThreads(n, l, t))
                           <= (IF TooHot(temp) THEN 0 ELSE WrapperThreads(n, charge, temp))
  BY DEF HotterNeverMore
<1>1. ThermalLimit(t) <= ThermalLimit(temp)
  BY DEF ThermalLimit
<1>2. ASSUME NEW l \in Charges, NEW n \in 0 .. 8, l <= charge
      PROVE  (IF TooHot(t) THEN 0 ELSE WrapperThreads(n, l, t))
               <= (IF TooHot(temp) THEN 0 ELSE WrapperThreads(n, charge, temp))
  BY <1>2 DEF TooHot, WrapperThreads, AtMost
<1> QED
  BY <1>1, <1>2

\* initialize_android never starts more than the thermal module allows.
LEMMA StricterAt ==
  ASSUME NEW t \in Int, NEW l \in Int, NEW n \in 0 .. 8, ~TooHot(t)
  PROVE  WrapperThreads(n, l, t) <= ThermalLimit(t)
  BY DEF TooHot, WrapperThreads, ThermalLimit, AtMost

\* The processors that may be used are integers, at most those there are; a
\* flag or a processor less never gives more.
LEMMA UsableBounds ==
  ASSUME NEW c \in Int, NEW hot \in BOOLEAN, NEW low \in BOOLEAN
  PROVE  /\ UsableCpus(c, hot, low) \in Int
         /\ UsableCpus(c, hot, low) <= c
         /\ c > 4 => UsableCpus(c, hot, low) < c
         /\ hot => UsableCpus(c, hot, low) <= 2
         /\ low => UsableCpus(c, hot, low) <= 1
         /\ UsableCpus(c, TRUE, low) <= UsableCpus(c, hot, low)
         /\ UsableCpus(c - 1, hot, low) <= UsableCpus(c, hot, low)
  BY DEF UsableCpus, AtMost

\* The threads the memory suffices for.
LEMMA MemoryBounds ==
  ASSUME NEW free \in Nat, NEW wide \in BOOLEAN
  PROVE  /\ MemoryThreads(free, wide) \in Nat
         /\ 2 * MemoryThreads(free, wide) <= free
         /\ ~wide => MemoryThreads(free, wide) <= 1
<1>1. CASE wide
  BY <1>1 DEF MemoryThreads
<1>2. CASE ~wide
  BY <1>2 DEF MemoryThreads
<1> QED
  BY <1>1, <1>2

\* The optimal thread count keeps within cores, memory and flags.
LEMMA CountIsSound ==
  ASSUME NEW Cs \in SUBSET Int, NEW Ms \in SUBSET Nat
  PROVE  CountSound(Cs, Ms)
<1> SUFFICES ASSUME NEW c \in Cs, NEW free \in Ms, NEW wide \in BOOLEAN,
                    NEW hot \in BOOLEAN, NEW low \in BOOLEAN
             PROVE  LET n == OptimalThreads(c, free, wide, hot, low) IN
                    /\ n \in 1 .. 8
                    /\ n = 1 \/ (n <= c /\ 2 * n <= free)
                    /\ c > 4 => n < c
                    /\ hot => n <= 2
                    /\ low => n = 1
                    /\ ~wide => n = 1
                    /\ OptimalThreads(c, free, wide, TRUE, low) <= n
                    /\ OptimalThreads(c - 1, free, wide, hot, low) <= n
  BY DEF CountSound
<1>1. c \in Int /\ c - 1 \in Int /\ free \in Nat
  OBVIOUS
<1> DEFINE u == UsableCpus(c, hot, low)
           uHot == UsableCpus(c, TRUE, low)
           uLess == UsableCpus(c - 1, hot, low)
           m == MemoryThreads(free, wide)
           opt(k) == AtLeast(1, AtMost(k, AtMost(m, 8)))
<1>2. /\ u \in Int /\ uHot \in Int /\ uLess \in Int
      /\ u <= c
      /\ c > 4 => u < c
      /\ hot => u <= 2
      /\ low => u <= 1
      /\ uHot <= u /\ uLess <= u
  BY <1>1, UsableBounds
<1>3. m \in Nat /\ 2 * m <= free /\ (~wide => m <= 1)
  BY <1>1, MemoryBounds
<1>4. /\ OptimalThreads(c, free, wide, hot, low) = opt(u)
      /\ OptimalThreads(c, free, wide, TRUE, low) = opt(uHot)
      /\ OptimalThreads(c - 1, free, wide, hot, low) = opt(uLess)
  BY DEF OptimalThreads
<1> HIDE DEF u, uHot, uLess, m
<1>5. /\ opt(u) \in 1 .. 8
      /\ opt(u) = 1 \/ (opt(u) <= u /\ opt(u) <= m)
      /\ opt(uHot) <= opt(u) /\ opt(uLess) <= opt(u)
  BY <1>2, <1>3 DEF AtLeast, AtMost
<1>6. opt(u) = 1 \/ (opt(u) <= c /\ 2 * opt(u) <= free)
  BY <1>1, <1>2, <1>3, <1>5
<1>7. /\ c > 4 => opt(u) < c
      /\ hot => opt(u) <= 2
      /\ low => opt(u) = 1
      /\ ~wide => opt(u) = 1
  BY <1>1, <1>2, <1>3, <1>5
<1> HIDE DEF opt
<1> QED
  BY <1>4, <1>5, <1>6, <1>7

\* The intensity falls with the charge.
LEMMA IntensityIsSound ==
  ASSUME NEW Ls \in SUBSET Int
  PROVE  IntensitySound(Ls)
<1> SUFFICES ASSUME NEW l \in Ls, NEW m \in Ls, NEW on \in BOOLEAN, NEW plugged \in BOOLEAN
             PROVE  /\ l <= m => Intensity(on, l, plugged) <= Intensity(on, m, plugged)
                    /\ Intensity(on, l, plugged) = 100 <=> (~on \/ plugged \/ l > 80)
  BY DEF IntensitySound
<1> QED
  BY DEF Intensity

-----------------------------------------------------------------------------
(* The globals                                                             *)

\* Every global keeps its type, whatever the sensors report.
THEOREM PolicyTypeCorrect == PolicySpec => []PolicyTypeOK
<1>1. PolicyInit => PolicyTypeOK
  <2> SUFFICES ASSUME PolicyInit PROVE PolicyTypeOK
    OBVIOUS
  <2>1. level \in Int /\ bridgeTemp \in Int /\ thermalTemp \in Int /\ limit \in {0, 1, 2, 8}
    BY SMT DEF PolicyInit
  <2>2. /\ charging \in BOOLEAN /\ lowPower \in BOOLEAN /\ throttled \in BOOLEAN
        /\ throttling \in BOOLEAN /\ optimization \in BOOLEAN
    BY Zenon DEF PolicyInit
  <2> QED
    BY <2>1, <2>2 DEF PolicyTypeOK
<1>2. PolicyTypeOK /\ [PolicyNext]_policyVars => PolicyTypeOK'
  <2> SUFFICES ASSUME PolicyTypeOK, [PolicyNext]_policyVars PROVE PolicyTypeOK'
    OBVIOUS
  <2>1. ASSUME NEW l \in Levels, NEW plugged \in BOOLEAN, UpdateBatteryStatus(l, plugged)
        PROVE  PolicyTypeOK'
    BY <2>1, PowerAssumption DEF UpdateBatteryStatus, LowPowerAfter, PolicyTypeOK, thermalVars
  <2>2. ASSUME NEW temp \in Temperatures, UpdateTemperature(temp)
        PROVE  PolicyTypeOK'
    BY <2>2, PowerAssumption DEF UpdateTemperature, ThrottledAfter, PolicyTypeOK, thermalVars
  <2>3. ASSUME NEW temp \in Temperatures, UpdateThermalState(temp)
        PROVE  PolicyTypeOK'
    <3>1. ThermalLimit(temp) \in {0, 1, 2, 8}
      BY PowerAssumption DEF ThermalLimit
    <3> QED
      BY <2>3, <3>1, PowerAssumption DEF UpdateThermalState, PolicyTypeOK, bridgeVars
  <2>4. ASSUME NEW enabled \in BOOLEAN, SetBatteryOptimization(enabled)
        PROVE  PolicyTypeOK'
    BY <2>4 DEF SetBatteryOptimization, PolicyTypeOK, bridgeVars, thermalVars
  <2>5. CASE UNCHANGED policyVars
    BY <2>5 DEF policyVars, PolicyTypeOK, bridgeVars, thermalVars
  <2> QED
    BY <2>1, <2>2, <2>3, <2>4, <2>5 DEF PolicyNext
<1> QED
  BY <1>1, <1>2, PTL DEF PolicySpec

\* What each flag says of the temperature its own module was last told.
ThermalInv ==
  /\ throttling <=> thermalTemp >= 450
  /\ limit = ThermalLimit(thermalTemp)
  /\ throttled => bridgeTemp >= 450
  /\ bridgeTemp >= 550 /\ bridgeTemp < 650 => throttled

\* ThermalInv and the low power mode are kept by every report.
LEMMA FlagStep ==
  ASSUME PolicyTypeOK, ThermalInv, LowPowerSound, [PolicyNext]_policyVars
  PROVE  (ThermalInv /\ LowPowerSound)'
<1>1. ASSUME NEW l \in Levels, NEW plugged \in BOOLEAN, UpdateBatteryStatus(l, plugged)
      PROVE  (ThermalInv /\ LowPowerSound)'
  <2>1. LowPowerSound'
    BY <1>1 DEF UpdateBatteryStatus, LowPowerAfter, LowPowerSound, PolicyTypeOK
  <2>2. ThermalInv'
    BY <1>1 DEF UpdateBatteryStatus, ThermalInv, thermalVars
  <2> QED
    BY <2>1, <2>2
<1>2. ASSUME NEW temp \in Temperatures, UpdateTemperature(temp)
      PROVE  (ThermalInv /\ LowPowerSound)'
  <2>1. (throttled => bridgeTemp >= 450)' /\ (bridgeTemp >= 550 /\ bridgeTemp < 650 => throttled)'
    BY <1>2, PowerAssumption DEF UpdateTemperature, ThrottledAfter
  <2> QED
    BY <1>2, <2>1 DEF UpdateTemperature, ThermalInv, LowPowerSound, thermalVars
<1>3. ASSUME NEW temp \in Temperatures, UpdateThermalState(temp)
      PROVE  (ThermalInv /\ LowPowerSound)'
  <2>1. /\ throttling' = (temp >= 450) /\ thermalTemp' = temp
        /\ limit' = ThermalLimit(temp)
        /\ UNCHANGED <<level, charging, lowPower, bridgeTemp, throttled>>
    BY <1>3, Zenon DEF UpdateThermalState, bridgeVars
  <2>2. throttling' <=> thermalTemp' >= 450
    BY <2>1, Zenon
  <2>3. limit' = ThermalLimit(thermalTemp')
    BY <2>1, Zenon
  <2>4. /\ throttled' => bridgeTemp' >= 450
        /\ bridgeTemp' >= 550 /\ bridgeTemp' < 650 => throttled'
    <3>1. bridgeTemp' = bridgeTemp /\ throttled' = throttled
      BY <2>1, Zenon
    <3>2. throttled' => bridgeTemp' >= 450
      <4>1. throttled => bridgeTemp >= 450
        BY Zenon DEF ThermalInv
      <4> QED
        BY <3>1, <4>1, Zenon
    <3>3. bridgeTemp' >= 550 /\ bridgeTemp' < 650 => throttled'
      <4>1. bridgeTemp >= 550 /\ bridgeTemp < 650 => throttled
        BY Zenon DEF ThermalInv
      <4> QED
        BY <3>1, <4>1, Zenon
    <3> QED
      BY <3>2, <3>3, Zenon
  <2>5. ThermalInv'
    BY <2>2, <2>3, <2>4, Zenon DEF ThermalInv
  <2>6. LowPowerSound'
    BY <2>1, Zenon DEF LowPowerSound
  <2> QED
    BY <2>5, <2>6
<1>4. ASSUME NEW enabled \in BOOLEAN, SetBatteryOptimization(enabled)
      PROVE  (ThermalInv /\ LowPowerSound)'
  BY <1>4 DEF SetBatteryOptimization, ThermalInv, LowPowerSound, bridgeVars, thermalVars
<1>5. CASE UNCHANGED policyVars
  BY <1>5 DEF policyVars, ThermalInv, LowPowerSound, bridgeVars, thermalVars
<1> QED
  BY <1>1, <1>2, <1>3, <1>4, <1>5 DEF PolicyNext

\* The flags hold in the initial state.
LEMMA FlagInit == PolicyInit => ThermalInv /\ LowPowerSound
  BY DEF PolicyInit, ThermalInv, LowPowerSound, ThermalLimit

\* The flags of the bridge are right for the last reports and agree with those
\* of the thermal module as far as the code lets them, for any reports in any
\* order.
THEOREM FlagsAreTruthful == PolicySpec => []FlagsTruthful
<1>1. PolicyTypeOK /\ ThermalInv /\ LowPowerSound => FlagsTruthful
  <2> SUFFICES ASSUME PolicyTypeOK, ThermalInv, bridgeTemp = thermalTemp
               PROVE  /\ throttled => throttling /\ limit <= 2
                      /\ (throttling /\ ~throttled) =>
                           (bridgeTemp >= 450 /\ bridgeTemp < 550) \/ bridgeTemp >= 650
    BY DEF FlagsTruthful, ThermalAgree
  <2>1. thermalTemp >= 450 => ThermalLimit(thermalTemp) <= 2
    BY DEF PolicyTypeOK, ThermalLimit
  <2> QED
    BY <2>1 DEF PolicyTypeOK, ThermalInv
<1>2. PolicyTypeOK /\ ThermalInv /\ LowPowerSound /\ [PolicyNext]_policyVars => (ThermalInv /\ LowPowerSound)'
  BY FlagStep
<1> QED
  BY FlagInit, PolicyTypeCorrect, <1>1, <1>2, PTL DEF PolicySpec

\* The limits of the four places keep their promises, whatever was reported last
\* and for every temperature, charge, number of processors and amount of memory.
THEOREM LimitsAreSound == PolicySpec => []LimitsSound
<1>1. PolicyTypeOK => LimitsSound
  <2> SUFFICES ASSUME PolicyTypeOK PROVE LimitsSound
    OBVIOUS
  <2>1. HotterNeverMore(thermalTemp, level, Temperatures, Levels)
    BY HotterNever, PowerAssumption DEF PolicyTypeOK
  <2>2. WrapperStricter(Temperatures, Levels)
    BY StricterAt, PowerAssumption DEF WrapperStricter
  <2>3. CountSound(CpuCounts \cup {-1}, Memories)
    BY CountIsSound, PowerAssumption
  <2>4. IntensitySound(Levels)
    BY IntensityIsSound, PowerAssumption
  <2> QED
    BY <2>1, <2>2, <2>3, <2>4 DEF LimitsSound
<1> QED
  BY PolicyTypeCorrect, <1>1, PTL DEF PolicySpec

=============================================================================
