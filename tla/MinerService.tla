----------------------------- MODULE MinerService -----------------------------
(***************************************************************************)
(* The Android foreground service (MinerService.kt) and the JNI functions  *)
(* it calls (cpp/android_main.cpp), in the service's own process.          *)
(*                                                                         *)
(* The main thread runs onStartCommand and onDestroy; every accepted START *)
(* launches a coroutine that calls nativeStartMining, which may take long  *)
(* (it connects) and holds g_mutex meanwhile, and then polls the           *)
(* statistics.  stopSelf() makes the system destroy the instance later; a  *)
(* START after that creates another one in the same process, where the     *)
(* globals of the native library live on.                                  *)
(***************************************************************************)
EXTENDS Integers, FiniteSets

CONSTANTS
  MaxStarts,     \* bound on the STARTs accepted
  MaxInstances,  \* bound on the service instances created
  MaxPauses      \* bound on the PAUSEs sent

Coroutines == 1 .. MaxStarts

\* Holders of g_mutex that are no coroutine.
Nobody == 0
MainThread == -1

ASSUME ServiceAssumption ==
  MaxStarts \in Nat \ {0} /\ MaxInstances \in Nat \ {0} /\ MaxPauses \in Nat

VARIABLES
  alive,       \* a service instance exists
  instance,    \* its number
  isMining,    \* its isMining
  scopeLive,   \* its coroutine scope has not been cancelled
  stopSelf,    \* stopSelf() has been called: onDestroy will come
  wakeLock,    \* its wakeLock: the number of the lock, 0 for null
  heldLocks,   \* the wake locks the system holds for the process
  main,        \* what the main thread is doing
  co,          \* where each coroutine stands
  of,          \* the instance each coroutine belongs to
  launched,    \* coroutines launched so far
  pauses,      \* PAUSEs sent so far
  gMutex,      \* who holds g_mutex
  gMiner,      \* g_miner: "none", "building" or "running"
  gMining,     \* g_mining
  callbackRef, \* g_callback_object and g_callback_class are set
  process,     \* "up" or "crashed"
  overtaken,   \* history: a stop has begun while a start was under way
  overwritten  \* history: a START has replaced a wake lock by another

serviceVars == <<alive, instance, isMining, scopeLive, stopSelf, wakeLock, heldLocks>>
coVars == <<co, of, launched>>
nativeVars == <<gMutex, gMiner, gMining, callbackRef>>
history == <<overtaken, overwritten>>
vars == <<serviceVars, main, coVars, pauses, nativeVars, process, history>>

Init ==
  /\ alive = FALSE
  /\ instance = 0
  /\ isMining = FALSE
  /\ scopeLive = FALSE
  /\ stopSelf = FALSE
  /\ wakeLock = 0
  /\ heldLocks = {}
  /\ main = "idle"
  /\ co = [c \in Coroutines |-> "none"]
  /\ of = [c \in Coroutines |-> 0]
  /\ launched = 0
  /\ pauses = 0
  /\ gMutex = Nobody
  /\ gMiner = "none"
  /\ gMining = FALSE
  /\ callbackRef = FALSE
  /\ process = "up"
  /\ overtaken = FALSE
  /\ overwritten = FALSE

-----------------------------------------------------------------------------
(* Guards and effects of the actions below.  Where a definition is named   *)
(* Faulty..., it is the next definition with a plausible slip; no action   *)
(* uses it.                                                                *)

Move(c, label) == co' = [co EXCEPT ![c] = label]

\* A start has been accepted and isMining not been set for it yet.
Starting(c) == co[c] \in {"launched", "enter", "connecting", "won"}

\* The coroutine's instance still exists.
Own(c) == alive /\ of[c] = instance

\* nativeStartMining refuses a second miner.
AlreadyRunning == gMining

\* g_mining once the miner runs, and once it is gone.
FaultyMiningAfterStop == gMining
MiningAfterStop == FALSE

\* g_mutex is released on every path.
FaultyMutexAfterFailure == gMutex
MutexAfterFailure == Nobody

\* stopMining() gives the wake lock back.
FaultyReleased == UNCHANGED <<wakeLock, heldLocks>>
Released == heldLocks' = heldLocks \ {wakeLock} /\ wakeLock' = 0

\* A native start that returned false ends the service.
FaultyAfterRefusal(c) == stopSelf
AfterRefusal(c) == stopSelf \/ Own(c)

-----------------------------------------------------------------------------
(* The main thread                                                         *)

MainFree == main = "idle" /\ process = "up"

\* Any intent creates an instance if there is none.
Instance ==
  IF alive
  THEN UNCHANGED <<instance, scopeLive, stopSelf>>
  ELSE /\ instance < MaxInstances
       /\ instance' = instance + 1
       /\ scopeLive' = TRUE
       /\ stopSelf' = FALSE

\* ACTION_START with a config.  isMining is only set once the native miner
\* runs, so a second START while the first one connects is accepted too, and
\* its wake lock replaces the first in wakeLock.
Start ==
  LET c == launched + 1 IN
  /\ MainFree
  /\ c \in Coroutines
  /\ ~(alive /\ isMining)
  /\ Instance
  /\ alive' = TRUE
  /\ isMining' = FALSE
  /\ wakeLock' = c
  /\ heldLocks' = heldLocks \cup {c}
  /\ overwritten' = (overwritten \/ wakeLock # 0)
  /\ launched' = c
  /\ of' = [of EXCEPT ![c] = instance']
  /\ Move(c, IF scopeLive' THEN "launched" ELSE "over")
  /\ UNCHANGED <<main, pauses, nativeVars, process, overtaken>>

\* ACTION_START without a config, or while isMining is set.
StartIgnored ==
  /\ MainFree
  /\ ~alive
  /\ Instance
  /\ alive' = TRUE
  /\ isMining' = FALSE
  /\ UNCHANGED <<wakeLock, heldLocks, main, coVars, pauses, nativeVars, process, history>>

\* ACTION_STOP, ACTION_PAUSE and onDestroy clear isMining and then wait for
\* g_mutex in nativeStopMining.
BeginStop(kind) ==
  /\ alive' = TRUE
  /\ isMining' = FALSE
  /\ main' = kind
  /\ overtaken' = (overtaken \/ \E c \in Coroutines : Starting(c))
  /\ UNCHANGED <<wakeLock, heldLocks, coVars, nativeVars, process, overwritten>>

StopIntent ==
  /\ MainFree
  /\ Instance
  /\ BeginStop("stop")
  /\ UNCHANGED pauses

PauseIntent ==
  /\ MainFree
  /\ pauses < MaxPauses
  /\ pauses' = pauses + 1
  /\ Instance
  /\ BeginStop("pause")

OnDestroy ==
  /\ MainFree /\ alive /\ stopSelf
  /\ BeginStop("destroy")
  /\ UNCHANGED <<instance, scopeLive, stopSelf, pauses>>

Stopping == {"stop", "pause", "destroy"}

\* nativeStopMining: stop_mining() and reset() under g_mutex ...
NativeStop ==
  /\ main \in Stopping /\ process = "up"
  /\ gMutex = Nobody
  /\ gMutex' = MainThread
  /\ gMiner' = "none"
  /\ UNCHANGED <<serviceVars, main, coVars, pauses, gMining, callbackRef, process, history>>

\* ... then g_mining and the global references, and the rest of stopMining()
\* or pauseMining().
NativeStopped ==
  /\ main \in Stopping /\ process = "up"
  /\ gMutex = MainThread
  /\ gMutex' = Nobody
  /\ gMining' = MiningAfterStop
  /\ callbackRef' = FALSE
  /\ Released
  /\ scopeLive' = (scopeLive /\ main = "pause")
  /\ stopSelf' = (stopSelf \/ main = "stop")
  /\ alive' = (alive /\ main # "destroy")
  /\ main' = "idle"
  /\ UNCHANGED <<instance, isMining, coVars, pauses, gMiner, process, history>>

-----------------------------------------------------------------------------
(* The coroutines                                                          *)

\* A coroutine whose scope is cancelled before it runs never does.
Dispatch(c) ==
  /\ co[c] = "launched" /\ process = "up"
  /\ Move(c, IF Own(c) /\ scopeLive THEN "enter" ELSE "over")
  /\ UNCHANGED <<serviceVars, main, of, launched, pauses, nativeVars, process, history>>

\* nativeStartMining takes g_mutex: it returns false if a miner runs, and
\* otherwise replaces the references, makes the miner and initializes it.
NativeStart(c) ==
  /\ co[c] = "enter" /\ process = "up"
  /\ gMutex = Nobody
  /\ IF AlreadyRunning
     THEN Move(c, "lost") /\ UNCHANGED nativeVars
     ELSE /\ Move(c, "connecting")
          /\ gMutex' = c
          /\ callbackRef' = TRUE
          /\ gMiner' = "building"
          /\ UNCHANGED gMining
  /\ UNCHANGED <<serviceVars, main, of, launched, pauses, process, history>>

\* initialize() succeeds and mining starts, or it fails and the miner goes.
NativeStarted(c) ==
  /\ co[c] = "connecting" /\ process = "up"
  /\ \/ /\ gMiner' = "running" /\ gMining' = TRUE
        /\ gMutex' = Nobody
        /\ Move(c, "won")
     \/ /\ gMiner' = "none" /\ gMutex' = MutexAfterFailure
        /\ Move(c, "lost")
        /\ UNCHANGED gMining
  /\ UNCHANGED <<serviceVars, main, of, launched, pauses, callbackRef, process, history>>

\* isMining = true, unless the instance it belongs to is gone.
SetMining(c) ==
  /\ co[c] = "won" /\ process = "up"
  /\ isMining' = (isMining \/ Own(c))
  /\ Move(c, "loop")
  /\ UNCHANGED <<alive, instance, scopeLive, stopSelf, wakeLock, heldLocks, main, of,
                 launched, pauses, nativeVars, process, history>>

Refused(c) ==
  /\ co[c] = "lost" /\ process = "up"
  /\ stopSelf' = AfterRefusal(c)
  /\ Move(c, "over")
  /\ UNCHANGED <<alive, instance, isMining, scopeLive, wakeLock, heldLocks, main, of,
                 launched, pauses, nativeVars, process, history>>

\* updateNotificationLoop: nativeGetStats looks at g_miner and g_mining
\* without g_mutex ...
StatsBegin(c) ==
  /\ co[c] = "loop" /\ process = "up"
  /\ IF Own(c) /\ isMining /\ scopeLive
     THEN gMiner # "none" /\ gMining /\ Move(c, "stats")
     ELSE Move(c, "over")
  /\ UNCHANGED <<serviceVars, main, of, launched, pauses, nativeVars, process, history>>

\* ... and uses g_miner: if it has been reset meanwhile, that may kill the
\* process.
StatsEnd(c) ==
  /\ co[c] = "stats" /\ process = "up"
  /\ Move(c, "loop")
  /\ UNCHANGED <<serviceVars, main, of, launched, pauses, nativeVars, process, history>>

StatsCrash(c) ==
  /\ co[c] = "stats" /\ process = "up"
  /\ gMiner # "running"
  /\ process' = "crashed"
  /\ UNCHANGED <<serviceVars, main, coVars, pauses, nativeVars, history>>

Coroutine(c) ==
  \/ Dispatch(c) \/ NativeStart(c) \/ NativeStarted(c) \/ SetMining(c) \/ Refused(c)
  \/ StatsBegin(c) \/ StatsEnd(c) \/ StatsCrash(c)

\* A wake lock is acquired for ten minutes.
LockExpires ==
  /\ \E l \in heldLocks : heldLocks' = heldLocks \ {l}
  /\ UNCHANGED <<alive, instance, isMining, scopeLive, stopSelf, wakeLock, main, coVars,
                 pauses, nativeVars, process, history>>

\* Nothing need happen while the main thread waits for the next intent.
Rest == (main = "idle" \/ process = "crashed") /\ UNCHANGED vars

Next ==
  \/ Start \/ StartIgnored \/ StopIntent \/ PauseIntent \/ OnDestroy \/ NativeStop \/ NativeStopped
  \/ \E c \in Coroutines : Coroutine(c)
  \/ LockExpires
  \/ Rest

\* Threads are scheduled, connecting to the pool ends, g_mutex goes to the
\* main thread if it is free again and again, and the system destroys an
\* instance that has stopped itself.
Fairness ==
  /\ \A c \in Coroutines : WF_vars(Coroutine(c))
  /\ SF_vars(NativeStop) /\ WF_vars(NativeStopped) /\ SF_vars(OnDestroy)

Spec == Init /\ [][Next]_vars /\ Fairness

-----------------------------------------------------------------------------
(* Properties                                                              *)

CoLabels == {"none", "launched", "enter", "connecting", "won", "lost", "loop", "stats", "over"}

FlagsOK ==
  {alive, isMining, scopeLive, stopSelf, gMining, callbackRef, overtaken, overwritten}
    \subseteq BOOLEAN

PlacesOK ==
  /\ instance \in 0 .. MaxInstances /\ launched \in 0 .. MaxStarts
  /\ wakeLock \in 0 .. MaxStarts /\ heldLocks \subseteq Coroutines
  /\ main \in Stopping \cup {"idle"}
  /\ co \in [Coroutines -> CoLabels] /\ of \in [Coroutines -> 0 .. MaxInstances]
  /\ pauses \in 0 .. MaxPauses
  /\ \/ gMutex = Nobody
     \/ gMutex = MainThread /\ main \in Stopping
     \/ gMutex \in Coroutines /\ co[gMutex] = "connecting"
  /\ gMiner \in {"none", "building", "running"}
  /\ process \in {"up", "crashed"}

\* The variables have their types, and whoever holds g_mutex is inside one of
\* the functions that take it (android_main.cpp:75, 120).
TypeOK == FlagsOK /\ PlacesOK

\* Whenever g_mutex is free, g_mining says whether there is a miner and the
\* references live as long as it does; while a start holds g_mutex no other
\* miner exists beneath the one it builds (android_main.cpp:75-116, 120-129).
BridgeConsistent ==
  /\ gMutex = Nobody =>
       /\ gMiner # "building"
       /\ gMining <=> gMiner = "running"
       /\ gMining => callbackRef
  /\ \A c \in Coroutines : co[c] = "connecting" => gMutex = c /\ ~gMining

\* As long as no stop has overlapped a start, a service that says it mines has
\* its miner: nativeGetStats, which tests and uses g_miner without g_mutex, can
\* only meet one that is gone, and crash, after a stop has been asked for
\* (MinerService.kt:110-127, android_main.cpp:136-141).
StatsGuarded == (~overtaken /\ isMining) => gMiner = "running" /\ process = "up"

\* The native globals agree at all times; and as long as no stop has overlapped
\* a start, whatever STARTs, STOPs and PAUSEs were sent: statistics are read
\* safely until a stop; and once everything has settled, isMining tells the
\* truth and no miner runs without its service (MinerService.kt:81-142,
\* android_main.cpp:75-141).
SettledTruth ==
  /\ BridgeConsistent
  /\ StatsGuarded
  /\ (~overtaken /\ main = "idle" /\ \A c \in Coroutines : ~Starting(c)) =>
       ((alive /\ isMining) <=> gMining)

\* A wake lock outlives the service only if a second START has overwritten
\* the only reference to it (MinerService.kt:88, 146-163).
LockAccounted ==
  ~alive => wakeLock = 0 /\ (~overwritten => heldLocks = {})

NativeStage ==
  CASE gMutex = Nobody -> "idle"
    [] gMutex = MainThread -> "stopping"
    [] OTHER -> "starting"

Native ==
  INSTANCE NativeMiner WITH
    Killable <- FALSE, stage <- NativeStage, mines <- gMiner = "running", reported <- gMining

\* For its callers the library is one native miner, whichever threads call it:
\* who holds g_mutex is starting or stopping it, and the service implements
\* NativeMiner (android_main.cpp:75-116, 120-129).
ImplementsNative == Native!Spec

\* The main thread always gets out of nativeStopMining, although it may have
\* to wait for starts that connect (MinerService.kt:125-142).
StopReturns == main \in Stopping ~> (main = "idle" \/ process = "crashed")

\* A START that loses against a running miner, or cannot connect, ends the
\* service that asked for it, and with it the miner that runs
\* (MinerService.kt:98-106, 207-210).
RefusalEndsService ==
  \A c \in Coroutines :
    (co[c] = "lost" /\ Own(c)) ~> (~Own(c) \/ process = "crashed")

-----------------------------------------------------------------------------
(* What the documentation says and the code does not do                    *)

\* "nativeStopMining() - Stop mining gracefully" (MINING_IMPLEMENTATION.md:73):
\* when the service is gone and all its coroutines have ended, nothing mines.
StoppedMeansStopped ==
  (~alive /\ \A c \in Coroutines : co[c] \in {"none", "over"}) => gMiner = "none"

=============================================================================
