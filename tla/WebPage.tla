-------------------------------- MODULE WebPage --------------------------------
(***************************************************************************)
(* The web interface: miner.js in the WebView of MainActivity, the object  *)
(* MinerBridge it calls, and the JNI functions of miner_bridge.cpp, all in *)
(* the application's main process (the service has a process, and so       *)
(* native globals, of its own).                                            *)
(*                                                                         *)
(* A call into MinerBridge blocks the page's script and runs on a          *)
(* background thread of its WebView.  When the activity is created anew,   *)
(* a new page runs the script from the start; a call of the old page that  *)
(* is under way goes on, and the native globals live on.                   *)
(***************************************************************************)
EXTENDS Integers

CONSTANTS
  MaxPages,  \* bound on the pages loaded
  MaxShares  \* bound on the shares the pool accepts from one miner

ASSUME WebAssumption == MaxPages \in Nat \ {0} /\ MaxShares \in Nat

Pages == 1 .. MaxPages
Nobody == 0

VARIABLES
  page,      \* the page shown
  mining,    \* its script's mining
  timer,     \* its statsTimer is set
  status,    \* its statusText: "READY", "MINING", "ERROR" or "STOPPED"
  shown,     \* its totalShares.accepted
  call,      \* where each page's call into MinerBridge stands
  loaded,    \* nativeLibraryLoaded
  gMutex,    \* the page whose call holds g_mutex
  gMiner,    \* g_miner: "none", "building", "running", or "ending" in stop_mining()
  gMining,   \* g_mining
  accepted,  \* shares g_miner counts as accepted
  carried    \* history: a page has appeared while an older one's call ran

scriptVars == <<mining, timer, status, shown>>
nativeVars == <<gMutex, gMiner, gMining, accepted>>
vars == <<page, scriptVars, call, loaded, nativeVars, carried>>

FreshScript(m, t, st, sh) == m = FALSE /\ t = FALSE /\ st = "READY" /\ sh = 0
FreshNative(mu, mi, g, a) == mu = Nobody /\ mi = "none" /\ g = FALSE /\ a = 0

Init ==
  /\ page = 1
  /\ FreshScript(mining, timer, status, shown)
  /\ call = [p \in Pages |-> "none"]
  /\ loaded \in BOOLEAN
  /\ FreshNative(gMutex, gMiner, gMining, accepted)
  /\ carried = FALSE

At(p, step) == call[p] = step
Goto(p, step) == call' = [call EXCEPT ![p] = step]

\* The page's script runs: none of its calls is under way.
ScriptFree == At(page, "none")

-----------------------------------------------------------------------------
(* Guards and effects of the actions below.  Where a definition is named   *)
(* Faulty..., it is the next definition with a plausible slip; no action   *)
(* uses it.                                                                *)

MutexFree == gMutex = Nobody

\* g_mutex once a start has failed.
FaultyMutexAfterFailure == gMutex
MutexAfterFailure == Nobody

\* nativeStartMining refuses a second miner.
FaultyAlreadyRunning == FALSE
AlreadyRunning == gMining

\* The script takes mining back when the start failed.
FaultyMiningAfterFailure == mining
MiningAfterFailure == FALSE

\* stopMining() in the script clears the interval.
TimerAfterStop == FALSE

\* startMining() in the script starts counting from nothing.
FaultyCountAtStart == shown
CountAtStart == 0

\* updateStats() shows the native count unless it is zero.
CountRead == IF accepted > 0 THEN accepted ELSE shown

-----------------------------------------------------------------------------
(* startMining()                                                           *)

\* Start is pressed with settings the script accepts; otherwise it returns
\* at once.
PressStart ==
  /\ ScriptFree /\ ~mining
  /\ mining' = TRUE /\ status' = "MINING" /\ shown' = CountAtStart
  /\ Goto(page, "start")
  /\ UNCHANGED <<page, timer, loaded, nativeVars, carried>>

NoLibrary(p) ==
  /\ At(p, "start") /\ ~loaded
  /\ Goto(p, "startFailed")
  /\ UNCHANGED <<page, scriptVars, loaded, nativeVars, carried>>

\* nativeStartMining takes g_mutex, and refuses or makes a miner ...
NativeStart(p) ==
  /\ At(p, "start") /\ loaded
  /\ MutexFree
  /\ IF AlreadyRunning
     THEN Goto(p, "startFailed") /\ UNCHANGED nativeVars
     ELSE /\ Goto(p, "starting")
          /\ gMutex' = p /\ gMiner' = "building" /\ accepted' = 0
          /\ UNCHANGED gMining
  /\ UNCHANGED <<page, scriptVars, loaded, carried>>

\* ... which mines if it could connect, and goes if it could not.
NativeStarted(p) ==
  /\ At(p, "starting")
  /\ \/ /\ gMiner' = "running" /\ gMining' = TRUE
        /\ gMutex' = Nobody
        /\ Goto(p, "startDone")
     \/ /\ gMiner' = "none" /\ gMutex' = MutexAfterFailure
        /\ Goto(p, "startFailed")
        /\ UNCHANGED gMining
  /\ UNCHANGED <<page, scriptVars, loaded, accepted, carried>>

\* A call returns to a script that may be gone.
Return(p) ==
  /\ Goto(p, "none")
  /\ UNCHANGED <<page, loaded, nativeVars, carried>>

Returned(p) ==
  /\ p # page
  /\ call[p] \in {"startDone", "startFailed", "stopped", "read"}
  /\ Return(p) /\ UNCHANGED scriptVars

StartReturns ==
  /\ At(page, "startDone")
  /\ Return(page)
  /\ timer' = TRUE
  /\ UNCHANGED <<mining, status, shown>>

StartFails ==
  /\ At(page, "startFailed")
  /\ Return(page)
  /\ mining' = MiningAfterFailure /\ status' = "ERROR"
  /\ UNCHANGED <<timer, shown>>

-----------------------------------------------------------------------------
(* stopMining()                                                            *)

PressStop ==
  /\ ScriptFree /\ mining
  /\ mining' = FALSE
  /\ Goto(page, "stop")
  /\ UNCHANGED <<page, timer, status, shown, loaded, nativeVars, carried>>

\* nativeStopMining takes g_mutex and calls stop_mining() on the miner, if there
\* is one ...
NativeStop(p) ==
  /\ At(p, "stop")
  /\ MutexFree
  /\ gMutex' = p
  /\ gMiner' = IF gMiner = "none" THEN "none" ELSE "ending"
  /\ Goto(p, "stopping")
  /\ UNCHANGED <<page, scriptVars, loaded, gMining, accepted, carried>>

\* ... then resets it ...
NativeReset(p) ==
  /\ At(p, "stopping") /\ gMiner = "ending"
  /\ gMiner' = "none"
  /\ UNCHANGED <<page, scriptVars, call, loaded, gMutex, gMining, accepted, carried>>

\* ... and clears g_mining.
NativeStopped(p) ==
  /\ At(p, "stopping") /\ gMiner = "none"
  /\ gMutex' = Nobody /\ gMining' = FALSE
  /\ Goto(p, "stopped")
  /\ UNCHANGED <<page, scriptVars, loaded, gMiner, accepted, carried>>

StopReturnsToPage ==
  /\ At(page, "stopped")
  /\ Return(page)
  /\ timer' = TimerAfterStop /\ status' = "STOPPED"
  /\ UNCHANGED <<mining, shown>>

-----------------------------------------------------------------------------
(* updateStats()                                                           *)

\* The interval fires; nativeGetStats looks at g_mining and g_miner without
\* g_mutex.
TimerFires ==
  /\ ScriptFree /\ timer /\ mining
  /\ Goto(page, IF gMining /\ gMiner # "none" THEN "stats" ELSE "read")
  /\ UNCHANGED <<page, scriptVars, loaded, nativeVars, carried>>

\* It then uses g_miner: StatsSafe says that nothing has reset it meanwhile.
ReadStats(p) ==
  /\ At(p, "stats")
  /\ shown' = IF p = page THEN CountRead ELSE shown
  /\ Goto(p, "read")
  /\ UNCHANGED <<page, mining, timer, status, loaded, nativeVars, carried>>

StatsReturn ==
  /\ At(page, "read")
  /\ Return(page) /\ UNCHANGED scriptVars

-----------------------------------------------------------------------------
(* The environment                                                         *)

\* The receive thread lives until the miner is destroyed.
ShareAccepted ==
  /\ gMiner \in {"running", "ending"} /\ accepted < MaxShares
  /\ accepted' = accepted + 1
  /\ UNCHANGED <<page, scriptVars, call, loaded, gMutex, gMiner, gMining, carried>>

\* The activity is destroyed and created anew in the same process.
Recreate ==
  /\ page < MaxPages
  /\ page' = page + 1
  /\ FreshScript(mining', timer', status', shown')
  /\ carried' = (carried \/ \E p \in Pages : call[p] # "none")
  /\ UNCHANGED <<call, loaded, nativeVars>>

\* The process is killed and the user opens the application again.
Restart ==
  /\ page < MaxPages
  /\ page' = page + 1
  /\ FreshScript(mining', timer', status', shown')
  /\ FreshNative(gMutex', gMiner', gMining', accepted')
  /\ call' = [p \in Pages |-> "none"]
  /\ carried' = FALSE
  /\ UNCHANGED loaded

BridgeCall(p) ==
  \/ NoLibrary(p) \/ NativeStart(p) \/ NativeStarted(p)
  \/ NativeStop(p) \/ NativeReset(p) \/ NativeStopped(p)
  \/ ReadStats(p)
  \/ Returned(p)

ScriptResumes == StartReturns \/ StartFails \/ StopReturnsToPage \/ StatsReturn

Next ==
  \/ PressStart \/ PressStop \/ TimerFires
  \/ \E p \in Pages : BridgeCall(p)
  \/ ScriptResumes
  \/ ShareAccepted \/ Recreate \/ Restart

\* A call goes on until it returns (connecting has a timeout, stop_mining()
\* ends), g_mutex goes to a caller if it is free again and again, and the
\* interval keeps firing.
Fairness ==
  /\ \A p \in Pages : SF_vars(BridgeCall(p))
  /\ WF_vars(ScriptResumes)
  /\ SF_vars(TimerFires)

Spec == Init /\ [][Next]_vars /\ Fairness

-----------------------------------------------------------------------------
(* Properties                                                              *)

Steps == {"none", "start", "starting", "startDone", "startFailed", "stop", "stopping",
          "stopped", "stats", "read"}

FlagsOK == {mining, timer, loaded, gMining, carried} \subseteq BOOLEAN

PlacesOK ==
  /\ page \in Pages
  /\ status \in {"READY", "MINING", "ERROR", "STOPPED"}
  /\ shown \in 0 .. MaxShares /\ accepted \in 0 .. MaxShares
  /\ call \in [Pages -> Steps]
  /\ gMutex \in Pages \cup {Nobody}
  /\ gMiner \in {"none", "building", "running", "ending"}

\* The variables have their types; the page never counts more shares than a
\* miner can have had accepted (miner.js:55-58).
TypeOK == FlagsOK /\ PlacesOK

\* A page at rest polls and says that it mines exactly if it mines; then it
\* has a miner, whatever calls of earlier pages are under way.  The page that
\* is asked to stop has one no longer, unless it appeared during such a call.
\* The first page, which no other miner can precede, mines whenever there is a
\* miner: its Stop button is enabled (miner.js:73-152, miner_bridge.cpp:37-112).
PageTruth ==
  ScriptFree =>
    /\ timer <=> mining
    /\ status = "MINING" <=> mining
    /\ mining => gMining /\ gMiner = "running"
    /\ (~carried /\ status = "STOPPED") => ~gMining /\ gMiner = "none"
    /\ page = 1 => (gMining => mining)

\* nativeGetStats tests and uses g_miner without g_mutex, yet no other call
\* stops, resets or replaces the miner in between: the page that polls cannot stop,
\* and a later page can neither start a second miner nor stop this one
\* (miner_bridge.cpp:42-46, 112-120, miner.js:115, 136).
StatsSafe == \A p \in Pages : call[p] = "stats" => gMiner = "running"

\* The page never shows shares its miner has not been credited with
\* (miner.js:55-58, 100).
SharesAreReal == (ScriptFree /\ mining) => shown <= accepted

NativeStage == IF gMutex = Nobody THEN "idle" ELSE call[gMutex]

Native ==
  INSTANCE NativeMiner WITH
    Killable <- TRUE, stage <- NativeStage, mines <- gMiner = "running", reported <- gMining

\* For the pages the library is one native miner, whatever calls of pages that
\* are gone are under way: the call that holds g_mutex is starting or stopping
\* it, and the pages implement NativeMiner (miner_bridge.cpp:42-95, 104-110).
ImplementsNative == Native!Spec

\* A press of Start or Stop is answered, whatever calls of earlier pages it
\* has to wait for (miner.js:115-126, 139-141).
PressAnswered ==
  call[page] # "none" ~> call[page] = "none"

=============================================================================
