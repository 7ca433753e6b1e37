------------------------------ MODULE WebPageProofs ------------------------------
(***************************************************************************)
(* Theorems about WebPage, for any number of pages and shares.             *)
(***************************************************************************)
EXTENDS WebPage, TLAPS

\* No call of a page that has not appeared, and only one of the page shown
\* unless an older one's was under way when it appeared.
CallsOfShown ==
  /\ \A p \in Pages : p > page => call[p] = "none"
  /\ ~carried => \A p \in Pages \ {page} : call[p] = "none"

\* What the globals are while a call holds g_mutex, and while none does.
NativeInv ==
  /\ gMutex = Nobody =>
       gMiner \notin {"building", "ending"} /\ (gMining <=> gMiner = "running")
  /\ \A p \in Pages :
       /\ call[p] = "starting" => gMutex = p /\ gMiner = "building" /\ ~gMining
       /\ call[p] = "stopping" => gMutex = p /\ gMiner \in {"none", "ending"}
       /\ gMutex = p => call[p] \in {"starting", "stopping"}

\* The miner belongs to the page whose start has made it, until that page has
\* stopped it or is gone.
Owns(p) ==
  \/ call[p] \in {"startDone", "stop", "stopping", "stats"}
  \/ p = page /\ mining /\ call[p] \in {"none", "read"}

OwnerInv ==
  /\ \A p, q \in Pages : Owns(p) /\ Owns(q) => p = q
  /\ \A p \in Pages : Owns(p) =>
       /\ gMining
       /\ call[p] # "stopping" => gMiner = "running"

\* The script's variables, wherever its call stands.
ScriptInv ==
  /\ call[page] = "none" => (timer <=> mining) /\ (status = "MINING" <=> mining)
  /\ call[page] \in {"stats", "read"} => timer /\ mining /\ status = "MINING"
  /\ call[page] \in {"start", "starting", "startDone", "startFailed"} =>
       ~timer /\ mining /\ status = "MINING"
  /\ call[page] \in {"stop", "stopping", "stopped"} => ~mining /\ status = "MINING"

\* What the page that no older call disturbs knows about the miner.
StoppedInv ==
  (~carried /\ (status = "STOPPED" \/ call[page] = "stopped")) => ~gMining /\ gMiner = "none"

FirstPageInv ==
  page = 1 =>
    /\ gMining => mining \/ call[page] \in {"stop", "stopping"}
    /\ call[page] \in {"start", "starting", "startFailed"} => ~gMining

SharesInv ==
  mining => /\ shown <= accepted
            /\ call[page] \in {"start", "starting", "startFailed"} => shown = 0

-----------------------------------------------------------------------------
(* Types                                                                   *)

\* FlagsOK, flag by flag.
LEMMA Flags ==
  FlagsOK => /\ mining \in BOOLEAN /\ timer \in BOOLEAN /\ loaded \in BOOLEAN
             /\ gMining \in BOOLEAN /\ carried \in BOOLEAN
  BY Zenon DEF FlagsOK

LEMMA FlagsStep ==
  ASSUME FlagsOK, [Next]_vars
  PROVE  FlagsOK'
<1> USE DEF FlagsOK, Return, FreshScript, FreshNative, scriptVars, nativeVars
<1>1. CASE PressStart \/ PressStop \/ TimerFires
  BY <1>1, Zenon DEF PressStart, PressStop, TimerFires
<1>2. CASE ScriptResumes
  BY <1>2, Zenon DEF ScriptResumes, StartReturns, StartFails, StopReturnsToPage, StatsReturn,
     MiningAfterFailure, TimerAfterStop
<1>3. ASSUME NEW p \in Pages, BridgeCall(p) PROVE FlagsOK'
  BY <1>3, Zenon DEF BridgeCall, NoLibrary, NativeStart, NativeStarted, NativeStop,
     NativeReset, NativeStopped, ReadStats, Returned
<1>4. CASE ShareAccepted \/ Recreate \/ Restart \/ UNCHANGED vars
  BY <1>4, Zenon DEF ShareAccepted, Recreate, Restart, vars
<1> QED
  BY <1>1, <1>2, <1>3, <1>4 DEF Next

LEMMA PlacesStep ==
  ASSUME PlacesOK, CallsOfShown, [Next]_vars
  PROVE  PlacesOK'
<1> USE Flags, WebAssumption DEF PlacesOK, Steps,
        Pages, Nobody, At, Goto, ScriptFree, Return, scriptVars, nativeVars
<1>1. CASE PressStart
  BY <1>1 DEF PressStart, CountAtStart
<1>2. CASE PressStop
  BY <1>2 DEF PressStop
<1>3. CASE TimerFires
  BY <1>3 DEF TimerFires
<1>4. CASE StartReturns
  BY <1>4 DEF StartReturns
<1>5. CASE StartFails
  BY <1>5 DEF StartFails, MiningAfterFailure
<1>6. CASE StopReturnsToPage
  BY <1>6 DEF StopReturnsToPage, TimerAfterStop
<1>7. CASE StatsReturn
  BY <1>7 DEF StatsReturn
<1>8. ASSUME NEW p \in Pages, BridgeCall(p) PROVE PlacesOK'
  <2>1. CASE NoLibrary(p)
    BY <2>1 DEF NoLibrary
  <2>2. CASE NativeStart(p)
    BY <2>2 DEF NativeStart, AlreadyRunning, MutexFree
  <2>3. CASE NativeStarted(p)
    BY <2>3 DEF NativeStarted, MutexAfterFailure
  <2>4. CASE NativeStop(p)
    BY <2>4 DEF NativeStop, MutexFree
  <2>5. CASE NativeReset(p) \/ NativeStopped(p)
    BY <2>5 DEF NativeReset, NativeStopped
  <2>6. CASE ReadStats(p)
    BY <2>6 DEF ReadStats, CountRead
  <2>7. CASE Returned(p)
    BY <2>7 DEF Returned
  <2> QED
    BY <1>8, <2>1, <2>2, <2>3, <2>4, <2>5, <2>6, <2>7 DEF BridgeCall
<1>9. CASE ShareAccepted \/ UNCHANGED vars
  BY <1>9 DEF ShareAccepted, vars
<1>10. CASE Recreate
  BY <1>10 DEF Recreate, FreshScript
<1>11. CASE Restart
  BY <1>11 DEF Restart, FreshScript, FreshNative
<1> QED
  BY <1>1, <1>2, <1>3, <1>4, <1>5, <1>6, <1>7, <1>8, <1>9, <1>10, <1>11 DEF Next, ScriptResumes

-----------------------------------------------------------------------------
(* The calls and g_mutex                                                   *)

LEMMA CallsStep ==
  ASSUME TypeOK, CallsOfShown, [Next]_vars
  PROVE  CallsOfShown'
<1> USE Flags, WebAssumption DEF TypeOK, PlacesOK, CallsOfShown,
        Pages, Nobody, At, Goto, ScriptFree, Return, scriptVars, nativeVars
<1>1. CASE PressStart
  BY <1>1 DEF PressStart, CountAtStart
<1>2. CASE PressStop
  BY <1>2 DEF PressStop
<1>3. CASE TimerFires
  BY <1>3 DEF TimerFires
<1>4. CASE StartReturns
  BY <1>4 DEF StartReturns
<1>5. CASE StartFails
  BY <1>5 DEF StartFails, MiningAfterFailure
<1>6. CASE StopReturnsToPage
  BY <1>6 DEF StopReturnsToPage, TimerAfterStop
<1>7. CASE StatsReturn
  BY <1>7 DEF StatsReturn
<1>8. ASSUME NEW p \in Pages, BridgeCall(p) PROVE CallsOfShown'
  <2>1. CASE NoLibrary(p)
    BY <2>1 DEF NoLibrary
  <2>2. CASE NativeStart(p)
    BY <2>2 DEF NativeStart, AlreadyRunning, MutexFree
  <2>3. CASE NativeStarted(p)
    BY <2>3 DEF NativeStarted, MutexAfterFailure
  <2>4. CASE NativeStop(p)
    BY <2>4 DEF NativeStop, MutexFree
  <2>5. CASE NativeReset(p) \/ NativeStopped(p)
    BY <2>5 DEF NativeReset, NativeStopped
  <2>6. CASE ReadStats(p)
    BY <2>6 DEF ReadStats, CountRead
  <2>7. CASE Returned(p)
    BY <2>7 DEF Returned
  <2> QED
    BY <1>8, <2>1, <2>2, <2>3, <2>4, <2>5, <2>6, <2>7 DEF BridgeCall
<1>9. CASE ShareAccepted \/ UNCHANGED vars
  BY <1>9 DEF ShareAccepted, vars
<1>10. CASE Recreate
  <2>1. page' = page + 1 /\ call' = call
    BY <1>10 DEF Recreate
  <2>2. ~carried' => \A p \in Pages : call[p] = "none"
    BY <1>10 DEF Recreate
  <2> QED
    BY <2>1, <2>2
<1>11. CASE Restart
  BY <1>11 DEF Restart, FreshScript, FreshNative
<1> QED
  BY <1>1, <1>2, <1>3, <1>4, <1>5, <1>6, <1>7, <1>8, <1>9, <1>10, <1>11 DEF Next, ScriptResumes

LEMMA NativeStep ==
  ASSUME TypeOK, NativeInv, [Next]_vars
  PROVE  NativeInv'
<1> USE Flags, WebAssumption DEF TypeOK, PlacesOK, NativeInv,
        Pages, Nobody, At, Goto, ScriptFree, Return, scriptVars, nativeVars
<1>1. CASE PressStart
  BY <1>1 DEF PressStart, CountAtStart
<1>2. CASE PressStop
  BY <1>2 DEF PressStop
<1>3. CASE TimerFires
  BY <1>3 DEF TimerFires
<1>4. CASE StartReturns
  BY <1>4 DEF StartReturns
<1>5. CASE StartFails
  BY <1>5 DEF StartFails, MiningAfterFailure
<1>6. CASE StopReturnsToPage
  BY <1>6 DEF StopReturnsToPage, TimerAfterStop
<1>7. CASE StatsReturn
  BY <1>7 DEF StatsReturn
<1>8. ASSUME NEW p \in Pages, BridgeCall(p) PROVE NativeInv'
  <2>1. CASE NoLibrary(p)
    BY <2>1 DEF NoLibrary
  <2>2. CASE NativeStart(p)
    BY <2>2 DEF NativeStart, AlreadyRunning, MutexFree
  <2>3. CASE NativeStarted(p)
    BY <2>3 DEF NativeStarted, MutexAfterFailure
  <2>4. CASE NativeStop(p)
    BY <2>4 DEF NativeStop, MutexFree
  <2>5. CASE NativeReset(p) \/ NativeStopped(p)
    BY <2>5 DEF NativeReset, NativeStopped
  <2>6. CASE ReadStats(p)
    BY <2>6 DEF ReadStats, CountRead
  <2>7. CASE Returned(p)
    BY <2>7 DEF Returned
  <2> QED
    BY <1>8, <2>1, <2>2, <2>3, <2>4, <2>5, <2>6, <2>7 DEF BridgeCall
<1>9. CASE ShareAccepted \/ UNCHANGED vars
  BY <1>9 DEF ShareAccepted, vars
<1>10. CASE Recreate
  BY <1>10 DEF Recreate, FreshScript
<1>11. CASE Restart
  BY <1>11 DEF Restart, FreshScript, FreshNative
<1> QED
  BY <1>1, <1>2, <1>3, <1>4, <1>5, <1>6, <1>7, <1>8, <1>9, <1>10, <1>11 DEF Next, ScriptResumes

-----------------------------------------------------------------------------
(* Whose the miner is                                                      *)

\* A start only succeeds when nothing mines, so a second page cannot come to
\* own a miner, stop this one, or poll another.
LEMMA OwnerStep ==
  ASSUME TypeOK, NativeInv, OwnerInv, ScriptInv, [Next]_vars
  PROVE  OwnerInv'
<1> USE Flags, WebAssumption DEF TypeOK, PlacesOK, OwnerInv, Owns, ScriptInv,
        Pages, Nobody, At, Goto, ScriptFree, Return, scriptVars, nativeVars
<1>1. CASE PressStart
  BY <1>1 DEF PressStart, CountAtStart
<1>2. CASE PressStop
  BY <1>2 DEF PressStop
<1>3. CASE TimerFires
  BY <1>3 DEF TimerFires
<1>4. CASE StartReturns
  BY <1>4 DEF StartReturns
<1>5. CASE StartFails
  BY <1>5 DEF StartFails, MiningAfterFailure
<1>6. CASE StopReturnsToPage
  BY <1>6 DEF StopReturnsToPage, TimerAfterStop
<1>7. CASE StatsReturn
  BY <1>7 DEF StatsReturn
<1>8. ASSUME NEW p \in Pages, BridgeCall(p) PROVE OwnerInv'
  <2>1. CASE NoLibrary(p)
    BY <2>1 DEF NoLibrary
  <2>2. CASE NativeStart(p)
    BY <2>2 DEF NativeStart, AlreadyRunning, MutexFree
  <2>3. CASE NativeStarted(p)
    BY <2>3 DEF NativeStarted, MutexAfterFailure, NativeInv
  <2>4. CASE NativeStop(p)
    BY <2>4 DEF NativeStop, MutexFree
  <2>5. CASE NativeReset(p) \/ NativeStopped(p)
    BY <2>5 DEF NativeReset, NativeStopped
  <2>6. CASE ReadStats(p)
    BY <2>6 DEF ReadStats, CountRead
  <2>7. CASE Returned(p)
    BY <2>7 DEF Returned
  <2> QED
    BY <1>8, <2>1, <2>2, <2>3, <2>4, <2>5, <2>6, <2>7 DEF BridgeCall
<1>9. CASE ShareAccepted \/ UNCHANGED vars
  BY <1>9 DEF ShareAccepted, vars
<1>10. CASE Recreate
  BY <1>10 DEF Recreate, FreshScript
<1>11. CASE Restart
  BY <1>11 DEF Restart, FreshScript, FreshNative
<1> QED
  BY <1>1, <1>2, <1>3, <1>4, <1>5, <1>6, <1>7, <1>8, <1>9, <1>10, <1>11 DEF Next, ScriptResumes

-----------------------------------------------------------------------------
(* What the script shows                                                   *)

LEMMA ScriptStep ==
  ASSUME TypeOK, CallsOfShown, ScriptInv, [Next]_vars
  PROVE  ScriptInv'
<1> USE Flags, WebAssumption DEF TypeOK, PlacesOK, ScriptInv, CallsOfShown,
        Pages, Nobody, At, Goto, ScriptFree, Return, scriptVars, nativeVars
<1>1. CASE PressStart
  BY <1>1 DEF PressStart, CountAtStart
<1>2. CASE PressStop
  BY <1>2 DEF PressStop
<1>3. CASE TimerFires
  BY <1>3 DEF TimerFires
<1>4. CASE StartReturns
  BY <1>4 DEF StartReturns
<1>5. CASE StartFails
  BY <1>5 DEF StartFails, MiningAfterFailure
<1>6. CASE StopReturnsToPage
  BY <1>6 DEF StopReturnsToPage, TimerAfterStop
<1>7. CASE StatsReturn
  BY <1>7 DEF StatsReturn
<1>8. ASSUME NEW p \in Pages, BridgeCall(p) PROVE ScriptInv'
  <2>1. CASE NoLibrary(p)
    BY <2>1 DEF NoLibrary
  <2>2. CASE NativeStart(p)
    BY <2>2 DEF NativeStart, AlreadyRunning, MutexFree
  <2>3. CASE NativeStarted(p)
    BY <2>3 DEF NativeStarted, MutexAfterFailure
  <2>4. CASE NativeStop(p)
    BY <2>4 DEF NativeStop, MutexFree
  <2>5. CASE NativeReset(p) \/ NativeStopped(p)
    BY <2>5 DEF NativeReset, NativeStopped
  <2>6. CASE ReadStats(p)
    BY <2>6 DEF ReadStats, CountRead
  <2>7. CASE Returned(p)
    BY <2>7 DEF Returned
  <2> QED
    BY <1>8, <2>1, <2>2, <2>3, <2>4, <2>5, <2>6, <2>7 DEF BridgeCall
<1>9. CASE ShareAccepted \/ UNCHANGED vars
  BY <1>9 DEF ShareAccepted, vars
<1>10. CASE Recreate
  BY <1>10 DEF Recreate, FreshScript
<1>11. CASE Restart
  BY <1>11 DEF Restart, FreshScript, FreshNative
<1> QED
  BY <1>1, <1>2, <1>3, <1>4, <1>5, <1>6, <1>7, <1>8, <1>9, <1>10, <1>11 DEF Next, ScriptResumes

\* After its own stop, nothing but its own start brings a miner back.
LEMMA StoppedStep ==
  ASSUME TypeOK, CallsOfShown, NativeInv, ScriptInv, StoppedInv, [Next]_vars
  PROVE  StoppedInv'
<1> USE Flags, WebAssumption DEF TypeOK, PlacesOK, CallsOfShown, StoppedInv,
        Pages, Nobody, At, Goto, ScriptFree, Return, scriptVars, nativeVars
<1>1. CASE PressStart
  BY <1>1 DEF PressStart, CountAtStart
<1>2. CASE PressStop
  BY <1>2 DEF PressStop
<1>3. CASE TimerFires
  BY <1>3 DEF TimerFires
<1>4. CASE StartReturns
  BY <1>4 DEF StartReturns
<1>5. CASE StartFails
  BY <1>5 DEF StartFails, MiningAfterFailure
<1>6. CASE StopReturnsToPage
  BY <1>6 DEF StopReturnsToPage, TimerAfterStop
<1>7. CASE StatsReturn
  BY <1>7 DEF StatsReturn
<1>8. ASSUME NEW p \in Pages, BridgeCall(p) PROVE StoppedInv'
  <2>1. CASE NoLibrary(p)
    BY <2>1 DEF NoLibrary
  <2>2. CASE NativeStart(p)
    BY <2>2 DEF NativeStart, AlreadyRunning, MutexFree, NativeInv, ScriptInv
  <2>3. CASE NativeStarted(p)
    BY <2>3 DEF NativeStarted, MutexAfterFailure, NativeInv, ScriptInv
  <2>4. CASE NativeStop(p)
    BY <2>4 DEF NativeStop, MutexFree
  <2>5. CASE NativeReset(p) \/ NativeStopped(p)
    BY <2>5 DEF NativeReset, NativeStopped, NativeInv, ScriptInv
  <2>6. CASE ReadStats(p)
    BY <2>6 DEF ReadStats, CountRead
  <2>7. CASE Returned(p)
    BY <2>7 DEF Returned
  <2> QED
    BY <1>8, <2>1, <2>2, <2>3, <2>4, <2>5, <2>6, <2>7 DEF BridgeCall
<1>9. CASE ShareAccepted \/ UNCHANGED vars
  BY <1>9 DEF ShareAccepted, vars
<1>10. CASE Recreate
  BY <1>10 DEF Recreate, FreshScript
<1>11. CASE Restart
  BY <1>11 DEF Restart, FreshScript, FreshNative
<1> QED
  BY <1>1, <1>2, <1>3, <1>4, <1>5, <1>6, <1>7, <1>8, <1>9, <1>10, <1>11 DEF Next, ScriptResumes

\* On the first page a start is never refused.
LEMMA FirstPageStep ==
  ASSUME TypeOK, CallsOfShown, NativeInv, ScriptInv, FirstPageInv, [Next]_vars
  PROVE  FirstPageInv'
<1> USE Flags, WebAssumption DEF TypeOK, PlacesOK, CallsOfShown, FirstPageInv,
        Pages, Nobody, At, Goto, ScriptFree, Return, scriptVars, nativeVars
<1>1. CASE PressStart
  BY <1>1 DEF PressStart, CountAtStart
<1>2. CASE PressStop
  BY <1>2 DEF PressStop
<1>3. CASE TimerFires
  BY <1>3 DEF TimerFires
<1>4. CASE StartReturns
  BY <1>4 DEF StartReturns
<1>5. CASE StartFails
  BY <1>5 DEF StartFails, MiningAfterFailure
<1>6. CASE StopReturnsToPage
  BY <1>6 DEF StopReturnsToPage, TimerAfterStop
<1>7. CASE StatsReturn
  BY <1>7 DEF StatsReturn
<1>8. ASSUME NEW p \in Pages, BridgeCall(p) PROVE FirstPageInv'
  <2>1. CASE NoLibrary(p)
    BY <2>1 DEF NoLibrary
  <2>2. CASE NativeStart(p)
    BY <2>2 DEF NativeStart, AlreadyRunning, MutexFree
  <2>3. CASE NativeStarted(p)
    <3> SUFFICES ASSUME page = 1 PROVE FirstPageInv'
      BY <2>3 DEF NativeStarted
    <3>1. p = page
      BY <2>3 DEF NativeStarted
    <3>2. ~gMining /\ mining
      BY <2>3, <3>1 DEF NativeStarted, ScriptInv
    <3> QED
      BY <2>3, <3>1, <3>2 DEF NativeStarted
  <2>4. CASE NativeStop(p)
    BY <2>4 DEF NativeStop, MutexFree
  <2>5. CASE NativeReset(p) \/ NativeStopped(p)
    BY <2>5 DEF NativeReset, NativeStopped
  <2>6. CASE ReadStats(p)
    BY <2>6 DEF ReadStats, CountRead
  <2>7. CASE Returned(p)
    BY <2>7 DEF Returned
  <2> QED
    BY <1>8, <2>1, <2>2, <2>3, <2>4, <2>5, <2>6, <2>7 DEF BridgeCall
<1>9. CASE ShareAccepted \/ UNCHANGED vars
  BY <1>9 DEF ShareAccepted, vars
<1>10. CASE Recreate
  BY <1>10 DEF Recreate, FreshScript
<1>11. CASE Restart
  BY <1>11 DEF Restart, FreshScript, FreshNative
<1> QED
  BY <1>1, <1>2, <1>3, <1>4, <1>5, <1>6, <1>7, <1>8, <1>9, <1>10, <1>11 DEF Next, ScriptResumes

\* A miner whose shares are shown is not replaced beneath its page.
LEMMA SharesStep ==
  ASSUME TypeOK, OwnerInv, ScriptInv, SharesInv, [Next]_vars
  PROVE  SharesInv'
<1> USE Flags, WebAssumption DEF TypeOK, PlacesOK, SharesInv,
        Pages, Nobody, At, Goto, ScriptFree, Return, scriptVars, nativeVars
<1>1. CASE PressStart
  BY <1>1 DEF PressStart, CountAtStart
<1>2. CASE PressStop
  BY <1>2 DEF PressStop
<1>3. CASE TimerFires
  BY <1>3 DEF TimerFires
<1>4. CASE StartReturns
  BY <1>4 DEF StartReturns
<1>5. CASE StartFails
  BY <1>5 DEF StartFails, MiningAfterFailure
<1>6. CASE StopReturnsToPage
  BY <1>6 DEF StopReturnsToPage, TimerAfterStop
<1>7. CASE StatsReturn
  BY <1>7 DEF StatsReturn
<1>8. ASSUME NEW p \in Pages, BridgeCall(p) PROVE SharesInv'
  <2>1. CASE NoLibrary(p)
    BY <2>1 DEF NoLibrary
  <2>2. CASE NativeStart(p)
    <3>1. CASE AlreadyRunning
      BY <2>2, <3>1 DEF NativeStart
    <3>2. CASE ~AlreadyRunning
      <4>1. ~Owns(page)
        BY <3>2 DEF AlreadyRunning, OwnerInv
      <4>2. mining => call[page] \in {"start", "starting", "startFailed"}
        BY <4>1 DEF Owns, ScriptInv, Steps
      <4>3. accepted' = 0 /\ UNCHANGED <<mining, shown, page>>
        BY <2>2, <3>2 DEF NativeStart
      <4> QED
        BY <4>2, <4>3
    <3> QED
      BY <3>1, <3>2
  <2>3. CASE NativeStarted(p)
    BY <2>3 DEF NativeStarted, MutexAfterFailure
  <2>4. CASE NativeStop(p)
    BY <2>4 DEF NativeStop, MutexFree
  <2>5. CASE NativeReset(p) \/ NativeStopped(p)
    BY <2>5 DEF NativeReset, NativeStopped
  <2>6. CASE ReadStats(p)
    BY <2>6 DEF ReadStats, CountRead
  <2>7. CASE Returned(p)
    BY <2>7 DEF Returned
  <2> QED
    BY <1>8, <2>1, <2>2, <2>3, <2>4, <2>5, <2>6, <2>7 DEF BridgeCall
<1>9. CASE ShareAccepted \/ UNCHANGED vars
  <2>1. /\ UNCHANGED <<mining, shown, call, page>>
        /\ accepted' = accepted \/ accepted' = accepted + 1
    BY <1>9 DEF ShareAccepted, vars
  <2> QED
    BY <2>1
<1>10. CASE Recreate
  BY <1>10 DEF Recreate, FreshScript
<1>11. CASE Restart
  BY <1>11 DEF Restart, FreshScript, FreshNative
<1> QED
  BY <1>1, <1>2, <1>3, <1>4, <1>5, <1>6, <1>7, <1>8, <1>9, <1>10, <1>11 DEF Next, ScriptResumes

-----------------------------------------------------------------------------
(* The native miner                                                        *)

MinerVars == <<NativeStage, gMiner = "running", gMining>>

\* A call moves the native miner on; so does the death of the process; nothing
\* else touches it.
LEMMA CallStep ==
  ASSUME TypeOK, NativeInv, NEW p \in Pages, BridgeCall(p)
  PROVE  [Native!Next]_MinerVars
<1> USE Flags DEF TypeOK, PlacesOK, NativeInv, MinerVars, NativeStage, At, Goto,
        Pages, Nobody, nativeVars
<1>1. CASE NativeStart(p)
  <2>1. CASE AlreadyRunning
    BY <1>1, <2>1 DEF NativeStart, MutexFree
  <2>2. CASE ~AlreadyRunning
    <3>1. Native!Grant
      BY <1>1, <2>2 DEF NativeStart, MutexFree, AlreadyRunning, Native!Grant
    <3> QED
      BY <3>1 DEF Native!Next
  <2> QED
    BY <2>1, <2>2
<1>2. CASE NativeStarted(p)
  <2>1. NativeStage = "starting" /\ NativeStage' = "idle" /\ ~gMining
    BY <1>2 DEF NativeStarted, MutexAfterFailure
  <2>2. /\ (gMiner' = "running") \in BOOLEAN
        /\ gMining' = (gMiner' = "running")
    BY <1>2, <2>1 DEF NativeStarted
  <2>3. Native!Started
    BY <2>1, <2>2 DEF Native!Started
  <2> QED
    BY <2>3 DEF Native!Next
<1>3. CASE NativeStop(p)
  <2>1. Native!BeginStop
    BY <1>3 DEF NativeStop, MutexFree, Native!BeginStop
  <2> QED
    BY <2>1 DEF Native!Next
<1>4. CASE NativeStopped(p)
  <2>1. Native!Stopped
    BY <1>4 DEF NativeStopped, Native!Stopped
  <2> QED
    BY <2>1 DEF Native!Next
<1>5. CASE NoLibrary(p) \/ NativeReset(p) \/ ReadStats(p) \/ Returned(p)
  BY <1>5 DEF NoLibrary, NativeReset, ReadStats, Returned, Return
<1> QED
  BY <1>1, <1>2, <1>3, <1>4, <1>5 DEF BridgeCall

LEMMA MinerStep ==
  ASSUME TypeOK, NativeInv, [Next]_vars
  PROVE  [Native!Next]_MinerVars
<1> USE DEF TypeOK, PlacesOK, NativeInv, MinerVars, NativeStage, At, Goto, ScriptFree, Return,
        Pages, Nobody, nativeVars
<1>1. CASE PressStart \/ PressStop \/ TimerFires
  BY <1>1 DEF PressStart, PressStop, TimerFires
<1>2. CASE ScriptResumes
  BY <1>2 DEF ScriptResumes, StartReturns, StartFails, StopReturnsToPage, StatsReturn
<1>3. CASE ShareAccepted \/ Recreate \/ UNCHANGED vars
  BY <1>3 DEF ShareAccepted, Recreate, vars
<1>4. CASE Restart
  <2>1. Native!Killed
    BY <1>4 DEF Restart, FreshNative, Native!Killed
  <2> QED
    BY <2>1 DEF Native!Next
<1> QED
  BY <1>1, <1>2, <1>3, <1>4, CallStep DEF Next

-----------------------------------------------------------------------------
(* The specification                                                       *)

PageInv ==
  /\ TypeOK /\ CallsOfShown /\ NativeInv /\ OwnerInv /\ ScriptInv
  /\ StoppedInv /\ FirstPageInv /\ SharesInv

LEMMA PageInit == Init => PageInv
<1> SUFFICES ASSUME Init PROVE PageInv
  OBVIOUS
<1>1. FlagsOK
  BY Zenon DEF Init, FlagsOK, FreshScript, FreshNative
<1>2. /\ page = 1 /\ 1 \in Pages /\ call = [p \in Pages |-> "none"] /\ carried = FALSE
      /\ mining = FALSE /\ timer = FALSE /\ status = "READY" /\ shown = 0
      /\ gMutex = Nobody /\ gMiner = "none" /\ gMining = FALSE /\ accepted = 0
  BY WebAssumption DEF Init, FreshScript, FreshNative, Pages
<1>3. PlacesOK
  BY <1>2, WebAssumption DEF PlacesOK, Steps
<1>4. CallsOfShown /\ NativeInv
  BY <1>2 DEF CallsOfShown, NativeInv, Nobody, Pages
<1>5. OwnerInv
  BY <1>2 DEF OwnerInv, Owns
<1>6. ScriptInv /\ StoppedInv /\ FirstPageInv /\ SharesInv
  BY <1>2 DEF ScriptInv, StoppedInv, FirstPageInv, SharesInv
<1> QED
  BY <1>1, <1>3, <1>4, <1>5, <1>6 DEF PageInv, TypeOK

LEMMA PageStep == PageInv /\ [Next]_vars => PageInv'
  BY FlagsStep, PlacesStep, CallsStep, NativeStep, OwnerStep, ScriptStep, StoppedStep,
     FirstPageStep, SharesStep DEF PageInv, TypeOK

LEMMA PageAlways == Spec => []PageInv
  BY PageInit, PageStep, PTL DEF Spec

\* Every variable keeps its type on any number of pages; in particular the
\* shares shown never exceed what a miner can have had accepted.
THEOREM TypeCorrect == Spec => []TypeOK
<1>1. PageInv => TypeOK
  BY DEF PageInv
<1> QED
  BY <1>1, PageAlways, PTL

\* Whatever pages come and go while calls are under way: a page at rest that
\* says it mines has a running miner; one that has stopped has none, unless it
\* appeared during a call of an older page.
THEOREM PageIsTruthful == Spec => []PageTruth
<1>1. PageInv => PageTruth
  <2> SUFFICES ASSUME PageInv, call[page] = "none" PROVE PageTruth
    BY DEF PageTruth, ScriptFree, At
  <2>1. (timer <=> mining) /\ (status = "MINING" <=> mining)
    BY DEF PageInv, ScriptInv
  <2>2. mining => gMining /\ gMiner = "running"
    BY DEF PageInv, TypeOK, PlacesOK, OwnerInv, Owns
  <2>3. (~carried /\ status = "STOPPED") => ~gMining /\ gMiner = "none"
    BY DEF PageInv, StoppedInv
  <2>4. page = 1 => (gMining => mining)
    BY DEF PageInv, FirstPageInv
  <2> QED
    BY <2>1, <2>2, <2>3, <2>4 DEF PageTruth
<1> QED
  BY <1>1, PageAlways, PTL

\* nativeGetStats, which takes no lock, never uses a miner that another call
\* has reset or replaced.
THEOREM StatsAreSafe == Spec => []StatsSafe
<1>1. PageInv => StatsSafe
  BY DEF PageInv, OwnerInv, Owns, StatsSafe
<1> QED
  BY <1>1, PageAlways, PTL

\* No page shows more shares than its own miner has been credited with.
THEOREM ShownSharesAreReal == Spec => []SharesAreReal
<1>1. PageInv => SharesAreReal
  BY DEF PageInv, SharesInv, SharesAreReal
<1> QED
  BY <1>1, PageAlways, PTL

\* Whatever pages come and go while calls are under way, the library behaves
\* as one native miner: starts and stops take turns, none is granted over a
\* miner that is reported, and what is reported is true between them.
THEOREM NativeMinerImplemented == Spec => ImplementsNative
<1>1. Init => Native!Init
  BY DEF Init, Native!Init, NativeStage, FreshNative
<1>2. PageInv /\ [Next]_vars => [Native!Next]_MinerVars
  BY MinerStep DEF PageInv
<1> QED
  BY <1>1, <1>2, PageAlways, PTL DEF Spec, ImplementsNative, Native!Spec, MinerVars

=============================================================================
